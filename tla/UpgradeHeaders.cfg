CONSTANTS
  Sizes = {125, 126}
  RequestHead = 65535
  ResponseHead = 65536
  MaxSaid = 2
  Capacity = 3
  Faults = {"refuse", "missing", "backend", "cut"}
SPECIFICATION Spec
INVARIANT UpgradeConfirmed
CHECK_DEADLOCK FALSE

CONSTANTS
  Framings = {"none"}
  MaxBody = 1
  MaxResponse = 1
  Capacity = 3
  Faults = {"backend"}
SPECIFICATION Spec
INVARIANTS
  AnsweredByBackend
CHECK_DEADLOCK FALSE

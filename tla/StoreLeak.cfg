CONSTANTS
  Workers = {w1}
  Names = {n1}
  Specs = {s1}
  MaxCaptures = 2
  MaxImages = 1
  Faults = {"image"}
  None = None
  Bad = Bad
SPECIFICATION Spec
INVARIANTS
  ForgottenWorkersLeaveNoStubs
CHECK_DEADLOCK FALSE

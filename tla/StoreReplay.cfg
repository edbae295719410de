CONSTANTS
  Workers = {w1, w2}
  Names = {n1}
  Specs = {s1}
  MaxCaptures = 2
  MaxImages = 1
  Faults = {"image", "list", "inspect", "remove", "create", "connect", "start", "late", "persist", "unlink", "crash"}
  None = None
  Bad = Bad
SYMMETRY Symmetry
CONSTRAINT OneSendsMore
SPECIFICATION Spec
INVARIANTS
  TypeOK
  IInv
  WriteAhead
  AckDurable
  NoReplay
  StubsAdvance
  ReportedStubsServe
PROPERTIES
  HealthyUntouched
  TakenAdvance

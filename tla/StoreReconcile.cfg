CONSTANTS
  Workers = {w1}
  Names = {n1, n2}
  Specs = {s1}
  MaxCaptures = 2
  MaxImages = 2
  Faults = {"create", "connect", "start", "persist", "unlink", "crash"}
  None = None
  Bad = Bad
SPECIFICATION FairSpec
INVARIANTS
  ReconcileExact
  ReportedStubsServe
  TrackedStubs
PROPERTIES
  HealthyUntouched
  KeepsLedger
  StaleWorkersPruned

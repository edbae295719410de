CONSTANTS
  Framings = {"known"}
  MaxBody = 2
  MaxResponse = 2
  Capacity = 3
  Faults = {"refuse", "missing", "backend", "die", "early", "abort", "kill"}
SPECIFICATION FairSpec
INVARIANTS
  TypeOK
  WholeResponse
PROPERTIES
  UploadArrives
  Released
CHECK_DEADLOCK FALSE

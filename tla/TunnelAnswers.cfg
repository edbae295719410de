CONSTANTS
  Framings = {"none", "known", "chunked"}
  MaxBody = 2
  MaxResponse = 2
  Capacity = 3
  Faults = {"refuse", "missing", "early", "abort", "cut", "kill"}
SPECIFICATION FairSpec
INVARIANTS
  EmptyOnlyWhenLost
PROPERTIES
  Released
CHECK_DEADLOCK FALSE

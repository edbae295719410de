CONSTANTS
  Framings = {"chunked"}
  MaxBody = 1
  MaxResponse = 1
  Capacity = 3
  Faults = {}
SPECIFICATION FairSpec
PROPERTIES
  UploadArrives
CHECK_DEADLOCK FALSE

CONSTANTS
  Ids = {c1, c2}
  MaxVersion = 2
  MaxFaults = 2
  MaxNet = 2
SPECIFICATION FairSpec
INVARIANTS
  TypeOK
  HeardIsListed
  StubsRouted
PROPERTIES
  Mirrors
  Converges

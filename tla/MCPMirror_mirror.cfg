SPECIFICATION FairSpec
INVARIANTS
  MirrorWithinUpstream
PROPERTIES
  FillsStore
  BootstrapIsComplete
  
  MirrorStarts
CONSTANTS
  MaxHeight = 3
  HasFloor = TRUE
  FloorAt = 1
  LiveCap = 2
  UpstreamFails = TRUE
  MaxFaults = 1

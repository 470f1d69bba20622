SPECIFICATION FairSpec
PROPERTIES
  GrowsForward
CONSTANTS
  MaxHeight = 3
  HasFloor = FALSE
  FloorAt = 1
  LiveCap = 2
  UpstreamFails = FALSE
  MaxFaults = 0

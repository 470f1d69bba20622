SPECIFICATION FairSpec
INVARIANTS
  FrontierIsHighWater
PROPERTIES
  FrontierAdvances
  ImplementsFeed
CONSTANTS
  MaxHeight = 2
  HasFloor = TRUE
  FloorAt = 0
  FILL_CHUNK = 2
  Concurrency = 2
  UpstreamFails = TRUE
  MaxFaults = 1

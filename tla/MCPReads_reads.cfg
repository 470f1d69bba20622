SPECIFICATION ReadsSpec
INVARIANTS
  RewardsResolved
  AnnouncedDurable
  ReportedHeightStands
  CommittedIsServed
CONSTANTS
  MaxHeight = 2
  HasFloor = FALSE
  FloorAt = 0
  FILL_CHUNK = 2
  Concurrency = 1
  UpstreamFails = FALSE
  MaxFaults = 1
  MaxRequests = 2

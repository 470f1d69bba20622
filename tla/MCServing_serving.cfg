SPECIFICATION ServingSpec
CHECK_DEADLOCK FALSE
INVARIANTS
  
  ServedToTheEnd
  BusyNeverReaped
  HealthRangeStored
PROPERTIES
  SilentConnectionEnds
  DownloadEnds
CONSTANTS
  RequestKinds = {"subscription", "bulk", "health"}
  MaxHeight = 3
  HasFloor = TRUE
  FloorAt = 1
  MaxBlocks = 2
  IdleTicks = 2
  SocketCap = 1

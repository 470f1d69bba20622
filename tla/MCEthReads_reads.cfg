SPECIFICATION ReadsSpec
INVARIANTS
  
  
  LatestServed
  
CONSTANTS
  MaxHeight = 2
  HasFloor = TRUE
  FloorAt = 1
  Cap = 1
  IngestLogs = TRUE
  Receipts = TRUE
  Mirror = FALSE
  LOGS_WINDOW = 2
  Concurrency = 1
  Failing <- LiveFails
  MaxFaults = 1
  HasData <- OneHasLogs
  GETLOGS_READ_CHUNK = 1
  MAX_GETLOGS_RANGE = 2

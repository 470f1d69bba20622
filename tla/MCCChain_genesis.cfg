SPECIFICATION FairSpec
PROPERTIES
  GapsClose
CONSTANTS
  MaxHeight = 3
  HasFloor = TRUE
  FloorAt = 0
  Cap = 2
  IngestLogs = TRUE
  Receipts = FALSE
  Mirror = FALSE
  LOGS_WINDOW = 2
  Concurrency = 2
  Failing = {}
  MaxFaults = 0
  HasData <- SomeHaveLogs

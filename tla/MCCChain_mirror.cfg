SPECIFICATION FairSpec
INVARIANTS
  AnnouncedDurable
  BackfillNeverRefused
PROPERTIES
  GapsClose
CONSTANTS
  MaxHeight = 3
  HasFloor = TRUE
  FloorAt = 2
  Cap = 1
  IngestLogs = FALSE
  Receipts = FALSE
  Mirror = TRUE
  LOGS_WINDOW = 2
  Concurrency = 2
  Failing <- AllFail
  MaxFaults = 1
  HasData <- NoneHaveLogs

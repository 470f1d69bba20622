SPECIFICATION FairSpec
INVARIANTS
  IndexSound
  CompleteRecords
  IndexGapBounded
  BufferBounded
PROPERTIES
  FrontierNeverRetreats
  GapsClose
  CaughtUpIsComplete
CONSTANTS
  MaxHeight = 3
  HasFloor = FALSE
  FloorAt = 0
  Cap = 1
  IngestLogs = TRUE
  Receipts = FALSE
  Mirror = FALSE
  LOGS_WINDOW = 2
  Concurrency = 1
  Failing <- AllButTipFail
  MaxFaults = 1
  HasData <- SomeHaveLogs

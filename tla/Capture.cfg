CONSTANTS
  Ids = {1, 2, 3, 4, 5, 6}
  MaxOrders = 6
  Prices = {9, 10, 11, 12, 13}
  Window = {10, 11, 12, 13}
  Qtys = {1, 2}
  SeedGuard = 1
  Duration = 5
  MaxBackoff = 4
  Overrun = 1
  Offers <- Offers2
  Restless = {1, 3}
  MaxActs = 3
  MaxFaults = 1
SPECIFICATION WarmCaptureSpec
INVARIANTS
  QueuesAreTheMarkets
  BeliefIsTheBook
  LossIsReported
  RowsTellTheSplit
  RecordsItsTime
PROPERTIES
  RecordingEnds
CHECK_DEADLOCK FALSE

CONSTANTS
  FirstId = 1
  Ids = {1, 2, 3, 4, 5, 6, 7, 8}
  MaxOrders = 8
  Prices = {7, 8, 9, 10, 11, 12, 13}
  Window = {7, 8, 9, 10, 11, 12, 13}
  Qtys = {1, 2}
  StartMid = 10
  QueueLevels = 2
  RefillCap = 1
  RefillSizes = {2}
  MetaCap = 1
  DriftProb = FALSE
  ThetaReinit = TRUE
  EstimatorLevels = 2
  MaxDraws = 3
VIEW View
SPECIFICATION WarmSpec
INVARIANTS
  BeliefIsTheBook
PROPERTIES
  RedrawingReplacesTheBook
  RowsAreExact
  ExposureIsCharged
CHECK_DEADLOCK FALSE

CONSTANTS
  FirstId = 1
  OwnIds = {11, 12, 13, 14}
  Ids = {1, 2, 3, 4, 5, 11, 12, 13, 14}
  MaxOrders = 9
  Prices = {10, 11, 12}
  Window = {10, 11, 12}
  Qtys = {1, 2}
  Rule = "CancelResting"
  Configs <- ThreeTurns
  Size = 2
  MaxInventory = 2
SPECIFICATION WarmSpec
INVARIANTS
  FilledQuotesAreForgotten
CHECK_DEADLOCK FALSE

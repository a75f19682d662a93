CONSTANTS
  FirstId = 1
  OwnIds = {11, 12, 13}
  Ids = {1, 2, 3, 4, 5, 11, 12, 13}
  MaxOrders = 9
  Prices = {10, 11, 12}
  Window = {10, 11, 12}
  Qtys = {1, 2}
  Rule = "CancelResting"
  Configs <- TwoTurns
  Size = 2
  MaxInventory = 2
SPECIFICATION WarmSpec
INVARIANTS
  NothingIsForgotten
  NeverShort
  NoOrphansInOrder
CHECK_DEADLOCK FALSE

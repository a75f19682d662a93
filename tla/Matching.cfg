CONSTANTS
  Ids = {1, 2, 3}
  MaxOrders = 3
  Prices = {10, 11}
  Window = {10, 11}
  Qtys = {0, 1, 2}
VIEW MatchView
SPECIFICATION Spec
PROPERTIES
  FillsArePriceTime
  NothingLostOrMade
  NeverTradesWithItself

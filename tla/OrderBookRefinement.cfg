CONSTANTS
  Ids = {1, 2, 3}
  MaxOrders = 2
  WindowBase = 10
  WindowTicks = 5
  Prices = {10, 14, 15}
  Qtys = {0, 1, 2}
  MaxRank = 100
VIEW View
SPECIFICATION Spec
INVARIANTS
  QueriesAgree
  ReferenceAgrees
PROPERTIES
  ImplementsPriceTimeBook

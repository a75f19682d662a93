CONSTANTS
  Ids = {1, 2, 3}
  MaxOrders = 3
  WindowBase = 10
  WindowTicks = 2
  Prices = {10, 11}
  Qtys = {1, 2}
  MaxRank = 100
VIEW View
SPECIFICATION Spec
INVARIANTS
  TypeOK
  PoolPartition
  InvariantsHold
  OwnPositionsAreExact
PROPERTIES
  QueueOnlyDrains

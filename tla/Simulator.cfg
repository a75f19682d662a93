CONSTANTS
  FirstId = 1
  OwnIds = {11, 12}
  Ids = {1, 2, 3, 4, 11, 12}
  MaxOrders = 6
  Prices = {10, 11}
  Window = {10, 11}
  Qtys = {1, 2}
  Rule = "CancelResting"
  Configs <- DelayedInstantAndQuiet
SPECIFICATION Spec
INVARIANTS
  FillsAreBookedOnce
  ExecutionsArePublishedOnce
  QuietViewOnlyLags
  QuietBeliefIsTheBook
PROPERTIES
  EverythingLands
CHECK_DEADLOCK FALSE

CONSTANTS
  Readers = {publisher, agent}
  Fills = {f1, f2}
  MaxFills = 3
  Keys = {k1, k2, k3, k4}
  Values = {v1, v2}
  Capacity = 4
  NoValue = NoValue
  Types = {fill, decision}
  Entries = {r1, r2}
  Batch = 2
  MaxEntries = 4
  SubBits = 2
  Highest = 20
  Samples <- Samples1
  Interval = 6
  Percents = {0, 25, 50, 90, 100}
  MaxSamples = 5
  MaxInventory = 2
  QuoteLevels = 2
  QueueBuckets = 3
  ImbBuckets = 2
  QueueEdges <- Edges1
  One = 2
  Candidates <- Candidates1
  MaxSweeps = 5
  Evals = 2
  TableSize = 2
  OurShape = ours
  OtherShapes = {theirs}
  MaxSolves = 3
  Touch = 2
  Behind = 1
  LevelSizes = {1}
  MaxLevel = 3
  Depth = 2
  UseLatency = TRUE
  MaxLag = 1
  MaxJoined = 2
  WordBits = 3
  Words = 3
SYMMETRY Symmetry
SPECIFICATION PartsSpec
INVARIANTS
  NothingUnreadIsDropped
  EveryFillIsReadOnce
  ScansFindTheNearest
  JournalTellsTheTruth
  PercentilesAreWithinTheirSlot
  TransitionsSumToOne
  SuccessorsAreWhatHappened
  TableIsOneSolves
  KeepsItsBudget
  PlaceIsShortByItsDelay
PROPERTIES
  ImplementsMap
CHECK_DEADLOCK FALSE

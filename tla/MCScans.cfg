CONSTANTS
  Ams = {"hnsw", "sptag", "pase_hnsw"}
  Row = {1, 2, 3, 4, 5}
  Visible = {1, 2, 4, 5}
  Shapes <- MCShapes
  Keys <- MCNullKeys
  DistanceThreshold = 2
  QueueThreshold = 2
  OrderQueue = 2
  SptagThreshold = 3
  BatchSize = 3
  Ulp = 2
  Limits = {0, 1, 2, 3}
  OuterBounds = {0, 1}
SPECIFICATION SortFairSpec
INVARIANTS
  RangeExact
  RangeEndJustified
  InOrderIffSettled
  PaseNearestFirst
  RangeRowsMatch
  EarlyStopIsExact
PROPERTIES
  GetTupleReturns
  DrivesStream
  ProvidesStream
CHECK_DEADLOCK FALSE

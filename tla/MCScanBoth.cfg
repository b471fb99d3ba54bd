CONSTANTS
  Ams = {"hnsw"}
  Row = {1, 2, 3, 4, 5}
  Visible = {1, 2, 4, 5}
  Shapes <- MCBoth
  Keys <- MCKeys
  DistanceThreshold = 2
  QueueThreshold = 2
  OrderQueue = 2
  SptagThreshold = 3
  BatchSize = 3
  Ulp = 2
  Limits = {0}
  OuterBounds = {0}
SPECIFICATION SortSpec
INVARIANT EmittedRowsMatchKeys
CHECK_DEADLOCK FALSE

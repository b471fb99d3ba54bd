CONSTANTS
  Ams = {"hnsw", "sptag"}
  Row = {1, 2, 3, 4, 5}
  Visible = {1, 2, 4, 5}
  Shapes <- MCShapes
  Keys <- MCKeys
  DistanceThreshold = 2
  QueueThreshold = 2
  OrderQueue = 2
  SptagThreshold = 3
  BatchSize = 3
  Ulp = 2
  Limits = {0, 2}
  OuterBounds = {0}
SPECIFICATION SortSpec
INVARIANT SortsFedAll
CHECK_DEADLOCK FALSE

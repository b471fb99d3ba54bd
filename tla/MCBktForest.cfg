CONSTANTS
  Row = {1, 2, 3, 4, 5, 6}
  Iter = {i1, i2}
  Query = {1, 5}
  Dist <- MCDist
  Indexes <- MCForest
  Threads = 1
  MaxSpaces = 2
  SPTFactor = 2
  NGFactor = 3
  InitialPivots = 2
  OtherPivots = 1
  NoIter = NoIter
  Unset = Unset
SPECIFICATION Spec
PROPERTIES
  ImplementsStream
CHECK_DEADLOCK FALSE

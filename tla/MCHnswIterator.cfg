CONSTANTS
  Node = {1, 2, 3}
  Iter = {i1, i2}
  MaxLists = 3
  Query = {1, 4}
  NoIter = NoIter
  Unset = Unset
  MaxTag = 2
  Dist <- MCDist
  Graphs <- MCSmallGraphs
  Garbage <- MCGarbage
SPECIFICATION Spec
INVARIANTS
  Isolation
  MarksAreVisited
PROPERTIES
  ImplementsStream
CHECK_DEADLOCK FALSE

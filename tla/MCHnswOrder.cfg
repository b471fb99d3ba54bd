CONSTANTS
  Node = {1, 2, 3, 4}
  Iter = {i1}
  MaxLists = 2
  Query = {1, 4}
  NoIter = NoIter
  Unset = Unset
  MaxTag = 2
  Dist <- MCDist
  Graphs <- MCGraphs
  Garbage <- MCGarbage
SPECIFICATION FairSpec
INVARIANTS
  EndsWhenExhausted
  LateOnlyIfHidden
  StartsAtLocalMinimum
PROPERTIES
  NextProgress
  NextReturns
CHECK_DEADLOCK FALSE

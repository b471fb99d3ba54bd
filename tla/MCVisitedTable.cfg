CONSTANTS
  Idx = {2, 6, 9, 10, 14, 22, 30}
  MaxLoop = 3
  PoolSizes = {1}
  None = None
SPECIFICATION FairSpec
PROPERTIES
  ImplementsSet
  CheckAndSetReturns

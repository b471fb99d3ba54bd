CONSTANTS
  Row = {1, 2, 3, 4}
  Score <- MCScore
  NumChildren = 2
  Calls <- MCCalls
  DefaultEf = 3
  DefaultTermCond = 2
SPECIFICATION FairSpec
INVARIANTS KeepsBestSeen ReturnsBestInOrder StopsOnlyWhenStable ExactWhenExhausted
  ContextLeaksOnOverlap RoundRobin
PROPERTIES ImplementsTopK NoCallAfterEnd Terminates
CHECK_DEADLOCK FALSE

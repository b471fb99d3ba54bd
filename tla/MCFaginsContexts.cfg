CONSTANTS
  Row = {1, 2, 3}
  Score <- MCScore
  NumChildren = 2
  Calls <- MCCalls
  DefaultEf = 3
  DefaultTermCond = 2
SPECIFICATION Spec
INVARIANT QueryContextNotCurrent
CHECK_DEADLOCK FALSE

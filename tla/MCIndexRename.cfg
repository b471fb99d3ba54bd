CONSTANTS
  Table = {t1}
  Row = {r1, r2}
  NullRow = {}
  Name = {n1, n2}
  Backend = {b1, b2}
  Workloads <- MCRename
  MaxBuilds = 1
  None = None
SPECIFICATION Spec
INVARIANT NoBrokenBackend
CHECK_DEADLOCK FALSE

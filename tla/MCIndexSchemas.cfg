CONSTANTS
  Table = {t1, t2}
  Row = {r1, r2}
  NullRow = {}
  Name = {n1}
  Backend = {b1, b2}
  Workloads <- MCCreateOnly
  MaxBuilds = 2
  None = None
SPECIFICATION Spec
PROPERTY ScanSeesTable
CHECK_DEADLOCK FALSE

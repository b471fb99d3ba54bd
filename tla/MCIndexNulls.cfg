CONSTANTS
  Table = {t1}
  Row = {r1, r2}
  NullRow = {r2}
  Name = {n1}
  Backend = {b1, b2}
  Workloads <- MCCreateOnly
  MaxBuilds = 1
  None = None
SPECIFICATION Spec
PROPERTY ScanSeesTable
CHECK_DEADLOCK FALSE

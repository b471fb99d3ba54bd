CONSTANTS
  Table = {t1}
  Row = {r1, r2, r3}
  NullRow = {r3}
  Name = {n1, n2}
  Backend = {b1, b2}
  Workloads <- MCWorkloads
  MaxBuilds = 3
  None = None
SPECIFICATION Spec
SYMMETRY MCSymmetry
INVARIANTS FilesTypeOK FileCoversTable ScanKeepsItsGraph MapCoversTable
PROPERTY OwnBuildSeesTable
CHECK_DEADLOCK FALSE

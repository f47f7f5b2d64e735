CONSTANTS
  o1 = o1
  o2 = o2
  r1 = r1
  r2 = r2
  None = None
  Empty = Empty
  Foreign = Foreign
  Ids = {1}
  Outputs = {o1, o2}
  Restorers = {r1, r2}
SPECIFICATION BackupSpec
SYMMETRY Symmetric
INVARIANTS WholeOrAbsent ReportedStays
PROPERTIES NothingReplaced

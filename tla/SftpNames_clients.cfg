SPECIFICATION Spec
CONSTANTS
  Clients = {c1, c2, c3}
  Paths = {p1, p2, p3}
  Absent = absent
  Statuses = {2, 4, 22}
  Changes <- MCChanges
SYMMETRY Symmetry
INVARIANTS TypeOK RenameVerdict SourceKept DestinationFilled
PROPERTIES StatExact
\* Each program runs one operation.
CHECK_DEADLOCK FALSE

SPECIFICATION Spec
CONSTANTS
  e1 = e1  e2 = e2
  c1 = c1  c2 = c2
  v1 = v1  v2 = v2
  Clients = {c1, c2}
  Rows = {1, 2}
  Entities = {e1, e2}
  EntityOf <- OneReadingEach
  Tracked = {e1, e2}
  Counters = {e1}
  Values = {v1, v2}
  Numeric = {v1, v2}
  Requests <- CorrectAndUndo
  MaxBulkRows = 2
  MaxId = 2
  MetaLock = FALSE
  SnapshotReads = FALSE
  Absent = Absent
  NoAudit = NoAudit
  AnyValue = AnyValue
  Interpolate = Interpolate
  Nobody = Nobody
  None = None
CHECK_DEADLOCK FALSE
SYMMETRY Symmetry
INVARIANTS TypeOK WritesAreLocked StatisticsFollowStates
PROPERTY ImplementsLedger

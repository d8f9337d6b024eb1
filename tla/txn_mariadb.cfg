SPECIFICATION FairSpec
CONSTANTS
  e1 = e1  e2 = e2
  c1 = c1  c2 = c2
  v1 = v1  v2 = v2
  Clients = {c1, c2}
  Rows = {1, 2}
  Entities = {e1}
  EntityOf <- OneEntity
  Tracked = {e1}
  Counters = {}
  Values = {v1, v2}
  Numeric = {v1}
  Requests <- RangesAndRepairs
  MaxBulkRows = 2
  MaxId = 3
  MetaLock = TRUE
  SnapshotReads = TRUE
  Absent = Absent
  NoAudit = NoAudit
  AnyValue = AnyValue
  Interpolate = Interpolate
  Nobody = Nobody
  None = None
CHECK_DEADLOCK FALSE
PROPERTIES ImplementsLedger EveryRequestAnswered

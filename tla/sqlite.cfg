SPECIFICATION Spec
CONSTANTS
  e1 = e1
  c1 = c1  c2 = c2
  v1 = v1  v2 = v2
  Threads = {c1, c2}
  Rows = {1, 2}
  Entities = {e1}
  EntityOf <- OneEntity
  Values = {v1, v2}
  Numeric = {v1, v2}
  Requests <- PageRequests
  MaxBulkRows = 2
  MaxId = 2
  Absent = Absent
  NoAudit = NoAudit
  AnyValue = AnyValue
  Interpolate = Interpolate
  Nobody = Nobody
  None = None
CHECK_DEADLOCK FALSE
SYMMETRY Symmetry
INVARIANT TypeOK
PROPERTIES ImplementsLedger CorrectsWhatWasSeen BulkSkipsCorrected

SPECIFICATION Spec
CONSTANTS
  r1 = r1  r2 = r2
  x = x  y = y
  Rows = {r1, r2}
  Values = {x, y}
  Numeric = {x, y}
  MaxId = 3
  Absent = Absent
  NoAudit = NoAudit
SYMMETRY Symmetry
INVARIANTS TypeOK Balance EveryChangeOnRecord UndoneIsOriginal OrphanIsExplained
PROPERTY AuditIsHistory
CHECK_DEADLOCK FALSE

SPECIFICATION PageSpec
CONSTANTS
  r1 = r1  r2 = r2  x = x  y = y
  l1 = l1  s1 = s1  o1 = o1
  Rows = {r1, r2}
  Values = {x, y}
  Numeric = {y}
  MaxId = 3
  Absent = Absent
  NoAudit = NoAudit
  IsCounter = TRUE
  Loads = {l1}
  Saves = {s1}
  Others = {o1}
  Nobody = Nobody
CONSTRAINT
  Bounds
INVARIANTS
  PageTypeOK
  OriginalIsKept
PROPERTIES
  SentAsAcknowledged

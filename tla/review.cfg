SPECIFICATION PubSpec
CONSTANTS
  r1 = r1  x = x  y = y
  Rows = {r1}
  Values = {x, y}
  Numeric = {x, y}
  MaxId = 2
  Absent = Absent
  NoAudit = NoAudit
PROPERTIES ReviewIsAnnounced

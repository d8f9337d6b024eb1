SPECIFICATION Spec
CONSTANTS
  Width = 2
  Hour = 4
  Scale = 4
  Null = Null
  Readings = {1, 17, 18, 20}
  Unavailable = Unavailable
  Nothing = Nothing
  Reported <- Meters
  PurgeCuts = {2, 4, 6, 7}
  Outages = {4}
  MaxTime = 8
  MaxCorrections = 2
INVARIANTS
  TypeOK
  TotalsAreTheRecorders
  NeighboursFollowReadings
  HourlyCopiesShort
CHECK_DEADLOCK FALSE

SPECIFICATION Spec
CONSTANTS
  Width = 2
  Hour = 4
  Scale = 4
  Null = Null
  Readings = {1, 2}
  Unavailable = Unavailable
  Nothing = Nothing
  Reported <- Day
  PurgeCuts = {1, 2, 3, 4, 5, 6, 7}
  MaxTime = 8
  MaxCorrections = 2
INVARIANTS
  TypeOK
  MeanIsByTheUnit
  RebuiltRowsDescribeReadings
  HourlySummarises
  RestoredRowDescribesReadings
CHECK_DEADLOCK FALSE

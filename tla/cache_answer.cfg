SPECIFICATION Spec
CONSTANTS
  t1 = t1  t2 = t2
  h1 = h1  h2 = h2
  Threads = {t1, t2}
  Hours = {h1, h2}
  HourCap = 1
  MaxRequests = 1
  NoRow = NoRow
  Blank = Blank
  NoJob = NoJob
  NoCopy = NoCopy
INVARIANT FailureIsOfTheCorrection

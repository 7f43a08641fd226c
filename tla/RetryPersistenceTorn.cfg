SPECIFICATION SpecDurable
CONSTANTS
  Ids = {i1}
  Times = {t1, t2}
  MaxAttempts = 2
  Concurrency = 1
  MaxCalls = 2
  MaxStops = 0
  Writers = {w1, w2}
  MaxCrashes = 0
  MaxErrors = 0
  None = None
  EmptyFile = EmptyFile
  TornFile = TornFile
INVARIANT StateFileWhole
CHECK_DEADLOCK FALSE

SPECIFICATION SpecDurable
CONSTANTS
  Ids = {i1}
  Times = {t1, t2, t3}
  MaxAttempts = 2
  Concurrency = 1
  MaxCalls = 2
  MaxStops = 1
  Writers = {w1, w2}
  MaxCrashes = 2
  MaxErrors = 1
  None = None
  EmptyFile = EmptyFile
  TornFile = TornFile
SYMMETRY Symmetry
INVARIANTS
  TypeOKDurable
  WholeUnlessOverlapped
  PromiseKept
  TriesAcrossRestarts
  WaitingIsScheduled
\* With all calls made and no entry left the loop just sleeps on.
CHECK_DEADLOCK FALSE

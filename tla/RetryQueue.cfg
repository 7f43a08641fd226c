SPECIFICATION FairSpec
CONSTANTS
  Ids = {i1, i2}
  Times = {t1, t2, t3}
  MaxAttempts = 2
  Concurrency = 0
  MaxCalls = 3
  MaxStops = 1
  None = None
INVARIANTS
  TypeOK
  WaitingIsScheduled
  RetryingIsHandled
  TakenWithinLimit
PROPERTIES
  RetriedWhenDue
  GivenUpForGood
  Settles
  RetriesAsPromised
\* With all calls made and no entry left the loop just sleeps on.
CHECK_DEADLOCK FALSE

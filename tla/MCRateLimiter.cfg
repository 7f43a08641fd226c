SPECIFICATION FairSpec
CONSTANTS
  Waiters = {w1, w2}
  Last = 2
  Unit = 2
  Rate <- MCRate
  Capacity <- MCCapacity
  Timeouts = {2, None}
  MaxCancels = 1
  None = None
INVARIANTS
  TypeOK
  WithinRate
PROPERTIES
  DeniedCostsNothing
  SomebodyGetsThrough

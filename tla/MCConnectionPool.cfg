SPECIFICATION Spec
CONSTANTS
  Clients = {c1, c2, c3}
  Conns = {k1, k2, k3, k4}
  MaxConnections = 2
  MaxCancels = 1
  None = None
SYMMETRY Symmetry
INVARIANTS
  TypeOK
  ExclusiveLending
  ClosedPoolIsEmpty
  QuitIsFinal
  SlotsAccounted
  OnePerClient
PROPERTIES
  LendsAsPromised

SPECIFICATION Spec
CONSTANTS
  Clients = {c1, c2}
  Conns = {k1, k2, k3}
  MaxConnections = 1
  MaxCancels = 1
  None = None
INVARIANT PendingIsConnecting

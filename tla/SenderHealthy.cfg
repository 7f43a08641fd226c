SPECIFICATION Spec
CONSTANTS
  m1 = m1
  m2 = m2
  Messages = {m1, m2}
  Servers = {1}
  Strategy = "priority"
  Priority <- NoPriority
  Pinned <- NoPins
  Faulty = {}
  MaxConnections <- OneConnection
  MaxRetries = 2
  MaxAttempts = 1
  BulkConcurrency = 2
  RetryConcurrency = 1
  MaxCancels = 0
  FailureThreshold = 2
  SuccessThreshold = 1
  TimeoutSeconds = 1
  MonitorWindow = 2
  FailureCountCap = 1
  None = None
INVARIANT OnlyFailingServersShutOut

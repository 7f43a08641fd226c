SPECIFICATION FairSpec
CONSTANTS
  m1 = m1
  m2 = m2
  Messages = {m1, m2}
  Servers = {1, 2}
  Strategy = "weighted"
  Priority <- MCPriority
  Pinned <- MCPinned
  Faulty = {1}
  MaxConnections <- MCMaxConnections
  MaxRetries = 2
  MaxAttempts = 2
  BulkConcurrency = 2
  RetryConcurrency = 1
  MaxCancels = 1
  FailureThreshold = 1
  SuccessThreshold = 1
  TimeoutSeconds = 1
  MonitorWindow = 1
  FailureCountCap = 1
  None = None
INVARIANTS
  TypeOK
  DeliveredOnce
  TriesBounded
  HealthyStaysClosed
PROPERTIES
  OnlyCloseLoses
  BlamedByItsUsers
  Ends

SPECIFICATION Spec
CONSTANTS
  FailureThreshold = 1
  SuccessThreshold = 2
  TimeoutSeconds = 1
  MonitorWindow = 2
  FailureCountCap = 1
  None = None
  Sends = {s1, s2, s3}
  MaxOverrides = 0
INVARIANT OneProbeAtATime

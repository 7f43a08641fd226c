SPECIFICATION Spec
CONSTANTS
  FailureThreshold = 2
  SuccessThreshold = 2
  TimeoutSeconds = 2
  MonitorWindow = 3
  FailureCountCap = 2
  None = None
  Sends = {s1, s2, s3}
  MaxOverrides = 1
SYMMETRY SendSymmetry
INVARIANTS
  TypeOK
  ClosedBelowThreshold
  StatsAgree
  OpenAdmitsNothing
  SlotHasOwner
  OneProbeUnlessStray

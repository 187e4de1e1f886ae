SPECIFICATION Spec
CONSTANTS
  WatchdogUsec = 4
  Jitter = 1
  LongestBoundedCall = 5
  SilentStream <- StreamCeilings
  MaxTime = 14
  MaxLost = 0
INVARIANTS
  TypeOK
  HealthyNeverKilled
  WedgeIsDetected
  VerdictIsExact
PROPERTIES
  ImplementsSupervision

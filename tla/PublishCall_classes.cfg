CONSTANTS
  MaxAttempts = 2
  ContainerRetries = 1
  MaxRuns = 2
  MaxHidden = 0
SPECIFICATION Spec
INVARIANTS
  TimeoutIsRetried
CHECK_DEADLOCK FALSE

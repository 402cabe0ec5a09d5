CONSTANTS
  MaxAttempts = 4
  ContainerRetries = 1
  MaxRuns = 2
  MaxHidden = 1
SPECIFICATION Spec
INVARIANTS
  OnePostPerCall
  LimitYields
  RefusalIsFinal
CHECK_DEADLOCK FALSE

CONSTANTS
  e1 = e1
  e2 = e2
  Endpoints <- OneEndpoint
  MaxAttempts = 3
  MaxCleanups = 2
  EarlyResume = TRUE
SPECIFICATION Spec
CHECK_DEADLOCK FALSE
INVARIANT SuspendedOnlyWhileCleaning

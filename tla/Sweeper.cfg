CONSTANTS
  e1 = e1
  e2 = e2
  Endpoints <- TwoEndpoints
  MaxAttempts = 3
  MaxCleanups = 3
  EarlyResume = FALSE
SPECIFICATION FairSpec
CHECK_DEADLOCK FALSE
INVARIANTS
  TypeOK
  OneCleanup
  SuspendedOnlyWhileCleaning
  CleaningOnlyWhileSuspended
PROPERTIES
  HighUsageIsCleaned
  ShutdownCompletes

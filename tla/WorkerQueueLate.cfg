CONSTANTS
  j1 = j1
  j2 = j2
  j3 = j3
  w1 = w1
  w2 = w2
  Jobs <- MCJobs
  Workers <- MCWorkers
  MaxCapacity = 1
  NoWorker = NoWorker
  LatePush = TRUE
SPECIFICATION Spec
INVARIANTS
  WgCountsOutstanding
  PoolHoldsFreeWorkers
PROPERTIES
  JobsMoveForward
CHECK_DEADLOCK FALSE

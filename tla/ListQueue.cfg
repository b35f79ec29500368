CONSTANTS
  j1 = j1
  j2 = j2
  j3 = j3
  j4 = j4
  w1 = w1
  w2 = w2
  Jobs <- MCJobs
  Workers <- MCWorkers
  MaxLen = 1
  MaxPushers = 2
SPECIFICATION FairSpec
INVARIANTS
  TypeOK
  PoolOpenWhileUsed
PROPERTIES
  ImplementsTaskQueue
  AcceptedJobsAnswered
  TerminateStopsAll

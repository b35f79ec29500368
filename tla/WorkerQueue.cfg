CONSTANTS
  j1 = j1
  j2 = j2
  j3 = j3
  w1 = w1
  w2 = w2
  Jobs <- MCJobs
  Workers <- MCWorkers
  MaxCapacity = 2
  NoWorker = NoWorker
  LatePush = FALSE
SPECIFICATION FairSpec
INVARIANTS
  TypeOK
  NoPanic
  TerminateDrains
PROPERTIES
  ImplementsTaskQueue
  AcceptedJobsRun
  TerminateStopsAll

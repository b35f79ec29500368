SPECIFICATION FairSpec
CONSTANTS
  e1 = e1
  g1 = g1
  g2 = g2
  Events <- MCEvents
  Registrations <- MCRegistrations
  MaxTries = 3
  MaxVersion = 2
  MaxRuns = 2
  MaxCalls = 2
  Capacity = 1
  Threads = 1
INVARIANTS TypeOK QueuedAreNewer QueuedInOrder
PROPERTIES ListedAreNotified HandlingEnds SignalEnds
CHECK_DEADLOCK FALSE

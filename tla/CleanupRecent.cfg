SPECIFICATION Spec
CONSTANTS
  n1 = n1
  n2 = n2
  c1 = c1
  Keys <- MCKeys
  CompKeys <- MCCompKeys
  Bytes <- MCBytes
  Targets <- MCTargets
  BatchSizes <- MCBatchSizes
  MaxRevision = 5
INVARIANT RecentEventsSurvive

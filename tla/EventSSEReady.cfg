CONSTANTS
  r1 = r1
  r2 = r2
  k1 = k1
  k2 = k2
  c1 = c1
  s1 = s1
  None = None
  Requests <- MCRequests
  Keys <- MCKeys
  Streams <- MCStreams
  KeyRank <- MCKeyRank
  Compositions <- MCCompositions
  CompositionOf <- MCCompositionOf
  MaxLimit = 2
  Limits <- MCLimits
SPECIFICATION Spec
PROPERTY ReadyMeansWatching

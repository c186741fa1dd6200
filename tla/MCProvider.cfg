SPECIFICATION FairSpec
CONSTANTS
  NULL = NULL
  Callers = {c1, c2, c3}
  Threshold = 2
  OpenSeconds = 1
  MaxOpenSeconds = 4
  RetryAfters = {0, 9}
  MaxTrips = 2
  MinInterval = 2
  SearchFallback = TRUE
  GetResponses <- MCGetResponses
  SearchResponses <- MCSearchResponses
INVARIANTS TypeOK OpenMeansFailing WindowIsBounded
PROPERTIES Spaced EveryLookupEnds ImplementsCircuit ProbeGoesOut

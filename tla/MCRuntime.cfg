SPECIFICATION FairSpec
CONSTANTS
  NULL = NULL
  Paths = {p1, p2}
  Limit = 1
  MaxRequests = 2
  MaxFaults = 3
  Workers = {"worker-0"}
  Threshold = 2
  FloatLimit = 2
  MaxStops = 2
INVARIANTS TypeOK ReadyMeansWorking WorksUnderLock AtMostOnce CompletedIsDone OldestFirst
PROPERTIES StopFinishes HealthReturns EveryRequestIsTaken

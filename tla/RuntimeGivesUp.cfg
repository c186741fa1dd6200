SPECIFICATION Spec
CONSTANTS
  NULL = NULL
  Paths = {p1}
  Limit = 1
  MaxRequests = 1
  MaxFaults = 3
  Workers = {"worker-0"}
  Threshold = 2
  FloatLimit = 2
  MaxStops = 0
INVARIANT NoLoopIsLost

SPECIFICATION FairSpec
CONSTANTS
  NULL = NULL
  Paths = {p1, p2}
  Limit = 2
  MaxRequests = 1
  MaxFaults = 1
PROPERTY RequestsAreExecuted

SPECIFICATION FairSpec
CONSTANTS
  NULL = NULL
  Jobs = {j1, j2}
  Workers = {w1, w2}
  Priorities = {0}
  Requests = {{}}
  FileAttempts = 2
  ProviderAttempts = 1
  Delays = {1}
  LeaseTTL = 1
  Faults = TRUE
  Lag = 1
  MaxTime = 2
  MaxEnqueues = 3
  MaxRestarts = 1
  MaxBeats = 1
INVARIANTS TypeOK ExclusiveLease Reachable RequestIsOnRecord BoundedAttempts
PROPERTIES OnlyHolderFinishes PendingIsLeased
CHECK_DEADLOCK FALSE

SPECIFICATION Spec
CONSTANTS
  NULL = NULL
  Jobs = {j1}
  Workers = {w1, w2}
  Enqueuers = {e1}
  Priorities = {0}
  Requests = {{}}
  FileAttempts = 2
  ProviderAttempts = 1
  Delays = {1}
  LeaseTTL = 1
  Faults = FALSE
  Lag = 0
  MaxTime = 0
  MaxEnqueues = 3
  MaxRestarts = 0
  MaxBeats = 0
INVARIANT ExclusiveLease
CHECK_DEADLOCK FALSE

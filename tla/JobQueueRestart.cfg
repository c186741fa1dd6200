SPECIFICATION FairSpec
CONSTANTS
  NULL = NULL
  Jobs = {j1}
  Workers = {w1}
  Priorities = {0}
  Requests = {{}}
  FileAttempts = 2
  ProviderAttempts = 1
  Delays = {1}
  LeaseTTL = 1
  Faults = FALSE
  Lag = 1
  MaxTime = 2
  MaxEnqueues = 1
  MaxRestarts = 1
  MaxBeats = 0
PROPERTY InterruptedWorkResumes
CHECK_DEADLOCK FALSE

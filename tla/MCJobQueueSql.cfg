SPECIFICATION Spec
CONSTANTS
  NULL = NULL
  Jobs = {j1, j2}
  Workers = {w1, w2}
  Enqueuers = {e1, e2}
  Priorities = {0}
  Requests = {{}}
  FileAttempts = 2
  ProviderAttempts = 1
  Delays = {1}
  LeaseTTL = 1
  Faults = TRUE
  Lag = 2
  MaxTime = 2
  MaxEnqueues = 2
  MaxRestarts = 1
  MaxBeats = 1
SYMMETRY MCSymmetry
INVARIANTS TypeOK PendingIsScheduled
PROPERTY ImplementsContract
CHECK_DEADLOCK FALSE

SPECIFICATION Spec
CONSTANTS
  NULL = NULL
  Jobs = {j1}
  Workers = {w1}
  Lyrics = {a, b}
  LrcPath = lrc
  Sidecars = {lrc}
  SidecarOf <- MCSidecarOf
  Priorities = {0}
  Requests = {{}}
  FileAttempts = 1
  ProviderAttempts = 1
  Delays = {1}
  LeaseTTL = 1
  Faults = FALSE
  Lag = 0
  MaxTime = 0
  MaxEnqueues = 1
  MaxRestarts = 0
  MaxBeats = 0
  MaxEdits = 1
PROPERTY ManualEditIsPreserved
CHECK_DEADLOCK FALSE

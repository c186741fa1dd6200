SPECIFICATION Spec
CONSTANTS
  NULL = NULL
  Jobs = {j1, j2}
  Workers = {w1, w2}
  Lyrics = {a, b}
  LrcPath = lrc
  Sidecars = {lrc}
  SidecarOf <- MCSidecarOf
  Priorities = {0}
  Requests = {{}, {"force", "overwrite"}}
  FileAttempts = 2
  ProviderAttempts = 1
  Delays = {1}
  LeaseTTL = 1
  Faults = FALSE
  Lag = 0
  MaxTime = 1
  MaxEnqueues = 2
  MaxRestarts = 1
  MaxBeats = 0
  MaxEdits = 2
SYMMETRY MCSymmetry
INVARIANTS TypeOK OwnSidecarIsKnown
PROPERTIES UserTextIsSafe AbsenceIsRespected
CHECK_DEADLOCK FALSE

SPECIFICATION FairSpec
CONSTANTS
  NULL = NULL
  Paths = {p1, p2}
  Edited = {p1}
  Quiet = 1
  Gap = 1
  MaxLag = 1
  MaxChanges = 2
  MaxEdits = 2
INVARIANTS TypeOK ChangeIsTracked EditIsNoticed
PROPERTIES ReadyWasQuiet ChangeIsQueued

SPECIFICATION FairSpec
CONSTANTS
  NULL = NULL
  Paths = {p1}
  Passes = {pass}
  FullScans = {full}
  MaxActs = 3
  MaxFaults = 1
INVARIANT TypeOK
PROPERTIES ScanMissesNothing Converges ReportIsRight Settles

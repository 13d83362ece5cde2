SPECIFICATION FairSpec
CONSTANTS
  MaxVersion = 3
  MaxStarts = 2
  Interval = TRUE
PROPERTIES
  SnapshotNeverGoesBack
  CloseReturns
CHECK_DEADLOCK FALSE

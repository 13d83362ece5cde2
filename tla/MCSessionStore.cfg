SPECIFICATION Spec
CONSTANTS
  r = r  sA = sA  sB = sB  w1 = w1  w2 = w2  k1 = k1  k2 = k2
  None = None
  Root = r
  SessionIds = {r, sA, sB}
  Writers = {w1, w2}
  Compactors = {k1, k2}
  MaxForkDepth = 2
  MinToCompact = 1
  Faults = TRUE
  MaxMessages = 3
  MaxRows = 5
  MaxClock = 1
  MaxMarkers = 2
INVARIANTS
  ForkInheritsPrefix
  TotalsAddUp
  SummarisedOrSent
PROPERTY CursorNeverGoesBack
SYMMETRY Symmetry
CHECK_DEADLOCK FALSE

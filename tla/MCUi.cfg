SPECIFICATION Spec
CONSTANTS
  p1 = p1  p2 = p2  p3 = p3  None = None
  Prompts = {p1, p2, p3}
  Streamed = {p1}
  EventBuffer = 1
  MaxBehind = 3
INVARIANT HandedOverOnce
PROPERTY ClearedStaysCleared
SYMMETRY Symmetry
CHECK_DEADLOCK FALSE

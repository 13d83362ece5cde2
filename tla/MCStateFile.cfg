SPECIFICATION Spec
CONSTANTS
  w1 = w1  w2 = w2  q1 = q1  q2 = q2  x = x  y = y  Nobody = Nobody
  Items = {x, y}
  Writers = {w1, w2}
  Procs = {q1}
  ProcOf <- OneProcess
  Locked = TRUE
INVARIANT FileHoldsLastSave

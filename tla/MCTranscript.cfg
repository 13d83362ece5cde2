SPECIFICATION Spec
CONSTANTS
  Root = Root  s1 = s1  s2 = s2  c1 = c1  c2 = c2  c3 = c3  None = None
  Subs = {s1, s2}
  Calls = {c1, c2, c3}
  CallerOf <- Caller
  SubOf <- Sub
  MaxText <- Text1
  MaxStored <- Stored1
  Failing = {s2}
  MaxSubs = 1
  MaxTurns = 1
  MaxBehind = 2
  MaxOpens = 1
INVARIANTS
  OneRowPerMessage
  LiveMatchesStore
CHECK_DEADLOCK FALSE

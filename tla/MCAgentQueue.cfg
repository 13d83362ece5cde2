SPECIFICATION FairSpec
CONSTANTS
  m1 = m1  m2 = m2  m3 = m3  m4 = m4  sA = sA  sB = sB  x1 = x1  g1 = g1
  k1 = k1  k2 = k2  None = None
  Sessions = {sA}
  Prompts = {m1, m2, m3}
  SessOf <- OneSession
  Enqueued = {m3}
  Texts = {x1}
  Compactors = {k1}
  Plugins = {g1}
  MaxInjects = 1
INVARIANTS
  OneTurnPerSession
  NoStuckQueue
PROPERTIES
  AdditionsStayInTurn
  ImplementsTurnSlot
  QueuedSettles
CHECK_DEADLOCK FALSE

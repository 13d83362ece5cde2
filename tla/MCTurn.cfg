SPECIFICATION FairSpec
CONSTANTS
  a = a  b = b  h1 = h1  h2 = h2  NoMessage = NoMessage
  Calls = {a, b}
  Parallel = {a, b}
  Eager = TRUE
  Paths = {a}
  MaxLazy = 1
  Handles = {h1}
  MaxText = 1
  MaxSteps = 3
  MaxTurns = 2
INVARIANTS
  OneAssistantPerStep
  ReplayIsWellFormed
PROPERTIES
  NothingDropped
  TurnEnds
CHECK_DEADLOCK FALSE

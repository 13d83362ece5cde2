SPECIFICATION Spec
CONSTANTS
  user = user  work = work  base = base  root = root  project = project  env = env
  None = None
  Below <- UserFiles
  Profiles = {work, base, root}
  Above <- ProjectFiles
  Overlays <- Env
  Named = work
  Default = base
  MaxDepth = 2
  Defaults <- DefaultTree
  TreesOf <- Trees
  BasesOf <- Bases
  Writers <- AllWriters
INVARIANTS
  ProvenanceNamesTheWriter
  HighestSourceWins
  WriteTakesEffect
CHECK_DEADLOCK FALSE

SPECIFICATION FairSpec
CONSTANTS
  A = A
  B = B
  x = x
  y = y
  None = None
  Hosts = {h1}
  Ops = {o1, o2}
  Specs = {A, B}
  Companions = {}
  InitSpec = A
  Edits <- BackAndForth
  Declares <- NoCompanions
  Deletable = {}
  RenderConcurrency = 1
  MaxGeneration = 3
  MaxTroubles = 0
PROPERTY EventuallyApplied
CHECK_DEADLOCK FALSE

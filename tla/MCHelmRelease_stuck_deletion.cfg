SPECIFICATION FairSpec
CONSTANTS
  A = A
  B = B
  x = x
  y = y
  None = None
  Hosts = {h1}
  Ops = {o1, o2}
  Specs = {A, B}
  Companions = {}
  InitSpec = A
  Edits <- ForwardEdits
  Declares <- NoCompanions
  Deletable = {h1}
  RenderConcurrency = 1
  MaxGeneration = 2
  MaxTroubles = 0
PROPERTY DeletionCompletes
CHECK_DEADLOCK FALSE

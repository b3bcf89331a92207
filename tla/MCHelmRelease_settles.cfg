SPECIFICATION FairSpec
CONSTANTS
  A = A
  B = B
  x = x
  y = y
  None = None
  Hosts = {h1}
  Ops = {o1, o2}
  Specs = {A, B}
  Companions = {x}
  InitSpec = A
  Edits <- ForwardEdits
  Declares <- OneCompanion
  Deletable = {h1}
  RenderConcurrency = 1
  MaxGeneration = 2
  MaxTroubles = 1
PROPERTY KeepsPromise
 
 
PROPERTY DeletionClears
CHECK_DEADLOCK FALSE

SPECIFICATION FairSpec
CONSTANTS
  A = A
  B = B
  x = x
  y = y
  None = None
  Hosts = {h1}
  Ops = {o1, o2}
  Specs = {A, B}
  Companions = {x, y}
  InitSpec = A
  Edits <- ForwardEdits
  Declares <- RenamedCompanion
  Deletable = {}
  RenderConcurrency = 1
  MaxGeneration = 2
  MaxTroubles = 0
PROPERTY CompanionsApplied
CHECK_DEADLOCK FALSE

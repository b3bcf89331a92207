SPECIFICATION Spec
CONSTANTS
  A = A
  B = B
  x = x
  y = y
  None = None
  Hosts = {h1}
  Ops = {o1, o2}
  Specs = {A, B}
  Companions = {x, y}
  InitSpec = A
  Edits <- ForwardEdits
  Declares <- RenamedCompanion
  Deletable = {h1}
  RenderConcurrency = 1
  MaxGeneration = 3
  MaxTroubles = 1
INVARIANT TypeOK
INVARIANT RenderBound
INVARIANT RegisteredIsRunning
INVARIANT RunningIsRegistered
INVARIANT OrphanOnlyIfRaced
PROPERTY HostChartNeverRegresses
CHECK_DEADLOCK FALSE

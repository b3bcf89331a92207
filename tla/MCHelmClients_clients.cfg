SPECIFICATION Spec
CONSTANTS
  None = None
  Hosts <- Lookalikes
  Ops = {o1, o2}
  Companion <- OneEach
  RenderConcurrency = 1
  MaxRotations = 1
  MaxFaults = 1
SYMMETRY Goroutines
INVARIANT TypeOK
INVARIANT OwnNamespace
INVARIANT OwnSecrets
PROPERTY EntriesKept
CHECK_DEADLOCK FALSE

SPECIFICATION FairSpec
CONSTANTS
  A = A
  B = B
  None = None
  Names = {1, 2}
  Hosts = {A, B}
  Existing = {A}
  Specs <- SomeSpecs
  Cap = 1
  MaxEdits = 1
INVARIANT TypeOK
INVARIANT CapIsByRank
PROPERTY HostsConverge
PROPERTY ConditionsConverge
CHECK_DEADLOCK FALSE

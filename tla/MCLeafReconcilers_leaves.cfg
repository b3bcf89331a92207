SPECIFICATION FairSpec
CONSTANTS
  a = a
  b = b
  c = c
  cluster = cluster
  n1 = n1
  n2 = n2
  none = none
  Objects = {a, b, c}
  Worlds <- MCWorlds
  Cluster = cluster
  None = none
  MaxEdits = 1
  MaxTroubles = 1
  MaxAttempts = 3
INVARIANT TypeOK
PROPERTY EventuallyReady
PROPERTY GenerationsTracked
PROPERTY DeletionShown
PROPERTY Quiesces
CHECK_DEADLOCK FALSE

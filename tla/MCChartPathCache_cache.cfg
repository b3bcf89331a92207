SPECIFICATION Spec
CONSTANTS
  None = None
  Callers = {c1, c2, c3}
  Charts = {chart}
  Credentials = {k1, k2, k3}
  Max = 2
  MaxFaults = 1
SYMMETRY Symmetric
INVARIANT TypeOK
INVARIANT CacheBound
INVARIANT OwnArchive
PROPERTY Transparent

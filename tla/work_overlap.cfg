SPECIFICATION Spec
CONSTANTS
  Requests = {r1}
  PoolSize = 1
  None = None
  MaxRefs = 2
  Overlap = TRUE
INVARIANT NoDangling

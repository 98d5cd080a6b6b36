SPECIFICATION FairSpec
CONSTANTS
  Requests = {r1, r2}
  PoolSize = 1
  None = None
  MaxRefs = 2
  Overlap = FALSE
INVARIANTS WInv NoDangling NoLeak NeverFreedByPool
PROPERTIES CancelledNeverRuns Delivered

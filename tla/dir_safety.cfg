SPECIFICATION Spec
CONSTANTS
  Requests = {r1, r2, r3, r4, r5}
  None = None
  Entries = 3
  Chunk = 2
  PoolSize = 2
  Overlap = FALSE
SYMMETRY Alike
INVARIANTS DInv NoDangling NoLeak
PROPERTIES ImplementsListing

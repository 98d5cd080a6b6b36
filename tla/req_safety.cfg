SPECIFICATION FairSpec
CONSTANTS
  Requests = {r1, r2}
  Call <- SomeCalls
  PoolSize = 1
  None = None
  MaxRefs = 2
  DropsLoop = FALSE
INVARIANTS RInv NoDangling LoopOutlives NoLeak
PROPERTIES ImplementsOneShot Delivered

SPECIFICATION FairSpec
CONSTANTS
  guarded = guarded
  atomic = atomic
  Threads = {t1, t2}
  Wrappers = {w1, w2, w3}
  Blocks <- BothKinds
  Guarded <- OneGuarded
  None = None
  MaxRefs = 2
INVARIANTS AInv NoUseAfterFree SoleReclaimer
PROPERTIES ImplementsShared Reclaimed

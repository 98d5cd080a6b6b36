SPECIFICATION Spec
CONSTANTS
  h1 = h1
  h2 = h2
  Handles = {h1, h2}
  Closures = {c1, c2, c3}
  None = None
  KindOf <- TimerAndFsEvent
  MaxRefs = 2
  AfterClose = FALSE
  InitFails = FALSE
SYMMETRY Symmetry
INVARIANTS NoDangling CallableData NoLeak
PROPERTY ImplementsShared

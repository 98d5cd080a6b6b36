SPECIFICATION Spec
CONSTANTS
  h1 = h1
  h2 = h2
  Handles = {h1}
  Closures = {c1, c2, c3}
  None = None
  KindOf <- OneTimer
  MaxRefs = 2
  AfterClose = TRUE
  InitFails = FALSE
INVARIANT CallableData

SPECIFICATION FairSpec
CONSTANTS
  h1 = h1
  h2 = h2
  Handles = {h1, h2}
  Closures = {c1, c2}
  None = None
  KindOf <- TimerAndPoll
  MaxRefs = 1
  AfterClose = FALSE
  InitFails = TRUE
INVARIANT IInv
PROPERTY CloseDelivered

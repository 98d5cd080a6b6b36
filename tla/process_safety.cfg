SPECIFICATION FairSpec
CONSTANTS
  Processes = {p1, p2}
  Options = {o1}
  Containers = {c1}
  None = None
  MaxRefs = 1
  MaxStdio = 2
INVARIANTS PInv ExitOnce NoDangling NoLeak
PROPERTIES ExitTold

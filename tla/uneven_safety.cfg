SPECIFICATION FairSpec
CONSTANTS
  Handles = {h1, h2}
  Kinds = {"async", "signal", "tty"}
  None = None
  MaxRefs = 2
  MaxExtra = 2
  Races = FALSE
INVARIANTS UInv NoDangling NoLeak
PROPERTIES Heard

SPECIFICATION Spec
CONSTANTS
  Handles = {h1}
  Kinds = {"async"}
  None = None
  MaxRefs = 3
  MaxExtra = 2
  Races = TRUE
INVARIANTS NoDangling

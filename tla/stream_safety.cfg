SPECIFICATION Spec
CONSTANTS
  Streams = {s1, s2, u1}
  Datagrams = {u1}
  Batching = {u1}
  Slots = {d1, d2, d3}
  None = None
  MaxRefs = 2
  Allowed = {}
SYMMETRY Symmetry
INVARIANTS SInv NoDangling NoLeak
PROPERTY OnlyCallsReplace

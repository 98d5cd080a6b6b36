------------------------------ MODULE MCUneven ------------------------------
(* UvUneven on small instances: one handle of each kind in turn, or two.   *)
EXTENDS UvUneven

ASSUME IsFiniteSet(Handles) /\ Cardinality(Handles) \in 1 .. 2
=============================================================================

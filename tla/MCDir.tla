------------------------------- MODULE MCDir -------------------------------
(* UvDir on small instances; requests are alike. *)
EXTENDS UvDir, TLC

Alike == Permutations(Requests)
=============================================================================

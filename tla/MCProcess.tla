------------------------------ MODULE MCProcess ------------------------------
(* UvProcess on small instances. *)
EXTENDS UvProcess

\* At least two spawns compete for one exit closure.
ASSUME Cardinality(Processes) > Cardinality(Options)
=============================================================================

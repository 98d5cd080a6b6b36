------------------------------ MODULE MCHandle ------------------------------
(* UvHandle on small instances: a handle or two, of chosen kinds.          *)
EXTENDS UvHandle, TLC

CONSTANTS h1, h2

TimerAndFsEvent == h1 :> Timer @@ h2 :> FsEvent
TimerAndPoll == h1 :> Timer @@ h2 :> Poll
OneTimer == [h \in Handles |-> Timer]

Symmetry == Permutations(Closures)
=============================================================================

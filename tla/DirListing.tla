------------------------------ MODULE DirListing ------------------------------
(***************************************************************************)
(* What reading a directory through a Dir promises: the entries come in    *)
(* the directory's order, each once; a read that fails may lose the next   *)
(* few; a read that gives none has reached the end.                        *)
(***************************************************************************)
EXTENDS Integers, Sequences

CONSTANTS
  Entries,   \* the directory has the entries 1 .. Entries
  Chunk      \* the largest number of entries of one read

VARIABLES
  given,     \* the entries given so far
  skipped,   \* the entries that are lost
  ended      \* was the end told?

listingVars == <<given, skipped, ended>>

Init == given = <<>> /\ skipped = {} /\ ended = FALSE

\* The entries from first on, n of them.
From(first, n) == [i \in 1 .. n |-> first + i - 1]

\* The first entry that was neither given nor lost.
IsNext(e) ==
  LET known == skipped \cup {given[i] : i \in DOMAIN given}
  IN e \notin known /\ \A d \in 1 .. e - 1 : d \in known

Give ==
  \E e \in 1 .. Entries, n \in 1 .. Chunk :
    /\ IsNext(e) /\ e + n - 1 <= Entries
    /\ given' = given \o From(e, n)
    /\ UNCHANGED <<skipped, ended>>

Lose ==
  \E e \in 1 .. Entries, n \in 1 .. Chunk :
    /\ IsNext(e) /\ e + n - 1 <= Entries
    /\ skipped' = skipped \cup e .. e + n - 1
    /\ UNCHANGED <<given, ended>>

End ==
  /\ IsNext(Entries + 1)
  /\ ended' = TRUE
  /\ UNCHANGED <<given, skipped>>

Next == Give \/ Lose \/ End

Spec == Init /\ [][Next]_listingVars
=============================================================================

---------------------------- MODULE SharedObject ----------------------------
(***************************************************************************)
(* What the ownership schemes of uv.mbt promise of every object they       *)
(* share: it lives as long as a reference to it exists, it is freed after  *)
(* the last one is gone, once, and no reference comes back to a freed      *)
(* object.  Reference-counted handles (UvHandle) free with the last        *)
(* reference; the blocks of the thread primitives (UvArc) a little later.  *)
(***************************************************************************)
EXTENDS Integers

CONSTANT Objects

VARIABLES
  refs,    \* how many references to the object exist
  state    \* "unborn", "live" or "freed"

sharedVars == <<refs, state>>

Init ==
  /\ refs = [o \in Objects |-> 0]
  /\ state = [o \in Objects |-> "unborn"]

Others(o) ==
  \A p \in Objects \ {o} : refs'[p] = refs[p] /\ state'[p] = state[p]

Create(o) ==
  /\ state[o] = "unborn" /\ state'[o] = "live"
  /\ refs'[o] > 0
  /\ Others(o)

\* References are copied and dropped; one that exists keeps the object alive.
Share(o) ==
  /\ refs[o] > 0
  /\ refs'[o] >= 0
  /\ state[o] = "live"
  /\ state'[o] \in (IF refs'[o] > 0 THEN {"live"} ELSE {"live", "freed"})
  /\ Others(o)

\* The storage is given back after the last reference is gone.
Reclaim(o) ==
  /\ refs[o] = 0 /\ refs'[o] = 0
  /\ state[o] = "live" /\ state'[o] = "freed"
  /\ Others(o)

Next == \E o \in Objects : Create(o) \/ Share(o) \/ Reclaim(o)

Spec == Init /\ [][Next]_sharedVars
=============================================================================

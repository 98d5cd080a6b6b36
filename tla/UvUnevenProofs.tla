---------------------------- MODULE UvUnevenProofs ----------------------------
(***************************************************************************)
(* Proofs about UvUneven for programs whose threads do not count a handle  *)
(* at the same time, and which otherwise call what they like: for any      *)
(* number of handles, sends, starts and stops, the counts are what the     *)
(* calls have left over, and so a handle that was sent to once or more is  *)
(* there while it is needed, and freed if it was sent to just once.        *)
(***************************************************************************)
EXTENDS UvUneven, FiniteSetTheorems, TLAPS

\* The initial state.
LEMMA UInvInit == Init => UInv
<1> SUFFICES ASSUME Init PROVE UInv
  OBVIOUS
<1>1. TypeOK
  <2>1. user \in [Handles -> 0 .. MaxRefs]
    BY UnevenAssumption DEF Init
  <2>2. running \in BOOLEAN
    BY DEF Init
  <2> QED
    BY <2>1, <2>2, UnevenAssumption DEF Init, TypeOK
<1>2. RcExact
  BY UnevenAssumption DEF Init, RcExact, One
<1>3. LrcExact
  <2>1. LoopKeepers = {}
    BY DEF Init, LoopKeepers
  <2>2. ~running /\ lrc = 1 /\ luser = 1
    BY DEF Init
  <2> QED
    BY <2>1, <2>2, FS_EmptySet DEF LrcExact, One
<1>4. Callable
  BY UnevenAssumption DEF Init, Callable
<1>5. Accounts
  BY UnevenAssumption DEF Init, Accounts, Account, Taken, One
<1> QED
  BY <1>1, <1>2, <1>3, <1>4, <1>5 DEF UInv

\* The keepers of the loop are finitely many, before and after a step.
LEMMA KeepersNat ==
  /\ IsFiniteSet(LoopKeepers) /\ Cardinality(LoopKeepers) \in Nat
  /\ IsFiniteSet(LoopKeepers') /\ Cardinality(LoopKeepers') \in Nat
<1>1. LoopKeepers \subseteq Handles /\ LoopKeepers' \subseteq Handles
  BY DEF LoopKeepers
<1> QED
  BY <1>1, UnevenAssumption, FS_Subset, FS_CardinalityType

\* A step that touches one handle adds it to the keepers of the loop, takes
\* it away or leaves them.
LEMMA KeepersStep ==
  ASSUME NEW h \in Handles,
         \A g \in Handles \ {h} : g \in LoopKeepers' <=> g \in LoopKeepers
  PROVE  Cardinality(LoopKeepers')
           = Cardinality(LoopKeepers) + One(h \in LoopKeepers') - One(h \in LoopKeepers)
<1>0. Cardinality(LoopKeepers) \in Nat /\ Cardinality(LoopKeepers') \in Nat
  BY KeepersNat
<1>1. LoopKeepers \subseteq Handles /\ LoopKeepers' \subseteq Handles
  BY DEF LoopKeepers
<1>2. CASE h \in LoopKeepers' <=> h \in LoopKeepers
  <2>1. LoopKeepers' = LoopKeepers
    BY <1>1, <1>2
  <2>2. One(h \in LoopKeepers') = One(h \in LoopKeepers)
    BY <2>1 DEF One
  <2>3. One(h \in LoopKeepers) \in Int
    BY DEF One
  <2>4. Cardinality(LoopKeepers') = Cardinality(LoopKeepers)
    BY <2>1
  <2> HIDE DEF One
  <2> QED
    BY <1>0, <2>2, <2>3, <2>4
<1>3. CASE h \in LoopKeepers' /\ h \notin LoopKeepers
  <2>1. LoopKeepers' = LoopKeepers \cup {h}
    BY <1>1, <1>3
  <2>2. Cardinality(LoopKeepers') = Cardinality(LoopKeepers) + 1
    BY <1>3, <2>1, KeepersNat, FS_AddElement
  <2> QED
    BY <1>0, <1>3, <2>2 DEF One
<1>4. CASE h \notin LoopKeepers' /\ h \in LoopKeepers
  <2>1. LoopKeepers' = LoopKeepers \ {h}
    BY <1>1, <1>4
  <2>2. Cardinality(LoopKeepers') = Cardinality(LoopKeepers) - 1
    BY <1>4, <2>1, KeepersNat, FS_RemoveElement
  <2> QED
    BY <1>0, <1>4, <2>2 DEF One
<1> QED
  BY <1>2, <1>3, <1>4

\* What the types say of one handle.
LEMMA Typed ==
  ASSUME TypeOK, NEW h \in Handles
  PROVE  /\ rc[h] \in Int /\ extra[h] \in Int /\ user[h] \in Nat /\ user[h] <= MaxRefs
         /\ param \in {0, 1} /\ luser \in {0, 1} /\ lrc \in Int /\ MaxRefs \in Nat
  BY UnevenAssumption DEF TypeOK

\* What UInv says of one handle, types and the loop apart.
OkAt(h) ==
  /\ rc[h] = user[h] + extra[h] + One(frame = h /\ param = 1)
  /\ rc[h] > 0 =>
       /\ phase[h] = "closing" => data[h] = "close"
       /\ phase[h] = "open" /\ (h \in due \/ watch[h] # "off") => data[h] = "event"
  /\ Account(h)

\* A step leaves a handle alone.
Same(g) ==
  /\ kind'[g] = kind[g] /\ phase'[g] = phase[g] /\ rc'[g] = rc[g]
  /\ user'[g] = user[g] /\ extra'[g] = extra[g] /\ data'[g] = data[g]
  /\ watch'[g] = watch[g] /\ tmp'[g] = tmp[g]
  /\ g \in due' <=> g \in due
  /\ frame' = g <=> frame = g
  /\ frame = g => param' = param

LEMMA UInvAt ==
  ASSUME UInv, NEW h \in Handles
  PROVE  OkAt(h)
BY DEF UInv, OkAt, RcExact, Callable, Accounts

LEMMA SameOk ==
  ASSUME UInv, NEW g \in Handles, Same(g)
  PROVE  OkAt(g)'
<1>1. OkAt(g)
  BY UInvAt
<1>2. One(frame' = g /\ param' = 1) = One(frame = g /\ param = 1)
  BY DEF Same, One
<1>3. Account(g)'
  BY <1>1, <1>2 DEF Same, OkAt, Account, Taken
<1> QED
  BY <1>1, <1>2, <1>3 DEF Same, OkAt

\* A step of one handle, seen from that handle alone.
LEMMA OneHandle ==
  ASSUME UInv, TypeOK', NEW h \in Handles, OkAt(h)',
         \A g \in Handles \ {h} : Same(g),
         luser' = luser, running' = running, frame' = None => param' = 0,
         lrc' = lrc + One(h \in LoopKeepers') - One(h \in LoopKeepers)
  PROVE  UInv'
<1>1. \A g \in Handles : OkAt(g)'
  BY SameOk
<1>2. RcExact' /\ Callable'
  BY <1>1 DEF OkAt, RcExact, Callable
<1>3. Accounts'
  BY <1>1 DEF OkAt, Accounts
<1>4. LrcExact'
  <2>1. \A g \in Handles \ {h} : g \in LoopKeepers' <=> g \in LoopKeepers
    BY DEF Same, LoopKeepers
  <2>2. Cardinality(LoopKeepers')
          = Cardinality(LoopKeepers) + One(h \in LoopKeepers') - One(h \in LoopKeepers)
    BY <2>1, KeepersStep
  <2>3. lrc = luser + One(running) + Cardinality(LoopKeepers)
    BY DEF UInv, LrcExact
  <2>4. One(running') = One(running)
    OBVIOUS
  <2>5. One(running) \in Int /\ One(h \in LoopKeepers') \in Int /\ One(h \in LoopKeepers) \in Int
    BY DEF One
  <2>6. luser \in Int
    BY DEF UInv, TypeOK
  <2>7. lrc' = luser' + One(running') + Cardinality(LoopKeepers')
    <3> HIDE DEF One
    <3> QED
      BY <2>2, <2>3, <2>4, <2>5, <2>6, KeepersNat
  <2> QED
    BY <2>7 DEF LrcExact
<1> QED
  BY <1>2, <1>3, <1>4 DEF UInv

LEMMA NewStep ==
  ASSUME UInv, NEW h \in Handles, NEW k \in Kinds, New(h, k)
  PROVE  UInv'
<1>0. TypeOK /\ OkAt(h) /\ kind[h] = None /\ k # None /\ h # None
  BY UInvAt, UnevenAssumption DEF UInv, New, TypeOK, KeepsLoop
<1>1. /\ kind' = [kind EXCEPT ![h] = k]
      /\ phase' = [phase EXCEPT ![h] = "open"]
      /\ rc' = [rc EXCEPT ![h] = 1]
      /\ user' = [user EXCEPT ![h] = 1]
      /\ data' = [data EXCEPT ![h] = IF k = "async" THEN "event" ELSE None]
      /\ lrc' = lrc + One(k \in KeepsLoop)
      /\ luser = 1
      /\ UNCHANGED <<extra, watch, due, tmp, luser, running, frame, param>>
  BY DEF New, loopVars
<1>2. TypeOK'
  <2>1. user' \in [Handles -> 0 .. MaxRefs]
    BY <1>0, <1>1, UnevenAssumption DEF TypeOK
  <2>2. lrc' \in Int
    BY <1>0, <1>1 DEF TypeOK, One
  <2> QED
    BY <1>0, <1>1, <2>1, <2>2 DEF TypeOK
<1>3. OkAt(h)'
  BY <1>0, <1>1, <1>2 DEF OkAt, Account, Taken, TypeOK, Linked, One
<1>4. \A g \in Handles \ {h} : Same(g)
  BY <1>0, <1>1 DEF TypeOK, Same
<1>5. lrc' = lrc + One(h \in LoopKeepers') - One(h \in LoopKeepers)
  <2>1. h \notin LoopKeepers
    BY <1>0 DEF LoopKeepers
  <2>2. h \in LoopKeepers' <=> k \in KeepsLoop
    BY <1>0, <1>1 DEF LoopKeepers, TypeOK
  <2> QED
    BY <1>0, <1>1, <2>1, <2>2, Typed DEF One
<1> QED
  BY <1>1, <1>2, <1>3, <1>4, <1>5, OneHandle DEF UInv, Accounts

LEMMA NewFailsStep ==
  ASSUME UInv, NEW h \in Handles, NEW k \in Kinds, NewFails(h, k)
  PROVE  UInv'
<1>0. TypeOK /\ OkAt(h) /\ kind[h] = None /\ k # None
  BY UInvAt, UnevenAssumption DEF UInv, NewFails, KeepsLoop
<1>1. /\ kind' = [kind EXCEPT ![h] = k]
      /\ phase' = [phase EXCEPT ![h] = "failed"]
      /\ lrc' = lrc + One(k \in KeepsLoop)
      /\ UNCHANGED <<rc, user, extra, data, watch, due, tmp, luser, running, frame, param>>
  BY DEF NewFails, loopVars
<1>2. TypeOK'
  BY <1>0, <1>1 DEF TypeOK
<1>3. OkAt(h)'
  BY <1>0, <1>1, <1>2 DEF OkAt, Account, Taken, TypeOK, Linked, One
<1>4. \A g \in Handles \ {h} : Same(g)
  BY <1>0, <1>1 DEF TypeOK, Same
<1>5. lrc' = lrc + One(h \in LoopKeepers') - One(h \in LoopKeepers)
  <2>1. h \notin LoopKeepers
    BY <1>0 DEF LoopKeepers
  <2>2. h \in LoopKeepers' <=> k \in KeepsLoop
    BY <1>0, <1>1 DEF LoopKeepers, TypeOK
  <2> QED
    BY <1>0, <1>1, <2>1, <2>2, Typed DEF One
<1> QED
  BY <1>1, <1>2, <1>3, <1>4, <1>5, OneHandle DEF UInv, Accounts

\* What libuv, a variable or a parameter leads to is there, or the program is
\* broken.
LEMMA Alive ==
  ASSUME TypeOK, ~Broken, NEW h \in Handles,
         Linked(h) \/ user[h] > 0 \/ (frame = h /\ param = 1)
  PROVE  rc[h] > 0
<1>1. ~(rc[h] <= 0)
  BY DEF Broken
<1>2. rc[h] \in Int
  BY DEF TypeOK
<1> QED
  BY <1>1, <1>2

\* Settle leaves the loop's count and its keepers in step.
LEMMA SettleLoop ==
  ASSUME TypeOK, NEW h \in Handles, NEW n \in Int, NEW d,
         Settle(h, n, d), rc[h] > 0, kind[h] # None, kind' = kind,
         phase[h] # "failed", phase'[h] # "failed"
  PROVE  /\ lrc' = lrc + One(h \in LoopKeepers') - One(h \in LoopKeepers)
         /\ lrc' \in Int
         /\ rc' = [rc EXCEPT ![h] = n]
         /\ data' = [data EXCEPT ![h] = IF n <= 0 /\ kind[h] \in KeepsLoop THEN None ELSE d]
<1>1. /\ rc' = [rc EXCEPT ![h] = n]
      /\ data' = [data EXCEPT ![h] = IF n <= 0 /\ kind[h] \in KeepsLoop THEN None ELSE d]
      /\ lrc' = lrc - One(n <= 0 /\ kind[h] \in KeepsLoop)
  BY DEF Settle
<1>2. h \in LoopKeepers <=> kind[h] \in KeepsLoop
  BY DEF LoopKeepers
<1>3. h \in LoopKeepers' <=> kind[h] \in KeepsLoop /\ n > 0
  BY <1>1 DEF LoopKeepers, TypeOK
<1>4. lrc \in Int
  BY DEF TypeOK
<1> QED
  BY <1>1, <1>2, <1>3, <1>4 DEF One

LEMMA DupStep ==
  ASSUME ~Races, UInv, NEW h \in Handles, Dup(h)
  PROVE  UInv'
<1>0. TypeOK /\ OkAt(h) /\ h # None
  BY UInvAt, UnevenAssumption DEF UInv
<1>1. /\ ~Broken /\ (user[h] > 0 \/ (frame = h /\ param = 1))
      /\ tmp[h] = None /\ user[h] < MaxRefs
      /\ user' = [user EXCEPT ![h] = @ + 1]
      /\ rc' = [rc EXCEPT ![h] = @ + 1]
      /\ UNCHANGED <<kind, phase, extra, data, watch, due, tmp, lrc, luser, running, frame, param>>
  BY DEF Dup, UserTurn, Counts, Has, One, loopVars
<1>2. rc[h] \in Int /\ user[h] \in Nat /\ MaxRefs \in Nat
  BY <1>0, Typed
<1>a. rc[h] > 0
  BY <1>0, <1>1, Alive
<1>3. TypeOK'
  BY <1>0, <1>1, <1>2 DEF TypeOK
<1>4. OkAt(h)'
  BY <1>0, <1>1, <1>2, <1>a, <1>3 DEF OkAt, Account, Taken, TypeOK, Linked, One
<1>5. \A g \in Handles \ {h} : Same(g)
  BY <1>0, <1>1 DEF TypeOK, Same
<1>6. lrc' = lrc + One(h \in LoopKeepers') - One(h \in LoopKeepers)
  <2>1. rc[h] > 0 /\ rc'[h] > 0
    BY <1>0, <1>1, <1>2, <1>a DEF TypeOK
  <2>2. h \in LoopKeepers' <=> h \in LoopKeepers
    BY <1>1, <2>1 DEF LoopKeepers
  <2> QED
    BY <1>0, <1>1, <2>2, Typed DEF One
<1> QED
  BY <1>1, <1>3, <1>4, <1>5, <1>6, OneHandle DEF UInv, Accounts

LEMMA WalkStep ==
  ASSUME ~Races, UInv, NEW h \in Handles, Walk(h)
  PROVE  UInv'
<1>0. TypeOK /\ OkAt(h) /\ h # None
  BY UInvAt, UnevenAssumption DEF UInv
<1>1. /\ ~Broken /\ Linked(h)
      /\ tmp[h] = None /\ user[h] < MaxRefs
      /\ user' = [user EXCEPT ![h] = @ + 1]
      /\ rc' = [rc EXCEPT ![h] = @ + 1]
      /\ UNCHANGED <<kind, phase, extra, data, watch, due, tmp, lrc, luser, running, frame, param>>
  BY DEF Walk, UserTurn, Counts, loopVars
<1>2. rc[h] \in Int /\ user[h] \in Nat /\ MaxRefs \in Nat
  BY <1>0, Typed
<1>a. rc[h] > 0
  BY <1>0, <1>1, Alive
<1>3. TypeOK'
  BY <1>0, <1>1, <1>2 DEF TypeOK
<1>4. OkAt(h)'
  BY <1>0, <1>1, <1>2, <1>a, <1>3 DEF OkAt, Account, Taken, TypeOK, Linked, One
<1>5. \A g \in Handles \ {h} : Same(g)
  BY <1>0, <1>1 DEF TypeOK, Same
<1>6. lrc' = lrc + One(h \in LoopKeepers') - One(h \in LoopKeepers)
  <2>1. rc[h] > 0 /\ rc'[h] > 0
    BY <1>0, <1>1, <1>2, <1>a DEF TypeOK
  <2>2. h \in LoopKeepers' <=> h \in LoopKeepers
    BY <1>1, <2>1 DEF LoopKeepers
  <2> QED
    BY <1>0, <1>1, <2>2, Typed DEF One
<1> QED
  BY <1>1, <1>3, <1>4, <1>5, <1>6, OneHandle DEF UInv, Accounts

LEMMA DropStep ==
  ASSUME ~Races, UInv, NEW h \in Handles, Drop(h)
  PROVE  UInv'
<1>0. TypeOK /\ OkAt(h) /\ h # None
  BY UInvAt, UnevenAssumption DEF UInv
<1>1. /\ ~Broken /\ user[h] > 0 /\ tmp[h] = None
      /\ user' = [user EXCEPT ![h] = @ - 1]
      /\ Settle(h, rc[h] - 1, data[h])
      /\ UNCHANGED <<kind, phase, extra, watch, due, tmp, luser, running, frame, param>>
  BY DEF Drop, UserTurn, Counts, Has, One, loopVars
<1>2. rc[h] \in Int /\ user[h] \in Nat /\ extra[h] \in Int /\ MaxRefs \in Nat
  BY <1>0, Typed
<1>a. /\ phase[h] \notin {"new", "failed"} /\ kind[h] # None
      /\ rc[h] > 0 /\ rc[h] - 1 \in Int
  BY <1>0, <1>1, <1>2, Alive DEF OkAt, Account, Taken, TypeOK, One
<1>b. /\ lrc' = lrc + One(h \in LoopKeepers') - One(h \in LoopKeepers)
      /\ lrc' \in Int
      /\ rc' = [rc EXCEPT ![h] = rc[h] - 1]
      /\ data' = [data EXCEPT ![h] =
                    IF rc[h] - 1 <= 0 /\ kind[h] \in KeepsLoop THEN None ELSE data[h]]
  BY <1>0, <1>1, <1>a, SettleLoop
<1>3. TypeOK'
  BY <1>0, <1>1, <1>2, <1>b DEF TypeOK
<1>4. OkAt(h)'
  BY <1>0, <1>1, <1>2, <1>a, <1>b, <1>3 DEF OkAt, Account, Taken, TypeOK, Linked, One
<1>5. \A g \in Handles \ {h} : Same(g)
  BY <1>0, <1>1, <1>b DEF TypeOK, Same
<1> QED
  BY <1>1, <1>3, <1>4, <1>5, <1>b, OneHandle DEF UInv, Accounts

LEMMA SendStep ==
  ASSUME UInv, NEW h \in Handles, Send(h)
  PROVE  UInv'
<1>0. TypeOK /\ OkAt(h) /\ h # None
  BY UInvAt, UnevenAssumption DEF UInv
<1>1. /\ user[h] > One(tmp[h] # None) /\ kind[h] = "async"
      /\ user' = [user EXCEPT ![h] = @ - 1]
      /\ extra' = [extra EXCEPT ![h] = @ + 1]
      /\ due' = IF phase[h] = "open" THEN due \cup {h} ELSE due
      /\ UNCHANGED <<kind, phase, rc, data, watch, tmp, lrc, luser, running, frame, param>>
  BY DEF Send, Has, loopVars
<1>2. rc[h] \in Int /\ user[h] \in Nat /\ extra[h] \in Int /\ MaxRefs \in Nat /\ param \in {0, 1}
  BY <1>0, Typed
<1>u. user[h] > 0
  BY <1>1, <1>2 DEF One
<1>5. TypeOK'
  BY <1>0, <1>1, <1>2, <1>u DEF TypeOK
<1>6. OkAt(h)'
  BY <1>0, <1>1, <1>2, <1>5, UnevenAssumption DEF OkAt, Account, Taken, TypeOK, Linked, KeepsLoop, One
<1>7. \A g \in Handles \ {h} : Same(g)
  BY <1>0, <1>1 DEF TypeOK, Same
<1>8. lrc' = lrc + One(h \in LoopKeepers') - One(h \in LoopKeepers)
  <2>2. h \in LoopKeepers' <=> h \in LoopKeepers
    BY <1>1 DEF LoopKeepers
  <2> QED
    BY <1>0, <1>1, <2>2, Typed DEF One
<1> QED
  BY <1>1, <1>8, <1>5, <1>6, <1>7, OneHandle DEF UInv, Accounts

LEMMA StartStep ==
  ASSUME UInv, NEW h \in Handles, NEW oneshot \in BOOLEAN, Start(h, oneshot)
  PROVE  UInv'
<1>0. TypeOK /\ OkAt(h) /\ h # None
  BY UInvAt, UnevenAssumption DEF UInv
<1>1. /\ user[h] > One(tmp[h] # None) /\ kind[h] = "signal" /\ phase[h] = "open"
      /\ user' = [user EXCEPT ![h] = @ - 1]
      /\ extra' = [extra EXCEPT ![h] = @ + 1]
      /\ data' = [data EXCEPT ![h] = "event"]
      /\ UNCHANGED <<kind, phase, rc, tmp, lrc, luser, running, frame, param>>
  BY DEF Start, Has, loopVars
<1>w. PICK w \in {"off", "once", "always"} :
        watch' = [watch EXCEPT ![h] = w] /\ (due' = due \/ due' = due \ {h})
  <2>1. \/ watch' = [watch EXCEPT ![h] = IF oneshot THEN "always" ELSE "once"] /\ due' = due
        \/ watch' = watch /\ due' = due
        \/ watch' = [watch EXCEPT ![h] = "off"] /\ due' = due \ {h}
    BY DEF Start
  <2>2. watch \in [Handles -> {"off", "once", "always"}]
    BY <1>0 DEF TypeOK
  <2>3. watch = [watch EXCEPT ![h] = watch[h]] /\ watch[h] \in {"off", "once", "always"}
    BY <2>2
  <2> QED
    BY <2>1, <2>3
<1>2. rc[h] \in Int /\ user[h] \in Nat /\ extra[h] \in Int /\ MaxRefs \in Nat /\ param \in {0, 1}
  BY <1>0, Typed
<1>u. user[h] > 0
  BY <1>1, <1>2 DEF One
<1>5. TypeOK'
  BY <1>0, <1>1, <1>w, <1>2, <1>u DEF TypeOK
<1>6. OkAt(h)'
  BY <1>0, <1>1, <1>w, <1>2, <1>5, UnevenAssumption DEF OkAt, Account, Taken, TypeOK, Linked, KeepsLoop, One
<1>7. \A g \in Handles \ {h} : Same(g)
  BY <1>0, <1>1, <1>w DEF TypeOK, Same
<1>8. lrc' = lrc + One(h \in LoopKeepers') - One(h \in LoopKeepers)
  <2>2. h \in LoopKeepers' <=> h \in LoopKeepers
    BY <1>1 DEF LoopKeepers
  <2> QED
    BY <1>0, <1>1, <2>2, Typed DEF One
<1> QED
  BY <1>1, <1>w, <1>8, <1>5, <1>6, <1>7, OneHandle DEF UInv, Accounts

LEMMA StopStep ==
  ASSUME UInv, NEW h \in Handles, Stop(h)
  PROVE  UInv'
<1>0. TypeOK /\ OkAt(h) /\ h # None
  BY UInvAt, UnevenAssumption DEF UInv
<1>1. /\ ~Broken /\ user[h] > One(tmp[h] # None) /\ kind[h] = "signal" /\ phase[h] = "open"
      /\ user' = [user EXCEPT ![h] = @ - 1]
      /\ extra' = [extra EXCEPT ![h] = @ - 1]
      /\ watch' = [watch EXCEPT ![h] = "off"]
      /\ due' = due \ {h}
      /\ Settle(h, rc[h] - 2, None)
      /\ UNCHANGED <<kind, phase, tmp, luser, running, frame, param>>
  BY DEF Stop, UserTurn, Has, loopVars
<1>2. rc[h] \in Int /\ user[h] \in Nat /\ extra[h] \in Int /\ MaxRefs \in Nat /\ param \in {0, 1}
  BY <1>0, Typed
<1>u. user[h] > 0
  BY <1>1, <1>2 DEF One
<1>3. /\ phase[h] \notin {"new", "failed"} /\ kind[h] # None
      /\ rc[h] > 0 /\ rc[h] - 2 \in Int
  BY <1>0, <1>1, <1>2, <1>u, Alive DEF OkAt, Account, Taken, TypeOK, Linked, One
<1>4. /\ lrc' = lrc + One(h \in LoopKeepers') - One(h \in LoopKeepers)
      /\ lrc' \in Int
      /\ rc' = [rc EXCEPT ![h] = rc[h] - 2]
      /\ data' = [data EXCEPT ![h] = IF rc[h] - 2 <= 0 /\ kind[h] \in KeepsLoop THEN None ELSE None]
  BY <1>0, <1>1, <1>3, SettleLoop
<1>5. TypeOK'
  BY <1>0, <1>1, <1>2, <1>u, <1>3, <1>4 DEF TypeOK
<1>6. OkAt(h)'
  BY <1>0, <1>1, <1>2, <1>3, <1>4, <1>5, UnevenAssumption DEF OkAt, Account, Taken, TypeOK, Linked, KeepsLoop, One
<1>7. \A g \in Handles \ {h} : Same(g)
  BY <1>0, <1>1, <1>4 DEF TypeOK, Same
<1> QED
  BY <1>1, <1>4, <1>5, <1>6, <1>7, OneHandle DEF UInv, Accounts

LEMMA CloseStep ==
  ASSUME ~Races, UInv, NEW h \in Handles, Close(h)
  PROVE  UInv'
<1>0. TypeOK /\ OkAt(h) /\ h # None
  BY UInvAt, UnevenAssumption DEF UInv
<1>1. /\ ~Broken /\ user[h] > 0 /\ phase[h] = "open" /\ tmp[h] = None
      /\ phase' = [phase EXCEPT ![h] = "closing"]
      /\ user' = [user EXCEPT ![h] = @ - 1]
      /\ watch' = [watch EXCEPT ![h] = "off"]
      /\ due' = due \ {h}
      /\ Settle(h, rc[h] - 1, "close")
      /\ UNCHANGED <<kind, extra, tmp, luser, running, frame, param>>
  BY DEF Close, UserTurn, Has, Counts, One, loopVars
<1>2. rc[h] \in Int /\ user[h] \in Nat /\ extra[h] \in Int /\ MaxRefs \in Nat /\ param \in {0, 1}
  BY <1>0, Typed
<1>3. /\ phase[h] \notin {"new", "failed"} /\ kind[h] # None
      /\ rc[h] > 0 /\ rc[h] - 1 \in Int
  BY <1>0, <1>1, <1>2, Alive DEF OkAt, Account, Taken, TypeOK, Linked, One
<1>4. /\ lrc' = lrc + One(h \in LoopKeepers') - One(h \in LoopKeepers)
      /\ lrc' \in Int
      /\ rc' = [rc EXCEPT ![h] = rc[h] - 1]
      /\ data' = [data EXCEPT ![h] = IF rc[h] - 1 <= 0 /\ kind[h] \in KeepsLoop THEN None ELSE "close"]
  <2>1. phase'[h] # "failed"
    BY <1>0, <1>1 DEF TypeOK
  <2> QED
    BY <1>0, <1>1, <1>3, <2>1, SettleLoop
<1>5. TypeOK'
  BY <1>0, <1>1, <1>2, <1>3, <1>4 DEF TypeOK
<1>6. OkAt(h)'
  <2>1. /\ rc'[h] = rc[h] - 1 /\ user'[h] = user[h] - 1 /\ phase'[h] = "closing"
        /\ watch'[h] = "off" /\ h \notin due' /\ tmp'[h] = None
        /\ rc'[h] > 0 => data'[h] = "close"
    BY <1>0, <1>1, <1>2, <1>4 DEF TypeOK
  <2>2. One(phase'[h] = "closed") = One(phase[h] = "closed") /\ One(h \in due') = 0
    BY <1>1, <2>1 DEF One
  <2>3. Taken(h)' = Taken(h) /\ Taken(h) = extra[h]
    BY <1>1, <1>2, <2>2 DEF Taken, One
  <2>4. Account(h)'
    BY <1>0, <1>1, <1>2, <1>3, <2>1, <2>2, <2>3, UnevenAssumption DEF OkAt, Account, One
  <2> QED
    BY <1>0, <1>1, <1>2, <2>1, <2>4 DEF OkAt, One
<1>7. \A g \in Handles \ {h} : Same(g)
  BY <1>0, <1>1, <1>4 DEF TypeOK, Same
<1> QED
  BY <1>1, <1>4, <1>5, <1>6, <1>7, OneHandle DEF UInv, Accounts

LEMMA SendLoadsStep ==
  ASSUME UInv, NEW h \in Handles, SendLoads(h)
  PROVE  UInv'
<1>0. TypeOK /\ OkAt(h) /\ h # None
  BY UInvAt, UnevenAssumption DEF UInv
<1>1. /\ kind[h] = "async" /\ user[h] > 0
      /\ tmp' = [tmp EXCEPT ![h] = rc[h]]
      /\ UNCHANGED <<kind, phase, rc, user, extra, data, watch, due, lrc, luser, running, frame, param>>
  BY DEF SendLoads, loopVars
<1>2. rc[h] \in Int /\ user[h] \in Nat /\ extra[h] \in Int /\ MaxRefs \in Nat /\ param \in {0, 1}
  BY <1>0, Typed
<1>5. TypeOK'
  BY <1>0, <1>1, <1>2 DEF TypeOK
<1>6. OkAt(h)'
  BY <1>0, <1>1, <1>2, <1>5, UnevenAssumption DEF OkAt, Account, Taken, TypeOK, Linked, KeepsLoop, One
<1>7. \A g \in Handles \ {h} : Same(g)
  BY <1>0, <1>1 DEF TypeOK, Same
<1>8. lrc' = lrc + One(h \in LoopKeepers') - One(h \in LoopKeepers)
  <2>2. h \in LoopKeepers' <=> h \in LoopKeepers
    BY <1>1 DEF LoopKeepers
  <2> QED
    BY <1>0, <1>1, <2>2, Typed DEF One
<1> QED
  BY <1>1, <1>8, <1>5, <1>6, <1>7, OneHandle DEF UInv, Accounts

LEMMA SendStoresStep ==
  ASSUME UInv, NEW h \in Handles, SendStores(h)
  PROVE  UInv'
<1>0. TypeOK /\ OkAt(h) /\ h # None
  BY UInvAt, UnevenAssumption DEF UInv
<1>1. /\ ~Broken /\ tmp[h] # None
      /\ rc' = [rc EXCEPT ![h] = tmp[h] + 1]
      /\ extra' = [extra EXCEPT ![h] = @ + 1]
      /\ due' = IF phase[h] = "open" THEN due \cup {h} ELSE due
      /\ tmp' = [tmp EXCEPT ![h] = None]
      /\ UNCHANGED <<kind, phase, user, data, watch, lrc, luser, running, frame, param>>
  BY DEF SendStores, loopVars
<1>2. rc[h] \in Int /\ user[h] \in Nat /\ extra[h] \in Int /\ MaxRefs \in Nat /\ param \in {0, 1}
  BY <1>0, Typed
<1>5. TypeOK'
  BY <1>0, <1>1, <1>2 DEF TypeOK
<1>6. OkAt(h)'
  BY <1>0, <1>1, <1>2, <1>5, UnevenAssumption DEF OkAt, Account, Taken, TypeOK, Linked, KeepsLoop, One
<1>7. \A g \in Handles \ {h} : Same(g)
  BY <1>0, <1>1 DEF TypeOK, Same
<1>8. lrc' = lrc + One(h \in LoopKeepers') - One(h \in LoopKeepers)
  <2>1. rc[h] > 0 /\ rc'[h] > 0
    <3>1. user[h] > 0 /\ tmp[h] = rc[h]
      BY <1>0, <1>1 DEF OkAt, Account
    <3>2. rc[h] > 0
      BY <1>0, <1>1, <3>1, Alive
    <3> QED
      BY <1>0, <1>1, <1>2, <3>1, <3>2 DEF TypeOK
  <2>2. h \in LoopKeepers' <=> h \in LoopKeepers
    BY <1>0, <1>1, <2>1 DEF LoopKeepers, TypeOK
  <2> QED
    BY <1>0, <1>1, <2>2, Typed DEF One
<1> QED
  BY <1>1, <1>8, <1>5, <1>6, <1>7, OneHandle DEF UInv, Accounts

LEMMA RaiseStep ==
  ASSUME UInv, NEW h \in Handles, Raise(h)
  PROVE  UInv'
<1>0. TypeOK /\ OkAt(h) /\ h # None
  BY UInvAt, UnevenAssumption DEF UInv
<1>1. /\ watch[h] # "off"
      /\ due' = due \cup {h}
      /\ UNCHANGED <<kind, phase, rc, user, extra, data, watch, tmp, lrc, luser, running, frame, param>>
  BY DEF Raise, loopVars
<1>2. rc[h] \in Int /\ user[h] \in Nat /\ extra[h] \in Int /\ MaxRefs \in Nat /\ param \in {0, 1}
  BY <1>0, Typed
<1>5. TypeOK'
  BY <1>0, <1>1, <1>2 DEF TypeOK
<1>6. OkAt(h)'
  BY <1>0, <1>1, <1>2, <1>5, UnevenAssumption DEF OkAt, Account, Taken, TypeOK, Linked, KeepsLoop, One
<1>7. \A g \in Handles \ {h} : Same(g)
  BY <1>0, <1>1 DEF TypeOK, Same
<1>8. lrc' = lrc + One(h \in LoopKeepers') - One(h \in LoopKeepers)
  <2>2. h \in LoopKeepers' <=> h \in LoopKeepers
    BY <1>1 DEF LoopKeepers
  <2> QED
    BY <1>0, <1>1, <2>2, Typed DEF One
<1> QED
  BY <1>1, <1>8, <1>5, <1>6, <1>7, OneHandle DEF UInv, Accounts

LEMMA EventCbStep ==
  ASSUME ~Races, UInv, NEW h \in Handles, EventCb(h)
  PROVE  UInv'
<1>0. TypeOK /\ OkAt(h) /\ h # None
  BY UInvAt, UnevenAssumption DEF UInv
<1>1. /\ ~Broken /\ frame = None /\ tmp[h] = None /\ phase[h] = "open" /\ data[h] = "event"
      /\ due' = due \ {h}
      /\ rc' = [rc EXCEPT ![h] = @ + 1]
      /\ frame' = h
      /\ param' = 1
      /\ UNCHANGED <<kind, phase, user, extra, data, watch, tmp, lrc, luser, running>>
  BY DEF EventCb, LoopTurn, Counts
<1>2. rc[h] \in Int /\ user[h] \in Nat /\ extra[h] \in Int /\ MaxRefs \in Nat /\ param \in {0, 1}
  BY <1>0, Typed
<1>5. TypeOK'
  BY <1>0, <1>1, <1>2 DEF TypeOK
<1>6. OkAt(h)'
  BY <1>0, <1>1, <1>2, <1>5, UnevenAssumption DEF OkAt, Account, Taken, TypeOK, Linked, KeepsLoop, One
<1>7. \A g \in Handles \ {h} : Same(g)
  BY <1>0, <1>1, UnevenAssumption DEF TypeOK, Same
<1>8. lrc' = lrc + One(h \in LoopKeepers') - One(h \in LoopKeepers)
  <2>1. rc[h] > 0 /\ rc'[h] > 0
    BY <1>0, <1>1, <1>2, Alive DEF TypeOK, Linked
  <2>2. h \in LoopKeepers' <=> h \in LoopKeepers
    BY <1>0, <1>1, <2>1 DEF LoopKeepers, TypeOK
  <2> QED
    BY <1>0, <1>1, <2>2, Typed DEF One
<1> QED
  BY <1>0, <1>1, <1>8, <1>5, <1>6, <1>7, OneHandle DEF UInv, Accounts

LEMMA CloseCbStep ==
  ASSUME ~Races, UInv, NEW h \in Handles, CloseCb(h)
  PROVE  UInv'
<1>0. TypeOK /\ OkAt(h) /\ h # None
  BY UInvAt, UnevenAssumption DEF UInv
<1>1. /\ ~Broken /\ frame = None /\ param = 0 /\ tmp[h] = None /\ phase[h] = "closing" /\ data[h] = "close"
      /\ phase' = [phase EXCEPT ![h] = "closed"]
      /\ extra' = [extra EXCEPT ![h] = @ - 1]
      /\ frame' = h
      /\ Settle(h, rc[h] - 1, None)
      /\ UNCHANGED <<kind, user, watch, due, tmp, luser, running, param>>
  BY DEF CloseCb, LoopTurn, Counts, UInv, Accounts
<1>2. rc[h] \in Int /\ user[h] \in Nat /\ extra[h] \in Int /\ MaxRefs \in Nat /\ param \in {0, 1}
  BY <1>0, Typed
<1>3. /\ phase[h] \notin {"new", "failed"} /\ kind[h] # None
      /\ rc[h] > 0 /\ rc[h] - 1 \in Int
  BY <1>0, <1>1, <1>2, Alive DEF OkAt, Account, Taken, TypeOK, Linked, One
<1>4. /\ lrc' = lrc + One(h \in LoopKeepers') - One(h \in LoopKeepers)
      /\ lrc' \in Int
      /\ rc' = [rc EXCEPT ![h] = rc[h] - 1]
      /\ data' = [data EXCEPT ![h] = IF rc[h] - 1 <= 0 /\ kind[h] \in KeepsLoop THEN None ELSE None]
  <2>1. phase'[h] # "failed"
    BY <1>0, <1>1 DEF TypeOK
  <2> QED
    BY <1>0, <1>1, <1>3, <2>1, SettleLoop
<1>5. TypeOK'
  BY <1>0, <1>1, <1>2, <1>3, <1>4 DEF TypeOK
<1>6. OkAt(h)'
  BY <1>0, <1>1, <1>2, <1>3, <1>4, <1>5, UnevenAssumption DEF OkAt, Account, Taken, TypeOK, Linked, KeepsLoop, One
<1>7. \A g \in Handles \ {h} : Same(g)
  BY <1>0, <1>1, <1>4, UnevenAssumption DEF TypeOK, Same
<1> QED
  BY <1>0, <1>1, <1>4, <1>5, <1>6, <1>7, OneHandle DEF UInv, Accounts

LEMMA ReturnStep ==
  ASSUME ~Races, UInv, NEW h \in Handles, Return(h)
  PROVE  UInv'
<1>0. TypeOK /\ OkAt(h) /\ h # None
  BY UInvAt, UnevenAssumption DEF UInv
<1>1. /\ ~Broken /\ frame = h /\ tmp[h] = None /\ frame' = None /\ param' = 0
      /\ watch' = [watch EXCEPT ![h] = IF @ = "once" THEN "off" ELSE @]
      /\ due' = IF watch[h] = "once" THEN due \ {h} ELSE due
      /\ UNCHANGED <<kind, phase, user, extra, tmp, luser, running>>
  BY DEF Return, Counts
<1>2. rc[h] \in Int /\ user[h] \in Nat /\ extra[h] \in Int /\ MaxRefs \in Nat /\ param \in {0, 1}
  BY <1>0, Typed
<1>3. CASE param = 1
  <2>1. Settle(h, rc[h] - 1, data[h])
    BY <1>3 DEF Return
  <2>2. /\ phase[h] \notin {"new", "failed", "closed"} /\ kind[h] # None
        /\ rc[h] > 0 /\ rc[h] - 1 \in Int
    BY <1>0, <1>1, <1>2, <1>3, Alive DEF OkAt, Account, TypeOK
  <2>3. phase'[h] # "failed"
    BY <1>1, <2>2
  <2>4. /\ lrc' = lrc + One(h \in LoopKeepers') - One(h \in LoopKeepers)
        /\ lrc' \in Int
        /\ rc' = [rc EXCEPT ![h] = rc[h] - 1]
        /\ data' = [data EXCEPT ![h] =
                      IF rc[h] - 1 <= 0 /\ kind[h] \in KeepsLoop THEN None ELSE data[h]]
    BY <1>0, <1>1, <2>1, <2>2, <2>3, SettleLoop
  <2>5. TypeOK'
    BY <1>0, <1>1, <1>2, <2>4 DEF TypeOK
  <2>6. OkAt(h)'
    BY <1>0, <1>1, <1>2, <1>3, <2>2, <2>4, <2>5, UnevenAssumption
       DEF OkAt, Account, Taken, TypeOK, Linked, KeepsLoop, One
  <2>7. \A g \in Handles \ {h} : Same(g)
    BY <1>0, <1>1, <2>4, UnevenAssumption DEF TypeOK, Same
  <2> QED
    BY <1>1, <2>4, <2>5, <2>6, <2>7, OneHandle DEF UInv, Accounts
<1>4. CASE param = 0
  <2>1. UNCHANGED <<rc, data, lrc>>
    BY <1>4 DEF Return
  <2>2. TypeOK'
    BY <1>0, <1>1, <1>2, <2>1 DEF TypeOK
  <2>3. OkAt(h)'
    BY <1>0, <1>1, <1>2, <1>4, <2>1, <2>2 DEF OkAt, Account, Taken, TypeOK, Linked, One
  <2>4. \A g \in Handles \ {h} : Same(g)
    BY <1>0, <1>1, <2>1, UnevenAssumption DEF TypeOK, Same
  <2>5. lrc' = lrc + One(h \in LoopKeepers') - One(h \in LoopKeepers)
    <3>1. h \in LoopKeepers' <=> h \in LoopKeepers
      BY <1>1, <2>1 DEF LoopKeepers
    <3> QED
      BY <1>0, <2>1, <3>1, Typed DEF One
  <2> QED
    BY <1>1, <2>2, <2>3, <2>4, <2>5, OneHandle DEF UInv, Accounts
<1> QED
  BY <1>2, <1>3, <1>4

\* The loop's count, when no handle changes: uv_run keeps the loop and lets it
\* go, and so does the program.
LEMMA LoopSteps ==
  ASSUME UInv, Run \/ RunReturns \/ DropLoop
  PROVE  UInv'
<1>0. /\ TypeOK /\ RcExact /\ Callable /\ Accounts
      /\ UNCHANGED <<kind, phase, rc, user, extra, data, watch, due, tmp, frame, param>>
  BY DEF UInv, Run, RunReturns, DropLoop, handleVars
<1>1. LoopKeepers' = LoopKeepers
  BY <1>0 DEF LoopKeepers
<1>2. luser \in {0, 1} /\ lrc \in Int /\ Cardinality(LoopKeepers) \in Nat
      /\ lrc = luser + One(running) + Cardinality(LoopKeepers)
  BY <1>0, KeepersNat DEF UInv, TypeOK, LrcExact
<1>3. /\ luser' \in {0, 1} /\ running' \in BOOLEAN
      /\ lrc' = luser' + One(running') + Cardinality(LoopKeepers)
  <2>1. CASE Run
    <3>a. ~running /\ running' = TRUE
      BY <2>1 DEF Run
    <3>1. One(running) = 0 /\ One(running') = 1
      BY <3>a DEF One
    <3>2. lrc' = lrc + 1 /\ luser' = luser
      BY <2>1 DEF Run
    <3> HIDE DEF One
    <3> QED
      BY <1>2, <3>a, <3>1, <3>2
  <2>2. CASE RunReturns
    <3>a. running /\ running' = FALSE
      BY <2>2 DEF RunReturns, LoopTurn
    <3>1. One(running) = 1 /\ One(running') = 0
      BY <3>a DEF One
    <3>2. lrc' = lrc - 1 /\ luser' = luser
      BY <2>2 DEF RunReturns
    <3>3. lrc' = luser' + One(running') + Cardinality(LoopKeepers)
      <4> HIDE DEF One
      <4> QED
        BY <1>2, <3>1, <3>2
    <3>4. running' \in BOOLEAN
      BY <3>a
    <3> QED
      BY <1>2, <3>2, <3>3, <3>4
  <2>3. CASE DropLoop
    <3>1. running' = running /\ One(running') = One(running)
      BY <2>3 DEF DropLoop
    <3>2. lrc' = lrc - 1 /\ luser = 1 /\ luser' = 0
      BY <2>3 DEF DropLoop
    <3>3. One(running) \in Int
      BY DEF One
    <3>4. running \in BOOLEAN
      BY <1>0 DEF TypeOK
    <3>5. lrc' = luser' + One(running') + Cardinality(LoopKeepers)
      <4> HIDE DEF One
      <4> QED
        BY <1>2, <3>1, <3>2, <3>3
    <3> QED
      BY <3>1, <3>2, <3>4, <3>5
  <2> QED
    BY <2>1, <2>2, <2>3
<1>4. TypeOK'
  <2>1. lrc' \in Int
    <3>1. One(running') \in Int
      BY DEF One
    <3> HIDE DEF One
    <3> QED
      BY <1>2, <1>3, <3>1
  <2> QED
    BY <1>0, <1>3, <2>1 DEF TypeOK
<1>5. RcExact' /\ Callable'
  BY <1>0 DEF RcExact, Callable
<1>6. LrcExact'
  BY <1>1, <1>3 DEF LrcExact
<1>7. Accounts'
  BY <1>0 DEF Accounts, Account, Taken
<1> QED
  BY <1>4, <1>5, <1>6, <1>7 DEF UInv

\* Whatever a program does, if threads do not count at once.
LEMMA UInvNext ==
  ASSUME ~Races, UInv, [Next]_vars
  PROVE  UInv'
<1>1. ASSUME NEW h \in Handles, UserStep(h) PROVE UInv'
  BY <1>1, NewStep, NewFailsStep, DupStep, WalkStep, DropStep, SendStep, StopStep, CloseStep, StartStep
     DEF UserStep
<1>2. ASSUME NEW h \in Handles, ThreadStep(h) PROVE UInv'
  BY <1>2, SendLoadsStep, SendStoresStep DEF ThreadStep
<1>3. ASSUME NEW h \in Handles, LoopStep(h) PROVE UInv'
  BY <1>3, RaiseStep, EventCbStep, CloseCbStep, ReturnStep DEF LoopStep
<1>4. CASE Terminated \/ UNCHANGED vars
  <2>1. UNCHANGED vars
    BY <1>4 DEF Terminated
  <2>2. TypeOK' /\ RcExact' /\ LrcExact' /\ Callable' /\ Accounts'
    <3>1. /\ UNCHANGED <<kind, phase, rc, user, extra, data, watch, due, tmp>>
          /\ UNCHANGED <<lrc, luser, running, frame, param>>
      BY <2>1 DEF vars, handleVars, loopVars
    <3>2. LoopKeepers' = LoopKeepers
      BY <3>1 DEF LoopKeepers
    <3>3. LrcExact'
      BY <3>1, <3>2 DEF UInv, LrcExact
    <3>4. TypeOK'
      BY <3>1 DEF UInv, TypeOK
    <3>5. RcExact' /\ Callable'
      BY <3>1 DEF UInv, RcExact, Callable
    <3>6. Accounts'
      BY <3>1 DEF UInv, Accounts, Account, Taken
    <3> QED
      BY <3>3, <3>4, <3>5, <3>6
  <2> QED
    BY <2>2 DEF UInv
<1> QED
  BY <1>1, <1>2, <1>3, <1>4, LoopSteps DEF Next

\* The counts are what variables, the callback, the calls and the loop account
\* for in every reachable state, whatever is called how often (async.c:73-106,
\* signal.c:46-104, tty.c:29-36, handle.h:29-45).
THEOREM UnevenInvariant ==
  ASSUME ~Races
  PROVE  Spec => []UInv
<1>1. UInv /\ [Next]_vars => UInv'
  BY UInvNext
<1> QED
  BY <1>1, UInvInit, PTL DEF Spec

\* What was sent to, or started more often than stopped, is there; a handle that
\* is there keeps its loop, but for a tty.
LEMMA UInvNoDangling == UInv => NoDangling
<1> SUFFICES ASSUME UInv, NEW h \in Handles
             PROVE  /\ Taken(h) >= 1 /\ (Linked(h) \/ user[h] > 0 \/ (frame = h /\ param = 1)) => rc[h] > 0
                    /\ kind[h] = "tty" /\ phase[h] = "open" /\ user[h] > 0 => rc[h] > 0
                    /\ Linked(h) /\ rc[h] > 0 => lrc > 0 \/ (kind[h] = "tty" /\ luser = 0 /\ ~running)
  BY DEF NoDangling
<1>1. TypeOK /\ OkAt(h)
  BY UInvAt DEF UInv
<1>2. rc[h] \in Int /\ user[h] \in Nat /\ extra[h] \in Int /\ luser \in {0, 1} /\ lrc \in Int
  BY <1>1, Typed
<1>3. Taken(h) >= 1 /\ (Linked(h) \/ user[h] > 0 \/ (frame = h /\ param = 1)) => rc[h] > 0
  BY <1>1, <1>2 DEF OkAt, Taken, Linked, One
<1>4. kind[h] = "tty" /\ phase[h] = "open" /\ user[h] > 0 => rc[h] > 0
  BY <1>1, <1>2 DEF OkAt, Account, Taken, One
<1>5. ASSUME Linked(h), rc[h] > 0, ~(kind[h] = "tty" /\ luser = 0 /\ ~running) PROVE lrc > 0
  <2>1. lrc = luser + One(running) + Cardinality(LoopKeepers)
    BY DEF UInv, LrcExact
  <2>2. One(running) \in Nat /\ (running => One(running) = 1)
    BY DEF One
  <2>3. luser = 1 \/ running \/ Cardinality(LoopKeepers) > 0
    <3>1. CASE kind[h] \notin KeepsLoop
      <4>1. kind[h] = "tty"
        BY <1>1, <1>5, <3>1, UnevenAssumption DEF OkAt, Account, Linked, TypeOK, KeepsLoop
      <4> QED
        BY <1>2, <1>5, <4>1
    <3>2. CASE kind[h] \in KeepsLoop
      <4>1. kind[h] # None
        BY <1>1, <1>5 DEF OkAt, Account, Linked
      <4>2. h \in LoopKeepers
        BY <1>5, <3>2, <4>1 DEF LoopKeepers
      <4>3. LoopKeepers # {}
        BY <4>2
      <4>4. Cardinality(LoopKeepers) # 0
        BY <4>3, KeepersNat, FS_EmptySet
      <4> QED
        BY <4>4, KeepersNat
    <3> QED
      BY <3>1, <3>2
  <2> HIDE DEF One
  <2> QED
    BY <1>2, <2>1, <2>2, <2>3, KeepersNat
<1> QED
  BY <1>3, <1>4, <1>5

\* docs/memory.md promises that no use of the public API leads to a
\* segmentation fault: with an async that was sent to at least once, whatever
\* else is called, none does.
THEOREM UnevenMemorySafe ==
  ASSUME ~Races
  PROVE  Spec => []NoDangling
BY UnevenInvariant, UInvNoDangling, PTL

\* A handle that is closed and in no variable has the references that its calls
\* took beyond the first, for ever: it is freed if there are none.
THEOREM UnevenFreed ==
  ASSUME ~Races
  PROVE  Spec => []NoLeak
<1>1. UInv => NoLeak
  <2> SUFFICES ASSUME UInv, NEW h \in Handles, phase[h] = "closed", user[h] = 0
               PROVE  rc[h] = Taken(h) - 1 /\ data[h] = None
    BY DEF NoLeak
  <2>1. TypeOK /\ OkAt(h)
    BY UInvAt DEF UInv
  <2>2. extra[h] \in Int /\ data[h] = None /\ rc[h] = extra[h]
    BY <2>1, Typed DEF OkAt, Account, One
  <2> QED
    BY <2>2 DEF Taken, One
<1> QED
  BY <1>1, UnevenInvariant, PTL
=============================================================================

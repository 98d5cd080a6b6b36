--------------------------- MODULE UvProcessProofs ---------------------------
(***************************************************************************)
(* Proofs about UvProcess: for any number of processes, options and        *)
(* containers, libuv never has a process that was freed, and an exit       *)
(* closure is in one place until its one call.  The second part is about   *)
(* the standard streams: a stream's reference that a container took over   *)
(* is the container's or an entry's of some options, until it is dropped.  *)
(***************************************************************************)
EXTENDS UvProcess, FiniteSetTheorems, FunctionTheorems, WellFoundedInduction, TLAPS

Alive == {p \in Processes : rc[p] > 0}

\* The initial state.
LEMMA ProcessInvInit == Init => ProcessInv
<1> SUFFICES ASSUME Init PROVE ProcessInv
  OBVIOUS
<1>1. ProcessTypes
  <2>1. running \in BOOLEAN
    BY DEF Init
  <2> QED
    BY <2>1 DEF Init, ProcessTypes
<1>2. RcExact
  BY ProcessAssumption DEF Init, RcExact, Linked, One
<1>3. LrcExact
  <2>1. {p \in Processes : rc[p] > 0} = {}
    BY DEF Init
  <2>2. ~running /\ lrc = 1 /\ luser = 1
    BY DEF Init
  <2> QED
    BY <2>1, <2>2, FS_EmptySet DEF LrcExact, One
<1>4. Callable /\ Fresh
  BY ProcessAssumption DEF Init, Callable, Fresh
<1>5. \A o \in Options : OneHolder(o)
  BY ProcessAssumption DEF Init, OneHolder
<1> QED
  BY <1>1, <1>2, <1>3, <1>4, <1>5 DEF ProcessInv

\* The processes that are there are finitely many, before and after a step.
LEMMA AliveNat ==
  /\ IsFiniteSet(Alive) /\ Cardinality(Alive) \in Nat
  /\ IsFiniteSet(Alive') /\ Cardinality(Alive') \in Nat
<1>1. Alive \subseteq Processes /\ Alive' \subseteq Processes
  BY DEF Alive
<1> QED
  BY <1>1, ProcessAssumption, FS_Subset, FS_CardinalityType

\* A step that touches one process makes it, frees it or leaves it there.
LEMMA AliveStep ==
  ASSUME NEW p \in Processes,
         \A q \in Processes \ {p} : rc'[q] = rc[q]
  PROVE  Cardinality(Alive') = Cardinality(Alive) + One(rc'[p] > 0) - One(rc[p] > 0)
<1>0. Cardinality(Alive) \in Nat /\ Cardinality(Alive') \in Nat
  BY AliveNat
<1>1. /\ Alive \subseteq Processes /\ Alive' \subseteq Processes
      /\ \A q \in Processes \ {p} : q \in Alive' <=> q \in Alive
      /\ p \in Alive <=> rc[p] > 0
      /\ p \in Alive' <=> rc'[p] > 0
  BY DEF Alive
<1>2. CASE p \in Alive' <=> p \in Alive
  <2>1. Alive' = Alive
    BY <1>1, <1>2
  <2>2. One(rc'[p] > 0) = One(rc[p] > 0)
    BY <1>1, <1>2 DEF One
  <2>3. One(rc[p] > 0) \in Int
    BY DEF One
  <2>4. Cardinality(Alive') = Cardinality(Alive)
    BY <2>1
  <2> HIDE DEF One
  <2> QED
    BY <1>0, <2>2, <2>3, <2>4
<1>3. CASE p \in Alive' /\ p \notin Alive
  <2>1. Alive' = Alive \cup {p}
    BY <1>1, <1>3
  <2>2. Cardinality(Alive') = Cardinality(Alive) + 1
    BY <1>3, <2>1, AliveNat, FS_AddElement
  <2> QED
    BY <1>0, <1>1, <1>3, <2>2 DEF One
<1>4. CASE p \notin Alive' /\ p \in Alive
  <2>1. Alive' = Alive \ {p}
    BY <1>1, <1>4
  <2>2. Cardinality(Alive') = Cardinality(Alive) - 1
    BY <1>4, <2>1, AliveNat, FS_RemoveElement
  <2> QED
    BY <1>0, <1>1, <1>4, <2>2 DEF One
<1> QED
  BY <1>2, <1>3, <1>4

\* What ProcessInv says of one process, types and the loop apart.
OkAt(p) ==
  /\ rc[p] = user[p] + One(Linked(p)) + One(frame = p /\ param = 1)
  /\ phase[p] = "closing" => data[p] = "close"
  /\ phase[p] = "active" => data[p] # "close"
  /\ phase[p] \in {"exited", "closed"} => data[p] = None
  /\ phase[p] = "new" => user[p] = 0 /\ data[p] = None /\ frame # p

\* A step leaves a process alone.
Same(q) ==
  /\ phase'[q] = phase[q] /\ rc'[q] = rc[q] /\ user'[q] = user[q] /\ data'[q] = data[q]
  /\ frame' = q <=> frame = q
  /\ frame = q => param' = param

LEMMA OkAtAll ==
  ASSUME ProcessInv, NEW p \in Processes
  PROVE  OkAt(p)
BY DEF ProcessInv, OkAt, RcExact, Callable, Fresh

LEMMA SameOk ==
  ASSUME ProcessInv, NEW q \in Processes, Same(q)
  PROVE  OkAt(q)'
<1>1. OkAt(q)
  BY OkAtAll
<1>2. /\ One(frame' = q /\ param' = 1) = One(frame = q /\ param = 1)
      /\ One(Linked(q)') = One(Linked(q))
  BY DEF Same, One, Linked
<1> QED
  BY <1>1, <1>2 DEF Same, OkAt

\* A step of one process, seen from that process alone.
LEMMA OneProcess ==
  ASSUME ProcessInv, ProcessTypes', NEW p \in Processes, OkAt(p)',
         \A q \in Processes \ {p} : Same(q),
         \A o \in Options : OneHolder(o)',
         luser' = luser, running' = running, frame' = None => param' = 0,
         lrc' = lrc + One(rc'[p] > 0) - One(rc[p] > 0)
  PROVE  ProcessInv'
<1>1. \A q \in Processes : OkAt(q)'
  BY SameOk
<1>2. RcExact' /\ Callable' /\ Fresh'
  BY <1>1 DEF OkAt, RcExact, Callable, Fresh
<1>3. LrcExact'
  <2>1. Cardinality(Alive') = Cardinality(Alive) + One(rc'[p] > 0) - One(rc[p] > 0)
    BY AliveStep DEF Same
  <2>2. lrc = luser + One(running) + Cardinality(Alive)
    BY DEF ProcessInv, LrcExact, Alive
  <2>3. One(running') = One(running)
    OBVIOUS
  <2>4. One(running) \in Int /\ One(rc'[p] > 0) \in Int /\ One(rc[p] > 0) \in Int
    BY DEF One
  <2>5. luser \in Int
    BY DEF ProcessInv, ProcessTypes
  <2>6. lrc' = luser' + One(running') + Cardinality(Alive')
    <3> HIDE DEF One
    <3> QED
      BY <2>1, <2>2, <2>3, <2>4, <2>5, AliveNat
  <2> QED
    BY <2>6 DEF LrcExact, Alive
<1> QED
  BY <1>2, <1>3 DEF ProcessInv

\* What the types say of one process.
LEMMA Typed ==
  ASSUME ProcessTypes, NEW p \in Processes
  PROVE  /\ rc[p] \in Nat /\ user[p] \in Nat /\ param \in {0, 1}
         /\ luser \in {0, 1} /\ lrc \in Int
         /\ data[p] \in Options \cup {"close", None}
BY DEF ProcessTypes

\* What no step of a process changes of the closures.
LEMMA HoldersStay ==
  ASSUME ProcessInv, UNCHANGED <<made, exitCb, exits>>,
         \A q \in Processes : data'[q] = data[q] \/ data'[q] \in {"close", None}
  PROVE  \A o \in Options : OneHolder(o)'
<1> SUFFICES ASSUME NEW o \in Options PROVE OneHolder(o)'
  OBVIOUS
<1>1. OneHolder(o)
  BY DEF ProcessInv
<1>2. \A q \in Processes : data'[q] = o => data[q] = o
  BY ProcessAssumption
<1> QED
  BY <1>1, <1>2 DEF OneHolder

\* Settle leaves the loop's count and the processes that are there in step.
LEMMA SettleLoop ==
  ASSUME ProcessTypes, NEW p \in Processes, NEW n \in Nat, NEW d \in Options \cup {"close", None},
         Settle(p, n, d), rc[p] > 0
  PROVE  /\ lrc' = lrc + One(rc'[p] > 0) - One(rc[p] > 0) /\ lrc' \in Int
         /\ rc' = [rc EXCEPT ![p] = n]
         /\ data'[p] = (IF n = 0 THEN None ELSE d)
         /\ \A q \in Processes \ {p} : data'[q] = data[q]
         /\ data' \in [Processes -> Options \cup {"close", None}]
<1>1. /\ rc' = [rc EXCEPT ![p] = n]
      /\ data' = [data EXCEPT ![p] = IF n = 0 THEN None ELSE d]
      /\ lrc' = lrc - One(n = 0)
  BY DEF Settle
<1>2. rc'[p] = n /\ lrc \in Int
  BY <1>1 DEF ProcessTypes
<1> QED
  BY <1>1, <1>2 DEF One, ProcessTypes

LEMMA DropStep ==
  ASSUME ProcessInv, NEW p \in Processes, Drop(p)
  PROVE  ProcessInv'
<1>0. ProcessTypes /\ OkAt(p) /\ p # None
  BY OkAtAll, ProcessAssumption DEF ProcessInv
<1>1. /\ user[p] > 0
      /\ user' = [user EXCEPT ![p] = @ - 1]
      /\ Settle(p, rc[p] - 1, data[p])
      /\ UNCHANGED <<phase, child, made, exitCb, exits, luser, running, frame, param>>
  BY DEF Drop, optionVars
<1>2. /\ rc[p] \in Nat /\ user[p] \in Nat /\ param \in {0, 1} /\ lrc \in Int
      /\ data[p] \in Options \cup {"close", None}
  BY <1>0, Typed
<1>3. rc[p] > 0 /\ rc[p] - 1 \in Nat /\ (rc[p] - 1 = 0 => phase[p] \notin {"closing", "active", "exited", "failed"})
  BY <1>0, <1>1, <1>2 DEF OkAt, Linked, One
<1>4. /\ lrc' = lrc + One(rc'[p] > 0) - One(rc[p] > 0) /\ lrc' \in Int
      /\ rc' = [rc EXCEPT ![p] = rc[p] - 1]
      /\ data'[p] = (IF rc[p] - 1 = 0 THEN None ELSE data[p])
      /\ \A q \in Processes \ {p} : data'[q] = data[q]
      /\ data' \in [Processes -> Options \cup {"close", None}]
  BY <1>1, <1>2, <1>3, <1>0, SettleLoop
<1>5. ProcessTypes'
  BY <1>0, <1>1, <1>2, <1>3, <1>4 DEF ProcessTypes
<1>6. OkAt(p)'
  BY <1>0, <1>1, <1>2, <1>3, <1>4 DEF OkAt, Linked, One, ProcessTypes
<1>7. \A q \in Processes \ {p} : Same(q)
  BY <1>0, <1>1, <1>4, ProcessAssumption DEF ProcessTypes, Same
<1>8. \A o \in Options : OneHolder(o)'
  BY <1>0, <1>1, <1>4, HoldersStay DEF ProcessTypes
<1> QED
  BY <1>0, <1>1, <1>4, <1>5, <1>6, <1>7, <1>8, OneProcess DEF ProcessInv, Fresh

LEMMA CloseStep ==
  ASSUME ProcessInv, NEW p \in Processes, Close(p)
  PROVE  ProcessInv'
<1>0. ProcessTypes /\ OkAt(p) /\ p # None
  BY OkAtAll, ProcessAssumption DEF ProcessInv
<1>1. /\ user[p] > 0
      /\ phase[p] \in {"active", "exited"}
      /\ phase' = [phase EXCEPT ![p] = "closing"]
      /\ user' = [user EXCEPT ![p] = @ - 1]
      /\ Settle(p, rc[p] - 1, "close")
      /\ UNCHANGED <<child, made, exitCb, exits, luser, running, frame, param>>
  BY DEF Close, optionVars
<1>2. /\ rc[p] \in Nat /\ user[p] \in Nat /\ param \in {0, 1} /\ lrc \in Int
      /\ data[p] \in Options \cup {"close", None}
  BY <1>0, Typed
<1>3. rc[p] > 0 /\ rc[p] - 1 \in Nat /\ (rc[p] - 1 > 0)
  BY <1>0, <1>1, <1>2 DEF OkAt, Linked, One
<1>4. /\ lrc' = lrc + One(rc'[p] > 0) - One(rc[p] > 0) /\ lrc' \in Int
      /\ rc' = [rc EXCEPT ![p] = rc[p] - 1]
      /\ data'[p] = (IF rc[p] - 1 = 0 THEN None ELSE "close")
      /\ \A q \in Processes \ {p} : data'[q] = data[q]
      /\ data' \in [Processes -> Options \cup {"close", None}]
  BY <1>1, <1>2, <1>3, <1>0, SettleLoop
<1>5. ProcessTypes'
  BY <1>0, <1>1, <1>2, <1>3, <1>4 DEF ProcessTypes
<1>6. OkAt(p)'
  BY <1>0, <1>1, <1>2, <1>3, <1>4 DEF OkAt, Linked, One, ProcessTypes
<1>7. \A q \in Processes \ {p} : Same(q)
  BY <1>0, <1>1, <1>4, ProcessAssumption DEF ProcessTypes, Same
<1>8. \A o \in Options : OneHolder(o)'
  BY <1>0, <1>1, <1>4, HoldersStay DEF ProcessTypes
<1> QED
  BY <1>0, <1>1, <1>4, <1>5, <1>6, <1>7, <1>8, OneProcess DEF ProcessInv, Fresh

LEMMA CloseCbStep ==
  ASSUME ProcessInv, NEW p \in Processes, CloseCb(p)
  PROVE  ProcessInv'
<1>0. ProcessTypes /\ OkAt(p) /\ p # None
  BY OkAtAll, ProcessAssumption DEF ProcessInv
<1>1. /\ frame = None
      /\ param = 0
      /\ phase[p] = "closing"
      /\ phase' = [phase EXCEPT ![p] = "closed"]
      /\ frame' = p
      /\ Settle(p, rc[p] - 1, None)
      /\ UNCHANGED <<child, user, made, exitCb, exits, luser, running, param>>
  BY DEF CloseCb, LoopTurn, optionVars, ProcessInv, Fresh
<1>2. /\ rc[p] \in Nat /\ user[p] \in Nat /\ param \in {0, 1} /\ lrc \in Int
      /\ data[p] \in Options \cup {"close", None}
  BY <1>0, Typed
<1>3. rc[p] > 0 /\ rc[p] - 1 \in Nat /\ (rc[p] - 1 >= 0)
  BY <1>0, <1>1, <1>2 DEF OkAt, Linked, One
<1>4. /\ lrc' = lrc + One(rc'[p] > 0) - One(rc[p] > 0) /\ lrc' \in Int
      /\ rc' = [rc EXCEPT ![p] = rc[p] - 1]
      /\ data'[p] = (IF rc[p] - 1 = 0 THEN None ELSE None)
      /\ \A q \in Processes \ {p} : data'[q] = data[q]
      /\ data' \in [Processes -> Options \cup {"close", None}]
  BY <1>1, <1>2, <1>3, <1>0, SettleLoop
<1>5. ProcessTypes'
  BY <1>0, <1>1, <1>2, <1>3, <1>4 DEF ProcessTypes
<1>6. OkAt(p)'
  BY <1>0, <1>1, <1>2, <1>3, <1>4 DEF OkAt, Linked, One, ProcessTypes
<1>7. \A q \in Processes \ {p} : Same(q)
  BY <1>0, <1>1, <1>4, ProcessAssumption DEF ProcessTypes, Same
<1>8. \A o \in Options : OneHolder(o)'
  BY <1>0, <1>1, <1>4, HoldersStay DEF ProcessTypes
<1> QED
  BY <1>0, <1>1, <1>4, <1>5, <1>6, <1>7, <1>8, OneProcess DEF ProcessInv, Fresh

LEMMA DupStep ==
  ASSUME ProcessInv, NEW p \in Processes, Dup(p)
  PROVE  ProcessInv'
<1>0. ProcessTypes /\ OkAt(p) /\ p # None
  BY OkAtAll, ProcessAssumption DEF ProcessInv
<1>1. /\ user[p] > 0 \/ (frame = p /\ param = 1)
      /\ user' = [user EXCEPT ![p] = @ + 1]
      /\ rc' = [rc EXCEPT ![p] = @ + 1]
      /\ UNCHANGED <<phase, child, data, made, exitCb, exits, lrc, luser, running, frame, param>>
  BY DEF Dup, optionVars, loopVars
<1>2. /\ rc[p] \in Nat /\ user[p] \in Nat /\ param \in {0, 1} /\ lrc \in Int
      /\ data[p] \in Options \cup {"close", None}
  BY <1>0, Typed
<1>4. lrc' = lrc + One(rc'[p] > 0) - One(rc[p] > 0)
  <2>1. rc[p] > 0 /\ rc'[p] > 0
    BY <1>0, <1>1, <1>2 DEF OkAt, ProcessTypes, One
  <2> QED
    BY <1>1, <1>2, <2>1 DEF One
<1>5. ProcessTypes'
  BY <1>0, <1>1, <1>2, <1>4 DEF ProcessTypes
<1>6. OkAt(p)'
  BY <1>0, <1>1, <1>2, <1>4 DEF OkAt, Linked, One, ProcessTypes
<1>7. \A q \in Processes \ {p} : Same(q)
  BY <1>0, <1>1, <1>4, ProcessAssumption DEF ProcessTypes, Same
<1>8. \A o \in Options : OneHolder(o)'
  BY <1>0, <1>1, <1>4, HoldersStay DEF ProcessTypes
<1> QED
  BY <1>0, <1>1, <1>4, <1>5, <1>6, <1>7, <1>8, OneProcess DEF ProcessInv, Fresh

\* Spawn hands the exit closure on.
LEMMA SpawnStep ==
  ASSUME ProcessInv, NEW p \in Processes, NEW o \in Options, Spawn(p, o)
  PROVE  ProcessInv'
<1>0. ProcessTypes /\ OkAt(p) /\ phase[p] = "new" /\ p # None
  BY OkAtAll, ProcessAssumption DEF ProcessInv, Spawn
<1>1. /\ data' = [data EXCEPT ![p] = IF o \in exitCb THEN o ELSE None]
      /\ exitCb' = exitCb \ {o}
      /\ lrc' = lrc + 1
      /\ \/ /\ phase' = [phase EXCEPT ![p] = "active"]
            /\ child' = [child EXCEPT ![p] = "runs"]
            /\ rc' = [rc EXCEPT ![p] = 2] /\ user' = [user EXCEPT ![p] = 1]
         \/ /\ phase' = [phase EXCEPT ![p] = "failed"]
            /\ rc' = [rc EXCEPT ![p] = 1] /\ UNCHANGED <<child, user>>
      /\ UNCHANGED <<made, exits, luser, running, frame, param>>
  BY DEF Spawn, SettleOptions
<1>2. user[p] = 0 /\ rc[p] = 0 /\ data[p] = None /\ frame # p /\ lrc \in Int
  BY <1>0 DEF OkAt, Linked, One, ProcessTypes
<1>3. ProcessTypes'
  <2>1. data' \in [Processes -> Options \cup {"close", None}]
    BY <1>0, <1>1 DEF ProcessTypes
  <2>2. exitCb' \subseteq Options /\ lrc' \in Int
    BY <1>0, <1>1 DEF ProcessTypes
  <2>3. phase' \in [Processes -> {"new", "failed", "active", "exited", "closing", "closed"}]
        /\ child' \in [Processes -> {"none", "runs", "dead"}]
    BY <1>0, <1>1 DEF ProcessTypes
  <2>4. rc' \in [Processes -> Nat] /\ user' \in [Processes -> Nat]
    BY <1>0, <1>1 DEF ProcessTypes
  <2> QED
    BY <1>0, <1>1, <2>1, <2>2, <2>3, <2>4 DEF ProcessTypes
<1>4. /\ data'[p] = (IF o \in exitCb THEN o ELSE None) /\ rc'[p] > 0
      /\ \A q \in Processes \ {p} : data'[q] = data[q]
  BY <1>0, <1>1 DEF ProcessTypes
<1>5. OkAt(p)'
  BY <1>0, <1>1, <1>2, <1>4, ProcessAssumption DEF OkAt, Linked, One, ProcessTypes
<1>6. \A q \in Processes \ {p} : Same(q)
  BY <1>0, <1>1, <1>4 DEF ProcessTypes, Same
<1>7. lrc' = lrc + One(rc'[p] > 0) - One(rc[p] > 0)
  BY <1>1, <1>2, <1>4 DEF One
<1>8. ASSUME NEW x \in Options PROVE OneHolder(x)'
  <2>1. OneHolder(x)
    BY DEF ProcessInv
  <2>2. CASE x = o /\ o \in exitCb
    <3>1. \A q \in Processes : data[q] # x
      BY <2>1, <2>2 DEF OneHolder
    <3>2. x \in made /\ exits[x] = 0 /\ x \notin exitCb'
      BY <1>1, <2>1, <2>2 DEF OneHolder
    <3> QED
      BY <1>1, <1>4, <2>2, <3>1, <3>2 DEF OneHolder
  <2>3. CASE ~(x = o /\ o \in exitCb)
    <3>1. data'[p] # x
      BY <1>4, <2>3, ProcessAssumption
    <3>2. x \in exitCb' => x \in exitCb
      BY <1>1
    <3> QED
      BY <1>1, <1>4, <2>1, <3>1, <3>2 DEF OneHolder
  <2> QED
    BY <2>2, <2>3
<1> QED
  BY <1>1, <1>3, <1>5, <1>6, <1>7, <1>8, OneProcess DEF ProcessInv, Fresh

\* The child's exit is told once.
LEMMA ExitCbStep ==
  ASSUME ProcessInv, NEW p \in Processes, ExitCb(p)
  PROVE  ProcessInv'
<1>0. ProcessTypes /\ OkAt(p) /\ p # None
  BY OkAtAll, ProcessAssumption DEF ProcessInv
<1>1. /\ frame = None /\ param = 0 /\ phase[p] = "active"
      /\ phase' = [phase EXCEPT ![p] = "exited"]
      /\ data' = [data EXCEPT ![p] = None]
      /\ UNCHANGED <<child, user, made, exitCb, lrc, luser, running>>
  BY DEF ExitCb, LoopTurn, ProcessInv, Fresh
<1>2. rc[p] \in Nat /\ user[p] \in Nat /\ lrc \in Int /\ rc[p] > 0 /\ rc[p] = user[p] + 1
  BY <1>0, <1>1, Typed DEF OkAt, Linked, One
<1>3. CASE data[p] = None
  <2>1. UNCHANGED <<rc, exits, frame, param>>
    BY <1>3 DEF ExitCb
  <2>2. data' = data
    BY <1>0, <1>1, <1>3 DEF ProcessTypes
  <2>3. ProcessTypes'
    BY <1>0, <1>1, <2>1, <2>2 DEF ProcessTypes
  <2>4. OkAt(p)'
    BY <1>0, <1>1, <1>2, <1>3, <2>1, <2>2 DEF OkAt, Linked, One, ProcessTypes
  <2>5. \A q \in Processes \ {p} : Same(q)
    BY <1>0, <1>1, <2>1, <2>2 DEF ProcessTypes, Same
  <2>6. \A x \in Options : OneHolder(x)'
    BY <1>1, <2>1, <2>2, HoldersStay
  <2>7. lrc' = lrc + One(rc'[p] > 0) - One(rc[p] > 0)
    BY <1>1, <1>2, <2>1 DEF One
  <2> QED
    BY <1>1, <2>1, <2>3, <2>4, <2>5, <2>6, <2>7, OneProcess
<1>4. CASE data[p] # None
  <2>1. /\ rc' = [rc EXCEPT ![p] = @ + 1]
        /\ exits' = [exits EXCEPT ![data[p]] = @ + 1]
        /\ frame' = p /\ param' = 1
    BY <1>4 DEF ExitCb
  <2>2. data[p] \in Options
    BY <1>0, <1>1, <1>4, Typed DEF OkAt
  <2>3. OneHolder(data[p])
    BY <2>2 DEF ProcessInv
  <2>4. exits[data[p]] = 0 /\ data[p] \in made /\ data[p] \notin exitCb
        /\ \A q \in Processes \ {p} : data[q] # data[p]
    BY <2>3 DEF OneHolder
  <2>5. /\ exits'[data[p]] = 1
        /\ \A x \in Options \ {data[p]} : exits'[x] = exits[x]
        /\ exits' \in [Options -> {0, 1}]
    BY <1>0, <2>1, <2>2, <2>4 DEF ProcessTypes
  <2>6. /\ data'[p] = None /\ \A q \in Processes \ {p} : data'[q] = data[q]
    BY <1>0, <1>1 DEF ProcessTypes
  <2>7. ProcessTypes'
    <3>1. rc' \in [Processes -> Nat] /\ data' \in [Processes -> Options \cup {"close", None}]
      BY <1>0, <1>1, <1>2, <2>1 DEF ProcessTypes
    <3>2. phase' \in [Processes -> {"new", "failed", "active", "exited", "closing", "closed"}]
      BY <1>0, <1>1 DEF ProcessTypes
    <3> QED
      BY <1>0, <1>1, <2>1, <2>5, <3>1, <3>2 DEF ProcessTypes
  <2>8. OkAt(p)'
    BY <1>0, <1>1, <1>2, <2>1, <2>6 DEF OkAt, Linked, One, ProcessTypes
  <2>9. \A q \in Processes \ {p} : Same(q)
    BY <1>0, <1>1, <2>1, <2>6, ProcessAssumption DEF ProcessTypes, Same
  <2>10. ASSUME NEW x \in Options PROVE OneHolder(x)'
    <3>1. OneHolder(x)
      BY DEF ProcessInv
    <3>2. CASE x = data[p]
      <4>1. \A q \in Processes : data'[q] # x
        BY <2>2, <2>4, <2>6, <3>2, ProcessAssumption
      <4> QED
        BY <1>1, <2>4, <3>2, <4>1 DEF OneHolder
    <3>3. CASE x # data[p]
      <4>1. \A q \in Processes : data'[q] = x => data[q] = x
        BY <2>6, ProcessAssumption
      <4> QED
        BY <1>1, <2>5, <3>1, <3>3, <4>1 DEF OneHolder
    <3> QED
      BY <3>2, <3>3
  <2>11. lrc' = lrc + One(rc'[p] > 0) - One(rc[p] > 0)
    <3>1. rc'[p] = rc[p] + 1
      BY <1>0, <2>1 DEF ProcessTypes
    <3> QED
      BY <1>1, <1>2, <3>1 DEF One
  <2> QED
    BY <1>0, <1>1, <2>1, <2>7, <2>8, <2>9, <2>10, <2>11, OneProcess
<1> QED
  BY <1>3, <1>4

LEMMA ReturnStep ==
  ASSUME ProcessInv, NEW p \in Processes, Return(p)
  PROVE  ProcessInv'
<1>0. ProcessTypes /\ OkAt(p)
  BY OkAtAll DEF ProcessInv
<1>1. /\ frame = p /\ frame' = None /\ param' = 0 /\ p # None
      /\ UNCHANGED <<phase, child, user, made, exitCb, exits, luser, running>>
  BY ProcessAssumption DEF Return, optionVars
<1>2. /\ rc[p] \in Nat /\ user[p] \in Nat /\ param \in {0, 1} /\ lrc \in Int
      /\ data[p] \in Options \cup {"close", None}
  BY <1>0, Typed
<1>3. CASE param = 1
  <2>1. Settle(p, rc[p] - 1, data[p])
    BY <1>3 DEF Return
  <2>2. rc[p] > 0 /\ rc[p] - 1 \in Nat /\ (Linked(p) => rc[p] - 1 > 0)
    BY <1>0, <1>1, <1>2, <1>3 DEF OkAt, One
  <2>3. /\ lrc' = lrc + One(rc'[p] > 0) - One(rc[p] > 0) /\ lrc' \in Int
        /\ rc' = [rc EXCEPT ![p] = rc[p] - 1]
        /\ data'[p] = (IF rc[p] - 1 = 0 THEN None ELSE data[p])
        /\ \A q \in Processes \ {p} : data'[q] = data[q]
        /\ data' \in [Processes -> Options \cup {"close", None}]
    BY <1>0, <1>2, <2>1, <2>2, SettleLoop
  <2>4. ProcessTypes'
    BY <1>0, <1>1, <2>2, <2>3 DEF ProcessTypes
  <2>5. OkAt(p)'
    BY <1>0, <1>1, <1>2, <1>3, <2>2, <2>3 DEF OkAt, Linked, One, ProcessTypes
  <2>6. \A q \in Processes \ {p} : Same(q)
    BY <1>0, <1>1, <2>3, ProcessAssumption DEF ProcessTypes, Same
  <2>7. \A o \in Options : OneHolder(o)'
    BY <1>1, <2>3, HoldersStay
  <2> QED
    BY <1>1, <2>3, <2>4, <2>5, <2>6, <2>7, OneProcess
<1>4. CASE param = 0
  <2>1. UNCHANGED <<rc, data, lrc>>
    BY <1>4 DEF Return
  <2>2. ProcessTypes'
    BY <1>0, <1>1, <2>1 DEF ProcessTypes
  <2>3. OkAt(p)'
    BY <1>0, <1>1, <1>2, <1>4, <2>1 DEF OkAt, Linked, One
  <2>4. \A q \in Processes \ {p} : Same(q)
    BY <1>1, <2>1, ProcessAssumption DEF Same
  <2>5. \A o \in Options : OneHolder(o)'
    BY <1>1, <2>1, HoldersStay
  <2>6. lrc' = lrc + One(rc'[p] > 0) - One(rc[p] > 0)
    BY <1>2, <2>1 DEF One
  <2> QED
    BY <1>1, <2>1, <2>2, <2>3, <2>4, <2>5, <2>6, OneProcess
<1> QED
  BY <1>2, <1>3, <1>4

\* Steps that leave the processes and the loop alone: options lose their
\* closure, are made with one, or nothing of the kind happens.
LEMMA OptionMoves ==
  ASSUME ProcessInv, ProcessTypes',
         UNCHANGED <<phase, rc, user, data, exits, loopVars>>,
         \A o \in Options :
           /\ o \in made => o \in made' /\ (o \in exitCb' => o \in exitCb)
           /\ o \notin made /\ o \in exitCb' => o \in made'
  PROVE  ProcessInv'
<1>1. /\ UNCHANGED <<phase, rc, user, data, exits>>
      /\ UNCHANGED <<lrc, luser, running, frame, param>>
  BY DEF loopVars
<1>2. RcExact' /\ Callable' /\ Fresh'
  BY <1>1 DEF ProcessInv, RcExact, Linked, Callable, Fresh
<1>3. LrcExact'
  BY <1>1 DEF ProcessInv, LrcExact
<1>4. \A o \in Options : OneHolder(o)'
  BY <1>1 DEF ProcessInv, OneHolder
<1> QED
  BY <1>2, <1>3, <1>4 DEF ProcessInv

LEMMA OptionsStep ==
  ASSUME ProcessInv, OptionStep
  PROVE  ProcessInv'
<1>0. ProcessTypes /\ \A x \in Options : x \notin made => x \notin exitCb
  BY DEF ProcessInv, OneHolder
<1>1. CASE \E c \in Containers : DropContainer(c) \/ \E what \in Contents : MakeContainer(c, what)
  <2>1. UNCHANGED <<phase, child, rc, user, data, made, exitCb, exits, loopVars>>
    BY <1>1 DEF DropContainer, MakeContainer, processVars, optionVars
  <2>2. ProcessTypes'
    BY <1>0, <2>1 DEF ProcessTypes, loopVars
  <2>3. \A x \in Options :
          /\ x \in made => x \in made' /\ (x \in exitCb' => x \in exitCb)
          /\ x \notin made /\ x \in exitCb' => x \in made'
    BY <1>0, <2>1
  <2>4. UNCHANGED <<phase, rc, user, data, exits, loopVars>>
    BY <2>1
  <2> QED
    BY <2>2, <2>3, <2>4, OptionMoves
<1>2. ASSUME NEW o \in Options, NEW list \in Lists, MakeOptions(o, list) PROVE ProcessInv'
  <2>1. /\ UNCHANGED <<phase, child, rc, user, data, exits, loopVars>>
        /\ o \notin made /\ made' = made \cup {o} /\ exitCb' = exitCb \cup {o}
    BY <1>2 DEF MakeOptions, processVars
  <2>2. ProcessTypes'
    BY <1>0, <2>1 DEF ProcessTypes, loopVars
  <2>3. \A x \in Options :
          /\ x \in made => x \in made' /\ (x \in exitCb' => x \in exitCb)
          /\ x \notin made /\ x \in exitCb' => x \in made'
    BY <1>0, <2>1
  <2>4. UNCHANGED <<phase, rc, user, data, exits, loopVars>>
    BY <2>1
  <2> QED
    BY <2>2, <2>3, <2>4, OptionMoves
<1>3. ASSUME NEW o \in Options, DupOptions(o) \/ DropOptions(o) PROVE ProcessInv'
  <2>1. /\ UNCHANGED <<phase, child, rc, user, data, made, exits, loopVars>>
        /\ exitCb' \subseteq exitCb
    BY <1>3 DEF DupOptions, DropOptions, SettleOptions, processVars
  <2>2. ProcessTypes'
    BY <1>0, <2>1 DEF ProcessTypes, loopVars
  <2>3. \A x \in Options :
          /\ x \in made => x \in made' /\ (x \in exitCb' => x \in exitCb)
          /\ x \notin made /\ x \in exitCb' => x \in made'
    BY <1>0, <2>1
  <2>4. UNCHANGED <<phase, rc, user, data, exits, loopVars>>
    BY <2>1
  <2> QED
    BY <2>2, <2>3, <2>4, OptionMoves
<1> QED
  BY <1>1, <1>2, <1>3 DEF OptionStep

\* The program's loop, and the death of a child.
LEMMA LoopSteps ==
  ASSUME ProcessInv,
         Run \/ RunReturns \/ DropLoop \/ \E p \in Processes : Dies(p)
  PROVE  ProcessInv'
<1>0. ProcessTypes
  BY DEF ProcessInv
<1>1. UNCHANGED <<phase, rc, user, data, made, exitCb, exits, frame, param>>
  BY DEF Run, RunReturns, DropLoop, Dies, processVars, optionVars, loopVars
<1>2. RcExact' /\ Callable' /\ Fresh' /\ \A o \in Options : OneHolder(o)'
  BY <1>1 DEF ProcessInv, RcExact, Linked, Callable, Fresh, OneHolder
<1>3. /\ luser \in {0, 1} /\ lrc \in Int
      /\ lrc = luser + One(running) + Cardinality(Alive)
  BY DEF ProcessInv, ProcessTypes, LrcExact, Alive
<1>4. Alive' = Alive
  BY <1>1 DEF Alive
<1>5. /\ luser' \in {0, 1} /\ lrc' \in Int
      /\ lrc' = luser' + One(running') + Cardinality(Alive)
  <2>1. CASE Run
    <3>1. lrc' = lrc + 1 /\ luser' = luser
      BY <2>1 DEF Run
    <3>2. One(running) = 0 /\ One(running') = 1
      BY <2>1 DEF Run, One
    <3> HIDE DEF One
    <3> QED
      BY <1>3, <3>1, <3>2, AliveNat
  <2>2. CASE RunReturns
    <3>1. lrc' = lrc - 1 /\ luser' = luser
      BY <2>2 DEF RunReturns
    <3>2. One(running) = 1 /\ One(running') = 0
      BY <2>2 DEF RunReturns, LoopTurn, One
    <3> HIDE DEF One
    <3> QED
      BY <1>3, <3>1, <3>2, AliveNat
  <2>3. CASE DropLoop
    <3>1. lrc' = lrc - 1 /\ luser = 1 /\ luser' = 0
      BY <2>3 DEF DropLoop
    <3>2. One(running') = One(running) /\ One(running) \in Int
      BY <2>3 DEF DropLoop, One
    <3> HIDE DEF One
    <3> QED
      BY <1>3, <3>1, <3>2, AliveNat
  <2>4. CASE \E p \in Processes : Dies(p)
    <3>1. running' = running /\ lrc' = lrc /\ luser' = luser
      BY <2>4 DEF Dies, loopVars
    <3>2. One(running') = One(running)
      BY <3>1
    <3> HIDE DEF One
    <3> QED
      BY <1>3, <3>1, <3>2
  <2> QED
    BY <2>1, <2>2, <2>3, <2>4
<1>6. running' \in BOOLEAN
  <2>1. CASE Run
    BY <2>1 DEF Run
  <2>2. CASE RunReturns
    BY <2>2 DEF RunReturns
  <2>3. CASE DropLoop \/ \E p \in Processes : Dies(p)
    <3>1. running' = running
      BY <2>3 DEF DropLoop, Dies, loopVars
    <3> QED
      BY <1>0, <3>1 DEF ProcessTypes
  <2> QED
    BY <2>1, <2>2, <2>3
<1>7. ProcessTypes'
  <2>1. child' \in [Processes -> {"none", "runs", "dead"}]
    BY <1>0 DEF Run, RunReturns, DropLoop, Dies, processVars, ProcessTypes
  <2> QED
    BY <1>0, <1>1, <1>5, <1>6, <2>1 DEF ProcessTypes
<1>8. LrcExact'
  BY <1>4, <1>5 DEF LrcExact, Alive
<1> QED
  BY <1>2, <1>7, <1>8 DEF ProcessInv

\* Every step preserves it.
LEMMA ProcessInvNext == ProcessInv /\ [Next]_vars => ProcessInv'
<1> SUFFICES ASSUME ProcessInv, [Next]_vars PROVE ProcessInv'
  OBVIOUS
<1>1. CASE OptionStep
  BY <1>1, OptionsStep
<1>2. ASSUME NEW p \in Processes, ProcessStep(p) PROVE ProcessInv'
  <2>1. CASE \E o \in Options : Spawn(p, o)
    BY <2>1, SpawnStep
  <2>2. CASE Dup(p)
    BY <2>2, DupStep
  <2>3. CASE Drop(p)
    BY <2>3, DropStep
  <2>4. CASE Close(p)
    BY <2>4, CloseStep
  <2>5. CASE Dies(p)
    BY <2>5, LoopSteps
  <2>6. CASE ExitCb(p)
    BY <2>6, ExitCbStep
  <2>7. CASE CloseCb(p)
    BY <2>7, CloseCbStep
  <2>8. CASE Return(p)
    BY <2>8, ReturnStep
  <2> QED
    BY <1>2, <2>1, <2>2, <2>3, <2>4, <2>5, <2>6, <2>7, <2>8 DEF ProcessStep
<1>3. CASE Run \/ RunReturns \/ DropLoop
  BY <1>3, LoopSteps
<1>4. CASE UNCHANGED vars
  <2>1. UNCHANGED <<phase, child, rc, user, data, made, exitCb, exits>>
        /\ UNCHANGED <<lrc, luser, running, frame, param>>
    BY <1>4 DEF vars, processVars, optionVars, loopVars
  <2>2. ProcessTypes'
    BY <2>1 DEF ProcessInv, ProcessTypes
  <2>3. RcExact' /\ LrcExact' /\ Callable' /\ Fresh'
    BY <2>1 DEF ProcessInv, RcExact, LrcExact, Linked, Callable, Fresh
  <2>4. \A o \in Options : OneHolder(o)'
    BY <2>1 DEF ProcessInv, OneHolder
  <2> QED
    BY <2>2, <2>3, <2>4 DEF ProcessInv
<1> QED
  BY <1>1, <1>2, <1>3, <1>4 DEF Next, Terminated

\* The counts of processes and loop are exact, what a callback will take data
\* for is in it, and every exit closure has at most one holder.
THEOREM ProcessInvariant == Spec => []ProcessInv
<1>1. Init => ProcessInv
  BY ProcessInvInit
<1>2. ProcessInv /\ [Next]_vars => ProcessInv'
  BY ProcessInvNext
<1> QED
  BY <1>1, <1>2, PTL DEF Spec

\* A process that libuv has in its queues is there, and so is its loop: no
\* exit or close callback runs on freed memory, spawns that failed included.
THEOREM ProcessMemorySafe == Spec => []NoDangling
<1>1. ProcessInv => NoDangling
  <2> SUFFICES ASSUME ProcessInv, NEW p \in Processes, Linked(p)
               PROVE  rc[p] > 0 /\ lrc > 0
    BY DEF NoDangling
  <2>1. rc[p] > 0
    <3>1. OkAt(p) /\ user[p] \in Nat
      BY OkAtAll DEF ProcessInv, ProcessTypes
    <3> QED
      BY <3>1 DEF OkAt, One
  <2>2. Cardinality(Alive) \in Nat /\ Cardinality(Alive) # 0
    <3>1. p \in Alive
      BY <2>1 DEF Alive
    <3> QED
      BY <3>1, AliveNat, FS_EmptySet
  <2>3. /\ luser \in {0, 1} /\ One(running) \in Nat /\ lrc \in Int
        /\ lrc = luser + One(running) + Cardinality(Alive)
    BY DEF ProcessInv, ProcessTypes, LrcExact, Alive, One
  <2>4. lrc > 0
    <3> HIDE DEF One
    <3> QED
      BY <2>2, <2>3
  <2> QED
    BY <2>1, <2>4
<1> QED
  BY <1>1, ProcessInvariant, PTL

\* The exit closure of some options is in one place, options or process, and
\* once it has been called in none: two spawns with the same options never
\* share it, and no child's exit is told twice.
THEOREM ExitClosureOnce == Spec => []ExitOnce
<1>1. ProcessInv => ExitOnce
  <2> SUFFICES ASSUME ProcessInv, NEW o \in Options
               PROVE  Cardinality({p \in Processes : data[p] = o}) + One(o \in exitCb) + exits[o] <= 1
    BY DEF ExitOnce
  <2>1. OneHolder(o) /\ exits[o] \in {0, 1}
    BY DEF ProcessInv, ProcessTypes
  <2> DEFINE Holders == {p \in Processes : data[p] = o}
  <2>2. CASE Holders = {}
    <3>1. Cardinality(Holders) = 0
      BY <2>2, FS_EmptySet
    <3>2. o \in exitCb => exits[o] = 0
      BY <2>1 DEF OneHolder
    <3> HIDE DEF Holders
    <3>3. Cardinality(Holders) + One(o \in exitCb) + exits[o] <= 1
      BY <2>1, <3>1, <3>2 DEF One
    <3> QED
      BY <3>3 DEF Holders
  <2>3. CASE Holders # {}
    <3>1. PICK p \in Processes : data[p] = o
      BY <2>3
    <3>2. Holders = {p}
      BY <2>1, <3>1 DEF OneHolder
    <3>3. Cardinality(Holders) = 1
      BY <3>2, FS_Singleton
    <3>4. o \notin exitCb /\ exits[o] = 0
      BY <2>1, <3>1 DEF OneHolder
    <3> HIDE DEF Holders
    <3>5. Cardinality(Holders) + One(o \in exitCb) + exits[o] <= 1
      BY <3>3, <3>4 DEF One
    <3> QED
      BY <3>5 DEF Holders
  <2> QED
    BY <2>2, <2>3
<1> QED
  BY <1>1, ProcessInvariant, PTL

(***************************************************************************)
(* The standard streams.                                                   *)
(***************************************************************************)
Held == {c \in Containers : content[c] = "stream"}
Marked(s) == {i \in DOMAIN s : s[i] = "stream"}
Entry == {e \in Options \X (1 .. MaxStdio) :
            e[2] \in DOMAIN stdio[e[1]] /\ stdio[e[1]][e[2]] = "stream"}

\* The types of options, containers and what they count.
StreamTypes ==
  /\ ouser \in [Options -> Nat]
  /\ stdio \in [Options -> UNION {[1 .. n -> Contents] : n \in 0 .. MaxStdio}]
  /\ content \in [Containers -> Contents \cup {None}]
  /\ src \in Nat

\* A set of natural numbers that is not empty has a least one.
LEMMA Least ==
  ASSUME NEW T, T \subseteq Nat, T # {}
  PROVE  \E x \in T : \A y \in T : x <= y
<1> DEFINE R == OpToRel(<, Nat)
<1>1. \A x, y \in Nat : y < x => <<y, x>> \in R
  BY DEF OpToRel
<1>2. IsWellFoundedOn(R, Nat)
  BY NatLessThanWellFounded
<1> HIDE DEF R
<1>3. PICK x \in T : \A y \in T : ~ (<<y, x>> \in R)
  BY <1>2, WFMin
<1>4. ASSUME NEW y \in T PROVE x <= y
  <2>1. x \in Nat /\ y \in Nat /\ ~ (y < x)
    BY <1>1, <1>3
  <2> QED
    BY <2>1
<1> QED
  BY <1>4

\* An empty list of entries is one.
LEMMA NoEntries == <<>> \in UNION {[1 .. n -> Contents] : n \in 0 .. MaxStdio}
<1>1. 0 \in 0 .. MaxStdio /\ <<>> \in [1 .. 0 -> Contents]
  BY ProcessAssumption
<1> QED
  BY <1>1

\* What the containers hold, and the entries, are finitely many.
LEMMA Countable ==
  /\ IsFiniteSet(Held) /\ Cardinality(Held) \in Nat
  /\ IsFiniteSet(Held') /\ Cardinality(Held') \in Nat
  /\ IsFiniteSet(Entry) /\ Cardinality(Entry) \in Nat
  /\ IsFiniteSet(Entry') /\ Cardinality(Entry') \in Nat
<1>1. Held \subseteq Containers /\ Held' \subseteq Containers
  BY DEF Held
<1>2. Entry \subseteq Options \X (1 .. MaxStdio) /\ Entry' \subseteq Options \X (1 .. MaxStdio)
  BY DEF Entry
<1>3. IsFiniteSet(Options \X (1 .. MaxStdio))
  <2>1. IsFiniteSet(1 .. MaxStdio) /\ IsFiniteSet(Options)
    BY ProcessAssumption, FS_Interval
  <2> QED
    BY <2>1, FS_Product
<1> QED
  BY <1>1, <1>2, <1>3, ProcessAssumption, FS_Subset, FS_CardinalityType

\* What lists of entries look like.
LEMMA ListTyped ==
  ASSUME NEW s \in UNION {[1 .. n -> Contents] : n \in 0 .. MaxStdio}
  PROVE  /\ \E n \in 0 .. MaxStdio : s \in [1 .. n -> Contents]
         /\ DOMAIN s \subseteq 1 .. MaxStdio
         /\ Marked(s) \subseteq 1 .. MaxStdio
         /\ IsFiniteSet(Marked(s)) /\ Cardinality(Marked(s)) \in Nat
         /\ StreamsIn(s) = Cardinality(Marked(s))
<1>1. PICK n \in 0 .. MaxStdio : s \in [1 .. n -> Contents]
  OBVIOUS
<1>2. DOMAIN s \subseteq 1 .. MaxStdio
  BY <1>1, ProcessAssumption
<1>3. Marked(s) \subseteq 1 .. MaxStdio
  BY <1>2 DEF Marked
<1>4. IsFiniteSet(Marked(s)) /\ Cardinality(Marked(s)) \in Nat
  <2>1. IsFiniteSet(1 .. MaxStdio)
    BY ProcessAssumption, FS_Interval
  <2>2. IsFiniteSet(Marked(s))
    BY <1>3, <2>1, FS_Subset
  <2> QED
    BY <2>2, FS_CardinalityType
<1> QED
  BY <1>1, <1>2, <1>3, <1>4 DEF StreamsIn, Marked

\* The entries of one list, as pairs.
LEMMA Column ==
  ASSUME NEW o, NEW I, IsFiniteSet(I)
  PROVE  IsFiniteSet({o} \X I) /\ Cardinality({o} \X I) = Cardinality(I)
<1>1. IsFiniteSet({o}) /\ Cardinality({o}) = 1
  BY FS_Singleton
<1>2. Cardinality({o} \X I) = Cardinality({o}) * Cardinality(I) /\ IsFiniteSet({o} \X I)
  BY <1>1, FS_Product
<1>3. Cardinality(I) \in Nat
  BY FS_CardinalityType
<1> QED
  BY <1>1, <1>2, <1>3

\* Options that are freed take their entries with them.
LEMMA ListGoes ==
  ASSUME StreamTypes, NEW o \in Options, stdio' = [stdio EXCEPT ![o] = <<>>]
  PROVE  Cardinality(Entry') = Cardinality(Entry) - StreamsIn(stdio[o])
<1> DEFINE M == Marked(stdio[o])
<1>1. stdio[o] \in UNION {[1 .. n -> Contents] : n \in 0 .. MaxStdio}
  BY DEF StreamTypes
<1>2. M \subseteq 1 .. MaxStdio /\ IsFiniteSet(M) /\ StreamsIn(stdio[o]) = Cardinality(M)
  BY <1>1, ListTyped
<1>3. Entry' = Entry \ ({o} \X M)
  <2>1. ASSUME NEW e \in Options \X (1 .. MaxStdio)
        PROVE  e \in Entry' <=> e \in Entry /\ e \notin {o} \X M
    <3>1. CASE e[1] = o
      <4>1. stdio'[e[1]] = <<>> /\ DOMAIN stdio'[e[1]] = {}
        BY <3>1 DEF StreamTypes
      <4>2. e \in Entry => e \in {o} \X M
        BY <3>1 DEF Entry, Marked
      <4> QED
        BY <4>1, <4>2 DEF Entry
    <3>2. CASE e[1] # o
      <4>1. stdio'[e[1]] = stdio[e[1]]
        BY <3>2 DEF StreamTypes
      <4>2. e \notin {o} \X M
        BY <3>2
      <4> QED
        BY <4>1, <4>2 DEF Entry
    <3> QED
      BY <3>1, <3>2
  <2> QED
    BY <2>1 DEF Entry
<1>4. Entry \cap ({o} \X M) = {o} \X M
  <2>1. \A i \in M : <<o, i>> \in Entry
    BY <1>2 DEF Entry, Marked
  <2> QED
    BY <2>1
<1>5. Cardinality(Entry') = Cardinality(Entry) - Cardinality({o} \X M)
  <2> DEFINE X == {o} \X M
  <2>1. Entry' = Entry \ X /\ Entry \cap X = X /\ IsFiniteSet(Entry)
    BY <1>3, <1>4, Countable
  <2> HIDE DEF X
  <2>2. Cardinality(Entry \ X) = Cardinality(Entry) - Cardinality(Entry \cap X)
    BY <2>1, FS_Difference
  <2> QED
    BY <2>1, <2>2 DEF X
<1> HIDE DEF M
<1> QED
  BY <1>2, <1>5, Column

\* Options that are made bring theirs.
LEMMA ListComes ==
  ASSUME StreamTypes, NEW o \in Options, stdio[o] = <<>>,
         NEW s \in UNION {[1 .. n -> Contents] : n \in 0 .. MaxStdio},
         stdio' = [stdio EXCEPT ![o] = s]
  PROVE  Cardinality(Entry') = Cardinality(Entry) + Cardinality(Marked(s))
<1> DEFINE M == Marked(s)
<1>1. M \subseteq 1 .. MaxStdio /\ IsFiniteSet(M)
  BY ListTyped
<1>2. Entry' = Entry \cup ({o} \X M) /\ Entry \cap ({o} \X M) = {}
  <2>1. ASSUME NEW e \in Options \X (1 .. MaxStdio)
        PROVE  /\ e \in Entry' <=> e \in Entry \/ e \in {o} \X M
               /\ ~(e \in Entry /\ e \in {o} \X M)
    <3>1. CASE e[1] = o
      <4>1. stdio'[e[1]] = s /\ stdio[e[1]] = <<>> /\ DOMAIN stdio[e[1]] = {}
        BY <3>1 DEF StreamTypes
      <4>2. e \in {o} \X M <=> e[2] \in DOMAIN s /\ s[e[2]] = "stream"
        BY <3>1 DEF Marked
      <4> QED
        BY <4>1, <4>2 DEF Entry
    <3>2. CASE e[1] # o
      <4>1. stdio'[e[1]] = stdio[e[1]]
        BY <3>2 DEF StreamTypes
      <4>2. e \notin {o} \X M
        BY <3>2
      <4> QED
        BY <4>1, <4>2 DEF Entry
    <3> QED
      BY <3>1, <3>2
  <2>2. {o} \X M \subseteq Options \X (1 .. MaxStdio)
    BY <1>1
  <2> QED
    BY <2>1, <2>2 DEF Entry
<1>3. Cardinality(Entry') = Cardinality(Entry) + Cardinality({o} \X M) - Cardinality({})
  <2> DEFINE X == {o} \X M
  <2>1. Entry' = Entry \cup X /\ Entry \cap X = {} /\ IsFiniteSet(Entry) /\ IsFiniteSet(X)
    BY <1>1, <1>2, Countable, Column
  <2> HIDE DEF X
  <2>2. Cardinality(Entry \cup X) = Cardinality(Entry) + Cardinality(X) - Cardinality(Entry \cap X)
    BY <2>1, FS_Union
  <2> QED
    BY <2>1, <2>2 DEF X
<1> HIDE DEF M
<1>4. Cardinality({}) = 0 /\ Cardinality(M) \in Nat /\ Cardinality({o} \X M) = Cardinality(M)
  BY <1>1, FS_EmptySet, FS_CardinalityType, Column
<1>5. Cardinality(Entry') = Cardinality(Entry) + Cardinality(M)
  BY <1>3, <1>4, Countable
<1> QED
  BY <1>5 DEF M

\* What set_stdio makes of a list of containers.
Moves(list) ==
  [i \in DOMAIN list |->
     IF \E j \in 1 .. i - 1 : list[j] = list[i] THEN "ignore" ELSE content[list[i]]]

\* The containers of streams that are in the list.
Listed(list) == {c \in Held : \E i \in DOMAIN list : list[i] = c}

LEMMA MovesTyped ==
  ASSUME StreamTypes, NEW list \in Lists, \A i \in DOMAIN list : content[list[i]] # None
  PROVE  Moves(list) \in UNION {[1 .. n -> Contents] : n \in 0 .. MaxStdio}
<1>1. PICK n \in 0 .. MaxStdio : list \in [1 .. n -> Containers]
  BY DEF Lists
<1>2. \A i \in 1 .. n : content[list[i]] \in Contents
  BY <1>1 DEF StreamTypes
<1>3. "ignore" \in Contents
  BY DEF Contents
<1>4. Moves(list) \in [1 .. n -> Contents]
  BY <1>1, <1>2, <1>3 DEF Moves
<1> QED
  BY <1>4

\* However often a container is in the list, its stream is moved once, to where
\* the container is first.
LEMMA MovedOnce ==
  ASSUME StreamTypes, NEW list \in Lists, \A i \in DOMAIN list : content[list[i]] # None
  PROVE  Cardinality(Marked(Moves(list))) = Cardinality(Listed(list))
<1> DEFINE S == Marked(Moves(list))
           T == Listed(list)
           f == [i \in S |-> list[i]]
<1>1. PICK n \in 0 .. MaxStdio : list \in [1 .. n -> Containers]
  BY DEF Lists
<1>2. /\ DOMAIN list = 1 .. n /\ n \in Nat
      /\ \A i \in 1 .. n : i \in S <=>
           content[list[i]] = "stream" /\ ~ \E j \in 1 .. i - 1 : list[j] = list[i]
      /\ S \subseteq 1 .. n
  BY <1>1, ProcessAssumption DEF Marked, Moves
<1>3. IsFiniteSet(S)
  BY MovesTyped, ListTyped
<1> HIDE DEF S
<1>4. f \in [S -> T]
  <2>1. \A i \in S : list[i] \in T
    BY <1>1, <1>2 DEF Listed, Held
  <2> QED
    BY <2>1
<1>5. ASSUME NEW a \in S, NEW b \in S, f[a] = f[b] PROVE a = b
  <2>1. a \in 1 .. n /\ b \in 1 .. n /\ list[a] = list[b] /\ a \in Int /\ b \in Int
    BY <1>2, <1>5
  <2>2. ~(a < b)
    <3>1. a < b => a \in 1 .. b - 1
      BY <2>1
    <3> QED
      BY <1>2, <2>1, <3>1
  <2>3. ~(b < a)
    <3>1. b < a => b \in 1 .. a - 1
      BY <2>1
    <3> QED
      BY <1>2, <2>1, <3>1
  <2> QED
    BY <2>1, <2>2, <2>3
<1>6. ASSUME NEW c \in T PROVE \E i \in S : f[i] = c
  <2> DEFINE I == {i \in 1 .. n : list[i] = c}
  <2>1. I \subseteq Nat /\ I # {} /\ content[c] = "stream"
    BY <1>2 DEF Listed, Held
  <2>2. PICK i \in I : \A j \in I : i <= j
    <3> HIDE DEF I
    <3> QED
      BY <2>1, Least
  <2>3. i \in 1 .. n /\ list[i] = c
    OBVIOUS
  <2>4. ~ \E j \in 1 .. i - 1 : list[j] = list[i]
    <3> SUFFICES ASSUME NEW j \in 1 .. i - 1, list[j] = list[i] PROVE FALSE
      OBVIOUS
    <3>1. j \in 1 .. n /\ ~(i <= j)
      BY <1>2, <2>3
    <3>2. j \in I
      BY <2>3, <3>1
    <3> QED
      BY <2>2, <3>1, <3>2
  <2>5. i \in S
    BY <1>2, <2>1, <2>3, <2>4
  <2> QED
    BY <2>3, <2>5
<1> HIDE DEF T
<1>7. f \in Bijection(S, T)
  BY <1>4, <1>5, <1>6 DEF Bijection, Injection, Surjection, IsInjective
<1>8. ExistsBijection(S, T)
  BY <1>7 DEF ExistsBijection
<1>9. Cardinality(T) = Cardinality(S)
  BY <1>3, <1>8, FS_Bijection
<1> QED
  BY <1>9 DEF S, T

SrcInv == StreamTypes /\ SrcExact

LEMMA SrcParts ==
  ASSUME SrcInv
  PROVE  /\ src = Cardinality(Held) + Cardinality(Entry)
         /\ \A o \in Options :
              /\ ouser[o] = 0 => stdio[o] = <<>>
              /\ o \notin made => ouser[o] = 0
BY DEF SrcInv, SrcExact, Held, Entry

LEMMA SrcInvInit == Init => SrcInv
<1> SUFFICES ASSUME Init PROVE SrcInv
  OBVIOUS
<1>1. StreamTypes
  BY NoEntries DEF Init, StreamTypes
<1>2. Held = {} /\ Entry = {}
  BY ProcessAssumption DEF Init, Held, Entry
<1>3. src = Cardinality(Held) + Cardinality(Entry)
  BY <1>2, FS_EmptySet DEF Init
<1> QED
  BY <1>1, <1>3 DEF SrcInv, SrcExact, Held, Entry, Init

\* The exactness of src, put together again.
LEMMA SrcWhole ==
  ASSUME StreamTypes', src' = Cardinality(Held') + Cardinality(Entry'),
         \A o \in Options :
           /\ ouser'[o] = 0 => stdio'[o] = <<>>
           /\ o \notin made' => ouser'[o] = 0
  PROVE  SrcInv'
BY DEF SrcInv, SrcExact, Held, Entry

LEMMA SrcQuiet ==
  ASSUME SrcInv, UNCHANGED <<ouser, stdio, content, src>>, made' = made
  PROVE  SrcInv'
<1>1. StreamTypes'
  BY DEF SrcInv, StreamTypes
<1>2. Held' = Held /\ Entry' = Entry
  BY DEF Held, Entry
<1> QED
  BY <1>1, <1>2, SrcParts, SrcWhole

\* A container is made, or dropped with what it holds.
LEMMA ContainerSteps ==
  ASSUME SrcInv, NEW c \in Containers,
         DropContainer(c) \/ \E what \in Contents : MakeContainer(c, what)
  PROVE  SrcInv'
<1>1. /\ ouser' = ouser /\ stdio' = stdio /\ made' = made
      /\ StreamTypes
  BY DEF DropContainer, MakeContainer, optionVars, SrcInv
<1>2. Entry' = Entry
  BY <1>1 DEF Entry
<1>3. src = Cardinality(Held) + Cardinality(Entry)
  BY SrcParts
<1>4. ASSUME NEW what \in Contents, MakeContainer(c, what)
      PROVE  src' = Cardinality(Held') + Cardinality(Entry') /\ StreamTypes'
  <2>1. /\ content[c] = None /\ content' = [content EXCEPT ![c] = what]
        /\ src' = src + One(what = "stream")
    BY <1>4 DEF MakeContainer
  <2>2. CASE what = "stream"
    <3>1. src' = src + 1 /\ src \in Nat
      BY <1>1, <2>1, <2>2 DEF One, StreamTypes
    <3>2. Held' = Held \cup {c}
      BY <1>1, <2>1, <2>2 DEF Held, StreamTypes
    <3>3. CASE c \notin Held
      <4>1. Cardinality(Held') = Cardinality(Held) + 1
        BY <3>2, <3>3, Countable, FS_AddElement
      <4>2. src' = Cardinality(Held') + Cardinality(Entry')
        BY <1>2, <1>3, <3>1, <4>1, Countable
      <4> QED
        BY <1>1, <2>1, <3>1, <4>2 DEF StreamTypes
    <3>4. CASE c \in Held
      BY <2>1, <3>4, ProcessAssumption DEF Held
    <3> QED
      BY <3>3, <3>4
  <2>3. CASE what # "stream"
    <3>1. src' = src /\ src \in Nat
      BY <1>1, <2>1, <2>3 DEF One, StreamTypes
    <3>2. Held' = Held
      BY <1>1, <2>1, <2>3, ProcessAssumption DEF Held, StreamTypes
    <3> QED
      BY <1>1, <1>2, <1>3, <2>1, <3>1, <3>2 DEF StreamTypes
  <2> QED
    BY <2>2, <2>3
<1>5. ASSUME DropContainer(c)
      PROVE  src' = Cardinality(Held') + Cardinality(Entry') /\ StreamTypes'
  <2>1. /\ content' = [content EXCEPT ![c] = None]
        /\ src' = src - One(content[c] = "stream")
    BY <1>5 DEF DropContainer
  <2>2. Held' = Held \ {c}
    BY <1>1, <2>1, ProcessAssumption DEF Held, StreamTypes
  <2>3. Cardinality(Held') = Cardinality(Held) - One(content[c] = "stream")
    <3>1. c \in Held <=> content[c] = "stream"
      BY DEF Held
    <3>2. Cardinality(Held \ {c}) = IF c \in Held THEN Cardinality(Held) - 1 ELSE Cardinality(Held)
      BY Countable, FS_RemoveElement
    <3> QED
      BY <2>2, <3>1, <3>2, Countable DEF One
  <2>4. One(content[c] = "stream") \in Nat
    BY DEF One
  <2>5. src' = Cardinality(Held') + Cardinality(Entry') /\ src' \in Nat
    <3> HIDE DEF One
    <3> QED
      BY <1>2, <1>3, <2>1, <2>3, <2>4, Countable
  <2> QED
    BY <1>1, <2>1, <2>5 DEF StreamTypes
<1> QED
  BY <1>1, <1>4, <1>5, SrcParts, SrcWhole

\* The count of options goes down; with the last reference go the entries.
LEMMA SettleKeeps ==
  ASSUME SrcInv, NEW o \in Options, NEW with, ouser[o] > 0,
         SettleOptions(o, ouser[o] - 1, with), content' = content, made' = made
  PROVE  SrcInv'
<1> DEFINE n == ouser[o] - 1
<1>1. /\ StreamTypes /\ n \in Nat
      /\ ouser' = [ouser EXCEPT ![o] = n]
      /\ stdio' = [stdio EXCEPT ![o] = IF n = 0 THEN <<>> ELSE stdio[o]]
      /\ src' = src - (IF n = 0 THEN StreamsIn(stdio[o]) ELSE 0)
  BY DEF SettleOptions, SrcInv, StreamTypes
<1>2. Held' = Held
  BY DEF Held
<1>3. src = Cardinality(Held) + Cardinality(Entry) /\ o \in made
  BY SrcParts
<1>4. ouser' \in [Options -> Nat] /\ content' \in [Containers -> Contents \cup {None}]
  BY <1>1 DEF StreamTypes
<1>5. \A q \in Options : ouser'[q] = IF q = o THEN n ELSE ouser[q]
  BY <1>1 DEF StreamTypes
<1> HIDE DEF n
<1>6. CASE n = 0
  <2>1. stdio' = [stdio EXCEPT ![o] = <<>>] /\ src' = src - StreamsIn(stdio[o])
    BY <1>1, <1>6
  <2>2. Cardinality(Entry') = Cardinality(Entry) - StreamsIn(stdio[o])
    BY <1>1, <2>1, ListGoes
  <2>3. StreamsIn(stdio[o]) \in Nat
    BY <1>1, ListTyped DEF StreamTypes
  <2>4. src' = Cardinality(Held') + Cardinality(Entry') /\ src' \in Nat
    BY <1>2, <1>3, <2>1, <2>2, <2>3, Countable
  <2>5. stdio' \in [Options -> UNION {[1 .. k -> Contents] : k \in 0 .. MaxStdio}]
    <3>1. <<>> \in UNION {[1 .. k -> Contents] : k \in 0 .. MaxStdio}
      BY NoEntries
    <3> QED
      BY <1>1, <2>1, <3>1 DEF StreamTypes
  <2>6. \A q \in Options : stdio'[q] = IF q = o THEN <<>> ELSE stdio[q]
    BY <1>1, <2>1 DEF StreamTypes
  <2>7. StreamTypes'
    BY <1>4, <2>4, <2>5 DEF StreamTypes
  <2> QED
    BY <1>3, <1>5, <1>6, <2>4, <2>6, <2>7, SrcParts, SrcWhole
<1>7. CASE n # 0
  <2>1. stdio' = stdio /\ src' = src
    BY <1>1, <1>7 DEF StreamTypes
  <2>2. Entry' = Entry
    BY <2>1 DEF Entry
  <2>3. StreamTypes'
    BY <1>1, <1>4, <2>1 DEF StreamTypes
  <2> QED
    BY <1>2, <1>3, <1>5, <1>7, <2>1, <2>2, <2>3, SrcParts, SrcWhole
<1> QED
  BY <1>6, <1>7

\* set_stdio moves what the containers hold to the entries.
LEMMA MakeKeeps ==
  ASSUME SrcInv, NEW o \in Options, NEW list \in Lists, MakeOptions(o, list)
  PROVE  SrcInv'
<1>1. /\ StreamTypes /\ o \notin made /\ made' = made \cup {o} /\ src' = src
      /\ \A i \in DOMAIN list : content[list[i]] # None
      /\ ouser' = [ouser EXCEPT ![o] = 1]
      /\ stdio' = [stdio EXCEPT ![o] = Moves(list)]
      /\ content' = [c \in Containers |->
            IF \E i \in DOMAIN list : list[i] = c THEN "ignore" ELSE content[c]]
  BY DEF MakeOptions, SetStdio, Moves, SrcInv
<1>2. /\ src = Cardinality(Held) + Cardinality(Entry)
      /\ stdio[o] = <<>>
  BY <1>1, SrcParts
<1>3. Moves(list) \in UNION {[1 .. k -> Contents] : k \in 0 .. MaxStdio}
  BY <1>1, MovesTyped
<1>4. Cardinality(Entry') = Cardinality(Entry) + Cardinality(Listed(list))
  BY <1>1, <1>2, <1>3, ListComes, MovedOnce
<1>5. Cardinality(Held') = Cardinality(Held) - Cardinality(Listed(list))
  <2>1. \A c \in Containers : content'[c] = "stream" <=> content[c] = "stream" /\ ~\E i \in DOMAIN list : list[i] = c
    BY <1>1
  <2>2. Held' = Held \ Listed(list) /\ Held \cap Listed(list) = Listed(list)
    BY <2>1 DEF Held, Listed
  <2> DEFINE A == Held
             B == Held'
             L == Listed(list)
  <2>3. IsFiniteSet(A) /\ B = A \ L /\ A \cap L = L
    BY <2>2, Countable
  <2> HIDE DEF A, B, L
  <2>4. Cardinality(A \ L) = Cardinality(A) - Cardinality(A \cap L)
    BY <2>3, FS_Difference
  <2> QED
    BY <2>3, <2>4 DEF A, B, L
<1>6. Cardinality(Listed(list)) \in Nat
  <2>1. Listed(list) \subseteq Held
    BY DEF Listed
  <2> QED
    BY <2>1, Countable, FS_Subset, FS_CardinalityType
<1>7. src' = Cardinality(Held') + Cardinality(Entry')
  BY <1>1, <1>2, <1>4, <1>5, <1>6, Countable
<1>8. StreamTypes'
  <2>1. ouser' \in [Options -> Nat] /\ src' \in Nat
    BY <1>1 DEF StreamTypes
  <2>2. stdio' \in [Options -> UNION {[1 .. k -> Contents] : k \in 0 .. MaxStdio}]
    BY <1>1, <1>3 DEF StreamTypes
  <2>3. content' \in [Containers -> Contents \cup {None}]
    BY <1>1 DEF StreamTypes, Contents
  <2> QED
    BY <2>1, <2>2, <2>3 DEF StreamTypes
<1>9. ASSUME NEW q \in Options
      PROVE  (ouser'[q] = 0 => stdio'[q] = <<>>) /\ (q \notin made' => ouser'[q] = 0)
  <2>1. CASE q = o
    BY <1>1, <2>1 DEF StreamTypes
  <2>2. CASE q # o
    BY <1>1, <2>2, SrcParts DEF StreamTypes
  <2> QED
    BY <2>1, <2>2
<1> QED
  BY <1>7, <1>8, <1>9, SrcWhole

LEMMA DupKeeps ==
  ASSUME SrcInv, NEW o \in Options, DupOptions(o)
  PROVE  SrcInv'
<1>1. /\ StreamTypes /\ ouser[o] > 0 /\ ouser' = [ouser EXCEPT ![o] = ouser[o] + 1]
      /\ made' = made /\ stdio' = stdio /\ content' = content /\ src' = src
  BY ProcessAssumption DEF DupOptions, streamVars, SrcInv, StreamTypes
<1>2. ouser' \in [Options -> Nat] /\ \A q \in Options : ouser'[q] = 0 <=> ouser[q] = 0
  BY <1>1 DEF StreamTypes
<1>3. StreamTypes'
  BY <1>1, <1>2 DEF StreamTypes
<1>4. Held' = Held /\ Entry' = Entry
  BY <1>1 DEF Held, Entry
<1> QED
  BY <1>1, <1>2, <1>3, <1>4, SrcParts, SrcWhole

LEMMA SrcInvNext ==
  ASSUME SrcInv, [Next]_vars
  PROVE  SrcInv'
<1>1. CASE OptionStep
  <2>1. ASSUME NEW o \in Options, DropOptions(o) PROVE SrcInv'
    BY <2>1, SettleKeeps DEF DropOptions
  <2> QED
    BY <1>1, <2>1, ContainerSteps, DupKeeps, MakeKeeps DEF OptionStep
<1>2. ASSUME NEW p \in Processes, ProcessStep(p) PROVE SrcInv'
  <2>1. ASSUME NEW o \in Options, Spawn(p, o) PROVE SrcInv'
    <3>1. /\ ouser[o] > 0 /\ SettleOptions(o, ouser[o] - 1, exitCb \ {o})
          /\ content' = content /\ made' = made
      BY <2>1 DEF Spawn
    <3> QED
      BY <3>1, SettleKeeps
  <2>2. CASE Dup(p) \/ Drop(p) \/ Close(p) \/ Dies(p) \/ ExitCb(p) \/ CloseCb(p) \/ Return(p)
    <3>1. UNCHANGED <<ouser, stdio, content, src>> /\ made' = made
      BY <2>2 DEF Dup, Drop, Close, Dies, ExitCb, CloseCb, Return, optionVars, streamVars
    <3> QED
      BY <3>1, SrcQuiet
  <2> QED
    BY <1>2, <2>1, <2>2 DEF ProcessStep
<1>3. CASE Run \/ RunReturns \/ DropLoop \/ UNCHANGED vars
  <2>1. UNCHANGED <<ouser, stdio, content, src>> /\ made' = made
    BY <1>3 DEF Run, RunReturns, DropLoop, vars, optionVars, streamVars
  <2> QED
    BY <2>1, SrcQuiet
<1> QED
  BY <1>1, <1>2, <1>3 DEF Next, Terminated

\* The whole invariant: the references to the stream included, whichever list
\* of containers the options were made of, repeated containers too.
THEOREM StdioInvariant == Spec => []PInv
<1>1. Init => SrcInv
  BY SrcInvInit
<1>2. SrcInv /\ [Next]_vars => SrcInv'
  BY SrcInvNext
<1>3. ProcessInv /\ SrcInv => PInv
  BY DEF ProcessInv, SrcInv, StreamTypes, PInv, TypeOK
<1> QED
  BY <1>1, <1>2, <1>3, ProcessInvariant, PTL DEF Spec

\* A closed process that nobody refers to is freed, and with the last options
\* and containers go all references to the stream that they took over.
THEOREM ProcessLeakFree == Spec => []NoLeak
<1>1. PInv => NoLeak
  <2> SUFFICES ASSUME PInv PROVE NoLeak
    OBVIOUS
  <2>1. ProcessInv /\ SrcInv
    BY DEF PInv, SrcInv, TypeOK, StreamTypes
  <2>2. ASSUME NEW p \in Processes, phase[p] = "closed" /\ user[p] = 0 /\ frame # p
        PROVE  rc[p] = 0
    BY <2>1, <2>2, OkAtAll DEF OkAt, Linked, One
  <2>3. ASSUME \A o \in Options : ouser[o] = 0, \A c \in Containers : content[c] # "stream"
        PROVE  src = 0
    <3>1. Held = {}
      BY <2>3 DEF Held
    <3>2. \A o \in Options : stdio[o] = <<>>
      BY <2>1, <2>3, SrcParts
    <3>3. Entry = {}
      BY <3>2 DEF Entry
    <3> QED
      BY <2>1, <3>1, <3>3, SrcParts, FS_EmptySet
  <2> QED
    BY <2>2, <2>3 DEF NoLeak
<1> QED
  BY <1>1, StdioInvariant, PTL

=============================================================================

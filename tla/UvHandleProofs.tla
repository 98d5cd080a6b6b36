--------------------------- MODULE UvHandleProofs ---------------------------
(* Type correctness and memory safety of UvHandle for any set of handles,  *)
(* any closures and any bound, when the program leaves closed handles alone.*)
EXTENDS UvHandle, FiniteSetTheorems, TLAPS

FrameType == [cb : Closures \cup {None}, on : Handles \cup {None}, param : {0, 1}]

\* The absence of a callback is a frame.
LEMMA NoFrameType == NoFrame \in FrameType
BY DEF NoFrame, FrameType

\* The initial state is well typed.
LEMMA TypeInit == Init => TypeOK
BY NoFrameType DEF Init, TypeOK, FrameType

\* Every step keeps the types: TypeOK is inductive by itself.
LEMMA TypeNext == TypeOK /\ [Next]_vars => TypeOK'
<1> SUFFICES ASSUME TypeOK, [Next]_vars PROVE TypeOK'
  OBVIOUS
<1> USE DEF TypeOK
<1>1. ASSUME NEW h \in Handles, Dup(h) PROVE TypeOK'
  BY <1>1 DEF Dup, loopVars
<1>2. ASSUME NEW h \in Handles, Drop(h) PROVE TypeOK'
  BY <1>2, SMTT(30) DEF Drop, Install, DropClosure, loopVars
<1>3. ASSUME NEW h \in Handles, TakeParam(h) PROVE TypeOK'
  BY <1>3 DEF TakeParam, loopVars
<1>4. ASSUME NEW h \in Handles, HandleLoop(h) PROVE TypeOK'
  BY <1>4 DEF HandleLoop, Install, DropClosure
<1>5. ASSUME NEW h \in Handles, Walk(h) PROVE TypeOK'
  BY <1>5 DEF Walk, loopVars
<1>6. ASSUME NEW h \in Handles, New(h) PROVE TypeOK'
  BY <1>6 DEF New
<1>7. ASSUME NEW h \in Handles, NewFails(h) PROVE TypeOK'
  BY <1>7 DEF NewFails
<1>8. ASSUME NEW h \in Handles, Stop(h) PROVE TypeOK'
  BY <1>8 DEF Stop, SetData, Install, Captured, DropClosure, loopVars
<1>9. ASSUME NEW h \in Handles, NEW c \in Closures, NEW self \in BOOLEAN, Start(h, c, self)
      PROVE TypeOK'
  BY <1>9 DEF Start, NewClosure, SetData, Install, Captured, DropClosure, loopVars
<1>10. ASSUME NEW h \in Handles, NEW c \in Closures, NEW self \in BOOLEAN, Close(h, c, self)
      PROVE TypeOK'
  BY <1>10 DEF Close, NewClosure, SetData, Install, Captured, DropClosure, loopVars
<1>11. ASSUME NEW h \in Handles, EventCb(h) PROVE TypeOK'
  BY <1>11 DEF EventCb, loopVars
<1>12. ASSUME NEW h \in Handles, CloseCb(h) PROVE TypeOK'
  BY <1>12 DEF CloseCb, Install, DropClosure, loopVars
<1>13. ASSUME NEW h \in Handles, Return(h) PROVE TypeOK'
  <2>1. frame' \in FrameType
    BY <1>13, NoFrameType DEF Return
  <2>2. frame.cb \in Closures \cup {None}
    OBVIOUS
  <2> QED
    BY <1>13, <2>1, <2>2, SMTT(30)
    DEF Return, Install, Captured, DropClosure, loopVars, FrameType
<1>14. CASE DupLoop
  BY <1>14 DEF DupLoop
<1>15. CASE DropLoop
  BY <1>15 DEF DropLoop
<1>16. CASE StopLoop
  BY <1>16 DEF StopLoop
<1>17. CASE RunReturns
  BY <1>17 DEF RunReturns
<1>18. ASSUME NEW mode \in {"Default", "Once"}, Run(mode) PROVE TypeOK'
  BY <1>18 DEF Run
<1>19. CASE UNCHANGED vars
  BY <1>19 DEF vars, loopVars
<1> QED
  BY <1>1, <1>2, <1>3, <1>4, <1>5, <1>6, <1>7, <1>8, <1>9, <1>10, <1>11, <1>12, <1>13,
     <1>14, <1>15, <1>16, <1>17, <1>18, <1>19
  DEF Next, UserStep, LoopStep, Terminated

\* The counts stay integers, the pointers stay handles and closures: TypeOK
\* holds of every behaviour, for every value of the constants.
THEOREM TypeCorrect == Spec => []TypeOK
BY TypeInit, TypeNext, PTL DEF Spec

\* The initial state satisfies the inductive invariant.
LEMMA IInvInit == Init => IInv
<1> SUFFICES ASSUME Init PROVE IInv
  OBVIOUS
<1>1. TypeOK
  BY TypeInit
<1>2. Pointers /\ CallableData
  BY HandleAssumption DEF Init, Pointers, CallableData, NoFrame
<1>3. RcExact
  BY HandleAssumption DEF Init, RcExact, Refs, One, Linked, NoFrame
<1>4. CrcExact
  BY HandleAssumption DEF Init, CrcExact, One, NoFrame
<1>5. LoopExact
  <2>1. Live = {}
    BY DEF Init, Live
  <2> QED
    BY <2>1, FS_EmptySet DEF Init, LoopExact, One
<1> QED
  BY <1>1, <1>2, <1>3, <1>4, <1>5 DEF IInv, CountsExact

\* The live handles can be counted.
LEMMA CardinalityNat == Cardinality(Live) \in Nat /\ Cardinality(Live') \in Nat
BY HandleAssumption, FS_Subset, FS_CardinalityType DEF Live

\* How the number of live handles follows one handle's count.
LEMMA LiveStep ==
  ASSUME TypeOK, NEW h \in Handles, NEW n \in Int, rc' = [rc EXCEPT ![h] = n]
  PROVE  /\ IsFiniteSet(Live) /\ IsFiniteSet(Live')
         /\ (rc[h] > 0 <=> n > 0) => Live' = Live
         /\ rc[h] > 0 /\ ~(n > 0) => Cardinality(Live') = Cardinality(Live) - 1
         /\ ~(rc[h] > 0) /\ n > 0 => Cardinality(Live') = Cardinality(Live) + 1
<1>1. IsFiniteSet(Live) /\ IsFiniteSet(Live')
  BY HandleAssumption, FS_Subset DEF Live
<1>2. (rc[h] > 0 <=> n > 0) => Live' = Live
  BY DEF Live, TypeOK
<1>3. ASSUME rc[h] > 0, ~(n > 0) PROVE Cardinality(Live') = Cardinality(Live) - 1
  <2>1. Live' = Live \ {h} /\ h \in Live
    BY <1>3 DEF Live, TypeOK
  <2> QED
    BY <1>1, <2>1, FS_RemoveElement
<1>4. ASSUME ~(rc[h] > 0), n > 0 PROVE Cardinality(Live') = Cardinality(Live) + 1
  <2>1. Live' = Live \cup {h} /\ h \notin Live
    BY <1>4 DEF Live, TypeOK
  <2> QED
    BY <1>1, <2>1, FS_AddElement
<1> QED
  BY <1>1, <1>2, <1>3, <1>4

\* A handle that libuv, the program or a running callback can reach is live.
LEMMA Reachable ==
  ASSUME TypeOK, RcExact, NEW h \in Handles,
         Linked(h) \/ user[h] > 0 \/ (frame.on = h /\ frame.param = 1)
  PROVE  rc[h] > 0
BY DEF TypeOK, RcExact, Refs, One

\* Install frees the handle and drops handle->loop together.
LEMMA InstallLoop ==
  ASSUME TypeOK, NEW h \in Handles, NEW n \in Int, NEW d, NEW counts, NEW loop \in Int,
         Install(h, n, d, counts, loop), n > 0 => rc[h] > 0
  PROVE  loopRc' - Cardinality(Live') = loop - Cardinality(Live)
<1>1. Cardinality(Live) \in Nat /\ Cardinality(Live') \in Nat
  BY CardinalityNat
<1>2. rc' = [rc EXCEPT ![h] = n] /\ loopRc' = IF rc[h] > 0 /\ n <= 0 THEN loop - 1 ELSE loop
  BY DEF Install
<1>3. /\ (rc[h] > 0 <=> n > 0) => Cardinality(Live') = Cardinality(Live)
      /\ rc[h] > 0 /\ ~(n > 0) => Cardinality(Live') = Cardinality(Live) - 1
  BY <1>2, LiveStep
<1>4. rc[h] \in Int
  BY DEF TypeOK
<1> QED
  BY <1>1, <1>2, <1>3, <1>4

\* LoopExact of a step that changes the references to the loop by `loop -
\* loopRc` and then installs a count in h.
LEMMA LoopByInstall ==
  ASSUME TypeOK, TypeOK', LoopExact,
         NEW h \in Handles, NEW n \in Int, NEW d, NEW counts, NEW loop \in Int,
         Install(h, n, d, counts, loop), n > 0 => rc[h] > 0,
         loop - loopRc = (userLoop' + One(running' # "no")) - (userLoop + One(running # "no"))
  PROVE  LoopExact'
<1>1. loopRc' - Cardinality(Live') = loop - Cardinality(Live)
  BY InstallLoop
<1> QED
  BY <1>1, CardinalityNat DEF LoopExact, One, TypeOK

\* LoopExact of a step that adds a reference to a live handle.
LEMMA LoopByIncref ==
  ASSUME TypeOK, LoopExact, NEW h \in Handles, rc[h] > 0, rc' = [rc EXCEPT ![h] = @ + 1],
         UNCHANGED <<loopRc, userLoop, running>>
  PROVE  LoopExact'
<1>1. rc[h] + 1 \in Int /\ rc[h] + 1 > 0
  BY DEF TypeOK
<1>2. Live' = Live
  BY <1>1, LiveStep
<1> QED
  BY <1>2 DEF LoopExact

\* A copy of a reference held by the program keeps the invariant.
LEMMA DupStep ==
  ASSUME IInv, TypeOK', NEW h \in Handles, Dup(h)
  PROVE  IInv'
<1> USE DEF IInv, CountsExact
<1>1. Pointers' /\ CallableData'
  BY DEF Dup, loopVars, TypeOK, Pointers, CallableData, Linked
<1>2. RcExact'
  BY DEF Dup, loopVars, TypeOK, RcExact, Refs, Linked, One
<1>3. CrcExact'
  BY DEF Dup, loopVars, TypeOK, CrcExact, One
<1>4. LoopExact'
  <2>1. rc[h] > 0
    BY Reachable, HandleAssumption DEF Dup
  <2> QED
    BY <2>1, LoopByIncref DEF Dup, loopVars
<1> QED
  BY <1>1, <1>2, <1>3, <1>4

\* The reference that loop.walk hands out keeps the invariant.
LEMMA WalkStep ==
  ASSUME IInv, TypeOK', NEW h \in Handles, Walk(h)
  PROVE  IInv'
<1> USE DEF IInv, CountsExact
<1>1. Pointers' /\ CallableData'
  BY DEF Walk, loopVars, TypeOK, Pointers, CallableData, Linked
<1>2. RcExact'
  BY DEF Walk, loopVars, TypeOK, RcExact, Refs, Linked, One
<1>3. CrcExact'
  BY DEF Walk, loopVars, TypeOK, CrcExact, One
<1>4. LoopExact'
  BY Reachable, LoopByIncref DEF Walk, loopVars
<1> QED
  BY <1>1, <1>2, <1>3, <1>4

\* Dropping a reference of the program leaves data alone: a handle that is
\* freed here was closed or never started, so its data is empty.
LEMMA DropData ==
  ASSUME TypeOK, RcExact, Pointers, NEW h \in Handles, user[h] > 0
  PROVE  rc[h] > 0 /\ (rc[h] - 1 > 0 \/ data[h] = None)
BY DEF TypeOK, RcExact, Refs, One, Pointers

\* A dropped reference keeps the invariant, also when it frees the handle.
LEMMA DropStep ==
  ASSUME IInv, TypeOK', NEW h \in Handles, Drop(h)
  PROVE  IInv'
<1> USE DEF IInv, CountsExact
<1>1. rc[h] > 0 /\ (rc[h] - 1 > 0 \/ data[h] = None)
  BY DropData DEF Drop
<1>2. Install(h, rc[h] - 1, data[h], crc, loopRc)
  BY DEF Drop
<1>3. data' = data /\ crc' = crc
  BY <1>1, <1>2 DEF TypeOK, Install, DropClosure
<1>4. Pointers' /\ CallableData'
  BY <1>3 DEF Drop, loopVars, TypeOK, Pointers, CallableData, Linked
<1>5. RcExact'
  BY <1>2, <1>3 DEF Drop, Install, loopVars, TypeOK, RcExact, Refs, Linked, One
<1>6. CrcExact'
  BY <1>3 DEF Drop, loopVars, TypeOK, CrcExact, One
<1>7. LoopExact'
  <2>1. rc[h] - 1 \in Int /\ loopRc \in Int /\ userLoop \in Int
    BY DEF TypeOK
  <2> QED
    BY <1>1, <1>2, <2>1, LoopByInstall DEF Drop, loopVars, One
<1> QED
  BY <1>4, <1>5, <1>6, <1>7

\* handle.loop() keeps the invariant: one reference moves from the handle to
\* its loop.
LEMMA HandleLoopStep ==
  ASSUME IInv, TypeOK', NEW h \in Handles, HandleLoop(h)
  PROVE  IInv'
<1> USE DEF IInv, CountsExact
<1>1. rc[h] > 0 /\ (rc[h] - 1 > 0 \/ data[h] = None)
  BY DropData DEF HandleLoop
<1>2. Install(h, rc[h] - 1, data[h], crc, loopRc + 1)
  BY DEF HandleLoop
<1>3. data' = data /\ crc' = crc
  BY <1>1, <1>2 DEF TypeOK, Install, DropClosure
<1>4. Pointers' /\ CallableData'
  BY <1>3 DEF HandleLoop, TypeOK, Pointers, CallableData, Linked
<1>5. RcExact'
  BY <1>2, <1>3 DEF HandleLoop, Install, TypeOK, RcExact, Refs, Linked, One
<1>6. CrcExact'
  BY <1>3 DEF HandleLoop, TypeOK, CrcExact, One
<1>7. LoopExact'
  <2>1. rc[h] - 1 \in Int /\ loopRc + 1 \in Int /\ userLoop \in Int /\ loopRc \in Int
    BY DEF TypeOK
  <2>2. (loopRc + 1) - loopRc = (userLoop' + One(running' # "no")) - (userLoop + One(running # "no"))
    BY <2>1 DEF HandleLoop, One
  <2> QED
    BY <1>1, <1>2, <2>1, <2>2, LoopByInstall
<1> QED
  BY <1>4, <1>5, <1>6, <1>7

\* The reference of a callback's parameter becomes one of the program.
LEMMA TakeParamStep ==
  ASSUME IInv, TypeOK', NEW h \in Handles, TakeParam(h)
  PROVE  IInv'
<1> USE DEF IInv, CountsExact
<1>1. Pointers' /\ CallableData'
  BY DEF TakeParam, loopVars, TypeOK, Pointers, CallableData, Linked
<1>2. RcExact'
  BY DEF TakeParam, loopVars, TypeOK, RcExact, Refs, Linked, One
<1>3. CrcExact'
  BY DEF TakeParam, loopVars, TypeOK, CrcExact, One
<1>4. LoopExact'
  BY DEF TakeParam, loopVars, LoopExact, Live
<1> QED
  BY <1>1, <1>2, <1>3, <1>4

\* A handle that was not made yet has count zero.
LEMMA Unborn ==
  ASSUME TypeOK, RcExact, Pointers, NEW h \in Handles, phase[h] = "none"
  PROVE  rc[h] = 0 /\ user[h] = 0 /\ data[h] = None /\ frame.on # h
BY DEF TypeOK, RcExact, Refs, One, Pointers, Linked

\* Making and initialising a handle keeps the invariant.
LEMMA NewStep ==
  ASSUME IInv, TypeOK', NEW h \in Handles, New(h) \/ NewFails(h)
  PROVE  IInv'
<1> USE DEF IInv, CountsExact
<1>1. rc[h] = 0 /\ user[h] = 0 /\ data[h] = None /\ frame.on # h
  BY Unborn DEF New, NewFails
<1>2. Pointers' /\ CallableData'
  BY <1>1 DEF New, NewFails, TypeOK, Pointers, CallableData, Linked
<1>3. RcExact'
  BY <1>1 DEF New, NewFails, TypeOK, RcExact, Refs, Linked, One
<1>4. CrcExact'
  BY DEF New, NewFails, TypeOK, CrcExact, One
<1>5. LoopExact'
  <2>1. PICK n \in {1, 2} : rc' = [rc EXCEPT ![h] = n]
    BY DEF New, NewFails
  <2>2. n \in Int /\ n > 0 /\ ~(rc[h] > 0)
    BY <1>1
  <2>3. Cardinality(Live') = Cardinality(Live) + 1
    BY <2>1, <2>2, LiveStep
  <2> QED
    BY <2>3, CardinalityNat DEF New, NewFails, LoopExact, One, TypeOK
<1> QED
  BY <1>2, <1>3, <1>4, <1>5

\* start and close: a fresh closure c takes the place of the one in data.
LEMMA ReplaceStep ==
  ASSUME IInv, TypeOK', NEW h \in Handles, NEW c \in Closures, NEW self \in BOOLEAN,
         NEW type \in {"event", "close"}, NEW p \in {"open", "active", "closing"},
         phase[h] \in {"open", "active"}, p # "open" => type = (IF p = "active" THEN "event" ELSE "close"),
         user[h] > (IF self THEN 1 ELSE 0),
         NewClosure(c, type, IF self THEN h ELSE None),
         user' = [user EXCEPT ![h] = @ - (IF self THEN 2 ELSE 1)],
         SetData(h, c, [crc EXCEPT ![c] = 1]),
         phase' = [phase EXCEPT ![h] = p],
         UNCHANGED <<frame, loopVars>>
  PROVE  IInv'
<1> USE DEF IInv, CountsExact
<1> DEFINE n == rc[h] - 1 - Captured(h, data[h])
           counts == DropClosure([crc EXCEPT ![c] = 1], data[h])
<1>1. (\A g \in Handles : data[g] # c) /\ frame.cb # c
  BY DEF NewClosure, Fresh, CrcExact, One
<1>2. Install(h, n, c, counts, loopRc)
  BY DEF SetData
<1>3. n \in Int /\ n > 0 /\ rc[h] > 0
  BY DEF TypeOK, RcExact, Refs, One, Linked, Captured
<1>4. data' = [data EXCEPT ![h] = c] /\ crc' = counts /\ rc' = [rc EXCEPT ![h] = n]
  <2> HIDE DEF n, counts
  <2>1. ~(rc[h] > 0 /\ n <= 0)
    BY <1>3
  <2> QED
    BY <1>2, <2>1, Zenon DEF Install
<1>5. ctype' = [ctype EXCEPT ![c] = type]
      /\ captures' = [captures EXCEPT ![c] = IF self THEN h ELSE None]
  BY DEF NewClosure
<1>6. Pointers'
  <2>1. ASSUME NEW g \in Handles
        PROVE  /\ data'[g] # None => Linked(g)' /\ captures'[data'[g]] \in {None, g}
               /\ phase'[g] \in {"none", "failed"} => user'[g] = 0 /\ frame'.on # g
    BY <1>1, <1>4, <1>5, HandleAssumption DEF TypeOK, Pointers, Linked
  <2>2. ASSUME NEW g \in Handles, NEW k \in Handles, data'[g] # None, data'[g] = data'[k]
        PROVE  g = k
    BY <2>2, <1>1, <1>4, HandleAssumption DEF TypeOK, Pointers
  <2>3. frame' = frame /\ running' = running
    BY DEF loopVars
  <2>4. frame.on # None =>
          /\ captures'[frame.cb] \in {None, frame.on}
          /\ \A g \in Handles : data'[g] = frame.cb => g = frame.on
    BY <1>1, <1>4, <1>5, HandleAssumption DEF TypeOK, Pointers
  <2> QED
    BY <2>1, <2>2, <2>3, <2>4 DEF Pointers
<1>7. CallableData'
  BY <1>1, <1>4, <1>5, HandleAssumption DEF TypeOK, CallableData
<1>8. RcExact'
  <2> SUFFICES ASSUME NEW g \in Handles PROVE rc'[g] = Refs(g)'
    BY DEF RcExact
  <2>1. CASE g # h
    BY <2>1, <1>1, <1>4, <1>5, HandleAssumption DEF TypeOK, RcExact, Refs, Linked, One
  <2>2. CASE g = h
    <3>1. Captured(h, data[h]) =
            One(data[h] # None /\ frame.cb # data[h] /\ captures[data[h]] = h)
      BY DEF TypeOK, Captured, CrcExact, One
    <3>2. frame.cb = data[h] /\ data[h] # None => frame.on = h
      BY DEF Pointers, TypeOK
    <3>3. frame.on = h => frame.cb # None
      BY HandleAssumption DEF Pointers
    <3>4. rc[h] = Refs(h)
      BY DEF RcExact
    <3>5. Linked(h) /\ Linked(h)' /\ phase[h] # "failed" /\ phase'[h] # "failed"
      BY DEF Linked, TypeOK
    <3>6. data'[h] = c /\ captures'[c] = (IF self THEN h ELSE None)
          /\ user'[h] = user[h] - (IF self THEN 2 ELSE 1) /\ frame' = frame
          /\ rc'[h] = rc[h] - 1 - Captured(h, data[h])
      BY <1>4, <1>5 DEF TypeOK
    <3>7. frame.cb # c /\ c # None /\ h # None
      BY <1>1, HandleAssumption
    <3>8. frame.on = h => captures'[frame.cb] = captures[frame.cb]
      BY <3>3, <3>7, <1>5 DEF TypeOK
    <3>9. user[h] \in Int /\ rc[h] \in Int /\ frame.param \in Int
      BY DEF TypeOK
    <3>10. rc'[h] = Refs(h)'
      BY <3>1, <3>2, <3>3, <3>4, <3>5, <3>6, <3>7, <3>8, <3>9 DEF Refs, One
    <3> QED
      BY <3>10, <2>2
  <2> QED
    BY <2>1, <2>2
<1>9. CrcExact'
  <2> SUFFICES ASSUME NEW d \in Closures
               PROVE  crc'[d] = One(\E g \in Handles : data'[g] = d) + One(frame'.cb = d)
    BY DEF CrcExact
  <2>1. CASE d = c
    <3>1. data[h] # c /\ data'[h] = c /\ frame'.cb # c
      BY <1>1, <1>4 DEF TypeOK
    <3>2. crc'[c] = 1
      BY <1>4, <3>1 DEF TypeOK, DropClosure
    <3> QED
      BY <2>1, <3>1, <3>2 DEF One
  <2>2. CASE d # c /\ d = data[h]
    <3>1. ~ \E g \in Handles : data'[g] = d
      BY <1>4, <2>2, HandleAssumption DEF TypeOK, Pointers
    <3>2. crc'[d] = crc[d] - 1
      BY <1>4, <2>2, HandleAssumption DEF TypeOK, DropClosure
    <3>3. \E g \in Handles : data[g] = d
      BY <2>2
    <3> QED
      BY <3>1, <3>2, <3>3 DEF CrcExact, One, TypeOK
  <2>3. CASE d # c /\ d # data[h]
    <3>1. (\E g \in Handles : data'[g] = d) <=> (\E g \in Handles : data[g] = d)
      BY <1>4, <2>3 DEF TypeOK
    <3>2. crc'[d] = crc[d]
      BY <1>4, <2>3 DEF TypeOK, DropClosure
    <3> QED
      BY <3>1, <3>2 DEF CrcExact, One
  <2> QED
    BY <2>1, <2>2, <2>3
<1>10. LoopExact'
  <2>1. loopRc \in Int /\ userLoop \in Int
    BY DEF TypeOK
  <2>2. loopRc - loopRc = (userLoop' + One(running' # "no")) - (userLoop + One(running # "no"))
    BY <2>1 DEF loopVars, One
  <2> QED
    BY <1>2, <1>3, <2>1, <2>2, LoopByInstall
<1> QED
  BY <1>6, <1>7, <1>8, <1>9, <1>10

\* start keeps the invariant, whatever closure it replaces.
LEMMA StartStep ==
  ASSUME IInv, TypeOK', ~AfterClose, NEW h \in Handles, NEW c \in Closures,
         NEW self \in BOOLEAN, Start(h, c, self)
  PROVE  IInv'
<1>1. phase[h] \in {"open", "active"} /\ ~Closing(h)
  BY DEF Start, Usable, Closing
<1>2. CASE phase' = [phase EXCEPT ![h] = "active"]
  BY <1>1, <1>2, ReplaceStep DEF Start
<1>3. CASE phase' = [phase EXCEPT ![h] = phase[h]]
  BY <1>1, <1>3, ReplaceStep DEF Start
<1> QED
  BY <1>1, <1>2, <1>3 DEF Start, IInv, TypeOK

\* close keeps the invariant, whatever closure it replaces.
LEMMA CloseStep ==
  ASSUME IInv, TypeOK', NEW h \in Handles, NEW c \in Closures,
         NEW self \in BOOLEAN, Close(h, c, self)
  PROVE  IInv'
BY ReplaceStep DEF Close

\* Install when the handle stays live.
LEMMA InstallLive ==
  ASSUME NEW h, NEW n \in Int, n > 0, NEW d, NEW counts, NEW loop,
         Install(h, n, d, counts, loop)
  PROVE  rc' = [rc EXCEPT ![h] = n] /\ data' = [data EXCEPT ![h] = d] /\ crc' = counts
<1>1. ~(rc[h] > 0 /\ n <= 0)
  OBVIOUS
<1> QED
  BY <1>1, Zenon DEF Install

\* The closure in data is not running unless the callback is on its handle.
LEMMA CapturedData ==
  ASSUME TypeOK, CrcExact, NEW h \in Handles
  PROVE  Captured(h, data[h]) =
           One(data[h] # None /\ frame.cb # data[h] /\ captures[data[h]] = h)
BY DEF TypeOK, Captured, CrcExact, One

\* stop: data is emptied, or kept by fs_event and fs_poll.
LEMMA StopStep ==
  ASSUME IInv, TypeOK', ~AfterClose, NEW h \in Handles, Stop(h)
  PROVE  IInv'
<1> USE DEF IInv, CountsExact
<1> DEFINE clears == KindOf[h].clears
           n == rc[h] - 1 - (IF clears THEN Captured(h, data[h]) ELSE 0)
           d == IF clears THEN None ELSE data[h]
           counts == IF clears THEN DropClosure(crc, data[h]) ELSE crc
<1>1. phase[h] \in {"open", "active"} /\ user[h] > 0 /\ Linked(h)
  BY DEF Stop, Usable, Closing, Linked
<1>2. Install(h, n, d, counts, loopRc)
  <2>1. CASE clears
    <3>1. SetData(h, None, crc)
      BY <2>1, Zenon DEF Stop
    <3> QED
      BY <2>1, <3>1, Zenon DEF SetData
  <2>2. CASE ~clears
    <3>1. Install(h, rc[h] - 1, data[h], crc, loopRc)
      BY <2>2, Zenon DEF Stop
    <3>2. n = rc[h] - 1
      BY <2>2 DEF TypeOK
    <3>3. d = data[h] /\ counts = crc
      BY <2>2, Zenon
    <3> QED
      BY <3>1, <3>2, <3>3, Zenon
  <2> QED
    BY <2>1, <2>2
<1>3. n \in Int /\ n > 0 /\ rc[h] > 0
  BY <1>1 DEF TypeOK, RcExact, Refs, One, Captured
<1>4. rc' = [rc EXCEPT ![h] = n] /\ data' = [data EXCEPT ![h] = d] /\ crc' = counts
  <2> HIDE DEF n, d, counts
  <2> QED
    BY <1>2, <1>3, InstallLive
<1>5. phase' = [phase EXCEPT ![h] = "open"]
  BY <1>1 DEF Stop, TypeOK
<1>6. UNCHANGED <<ctype, captures, frame, userLoop, running, stopFlag>>
      /\ user' = [user EXCEPT ![h] = @ - 1]
  BY DEF Stop, loopVars
<1>7. d = None \/ d = data[h]
  OBVIOUS
<1>8. Pointers' /\ CallableData'
  <2> HIDE DEF d
  <2> QED
    BY <1>1, <1>4, <1>5, <1>6, <1>7, HandleAssumption DEF TypeOK, Pointers, CallableData, Linked
<1>9. RcExact'
  <2> SUFFICES ASSUME NEW g \in Handles PROVE rc'[g] = Refs(g)'
    BY DEF RcExact
  <2>1. CASE g # h
    BY <2>1, <1>4, <1>5, <1>6 DEF TypeOK, RcExact, Refs, Linked, One
  <2>2. CASE g = h
    <3>1. rc[h] = Refs(h)
      BY DEF RcExact
    <3>2. frame.on = h => frame.cb # None
      BY HandleAssumption DEF Pointers
    <3>3. frame.cb = data[h] /\ data[h] # None => frame.on = h
      BY DEF Pointers, TypeOK
    <3>4. /\ Linked(h)' /\ phase[h] # "failed" /\ phase'[h] # "failed"
          /\ rc'[h] = n /\ data'[h] = d /\ user'[h] = user[h] - 1
      BY <1>1, <1>4, <1>5, <1>6 DEF Linked, TypeOK
    <3>5. user[h] \in Int /\ rc[h] \in Int /\ frame.param \in Int
      BY DEF TypeOK
    <3>6. CASE clears
      BY <1>1, <1>6, <2>2, <3>1, <3>2, <3>3, <3>4, <3>5, <3>6, CapturedData DEF Refs, One
    <3>7. CASE ~clears
      BY <1>1, <1>6, <2>2, <3>1, <3>4, <3>5, <3>7 DEF Refs, One
    <3> QED
      BY <3>6, <3>7
  <2> QED
    BY <2>1, <2>2
<1>10. CrcExact'
  <2> SUFFICES ASSUME NEW c \in Closures
               PROVE  crc'[c] = One(\E g \in Handles : data'[g] = c) + One(frame'.cb = c)
    BY DEF CrcExact
  <2>1. CASE clears /\ c = data[h]
    <3>1. ~ \E g \in Handles : data'[g] = c
      BY <1>4, <2>1, HandleAssumption DEF TypeOK, Pointers
    <3>2. crc'[c] = crc[c] - 1
      BY <1>4, <2>1, HandleAssumption DEF TypeOK, DropClosure
    <3>3. \E g \in Handles : data[g] = c
      BY <2>1
    <3> QED
      BY <1>6, <3>1, <3>2, <3>3 DEF CrcExact, One, TypeOK
  <2>2. CASE ~(clears /\ c = data[h])
    <3>1. (\E g \in Handles : data'[g] = c) <=> (\E g \in Handles : data[g] = c)
      BY <1>4, <2>2, HandleAssumption DEF TypeOK
    <3>2. crc'[c] = crc[c]
      BY <1>4, <2>2 DEF TypeOK, DropClosure
    <3> QED
      BY <1>6, <3>1, <3>2 DEF CrcExact, One
  <2> QED
    BY <2>1, <2>2
<1>11. LoopExact'
  <2>1. loopRc \in Int /\ userLoop \in Int
    BY DEF TypeOK
  <2>2. loopRc - loopRc = (userLoop' + One(running' # "no")) - (userLoop + One(running # "no"))
    BY <1>6, <2>1 DEF One
  <2> HIDE DEF n, d, counts
  <2> QED
    BY <1>2, <1>3, <2>1, <2>2, LoopByInstall
<1> QED
  BY <1>8, <1>9, <1>10, <1>11

\* The loop calls an event callback: one more reference to the closure and to
\* the handle, both held by the callback.
LEMMA EventCbStep ==
  ASSUME IInv, TypeOK', NEW h \in Handles, EventCb(h)
  PROVE  IInv'
<1> USE DEF IInv, CountsExact
<1>1. PICK p \in {"open", "active"} : phase' = [phase EXCEPT ![h] = p]
  BY DEF EventCb, TypeOK
<1>2. /\ phase[h] = "active" /\ data[h] \in Closures /\ data[h] # None /\ running # "no"
      /\ frame.on = None /\ frame.cb = None
      /\ crc' = [crc EXCEPT ![data[h]] = @ + 1] /\ rc' = [rc EXCEPT ![h] = @ + 1]
      /\ frame' = [cb |-> data[h], on |-> h, param |-> 1]
      /\ UNCHANGED <<user, data, ctype, captures, loopRc, userLoop, running, stopFlag>>
  BY DEF EventCb, InLoop, NoFrame, loopVars, TypeOK
<1>3. Pointers' /\ CallableData'
  BY <1>1, <1>2, HandleAssumption DEF TypeOK, Pointers, CallableData, Linked
<1>4. RcExact'
  BY <1>1, <1>2, HandleAssumption DEF TypeOK, RcExact, Refs, Linked, One
<1>5. CrcExact'
  BY <1>2, HandleAssumption DEF TypeOK, CrcExact, One
<1>6. LoopExact'
  <2>1. rc[h] > 0
    BY <1>2, Reachable DEF Linked
  <2> QED
    BY <1>2, <2>1, LoopByIncref
<1> QED
  BY <1>3, <1>4, <1>5, <1>6

\* The loop calls the close callback: its reference to the handle is dropped
\* and the closure moves from data into the call.
LEMMA CloseCbStep ==
  ASSUME IInv, TypeOK', NEW h \in Handles, CloseCb(h)
  PROVE  IInv'
<1> USE DEF IInv, CountsExact
<1>1. /\ phase[h] = "closing" /\ data[h] \in Closures /\ data[h] # None /\ running # "no"
      /\ frame.on = None /\ frame.cb = None
      /\ Install(h, rc[h] - 1, None, crc, loopRc)
      /\ frame' = [cb |-> data[h], on |-> h, param |-> 0]
      /\ phase' = [phase EXCEPT ![h] = "closed"]
      /\ UNCHANGED <<user, ctype, captures, userLoop, running, stopFlag>>
  BY DEF CloseCb, InLoop, NoFrame, loopVars, TypeOK
<1>2. data' = [data EXCEPT ![h] = None] /\ crc' = crc /\ rc' = [rc EXCEPT ![h] = @ - 1]
  BY <1>1 DEF Install, DropClosure
<1>3. Pointers' /\ CallableData'
  BY <1>1, <1>2, HandleAssumption DEF TypeOK, Pointers, CallableData, Linked
<1>4. RcExact'
  BY <1>1, <1>2, HandleAssumption DEF TypeOK, RcExact, Refs, Linked, One
<1>5. CrcExact'
  <2> SUFFICES ASSUME NEW c \in Closures
               PROVE  crc[c] = One(\E g \in Handles : data'[g] = c) + One(data[h] = c)
    BY <1>1, <1>2 DEF CrcExact
  <2>1. CASE c = data[h]
    <3>1. (~ \E g \in Handles : data'[g] = c) /\ (\E g \in Handles : data[g] = c)
      BY <1>1, <1>2, <2>1, HandleAssumption DEF TypeOK, Pointers
    <3> QED
      BY <1>1, <2>1, <3>1, HandleAssumption DEF CrcExact, One, TypeOK
  <2>2. CASE c # data[h]
    <3>1. (\E g \in Handles : data'[g] = c) <=> (\E g \in Handles : data[g] = c)
      BY <1>2, <2>2, HandleAssumption DEF TypeOK
    <3> QED
      BY <1>1, <2>2, <3>1, HandleAssumption DEF CrcExact, One, TypeOK
  <2> QED
    BY <2>1, <2>2
<1>6. LoopExact'
  <2>1. rc[h] > 0
    BY <1>1, Reachable DEF Linked
  <2>2. rc[h] - 1 \in Int /\ loopRc \in Int /\ userLoop \in Int
    BY DEF TypeOK
  <2>3. loopRc - loopRc = (userLoop' + One(running' # "no")) - (userLoop + One(running # "no"))
    BY <1>1, <2>2 DEF One
  <2> QED
    BY <1>1, <2>1, <2>2, <2>3, LoopByInstall
<1> QED
  BY <1>3, <1>4, <1>5, <1>6

\* The callback on h returns: it drops the parameter it still holds and its
\* closure, and the closure, if that was its last reference, what it captured.
\* A handle that is freed by this was closed, so its data is empty.
LEMMA ReturnStep ==
  ASSUME IInv, TypeOK', NEW h \in Handles, Return(h)
  PROVE  IInv'
<1> USE DEF IInv, CountsExact
<1> DEFINE n == rc[h] - frame.param - Captured(h, frame.cb)
           counts == DropClosure(crc, frame.cb)
<1>1. /\ frame.on = h /\ frame.cb \in Closures /\ frame.cb # None /\ h # None
      /\ Install(h, n, data[h], counts, loopRc)
      /\ frame'.cb = None /\ frame'.on = None /\ frame'.param = 0
      /\ UNCHANGED <<phase, user, ctype, captures, userLoop, running, stopFlag>>
  BY HandleAssumption DEF Return, NoFrame, loopVars, TypeOK, Pointers
<1>2. Captured(h, frame.cb) = One(frame.cb # data[h] /\ captures[frame.cb] = h)
  BY <1>1 DEF TypeOK, Captured, CrcExact, Pointers, One
<1>3. n \in Int /\ n >= 0 /\ (data[h] # None => n > 0)
  BY <1>1, <1>2 DEF TypeOK, RcExact, Refs, One, Pointers
<1>4. n > 0 => rc[h] > 0
  BY <1>1, <1>2, <1>3 DEF TypeOK, One
<1>5. data' = data /\ rc' = [rc EXCEPT ![h] = n] /\ crc' = counts
  <2>1. rc' = [rc EXCEPT ![h] = n]
    BY <1>1 DEF Install
  <2> HIDE DEF n, counts
  <2>2. CASE n > 0
    BY <1>1, <1>3, <2>2, InstallLive DEF TypeOK
  <2>3. CASE ~(n > 0)
    <3>1. data[h] = None
      BY <1>3, <2>3
    <3>2. data' = [data EXCEPT ![h] = None]
      BY <1>1, <3>1, Zenon DEF Install
    <3>3. crc' = counts
      BY <1>1, <3>1, Zenon DEF Install, DropClosure
    <3> QED
      BY <2>1, <3>1, <3>2, <3>3 DEF TypeOK
  <2> QED
    BY <2>2, <2>3
<1>6. Pointers' /\ CallableData'
  <2> HIDE DEF n, counts
  <2>1. CallableData'
    BY <1>1, <1>5 DEF CallableData
  <2>2. ASSUME NEW g \in Handles
        PROVE  /\ data'[g] # None => Linked(g)' /\ captures'[data'[g]] \in {None, g}
               /\ phase'[g] \in {"none", "failed"} => user'[g] = 0 /\ frame'.on # g
    BY <1>1, <1>5, HandleAssumption DEF Pointers, Linked
  <2>3. \A g, k \in Handles : data'[g] # None /\ data'[g] = data'[k] => g = k
    BY <1>5 DEF Pointers
  <2> QED
    BY <1>1, <2>1, <2>2, <2>3 DEF Pointers
<1>7. RcExact'
  <2> SUFFICES ASSUME NEW g \in Handles PROVE rc'[g] = Refs(g)'
    BY DEF RcExact
  <2>1. CASE g # h
    BY <2>1, <1>1, <1>5, HandleAssumption DEF TypeOK, RcExact, Refs, Linked, One
  <2>2. CASE g = h
    BY <2>2, <1>1, <1>2, <1>5, HandleAssumption DEF TypeOK, RcExact, Refs, Linked, One
  <2> QED
    BY <2>1, <2>2
<1>8. CrcExact'
  <2> SUFFICES ASSUME NEW c \in Closures
               PROVE  counts[c] = One(\E g \in Handles : data[g] = c)
    BY <1>1, <1>5, HandleAssumption DEF CrcExact, One, TypeOK
  <2>1. counts[c] = crc[c] - One(frame.cb = c)
    BY <1>1 DEF DropClosure, One, TypeOK
  <2> HIDE DEF counts
  <2> QED
    BY <2>1 DEF CrcExact, One, TypeOK
<1>9. LoopExact'
  <2>1. loopRc \in Int /\ userLoop \in Int
    BY DEF TypeOK
  <2>2. loopRc - loopRc = (userLoop' + One(running' # "no")) - (userLoop + One(running # "no"))
    BY <1>1, <2>1 DEF One
  <2> HIDE DEF n, counts
  <2> QED
    BY <1>1, <1>3, <1>4, <2>1, <2>2, LoopByInstall
<1> QED
  BY <1>6, <1>7, <1>8, <1>9

\* uv_run, uv_stop and the program's references to the loop touch no handle.
LEMMA LoopSteps ==
  ASSUME IInv, TypeOK',
         DupLoop \/ DropLoop \/ StopLoop \/ RunReturns
           \/ \E mode \in {"Default", "Once"} : Run(mode)
  PROVE  IInv'
<1> USE DEF IInv, CountsExact
<1>1. /\ UNCHANGED <<phase, rc, user, data, crc, ctype, captures, frame>>
      /\ running' = running \/ (running = "no" /\ running' # "no")
           \/ (running # "no" /\ running' = "no" /\ frame = NoFrame)
  BY DEF DupLoop, DropLoop, StopLoop, RunReturns, Run, InLoop
<1>2. Pointers' /\ CallableData'
  BY <1>1 DEF TypeOK, Pointers, CallableData, Linked, NoFrame
<1>3. RcExact'
  BY <1>1 DEF RcExact, Refs, Linked
<1>4. CrcExact'
  BY <1>1 DEF CrcExact, One
<1>5. LoopExact'
  <2>1. Live' = Live
    BY <1>1 DEF Live
  <2>2. loopRc' - loopRc = (userLoop' + One(running' # "no")) - (userLoop + One(running # "no"))
    BY DEF DupLoop, DropLoop, StopLoop, RunReturns, Run, InLoop, One, TypeOK
  <2>3. /\ loopRc \in Int /\ loopRc' \in Int /\ Cardinality(Live) \in Int
        /\ userLoop \in Int /\ userLoop' \in Int
    BY CardinalityNat DEF TypeOK
  <2>4. loopRc = userLoop + One(running # "no") + Cardinality(Live)
    BY DEF LoopExact
  <2>5. One(running # "no") \in Int /\ One(running' # "no") \in Int
    BY DEF One
  <2>6. loopRc' = userLoop' + One(running' # "no") + Cardinality(Live)
    BY <2>2, <2>3, <2>4, <2>5
  <2> QED
    BY <2>1, <2>6 DEF LoopExact
<1> QED
  BY <1>2, <1>3, <1>4, <1>5

\* IInv is inductive.
LEMMA IInvNext == ~AfterClose /\ IInv /\ [Next]_vars => IInv'
<1> SUFFICES ASSUME ~AfterClose, IInv, [Next]_vars PROVE IInv'
  OBVIOUS
<1>1. TypeOK'
  BY TypeNext DEF IInv
<1>2. CASE UNCHANGED vars
  <2>1. UNCHANGED <<phase, rc, user, data, crc, ctype, captures, frame, loopRc, userLoop, running>>
    BY <1>2 DEF vars, loopVars
  <2>2. Pointers'
    BY <2>1 DEF IInv, Pointers, Linked
  <2>3. CallableData'
    BY <2>1 DEF IInv, CallableData
  <2>4. RcExact'
    BY <2>1 DEF IInv, CountsExact, RcExact, Refs, Linked, One
  <2>5. CrcExact'
    BY <2>1 DEF IInv, CountsExact, CrcExact, One
  <2>6. LoopExact'
    BY <2>1 DEF IInv, CountsExact, LoopExact, Live, One
  <2> QED
    BY <1>1, <2>2, <2>3, <2>4, <2>5, <2>6 DEF IInv, CountsExact
<1>3. ASSUME NEW h \in Handles, UserStep(h) \/ LoopStep(h) PROVE IInv'
  BY <1>1, <1>3, DupStep, DropStep, TakeParamStep, HandleLoopStep, WalkStep, NewStep, StopStep,
     StartStep, CloseStep, EventCbStep, CloseCbStep, ReturnStep DEF UserStep, LoopStep
<1> QED
  BY <1>1, <1>2, <1>3, LoopSteps DEF Next, Terminated

\* For any handles, closures and bounds, a program that leaves closed handles
\* alone keeps every count of the glue exact.
THEOREM Inductive ==
  ASSUME ~AfterClose
  PROVE  Spec => []IInv
<1>1. Init => IInv
  BY IInvInit
<1>2. IInv /\ [Next]_vars => IInv'
  BY IInvNext
<1> QED
  BY <1>1, <1>2, PTL DEF Spec

\* From exact counts: no pointer that libuv, the program, a callback or a
\* handle can follow leads to freed memory.
LEMMA IInvNoDangling == IInv => NoDangling
<1> SUFFICES ASSUME IInv PROVE NoDangling
  OBVIOUS
<1> USE DEF IInv, CountsExact
<1>1. ASSUME NEW h \in Handles, Linked(h) \/ user[h] > 0 PROVE rc[h] > 0
  BY <1>1, Reachable
<1>2. ASSUME NEW h \in Handles, rc[h] > 0 PROVE loopRc > 0
  <2>1. Cardinality(Live) # 0
    BY <1>2, HandleAssumption, FS_Subset, FS_EmptySet DEF Live
  <2> QED
    BY <2>1, CardinalityNat DEF LoopExact, One, TypeOK
<1>3. ASSUME NEW h \in Handles, data[h] # None PROVE rc[h] > 0 /\ crc[data[h]] > 0
  <2>1. data[h] \in Closures /\ Linked(h)
    BY <1>3 DEF TypeOK, Pointers
  <2> QED
    BY <2>1, <1>1 DEF CrcExact, One
<1>4. frame # NoFrame => crc[frame.cb] > 0
  <2>1. frame.cb # None \/ frame = NoFrame
    BY DEF Pointers, NoFrame, TypeOK
  <2> QED
    BY <2>1 DEF TypeOK, CrcExact, One
<1>5. frame.param = 1 => rc[frame.on] > 0
  BY Reachable DEF Pointers, TypeOK
<1>6. userLoop > 0 \/ running # "no" => loopRc > 0
  BY CardinalityNat DEF LoopExact, One, TypeOK
<1> QED
  BY <1>1, <1>2, <1>3, <1>4, <1>5, <1>6 DEF NoDangling

\* Memory safety: nothing reachable is freed, and what the loop is about to
\* call is there and of the right C type.
THEOREM MemorySafe ==
  ASSUME ~AfterClose
  PROVE  Spec => [](NoDangling /\ CallableData)
<1>1. IInv => NoDangling /\ CallableData
  BY IInvNoDangling DEF IInv
<1> QED
  BY <1>1, Inductive, PTL

NeverFailed == \A h \in Handles : phase[h] # "failed"

\* Without failing init calls no handle is ever in phase "failed".
LEMMA NeverFailedNext == ~InitFails /\ TypeOK /\ NeverFailed /\ [Next]_vars => NeverFailed'
<1> SUFFICES ASSUME ~InitFails, TypeOK, NeverFailed, [Next]_vars PROVE NeverFailed'
  OBVIOUS
<1> USE DEF NeverFailed
<1>1. CASE UNCHANGED phase
  BY <1>1
<1>2. ASSUME NEW h \in Handles, NEW p \in {"open", "active", "closing", "closed"},
             phase' = [phase EXCEPT ![h] = p]
      PROVE  NeverFailed'
  BY <1>2 DEF TypeOK
<1>3. ASSUME NEW h \in Handles, UserStep(h) PROVE NeverFailed'
  <2>1. ASSUME NEW c \in Closures, NEW self \in BOOLEAN, Start(h, c, self) \/ Close(h, c, self)
        PROVE  NeverFailed'
    BY <1>1, <1>2, <2>1 DEF Start, Close
  <2>2. CASE Stop(h)
    BY <2>2 DEF Stop, TypeOK
  <2> QED
    BY <1>1, <1>2, <1>3, <2>1, <2>2
    DEF UserStep, Dup, Drop, TakeParam, HandleLoop, Walk, New, NewFails
<1>4. ASSUME NEW h \in Handles, LoopStep(h) PROVE NeverFailed'
  BY <1>1, <1>2, <1>4 DEF LoopStep, EventCb, CloseCb, Return
<1> QED
  BY <1>1, <1>3, <1>4
  DEF Next, DupLoop, DropLoop, StopLoop, RunReturns, Run, Terminated, vars, loopVars

\* What is released correctly is freed: closed handles that the program has
\* dropped, closures that nobody awaits, and the loop.
THEOREM LeakFree ==
  ASSUME ~AfterClose, ~InitFails
  PROVE  Spec => []NoLeak
<1>1. Init => NeverFailed
  BY DEF Init, NeverFailed
<1>2. TypeOK /\ NeverFailed /\ [Next]_vars => NeverFailed'
  BY NeverFailedNext
<1>3. IInv /\ NeverFailed => NoLeak
  <2> SUFFICES ASSUME IInv, NeverFailed PROVE NoLeak
    OBVIOUS
  <2> USE DEF IInv, CountsExact
  <2>1. ASSUME NEW h \in Handles, phase[h] \in {"closed", "failed"}, user[h] = 0, frame.on # h
        PROVE  rc[h] = 0
    BY <2>1 DEF RcExact, Refs, One, Linked, Pointers, NeverFailed
  <2>2. ASSUME NEW c \in Closures, crc[c] > 0
        PROVE  frame.cb = c \/ \E h \in Handles : data[h] = c /\ phase[h] # "closed"
    <3>1. frame.cb = c \/ \E h \in Handles : data[h] = c
      BY <2>2 DEF CrcExact, One
    <3> QED
      BY <3>1, HandleAssumption DEF Pointers, Linked
  <2>3. ASSUME userLoop = 0, running = "no", \A h \in Handles : rc[h] = 0
        PROVE  loopRc = 0
    <3>1. Live = {}
      BY <2>3 DEF Live
    <3> QED
      BY <2>3, <3>1, FS_EmptySet DEF LoopExact, One
  <2> QED
    BY <2>1, <2>2, <2>3 DEF NoLeak
<1> QED
  BY <1>1, <1>2, <1>3, TypeCorrect, Inductive, PTL DEF Spec

------------------------------------------------------------------------------
(* The refinement of SharedObject.                                         *)

\* A step on h maps to a step of SharedObject on h, or to a stutter, if it
\* leaves the other handles alone and brings no freed handle back.
LEMMA StepOnHandle ==
  ASSUME IInv, IInv', NEW h \in Handles,
         \A g \in Handles \ {h} : rc'[g] = rc[g] /\ phase'[g] = phase[g],
         \/ rc'[h] = rc[h] /\ phase'[h] = phase[h]
         \/ phase[h] = "none" /\ phase'[h] # "none" /\ rc'[h] > 0
         \/ phase[h] # "none" /\ phase'[h] # "none" /\ (rc[h] > 0 \/ rc'[h] = rc[h])
  PROVE  [Shared!Next]_(Shared!sharedVars)
<1> DEFINE refs == [g \in Handles |-> Refs(g)]
           St(g) == IF phase[g] = "none" THEN "unborn" ELSE IF rc[g] > 0 THEN "live" ELSE "freed"
           state == [g \in Handles |-> St(g)]
<1>1. \A g \in Handles : Refs(g) = rc[g] /\ Refs(g)' = rc'[g] /\ rc[g] \in Int /\ rc'[g] \in Int
  BY DEF IInv, CountsExact, RcExact, TypeOK
<1>2. \A g \in Handles : Refs(g) >= 0 /\ Refs(g)' >= 0
  BY DEF IInv, TypeOK, Refs, One
<1>3. \A g \in Handles \ {h} : refs'[g] = refs[g] /\ state'[g] = state[g]
  BY <1>1
<1>4. /\ refs[h] = rc[h] /\ refs'[h] = rc'[h] /\ rc[h] >= 0 /\ rc'[h] >= 0
      /\ state[h] = St(h) /\ state'[h] = St(h)'
  BY <1>1, <1>2
<1>5. CASE rc'[h] = rc[h] /\ (phase'[h] = "none" <=> phase[h] = "none")
  <2>1. refs' = refs /\ state' = state
    BY <1>1, <1>5
  <2> QED
    BY <2>1 DEF Shared!sharedVars
<1>6. CASE phase[h] = "none" /\ phase'[h] # "none" /\ rc'[h] > 0
  <2>1. Shared!Create(h)
    BY <1>3, <1>4, <1>6 DEF Shared!Create, Shared!Others
  <2> QED
    BY <2>1 DEF Shared!Next
<1>7. CASE phase[h] # "none" /\ phase'[h] # "none" /\ rc[h] > 0
  <2>1. Shared!Share(h)
    BY <1>3, <1>4, <1>7 DEF Shared!Share, Shared!Others
  <2> QED
    BY <2>1 DEF Shared!Next
<1> QED
  BY <1>5, <1>6, <1>7

\* A step that changes no phase and no count maps to a stutter.
LEMMA StepElsewhere ==
  ASSUME IInv, IInv', UNCHANGED <<phase, rc>>
  PROVE  UNCHANGED Shared!sharedVars
<1>1. \A g \in Handles : Refs(g) = rc[g] /\ Refs(g)' = rc'[g]
  BY DEF IInv, CountsExact, RcExact
<1> QED
  BY <1>1 DEF Shared!sharedVars

\* The actions change one handle's phase and count at a time.
LEMMA OneHandle ==
  ASSUME ~AfterClose, TypeOK, NEW h \in Handles, UserStep(h) \/ LoopStep(h)
  PROVE  /\ \A g \in Handles \ {h} : rc'[g] = rc[g] /\ phase'[g] = phase[g]
         /\ phase[h] # "none" => phase'[h] # "none"
         /\ phase[h] = "none" => (rc'[h] > 0 /\ phase'[h] # "none") \/ UNCHANGED phase
<1>1. ASSUME NEW c \in Closures, NEW self \in BOOLEAN, Start(h, c, self) \/ Close(h, c, self)
      PROVE  /\ \A g \in Handles \ {h} : rc'[g] = rc[g] /\ phase'[g] = phase[g]
             /\ phase[h] # "none" /\ phase'[h] # "none"
  <2>1. rc' = [rc EXCEPT ![h] = rc[h] - 1 - Captured(h, data[h])]
    BY <1>1 DEF Start, Close, SetData, Install
  <2> QED
    BY <1>1, <2>1 DEF Start, Close, Usable, Closing, TypeOK
<1>2. CASE Stop(h)
  <2>1. PICK n : rc' = [rc EXCEPT ![h] = n]
    BY <1>2 DEF Stop, SetData, Install
  <2>2. phase[h] # "none" /\ phase' = [phase EXCEPT ![h] = IF phase[h] = "active" THEN "open" ELSE phase[h]]
    BY <1>2 DEF Stop, Usable, Closing
  <2> QED
    BY <2>1, <2>2 DEF TypeOK
<1>3. CASE New(h) \/ NewFails(h)
  BY <1>3 DEF New, NewFails, TypeOK
<1>4. CASE Dup(h) \/ Drop(h) \/ TakeParam(h) \/ HandleLoop(h) \/ Walk(h) \/ Return(h)
  <2>1. UNCHANGED phase
    BY <1>4 DEF Dup, Drop, TakeParam, HandleLoop, Walk, Return
  <2>2. rc' = rc \/ \E n : rc' = [rc EXCEPT ![h] = n]
    BY <1>4 DEF Dup, Drop, TakeParam, HandleLoop, Walk, Return, Install
  <2> QED
    BY <2>1, <2>2 DEF TypeOK
<1>5. CASE EventCb(h) \/ CloseCb(h)
  <2>1. rc' = [rc EXCEPT ![h] = rc[h] + 1] \/ rc' = [rc EXCEPT ![h] = rc[h] - 1]
    BY <1>5 DEF EventCb, CloseCb, Install
  <2>2. phase' = phase \/ phase' = [phase EXCEPT ![h] = "open"] \/ phase' = [phase EXCEPT ![h] = "closed"]
    BY <1>5 DEF EventCb, CloseCb
  <2>3. phase[h] # "none"
    BY <1>5 DEF EventCb, CloseCb
  <2> QED
    BY <2>1, <2>2, <2>3 DEF TypeOK
<1> QED
  BY <1>1, <1>2, <1>3, <1>4, <1>5 DEF UserStep, LoopStep

\* No step brings a freed handle back.
LEMMA NoReturn ==
  ASSUME ~AfterClose, IInv, IInv', NEW h \in Handles, UserStep(h) \/ LoopStep(h)
  PROVE  phase[h] = "none" \/ rc[h] > 0 \/ rc'[h] = rc[h]
<1> USE DEF IInv, CountsExact
<1>1. CASE Linked(h) \/ user[h] > 0 \/ (frame.on = h /\ frame.param = 1)
  BY <1>1, Reachable
<1>2. CASE ~(Linked(h) \/ user[h] > 0 \/ (frame.on = h /\ frame.param = 1))
  <2>1. user[h] = 0
    BY <1>2 DEF TypeOK
  <2>2. phase[h] = "none" \/ Return(h)
    BY <1>2, <2>1, HandleAssumption
    DEF UserStep, LoopStep, Dup, Drop, TakeParam, HandleLoop, Walk, New, NewFails, Start, Close,
        Stop, EventCb, CloseCb, Linked
  <2>3. CASE Return(h)
    <3>1. frame.param = 0 /\ (Captured(h, frame.cb) = 0 \/ rc[h] > 0)
      BY <1>2, <2>3 DEF Return, Captured, TypeOK, RcExact, Refs, One, Pointers, CrcExact
    <3>2. rc' = [rc EXCEPT ![h] = rc[h] - frame.param - Captured(h, frame.cb)]
      BY <2>3 DEF Return, Install
    <3> QED
      BY <3>1, <3>2 DEF TypeOK
  <2> QED
    BY <2>2, <2>3
<1> QED
  BY <1>1, <1>2

\* The glue's reference counts implement shared ownership of handles: a handle
\* is freed exactly when its last reference goes, and stays freed.
THEOREM Refinement ==
  ASSUME ~AfterClose
  PROVE  Spec => ImplementsShared
<1>1. Init => Shared!Init
  BY HandleAssumption DEF Init, Shared!Init, Refs, One, Linked, NoFrame
<1>2. IInv /\ IInv' /\ [Next]_vars => [Shared!Next]_(Shared!sharedVars)
  <2> SUFFICES ASSUME IInv, IInv', [Next]_vars PROVE [Shared!Next]_(Shared!sharedVars)
    OBVIOUS
  <2>1. ASSUME NEW h \in Handles, UserStep(h) \/ LoopStep(h)
        PROVE  [Shared!Next]_(Shared!sharedVars)
    <3>1. CASE phase[h] = "none" /\ UNCHANGED phase
      <4>1. rc[h] = 0 /\ rc'[h] = 0
        BY <3>1, Unborn DEF IInv, CountsExact, TypeOK, RcExact, Refs, One, Pointers, Linked
      <4> QED
        BY <2>1, <3>1, <4>1, OneHandle, StepOnHandle DEF IInv
    <3>2. CASE ~(phase[h] = "none" /\ UNCHANGED phase)
      BY <2>1, <3>2, OneHandle, NoReturn, StepOnHandle DEF IInv
    <3> QED
      BY <3>1, <3>2
  <2>2. CASE UNCHANGED <<phase, rc>>
    BY <2>2, StepElsewhere
  <2> QED
    BY <2>1, <2>2 DEF Next, DupLoop, DropLoop, StopLoop, RunReturns, Run, Terminated, vars
<1> QED
  BY <1>1, <1>2, Inductive, PTL DEF Spec, ImplementsShared, Shared!Spec
=============================================================================

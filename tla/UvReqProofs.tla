----------------------------- MODULE UvReqProofs -----------------------------
(***************************************************************************)
(* Proofs about UvReq: for any table of calls that IsCall describes, any   *)
(* number of requests and threads of the pool, what libuv will use of a    *)
(* request is there, nothing of libuv's is left over, and a request        *)
(* implements OneShot.  The table of uv.mbt's calls, UvCalls, is one that  *)
(* IsCall describes.                                                       *)
(***************************************************************************)
EXTENDS UvReq, FiniteSetTheorems, TLAPS

\* What ReqAssumption says of one function.
LEMMA CallFacts ==
  ASSUME NEW f \in Names
  PROVE  /\ f # None
         /\ Call[f].on \in {"pool", "handle"}
         /\ Call[f].starts \subseteq {"queued", "busy", "done"}
         /\ Call[f].on = "pool" => Call[f].starts = {"queued"}
         /\ Call[f].gives \/ Call[f].sync # "no" => Call[f].on = "pool"
         /\ Call[f].keeps \subseteq {"loop", "bufs"}
         /\ Call[f].moves \subseteq Call[f].keeps \cup {"closure"}
         /\ "loop" \notin Call[f].moves
         /\ Call[f].drops => "closure" \in Call[f].moves
         /\ Call[f].cancels => Call[f].on = "pool"
         /\ Kept(f) \subseteq {"loop", "bufs", "closure"} /\ "closure" \in Kept(f)
  BY ReqAssumption DEF IsCall, Kept

\* The initial state.
LEMMA ReqInvInit == Init => ReqInv
<1> SUFFICES ASSUME Init PROVE ReqInv
  OBVIOUS
<1>1. TypeOK
  <2>1. running \in BOOLEAN
    BY DEF Init
  <2> QED
    BY <2>1 DEF Init, TypeOK, Places, Outcomes, Fields, Memory
<1>2. RcExact
  BY DEF Init, RcExact, Pending, One
<1>3. LrcExact
  <2>1. KeepLoop = {}
    BY DEF Init, KeepLoop
  <2>2. ~running /\ lrc = 1 /\ luser = 1 /\ handle = "none"
    BY DEF Init
  <2> QED
    BY <2>1, <2>2, FS_EmptySet DEF LrcExact, One
<1>4. ASSUME NEW r \in Requests PROVE Held(r) /\ Turn(r) /\ LoopKept(r)
  BY ReqAssumption DEF Init, Held, Turn, LoopKept, InPool, Pending, Fields
<1>5. current # None => running
  BY DEF Init
<1> QED
  BY <1>1, <1>2, <1>3, <1>4, <1>5 DEF ReqInv

\* The requests that keep the loop are finitely many, before and after a step.
LEMMA KeepersNat ==
  /\ IsFiniteSet(KeepLoop) /\ Cardinality(KeepLoop) \in Nat
  /\ IsFiniteSet(KeepLoop') /\ Cardinality(KeepLoop') \in Nat
<1>1. KeepLoop \subseteq Requests /\ KeepLoop' \subseteq Requests
  BY DEF KeepLoop
<1> QED
  BY <1>1, ReqAssumption, FS_Subset, FS_CardinalityType

\* A step that touches one request adds it to those that keep the loop, takes
\* it away or leaves them.
LEMMA KeepersStep ==
  ASSUME NEW r \in Requests,
         \A q \in Requests \ {r} : points'[q] = points[q]
  PROVE  Cardinality(KeepLoop')
           = Cardinality(KeepLoop) + One("loop" \in points'[r]) - One("loop" \in points[r])
<1>0. Cardinality(KeepLoop) \in Nat /\ Cardinality(KeepLoop') \in Nat
  BY KeepersNat
<1>1. /\ KeepLoop \subseteq Requests /\ KeepLoop' \subseteq Requests
      /\ \A q \in Requests \ {r} : q \in KeepLoop' <=> q \in KeepLoop
      /\ r \in KeepLoop <=> "loop" \in points[r]
      /\ r \in KeepLoop' <=> "loop" \in points'[r]
  BY DEF KeepLoop
<1>2. CASE r \in KeepLoop' <=> r \in KeepLoop
  <2>1. KeepLoop' = KeepLoop
    BY <1>1, <1>2
  <2>2. One("loop" \in points'[r]) = One("loop" \in points[r])
    BY <1>1, <1>2 DEF One
  <2>3. One("loop" \in points[r]) \in Int
    BY DEF One
  <2>4. Cardinality(KeepLoop') = Cardinality(KeepLoop)
    BY <2>1
  <2> HIDE DEF One
  <2> QED
    BY <1>0, <2>2, <2>3, <2>4
<1>3. CASE r \in KeepLoop' /\ r \notin KeepLoop
  <2>1. KeepLoop' = KeepLoop \cup {r}
    BY <1>1, <1>3
  <2>2. Cardinality(KeepLoop') = Cardinality(KeepLoop) + 1
    BY <1>3, <2>1, KeepersNat, FS_AddElement
  <2> QED
    BY <1>0, <1>1, <1>3, <2>2 DEF One
<1>4. CASE r \notin KeepLoop' /\ r \in KeepLoop
  <2>1. KeepLoop' = KeepLoop \ {r}
    BY <1>1, <1>4
  <2>2. Cardinality(KeepLoop') = Cardinality(KeepLoop) - 1
    BY <1>4, <2>1, KeepersNat, FS_RemoveElement
  <2> QED
    BY <1>0, <1>1, <1>4, <2>2 DEF One
<1> QED
  BY <1>2, <1>3, <1>4

\* What ReqInv says of one request, types and the loop apart.
OkAt(r) ==
  /\ rc[r] = user[r] + One(Pending(r) \/ place[r] = "refused")
  /\ Held(r) /\ Turn(r) /\ LoopKept(r)

\* A step leaves a request alone.
Same(q) ==
  /\ fn'[q] = fn[q] /\ place'[q] = place[q] /\ outcome'[q] = outcome[q]
  /\ rc'[q] = rc[q] /\ user'[q] = user[q] /\ points'[q] = points[q]
  /\ count'[q] = count[q] /\ memory'[q] = memory[q]
  /\ current' = q <=> current = q

LEMMA ReqInvAt ==
  ASSUME ReqInv, NEW r \in Requests
  PROVE  OkAt(r)
BY DEF ReqInv, OkAt, RcExact

LEMMA SameOk ==
  ASSUME ReqInv, NEW q \in Requests, Same(q), luser' = luser
  PROVE  OkAt(q)'
<1>1. OkAt(q)
  BY ReqInvAt
<1>2. Pending(q)' <=> Pending(q)
  BY DEF Same, Pending
<1>3. rc'[q] = user'[q] + One(Pending(q)' \/ place'[q] = "refused")
  BY <1>1, <1>2 DEF Same, OkAt, One
<1>4. Held(q)'
  BY <1>1, <1>2 DEF Same, OkAt, Held
<1>5. Turn(q)'
  BY <1>1 DEF Same, OkAt, Turn
<1>6. LoopKept(q)'
  BY <1>1, <1>2 DEF Same, OkAt, LoopKept, InPool, OfHandle
<1> QED
  BY <1>3, <1>4, <1>5, <1>6 DEF OkAt

\* A step of one request, seen from that request alone.
LEMMA OneRequest ==
  ASSUME ReqInv, TypeOK', NEW r \in Requests, OkAt(r)',
         \A q \in Requests \ {r} : Same(q),
         luser' = luser, running' = running, handle' = handle, current' # None => running,
         lrc' = lrc + One("loop" \in points'[r]) - One("loop" \in points[r])
  PROVE  ReqInv'
<1>1. \A q \in Requests : OkAt(q)'
  BY SameOk
<1>2. RcExact'
  BY <1>1 DEF OkAt, RcExact
<1>3. \A q \in Requests : Held(q)' /\ Turn(q)' /\ LoopKept(q)'
  BY <1>1 DEF OkAt
<1>4. LrcExact'
  <2>2. Cardinality(KeepLoop')
          = Cardinality(KeepLoop) + One("loop" \in points'[r]) - One("loop" \in points[r])
    BY KeepersStep DEF Same
  <2>3. lrc = luser + One(running) + One(handle \in {"open", "closing"}) + Cardinality(KeepLoop)
    BY DEF ReqInv, LrcExact
  <2>4. One(running') = One(running)
        /\ One(handle' \in {"open", "closing"}) = One(handle \in {"open", "closing"})
    OBVIOUS
  <2>5. /\ One(running) \in Int /\ One(handle \in {"open", "closing"}) \in Int
        /\ One("loop" \in points'[r]) \in Int /\ One("loop" \in points[r]) \in Int
    BY DEF One
  <2>6. luser \in Int
    BY DEF ReqInv, TypeOK
  <2>7. lrc' = luser' + One(running') + One(handle' \in {"open", "closing"}) + Cardinality(KeepLoop')
    <3> HIDE DEF One
    <3> QED
      BY <2>2, <2>3, <2>4, <2>5, <2>6, KeepersNat
  <2> QED
    BY <2>7 DEF LrcExact
<1>5. current' # None => running'
  OBVIOUS
<1> QED
  BY <1>2, <1>3, <1>4, <1>5 DEF ReqInv

\* What Settle does, if what the fields lead to is counted.
LEMMA SettleAt ==
  ASSUME TypeOK, NEW r \in Requests, NEW n \in Int, NEW p, UNCHANGED fn, fn[r] \in Names,
         Settle(r, n, p, count[r], lrc),
         n = 0 /\ Call[fn[r]].drops => \A x \in Fields : x \in p => count[r][x] = 1
  PROVE  /\ rc' = [rc EXCEPT ![r] = n]
         /\ n = 0 /\ Call[fn[r]].drops => points' = [points EXCEPT ![r] = {}]
         /\ ~(n = 0 /\ Call[fn[r]].drops) => points' = [points EXCEPT ![r] = p]
         /\ count' \in [Requests -> [Fields -> {0, 1}]]
         /\ \A q \in Requests \ {r} : count'[q] = count[q]
         /\ n = 0 /\ Call[fn[r]].drops =>
              \A x \in Fields : count'[r][x] = count[r][x] - One(x \in p)
         /\ ~(n = 0 /\ Call[fn[r]].drops) => \A x \in Fields : count'[r][x] = count[r][x]
         /\ n = 0 /\ Call[fn[r]].drops => lrc' = lrc - One("loop" \in p)
         /\ ~(n = 0 /\ Call[fn[r]].drops) => lrc' = lrc
<1> DEFINE dropped == IF n = 0 /\ Call[fn'[r]].drops THEN p ELSE {}
<1>1. /\ rc' = [rc EXCEPT ![r] = n]
      /\ points' = [points EXCEPT ![r] = p \ dropped]
      /\ count' = [count EXCEPT ![r] = [x \in Fields |-> count[r][x] - One(x \in dropped)]]
      /\ lrc' = lrc - One("loop" \in dropped)
  BY DEF Settle
<1>2. CASE n = 0 /\ Call[fn[r]].drops
  <2>1. dropped = p
    BY <1>2
  <2>2. [x \in Fields |-> count[r][x] - One(x \in p)] \in [Fields -> {0, 1}]
    BY <1>2 DEF TypeOK, One
  <2>3. count' \in [Requests -> [Fields -> {0, 1}]]
    BY <1>1, <2>1, <2>2 DEF TypeOK
  <2>4. \A q \in Requests \ {r} : count'[q] = count[q]
    BY <1>1 DEF TypeOK
  <2>5. count'[r] = [x \in Fields |-> count[r][x] - One(x \in p)]
    BY <1>1, <2>1 DEF TypeOK
  <2>6. points' = [points EXCEPT ![r] = {}] /\ lrc' = lrc - One("loop" \in p)
    BY <1>1, <2>1
  <2> QED
    BY <1>1, <1>2, <2>3, <2>4, <2>5, <2>6
<1>3. CASE ~(n = 0 /\ Call[fn[r]].drops)
  <2>1. dropped = {}
    BY <1>3
  <2>2. /\ points' = [points EXCEPT ![r] = p]
    BY <1>1, <2>1
  <2>3. \A x \in Fields : count[r][x] \in {0, 1} /\ count[r][x] - One(x \in {}) = count[r][x]
    BY DEF TypeOK, One
  <2>4. [x \in Fields |-> count[r][x] - One(x \in {})] = count[r]
    BY <2>3 DEF TypeOK
  <2>5. count' = count
    BY <1>1, <2>1, <2>4 DEF TypeOK
  <2>6. lrc' = lrc
    BY <1>1, <2>1 DEF TypeOK, One
  <2> QED
    BY <1>1, <1>3, <2>2, <2>5, <2>6 DEF TypeOK
<1> QED
  BY <1>2, <1>3

\* What the types say of one request.
LEMMA Typed ==
  ASSUME TypeOK, NEW r \in Requests
  PROVE  /\ rc[r] \in Nat /\ user[r] \in Nat /\ lrc \in Int
         /\ points[r] \subseteq {"closure", "bufs", "loop"}
         /\ count[r] \in [Fields -> {0, 1}]
         /\ count[r].closure \in {0, 1} /\ count[r].bufs \in {0, 1}
         /\ fn[r] \in Names \cup {None} /\ place[r] \in Places
BY DEF TypeOK, Fields

LEMMA SubmitStep ==
  ASSUME ReqInv, NEW r \in Requests, NEW f \in Names, Submit(r, f)
  PROVE  ReqInv'
<1>0. TypeOK /\ OkAt(r) /\ place[r] = "new"
  BY ReqInvAt DEF ReqInv, Submit
<1>1. PICK p \in Call[f].starts : Accept(r, f, p)
  BY DEF Submit
<1>p. p \in {"queued", "busy", "done"} /\ (Call[f].on = "pool" => p = "queued")
  BY CallFacts
<1>o. PICK o \in Outcomes : outcome' = [outcome EXCEPT ![r] = IF p = "done" THEN o ELSE @]
  BY <1>1 DEF Accept
<1>2. /\ fn' = [fn EXCEPT ![r] = f]
      /\ place' = [place EXCEPT ![r] = p]
      /\ user' = [user EXCEPT ![r] = 1]
      /\ rc' = [rc EXCEPT ![r] = 2]
      /\ points' = [points EXCEPT ![r] = Kept(f)]
      /\ count' = [count EXCEPT ![r] = [x \in Fields |-> One(x \in Kept(f))]]
      /\ memory' = [memory EXCEPT ![r] = IF Call[f].copies THEN {"path"} ELSE {}]
      /\ lrc' = lrc + One("loop" \in Kept(f))
      /\ Call[f].on = "pool" => luser = 1
      /\ UNCHANGED <<luser, running, current, handle>>
  BY <1>1 DEF Submit, Accept
<1>3. TypeOK'
  <2>1. count' \in [Requests -> [Fields -> {0, 1}]]
    BY <1>0, <1>2 DEF TypeOK, One
  <2>2. memory' \in [Requests -> SUBSET Memory]
    BY <1>0, <1>2 DEF TypeOK, Memory
  <2>3. lrc' \in Int
    BY <1>0, <1>2 DEF TypeOK, One
  <2>4. points' \in [Requests -> SUBSET (Fields \cup {"loop"})]
    BY <1>0, <1>2, CallFacts DEF TypeOK, Fields
  <2>5. place' \in [Requests -> Places]
    BY <1>0, <1>2, <1>p DEF TypeOK, Places
  <2>6. outcome' \in [Requests -> Outcomes \cup {"none"}]
    BY <1>0, <1>o DEF TypeOK
  <2> QED
    BY <1>0, <1>2, <2>1, <2>2, <2>3, <2>4, <2>5, <2>6 DEF TypeOK
<1>4. /\ fn'[r] = f /\ place'[r] = p /\ (p = "done" => outcome'[r] \in Outcomes) /\ user'[r] = 1 /\ rc'[r] = 2
      /\ points'[r] = Kept(f) /\ \A x \in Fields : count'[r][x] = One(x \in Kept(f))
  BY <1>0, <1>2, <1>o DEF TypeOK
<1>5. OkAt(r)'
  <2>1. rc'[r] = user'[r] + One(Pending(r)' \/ place'[r] = "refused")
    BY <1>4, <1>p DEF Pending, One
  <2>2. Held(r)' 
    BY <1>4, <1>p DEF Held, Pending
  <2>3. Turn(r)'
    BY <1>0, <1>2, <1>4, <1>p DEF OkAt, Turn
  <2>4. LoopKept(r)'
    BY <1>2, <1>4, CallFacts DEF LoopKept, InPool, OfHandle
  <2> QED
    BY <2>1, <2>2, <2>3, <2>4 DEF OkAt
<1>6. \A q \in Requests \ {r} : Same(q)
  BY <1>0, <1>2, <1>o DEF TypeOK, Same
<1>7. lrc' = lrc + One("loop" \in points'[r]) - One("loop" \in points[r])
  <2>1. points[r] = {} /\ lrc \in Int
    BY <1>0 DEF OkAt, Held, TypeOK
  <2> QED
    BY <1>2, <1>4, <2>1 DEF One
<1>8. current' # None => running
  BY <1>2 DEF ReqInv
<1> QED
  BY <1>2, <1>3, <1>5, <1>6, <1>7, <1>8, OneRequest

LEMMA SubmitRefusedStep ==
  ASSUME ReqInv, NEW r \in Requests, NEW f \in Names, SubmitRefused(r, f)
  PROVE  ReqInv'
<1>0. TypeOK /\ OkAt(r) /\ place[r] = "new"
  BY ReqInvAt DEF ReqInv, SubmitRefused
<1>1. /\ fn' = [fn EXCEPT ![r] = f]
      /\ place' = [place EXCEPT ![r] = "refused"]
      /\ rc' = [rc EXCEPT ![r] = 1]
      /\ points' = [points EXCEPT ![r] = Kept(f)]
      /\ count' = [count EXCEPT ![r] = [x \in Fields |-> One(x \in Kept(f))]]
      /\ lrc' = lrc + One("loop" \in Kept(f))
      /\ UNCHANGED <<outcome, user, memory, luser, running, current, handle>>
  BY DEF SubmitRefused
<1>2. TypeOK'
  <2>1. count' \in [Requests -> [Fields -> {0, 1}]]
    BY <1>0, <1>1 DEF TypeOK, One
  <2>3. lrc' \in Int
    BY <1>0, <1>1 DEF TypeOK, One
  <2>4. points' \in [Requests -> SUBSET (Fields \cup {"loop"})]
    BY <1>0, <1>1, CallFacts DEF TypeOK, Fields
  <2>5. place' \in [Requests -> Places]
    BY <1>0, <1>1 DEF TypeOK, Places
  <2> QED
    BY <1>0, <1>1, <2>1, <2>3, <2>4, <2>5 DEF TypeOK
<1>3. /\ fn'[r] = f /\ place'[r] = "refused" /\ user'[r] = 0 /\ rc'[r] = 1
      /\ points'[r] = Kept(f) /\ \A x \in Fields : count'[r][x] = One(x \in Kept(f))
  BY <1>0, <1>1 DEF TypeOK, OkAt, Held
<1>4. OkAt(r)'
  <2>1. rc'[r] = user'[r] + One(Pending(r)' \/ place'[r] = "refused")
    BY <1>3 DEF Pending, One
  <2>2. Held(r)'
    BY <1>3 DEF Held, Pending
  <2>3. Turn(r)'
    BY <1>0, <1>1, <1>3 DEF OkAt, Turn
  <2>4. LoopKept(r)'
    BY <1>3 DEF LoopKept, InPool, Pending
  <2> QED
    BY <2>1, <2>2, <2>3, <2>4 DEF OkAt
<1>5. \A q \in Requests \ {r} : Same(q)
  BY <1>0, <1>1 DEF TypeOK, Same
<1>6. lrc' = lrc + One("loop" \in points'[r]) - One("loop" \in points[r])
  <2>1. points[r] = {} /\ lrc \in Int
    BY <1>0 DEF OkAt, Held, TypeOK
  <2> QED
    BY <1>1, <1>3, <2>1 DEF One
<1>7. current' # None => running
  BY <1>1 DEF ReqInv
<1> QED
  BY <1>1, <1>2, <1>4, <1>5, <1>6, <1>7, OneRequest

\* A reference of the program goes, and nothing else of the request but that
\* it may be cancelled: what the request leads to stays in place.
LEMMA DecrefStep ==
  ASSUME ReqInv, NEW r \in Requests, user[r] > 0, Decref(r),
         user' = [user EXCEPT ![r] = @ - 1],
         \/ place' = place
         \/ /\ place[r] = "queued" /\ place' = [place EXCEPT ![r] = "cancelled"],
         UNCHANGED <<fn, outcome, memory, luser, running, current, handle>>
  PROVE  ReqInv'
<1>0. TypeOK /\ OkAt(r)
  BY ReqInvAt DEF ReqInv
<1>1. /\ rc[r] \in Nat /\ user[r] \in Nat /\ lrc \in Int
      /\ count[r].closure \in {0, 1} /\ count[r].bufs \in {0, 1}
      /\ place[r] \in Places
  BY <1>0, Typed
<1>2. /\ place[r] \notin {"new", "refused"} /\ fn[r] \in Names
      /\ place'[r] \notin {"new", "refused"}
      /\ Pending(r) => rc[r] > 1
      /\ rc[r] - 1 \in Nat
      /\ Pending(r)' <=> Pending(r)
      /\ ~Pending(r) => place[r] \in {"told", "over"} /\ place' = place
  BY <1>0, <1>1 DEF OkAt, Held, Turn, Pending, One, TypeOK, Places
<1>3. rc[r] - 1 = 0 /\ Call[fn[r]].drops =>
        /\ \A x \in Fields : x \in points[r] => count[r][x] = 1
        /\ "closure" \notin points[r]
  BY <1>0, <1>2 DEF OkAt, Held, Fields, One
<1>4. /\ rc' = [rc EXCEPT ![r] = rc[r] - 1]
      /\ rc[r] - 1 = 0 /\ Call[fn[r]].drops => points' = [points EXCEPT ![r] = {}]
      /\ ~(rc[r] - 1 = 0 /\ Call[fn[r]].drops) => points' = [points EXCEPT ![r] = points[r]]
      /\ count' \in [Requests -> [Fields -> {0, 1}]]
      /\ \A q \in Requests \ {r} : count'[q] = count[q]
      /\ rc[r] - 1 = 0 /\ Call[fn[r]].drops =>
           \A x \in Fields : count'[r][x] = count[r][x] - One(x \in points[r])
      /\ ~(rc[r] - 1 = 0 /\ Call[fn[r]].drops) => \A x \in Fields : count'[r][x] = count[r][x]
      /\ rc[r] - 1 = 0 /\ Call[fn[r]].drops => lrc' = lrc - One("loop" \in points[r])
      /\ ~(rc[r] - 1 = 0 /\ Call[fn[r]].drops) => lrc' = lrc
  <2>1. Settle(r, rc[r] - 1, points[r], count[r], lrc)
    BY DEF Decref
  <2>2. rc[r] - 1 \in Int
    BY <1>2
  <2>3. rc[r] - 1 = 0 /\ Call[fn[r]].drops => \A x \in Fields : x \in points[r] => count[r][x] = 1
    BY <1>3
  <2> QED
    BY <1>0, <1>2, <2>1, <2>2, <2>3, SettleAt
<1>5. /\ rc'[r] = rc[r] - 1 /\ user'[r] = user[r] - 1
      /\ place'[r] = place[r] \/ (Pending(r) /\ place'[r] = "cancelled")
  BY <1>0, <1>2, <1>4 DEF TypeOK, Pending
<1>6. \/ /\ rc'[r] = 0 /\ Call[fn[r]].drops /\ ~Pending(r)
         /\ points'[r] = {} /\ "closure" \notin points[r]
         /\ count'[r].closure = count[r].closure
         /\ count'[r].bufs = count[r].bufs - One("bufs" \in points[r])
      \/ /\ ~(rc'[r] = 0 /\ Call[fn[r]].drops)
         /\ points'[r] = points[r] /\ \A x \in Fields : count'[r][x] = count[r][x]
         /\ count'[r].closure = count[r].closure /\ count'[r].bufs = count[r].bufs
  <2>1. CASE rc[r] - 1 = 0 /\ Call[fn[r]].drops
    <3>1. points'[r] = {} /\ ~Pending(r)
      BY <1>0, <1>2, <1>4, <2>1 DEF TypeOK
    <3>2. count'[r].closure = count[r].closure - One("closure" \in points[r])
          /\ count'[r].bufs = count[r].bufs - One("bufs" \in points[r])
      BY <1>4, <2>1 DEF Fields
    <3>3. count'[r].closure = count[r].closure
      BY <1>1, <1>3, <2>1, <3>2 DEF One
    <3> QED
      BY <1>3, <1>5, <2>1, <3>1, <3>2, <3>3
  <2>2. CASE ~(rc[r] - 1 = 0 /\ Call[fn[r]].drops)
    BY <1>0, <1>4, <1>5, <2>2 DEF TypeOK, Fields
  <2> QED
    BY <2>1, <2>2
<1>7. TypeOK'
  <2>1. rc' \in [Requests -> Nat] /\ user' \in [Requests -> Nat]
    BY <1>0, <1>1, <1>2, <1>4 DEF TypeOK
  <2>2. place' \in [Requests -> Places]
    BY <1>0 DEF TypeOK, Places
  <2>3. points' \in [Requests -> SUBSET (Fields \cup {"loop"})]
    BY <1>0, <1>4 DEF TypeOK
  <2>4. lrc' \in Int
    BY <1>1, <1>4 DEF One
  <2> QED
    BY <1>0, <1>4, <2>1, <2>2, <2>3, <2>4 DEF TypeOK
<1>8. OkAt(r)'
  <2>1. rc'[r] = user'[r] + One(Pending(r)' \/ place'[r] = "refused")
    BY <1>0, <1>1, <1>2, <1>5 DEF OkAt, One
  <2>2. Held(r)'
    <3>1. CASE Pending(r)
      <4>1. /\ points'[r] = points[r] /\ \A x \in Fields : count'[r][x] = count[r][x]
        BY <1>6, <3>1
      <4>2. /\ points[r] = Kept(fn[r])
            /\ \A x \in Fields : count[r][x] = One(x \in Kept(fn[r]))
        BY <1>0, <3>1 DEF OkAt, Held
      <4>3. place'[r] \notin {"new", "told", "over"}
        BY <1>2, <3>1 DEF Pending
      <4> QED
        BY <1>2, <4>1, <4>2, <4>3 DEF Held
    <3>2. CASE ~Pending(r)
      <4>1. place'[r] = place[r] /\ place[r] \in {"told", "over"} /\ ~Pending(r)'
        BY <1>2, <3>2
      <4>2. CASE points'[r] = {}
        <5>1. CASE rc'[r] = 0 /\ Call[fn[r]].drops
          BY <1>0, <1>1, <1>2, <1>6, <4>1, <4>2, <5>1 DEF OkAt, Held, Pending, One
        <5>2. CASE ~(rc'[r] = 0 /\ Call[fn[r]].drops)
          BY <1>0, <1>2, <1>6, <4>1, <4>2, <5>2 DEF OkAt, Held, Pending
        <5> QED
          BY <5>1, <5>2
      <4>3. CASE points'[r] # {}
        BY <1>0, <1>2, <1>6, <4>1, <4>3 DEF OkAt, Held, Pending
      <4> QED
        BY <4>2, <4>3
    <3> QED
      BY <3>1, <3>2
  <2>3. Turn(r)'
    BY <1>0, <1>2, <1>5 DEF OkAt, Turn, Pending
  <2>4. LoopKept(r)'
    BY <1>0, <1>2 DEF OkAt, LoopKept, InPool, OfHandle
  <2> QED
    BY <2>1, <2>2, <2>3, <2>4 DEF OkAt
<1>9. \A q \in Requests \ {r} : Same(q)
  BY <1>0, <1>4 DEF TypeOK, Same
<1>10. lrc' = lrc + One("loop" \in points'[r]) - One("loop" \in points[r])
  <2>1. CASE rc[r] - 1 = 0 /\ Call[fn[r]].drops
    BY <1>0, <1>1, <1>4, <2>1 DEF One, TypeOK
  <2>2. CASE ~(rc[r] - 1 = 0 /\ Call[fn[r]].drops)
    BY <1>0, <1>1, <1>4, <2>2 DEF One, TypeOK
  <2> QED
    BY <2>1, <2>2
<1>11. current' # None => running
  BY DEF ReqInv
<1> QED
  BY <1>7, <1>8, <1>9, <1>10, <1>11, OneRequest

LEMMA DropStep ==
  ASSUME ReqInv, NEW r \in Requests, Drop(r)
  PROVE  ReqInv'
BY DecrefStep DEF Drop

LEMMA CancelStep ==
  ASSUME ReqInv, NEW r \in Requests, Cancel(r)
  PROVE  ReqInv'
<1>1. place' = place \/ (place[r] = "queued" /\ place' = [place EXCEPT ![r] = "cancelled"])
  BY DEF Cancel, ReqInv, TypeOK
<1> QED
  BY <1>1, DecrefStep DEF Cancel

LEMMA DupStep ==
  ASSUME ReqInv, NEW r \in Requests, Dup(r)
  PROVE  ReqInv'
<1>0. TypeOK /\ OkAt(r)
  BY ReqInvAt DEF ReqInv
<1>1. /\ user[r] > 0
      /\ user' = [user EXCEPT ![r] = @ + 1] /\ rc' = [rc EXCEPT ![r] = @ + 1]
      /\ UNCHANGED <<fn, place, outcome, points, count, memory, lrc, luser, running, current, handle>>
  <2>1. user[r] > 0
    BY ReqAssumption DEF Dup
  <2> QED
    BY <2>1 DEF Dup, loopVars
<1>2. rc[r] \in Nat /\ user[r] \in Nat /\ lrc \in Int
  BY <1>0, Typed
<1>3. TypeOK'
  BY <1>0, <1>1, <1>2 DEF TypeOK
<1>4. rc'[r] = rc[r] + 1 /\ user'[r] = user[r] + 1 /\ Pending(r)' = Pending(r)
  BY <1>0, <1>1 DEF TypeOK, Pending
<1>5. OkAt(r)'
  <2>1. rc'[r] = user'[r] + One(Pending(r)' \/ place'[r] = "refused")
    BY <1>0, <1>1, <1>2, <1>4 DEF OkAt, One
  <2>2. Held(r)'
    BY <1>0, <1>1, <1>2, <1>4 DEF OkAt, Held, Pending
  <2>3. Turn(r)'
    BY <1>0, <1>1, <1>4 DEF OkAt, Turn
  <2>4. LoopKept(r)'
    BY <1>0, <1>1 DEF OkAt, LoopKept, InPool, OfHandle, Pending
  <2> QED
    BY <2>1, <2>2, <2>3, <2>4 DEF OkAt
<1>6. \A q \in Requests \ {r} : Same(q)
  BY <1>0, <1>1 DEF TypeOK, Same
<1>7. lrc' = lrc + One("loop" \in points'[r]) - One("loop" \in points[r])
  BY <1>1, <1>2 DEF One
<1> QED
  BY <1>1, <1>3, <1>5, <1>6, <1>7, OneRequest DEF ReqInv

LEMMA CallSyncStep ==
  ASSUME ReqInv, NEW r \in Requests, NEW f \in Names, NEW o \in Outcomes, CallSync(r, f, o)
  PROVE  ReqInv'
<1> DEFINE made == (IF Call[f].sync = "copied" THEN {"path"} ELSE {})
                     \cup (IF Call[f].gives /\ o = "ok" THEN {"result"} ELSE {})
           left == IF o \in Call[f].tidies THEN {} ELSE made
           keeps == "result" \in left
<1>0. TypeOK /\ OkAt(r) /\ place[r] = "new"
  BY ReqInvAt DEF ReqInv, CallSync
<1>1. /\ fn' = [fn EXCEPT ![r] = f]
      /\ place' = [place EXCEPT ![r] = "over"]
      /\ outcome' = [outcome EXCEPT ![r] = o]
      /\ memory' = [memory EXCEPT ![r] = left]
      /\ user' = [user EXCEPT ![r] = One(keeps)]
      /\ rc' = [rc EXCEPT ![r] = One(keeps)]
      /\ points' = [points EXCEPT ![r] = IF keeps THEN {"loop"} ELSE {}]
      /\ lrc' = lrc + One(keeps)
      /\ UNCHANGED <<count, luser, running, current, handle>>
  BY DEF CallSync
<1>2. left \subseteq Memory
  BY DEF Memory
<1>3. \/ One(keeps) = 1 /\ (IF keeps THEN {"loop"} ELSE {}) = {"loop"}
      \/ One(keeps) = 0 /\ (IF keeps THEN {"loop"} ELSE {}) = {}
  BY DEF One
<1> HIDE DEF made, left, keeps
<1>4. PICK k \in {0, 1}, loops \in {{"loop"}, {}} :
        /\ k = 1 <=> loops = {"loop"}
        /\ user' = [user EXCEPT ![r] = k]
        /\ rc' = [rc EXCEPT ![r] = k]
        /\ points' = [points EXCEPT ![r] = loops]
        /\ lrc' = lrc + k
  <2>1. CASE One(keeps) = 1 /\ (IF keeps THEN {"loop"} ELSE {}) = {"loop"}
    <3>1. /\ user' = [user EXCEPT ![r] = 1] /\ rc' = [rc EXCEPT ![r] = 1]
          /\ points' = [points EXCEPT ![r] = {"loop"}] /\ lrc' = lrc + 1
      BY <1>1, <2>1
    <3> QED
      BY <3>1
  <2>2. CASE One(keeps) = 0 /\ (IF keeps THEN {"loop"} ELSE {}) = {}
    <3>1. /\ user' = [user EXCEPT ![r] = 0] /\ rc' = [rc EXCEPT ![r] = 0]
          /\ points' = [points EXCEPT ![r] = {}] /\ lrc' = lrc + 0
      BY <1>1, <2>2
    <3> QED
      BY <3>1
  <2> QED
    BY <1>3, <2>1, <2>2
<1>5. TypeOK'
  <2>1. lrc' \in Int
    BY <1>0, <1>4 DEF TypeOK
  <2>2. place' \in [Requests -> Places] /\ memory' \in [Requests -> SUBSET Memory]
    BY <1>0, <1>1, <1>2 DEF TypeOK, Places
  <2>3. points' \in [Requests -> SUBSET (Fields \cup {"loop"})]
    BY <1>0, <1>4 DEF TypeOK
  <2>4. user' \in [Requests -> Nat] /\ rc' \in [Requests -> Nat]
    BY <1>0, <1>4 DEF TypeOK
  <2> QED
    BY <1>0, <1>1, <2>1, <2>2, <2>3, <2>4 DEF TypeOK
<1>6. /\ fn'[r] = f /\ place'[r] = "over" /\ user'[r] = k /\ rc'[r] = k
      /\ points'[r] = loops
      /\ count'[r].closure = 0 /\ count'[r].bufs = 0
  BY <1>0, <1>1, <1>4 DEF TypeOK, OkAt, Held, Fields
<1>7. OkAt(r)'
  <2>1. rc'[r] = user'[r] + One(Pending(r)' \/ place'[r] = "refused")
    BY <1>6 DEF Pending, One
  <2>2. Held(r)'
    <3>1. k = 0 => loops = {}
      BY <1>4
    <3>2. loops \subseteq {"loop"} /\ "closure" \notin loops /\ "bufs" \notin loops
      OBVIOUS
    <3> QED
      BY <1>6, <3>1, <3>2 DEF Held, Pending, One
  <2>3. Turn(r)'
    BY <1>0, <1>1, <1>6 DEF OkAt, Turn
  <2>4. LoopKept(r)'
    BY <1>6 DEF LoopKept, InPool, Pending
  <2> QED
    BY <2>1, <2>2, <2>3, <2>4 DEF OkAt
<1>8. \A q \in Requests \ {r} : Same(q)
  BY <1>0, <1>1, <1>4 DEF TypeOK, Same
<1>9. lrc' = lrc + One("loop" \in points'[r]) - One("loop" \in points[r])
  <2>1. points[r] = {} /\ lrc \in Int
    BY <1>0 DEF OkAt, Held, TypeOK
  <2> QED
    BY <1>4, <1>6, <2>1 DEF One
<1> QED
  BY <1>1, <1>5, <1>7, <1>8, <1>9, OneRequest DEF ReqInv

\* Steps that leave the counts of a request and what it leads to alone, and do
\* not make it new, refused or told.
LEMMA PlaceStep ==
  ASSUME ReqInv, NEW r \in Requests, TypeOK',
         UNCHANGED <<fn, rc, user, points, count, lrc, luser, running, current, handle>>,
         \A q \in Requests \ {r} :
           place'[q] = place[q] /\ outcome'[q] = outcome[q] /\ memory'[q] = memory[q],
         \/ place'[r] = place[r] /\ place[r] # "new" /\ outcome'[r] = outcome[r]
         \/ Pending(r) /\ Pending(r)' /\ (place'[r] = "done" => outcome'[r] \in Outcomes)
  PROVE  ReqInv'
<1>1. TypeOK /\ OkAt(r)
  BY ReqInvAt DEF ReqInv
<1>2. Pending(r)' <=> Pending(r)
  BY DEF Pending
<1>3. OkAt(r)'
  <2>1. rc'[r] = user'[r] + One(Pending(r)' \/ place'[r] = "refused")
    BY <1>1, <1>2 DEF OkAt, One, Pending
  <2>2. Held(r)'
    BY <1>1, <1>2 DEF OkAt, Held, Pending
  <2>3. Turn(r)'
    BY <1>1 DEF OkAt, Turn, Pending
  <2>4. LoopKept(r)'
    BY <1>1, <1>2 DEF OkAt, LoopKept, InPool, OfHandle
  <2> QED
    BY <2>1, <2>2, <2>3, <2>4 DEF OkAt
<1>4. \A q \in Requests \ {r} : Same(q)
  BY DEF Same
<1>5. lrc' = lrc + One("loop" \in points'[r]) - One("loop" \in points[r])
  BY <1>1 DEF One, TypeOK
<1> QED
  BY <1>3, <1>4, <1>5, OneRequest DEF ReqInv

LEMMA ScandirNextStep ==
  ASSUME ReqInv, NEW r \in Requests, ScandirNext(r)
  PROVE  ReqInv'
<1>1. /\ place[r] # "new"
      /\ memory' = [memory EXCEPT ![r] = {}] \/ memory' = memory
      /\ UNCHANGED <<fn, place, outcome, rc, user, points, count, lrc, luser, running, current, handle>>
  BY DEF ScandirNext, Listing, loopVars
<1>2. TypeOK'
  BY <1>1 DEF ReqInv, TypeOK
<1>3. \A q \in Requests \ {r} : memory'[q] = memory[q]
  BY <1>1 DEF ReqInv, TypeOK
<1> QED
  BY <1>1, <1>2, <1>3, PlaceStep

LEMMA TakeStep ==
  ASSUME ReqInv, NEW r \in Requests, Take(r)
  PROVE  ReqInv'
<1>0. TypeOK
  BY DEF ReqInv
<1>1. /\ place[r] = "queued"
      /\ place' = [place EXCEPT ![r] = "busy"]
      /\ UNCHANGED <<fn, outcome, rc, user, points, count, memory, lrc, luser, running, current, handle>>
  BY DEF Take, loopVars
<1>2. TypeOK'
  <2>1. place' \in [Requests -> Places]
    BY <1>0, <1>1 DEF TypeOK, Places
  <2> QED
    BY <1>0, <1>1, <2>1 DEF TypeOK
<1>3. /\ \A q \in Requests \ {r} : place'[q] = place[q]
      /\ place'[r] = "busy" /\ Pending(r) /\ Pending(r)'
  BY <1>0, <1>1 DEF TypeOK, Pending
<1> QED
  BY <1>1, <1>2, <1>3, PlaceStep

LEMMA FinishStep ==
  ASSUME ReqInv, NEW r \in Requests, NEW o \in Outcomes, Finish(r, o)
  PROVE  ReqInv'
<1>0. TypeOK
  BY DEF ReqInv
<1>1. /\ place[r] = "busy"
      /\ place' = [place EXCEPT ![r] = "done"]
      /\ outcome' = [outcome EXCEPT ![r] = o]
      /\ \A q \in Requests \ {r} : memory'[q] = memory[q]
      /\ memory' \in [Requests -> SUBSET Memory]
      /\ UNCHANGED <<fn, rc, user, points, count, lrc, luser, running, current, handle>>
  BY <1>0 DEF Finish, loopVars, TypeOK, Memory
<1>2. TypeOK'
  <2>1. outcome' \in [Requests -> Outcomes \cup {"none"}] /\ place' \in [Requests -> Places]
    BY <1>0, <1>1 DEF TypeOK, Places
  <2> QED
    BY <1>0, <1>1, <2>1 DEF TypeOK
<1>3. /\ \A q \in Requests \ {r} : place'[q] = place[q] /\ outcome'[q] = outcome[q]
      /\ Pending(r) /\ Pending(r)' /\ (place'[r] = "done" => outcome'[r] \in Outcomes)
  BY <1>0, <1>1 DEF TypeOK, Pending
<1> QED
  BY <1>1, <1>2, <1>3, PlaceStep

LEMMA AnswerStep ==
  ASSUME ReqInv, NEW r \in Requests, Answer(r)
  PROVE  ReqInv'
<1> DEFINE call == Call[fn[r]]
           o == IF place[r] = "cancelled" THEN "error" ELSE outcome[r]
           left == IF o \in call.cleans THEN {} ELSE memory[r]
           handsOn == "result" \in left
           moves == Call[fn[r]].moves
<1>0. TypeOK /\ OkAt(r)
  BY ReqInvAt DEF ReqInv
<1>1. /\ running /\ current = None
      /\ place[r] \in {"done", "cancelled"}
      /\ place' = [place EXCEPT ![r] = "told"]
      /\ outcome' = [outcome EXCEPT ![r] = o]
      /\ memory' = [memory EXCEPT ![r] = left]
      /\ user' = [user EXCEPT ![r] = @ + One(handsOn)]
      /\ UNCHANGED fn
      /\ Settle(r, rc[r] - One(~handsOn), points[r] \ moves, count[r], lrc)
      /\ current' = r
      /\ UNCHANGED <<luser, running, handle>>
  BY DEF Answer, LoopTurn
<1>2. /\ left \subseteq Memory /\ o \in Outcomes \cup {"none"}
  BY <1>0 DEF TypeOK, Outcomes
<1>3. One(~handsOn) = 1 - One(handsOn) /\ One(handsOn) \in {0, 1}
  BY DEF One
<1> HIDE DEF call, o, left, handsOn
<1>4. PICK h \in {0, 1} :
        /\ user' = [user EXCEPT ![r] = @ + h]
        /\ rc[r] - One(~handsOn) = rc[r] - 1 + h
  <2>1. rc[r] \in Nat
    BY <1>0, Typed
  <2>2. user' = [user EXCEPT ![r] = @ + One(handsOn)]
    BY <1>1
  <2>3. rc[r] - One(~handsOn) = rc[r] - 1 + One(handsOn)
    <3> HIDE DEF One
    <3> QED
      BY <1>3, <2>1
  <2> QED
    BY <1>3, <2>2, <2>3
<1>5. /\ rc[r] \in Nat /\ user[r] \in Nat /\ lrc \in Int
      /\ fn[r] \in Names /\ Pending(r) /\ rc[r] = user[r] + 1
      /\ points[r] = Kept(fn[r])
      /\ \A x \in Fields : count[r][x] = One(x \in Kept(fn[r]))
  BY <1>0, <1>1, Typed DEF OkAt, Held, Pending, One
<1>6. /\ moves \subseteq Kept(fn[r]) /\ "loop" \notin moves
      /\ call.drops => "closure" \in moves
      /\ "closure" \in Kept(fn[r])
      /\ Kept(fn[r]) \subseteq {"loop", "bufs", "closure"}
  BY <1>5, CallFacts DEF Kept, call
<1> DEFINE n == user[r] + h
           kept == Kept(fn[r]) \ moves
<1>7. /\ rc' = [rc EXCEPT ![r] = n]
      /\ n = 0 /\ Call[fn[r]].drops => points' = [points EXCEPT ![r] = {}]
      /\ ~(n = 0 /\ Call[fn[r]].drops) => points' = [points EXCEPT ![r] = kept]
      /\ count' \in [Requests -> [Fields -> {0, 1}]]
      /\ \A q \in Requests \ {r} : count'[q] = count[q]
      /\ n = 0 /\ Call[fn[r]].drops =>
           \A x \in Fields : count'[r][x] = count[r][x] - One(x \in kept)
      /\ ~(n = 0 /\ Call[fn[r]].drops) => \A x \in Fields : count'[r][x] = count[r][x]
      /\ n = 0 /\ Call[fn[r]].drops => lrc' = lrc - One("loop" \in kept)
      /\ ~(n = 0 /\ Call[fn[r]].drops) => lrc' = lrc
  <2>1. rc[r] - One(~handsOn) = n /\ n \in Int
    <3> HIDE DEF One
    <3> QED
      BY <1>4, <1>5
  <2>2. Settle(r, n, kept, count[r], lrc)
    BY <1>1, <1>5, <2>1
  <2>3. n = 0 /\ Call[fn[r]].drops => \A x \in Fields : x \in kept => count[r][x] = 1
    BY <1>5 DEF One
  <2>4. TypeOK /\ UNCHANGED fn /\ fn[r] \in Names /\ n \in Int
    BY <1>0, <1>1, <1>5, <2>1
  <2> HIDE DEF n, kept
  <2> QED
    BY <2>2, <2>3, <2>4, SettleAt
<1>8. TypeOK'
  <2>1. rc' \in [Requests -> Nat]
    BY <1>0, <1>5, <1>7 DEF TypeOK
  <2>2. user' \in [Requests -> Nat]
    BY <1>0, <1>4, <1>5 DEF TypeOK
  <2>3. place' \in [Requests -> Places]
    BY <1>0, <1>1 DEF TypeOK, Places
  <2>4. outcome' \in [Requests -> Outcomes \cup {"none"}] /\ memory' \in [Requests -> SUBSET Memory]
    BY <1>0, <1>1, <1>2 DEF TypeOK
  <2>5. points' \in [Requests -> SUBSET (Fields \cup {"loop"})]
    <3>1. kept \subseteq Fields \cup {"loop"}
      BY <1>6 DEF Fields
    <3> HIDE DEF n, kept
    <3> QED
      BY <1>0, <1>7, <3>1 DEF TypeOK
  <2>6. lrc' \in Int
    BY <1>5, <1>7 DEF One
  <2>7. current' \in Requests \cup {None}
    BY <1>1
  <2> QED
    BY <1>0, <1>1, <1>7, <2>1, <2>2, <2>3, <2>4, <2>5, <2>6, <2>7 DEF TypeOK
<1>9. /\ place'[r] = "told" /\ rc'[r] = n /\ user'[r] = n /\ fn'[r] = fn[r] /\ current' = r
  BY <1>0, <1>1, <1>4, <1>7 DEF TypeOK
<1>10. /\ points'[r] \subseteq kept
       /\ n = 0 /\ Call[fn[r]].drops => points'[r] = {}
       /\ count'[r].closure = 1
       /\ count'[r].bufs = One("bufs" \in points'[r] \cup moves)
       /\ lrc' = lrc + One("loop" \in points'[r]) - One("loop" \in points[r])
  <2>1. "closure" \in Fields /\ "bufs" \in Fields
    BY DEF Fields
  <2>2. CASE n = 0 /\ Call[fn[r]].drops
    <3>1. points'[r] = {} /\ "closure" \notin kept
      BY <1>0, <1>6, <1>7, <2>2 DEF TypeOK, call
    <3>2. count'[r].closure = 1
      BY <1>5, <1>6, <1>7, <2>1, <2>2, <3>1 DEF One
    <3>3. count'[r].bufs = One("bufs" \in Kept(fn[r])) - One("bufs" \in kept)
      BY <1>5, <1>7, <2>1, <2>2
    <3>4. One("bufs" \in Kept(fn[r])) - One("bufs" \in kept) = One("bufs" \in points'[r] \cup moves)
      BY <1>6, <3>1 DEF One
    <3>5. lrc' = lrc + One("loop" \in points'[r]) - One("loop" \in points[r])
      BY <1>5, <1>6, <1>7, <2>2, <3>1 DEF One
    <3> QED
      BY <3>1, <3>2, <3>3, <3>4, <3>5
  <2>3. CASE ~(n = 0 /\ Call[fn[r]].drops)
    <3>1. points'[r] = kept
      BY <1>0, <1>7, <2>3 DEF TypeOK
    <3>2. count'[r].closure = 1
      BY <1>5, <1>6, <1>7, <2>1, <2>3 DEF One
    <3>3. count'[r].bufs = One("bufs" \in Kept(fn[r]))
      BY <1>5, <1>7, <2>1, <2>3
    <3>4. One("bufs" \in Kept(fn[r])) = One("bufs" \in points'[r] \cup moves)
      BY <1>6, <3>1 DEF One
    <3>5. lrc' = lrc + One("loop" \in points'[r]) - One("loop" \in points[r])
      BY <1>5, <1>6, <1>7, <2>3, <3>1 DEF One
    <3> QED
      BY <2>3, <3>1, <3>2, <3>3, <3>4, <3>5
  <2> QED
    BY <2>2, <2>3
<1>11. OkAt(r)'
  <2>1. rc'[r] = user'[r] + One(Pending(r)' \/ place'[r] = "refused")
    BY <1>5, <1>9 DEF Pending, One
  <2>2. Held(r)'
    <3>1. "closure" \in points'[r] => ~Call[fn[r]].drops
      BY <1>6, <1>10 DEF call
    <3>2. points'[r] \cap moves = {} /\ points'[r] \subseteq {"loop"} \cup Kept(fn[r])
      BY <1>10
    <3>3. rc'[r] = 0 /\ Call[fn[r]].drops => points'[r] = {}
      BY <1>9, <1>10
    <3> HIDE DEF n, kept
    <3> QED
      BY <1>5, <1>9, <1>10, <3>1, <3>2, <3>3 DEF Held, Pending
  <2>3. Turn(r)'
    BY <1>9 DEF Turn
  <2>4. LoopKept(r)'
    BY <1>9 DEF LoopKept, InPool, Pending
  <2> QED
    BY <2>1, <2>2, <2>3, <2>4 DEF OkAt
<1>12. \A q \in Requests \ {r} : Same(q)
  <2> SUFFICES ASSUME NEW q \in Requests \ {r} PROVE Same(q)
    OBVIOUS
  <2>1. current' # q /\ current # q
    BY <1>1, ReqAssumption
  <2>2. points'[q] = points[q]
    BY <1>0, <1>7 DEF TypeOK
  <2> HIDE DEF n, kept
  <2> QED
    BY <1>0, <1>1, <1>4, <1>7, <2>1, <2>2 DEF TypeOK, Same
<1> QED
  BY <1>1, <1>8, <1>10, <1>11, <1>12, OneRequest

LEMMA ReturnStep ==
  ASSUME ReqInv, NEW r \in Requests, Return(r)
  PROVE  ReqInv'
<1> DEFINE gone == {"closure"} \cup Call[fn[r]].moves
<1>0. TypeOK /\ OkAt(r) /\ running
  BY ReqInvAt, ReqAssumption DEF ReqInv, Return
<1>1. /\ current = r
      /\ place' = [place EXCEPT ![r] = "over"]
      /\ count' = [count EXCEPT ![r] = [x \in Fields |-> @[x] - One(x \in gone)]]
      /\ current' = None
      /\ UNCHANGED <<fn, outcome, rc, user, points, memory, lrc, luser, running, handle>>
  BY DEF Return
<1>2. /\ place[r] = "told" /\ fn[r] \in Names
      /\ count[r].closure = 1 /\ points[r] \cap Call[fn[r]].moves = {}
      /\ count[r].bufs = One("bufs" \in points[r] \cup Call[fn[r]].moves)
      /\ lrc \in Int
  BY <1>0, <1>1, Typed DEF OkAt, Turn, Held
<1>3. /\ count'[r] = [x \in Fields |-> count[r][x] - One(x \in gone)]
      /\ \A q \in Requests \ {r} : count'[q] = count[q]
  BY <1>0, <1>1 DEF TypeOK
<1>4. count'[r].closure = 0 /\ count'[r].bufs = One("bufs" \in points[r])
  <2>1. /\ count'[r].closure = count[r].closure - One("closure" \in gone)
        /\ count'[r].bufs = count[r].bufs - One("bufs" \in gone)
    BY <1>3 DEF Fields
  <2> QED
    BY <1>2, <2>1 DEF One
<1>5. TypeOK'
  <2>1. count'[r] \in [Fields -> {0, 1}]
    <3>1. \A x \in Fields : count'[r][x] \in {0, 1}
      BY <1>4 DEF Fields, One
    <3> QED
      BY <1>3, <3>1
  <2>2. count' \in [Requests -> [Fields -> {0, 1}]]
    <3>1. count' = [count EXCEPT ![r] = count'[r]]
      BY <1>0, <1>1 DEF TypeOK
    <3> QED
      BY <1>0, <2>1, <3>1 DEF TypeOK
  <2>3. place' \in [Requests -> Places]
    BY <1>0, <1>1 DEF TypeOK, Places
  <2> QED
    BY <1>0, <1>1, <2>2, <2>3 DEF TypeOK
<1>6. place'[r] = "over"
  BY <1>0, <1>1 DEF TypeOK
<1>7. OkAt(r)'
  <2>1. rc'[r] = user'[r] + One(Pending(r)' \/ place'[r] = "refused")
    BY <1>0, <1>1, <1>2, <1>6 DEF OkAt, Pending, One
  <2>2. Held(r)'
    BY <1>0, <1>1, <1>2, <1>4, <1>6 DEF OkAt, Held, Pending
  <2>3. Turn(r)'
    BY <1>1, <1>6, ReqAssumption DEF Turn
  <2>4. LoopKept(r)'
    BY <1>6 DEF LoopKept, InPool, Pending
  <2> QED
    BY <2>1, <2>2, <2>3, <2>4 DEF OkAt
<1>8. \A q \in Requests \ {r} : Same(q)
  BY <1>0, <1>1, <1>3, ReqAssumption DEF TypeOK, Same
<1>9. lrc' = lrc + One("loop" \in points'[r]) - One("loop" \in points[r])
  BY <1>1, <1>2 DEF One
<1> QED
  BY <1>0, <1>1, <1>5, <1>7, <1>8, <1>9, OneRequest

\* Steps of the loop and of the handle, which leave the requests alone.
LEMMA LoopMoves ==
  ASSUME ReqInv, UNCHANGED reqVars, UNCHANGED current,
         luser' \in {0, 1}, running' \in BOOLEAN,
         handle' \in {"none", "open", "closing", "closed"},
         lrc' - luser' - One(running') - One(handle' \in {"open", "closing"})
           = lrc - luser - One(running) - One(handle \in {"open", "closing"}),
         lrc' \in Int,
         current # None => running',
         \A r \in Requests : LoopKept(r)'
  PROVE  ReqInv'
<1>0. /\ TypeOK /\ RcExact
      /\ UNCHANGED <<fn, place, outcome, rc, user, points, count, memory>>
  BY DEF ReqInv, reqVars
<1>1. TypeOK'
  BY <1>0 DEF TypeOK
<1>2. RcExact'
  BY <1>0 DEF RcExact, Pending
<1>3. LrcExact'
  <2>1. KeepLoop' = KeepLoop
    BY <1>0 DEF KeepLoop
  <2>2. lrc = luser + One(running) + One(handle \in {"open", "closing"}) + Cardinality(KeepLoop)
    BY DEF ReqInv, LrcExact
  <2>3. /\ One(running) \in Int /\ One(running') \in Int
        /\ One(handle \in {"open", "closing"}) \in Int
        /\ One(handle' \in {"open", "closing"}) \in Int
    BY DEF One
  <2>4. luser \in Int /\ luser' \in Int /\ lrc \in Int
    BY <1>0 DEF TypeOK
  <2>5. lrc' = luser' + One(running') + One(handle' \in {"open", "closing"}) + Cardinality(KeepLoop)
    <3> HIDE DEF One
    <3> QED
      BY <2>2, <2>3, <2>4, KeepersNat
  <2> QED
    BY <2>1, <2>5 DEF LrcExact
<1>4. \A r \in Requests : Held(r)' /\ Turn(r)'
  BY <1>0 DEF ReqInv, Held, Turn, Pending
<1>5. current' # None => running'
  OBVIOUS
<1> QED
  BY <1>1, <1>2, <1>3, <1>4, <1>5 DEF ReqInv

LEMMA KeptStays ==
  ASSUME ReqInv, UNCHANGED reqVars, luser' = luser
  PROVE  \A r \in Requests : LoopKept(r)'
BY DEF ReqInv, reqVars, LoopKept, InPool, OfHandle, Pending

LEMMA RunStep ==
  ASSUME ReqInv, Run \/ RunReturns
  PROVE  ReqInv'
<1>0. /\ UNCHANGED reqVars /\ UNCHANGED current /\ UNCHANGED handle /\ luser' = luser
      /\ luser \in {0, 1} /\ lrc \in Int /\ handle \in {"none", "open", "closing", "closed"}
  BY DEF Run, RunReturns, ReqInv, TypeOK
<1>1. \A r \in Requests : LoopKept(r)'
  BY <1>0, KeptStays
<1>2. CASE Run
  <2>1. ~running /\ running' = TRUE /\ lrc' = lrc + 1
    BY <1>2 DEF Run
  <2>2. One(running) = 0 /\ One(running') = 1
    BY <2>1 DEF One
  <2>3. running' \in BOOLEAN /\ (current # None => running')
    BY <2>1
  <2>4. lrc' - luser' - One(running') - One(handle' \in {"open", "closing"})
           = lrc - luser - One(running) - One(handle \in {"open", "closing"})
    BY <1>0, <2>1, <2>2 DEF One
  <2>5. lrc' \in Int
    BY <1>0, <2>1
  <2> QED
    BY <1>0, <1>1, <2>3, <2>4, <2>5, LoopMoves
<1>3. CASE RunReturns
  <2>1. running /\ running' = FALSE /\ lrc' = lrc - 1 /\ current = None
    BY <1>3 DEF RunReturns, LoopTurn
  <2>2. One(running) = 1 /\ One(running') = 0
    BY <2>1 DEF One
  <2>3. running' \in BOOLEAN /\ (current # None => running')
    BY <2>1
  <2>4. lrc' - luser' - One(running') - One(handle' \in {"open", "closing"})
           = lrc - luser - One(running) - One(handle \in {"open", "closing"})
    BY <1>0, <2>1, <2>2 DEF One
  <2>5. lrc' \in Int
    BY <1>0, <2>1
  <2> QED
    BY <1>0, <1>1, <2>3, <2>4, <2>5, LoopMoves
<1> QED
  BY <1>2, <1>3

LEMMA DropLoopStep ==
  ASSUME ReqInv, DropLoop
  PROVE  ReqInv'
<1>0. /\ UNCHANGED reqVars /\ UNCHANGED current /\ UNCHANGED handle /\ UNCHANGED running
      /\ luser = 1 /\ luser' = 0 /\ lrc' = lrc - 1 /\ lrc \in Int
      /\ handle \in {"none", "open", "closing", "closed"}
  BY DEF DropLoop, ReqInv, TypeOK
<1>1. \A r \in Requests : LoopKept(r)'
  <2> SUFFICES ASSUME NEW r \in Requests, ~DropsLoop, InPool(r)'
               PROVE  "loop" \in Call[fn'[r]].keeps
    BY DEF LoopKept
  <2>1. InPool(r) /\ fn' = fn
    BY <1>0 DEF InPool, OfHandle, Pending, reqVars
  <2> QED
    BY <2>1 DEF DropLoop
<1>2. running' \in BOOLEAN /\ (current # None => running')
  BY <1>0 DEF ReqInv, TypeOK
<1>3. /\ One(running') = One(running) /\ One(running) \in Int
      /\ One(handle' \in {"open", "closing"}) = One(handle \in {"open", "closing"})
      /\ One(handle \in {"open", "closing"}) \in Int
  BY <1>0 DEF One
<1>4. lrc' - luser' - One(running') - One(handle' \in {"open", "closing"})
        = lrc - luser - One(running) - One(handle \in {"open", "closing"})
  <2> HIDE DEF One
  <2> QED
    BY <1>0, <1>3
<1>5. lrc' \in Int /\ luser' \in {0, 1} /\ handle' \in {"none", "open", "closing", "closed"}
  BY <1>0
<1> QED
  BY <1>0, <1>1, <1>2, <1>4, <1>5, LoopMoves

\* The handle is made, and its close callback comes.
LEMMA HandleStep ==
  ASSUME ReqInv, OpenHandle \/ HandleClosed
  PROVE  ReqInv'
<1>0. /\ UNCHANGED reqVars /\ UNCHANGED current /\ UNCHANGED running /\ luser' = luser
      /\ luser \in {0, 1} /\ lrc \in Int
      /\ \/ handle = "none" /\ handle' = "open" /\ lrc' = lrc + 1
         \/ handle = "closing" /\ handle' = "closed" /\ lrc' = lrc - 1
  BY DEF OpenHandle, HandleClosed, ReqInv, TypeOK
<1>1. \A r \in Requests : LoopKept(r)'
  BY <1>0, KeptStays
<1>2. running' \in BOOLEAN /\ (current # None => running')
  BY <1>0 DEF ReqInv, TypeOK
<1>3. /\ One(running') = One(running) /\ One(running) \in Int
      /\ One(handle' \in {"open", "closing"}) \in Int
      /\ One(handle \in {"open", "closing"}) \in Int
      /\ lrc' - lrc = One(handle' \in {"open", "closing"}) - One(handle \in {"open", "closing"})
  BY <1>0 DEF One
<1>4. lrc' \in Int /\ luser' \in {0, 1} /\ handle' \in {"none", "open", "closing", "closed"}
  BY <1>0
<1>5. lrc' - luser' - One(running') - One(handle' \in {"open", "closing"})
        = lrc - luser - One(running) - One(handle \in {"open", "closing"})
  <2> HIDE DEF One
  <2> QED
    BY <1>0, <1>3, <1>4
<1> QED
  BY <1>0, <1>1, <1>2, <1>4, <1>5, LoopMoves

\* What is pending on the handle is withdrawn, and goes on waiting for its answer.
LEMMA CloseHandleStep ==
  ASSUME ReqInv, CloseHandle
  PROVE  ReqInv'
<1>0. /\ TypeOK /\ handle = "open" /\ handle' = "closing"
      /\ place' = [r \in Requests |->
                     IF OfHandle(r) /\ Pending(r) /\ ~Settled(r) THEN "cancelled" ELSE place[r]]
      /\ UNCHANGED <<fn, outcome, rc, user, points, count, memory, lrc, luser, running, current>>
  BY DEF CloseHandle, ReqInv, loopVars
<1>1. \A r \in Requests : place'[r] = place[r]
        \/ (Pending(r) /\ place'[r] = "cancelled")
  BY <1>0
<1>2. \A r \in Requests :
        /\ Pending(r)' <=> Pending(r)
        /\ place'[r] \in {"new", "refused", "told", "over", "done"} =>
             place'[r] = place[r]
        /\ place[r] \in {"new", "refused", "told", "over"} =>
             place'[r] = place[r]
  BY <1>1 DEF Pending
<1>3. TypeOK'
  <2>1. place' \in [Requests -> Places]
    BY <1>0, <1>1 DEF TypeOK, Places
  <2> QED
    BY <1>0, <2>1 DEF TypeOK
<1>4. RcExact'
  BY <1>0, <1>2 DEF ReqInv, RcExact, One
<1>5. LrcExact'
  <2>1. KeepLoop' = KeepLoop
    BY <1>0 DEF KeepLoop
  <2>2. One(handle' \in {"open", "closing"}) = One(handle \in {"open", "closing"})
    BY <1>0 DEF One
  <2>3. lrc = luser + One(running) + One(handle \in {"open", "closing"}) + Cardinality(KeepLoop)
    BY DEF ReqInv, LrcExact
  <2>4. lrc' = luser' + One(running') + One(handle' \in {"open", "closing"}) + Cardinality(KeepLoop')
    <3>1. One(running') = One(running)
      BY <1>0
    <3> HIDE DEF One
    <3> QED
      BY <1>0, <2>1, <2>2, <2>3, <3>1
  <2> QED
    BY <2>4 DEF LrcExact
<1>6. ASSUME NEW r \in Requests PROVE Held(r)' /\ Turn(r)' /\ LoopKept(r)'
  <2>1. Held(r) /\ Turn(r) /\ LoopKept(r)
    BY DEF ReqInv
  <2>2. Held(r)'
    BY <1>0, <1>2, <2>1 DEF Held
  <2>3. Turn(r)'
    BY <1>0, <1>2, <2>1 DEF Turn
  <2>4. LoopKept(r)'
    BY <1>0, <1>2, <2>1 DEF LoopKept, InPool, OfHandle
  <2> QED
    BY <2>2, <2>3, <2>4
<1>7. current' # None => running'
  BY <1>0 DEF ReqInv
<1> QED
  BY <1>3, <1>4, <1>5, <1>6, <1>7 DEF ReqInv

LEMMA ReqInvNext ==
  ASSUME ReqInv, [Next]_vars
  PROVE  ReqInv'
<1>1. ASSUME NEW r \in Requests, UserStep(r) PROVE ReqInv'
  BY <1>1, SubmitStep, SubmitRefusedStep, CallSyncStep, DupStep, DropStep, CancelStep,
     ScandirNextStep DEF UserStep
<1>2. ASSUME NEW r \in Requests, LibuvStep(r) PROVE ReqInv'
  BY <1>2, TakeStep, FinishStep, AnswerStep, ReturnStep DEF LibuvStep
<1>3. CASE Terminated \/ UNCHANGED vars
  <2>1. UNCHANGED vars
    BY <1>3 DEF Terminated
  <2>2. /\ UNCHANGED reqVars /\ UNCHANGED current /\ UNCHANGED handle
        /\ UNCHANGED running /\ UNCHANGED lrc /\ luser' = luser
    BY <2>1 DEF vars, loopVars
  <2>3. /\ luser' \in {0, 1} /\ running' \in BOOLEAN /\ lrc' \in Int
        /\ handle' \in {"none", "open", "closing", "closed"}
        /\ current # None => running'
    BY <2>2 DEF ReqInv, TypeOK
  <2>4. lrc' - luser' - One(running') - One(handle' \in {"open", "closing"})
          = lrc - luser - One(running) - One(handle \in {"open", "closing"})
    BY <2>2
  <2> QED
    BY <2>2, <2>3, <2>4, KeptStays, LoopMoves
<1> QED
  BY <1>1, <1>2, <1>3, RunStep, DropLoopStep, HandleStep, CloseHandleStep DEF Next

\* The counts of requests, loop, closures and buffers are what the places of
\* the requests account for, in every reachable state.
THEOREM ReqInvariant == Spec => []ReqInv
<1>1. ReqInv /\ [Next]_vars => ReqInv'
  BY ReqInvNext
<1> QED
  BY <1>1, ReqInvInit, PTL DEF Spec

\* docs/memory.md promises that no use of the public API leads to a
\* segmentation fault: what libuv still has to do is not freed under it, be it
\* the request, the closure it will call or the buffers.
THEOREM ReqMemorySafe == Spec => []NoDangling
<1>1. ReqInv => NoDangling
  <2> SUFFICES ASSUME ReqInv, NEW r \in Requests, Pending(r)
               PROVE  /\ rc[r] > 0
                      /\ \A x \in Kept(fn[r]) \ {"loop"} : count[r][x] > 0 /\ x \in points[r]
    BY DEF NoDangling
  <2>1. OkAt(r)
    BY ReqInvAt
  <2>2. rc[r] \in Nat /\ user[r] \in Nat
    BY Typed DEF ReqInv
  <2>3. rc[r] > 0
    BY <2>1, <2>2 DEF OkAt, One
  <2>4. /\ points[r] = Kept(fn[r]) /\ fn[r] \in Names
        /\ \A x \in Fields : count[r][x] = One(x \in Kept(fn[r]))
    BY <2>1 DEF OkAt, Held, Pending
  <2>5. Kept(fn[r]) \ {"loop"} \subseteq Fields
    BY <2>4, CallFacts DEF Fields
  <2> QED
    BY <2>3, <2>4, <2>5 DEF One
<1> QED
  BY <1>1, ReqInvariant, PTL

\* The loop a thread of the pool posts to is there, unless the program drops it
\* under a request of dns.c.
THEOREM ReqLoopOutlives ==
  ASSUME ~DropsLoop
  PROVE  Spec => []LoopOutlives
<1>1. ReqInv => LoopOutlives
  <2> SUFFICES ASSUME ReqInv, NEW r \in Requests, InPool(r) PROVE lrc > 0
    BY DEF LoopOutlives
  <2>1. OkAt(r) /\ TypeOK
    BY ReqInvAt DEF ReqInv
  <2>2. lrc = luser + One(running) + One(handle \in {"open", "closing"}) + Cardinality(KeepLoop)
    BY DEF ReqInv, LrcExact
  <2>3. One(running) \in Nat /\ One(handle \in {"open", "closing"}) \in Nat
    BY DEF One
  <2>4. luser = 1 \/ Cardinality(KeepLoop) > 0
    <3>1. "loop" \in Call[fn[r]].keeps \/ luser = 1
      BY <2>1 DEF OkAt, LoopKept
    <3>2. CASE "loop" \in Call[fn[r]].keeps
      <4>1. points[r] = Kept(fn[r])
        BY <2>1 DEF OkAt, Held, InPool
      <4>2. r \in KeepLoop
        BY <3>2, <4>1 DEF Kept, KeepLoop
      <4>3. Cardinality(KeepLoop) # 0
        BY <4>2, KeepersNat, FS_EmptySet
      <4> QED
        BY <4>3, KeepersNat
    <3> QED
      BY <3>1, <3>2
  <2>5. luser \in Nat /\ lrc \in Int
    BY <2>1 DEF TypeOK
  <2> HIDE DEF One
  <2> QED
    BY <2>2, <2>3, <2>4, <2>5, KeepersNat
<1> QED
  BY <1>1, ReqInvariant, PTL

------------------------------------------------------------------------------
(* A request implements OneShot.                                           *)

AbsState == [r \in Requests |-> Stage(r)]
AbsAnswer == [r \in Requests |-> IF Stage(r) \in {"settled", "told"} THEN outcome[r] ELSE "none"]
AbsHandle == {r \in Requests : OfHandle(r)}

\* A step keeps a request where it is, as far as OneShot can see.
Still(q) ==
  /\ Stage(q)' = Stage(q) /\ (OfHandle(q)' <=> OfHandle(q))
  /\ Stage(q) \in {"settled", "told"} => outcome'[q] = outcome[q]

LEMMA StillAt ==
  ASSUME NEW q \in Requests, fn'[q] = fn[q], place'[q] = place[q], outcome'[q] = outcome[q]
  PROVE  Still(q)
BY DEF Still, Stage, Settled, OfHandle

LEMMA Stutters ==
  ASSUME \A q \in Requests : Still(q)
  PROVE  UNCHANGED Abstract!oneShotVars
<1>1. AbsState' = AbsState /\ AbsAnswer' = AbsAnswer /\ AbsHandle' = AbsHandle
  BY DEF Still, AbsState, AbsAnswer, AbsHandle
<1> QED
  BY <1>1 DEF Abstract!oneShotVars, AbsState, AbsAnswer, AbsHandle

\* One request moves from one stage to another, and the function it was made
\* for stays.
LEMMA MoveAt ==
  ASSUME NEW r \in Requests, \A q \in Requests \ {r} : Still(q)
  PROVE  /\ AbsState[r] = Stage(r) /\ AbsState' = [AbsState EXCEPT ![r] = Stage(r)']
         /\ (OfHandle(r)' <=> OfHandle(r)) => AbsHandle' = AbsHandle
         /\ OfHandle(r)' => AbsHandle' = AbsHandle \cup {r}
         /\ r \in AbsHandle <=> OfHandle(r)
         /\ Stage(r) \notin {"settled", "told"} /\ Stage(r)' \notin {"settled", "told"} =>
              AbsAnswer' = AbsAnswer
         /\ Stage(r)' \in {"settled", "told"} =>
              AbsAnswer' = [AbsAnswer EXCEPT ![r] = outcome'[r]]
BY DEF Still, AbsState, AbsAnswer, AbsHandle

\* A call on a new request: it is asked, or on a handle begun or settled; it
\* is refused; or done at once.
LEMMA SubmitRefines ==
  ASSUME ReqInv, NEW r \in Requests, NEW f \in Names, Submit(r, f)
  PROVE  Abstract!Next
<1>0. TypeOK /\ place[r] = "new" /\ fn[r] = None /\ Stage(r) = "idle" /\ ~OfHandle(r)
  BY DEF ReqInv, Submit, Held, Stage, OfHandle
<1>1. PICK p \in Call[f].starts : Accept(r, f, p)
  BY DEF Submit
<1>2. PICK o \in Outcomes : outcome' = [outcome EXCEPT ![r] = IF p = "done" THEN o ELSE @]
  BY <1>1 DEF Accept
<1>3. /\ fn'[r] = f /\ place'[r] = p /\ (p = "done" => outcome'[r] = o)
      /\ \A q \in Requests \ {r} : fn'[q] = fn[q] /\ place'[q] = place[q] /\ outcome'[q] = outcome[q]
  BY <1>0, <1>1, <1>2 DEF Accept, TypeOK
<1>4. \A q \in Requests \ {r} : Still(q)
  BY <1>3, StillAt
<1>5. /\ OfHandle(r)' <=> Call[f].on = "handle"
      /\ p \in {"queued", "busy", "done"} /\ (Call[f].on = "pool" => p = "queued")
      /\ Call[f].on \in {"pool", "handle"}
  BY <1>3, CallFacts DEF OfHandle
<1>6. CASE p = "queued"
  <2>1. Stage(r)' = "asked"
    BY <1>3, <1>6 DEF Stage
  <2>2. /\ AbsState[r] = "idle" /\ AbsState' = [AbsState EXCEPT ![r] = "asked"]
        /\ AbsAnswer' = AbsAnswer
        /\ AbsHandle' = AbsHandle \/ AbsHandle' = AbsHandle \cup {r}
    BY <1>0, <1>4, <1>5, <2>1, MoveAt
  <2>3. Abstract!Ask(r) \/ Abstract!AskHandle(r)
    BY <2>2 DEF Abstract!Ask, Abstract!AskHandle, Abstract!Move, AbsState, AbsAnswer, AbsHandle
  <2> QED
    BY <2>3 DEF Abstract!Next
<1>7. CASE p = "busy"
  <2>1. Stage(r)' = "begun"
    BY <1>3, <1>7 DEF Stage, Settled
  <2>2. Abstract!AskHandle(r)
    BY <1>0, <1>4, <1>5, <1>7, <2>1, MoveAt
       DEF Abstract!AskHandle, Abstract!Move, AbsState, AbsAnswer, AbsHandle
  <2> QED
    BY <2>2 DEF Abstract!Next
<1>8. CASE p = "done"
  <2>1. Stage(r)' = "settled"
    BY <1>1, <1>3, <1>8 DEF Stage, Settled
  <2>2. outcome'[r] \in {"ok", "error"} /\ OfHandle(r)'
    BY <1>3, <1>5, <1>8 DEF Outcomes
  <2>3. /\ AbsState[r] = "idle" /\ AbsState' = [AbsState EXCEPT ![r] = "settled"]
        /\ AbsAnswer' = [AbsAnswer EXCEPT ![r] = outcome'[r]]
        /\ AbsHandle' = AbsHandle \cup {r}
    BY <1>0, <1>4, <2>1, <2>2, MoveAt
  <2>4. Abstract!AskHandle(r)
    BY <2>2, <2>3 DEF Abstract!AskHandle, Abstract!Move, Abstract!GetAnswer,
       AbsState, AbsAnswer, AbsHandle
  <2> QED
    BY <2>4 DEF Abstract!Next
<1> QED
  BY <1>5, <1>6, <1>7, <1>8

LEMMA RefusedRefines ==
  ASSUME ReqInv, NEW r \in Requests, NEW f \in Names, SubmitRefused(r, f)
  PROVE  Abstract!Next
<1>0. TypeOK /\ Stage(r) = "idle" /\ ~OfHandle(r)
  BY DEF ReqInv, SubmitRefused, Held, Stage, OfHandle
<1>1. /\ fn'[r] = f /\ place'[r] = "refused"
      /\ \A q \in Requests \ {r} : fn'[q] = fn[q] /\ place'[q] = place[q] /\ outcome'[q] = outcome[q]
  BY <1>0 DEF SubmitRefused, TypeOK
<1>2. (\A q \in Requests \ {r} : Still(q)) /\ Stage(r)' = "refused"
  BY <1>1, StillAt DEF Stage
<1>3. /\ AbsState[r] = "idle" /\ AbsState' = [AbsState EXCEPT ![r] = "refused"]
      /\ AbsAnswer' = AbsAnswer
      /\ AbsHandle' \in {AbsHandle, AbsHandle \cup {r}}
  BY <1>0, <1>2, MoveAt
<1>4. Abstract!Refuse(r)
  BY <1>3 DEF Abstract!Refuse, Abstract!Move, AbsState, AbsAnswer, AbsHandle
<1> QED
  BY <1>4 DEF Abstract!Next

LEMMA SyncRefines ==
  ASSUME ReqInv, NEW r \in Requests, NEW f \in Names, NEW o \in Outcomes, CallSync(r, f, o)
  PROVE  Abstract!Next
<1>0. TypeOK /\ Stage(r) = "idle" /\ ~OfHandle(r) /\ Call[f].on = "pool"
  BY CallFacts DEF ReqInv, CallSync, Held, Stage, OfHandle
<1>1. /\ fn' = [fn EXCEPT ![r] = f] /\ place' = [place EXCEPT ![r] = "over"]
      /\ outcome' = [outcome EXCEPT ![r] = o]
  BY DEF CallSync
<1>2. /\ fn'[r] = f /\ place'[r] = "over" /\ outcome'[r] = o
      /\ \A q \in Requests \ {r} : fn'[q] = fn[q] /\ place'[q] = place[q] /\ outcome'[q] = outcome[q]
  BY <1>0, <1>1 DEF TypeOK
<1>3. (\A q \in Requests \ {r} : Still(q)) /\ Stage(r)' = "told" /\ ~OfHandle(r)'
  BY <1>0, <1>2, StillAt DEF Stage, OfHandle
<1>4. /\ AbsState[r] = "idle" /\ AbsState' = [AbsState EXCEPT ![r] = "told"]
      /\ AbsAnswer' = [AbsAnswer EXCEPT ![r] = o]
      /\ AbsHandle' = AbsHandle
  BY <1>0, <1>2, <1>3, MoveAt
<1>5. Abstract!Do(r)
  BY <1>4 DEF Abstract!Do, Abstract!Move, Abstract!GetAnswer, Outcomes, AbsState, AbsAnswer, AbsHandle
<1> QED
  BY <1>5 DEF Abstract!Next

\* Only what no thread has begun is taken back.
LEMMA CancelRefines ==
  ASSUME ReqInv, NEW r \in Requests, Cancel(r)
  PROVE  Abstract!Next \/ UNCHANGED Abstract!oneShotVars
<1>0. TypeOK /\ fn' = fn /\ outcome' = outcome /\ \A q \in Requests \ {r} : place'[q] = place[q]
  BY DEF ReqInv, Cancel, TypeOK
<1>1. \A q \in Requests \ {r} : Still(q)
  BY <1>0, StillAt
<1>2. CASE place[r] = "queued"
  <2>1. Stage(r) = "asked" /\ Stage(r)' = "withdrawn"
    BY <1>0, <1>2 DEF Cancel, TypeOK, Stage
  <2>2. ~OfHandle(r) /\ (OfHandle(r)' <=> OfHandle(r))
    <3>1. fn[r] \in Names /\ Call[fn[r]].cancels
      BY <1>2 DEF ReqInv, Held, Cancel
    <3> QED
      BY <1>0, <3>1, CallFacts DEF OfHandle
  <2>3. Abstract!Cancel(r)
    BY <1>1, <2>1, <2>2, MoveAt
       DEF Abstract!Cancel, Abstract!Move, AbsState, AbsAnswer, AbsHandle
  <2> QED
    BY <2>3 DEF Abstract!Next
<1>3. CASE place[r] # "queued"
  <2>1. place'[r] = place[r]
    BY <1>0, <1>3 DEF Cancel, TypeOK
  <2> QED
    BY <1>0, <1>1, <2>1, StillAt, Stutters
<1> QED
  BY <1>2, <1>3

\* What is on the handle and not settled is withdrawn.
LEMMA CloseRefines ==
  ASSUME ReqInv, CloseHandle
  PROVE  Abstract!Next
<1>1. \A q \in Requests :
        /\ (OfHandle(q)' <=> OfHandle(q)) /\ outcome'[q] = outcome[q]
        /\ place'[q] = IF OfHandle(q) /\ Pending(q) /\ ~Settled(q) THEN "cancelled" ELSE place[q]
  BY DEF CloseHandle, OfHandle
<1>2. ASSUME NEW q \in Requests
      PROVE  Stage(q)' = IF OfHandle(q) /\ Stage(q) \in {"asked", "begun"} THEN "withdrawn"
                         ELSE Stage(q)
  <2>1. OfHandle(q) /\ Pending(q) /\ ~Settled(q) =>
          Stage(q) \in {"asked", "begun", "withdrawn"} /\ Stage(q)' = "withdrawn"
    BY <1>1 DEF Stage, Pending
  <2>2. ~(OfHandle(q) /\ Pending(q) /\ ~Settled(q)) =>
          /\ Stage(q)' = Stage(q)
          /\ OfHandle(q) => Stage(q) \notin {"asked", "begun"}
    BY <1>1 DEF Stage, Pending, Settled, CloseHandle, OfHandle
  <2> QED
    BY <2>1, <2>2
<1>3. /\ AbsState' = [q \in Requests |-> IF q \in AbsHandle /\ AbsState[q] \in {"asked", "begun"}
                                         THEN "withdrawn" ELSE AbsState[q]]
      /\ AbsHandle' = AbsHandle
  BY <1>1, <1>2 DEF AbsState, AbsHandle
<1>4. AbsAnswer' = AbsAnswer
  BY <1>1, <1>2 DEF AbsAnswer
<1>5. Abstract!CloseHandle
  BY <1>3, <1>4 DEF Abstract!CloseHandle, AbsState, AbsAnswer, AbsHandle
<1> QED
  BY <1>5 DEF Abstract!Next

\* A thread takes the request, or the loop does: it is begun.
LEMMA TakeRefines ==
  ASSUME ReqInv, NEW r \in Requests, Take(r)
  PROVE  Abstract!Next
<1>0. TypeOK /\ Stage(r) = "asked" /\ fn' = fn /\ outcome' = outcome
  BY DEF ReqInv, Take, Stage
<1>1. place'[r] = "busy" /\ \A q \in Requests \ {r} : place'[q] = place[q]
  BY <1>0 DEF Take, TypeOK
<1>2. /\ \A q \in Requests \ {r} : Still(q)
      /\ Stage(r)' = "begun" /\ (OfHandle(r)' <=> OfHandle(r))
  BY <1>0, <1>1, StillAt DEF Stage, Settled, OfHandle
<1>3. Abstract!Begin(r)
  BY <1>0, <1>2, MoveAt DEF Abstract!Begin, Abstract!Move, AbsState, AbsAnswer, AbsHandle
<1> QED
  BY <1>3 DEF Abstract!Next

\* Its result is settled, unless it is told in the same breath.
LEMMA FinishRefines ==
  ASSUME ReqInv, NEW r \in Requests, NEW o \in Outcomes, Finish(r, o)
  PROVE  Abstract!Next \/ UNCHANGED Abstract!oneShotVars
<1>0. TypeOK /\ Stage(r) = "begun" /\ fn' = fn
  BY DEF ReqInv, Finish, Stage, Settled
<1>1. /\ place'[r] = "done" /\ outcome'[r] = o
      /\ \A q \in Requests \ {r} : place'[q] = place[q] /\ outcome'[q] = outcome[q]
  BY <1>0 DEF Finish, TypeOK
<1>2. (\A q \in Requests \ {r} : Still(q)) /\ (OfHandle(r)' <=> OfHandle(r))
  BY <1>0, <1>1, StillAt DEF OfHandle
<1>3. CASE Settled(r)'
  <2>1. Stage(r)' = "settled"
    BY <1>1, <1>3 DEF Stage
  <2>2. /\ AbsState[r] = "begun" /\ AbsState' = [AbsState EXCEPT ![r] = "settled"]
        /\ AbsAnswer' = [AbsAnswer EXCEPT ![r] = o] /\ AbsHandle' = AbsHandle
    BY <1>0, <1>1, <1>2, <2>1, MoveAt
  <2>3. Abstract!Settle(r)
    BY <2>2 DEF Abstract!Settle, Abstract!Move, Abstract!GetAnswer, Outcomes,
       AbsState, AbsAnswer, AbsHandle
  <2> QED
    BY <2>3 DEF Abstract!Next
<1>4. CASE ~Settled(r)'
  <2>1. Stage(r)' = "begun"
    BY <1>1, <1>4 DEF Stage
  <2>2. Still(r)
    BY <1>0, <1>2, <2>1 DEF Still
  <2> QED
    BY <1>2, <2>2, Stutters
<1> QED
  BY <1>3, <1>4

\* The C callback tells it.
LEMMA AnswerRefines ==
  ASSUME ReqInv, NEW r \in Requests, Answer(r)
  PROVE  Abstract!Next
<1>0. TypeOK /\ place[r] \in {"done", "cancelled"} /\ Turn(r) /\ fn' = fn
  BY DEF ReqInv, Answer
<1>1. /\ place'[r] = "told"
      /\ outcome'[r] = IF place[r] = "cancelled" THEN "error" ELSE outcome[r]
      /\ \A q \in Requests \ {r} : place'[q] = place[q] /\ outcome'[q] = outcome[q]
  BY <1>0 DEF Answer, TypeOK
<1>2. /\ \A q \in Requests \ {r} : Still(q)
      /\ Stage(r)' = "told" /\ (OfHandle(r)' <=> OfHandle(r))
  BY <1>0, <1>1, StillAt DEF Stage, OfHandle
<1>3. /\ AbsState[r] = Stage(r) /\ AbsState' = [AbsState EXCEPT ![r] = "told"]
      /\ AbsAnswer' = [AbsAnswer EXCEPT ![r] = outcome'[r]] /\ AbsHandle' = AbsHandle
      /\ r \in AbsHandle <=> OfHandle(r)
  BY <1>2, MoveAt
<1>4. CASE place[r] = "done"
  <2>1. outcome'[r] = outcome[r] /\ outcome[r] \in {"ok", "error"}
    BY <1>0, <1>1, <1>4 DEF Turn, Outcomes
  <2>2. CASE Settled(r)
    <3>1. Stage(r) = "settled"
      BY <1>4, <2>2 DEF Stage
    <3>2. AbsAnswer[r] = outcome[r]
      BY <3>1 DEF AbsAnswer
    <3>3. AbsAnswer' = AbsAnswer
      BY <1>3, <2>1, <3>2 DEF AbsAnswer
    <3>4. Abstract!Tell(r)
      BY <1>3, <3>1, <3>3 DEF Abstract!Tell, Abstract!Move, AbsState, AbsAnswer, AbsHandle
    <3> QED
      BY <3>4 DEF Abstract!Next
  <2>3. CASE ~Settled(r)
    <3>1. Stage(r) = "begun" /\ r \in AbsHandle
      BY <1>3, <1>4, <2>3 DEF Stage, Settled
    <3>2. Abstract!Tell(r)
      BY <1>3, <2>1, <3>1 DEF Abstract!Tell, Abstract!Move, Abstract!GetAnswer,
         AbsState, AbsAnswer, AbsHandle
    <3> QED
      BY <3>2 DEF Abstract!Next
  <2> QED
    BY <2>2, <2>3
<1>5. CASE place[r] = "cancelled"
  <2>1. Stage(r) = "withdrawn" /\ outcome'[r] = "error"
    BY <1>1, <1>5 DEF Stage
  <2>2. Abstract!Tell(r)
    BY <1>3, <2>1 DEF Abstract!Tell, Abstract!Move, AbsState, AbsAnswer, AbsHandle
  <2> QED
    BY <2>2 DEF Abstract!Next
<1> QED
  BY <1>0, <1>4, <1>5

\* The program's callback returns.
LEMMA ReturnRefines ==
  ASSUME ReqInv, NEW r \in Requests, Return(r)
  PROVE  UNCHANGED Abstract!oneShotVars
<1>0. TypeOK /\ place[r] = "told" /\ fn' = fn /\ outcome' = outcome
  BY DEF ReqInv, Return, Turn
<1>1. place'[r] = "over" /\ \A q \in Requests \ {r} : place'[q] = place[q]
  BY <1>0 DEF Return, TypeOK
<1>2. Still(r)
  BY <1>0, <1>1 DEF Still, Stage, OfHandle
<1> QED
  BY <1>0, <1>1, <1>2, StillAt, Stutters

\* A request is answered once, by one callback; what is complete keeps its
\* result when its handle is closed, what is not is told to the error callback,
\* and a cancel takes back only what was not begun.
THEOREM ReqImplementsOneShot == Spec => ImplementsOneShot
<1>1. Init => Abstract!Init
  <2> SUFFICES ASSUME Init PROVE Abstract!Init
    OBVIOUS
  <2>1. \A r \in Requests : Stage(r) = "idle" /\ ~OfHandle(r)
    BY DEF Init, Stage, OfHandle
  <2> QED
    BY <2>1 DEF Abstract!Init
<1>2. ReqInv /\ [Next]_vars => [Abstract!Next]_(Abstract!oneShotVars)
  <2> SUFFICES ASSUME ReqInv, [Next]_vars
               PROVE  Abstract!Next \/ UNCHANGED Abstract!oneShotVars
    OBVIOUS
  <2>1. CASE UNCHANGED <<fn, place, outcome>>
    BY <2>1, StillAt, Stutters
  <2>2. ASSUME NEW r \in Requests, UserStep(r)
        PROVE  Abstract!Next \/ UNCHANGED Abstract!oneShotVars
    <3>1. CASE Dup(r) \/ Drop(r) \/ ScandirNext(r)
      BY <2>1, <3>1 DEF Dup, Drop, ScandirNext
    <3> QED
      BY <2>2, <3>1, SubmitRefines, RefusedRefines, SyncRefines, CancelRefines DEF UserStep
  <2>3. ASSUME NEW r \in Requests, LibuvStep(r)
        PROVE  Abstract!Next \/ UNCHANGED Abstract!oneShotVars
    BY <2>3, TakeRefines, FinishRefines, AnswerRefines, ReturnRefines DEF LibuvStep
  <2> QED
    BY <2>1, <2>2, <2>3, CloseRefines
       DEF Next, Run, RunReturns, DropLoop, OpenHandle, HandleClosed, Terminated, vars, reqVars
<1> QED
  BY <1>1, <1>2, ReqInvariant, PTL DEF Spec, ImplementsOneShot, Abstract!Spec

(***************************************************************************)
(* What libuv allocates for a request.                                     *)
(***************************************************************************)

\* A step that changes nothing of what a request has or where it is.
LEMMA AllocatedStays ==
  ASSUME NEW q \in Requests, Allocated(q),
         fn'[q] = fn[q], place'[q] = place[q], outcome'[q] = outcome[q], memory'[q] = memory[q]
  PROVE  Allocated(q)'
BY DEF Allocated, Pending

\* Calls of the program.
LEMMA AllocatedUser ==
  ASSUME TypeOK, NEW r \in Requests, Allocated(r), UserStep(r)
  PROVE  Allocated(r)'
<1>1. ASSUME NEW f \in Names, Submit(r, f) PROVE Allocated(r)'
  <2>1. PICK p \in Call[f].starts : Accept(r, f, p)
    BY <1>1 DEF Submit
  <2>2. /\ fn'[r] = f /\ place'[r] = p /\ p \in {"queued", "busy", "done"}
        /\ memory'[r] = IF Call[f].copies THEN {"path"} ELSE {}
    BY <2>1, CallFacts DEF Accept, TypeOK
  <2> QED
    BY <2>2 DEF Allocated, Pending
<1>2. ASSUME NEW f \in Names, SubmitRefused(r, f) PROVE Allocated(r)'
  <2>1. place[r] = "new" /\ place'[r] = "refused" /\ memory'[r] = memory[r]
    BY <1>2 DEF SubmitRefused, TypeOK
  <2> QED
    BY <2>1 DEF Allocated, Pending
<1>3. ASSUME NEW f \in Names, NEW o \in Outcomes, CallSync(r, f, o) PROVE Allocated(r)'
  <2> DEFINE made == (IF Call[f].sync = "copied" THEN {"path"} ELSE {})
                       \cup (IF Call[f].gives /\ o = "ok" THEN {"result"} ELSE {})
  <2>1. /\ fn'[r] = f /\ place'[r] = "over" /\ outcome'[r] = o
        /\ memory'[r] = IF o \in Call[f].tidies THEN {} ELSE made
    BY <1>3 DEF CallSync, TypeOK
  <2>2. memory'[r] # {} => LeavesOver(Call[f], o)
    BY <2>1 DEF LeavesOver, Allocates
  <2> QED
    BY <2>1, <2>2 DEF Allocated, Pending
<1>4. CASE Dup(r) \/ Drop(r)
  <2>1. fn'[r] = fn[r] /\ place'[r] = place[r] /\ outcome'[r] = outcome[r] /\ memory'[r] = memory[r]
    BY <1>4 DEF Dup, Drop
  <2> QED
    BY <2>1, AllocatedStays
<1>5. CASE Cancel(r)
  <2>1. /\ fn'[r] = fn[r] /\ outcome'[r] = outcome[r] /\ memory'[r] = memory[r]
        /\ place'[r] = IF place[r] = "queued" THEN "cancelled" ELSE place[r]
    BY <1>5 DEF Cancel, TypeOK
  <2> QED
    BY <2>1 DEF Allocated, Pending
<1>6. CASE ScandirNext(r)
  <2>1. /\ fn'[r] = fn[r] /\ outcome'[r] = outcome[r] /\ place'[r] = place[r]
        /\ place[r] \in {"told", "over"} /\ memory'[r] \in {{}, memory[r]}
    BY <1>6 DEF ScandirNext, Listing, TypeOK
  <2> QED
    BY <2>1 DEF Allocated, Pending
<1> QED
  BY <1>1, <1>2, <1>3, <1>4, <1>5, <1>6 DEF UserStep

\* Threads and callbacks.
LEMMA AllocatedLibuv ==
  ASSUME TypeOK, NEW r \in Requests, Turn(r), Allocated(r), LibuvStep(r)
  PROVE  Allocated(r)'
<1>1. CASE Take(r)
  <2>1. /\ place[r] = "queued" /\ place'[r] = "busy"
        /\ fn'[r] = fn[r] /\ memory'[r] = memory[r]
    BY <1>1 DEF Take, TypeOK
  <2> QED
    BY <2>1 DEF Allocated, Pending
<1>2. ASSUME NEW o \in Outcomes, Finish(r, o) PROVE Allocated(r)'
  <2>1. /\ place[r] = "busy" /\ place'[r] = "done" /\ fn'[r] = fn[r] /\ outcome'[r] = o
        /\ memory'[r] = memory[r] \cup IF Call[fn[r]].gives /\ o = "ok" THEN {"result"} ELSE {}
    BY <1>2 DEF Finish, TypeOK
  <2> QED
    BY <2>1 DEF Allocated, Pending
<1>3. CASE Answer(r)
  <2> DEFINE o == IF place[r] = "cancelled" THEN "error" ELSE outcome[r]
  <2>1. /\ place[r] \in {"done", "cancelled"} /\ place'[r] = "told" /\ fn'[r] = fn[r]
        /\ outcome'[r] = o
        /\ memory'[r] = IF o \in Call[fn[r]].cleans THEN {} ELSE memory[r]
    BY <1>3 DEF Answer, TypeOK
  <2>2. o \in Outcomes
    BY <2>1 DEF Turn, Outcomes
  <2>3. memory[r] \subseteq {"path", "result"}
    BY DEF TypeOK, Memory
  <2>4. /\ "path" \in memory[r] => Call[fn[r]].copies
        /\ "result" \in memory[r] => Call[fn[r]].gives /\ o = "ok"
    BY <2>1 DEF Allocated, Pending
  <2>5. memory'[r] # {} => LeavesOver(Call[fn[r]], o)
    BY <2>1, <2>3, <2>4 DEF LeavesOver, Allocates
  <2> QED
    BY <2>1, <2>2, <2>5 DEF Allocated, Pending
<1>4. CASE Return(r)
  <2>1. /\ place'[r] = "over" /\ fn'[r] = fn[r] /\ outcome'[r] = outcome[r] /\ memory'[r] = memory[r]
        /\ place[r] = "told"
    BY <1>4, ReqAssumption DEF Return, TypeOK, Turn
  <2> QED
    BY <2>1 DEF Allocated, Pending
<1> QED
  BY <1>1, <1>2, <1>3, <1>4 DEF LibuvStep

\* A step of one request is none of another.
LEMMA OthersKeep ==
  ASSUME TypeOK, NEW r \in Requests, UserStep(r) \/ LibuvStep(r), NEW q \in Requests \ {r}
  PROVE  /\ fn'[q] = fn[q] /\ place'[q] = place[q] /\ outcome'[q] = outcome[q]
         /\ memory'[q] = memory[q]
<1>1. CASE UserStep(r)
  <2>1. ASSUME NEW f \in Names, Submit(r, f) \/ SubmitRefused(r, f)
        PROVE  /\ fn'[q] = fn[q] /\ place'[q] = place[q] /\ outcome'[q] = outcome[q]
               /\ memory'[q] = memory[q]
    BY <2>1 DEF Submit, Accept, SubmitRefused, TypeOK
  <2>2. ASSUME NEW f \in Names, NEW o \in Outcomes, CallSync(r, f, o)
        PROVE  /\ fn'[q] = fn[q] /\ place'[q] = place[q] /\ outcome'[q] = outcome[q]
               /\ memory'[q] = memory[q]
    BY <2>2 DEF CallSync, TypeOK
  <2>3. CASE Dup(r) \/ Drop(r) \/ Cancel(r) \/ ScandirNext(r)
    BY <2>3 DEF Dup, Drop, Cancel, ScandirNext, TypeOK
  <2> QED
    BY <1>1, <2>1, <2>2, <2>3 DEF UserStep
<1>2. CASE LibuvStep(r)
  <2>1. CASE Take(r) \/ \E o \in Outcomes : Finish(r, o)
    BY <2>1 DEF Take, Finish, TypeOK
  <2>2. CASE Answer(r) \/ Return(r)
    BY <2>2 DEF Answer, Return, TypeOK
  <2> QED
    BY <1>2, <2>1, <2>2 DEF LibuvStep
<1> QED
  BY <1>1, <1>2

LEMMA RInvNext ==
  ASSUME RInv, [Next]_vars
  PROVE  RInv'
<1>1. ReqInv /\ TypeOK
  BY DEF RInv, ReqInv
<1>2. ReqInv'
  BY <1>1, ReqInvNext
<1>3. ASSUME NEW r \in Requests, UserStep(r) \/ LibuvStep(r), NEW q \in Requests PROVE Allocated(q)'
  <2>1. Allocated(q) /\ Allocated(r) /\ Turn(r)
    BY DEF RInv, ReqInv
  <2>2. CASE q = r
    BY <1>1, <1>3, <2>1, <2>2, AllocatedUser, AllocatedLibuv
  <2>3. CASE q # r
    BY <1>1, <1>3, <2>1, <2>3, OthersKeep, AllocatedStays
  <2> QED
    BY <2>2, <2>3
<1>4. ASSUME CloseHandle, NEW q \in Requests PROVE Allocated(q)'
  <2>1. /\ fn'[q] = fn[q] /\ outcome'[q] = outcome[q] /\ memory'[q] = memory[q]
        /\ place'[q] = place[q] \/ (OfHandle(q) /\ Pending(q) /\ place'[q] = "cancelled")
    BY <1>4 DEF CloseHandle
  <2>2. Allocated(q) /\ Held(q)
    BY DEF RInv, ReqInv
  <2>3. OfHandle(q) /\ Pending(q) => "result" \notin memory[q]
    BY <2>2, CallFacts DEF Allocated, Held, OfHandle, Pending
  <2> QED
    BY <2>1, <2>2, <2>3 DEF Allocated, Pending
<1>5. ASSUME UNCHANGED reqVars, NEW q \in Requests PROVE Allocated(q)'
  <2>1. fn'[q] = fn[q] /\ place'[q] = place[q] /\ outcome'[q] = outcome[q] /\ memory'[q] = memory[q]
    BY <1>5 DEF reqVars
  <2>2. Allocated(q)
    BY DEF RInv
  <2> QED
    BY <2>1, <2>2, AllocatedStays
<1>6. Run \/ RunReturns \/ DropLoop \/ OpenHandle \/ HandleClosed \/ Terminated \/ UNCHANGED vars
        => UNCHANGED reqVars
  BY DEF Run, RunReturns, DropLoop, OpenHandle, HandleClosed, Terminated, vars
<1>7. \A q \in Requests : Allocated(q)'
  BY <1>3, <1>4, <1>5, <1>6 DEF Next
<1> QED
  BY <1>2, <1>7 DEF RInv

\* The references and the memory of every request are what its place accounts
\* for, in every reachable state and whatever the table of calls.
THEOREM ReqMemoryInvariant == Spec => []RInv
<1>1. Init => RInv
  <2> SUFFICES ASSUME Init PROVE RInv
    OBVIOUS
  <2>1. \A r \in Requests : Allocated(r)
    BY DEF Init, Allocated, Pending
  <2> QED
    BY <2>1, ReqInvInit DEF RInv
<1>2. RInv /\ [Next]_vars => RInv'
  BY RInvNext
<1> QED
  BY <1>1, <1>2, PTL DEF Spec

\* If every function of the table cleans up what it allocates, nothing of
\* libuv's memory is left when the program is told, and with the last reference
\* to an answered request go its closure and buffers (docs/memory.md:5-9).
THEOREM ReqLeakFree ==
  ASSUME \A f \in Names : CleansUp(f, Call[f])
  PROVE  Spec => []NoLeak
<1>1. RInv => NoLeak
  <2> SUFFICES ASSUME RInv, NEW r \in Requests, place[r] \in {"told", "over"}
               PROVE  /\ memory[r] # {} => Excused(fn[r], outcome[r])
                      /\ place[r] = "over" /\ user[r] = 0 =>
                           rc[r] = 0 /\ \A x \in Fields : count[r][x] = 0
    BY DEF NoLeak
  <2>1. OkAt(r) /\ Allocated(r) /\ TypeOK
    BY ReqInvAt DEF RInv, ReqInv
  <2>2. fn[r] \in Names
    BY <2>1 DEF OkAt, Held
  <2>3. memory[r] # {} => Excused(fn[r], outcome[r])
    BY <2>1, <2>2 DEF Allocated, CleansUp
  <2>4. ASSUME place[r] = "over", user[r] = 0
        PROVE  rc[r] = 0 /\ \A x \in Fields : count[r][x] = 0
    <3>1. rc[r] = 0
      BY <2>1, <2>4 DEF OkAt, Pending, One
    <3>2. "bufs" \notin points[r]
      <4>1. CASE Call[fn[r]].drops
        BY <2>1, <2>4, <3>1, <4>1 DEF OkAt, Held
      <4>2. CASE ~Call[fn[r]].drops
        <5>1. Call[fn[r]].keeps = {}
          BY <2>2, <4>2, ReqAssumption DEF IsCall
        <5> QED
          BY <2>1, <2>4, <5>1 DEF OkAt, Held, Kept
      <4> QED
        BY <4>1, <4>2
    <3>3. count[r].closure = 0 /\ count[r].bufs = 0
      BY <2>1, <2>4, <3>2 DEF OkAt, Held, One
    <3> QED
      BY <3>1, <3>3 DEF Fields
  <2> QED
    BY <2>3, <2>4
<1> QED
  BY <1>1, ReqMemoryInvariant, PTL

(***************************************************************************)
(* The table of uv.mbt's own calls.                                        *)
(***************************************************************************)
Table == INSTANCE UvCalls

\* A record of a call that leaves nothing over, whichever function it is of.
Clean(c) == IsCall(c) /\ \A f : CleansUp(f, c)

\* What UvReq asks of the functions of a table.
Sound(t) == \A f \in DOMAIN t : IsCall(t[f]) /\ CleansUp(f, t[f])

\* The records that clean up after every outcome.
LEMMA CleanCalls ==
  /\ Clean(Table!OnFile)
  /\ Clean(Table!OnPath)
  /\ Clean(Table!OnBuffers)
  /\ Clean(Table!Reads)
  /\ Clean(Table!ReadsResult)
  /\ Clean(Table!Resolve)
  /\ Clean(Table!OnHandle)
  /\ Clean(Table!NoTwin(Table!OnFile))
  /\ Clean(Table!NoTwin(Table!OnPath))
  /\ Clean([Table!ReadsResult EXCEPT !.tidies = {"ok"}])
  /\ Clean([Table!OnFile EXCEPT !.tidies = Table!Outcomes])
  /\ Clean(Table!Writes)
  /\ Clean([Table!OnHandle EXCEPT !.starts = {"busy"}, !.moves = {}, !.drops = FALSE])
  /\ Clean([Table!OnBuffers EXCEPT !.moves = {"closure", "bufs"}, !.cleans = {}, !.cancels = FALSE])
<1>1. Clean(Table!OnFile)
  <2>1. IsCall(Table!OnFile)
    BY DEF Table!OnFile, Table!Outcomes, Outcomes, IsCall
  <2>2. ASSUME NEW f PROVE CleansUp(f, Table!OnFile)
    BY DEF Table!OnFile, Table!Outcomes, Outcomes, CleansUp, LeavesOver, Excused, Allocates
  <2> QED
    BY <2>1, <2>2 DEF Clean
<1>2. Clean(Table!OnPath)
  <2>1. IsCall(Table!OnPath)
    BY DEF Table!OnPath, Table!OnFile, Table!Outcomes, Outcomes, IsCall
  <2>2. ASSUME NEW f PROVE CleansUp(f, Table!OnPath)
    BY DEF Table!OnPath, Table!OnFile, Table!Outcomes, Outcomes, CleansUp, LeavesOver, Excused,
       Allocates
  <2> QED
    BY <2>1, <2>2 DEF Clean
<1>3. Clean(Table!OnBuffers)
  <2>1. IsCall(Table!OnBuffers)
    BY DEF Table!OnBuffers, Table!OnFile, Table!Outcomes, Outcomes, IsCall
  <2>2. ASSUME NEW f PROVE CleansUp(f, Table!OnBuffers)
    BY DEF Table!OnBuffers, Table!OnFile, Table!Outcomes, Outcomes, CleansUp, LeavesOver,
       Excused, Allocates
  <2> QED
    BY <2>1, <2>2 DEF Clean
<1>4. Clean(Table!Reads)
  <2>1. IsCall(Table!Reads)
    BY DEF Table!Reads, Table!OnPath, Table!OnFile, Table!Outcomes, Outcomes, IsCall
  <2>2. ASSUME NEW f PROVE CleansUp(f, Table!Reads)
    BY DEF Table!Reads, Table!OnPath, Table!OnFile, Table!Outcomes, Outcomes, CleansUp,
       LeavesOver, Excused, Allocates
  <2> QED
    BY <2>1, <2>2 DEF Clean
<1>5. Clean(Table!ReadsResult)
  <2>1. IsCall(Table!ReadsResult)
    BY DEF Table!ReadsResult, Table!Reads, Table!OnPath, Table!OnFile, Table!Outcomes, Outcomes,
       IsCall
  <2>2. ASSUME NEW f PROVE CleansUp(f, Table!ReadsResult)
    BY DEF Table!ReadsResult, Table!Reads, Table!OnPath, Table!OnFile, Table!Outcomes, Outcomes,
       CleansUp, LeavesOver, Excused, Allocates
  <2> QED
    BY <2>1, <2>2 DEF Clean
<1>6. Clean(Table!Resolve)
  <2>1. IsCall(Table!Resolve)
    BY DEF Table!Resolve, Table!OnFile, Table!Outcomes, Outcomes, IsCall
  <2>2. ASSUME NEW f PROVE CleansUp(f, Table!Resolve)
    BY DEF Table!Resolve, Table!OnFile, Table!Outcomes, Outcomes, CleansUp, LeavesOver, Excused,
       Allocates
  <2> QED
    BY <2>1, <2>2 DEF Clean
<1>7. Clean(Table!OnHandle)
  <2>1. IsCall(Table!OnHandle)
    BY DEF Table!OnHandle, Table!Resolve, Table!OnFile, Table!Outcomes, Outcomes, IsCall
  <2>2. ASSUME NEW f PROVE CleansUp(f, Table!OnHandle)
    BY DEF Table!OnHandle, Table!Resolve, Table!OnFile, Table!Outcomes, Outcomes, CleansUp,
       LeavesOver, Excused, Allocates
  <2> QED
    BY <2>1, <2>2 DEF Clean
<1>8. Clean(Table!NoTwin(Table!OnFile))
  <2>1. IsCall(Table!NoTwin(Table!OnFile))
    BY DEF Table!NoTwin, Table!OnFile, Table!Outcomes, Outcomes, IsCall
  <2>2. ASSUME NEW f PROVE CleansUp(f, Table!NoTwin(Table!OnFile))
    BY DEF Table!NoTwin, Table!OnFile, Table!Outcomes, Outcomes, CleansUp, LeavesOver, Excused,
       Allocates
  <2> QED
    BY <2>1, <2>2 DEF Clean
<1>9. Clean(Table!NoTwin(Table!OnPath))
  <2>1. IsCall(Table!NoTwin(Table!OnPath))
    BY DEF Table!NoTwin, Table!OnPath, Table!OnFile, Table!Outcomes, Outcomes, IsCall
  <2>2. ASSUME NEW f PROVE CleansUp(f, Table!NoTwin(Table!OnPath))
    BY DEF Table!NoTwin, Table!OnPath, Table!OnFile, Table!Outcomes, Outcomes, CleansUp,
       LeavesOver, Excused, Allocates
  <2> QED
    BY <2>1, <2>2 DEF Clean
<1>10. Clean([Table!ReadsResult EXCEPT !.tidies = {"ok"}])
  <2>1. IsCall([Table!ReadsResult EXCEPT !.tidies = {"ok"}])
    BY DEF Table!ReadsResult, Table!Reads, Table!OnPath, Table!OnFile, Table!Outcomes, Outcomes,
       IsCall
  <2>2. ASSUME NEW f PROVE CleansUp(f, [Table!ReadsResult EXCEPT !.tidies = {"ok"}])
    BY DEF Table!ReadsResult, Table!Reads, Table!OnPath, Table!OnFile, Table!Outcomes, Outcomes,
       CleansUp, LeavesOver, Excused, Allocates
  <2> QED
    BY <2>1, <2>2 DEF Clean
<1>11. Clean([Table!OnFile EXCEPT !.tidies = Table!Outcomes])
  <2>1. IsCall([Table!OnFile EXCEPT !.tidies = Table!Outcomes])
    BY DEF Table!OnFile, Table!Outcomes, Outcomes, IsCall
  <2>2. ASSUME NEW f PROVE CleansUp(f, [Table!OnFile EXCEPT !.tidies = Table!Outcomes])
    BY DEF Table!OnFile, Table!Outcomes, Outcomes, CleansUp, LeavesOver, Excused, Allocates
  <2> QED
    BY <2>1, <2>2 DEF Clean
<1>12. Clean(Table!Writes)
  <2>1. IsCall(Table!Writes)
    BY DEF Table!Writes, Table!OnHandle, Table!Resolve, Table!OnFile, Table!Outcomes, Outcomes, IsCall
  <2>2. ASSUME NEW f PROVE CleansUp(f, Table!Writes)
    BY DEF Table!Writes, Table!OnHandle, Table!Resolve, Table!OnFile, Table!Outcomes, Outcomes, CleansUp,
       LeavesOver, Excused, Allocates
  <2> QED
    BY <2>1, <2>2 DEF Clean
<1>13. Clean([Table!OnHandle EXCEPT !.starts = {"busy"}, !.moves = {}, !.drops = FALSE])
  <2>1. IsCall([Table!OnHandle EXCEPT !.starts = {"busy"}, !.moves = {}, !.drops = FALSE])
    BY DEF Table!OnHandle, Table!Resolve, Table!OnFile, Table!Outcomes, Outcomes, IsCall
  <2>2. ASSUME NEW f PROVE CleansUp(f, [Table!OnHandle EXCEPT !.starts = {"busy"}, !.moves = {}, !.drops = FALSE])
    BY DEF Table!OnHandle, Table!Resolve, Table!OnFile, Table!Outcomes, Outcomes, CleansUp,
       LeavesOver, Excused, Allocates
  <2> QED
    BY <2>1, <2>2 DEF Clean
<1>14. Clean([Table!OnBuffers EXCEPT !.moves = {"closure", "bufs"}, !.cleans = {}, !.cancels = FALSE])
  <2>1. IsCall([Table!OnBuffers EXCEPT !.moves = {"closure", "bufs"}, !.cleans = {}, !.cancels = FALSE])
    BY DEF Table!OnBuffers, Table!OnFile, Table!Outcomes, Outcomes, IsCall
  <2>2. ASSUME NEW f PROVE CleansUp(f, [Table!OnBuffers EXCEPT !.moves = {"closure", "bufs"}, !.cleans = {}, !.cancels = FALSE])
    BY DEF Table!OnBuffers, Table!OnFile, Table!Outcomes, Outcomes, CleansUp, LeavesOver,
       Excused, Allocates
  <2> QED
    BY <2>1, <2>2 DEF Clean
<1> QED
  BY <1>1, <1>2, <1>3, <1>4, <1>5, <1>6, <1>7, <1>8, <1>9, <1>10, <1>11, <1>12, <1>13, <1>14

\* scandir, mkstemp and mkdtemp are where Excused is needed.
LEMMA ExcusedCalls == Sound(Table!FsScandir) /\ Sound(Table!FsMakeTemp)
<1>1. IsCall([Table!ReadsResult EXCEPT !.cleans = {"error"}, !.tidies = {"error"}])
  BY DEF Table!ReadsResult, Table!Reads, Table!OnPath, Table!OnFile, Table!Outcomes, Outcomes,
     IsCall
<1>2. CleansUp("scandir", [Table!ReadsResult EXCEPT !.cleans = {"error"}, !.tidies = {"error"}])
  BY DEF Table!ReadsResult, Table!Reads, Table!OnPath, Table!OnFile, Table!Outcomes, Outcomes,
     CleansUp, LeavesOver, Excused, Allocates
<1>3. IsCall([Table!Reads EXCEPT !.sync = "copied", !.tidies = {"ok"}])
  BY DEF Table!Reads, Table!OnPath, Table!OnFile, Table!Outcomes, Outcomes, IsCall
<1>4. CleansUp("mkdtemp", [Table!Reads EXCEPT !.sync = "copied", !.tidies = {"ok"}])
  BY DEF Table!Reads, Table!OnPath, Table!OnFile, Table!Outcomes, Outcomes, CleansUp,
     LeavesOver, Excused, Allocates
<1>5. IsCall([Table!Reads EXCEPT !.sync = "copied", !.cleans = {"ok"}])
  BY DEF Table!Reads, Table!OnPath, Table!OnFile, Table!Outcomes, Outcomes, IsCall
<1>6. CleansUp("mkstemp", [Table!Reads EXCEPT !.sync = "copied", !.cleans = {"ok"}])
  BY DEF Table!Reads, Table!OnPath, Table!OnFile, Table!Outcomes, Outcomes, CleansUp,
     LeavesOver, Excused, Allocates
<1>7. /\ DOMAIN Table!FsScandir = {"scandir"}
      /\ Table!FsScandir["scandir"] = [Table!ReadsResult EXCEPT !.cleans = {"error"}, !.tidies = {"error"}]
  BY DEF Table!FsScandir
<1>8. /\ DOMAIN Table!FsMakeTemp = {"mkdtemp", "mkstemp"}
      /\ Table!FsMakeTemp["mkdtemp"] = [Table!Reads EXCEPT !.sync = "copied", !.tidies = {"ok"}]
      /\ Table!FsMakeTemp["mkstemp"] = [Table!Reads EXCEPT !.sync = "copied", !.cleans = {"ok"}]
  BY DEF Table!FsMakeTemp
<1> QED
  BY <1>1, <1>2, <1>3, <1>4, <1>5, <1>6, <1>7, <1>8 DEF Sound

\* Each table of UvCalls is sound.
LEMMA SoundTables == \A t \in Table!Tables : Sound(t)
<1> USE CleanCalls DEF Sound, Clean
<1>1. Sound(Table!FsOpenClose)
  <2>1. \A f \in DOMAIN Table!FsOpenClose : Table!FsOpenClose[f] \in
          {Table!OnPath, Table!OnFile}
    BY DEF Table!FsOpenClose
  <2> QED
    BY <2>1
<1>2. Sound(Table!FsReadWrite)
  <2>1. \A f \in DOMAIN Table!FsReadWrite : Table!FsReadWrite[f] \in
          {Table!OnBuffers}
    BY DEF Table!FsReadWrite
  <2> QED
    BY <2>1
<1>3. Sound(Table!FsFlush)
  <2>1. \A f \in DOMAIN Table!FsFlush : Table!FsFlush[f] \in
          {Table!OnFile, Table!NoTwin(Table!OnFile)}
    BY DEF Table!FsFlush
  <2> QED
    BY <2>1
<1>4. Sound(Table!FsMakeRemove)
  <2>1. \A f \in DOMAIN Table!FsMakeRemove : Table!FsMakeRemove[f] \in
          {Table!OnPath}
    BY DEF Table!FsMakeRemove
  <2> QED
    BY <2>1
<1>5. Sound(Table!FsCopyUnlink)
  <2>1. \A f \in DOMAIN Table!FsCopyUnlink : Table!FsCopyUnlink[f] \in
          {Table!OnPath}
    BY DEF Table!FsCopyUnlink
  <2> QED
    BY <2>1
<1>6. Sound(Table!FsRename)
  <2>1. \A f \in DOMAIN Table!FsRename : Table!FsRename[f] \in
          {Table!Reads}
    BY DEF Table!FsRename
  <2> QED
    BY <2>1
<1>7. Sound(Table!FsStat)
  <2>1. \A f \in DOMAIN Table!FsStat : Table!FsStat[f] \in
          {Table!Reads, Table!NoTwin(Table!OnFile)}
    BY DEF Table!FsStat
  <2> QED
    BY <2>1
<1>8. Sound(Table!FsRealpath)
  <2>1. \A f \in DOMAIN Table!FsRealpath : Table!FsRealpath[f] \in
          {[Table!ReadsResult EXCEPT !.tidies = {"ok"}]}
    BY DEF Table!FsRealpath
  <2> QED
    BY <2>1
<1>9. Sound(Table!FsAccess)
  <2>1. \A f \in DOMAIN Table!FsAccess : Table!FsAccess[f] \in
          {Table!OnPath}
    BY DEF Table!FsAccess
  <2> QED
    BY <2>1
<1>10. Sound(Table!FsDirectory)
  <2>1. \A f \in DOMAIN Table!FsDirectory : Table!FsDirectory[f] \in
          {Table!NoTwin(Table!OnPath), Table!NoTwin(Table!OnFile)}
    BY DEF Table!FsDirectory
  <2> QED
    BY <2>1
<1>11. Sound(Table!FsLink)
  <2>1. \A f \in DOMAIN Table!FsLink : Table!FsLink[f] \in
          {Table!OnPath}
    BY DEF Table!FsLink
  <2> QED
    BY <2>1
<1>12. Sound(Table!FsReadlink)
  <2>1. \A f \in DOMAIN Table!FsReadlink : Table!FsReadlink[f] \in
          {[Table!ReadsResult EXCEPT !.tidies = {"ok"}]}
    BY DEF Table!FsReadlink
  <2> QED
    BY <2>1
<1>13. Sound(Table!FsOwner)
  <2>1. \A f \in DOMAIN Table!FsOwner : Table!FsOwner[f] \in
          {Table!OnPath, Table!OnFile}
    BY DEF Table!FsOwner
  <2> QED
    BY <2>1
<1>14. Sound(Table!FsSendMode)
  <2>1. \A f \in DOMAIN Table!FsSendMode : Table!FsSendMode[f] \in
          {Table!OnPath, Table!OnFile}
    BY DEF Table!FsSendMode
  <2> QED
    BY <2>1
<1>15. Sound(Table!FsStatfs)
  <2>1. \A f \in DOMAIN Table!FsStatfs : Table!FsStatfs[f] \in
          {Table!ReadsResult}
    BY DEF Table!FsStatfs
  <2> QED
    BY <2>1
<1>16. Sound(Table!FsTimes)
  <2>1. \A f \in DOMAIN Table!FsTimes : Table!FsTimes[f] \in
          {Table!Reads, [Table!OnFile EXCEPT !.tidies = Table!Outcomes]}
    BY DEF Table!FsTimes
  <2> QED
    BY <2>1
<1>17. Sound(Table!Dns)
  <2>1. \A f \in DOMAIN Table!Dns : Table!Dns[f] \in
          {Table!Resolve}
    BY DEF Table!Dns
  <2> QED
    BY <2>1
<1>18. Sound(Table!RandomBytes)
  <2>1. \A f \in DOMAIN Table!RandomBytes : Table!RandomBytes[f] \in
          {[Table!OnBuffers EXCEPT !.moves = {"closure", "bufs"}, !.cleans = {}, !.cancels = FALSE]}
    BY DEF Table!RandomBytes
  <2> QED
    BY <2>1
<1>19. Sound(Table!WriteCalls)
  <2>1. \A f \in DOMAIN Table!WriteCalls : Table!WriteCalls[f] \in
          {Table!Writes}
    BY DEF Table!WriteCalls
  <2> QED
    BY <2>1
<1>20. Sound(Table!UdpSend)
  <2>1. \A f \in DOMAIN Table!UdpSend : Table!UdpSend[f] \in
          {Table!Writes}
    BY DEF Table!UdpSend
  <2> QED
    BY <2>1
<1>21. Sound(Table!Shutdown)
  <2>1. \A f \in DOMAIN Table!Shutdown : Table!Shutdown[f] \in
          {Table!OnHandle}
    BY DEF Table!Shutdown
  <2> QED
    BY <2>1
<1>22. Sound(Table!Connect)
  <2>1. \A f \in DOMAIN Table!Connect : Table!Connect[f] \in
          {[Table!OnHandle EXCEPT !.starts = {"busy"}, !.moves = {}, !.drops = FALSE]}
    BY DEF Table!Connect
  <2> QED
    BY <2>1
<1>23. Sound(Table!FsScandir) /\ Sound(Table!FsMakeTemp)
  BY ExcusedCalls
<1> QED
  BY <1>1, <1>2, <1>3, <1>4, <1>5, <1>6, <1>7, <1>8, <1>9, <1>10, <1>11, <1>12, <1>13, <1>14,
     <1>15, <1>16, <1>17, <1>18, <1>19, <1>20, <1>21, <1>22, <1>23 DEF Table!Tables

\* Every function of fs.c, dns.c, random.c, write.c, shutdown.c, udp.c and the
\* two connects is one that UvReq can execute and that cleans up what libuv
\* allocates, but for what Excused names.
THEOREM ReqTable == Sound(Table!Calls)
<1> SUFFICES ASSUME NEW f \in DOMAIN Table!Calls
             PROVE  IsCall(Table!Calls[f]) /\ CleansUp(f, Table!Calls[f])
  BY DEF Sound
<1> DEFINE t == CHOOSE s \in Table!Tables : f \in DOMAIN s
<1>1. t \in Table!Tables /\ f \in DOMAIN t
  BY DEF Table!Calls
<1>2. Table!Calls[f] = t[f]
  BY DEF Table!Calls
<1> HIDE DEF t
<1> QED
  BY <1>1, <1>2, SoundTables DEF Sound

\* A program that calls any of these functions, in any order and number, is
\* left with no memory of libuv's when it is told (docs/memory.md:5-9).
THEOREM ReqCodeLeakFree ==
  ASSUME \A f \in Names : f \in DOMAIN Table!Calls /\ Call[f] = Table!Calls[f]
  PROVE  Spec => []NoLeak
<1>1. \A f \in Names : CleansUp(f, Call[f])
  BY ReqTable DEF Sound
<1> QED
  BY <1>1, ReqLeakFree
=============================================================================

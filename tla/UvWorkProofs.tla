---------------------------- MODULE UvWorkProofs ----------------------------
(***************************************************************************)
(* Proofs about UvWork for any number of requests and pool threads.  As    *)
(* long as the count operations of two threads do not overlap, counts are  *)
(* exact (WorkInductive) and nothing dangles, leaks or is freed by the     *)
(* pool (WorkMemorySafe).  Whatever overlaps, a request is whole until its *)
(* work closure is called (WorkUnbegun) and cancelled work does not run    *)
(* (WorkCancel).                                                           *)
(*                                                                         *)
(* The invariants are WInv of UvWork and, for every schedule, RaceInv.     *)
(* Each action has a lemma that the invariant survives it.                 *)
(***************************************************************************)
EXTENDS UvWork, TLAPS

\* What moonbit_uv_work_data_finalize and a call do to the closures' counts.
LEMMA DropBoth ==
  ASSUME NEW f \in [Callbacks -> {0, 1}], NEW d, NEW e
  PROVE  DropAll(DropAll(f, d), e) = [c \in Callbacks |-> f[c] - One(c \in d) - One(c \in e)]
  BY DEF DropAll, One

\* A count operation that finalizes nothing and drops nothing leaves closures alone.
LEMMA DropNone ==
  ASSUME NEW f \in [Callbacks -> {0, 1}]
  PROVE  DropAll(DropAll(f, {}), {}) = f
  BY DEF DropAll

\* WInv survives QueueWork: a fresh request has two references, libuv's and the
\* one that is returned, and two closures that data points to.
LEMMA QueueWorkPreserves ==
  ASSUME ~Overlap, WInv, NEW r \in Requests, QueueWork(r)
  PROVE  WInv'
<1>1. TypeOK'
  BY WorkAssumption DEF WInv, QueueWork, TypeOK, Places,
     Idle, Threads,
     LoopThread, Callbacks
<1>2. Points'
  BY WorkAssumption DEF WInv, QueueWork, Idle, Threads,
     LoopThread, Callbacks, TypeOK, Places, Points, Ops,
     RcExact, Refs, One, Pending, Ending, InPool
<1>3. Ops'
  BY WorkAssumption DEF WInv, QueueWork, Idle, Threads,
     LoopThread, Callbacks, TypeOK, Places, Points, Ops,
     RcExact, Refs, One, Pending, Ending, InPool
<1>4. RcExact'
  BY WorkAssumption DEF WInv, QueueWork, Idle, Threads,
     LoopThread, Callbacks, TypeOK, Places, Points, Ops,
     RcExact, Refs, One, Pending, Ending, InPool
<1>5. CrcExact'
  BY WorkAssumption DEF WInv, QueueWork, Idle, Threads,
     LoopThread, Callbacks, TypeOK, Places, Points, Ops,
     RcExact, Refs, One, Pending, Ending, InPool, CrcExact
<1> QED
  BY <1>1, <1>2, <1>3, <1>4, <1>5 DEF WInv

\* WInv survives Dup: reading the count changes no reference.
LEMMA DupPreserves ==
  ASSUME ~Overlap, WInv, NEW r \in Requests, Dup(r)
  PROVE  WInv'
<1>1. TypeOK'
  BY WorkAssumption DEF WInv, Dup, Begin, TypeOK, Places,
     Idle, Threads,
     LoopThread, Callbacks
<1>2. Points'
  BY WorkAssumption DEF WInv, Dup, Begin, Idle, Threads,
     LoopThread, Callbacks, TypeOK, Places, Points, Ops,
     RcExact, Refs, One, Pending, Ending, InPool
<1>3. Ops'
  BY WorkAssumption DEF WInv, Dup, Begin, Idle, Threads,
     LoopThread, Callbacks, TypeOK, Places, Points, Ops,
     RcExact, Refs, One, Pending, Ending, InPool
<1>4. RcExact'
  BY WorkAssumption DEF WInv, Dup, Begin, Idle, Threads,
     LoopThread, Callbacks, TypeOK, Places, Points, Ops,
     RcExact, Refs, One, Pending, Ending, InPool
<1>5. CrcExact'
  BY WorkAssumption DEF WInv, Dup, Begin, Idle, Threads,
     LoopThread, Callbacks, TypeOK, Places, Points, Ops,
     RcExact, Refs, One, Pending, Ending, InPool, CrcExact
<1> QED
  BY <1>1, <1>2, <1>3, <1>4, <1>5 DEF WInv

\* WInv survives Drop: the variable's reference becomes the one that is being
\* dropped.
LEMMA DropPreserves ==
  ASSUME ~Overlap, WInv, NEW r \in Requests, Drop(r)
  PROVE  WInv'
<1>1. TypeOK'
  BY WorkAssumption DEF WInv, Drop, Begin, TypeOK, Places,
     Idle, Threads,
     LoopThread, Callbacks
<1>2. Points'
  BY WorkAssumption DEF WInv, Drop, Begin, Idle, Threads,
     LoopThread, Callbacks, TypeOK, Places, Points, Ops,
     RcExact, Refs, One, Pending, Ending, InPool
<1>3. Ops'
  BY WorkAssumption DEF WInv, Drop, Begin, Idle, Threads,
     LoopThread, Callbacks, TypeOK, Places, Points, Ops,
     RcExact, Refs, One, Pending, Ending, InPool
<1>4. RcExact'
  BY WorkAssumption DEF WInv, Drop, Begin, Idle, Threads,
     LoopThread, Callbacks, TypeOK, Places, Points, Ops,
     RcExact, Refs, One, Pending, Ending, InPool
<1>5. CrcExact'
  BY WorkAssumption DEF WInv, Drop, Begin, Idle, Threads,
     LoopThread, Callbacks, TypeOK, Places, Points, Ops,
     RcExact, Refs, One, Pending, Ending, InPool, CrcExact
<1> QED
  BY <1>1, <1>2, <1>3, <1>4, <1>5 DEF WInv

\* WInv survives Cancel: the parameter's reference becomes the one that is
\* being dropped, and
\* a queued request stays libuv's until its after callback.
LEMMA CancelPreserves ==
  ASSUME ~Overlap, WInv, NEW r \in Requests, Cancel(r)
  PROVE  WInv'
<1>1. TypeOK'
  BY WorkAssumption DEF WInv, Cancel, Begin, TypeOK, Places,
     Idle, Threads,
     LoopThread, Callbacks
<1>2. Points'
  BY WorkAssumption DEF WInv, Cancel, Begin, Idle, Threads,
     LoopThread, Callbacks, TypeOK, Places, Points, Ops,
     RcExact, Refs, One, Pending, Ending, InPool
<1>3. Ops'
  BY WorkAssumption DEF WInv, Cancel, Begin, Idle, Threads,
     LoopThread, Callbacks, TypeOK, Places, Points, Ops,
     RcExact, Refs, One, Pending, Ending, InPool
<1>4. RcExact'
  BY WorkAssumption DEF WInv, Cancel, Begin, Idle, Threads,
     LoopThread, Callbacks, TypeOK, Places, Points, Ops,
     RcExact, Refs, One, Pending, Ending, InPool
<1>5. CrcExact'
  BY WorkAssumption DEF WInv, Cancel, Begin, Idle, Threads,
     LoopThread, Callbacks, TypeOK, Places, Points, Ops,
     RcExact, Refs, One, Pending, Ending, InPool, CrcExact
<1> QED
  BY <1>1, <1>2, <1>3, <1>4, <1>5 DEF WInv

\* WInv survives Take: a pool thread holds the request on libuv's account.
LEMMA TakePreserves ==
  ASSUME ~Overlap, WInv, NEW r \in Requests, Take(r)
  PROVE  WInv'
<1>1. TypeOK'
  BY WorkAssumption DEF WInv, Take, TypeOK, Places,
     Idle, Threads,
     LoopThread, Callbacks
<1>2. Points'
  BY WorkAssumption DEF WInv, Take, Idle, Threads,
     LoopThread, Callbacks, TypeOK, Places, Points, Ops,
     RcExact, Refs, One, Pending, Ending, InPool
<1>3. Ops'
  BY WorkAssumption DEF WInv, Take, Idle, Threads,
     LoopThread, Callbacks, TypeOK, Places, Points, Ops,
     RcExact, Refs, One, Pending, Ending, InPool
<1>4. RcExact'
  BY WorkAssumption DEF WInv, Take, Idle, Threads,
     LoopThread, Callbacks, TypeOK, Places, Points, Ops,
     RcExact, Refs, One, Pending, Ending, InPool
<1>5. CrcExact'
  BY WorkAssumption DEF WInv, Take, Idle, Threads,
     LoopThread, Callbacks, TypeOK, Places, Points, Ops,
     RcExact, Refs, One, Pending, Ending, InPool, CrcExact
<1> QED
  BY <1>1, <1>2, <1>3, <1>4, <1>5 DEF WInv

\* WInv survives WorkCb: the closure leaves data for its
\* call, and no other thread counts meanwhile.
LEMMA WorkCbPreserves ==
  ASSUME ~Overlap, WInv, NEW r \in Requests, WorkCb(r)
  PROVE  WInv'
<1>1. TypeOK'
  <2>1. [kind |-> "incref", on |-> r, read |-> rc[r]]
          \in [kind : {"none", "incref", "decref", "param"}, on : Requests \cup {None}, read : Int]
    BY DEF WInv, TypeOK
  <2>2. op' = [op EXCEPT ![r] = [kind |-> "incref", on |-> r, read |-> rc[r]]]
    BY DEF WorkCb, Begin
  <2>3. op' \in [Threads -> [kind : {"none", "incref", "decref", "param"},
                          on : Requests \cup {None}, read : Int]]
    BY <2>1, <2>2 DEF WInv, TypeOK, Threads, LoopThread
  <2> QED
    BY <2>3 DEF WInv, WorkCb, Begin, TypeOK, Places, Callbacks
<1>2. Points'
  <2>1. /\ op'[r] # Idle
        /\ \A q \in Requests : q # r => op'[q] = op[q] /\ points'[q] = points[q]
    BY DEF WInv, WorkCb, Begin, Idle, TypeOK, Threads
  <2>2. points'[r] = {"after"} /\ place[r] = "taken" /\ rc[r] # 0
    BY DEF WInv, WorkCb, Begin, TypeOK, Points, Callbacks, RcExact, Refs, One, Pending, Ending
  <2>3. UNCHANGED <<place, rc, user, current>>
    BY DEF WorkCb
  <2> QED
    BY <2>1, <2>2, <2>3 DEF WInv, Points, Callbacks
<1>3. Ops'
  BY WorkAssumption DEF WInv, WorkCb, Begin, Idle, Threads,
     LoopThread, Callbacks, TypeOK, Places, Points, Ops,
     RcExact, Refs, One, Pending, Ending, InPool
<1>4. RcExact'
  BY WorkAssumption DEF WInv, WorkCb, Begin, Idle, Threads,
     LoopThread, Callbacks, TypeOK, Places, Points, Ops,
     RcExact, Refs, One, Pending, Ending, InPool
<1>5. CrcExact'
  BY WorkAssumption DEF WInv, WorkCb, Begin, Idle, Threads,
     LoopThread, Callbacks, TypeOK, Places, Points, Ops,
     RcExact, Refs, One, Pending, Ending, InPool, CrcExact
<1> QED
  BY <1>1, <1>2, <1>3, <1>4, <1>5 DEF WInv

\* WInv survives WorkReturns: the work function's reference is the one that is
\* being dropped.
LEMMA WorkReturnsPreserves ==
  ASSUME ~Overlap, WInv, NEW r \in Requests, WorkReturns(r)
  PROVE  WInv'
<1>1. TypeOK'
  BY WorkAssumption DEF WInv, WorkReturns, Begin, TypeOK, Places,
     Idle, Threads,
     LoopThread, Callbacks
<1>2. Points'
  BY WorkAssumption DEF WInv, WorkReturns, Begin, Idle, Threads,
     LoopThread, Callbacks, TypeOK, Places, Points, Ops,
     RcExact, Refs, One, Pending, Ending, InPool
<1>3. Ops'
  BY WorkAssumption DEF WInv, WorkReturns, Begin, Idle, Threads,
     LoopThread, Callbacks, TypeOK, Places, Points, Ops,
     RcExact, Refs, One, Pending, Ending, InPool
<1>4. RcExact'
  BY WorkAssumption DEF WInv, WorkReturns, Begin, Idle, Threads,
     LoopThread, Callbacks, TypeOK, Places, Points, Ops,
     RcExact, Refs, One, Pending, Ending, InPool
<1>5. CrcExact'
  BY WorkAssumption DEF WInv, WorkReturns, Begin, Idle, Threads,
     LoopThread, Callbacks, TypeOK, Places, Points, Ops,
     RcExact, Refs, One, Pending, Ending, InPool, CrcExact
<1> QED
  BY <1>1, <1>2, <1>3, <1>4, <1>5 DEF WInv

\* WInv survives AfterCb: libuv's reference and the closure leave for the call.
LEMMA AfterCbPreserves ==
  ASSUME ~Overlap, WInv, NEW r \in Requests, AfterCb(r)
  PROVE  WInv'
<1>1. TypeOK'
  BY WorkAssumption DEF WInv, AfterCb, TypeOK, Places,
     Idle, Threads,
     LoopThread, Callbacks
<1>2. Points'
  BY WorkAssumption DEF WInv, AfterCb, Idle, Threads,
     LoopThread, Callbacks, TypeOK, Places, Points, Ops,
     RcExact, Refs, One, Pending, Ending, InPool
<1>3. Ops'
  BY WorkAssumption DEF WInv, AfterCb, Idle, Threads,
     LoopThread, Callbacks, TypeOK, Places, Points, Ops,
     RcExact, Refs, One, Pending, Ending, InPool
<1>4. RcExact'
  BY WorkAssumption DEF WInv, AfterCb, Idle, Threads,
     LoopThread, Callbacks, TypeOK, Places, Points, Ops,
     RcExact, Refs, One, Pending, Ending, InPool
<1>5. CrcExact'
  BY WorkAssumption DEF WInv, AfterCb, Idle, Threads,
     LoopThread, Callbacks, TypeOK, Places, Points, Ops,
     RcExact, Refs, One, Pending, Ending, InPool, CrcExact
<1> QED
  BY <1>1, <1>2, <1>3, <1>4, <1>5 DEF WInv

\* WInv survives AfterReturns: reading the count changes no reference.
LEMMA AfterReturnsPreserves ==
  ASSUME ~Overlap, WInv, NEW r \in Requests, AfterReturns(r)
  PROVE  WInv'
<1>1. TypeOK'
  <2>1. [kind |-> "param", on |-> r, read |-> rc[r]]
          \in [kind : {"none", "incref", "decref", "param"}, on : Requests \cup {None}, read : Int]
    BY DEF WInv, TypeOK
  <2>2. op' = [op EXCEPT ![LoopThread] = [kind |-> "param", on |-> r, read |-> rc[r]]]
    BY DEF AfterReturns, Begin
  <2>3. op' \in [Threads -> [kind : {"none", "incref", "decref", "param"},
                          on : Requests \cup {None}, read : Int]]
    BY <2>1, <2>2 DEF WInv, TypeOK, Threads, LoopThread
  <2> QED
    BY <2>3 DEF WInv, AfterReturns, Begin, TypeOK, Places, Callbacks
<1>2. Points'
  BY WorkAssumption DEF WInv, AfterReturns, Begin, Idle, Threads,
     LoopThread, Callbacks, TypeOK, Places, Points, Ops,
     RcExact, Refs, One, Pending, Ending, InPool
<1>3. Ops'
  BY WorkAssumption DEF WInv, AfterReturns, Begin, Idle, Threads,
     LoopThread, Callbacks, TypeOK, Places, Points, Ops,
     RcExact, Refs, One, Pending, Ending, InPool
<1>4. RcExact'
  BY WorkAssumption DEF WInv, AfterReturns, Begin, Idle, Threads,
     LoopThread, Callbacks, TypeOK, Places, Points, Ops,
     RcExact, Refs, One, Pending, Ending, InPool
<1>5. CrcExact'
  BY WorkAssumption DEF WInv, AfterReturns, Begin, Idle, Threads,
     LoopThread, Callbacks, TypeOK, Places, Points, Ops,
     RcExact, Refs, One, Pending, Ending, InPool, CrcExact
<1> QED
  BY <1>1, <1>2, <1>3, <1>4, <1>5 DEF WInv

\* WInv survives WorkRuns: the work function has its own reference; the count
\* was not zero, so
\* nothing is finalized.
LEMMA WorkRunsPreserves ==
  ASSUME ~Overlap, WInv, NEW r \in Requests, WorkRuns(r)
  PROVE  WInv'
<1>a. /\ op[r].on = r /\ op[r].kind = "incref"
      /\ op[r].read = rc[r] /\ rc[r] \in Int /\ rc[r] >= 1
  <2>1. op[r].kind = "incref" /\ op[r] # Idle /\ place[r] = "taken" /\ r \in Threads
    BY DEF WorkRuns, Idle, Threads
  <2>2. op[r].on = r /\ op[r].read = rc[r]
    BY <2>1 DEF WInv, Ops
  <2>3. rc[r] = Refs(r) /\ user[r] \in Nat /\ rc[r] \in Int
    BY DEF WInv, TypeOK, RcExact
  <2>4. rc[r] >= 1
    BY <2>1, <2>3 DEF Refs, One, Pending, Ending
  <2> QED
    BY <2>1, <2>2, <2>3, <2>4
<1>b. /\ op' = [op EXCEPT ![r] = Idle]
      /\ rc' = [rc EXCEPT ![r] = rc[r] + 1]
      /\ points' = points
      /\ crc' = crc
  <2>1. ~(op[r].read + 1 <= 0)
    BY <1>a
  <2>2. points' = [points EXCEPT ![r] = @ \ {}]
    BY <1>a, <2>1 DEF WorkRuns, End
  <2>3. points' = points
    BY <2>2 DEF WInv, TypeOK
  <2>4. crc' = [crc EXCEPT ![r] = DropAll(DropAll(@, {}), {})]
    BY <1>a, <2>1 DEF WorkRuns, End
  <2>5. DropAll(DropAll(crc[r], {}), {}) = crc[r]
    BY DropNone DEF WInv, TypeOK
  <2>6. crc' = crc
    BY <2>4, <2>5 DEF WInv, TypeOK
  <2> QED
    BY <1>a, <2>3, <2>6 DEF WorkRuns, End
<1>d. UNCHANGED <<user, current>>
  BY DEF WorkRuns
<1>1. TypeOK'
  BY <1>b, <1>d, WorkAssumption DEF WInv, WorkRuns, TypeOK, Places,
     Idle, Threads,
     LoopThread, Callbacks
<1>2. Points'
  BY <1>b, <1>d, WorkAssumption DEF WInv, WorkRuns, Idle, Threads,
     LoopThread, Callbacks, TypeOK, Places, Points, Ops,
     RcExact, Refs, One, Pending, Ending, InPool
<1>3. Ops'
  BY <1>b, <1>d, WorkAssumption DEF WInv, WorkRuns, Idle, Threads,
     LoopThread, Callbacks, TypeOK, Places, Points, Ops,
     RcExact, Refs, One, Pending, Ending, InPool
<1>4. RcExact'
  BY <1>b, <1>d, WorkAssumption DEF WInv, WorkRuns, Idle, Threads,
     LoopThread, Callbacks, TypeOK, Places, Points, Ops,
     RcExact, Refs, One, Pending, Ending, InPool
<1>5. CrcExact'
  BY <1>b, <1>d, WorkAssumption DEF WInv, WorkRuns, Idle, Threads,
     LoopThread, Callbacks, TypeOK, Places, Points, Ops,
     RcExact, Refs, One, Pending, Ending, InPool, CrcExact
<1> QED
  BY <1>1, <1>2, <1>3, <1>4, <1>5 DEF WInv

\* WInv survives WorkDone: the pool thread drops its reference and its closure;
\* libuv's reference
\* keeps the request from being finalized.
LEMMA WorkDonePreserves ==
  ASSUME ~Overlap, WInv, NEW r \in Requests, WorkDone(r)
  PROVE  WInv'
<1>a. /\ op[r].on = r /\ op[r].kind = "decref"
      /\ op[r].read = rc[r] /\ rc[r] \in Int /\ rc[r] >= 2
  BY WorkAssumption DEF WInv, WorkDone, Idle, Threads,
     LoopThread, Callbacks, TypeOK, Places, Points, Ops,
     RcExact, Refs, One, Pending, Ending, InPool
<1>b. /\ op' = [op EXCEPT ![r] = Idle]
      /\ rc' = [rc EXCEPT ![r] = rc[r] - 1]
      /\ points' = points
      /\ crc' = [crc EXCEPT ![r].work = @ - 1]
  <2>1. ~(op[r].read + -1 <= 0)
    BY <1>a
  <2>2. points' = [points EXCEPT ![r] = @ \ {}]
    BY <1>a, <2>1 DEF WorkDone, End
  <2>3. points' = points
    BY <2>2 DEF WInv, TypeOK
  <2>4. crc' = [crc EXCEPT ![r] = DropAll(DropAll(@, {"work"}), {})]
    BY <1>a, <2>1 DEF WorkDone, End
  <2>5. DropAll(DropAll(crc[r], {"work"}), {}) = [crc[r] EXCEPT !.work = @ - 1]
    BY DEF DropAll, WInv, TypeOK, Callbacks
  <2>6. crc' = [crc EXCEPT ![r] = [crc[r] EXCEPT !.work = @ - 1]]
    BY <2>4, <2>5
  <2> QED
    BY <1>a, <2>3, <2>6 DEF WorkDone, End
<1>c. crc[r].work = 1
  BY DEF WInv, WorkDone, CrcExact, InPool, Points, One
<1>d. UNCHANGED <<user, current>>
  BY DEF WorkDone
<1>1. TypeOK'
  <2>1. Idle \in [kind : {"none", "incref", "decref", "param"}, on : Requests \cup {None}, read : Int]
    BY DEF Idle
  <2>2. op' \in [Threads -> [kind : {"none", "incref", "decref", "param"},
                          on : Requests \cup {None}, read : Int]]
    BY <1>b, <2>1 DEF WInv, TypeOK
  <2>3. crc' \in [Requests -> [Callbacks -> {0, 1}]]
    BY <1>b, <1>c DEF WInv, TypeOK, Callbacks
  <2>4. rc' \in [Requests -> Int] /\ points' \in [Requests -> SUBSET Callbacks]
    BY <1>a, <1>b DEF WInv, TypeOK
  <2>5. place' \in [Requests -> Places] /\ current' \in Requests \cup {None} /\ user' \in [Requests -> Nat]
    BY <1>d DEF WInv, WorkDone, TypeOK, Places
  <2> QED
    BY <2>2, <2>3, <2>4, <2>5 DEF TypeOK
<1>2. Points'
  BY <1>b, <1>d, WorkAssumption DEF WInv, WorkDone, Idle, Threads,
     LoopThread, Callbacks, TypeOK, Places, Points, Ops,
     RcExact, Refs, One, Pending, Ending, InPool
<1>3. Ops'
  BY <1>b, <1>d, WorkAssumption DEF WInv, WorkDone, Idle, Threads,
     LoopThread, Callbacks, TypeOK, Places, Points, Ops,
     RcExact, Refs, One, Pending, Ending, InPool
<1>4. RcExact'
  BY <1>b, <1>d, WorkAssumption DEF WInv, WorkDone, Idle, Threads,
     LoopThread, Callbacks, TypeOK, Places, Points, Ops,
     RcExact, Refs, One, Pending, Ending, InPool
<1>5. CrcExact'
  BY <1>b, <1>d, WorkAssumption DEF WInv, WorkDone, Idle, Threads,
     LoopThread, Callbacks, TypeOK, Places, Points, Ops,
     RcExact, Refs, One, Pending, Ending, InPool, CrcExact
<1> QED
  BY <1>1, <1>2, <1>3, <1>4, <1>5 DEF WInv

\* WInv survives AfterEnds: libuv's reference goes with the callback's closure;
\* the request is
\* finalized if the program holds none.
LEMMA AfterEndsPreserves ==
  ASSUME ~Overlap, WInv, NEW r \in Requests, AfterEnds(r)
  PROVE  WInv'
<1> DEFINE fin == IF rc[r] = 1 THEN points[r] ELSE {}
<1>a. /\ op[LoopThread].on = r /\ op[LoopThread].kind = "param"
      /\ op[LoopThread].read = rc[r] /\ rc[r] \in Int /\ rc[r] >= 1
  BY WorkAssumption DEF WInv, AfterEnds, Idle, Threads,
     LoopThread, Callbacks, TypeOK, Places, Points, Ops,
     RcExact, Refs, One, Pending, Ending, InPool
<1>e. /\ op' = [op EXCEPT ![LoopThread] = Idle]
      /\ rc' = [rc EXCEPT ![r] = rc[r] - 1]
      /\ points' = [points EXCEPT ![r] = @ \ fin]
      /\ crc' = [crc EXCEPT ![r] = DropAll(DropAll(@, {"after"}), fin)]
  <2>1. (op[LoopThread].read + -1 <= 0) <=> rc[r] = 1
    BY <1>a
  <2> QED
    BY <1>a, <2>1 DEF AfterEnds, End
<1>c. /\ place[r] = "after" /\ points[r] \subseteq {"work"}
      /\ crc[r].after = 1 /\ crc[r].work = One("work" \in points[r])
  BY DEF WInv, AfterEnds, CrcExact, InPool, Points, One
<1>f. DropAll(DropAll(crc[r], {"after"}), fin)
        = [c \in Callbacks |-> crc[r][c] - One(c \in {"after"}) - One(c \in fin)]
  <2>1. crc[r] \in [Callbacks -> {0, 1}]
    BY DEF WInv, TypeOK
  <2> HIDE DEF fin
  <2> QED
    BY <2>1, DropBoth
<1>b. /\ op' = [op EXCEPT ![LoopThread] = Idle]
      /\ rc' = [rc EXCEPT ![r] = rc[r] - 1]
      /\ points' = [points EXCEPT ![r] = @ \ fin]
      /\ crc' = [crc EXCEPT ![r] =
                   [c \in Callbacks |-> crc[r][c] - One(c \in {"after"}) - One(c \in fin)]]
  BY <1>e, <1>f
<1>d. UNCHANGED user
  BY DEF AfterEnds
<1>1. TypeOK'
  <2>1. Idle \in [kind : {"none", "incref", "decref", "param"}, on : Requests \cup {None}, read : Int]
    BY DEF Idle
  <2>2. op' \in [Threads -> [kind : {"none", "incref", "decref", "param"},
                          on : Requests \cup {None}, read : Int]]
    BY <1>b, <2>1 DEF WInv, TypeOK
  <2>3. crc' \in [Requests -> [Callbacks -> {0, 1}]]
    BY <1>b, <1>c DEF One, WInv, TypeOK, Callbacks
  <2>4. rc' \in [Requests -> Int] /\ points' \in [Requests -> SUBSET Callbacks]
    BY <1>a, <1>b DEF WInv, TypeOK
  <2>5. place' \in [Requests -> Places] /\ current' \in Requests \cup {None} /\ user' \in [Requests -> Nat]
    BY <1>d DEF WInv, AfterEnds, TypeOK, Places
  <2> QED
    BY <2>2, <2>3, <2>4, <2>5 DEF TypeOK
<1>2. Points'
  BY <1>b, <1>d, WorkAssumption DEF WInv, AfterEnds, Idle, Threads,
     LoopThread, Callbacks, TypeOK, Places, Points, Ops,
     RcExact, Refs, One, Pending, Ending, InPool
<1>3. Ops'
  BY <1>b, <1>d, WorkAssumption DEF WInv, AfterEnds, Idle, Threads,
     LoopThread, Callbacks, TypeOK, Places, Points, Ops,
     RcExact, Refs, One, Pending, Ending, InPool
<1>4. RcExact'
  BY <1>b, <1>d, WorkAssumption DEF WInv, AfterEnds, Idle, Threads,
     LoopThread, Callbacks, TypeOK, Places, Points, Ops,
     RcExact, Refs, One, Pending, Ending, InPool
<1>5. CrcExact'
  BY <1>b, <1>d, <1>c, WorkAssumption DEF WInv, AfterEnds, Idle, Threads,
     LoopThread, Callbacks, TypeOK, Places, Points, Ops,
     RcExact, Refs, One, Pending, Ending, InPool, CrcExact
<1> QED
  BY <1>1, <1>2, <1>3, <1>4, <1>5 DEF WInv

\* WInv survives UserEnds: a copy adds a reference; a drop takes one away, and
\* with the last one
\* the finalizers drop the closures still pointed to.
LEMMA UserEndsPreserves ==
  ASSUME ~Overlap, WInv, UserEnds
  PROVE  WInv'
<1> DEFINE r == op[LoopThread].on
<1>0. /\ r \in Requests /\ op[LoopThread].kind \in {"incref", "decref"}
      /\ op[LoopThread].read = rc[r] /\ rc[r] \in Int /\ rc[r] >= 1
  BY WorkAssumption DEF WInv, UserEnds, Idle, Threads,
     LoopThread, Callbacks, TypeOK, Places, Points, Ops,
     RcExact, Refs, One, Pending, Ending, InPool
<1>1. CASE op[LoopThread].kind = "incref"
  <2>b. /\ op' = [op EXCEPT ![LoopThread] = Idle]
        /\ rc' = [rc EXCEPT ![r] = rc[r] + 1]
        /\ points' = points
        /\ crc' = crc
    <3>1. ~(op[LoopThread].read + 1 <= 0)
      BY <1>0
    <3>2. points' = [points EXCEPT ![r] = @ \ {}]
      BY <1>0, <1>1, <3>1 DEF UserEnds, End
    <3>3. points' = points
      BY <3>2 DEF WInv, TypeOK
    <3>4. crc' = [crc EXCEPT ![r] = DropAll(DropAll(@, {}), {})]
      BY <1>0, <1>1, <3>1 DEF UserEnds, End
    <3>5. DropAll(DropAll(crc[r], {}), {}) = crc[r]
      BY <1>0, DropNone DEF WInv, TypeOK
    <3>6. crc' = crc
      BY <3>4, <3>5 DEF WInv, TypeOK
    <3> QED
      BY <1>0, <1>1, <3>3, <3>6 DEF UserEnds, End
  <2>d. user' = [user EXCEPT ![r] = @ + 1] /\ UNCHANGED <<place, current>>
    BY <1>1 DEF UserEnds
  <2>1. TypeOK'
    <3>1. Idle \in [kind : {"none", "incref", "decref", "param"}, on : Requests \cup {None}, read : Int]
      BY DEF Idle
    <3>2. op' \in [Threads -> [kind : {"none", "incref", "decref", "param"},
                          on : Requests \cup {None}, read : Int]]
      BY <2>b, <3>1 DEF WInv, TypeOK
    <3>3. crc' \in [Requests -> [Callbacks -> {0, 1}]]
      BY <2>b, <1>0 DEF WInv, TypeOK, Callbacks, One
    <3>4. rc' \in [Requests -> Int] /\ points' \in [Requests -> SUBSET Callbacks]
      BY <1>0, <2>b DEF WInv, TypeOK
    <3>5. place' \in [Requests -> Places] /\ current' \in Requests \cup {None} /\ user' \in [Requests -> Nat]
      BY <1>0, <2>d DEF WInv, TypeOK
    <3> QED
      BY <3>2, <3>3, <3>4, <3>5 DEF TypeOK
  <2>2. Points'
    BY <2>b, <1>0, <1>1, <2>d, WorkAssumption DEF WInv, Idle, Threads,
     LoopThread, Callbacks, TypeOK, Places, Points, Ops,
     RcExact, Refs, One, Pending, Ending, InPool
  <2>3. Ops'
    BY <2>b, <1>0, <1>1, <2>d, WorkAssumption DEF WInv, Idle, Threads,
     LoopThread, Callbacks, TypeOK, Places, Points, Ops,
     RcExact, Refs, One, Pending, Ending, InPool
  <2>4. RcExact'
    BY <2>b, <1>0, <1>1, <2>d, WorkAssumption DEF WInv, Idle, Threads,
     LoopThread, Callbacks, TypeOK, Places, Points, Ops,
     RcExact, Refs, One, Pending, Ending, InPool
  <2>5. CrcExact'
    BY <2>b, <1>0, <1>1, <2>d, WorkAssumption DEF WInv, Idle, Threads,
     LoopThread, Callbacks, TypeOK, Places, Points, Ops,
     RcExact, Refs, One, Pending, Ending, InPool, CrcExact
  <2> QED
    BY <2>1, <2>2, <2>3, <2>4, <2>5 DEF WInv
<1>2. CASE op[LoopThread].kind = "decref"
  <2> DEFINE fin == IF rc[r] = 1 THEN points[r] ELSE {}
  <2>e. /\ op' = [op EXCEPT ![LoopThread] = Idle]
        /\ rc' = [rc EXCEPT ![r] = rc[r] - 1]
        /\ points' = [points EXCEPT ![r] = @ \ fin]
        /\ crc' = [crc EXCEPT ![r] = DropAll(DropAll(@, {}), fin)]
    <3>1. (op[LoopThread].read + -1 <= 0) <=> rc[r] = 1
      BY <1>0
    <3> QED
      BY <1>0, <1>2, <3>1 DEF UserEnds, End
  <2>c. rc[r] = 1 => ~Pending(r) /\ place[r] = "over" /\ ~InPool(r)
    BY <1>0, <1>2, WorkAssumption DEF WInv, Idle, Threads,
     LoopThread, Callbacks, TypeOK, Places, Points, Ops,
     RcExact, Refs, One, Pending, Ending, InPool
  <2>f. DropAll(DropAll(crc[r], {}), fin)
          = [c \in Callbacks |-> crc[r][c] - One(c \in {}) - One(c \in fin)]
    <3>1. crc[r] \in [Callbacks -> {0, 1}]
      BY <1>0 DEF WInv, TypeOK
    <3> HIDE DEF fin, r
    <3> QED
      BY <3>1, DropBoth
  <2>b. /\ op' = [op EXCEPT ![LoopThread] = Idle]
        /\ rc' = [rc EXCEPT ![r] = rc[r] - 1]
        /\ points' = [points EXCEPT ![r] = @ \ fin]
        /\ crc' = [crc EXCEPT ![r] =
                     [c \in Callbacks |-> crc[r][c] - One(c \in {}) - One(c \in fin)]]
    BY <2>e, <2>f
  <2>g. /\ "work" \in fin => crc[r].work = 1
        /\ "after" \in fin => crc[r].after = 1
    BY <1>0 DEF WInv, CrcExact, One
  <2>d. user' = user /\ UNCHANGED <<place, current>>
    BY <1>2 DEF UserEnds
  <2>1. TypeOK'
    <3>1. Idle \in [kind : {"none", "incref", "decref", "param"}, on : Requests \cup {None}, read : Int]
      BY DEF Idle
    <3>2. op' \in [Threads -> [kind : {"none", "incref", "decref", "param"},
                          on : Requests \cup {None}, read : Int]]
      BY <2>b, <3>1 DEF WInv, TypeOK
    <3>3. crc' \in [Requests -> [Callbacks -> {0, 1}]]
      BY <2>b, <2>c, <2>g, <1>0 DEF WInv, TypeOK, Callbacks, One
    <3>4. rc' \in [Requests -> Int] /\ points' \in [Requests -> SUBSET Callbacks]
      BY <1>0, <2>b DEF WInv, TypeOK
    <3>5. place' \in [Requests -> Places] /\ current' \in Requests \cup {None} /\ user' \in [Requests -> Nat]
      BY <1>0, <2>d DEF WInv, TypeOK
    <3> QED
      BY <3>2, <3>3, <3>4, <3>5 DEF TypeOK
  <2>2. Points'
    <3>1. rc'[r] = 0 <=> rc[r] = 1
      BY <1>0, <2>b DEF WInv, TypeOK
    <3>2. ASSUME NEW q \in Requests, q # r PROVE points'[q] = points[q] /\ rc'[q] = rc[q]
      BY <2>b, <3>2 DEF WInv, TypeOK
    <3>3. points'[r] = IF rc[r] = 1 THEN {} ELSE points[r]
      BY <1>0, <2>b DEF WInv, TypeOK
    <3>4. ASSUME NEW q \in Requests PROVE op'[q] = op[q]
      BY <2>b, WorkAssumption DEF WInv, TypeOK, Threads, LoopThread
    <3>5. place' = place /\ user' = user /\ current' = current
      BY <2>d
    <3> HIDE DEF r, fin
    <3>6. rc[r] # 1 => points'[r] = points[r] /\ rc'[r] # 0
      BY <3>1, <3>3
    <3>7. rc[r] = 1 => points'[r] = {} /\ place[r] = "over"
      BY <3>3, <2>c
    <3> QED
      BY <1>0, <3>2, <3>4, <3>5, <3>6, <3>7 DEF WInv, Points
  <2>3. Ops'
    BY <2>b, <2>c, <2>g, <1>0, <1>2, <2>d, WorkAssumption DEF WInv, Idle, Threads,
     LoopThread, Callbacks, TypeOK, Places, Points, Ops,
     RcExact, Refs, One, Pending, Ending, InPool
  <2>4. RcExact'
    BY <2>b, <2>c, <2>g, <1>0, <1>2, <2>d, WorkAssumption DEF WInv, Idle, Threads,
     LoopThread, Callbacks, TypeOK, Places, Points, Ops,
     RcExact, Refs, One, Pending, Ending, InPool
  <2>5. CrcExact'
    <3>1. ASSUME NEW q \in Requests, q # r PROVE points'[q] = points[q] /\ crc'[q] = crc[q]
      BY <2>b, <3>1 DEF WInv, TypeOK
    <3>2. place' = place
      BY <2>d
    <3>3. points'[r] = points[r] \ fin
      BY <1>0, <2>b DEF WInv, TypeOK
    <3>4. /\ crc'[r].work = crc[r].work - One("work" \in {}) - One("work" \in fin)
          /\ crc'[r].after = crc[r].after - One("after" \in {}) - One("after" \in fin)
      BY <1>0, <2>b DEF WInv, TypeOK, Callbacks
    <3>5. fin = {} \/ (fin = points[r] /\ ~InPool(r) /\ place[r] = "over")
      BY <2>c
    <3> HIDE DEF r, fin
    <3>6. CASE fin = {}
      <4>1. points'[r] = points[r]
        BY <3>3, <3>6
      <4>2. crc'[r].work = crc[r].work /\ crc'[r].after = crc[r].after
        BY <1>0, <3>4, <3>6 DEF One, WInv, TypeOK, Callbacks
      <4> QED
        BY <1>0, <3>1, <3>2, <4>1, <4>2 DEF WInv, CrcExact, InPool
    <3>7. CASE fin = points[r] /\ ~InPool(r) /\ place[r] = "over"
      <4>1. points'[r] = {}
        BY <3>3, <3>7
      <4>2. crc[r].work = One("work" \in points[r]) /\ crc[r].after = One("after" \in points[r])
        BY <1>0, <3>7 DEF WInv, CrcExact, One
      <4>3. crc'[r].work = 0 /\ crc'[r].after = 0
        BY <3>4, <3>7, <4>2 DEF One
      <4> QED
        BY <1>0, <3>1, <3>2, <3>7, <4>1, <4>3 DEF WInv, CrcExact, InPool, One
    <3> QED
      BY <3>5, <3>6, <3>7
  <2> QED
    BY <2>1, <2>2, <2>3, <2>4, <2>5 DEF WInv
<1> QED
  BY <1>0, <1>1, <1>2

------------------------------------------------------------------------------

\* WInv holds at the start, when no request is made.
LEMMA InitWInv == Init => WInv
  BY WorkAssumption DEF Init, WInv, TypeOK, Places, Points, Ops, RcExact, CrcExact,
     Refs, One, Pending, Ending, InPool, Idle, Threads, LoopThread, Callbacks

\* Every step keeps WInv when count operations do not overlap.
LEMMA NextWInv == ASSUME ~Overlap PROVE WInv /\ [Next]_vars => WInv'
<1> SUFFICES ASSUME WInv, [Next]_vars PROVE WInv'
  OBVIOUS
<1>1. ASSUME NEW r \in Requests, UserStep(r) PROVE WInv'
  BY <1>1, QueueWorkPreserves, DupPreserves, DropPreserves, CancelPreserves DEF UserStep
<1>2. ASSUME NEW r \in Requests, PoolStep(r) PROVE WInv'
  BY <1>2, TakePreserves, WorkCbPreserves, WorkRunsPreserves, WorkReturnsPreserves, WorkDonePreserves DEF PoolStep
<1>3. ASSUME NEW r \in Requests, LoopStep(r) PROVE WInv'
  BY <1>3, AfterCbPreserves, AfterReturnsPreserves, AfterEndsPreserves DEF LoopStep
<1>4. CASE UNCHANGED vars
  BY <1>4 DEF vars, WInv, TypeOK, Places, Points, Ops, RcExact, CrcExact,
     Refs, One, Pending, Ending, InPool, Threads, LoopThread, Callbacks
<1> QED
  BY <1>1, <1>2, <1>3, <1>4, UserEndsPreserves DEF Next, Terminated

\* For any number of requests and pool threads the counts of requests and
\* closures are exact at every moment (moonbit_uv_work_cb, moonbit_uv_cancel).
THEOREM WorkInductive == ASSUME ~Overlap PROVE Spec => []WInv
<1>1. Init => WInv
  BY InitWInv
<1>2. WInv /\ [Next]_vars => WInv'
  BY NextWInv
<1> QED
  BY <1>1, <1>2, PTL DEF Spec

\* Exact counts mean that nothing dangles: libuv, the program and a thread
\* that counts each account for a reference.
LEMMA WInvNoDangling == WInv => NoDangling
<1> SUFFICES ASSUME WInv, NEW r \in Requests
             PROVE  /\ Pending(r) \/ user[r] > 0 \/ (\E t \in Threads : op[t].on = r) => rc[r] > 0
                    /\ place[r] \in {"queued", "taken", "working", "leaving"} => crc[r].work = 1
                    /\ place[r] # "new" /\ Pending(r) => crc[r].after = 1
  BY DEF NoDangling
<1>1. Pending(r) \/ user[r] > 0 => rc[r] > 0
  BY DEF WInv, TypeOK, RcExact, Refs, One, Ending
<1>2. ASSUME NEW t \in Threads, op[t].on = r PROVE rc[r] > 0
  <2>1. op[t] # Idle
    BY <1>2, WorkAssumption DEF Idle
  <2>2. CASE t = LoopThread
    BY <1>2, <2>1, <2>2, WorkAssumption DEF WInv, TypeOK, Places, Ops, Points, RcExact, Refs,
       One, Pending, Ending, Threads, LoopThread
  <2>3. CASE t \in Requests
    BY <1>2, <2>1, <2>3 DEF WInv, TypeOK, Ops, RcExact, Refs, One, Pending, Ending
  <2> QED
    BY <2>2, <2>3 DEF Threads
<1>3. place[r] \in {"queued", "taken", "working", "leaving"} => crc[r].work = 1
  BY DEF WInv, Points, CrcExact, One, InPool, Callbacks
<1>4. Pending(r) => crc[r].after = 1
  BY DEF WInv, TypeOK, Places, Points, CrcExact, One, Pending, Callbacks
<1> QED
  BY <1>1, <1>2, <1>3, <1>4

\* A request that is over and that nobody holds has a count of zero, so data
\* points to nothing and neither closure is left.
LEMMA WInvNoLeak == WInv => NoLeak
<1> SUFFICES ASSUME WInv, NEW r \in Requests, place[r] = "over", user[r] = 0,
                    \A t \in Threads : op[t].on # r
             PROVE  rc[r] = 0 /\ \A c \in Callbacks : crc[r][c] = 0
  BY DEF NoLeak
<1>1. rc[r] = 0
  BY DEF WInv, RcExact, Refs, One, Pending, Ending, Threads
<1>2. points[r] = {}
  BY <1>1 DEF WInv, Points
<1>3. crc[r].work = 0 /\ crc[r].after = 0
  BY <1>2 DEF WInv, CrcExact, One, InPool
<1> QED
  BY <1>1, <1>3 DEF Callbacks

\* While the pool thread drops the work function's reference libuv holds one too.
LEMMA WInvNeverFreedByPool == WInv => NeverFreedByPool
  BY DEF WInv, TypeOK, Ops, RcExact, Refs, One, Pending, Ending, NeverFreedByPool, Idle,
     Threads

\* No request is used after it was freed, none is left over, and none is freed
\* on a pool thread, for any number of requests and threads.
THEOREM WorkMemorySafe ==
  ASSUME ~Overlap PROVE Spec => [](NoDangling /\ NoLeak /\ NeverFreedByPool)
<1>1. Spec => []WInv
  BY WorkInductive
<1>2. WInv => NoDangling /\ NoLeak /\ NeverFreedByPool
  BY WInvNoDangling, WInvNoLeak, WInvNeverFreedByPool
<1> QED
  BY <1>1, <1>2, PTL

(***************************************************************************)
(* What holds of every schedule, also when the counts of two threads       *)
(* overlap: up to the call of its work callback a request is counted by    *)
(* the loop thread alone.                                                  *)
(***************************************************************************)
\* A request that no pool thread has begun to count: the work callback, which
\* is where two threads first count one request, has not been entered.
Unbegun(r) == place[r] \in {"queued", "cancelled"} \/ (place[r] = "taken" /\ op[r] = Idle)

RaceTypes ==
  /\ place \in [Requests -> Places]
  /\ rc \in [Requests -> Int]
  /\ user \in [Requests -> Nat]
  /\ points \in [Requests -> SUBSET Callbacks]
  /\ crc \in [Requests -> [Callbacks -> Int]]
  /\ op \in [Threads -> [kind : {"none", "incref", "decref", "param"},
                         on : Requests \cup {None}, read : Int]]
  /\ current \in Requests \cup {None}

\* Who counts what: a pool thread its own request, while that is in the pool;
\* the loop thread a request that was queued or the one whose callback runs.
Counting ==
  /\ \A r \in Requests :
       /\ op[r] # Idle => op[r].on = r /\ place[r] \in {"taken", "leaving"}
       /\ place[r] = "leaving" => op[r] # Idle
  /\ op[LoopThread].kind \in {"incref", "decref"} =>
       op[LoopThread].on \in Requests /\ place[op[LoopThread].on] # "new"
  /\ op[LoopThread].kind = "param" =>
       op[LoopThread].on = current /\ current # None
  /\ op[LoopThread].kind = "none" => op[LoopThread] = Idle
  /\ current # None => place[current] = "after"
  /\ \A r \in Requests : place[r] = "new" => user[r] = 0

\* What is Unbegun is counted by the loop thread alone, which holds on to
\* libuv's reference and both closures.
UnbegunExact ==
  \A r \in Requests : Unbegun(r) =>
    /\ rc[r] = user[r] + 1 + Ending(LoopThread, r, {"decref"})
    /\ op[LoopThread].on = r => op[LoopThread].read = rc[r]
    /\ points[r] = Callbacks /\ crc[r] = [c \in Callbacks |-> 1]

RaceInv == RaceTypes /\ Counting /\ UnbegunExact

\* The initial state.
LEMMA RaceInvInit == Init => RaceInv
  BY WorkAssumption DEF Init, RaceInv, RaceTypes, Counting, UnbegunExact, Unbegun, Places, Idle,
     Threads, LoopThread

\* The loop thread is no pool thread, and a thread that is idle counts nothing.
LEMMA ThreadFacts ==
  /\ LoopThread \in Threads /\ \A r \in Requests : r \in Threads /\ r # LoopThread
  /\ Idle.kind = "none" /\ Idle.on = None /\ None \notin Requests
  BY WorkAssumption DEF Threads, LoopThread, Idle

\* What a count operation of the loop thread reads of a request that no pool
\* thread counts yet is its count.
LEMMA BeginKeeps ==
  ASSUME RaceInv, NEW kind \in {"incref", "decref", "param"}, NEW r \in Requests,
         Begin(LoopThread, kind, r), place[r] # "new",
         place' = place \/ (place[r] = "queued" /\ place' = [place EXCEPT ![r] = "cancelled"]),
         kind = "param" => r = current,
         user[r] > 0 \/ kind # "decref",
         user' = (IF kind = "decref" THEN [user EXCEPT ![r] = @ - 1] ELSE user),
         rc' = rc, points' = points, crc' = crc, current' = current
  PROVE  RaceInv'
<1>1. /\ op[LoopThread] = Idle
      /\ op' = [op EXCEPT ![LoopThread] = [kind |-> kind, on |-> r, read |-> rc[r]]]
  BY DEF Begin
<1>2. /\ op'[LoopThread].kind = kind /\ op'[LoopThread].on = r /\ op'[LoopThread].read = rc[r]
      /\ op'[LoopThread] # Idle
      /\ \A q \in Requests : op'[q] = op[q]
  BY <1>1, ThreadFacts DEF RaceInv, RaceTypes
<1>3. RaceTypes'
  <2>1. place' \in [Requests -> Places]
    BY DEF RaceInv, RaceTypes, Places
  <2>2. user' \in [Requests -> Nat]
    BY DEF RaceInv, RaceTypes
  <2>3. [kind |-> kind, on |-> r, read |-> rc[r]]
          \in [kind : {"none", "incref", "decref", "param"}, on : Requests \cup {None}, read : Int]
    BY DEF RaceInv, RaceTypes
  <2>4. op' \in [Threads -> [kind : {"none", "incref", "decref", "param"},
                            on : Requests \cup {None}, read : Int]]
    BY <1>1, <2>3 DEF RaceInv, RaceTypes
  <2> QED
    BY <2>1, <2>2, <2>4 DEF RaceInv, RaceTypes
<1>4. Counting'
  BY <1>2, ThreadFacts DEF RaceInv, RaceTypes, Counting
<1>5. ASSUME NEW q \in Requests, Unbegun(q)'
      PROVE  /\ rc'[q] = user'[q] + 1 + Ending(LoopThread, q, {"decref"})'
             /\ op'[LoopThread].on = q => op'[LoopThread].read = rc'[q]
             /\ points'[q] = Callbacks /\ crc'[q] = [c \in Callbacks |-> 1]
  <2>1. Unbegun(q)
    BY <1>2, <1>5 DEF Unbegun, RaceInv, RaceTypes
  <2>2. Ending(LoopThread, q, {"decref"}) = 0
    BY <1>1, ThreadFacts DEF Ending, One
  <2>3. rc[q] = user[q] + 1 /\ points[q] = Callbacks /\ crc[q] = [c \in Callbacks |-> 1]
    BY <2>1, <2>2 DEF RaceInv, UnbegunExact, RaceTypes
  <2>4. Ending(LoopThread, q, {"decref"})' = IF q = r /\ kind = "decref" THEN 1 ELSE 0
    BY <1>2 DEF Ending, One
  <2>5. user'[q] = user[q] - (IF q = r /\ kind = "decref" THEN 1 ELSE 0)
    BY DEF RaceInv, RaceTypes
  <2> QED
    BY <1>2, <2>3, <2>4, <2>5 DEF RaceInv, RaceTypes
<1> QED
  BY <1>3, <1>4, <1>5 DEF RaceInv, UnbegunExact

\* The program's calls.
LEMMA RaceUserStep ==
  ASSUME RaceInv, NEW r \in Requests, UserStep(r)
  PROVE  RaceInv'
<1>1. CASE QueueWork(r)
  <2>1. op' = op /\ op[LoopThread] = Idle /\ current' = current /\ place[r] = "new"
    BY <1>1 DEF QueueWork
  <2>2. \A q \in Requests : q # r =>
          /\ place'[q] = place[q] /\ rc'[q] = rc[q] /\ user'[q] = user[q]
          /\ points'[q] = points[q] /\ crc'[q] = crc[q]
    BY <1>1 DEF QueueWork, RaceInv, RaceTypes
  <2>3. /\ place'[r] = "queued" /\ rc'[r] = 2 /\ user'[r] = 1
        /\ points'[r] = Callbacks /\ crc'[r] = [c \in Callbacks |-> 1]
    BY <1>1 DEF QueueWork, RaceInv, RaceTypes
  <2>4. RaceTypes'
    <3>1. place' \in [Requests -> Places] /\ user' \in [Requests -> Nat] /\ rc' \in [Requests -> Int]
      BY <1>1 DEF QueueWork, RaceInv, RaceTypes, Places
    <3>2. points' \in [Requests -> SUBSET Callbacks]
      BY <1>1 DEF QueueWork, RaceInv, RaceTypes
    <3>3. crc' \in [Requests -> [Callbacks -> Int]]
      BY <1>1 DEF QueueWork, RaceInv, RaceTypes
    <3> QED
      BY <2>1, <3>1, <3>2, <3>3 DEF RaceInv, RaceTypes
  <2>5. Counting'
    <3>1. op'[LoopThread].kind = "none" /\ op'[LoopThread] = Idle
      BY <2>1, ThreadFacts
    <3>2. ASSUME NEW q \in Requests, op'[q] # Idle
          PROVE  op'[q].on = q /\ place'[q] \in {"taken", "leaving"}
      <4>1. op[q].on = q /\ place[q] \in {"taken", "leaving"}
        BY <2>1, <3>2 DEF RaceInv, Counting
      <4> QED
        BY <2>1, <2>2, <4>1
    <3>3. current' # None => place'[current'] = "after"
      BY <2>1, <2>2 DEF RaceInv, RaceTypes, Counting
    <3>4. \A q \in Requests : place'[q] = "new" => user'[q] = 0
      BY <2>2, <2>3 DEF RaceInv, Counting
    <3>5. \A q \in Requests : place'[q] = "leaving" => op'[q] # Idle
      BY <2>1, <2>2, <2>3 DEF RaceInv, Counting
    <3> QED
      BY <3>1, <3>2, <3>3, <3>4, <3>5 DEF Counting
  <2>6. UnbegunExact'
    BY <2>1, <2>2, <2>3, ThreadFacts DEF RaceInv, UnbegunExact, Unbegun, Ending, One
  <2> QED
    BY <2>4, <2>5, <2>6 DEF RaceInv
<1>2. CASE Dup(r)
  <2>1. user[r] > 0 /\ place[r] # "new"
    BY <1>2 DEF Dup, RaceInv, Counting
  <2> QED
    BY <1>2, <2>1, BeginKeeps DEF Dup
<1>3. CASE Drop(r)
  <2>1. user[r] > 0 /\ place[r] # "new"
    BY <1>3 DEF Drop, RaceInv, Counting
  <2> QED
    BY <1>3, <2>1, BeginKeeps DEF Drop
<1>4. CASE Cancel(r)
  <2>1. user[r] > 0 /\ place[r] # "new"
    BY <1>4 DEF Cancel, RaceInv, Counting
  <2>2. place' = place \/ (place[r] = "queued" /\ place' = [place EXCEPT ![r] = "cancelled"])
    BY <1>4 DEF Cancel, RaceInv, RaceTypes
  <2>3. /\ Begin(LoopThread, "decref", r) /\ user' = [user EXCEPT ![r] = @ - 1]
        /\ rc' = rc /\ points' = points /\ crc' = crc /\ current' = current
    BY <1>4 DEF Cancel
  <2> QED
    BY <2>1, <2>2, <2>3, BeginKeeps
<1> QED
  BY <1>1, <1>2, <1>3, <1>4 DEF UserStep

\* What a count operation of thread t writes.
LEMMA EndFacts ==
  ASSUME RaceInv, NEW t \in Threads, NEW d \in SUBSET Callbacks, op[t].on \in Requests, End(t, d)
  PROVE  /\ op' = [op EXCEPT ![t] = Idle]
         /\ \A q \in Requests : q # op[t].on =>
              rc'[q] = rc[q] /\ points'[q] = points[q] /\ crc'[q] = crc[q]
         /\ rc' \in [Requests -> Int] /\ points' \in [Requests -> SUBSET Callbacks]
         /\ crc' \in [Requests -> [Callbacks -> Int]]
         /\ op' \in [Threads -> [kind : {"none", "incref", "decref", "param"},
                                 on : Requests \cup {None}, read : Int]]
<1> DEFINE o == op[t].on
           count == op[t].read + (IF op[t].kind = "incref" THEN 1 ELSE -1)
           finalized == IF count <= 0 THEN points[o] ELSE {}
<1>1. /\ op' = [op EXCEPT ![t] = Idle] /\ rc' = [rc EXCEPT ![o] = count]
      /\ points' = [points EXCEPT ![o] = @ \ finalized]
      /\ crc' = [crc EXCEPT ![o] = DropAll(DropAll(@, d), finalized)]
  BY DEF End
<1>2. /\ o \in Requests /\ op[t].read \in Int /\ count \in Int
      /\ rc \in [Requests -> Int] /\ points \in [Requests -> SUBSET Callbacks]
      /\ crc \in [Requests -> [Callbacks -> Int]]
  BY DEF RaceInv, RaceTypes
<1>3. DropAll(DropAll(crc[o], d), finalized) \in [Callbacks -> Int]
  BY <1>2 DEF DropAll
<1> HIDE DEF o, count, finalized
<1>4. /\ rc' \in [Requests -> Int] /\ points' \in [Requests -> SUBSET Callbacks]
      /\ crc' \in [Requests -> [Callbacks -> Int]]
  BY <1>1, <1>2, <1>3
<1>5. \A q \in Requests : q # o =>
        rc'[q] = rc[q] /\ points'[q] = points[q] /\ crc'[q] = crc[q]
  BY <1>1, <1>2
<1>6. op' \in [Threads -> [kind : {"none", "incref", "decref", "param"},
                           on : Requests \cup {None}, read : Int]]
  BY <1>1 DEF RaceInv, RaceTypes, Idle
<1> QED
  BY <1>1, <1>4, <1>5, <1>6 DEF o

\* A copy or a drop of the program ends: what no pool thread counts stays exact
\* and keeps libuv's reference, so it is not finalized.
LEMMA RaceUserEnds == ASSUME RaceInv, UserEnds PROVE RaceInv'
<1> DEFINE o == op[LoopThread].on
           k == op[LoopThread].kind
<1>1. /\ k \in {"incref", "decref"} /\ o \in Requests /\ place[o] # "new" /\ End(LoopThread, {})
      /\ user' = (IF k = "incref" THEN [user EXCEPT ![o] = @ + 1] ELSE user)
      /\ place' = place /\ current' = current
  BY DEF UserEnds, RaceInv, Counting
<1>2. /\ op' = [op EXCEPT ![LoopThread] = Idle]
      /\ \A q \in Requests : q # o =>
           rc'[q] = rc[q] /\ points'[q] = points[q] /\ crc'[q] = crc[q]
      /\ rc' \in [Requests -> Int] /\ points' \in [Requests -> SUBSET Callbacks]
      /\ crc' \in [Requests -> [Callbacks -> Int]]
      /\ op' \in [Threads -> [kind : {"none", "incref", "decref", "param"},
                              on : Requests \cup {None}, read : Int]]
  BY <1>1, ThreadFacts, EndFacts
<1>3. op'[LoopThread] = Idle /\ \A q \in Requests : op'[q] = op[q]
  BY <1>2, ThreadFacts DEF RaceInv, RaceTypes
<1>4. RaceTypes'
  BY <1>1, <1>2 DEF RaceInv, RaceTypes
<1>5. Counting'
  BY <1>1, <1>3, ThreadFacts DEF RaceInv, RaceTypes, Counting
<1>6. ASSUME NEW q \in Requests, Unbegun(q)'
      PROVE  /\ rc'[q] = user'[q] + 1 + Ending(LoopThread, q, {"decref"})'
             /\ op'[LoopThread].on = q => op'[LoopThread].read = rc'[q]
             /\ points'[q] = Callbacks /\ crc'[q] = [c \in Callbacks |-> 1]
  <2>1. Unbegun(q)
    BY <1>1, <1>3, <1>6 DEF Unbegun
  <2>2. /\ rc[q] = user[q] + 1 + Ending(LoopThread, q, {"decref"})
        /\ o = q => op[LoopThread].read = rc[q]
        /\ points[q] = Callbacks /\ crc[q] = [c \in Callbacks |-> 1]
        /\ user[q] \in Nat
    BY <2>1 DEF RaceInv, UnbegunExact, RaceTypes
  <2>3. Ending(LoopThread, q, {"decref"})' = 0 /\ op'[LoopThread].on # q
    BY <1>3, ThreadFacts DEF Ending, One
  <2>4. CASE q # o
    <3>1. Ending(LoopThread, q, {"decref"}) = 0 /\ user'[q] = user[q]
      BY <1>1, <2>4 DEF Ending, One, RaceInv, RaceTypes
    <3> QED
      BY <1>2, <2>2, <2>3, <2>4, <3>1
  <2>5. CASE q = o
    <3> DEFINE count == op[LoopThread].read + (IF k = "incref" THEN 1 ELSE -1)
    <3>1. /\ rc' = [rc EXCEPT ![q] = count]
          /\ points' = [points EXCEPT ![q] = @ \ (IF count <= 0 THEN points[q] ELSE {})]
          /\ crc' = [crc EXCEPT ![q] = DropAll(DropAll(@, {}), IF count <= 0 THEN points[q] ELSE {})]
      BY <1>1, <2>5 DEF End
    <3>2. CASE k = "incref"
      <4>1. Ending(LoopThread, q, {"decref"}) = 0 /\ user'[q] = user[q] + 1
        BY <1>1, <2>5, <3>2 DEF Ending, One, RaceInv, RaceTypes
      <4>2. count = user[q] + 2
        BY <2>2, <2>5, <3>2, <4>1
      <4>3. ~(count <= 0) /\ count = user'[q] + 1 /\ user'[q] \in Nat
        BY <2>2, <4>1, <4>2
      <4> HIDE DEF count
      <4>4. rc'[q] = count /\ points'[q] = points[q] /\ crc'[q] = DropAll(DropAll(crc[q], {}), {})
        BY <3>1, <4>3 DEF RaceInv, RaceTypes
      <4>5. crc'[q] = crc[q]
        BY <2>2, <4>4, DropNone
      <4> QED
        BY <2>2, <2>3, <4>3, <4>4, <4>5
    <3>3. CASE k = "decref"
      <4>1. Ending(LoopThread, q, {"decref"}) = 1 /\ user'[q] = user[q]
        BY <1>1, <2>5, <3>3 DEF Ending, One, RaceInv, RaceTypes
      <4>2. count = user[q] + 1
        BY <2>2, <2>5, <3>3, <4>1
      <4>3. ~(count <= 0) /\ count = user'[q] + 1 /\ user'[q] \in Nat
        BY <2>2, <4>1, <4>2
      <4> HIDE DEF count
      <4>4. rc'[q] = count /\ points'[q] = points[q] /\ crc'[q] = DropAll(DropAll(crc[q], {}), {})
        BY <3>1, <4>3 DEF RaceInv, RaceTypes
      <4>5. crc'[q] = crc[q]
        BY <2>2, <4>4, DropNone
      <4> QED
        BY <2>2, <2>3, <4>3, <4>4, <4>5
    <3> QED
      BY <1>1, <3>2, <3>3
  <2> QED
    BY <2>4, <2>5
<1> QED
  BY <1>4, <1>5, <1>6 DEF RaceInv, UnbegunExact

\* The pool: the request leaves the part of its life in which it is exact with
\* the first count operation of its thread.
LEMMA RacePoolStep ==
  ASSUME RaceInv, NEW r \in Requests, PoolStep(r)
  PROVE  RaceInv'
<1>1. CASE Take(r)
  <2>1. /\ place[r] = "queued" /\ place' = [place EXCEPT ![r] = "taken"]
        /\ rc' = rc /\ user' = user /\ points' = points /\ crc' = crc /\ op' = op
        /\ current' = current
    BY <1>1 DEF Take
  <2>2. RaceTypes'
    BY <2>1 DEF RaceInv, RaceTypes, Places
  <2>3. Counting'
    BY <2>1 DEF RaceInv, RaceTypes, Counting
  <2>4. \A q \in Requests : Unbegun(q)' => Unbegun(q)
    BY <2>1 DEF Unbegun, RaceInv, RaceTypes
  <2>5. UnbegunExact'
    BY <2>1, <2>4 DEF RaceInv, UnbegunExact, Ending
  <2> QED
    BY <2>2, <2>3, <2>5 DEF RaceInv
<1>2. CASE WorkCb(r)
  <2>1. /\ place[r] = "taken" /\ place' = place /\ rc' = rc /\ user' = user /\ crc' = crc
        /\ current' = current /\ points' = [points EXCEPT ![r] = @ \ {"work"}]
        /\ op' = [op EXCEPT ![r] = [kind |-> "incref", on |-> r, read |-> rc[r]]]
    BY <1>2 DEF WorkCb, Begin
  <2>2. RaceTypes'
    <3>1. [kind |-> "incref", on |-> r, read |-> rc[r]]
            \in [kind : {"none", "incref", "decref", "param"}, on : Requests \cup {None}, read : Int]
      BY DEF RaceInv, RaceTypes
    <3>2. op' \in [Threads -> [kind : {"none", "incref", "decref", "param"},
                              on : Requests \cup {None}, read : Int]]
      BY <2>1, <3>1, ThreadFacts DEF RaceInv, RaceTypes
    <3> QED
      BY <2>1, <3>2 DEF RaceInv, RaceTypes
  <2>3. /\ op'[LoopThread] = op[LoopThread]
        /\ op'[r].kind = "incref" /\ op'[r].on = r
        /\ \A q \in Requests : q # r => op'[q] = op[q] /\ points'[q] = points[q]
    BY <2>1, ThreadFacts DEF RaceInv, RaceTypes
  <2>4. Counting'
    BY <2>1, <2>3 DEF RaceInv, Counting
  <2>5. \A q \in Requests : Unbegun(q)' => Unbegun(q) /\ q # r
    BY <2>1, <2>3, ThreadFacts DEF Unbegun
  <2>6. UnbegunExact'
    BY <2>1, <2>3, <2>5 DEF RaceInv, UnbegunExact, Ending
  <2> QED
    BY <2>2, <2>4, <2>6 DEF RaceInv
<1>3. CASE WorkReturns(r)
  <2>1. /\ place[r] = "working" /\ place' = [place EXCEPT ![r] = "leaving"]
        /\ rc' = rc /\ user' = user /\ crc' = crc /\ points' = points /\ current' = current
        /\ op' = [op EXCEPT ![r] = [kind |-> "decref", on |-> r, read |-> rc[r]]]
    BY <1>3 DEF WorkReturns, Begin
  <2>2. RaceTypes'
    <3>1. [kind |-> "decref", on |-> r, read |-> rc[r]]
            \in [kind : {"none", "incref", "decref", "param"}, on : Requests \cup {None}, read : Int]
      BY DEF RaceInv, RaceTypes
    <3>2. op' \in [Threads -> [kind : {"none", "incref", "decref", "param"},
                              on : Requests \cup {None}, read : Int]]
      BY <2>1, <3>1, ThreadFacts DEF RaceInv, RaceTypes
    <3>3. place' \in [Requests -> Places]
      BY <2>1 DEF RaceInv, RaceTypes, Places
    <3> QED
      BY <2>1, <3>2, <3>3 DEF RaceInv, RaceTypes
  <2>3. /\ op'[LoopThread] = op[LoopThread]
        /\ op'[r].on = r /\ place'[r] = "leaving" /\ op'[r].kind = "decref"
        /\ \A q \in Requests : q # r => op'[q] = op[q] /\ place'[q] = place[q]
    BY <2>1, ThreadFacts DEF RaceInv, RaceTypes
  <2>4. Counting'
    BY <2>1, <2>3, ThreadFacts DEF RaceInv, RaceTypes, Counting
  <2>5. \A q \in Requests : Unbegun(q)' => Unbegun(q)
    BY <2>1, <2>3 DEF Unbegun
  <2>6. UnbegunExact'
    BY <2>1, <2>3, <2>5 DEF RaceInv, UnbegunExact, Ending
  <2> QED
    BY <2>2, <2>4, <2>6 DEF RaceInv
<1>4. CASE WorkRuns(r) \/ WorkDone(r)
  <2>1. /\ place[r] \in {"taken", "leaving"} /\ user' = user /\ current' = current
        /\ \E p \in {"working", "done"} : place' = [place EXCEPT ![r] = p]
        /\ \E d \in SUBSET Callbacks : End(r, d)
    BY <1>4 DEF WorkRuns, WorkDone, Callbacks
  <2>2. op[r].on = r /\ r \in Threads
    <3>1. CASE WorkRuns(r)
      BY <3>1, ThreadFacts DEF WorkRuns, RaceInv, Counting
    <3>2. CASE WorkDone(r)
      BY <3>2, ThreadFacts DEF WorkDone, RaceInv, Counting
    <3> QED
      BY <1>4, <3>1, <3>2
  <2>3. PICK d \in SUBSET Callbacks : End(r, d)
    BY <2>1
  <2>4. PICK p \in {"working", "done"} : place' = [place EXCEPT ![r] = p]
    BY <2>1
  <2>5. /\ op' = [op EXCEPT ![r] = Idle]
        /\ \A q \in Requests : q # r =>
             rc'[q] = rc[q] /\ points'[q] = points[q] /\ crc'[q] = crc[q]
        /\ rc' \in [Requests -> Int] /\ points' \in [Requests -> SUBSET Callbacks]
        /\ crc' \in [Requests -> [Callbacks -> Int]]
        /\ op' \in [Threads -> [kind : {"none", "incref", "decref", "param"},
                                on : Requests \cup {None}, read : Int]]
    BY <2>2, <2>3, EndFacts
  <2>6. RaceTypes'
    BY <2>1, <2>4, <2>5 DEF RaceInv, RaceTypes, Places
  <2>7. /\ op'[LoopThread] = op[LoopThread] /\ op'[r] = Idle /\ place'[r] \in {"working", "done"}
        /\ \A q \in Requests : q # r => op'[q] = op[q] /\ place'[q] = place[q]
    BY <2>4, <2>5, ThreadFacts DEF RaceInv, RaceTypes
  <2>8. Counting'
    BY <2>1, <2>7, ThreadFacts DEF RaceInv, RaceTypes, Counting
  <2>9. \A q \in Requests : Unbegun(q)' => Unbegun(q) /\ q # r
    BY <2>7 DEF Unbegun
  <2>10. UnbegunExact'
    BY <2>1, <2>5, <2>7, <2>9 DEF RaceInv, UnbegunExact, Ending
  <2> QED
    BY <2>6, <2>8, <2>10 DEF RaceInv
<1> QED
  BY <1>1, <1>2, <1>3, <1>4 DEF PoolStep

\* The loop: what it runs is done, cancelled or answered.
LEMMA RaceLoopStep ==
  ASSUME RaceInv, NEW r \in Requests, LoopStep(r)
  PROVE  RaceInv'
<1>1. CASE AfterCb(r)
  <2>1. /\ place[r] \in {"done", "cancelled"} /\ current = None /\ current' = r
        /\ place' = [place EXCEPT ![r] = "after"] /\ points' = [points EXCEPT ![r] = @ \ {"after"}]
        /\ rc' = rc /\ user' = user /\ crc' = crc /\ op' = op /\ op[LoopThread] = Idle
    BY <1>1 DEF AfterCb
  <2>2. RaceTypes'
    <3>1. place' \in [Requests -> Places]
      BY <2>1 DEF RaceInv, RaceTypes, Places
    <3> QED
      BY <2>1, <3>1 DEF RaceInv, RaceTypes
  <2>3. /\ place'[r] = "after"
        /\ \A q \in Requests : q # r => points'[q] = points[q] /\ place'[q] = place[q]
    BY <2>1 DEF RaceInv, RaceTypes
  <2>4. Counting'
    <3>1. op'[LoopThread].kind = "none" /\ op'[LoopThread] = Idle
      BY <2>1, ThreadFacts
    <3>2. \A q \in Requests :
            /\ op'[q] # Idle => op'[q].on = q /\ place'[q] \in {"taken", "leaving"}
            /\ place'[q] = "leaving" => op'[q] # Idle
            /\ place'[q] = "new" => user'[q] = 0
      BY <2>1, <2>3 DEF RaceInv, Counting
    <3> QED
      BY <2>1, <2>3, <3>1, <3>2 DEF Counting
  <2>5. \A q \in Requests : Unbegun(q)' => Unbegun(q) /\ q # r
    BY <2>1, <2>3 DEF Unbegun
  <2>6. UnbegunExact'
    BY <2>1, <2>3, <2>5 DEF RaceInv, UnbegunExact, Ending
  <2> QED
    BY <2>2, <2>4, <2>6 DEF RaceInv
<1>2. CASE AfterReturns(r)
  <2>1. /\ current = r /\ Begin(LoopThread, "param", r)
        /\ place' = place /\ rc' = rc /\ user' = user /\ points' = points /\ crc' = crc
        /\ current' = current
    BY <1>2 DEF AfterReturns
  <2>2. place[r] # "new"
    BY <2>1, ThreadFacts DEF RaceInv, Counting
  <2> QED
    BY <2>1, <2>2, BeginKeeps
<1>3. CASE AfterEnds(r)
  <2>1. /\ current = r /\ op[LoopThread].kind = "param" /\ End(LoopThread, {"after"})
        /\ place' = [place EXCEPT ![r] = "over"] /\ current' = None /\ user' = user
    BY <1>3 DEF AfterEnds
  <2>2. op[LoopThread].on = r /\ place[r] = "after" /\ {"after"} \in SUBSET Callbacks
    BY <2>1, ThreadFacts DEF RaceInv, Counting, Callbacks
  <2>3. /\ op' = [op EXCEPT ![LoopThread] = Idle]
        /\ \A q \in Requests : q # r =>
             rc'[q] = rc[q] /\ points'[q] = points[q] /\ crc'[q] = crc[q]
        /\ rc' \in [Requests -> Int] /\ points' \in [Requests -> SUBSET Callbacks]
        /\ crc' \in [Requests -> [Callbacks -> Int]]
        /\ op' \in [Threads -> [kind : {"none", "incref", "decref", "param"},
                                on : Requests \cup {None}, read : Int]]
    BY <2>1, <2>2, ThreadFacts, EndFacts
  <2>4. RaceTypes'
    <3>1. place' \in [Requests -> Places]
      BY <2>1 DEF RaceInv, RaceTypes, Places
    <3> QED
      BY <2>1, <2>3, <3>1 DEF RaceInv, RaceTypes
  <2>5. /\ op'[LoopThread] = Idle /\ place'[r] = "over"
        /\ \A q \in Requests : op'[q] = op[q] /\ (q # r => place'[q] = place[q])
    BY <2>1, <2>3, ThreadFacts DEF RaceInv, RaceTypes
  <2>6. Counting'
    <3>1. op'[LoopThread].kind = "none"
      BY <2>5, ThreadFacts
    <3>2. \A q \in Requests :
            /\ op'[q] # Idle => op'[q].on = q /\ place'[q] \in {"taken", "leaving"}
            /\ place'[q] = "leaving" => op'[q] # Idle
            /\ place'[q] = "new" => user'[q] = 0
      BY <2>1, <2>2, <2>5 DEF RaceInv, Counting
    <3> QED
      BY <2>1, <2>5, <3>1, <3>2 DEF Counting
  <2>7. \A q \in Requests : Unbegun(q)' => Unbegun(q) /\ q # r
    BY <2>5 DEF Unbegun
  <2>8. UnbegunExact'
    <3> SUFFICES ASSUME NEW q \in Requests, Unbegun(q)'
                 PROVE  /\ rc'[q] = user'[q] + 1 + Ending(LoopThread, q, {"decref"})'
                        /\ op'[LoopThread].on = q => op'[LoopThread].read = rc'[q]
                        /\ points'[q] = Callbacks /\ crc'[q] = [c \in Callbacks |-> 1]
      BY DEF UnbegunExact
    <3>1. Unbegun(q) /\ q # r
      BY <2>7
    <3>2. Ending(LoopThread, q, {"decref"}) = 0 /\ Ending(LoopThread, q, {"decref"})' = 0
      BY <2>2, <2>5, <3>1, ThreadFacts DEF Ending, One
    <3>3. op'[LoopThread].on # q
      BY <2>5, ThreadFacts
    <3> QED
      BY <2>1, <2>3, <3>1, <3>2, <3>3 DEF RaceInv, UnbegunExact
  <2> QED
    BY <2>4, <2>6, <2>8 DEF RaceInv
<1> QED
  BY <1>1, <1>2, <1>3 DEF LoopStep

\* RaceInv survives every step.
LEMMA RaceInvNext == RaceInv /\ [Next]_vars => RaceInv'
<1>1. ASSUME RaceInv, UNCHANGED vars PROVE RaceInv'
  BY <1>1 DEF vars, RaceInv, RaceTypes, Counting, UnbegunExact, Unbegun, Ending
<1> QED
  BY <1>1, RaceUserStep, RacePoolStep, RaceLoopStep, RaceUserEnds DEF Next, Terminated

\* Counting on two threads at a time does no harm before a thread of the pool
\* calls the work closure: until then, and for good if it is cancelled first,
\* the request and both of its closures are there (work.c:57-64; a moonbit_incref
\* or moonbit_decref is a read and a write that two threads may interleave).
THEOREM WorkUnbegun ==
  Spec => [](\A r \in Requests : Unbegun(r) =>
               rc[r] > 0 /\ points[r] = Callbacks /\ \A c \in Callbacks : crc[r][c] = 1)
<1>1. RaceInv => \A r \in Requests : Unbegun(r) =>
        rc[r] > 0 /\ points[r] = Callbacks /\ \A c \in Callbacks : crc[r][c] = 1
  <2> SUFFICES ASSUME RaceInv, NEW r \in Requests, Unbegun(r)
               PROVE  rc[r] > 0 /\ points[r] = Callbacks /\ \A c \in Callbacks : crc[r][c] = 1
    OBVIOUS
  <2>1. /\ rc[r] = user[r] + 1 + Ending(LoopThread, r, {"decref"}) /\ user[r] \in Nat
        /\ points[r] = Callbacks /\ crc[r] = [c \in Callbacks |-> 1]
    BY DEF RaceInv, RaceTypes, UnbegunExact
  <2>2. Ending(LoopThread, r, {"decref"}) \in {0, 1}
    BY DEF Ending, One
  <2> QED
    BY <2>1, <2>2
<1>2. Init => RaceInv
  BY RaceInvInit
<1>3. RaceInv /\ [Next]_vars => RaceInv'
  BY RaceInvNext
<1> QED
  BY <1>1, <1>2, <1>3, PTL DEF Spec

\* No step starts cancelled work or cancels started work.
LEMMA CancelStep ==
  ASSUME RaceInv, RaceInv', [Next]_vars, NEW r \in Requests
  PROVE  /\ place[r] = "cancelled" => "work" \in points[r] /\ place'[r] \in {"cancelled", "after"}
         /\ place'[r] = "cancelled" => "work" \in points'[r]
<1>1. place[r] = "cancelled" => "work" \in points[r]
  BY DEF RaceInv, UnbegunExact, Unbegun, Callbacks
<1>2. place[r] = "cancelled" => place'[r] \in {"cancelled", "after"}
  <2>1. ASSUME NEW q \in Requests, UserStep(q), place[r] = "cancelled" PROVE place'[r] = "cancelled"
    BY <2>1 DEF RaceInv, RaceTypes, UserStep, QueueWork, Dup, Drop, Cancel
  <2>2. ASSUME NEW q \in Requests, PoolStep(q), place[r] = "cancelled" PROVE place'[r] = "cancelled"
    BY <2>2 DEF RaceInv, RaceTypes, PoolStep, Take, WorkCb, WorkRuns, WorkReturns, WorkDone
  <2>3. ASSUME NEW q \in Requests, LoopStep(q), place[r] = "cancelled"
        PROVE  place'[r] \in {"cancelled", "after"}
    <3>1. CASE AfterCb(q)
      BY <2>3, <3>1 DEF RaceInv, RaceTypes, AfterCb
    <3>2. CASE AfterReturns(q)
      BY <2>3, <3>2 DEF AfterReturns
    <3>3. CASE AfterEnds(q)
      <4>1. place[q] = "after" /\ place' = [place EXCEPT ![q] = "over"]
        BY <3>3, ThreadFacts DEF RaceInv, Counting, AfterEnds
      <4> QED
        BY <2>3, <4>1 DEF RaceInv, RaceTypes
    <3> QED
      BY <2>3, <3>1, <3>2, <3>3 DEF LoopStep
  <2> QED
    BY <2>1, <2>2, <2>3 DEF Next, UserEnds, Terminated, vars
<1>3. place'[r] = "cancelled" => "work" \in points'[r]
  BY DEF RaceInv, UnbegunExact, Unbegun, Callbacks
<1> QED
  BY <1>1, <1>2, <1>3

\* uv_cancel and the pool agree on who has a request, for any number of both
\* and whatever counts overlap: what was cancelled never runs, what runs is
\* never reported as cancelled.
THEOREM WorkCancel == Spec => CancelledNeverRuns
<1>1. Init => RaceInv
  BY RaceInvInit
<1>2. RaceInv /\ [Next]_vars => RaceInv'
  BY RaceInvNext
<1>3. RaceInv /\ RaceInv' /\ [Next]_vars =>
        [\A r \in Requests :
           /\ place[r] = "cancelled" => "work" \in points[r] /\ place'[r] \in {"cancelled", "after"}
           /\ place'[r] = "cancelled" => "work" \in points'[r]]_vars
  BY CancelStep
<1> QED
  BY <1>1, <1>2, <1>3, PTL DEF Spec, CancelledNeverRuns

====

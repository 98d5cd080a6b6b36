------------------------------- MODULE UvWork -------------------------------
(***************************************************************************)
(* Work on libuv's thread pool (work.c, work.mbt, req.c): a request is     *)
(* queued, a thread of the pool runs its work callback, the loop thread    *)
(* its after callback; uv_cancel takes a request back that no thread of    *)
(* the pool has taken yet.                                                 *)
(*                                                                         *)
(* The request is a MoonBit object that both threads count references to.  *)
(* The counts are not atomic: incref and decref read the count and write   *)
(* it back, and what another thread wrote in between is lost.  With        *)
(* Overlap FALSE the count operations of different threads never meet, the *)
(* schedules on which the scheme can be judged by itself.                  *)
(*                                                                         *)
(* The pool, its queue and uv_cancel are libuv's; so is the loop, which    *)
(* runs one after callback at a time.                                      *)
(***************************************************************************)
EXTENDS Integers, FiniteSets

CONSTANTS
  Requests,   \* uv_work_t objects the program may make
  PoolSize,   \* threads of the pool (UV_THREADPOOL_SIZE)
  None,       \* no request
  MaxRefs,    \* bound: references to one request in MoonBit variables
  Overlap     \* may the count operations of two threads overlap?

ASSUME WorkAssumption ==
  /\ None \notin Requests
  /\ PoolSize \in Nat
  /\ MaxRefs \in Nat
  /\ Overlap \in BOOLEAN

Callbacks == {"work", "after"}

VARIABLES
  place,   \* where a request is
  rc,      \* Moonbit_object_header(req)->rc; 0 before make and once freed
  user,    \* references to it held by the MoonBit program
  points,  \* the closures data->work_cb and data->after_cb that are not NULL
  crc,     \* references to each closure of a request
  op,      \* the count operation a thread is in: its kind, its request and
           \* the count it read
  current  \* the request whose after callback the loop thread runs, or None

vars == <<place, rc, user, points, crc, op, current>>

\* The pool thread of a request is named by it; one thread runs the loop.
LoopThread == None
Threads == Requests \cup {LoopThread}

Idle == [kind |-> "none", on |-> None, read |-> 0]

Init ==
  /\ place = [r \in Requests |-> "new"]
  /\ rc = [r \in Requests |-> 0]
  /\ user = [r \in Requests |-> 0]
  /\ points = [r \in Requests |-> {}]
  /\ crc = [r \in Requests |-> [c \in Callbacks |-> 0]]
  /\ op = [t \in Threads |-> Idle]
  /\ current = None

------------------------------------------------------------------------------
(* moonbit_incref and moonbit_decref.                                      *)

\* The count is read.
Begin(t, kind, r) ==
  /\ op[t] = Idle
  /\ Overlap \/ \A u \in Threads : op[u] = Idle
  /\ op' = [op EXCEPT ![t] = [kind |-> kind, on |-> r, read |-> rc[r]]]

DropAll(counts, cs) == [c \in Callbacks |-> counts[c] - IF c \in cs THEN 1 ELSE 0]

\* The count is written back; at zero moonbit_uv_work_finalize and, for its
\* data, moonbit_uv_work_data_finalize drop the closures still pointed to.
\* `dropped` are closures that thread t drops on its own account.
End(t, dropped) ==
  LET r == op[t].on
      count == op[t].read + (IF op[t].kind = "incref" THEN 1 ELSE -1)
      finalized == IF count <= 0 THEN points[r] ELSE {}
  IN /\ op' = [op EXCEPT ![t] = Idle]
     /\ rc' = [rc EXCEPT ![r] = count]
     /\ points' = [points EXCEPT ![r] = @ \ finalized]
     /\ crc' = [crc EXCEPT ![r] = DropAll(DropAll(@, dropped), finalized)]

------------------------------------------------------------------------------
(* The program, on the loop thread: main or a callback.                    *)

\* Mutant: queue_work returns the reference it has moved into libuv.
QueueWorkMoves(r) ==
  /\ op[LoopThread] = Idle
  /\ place[r] = "new"
  /\ place' = [place EXCEPT ![r] = "queued"]
  /\ rc' = [rc EXCEPT ![r] = 1]
  /\ user' = [user EXCEPT ![r] = 1]
  /\ points' = [points EXCEPT ![r] = Callbacks]
  /\ crc' = [crc EXCEPT ![r] = [c \in Callbacks |-> 1]]
  /\ UNCHANGED <<op, current>>

\* Loop::queue_work: one reference goes to libuv, one is returned.
QueueWork(r) ==
  /\ op[LoopThread] = Idle
  /\ place[r] = "new"
  /\ place' = [place EXCEPT ![r] = "queued"]
  /\ rc' = [rc EXCEPT ![r] = 2]
  /\ user' = [user EXCEPT ![r] = 1]
  /\ points' = [points EXCEPT ![r] = Callbacks]
  /\ crc' = [crc EXCEPT ![r] = [c \in Callbacks |-> 1]]
  /\ UNCHANGED <<op, current>>

Dup(r) ==
  /\ user[r] \in 1 .. MaxRefs - 1
  /\ Begin(LoopThread, "incref", r)
  /\ UNCHANGED <<place, rc, user, points, crc, current>>

\* A variable goes, or a call such as type_() consumes it.
Drop(r) ==
  /\ user[r] > 0
  /\ Begin(LoopThread, "decref", r)
  /\ user' = [user EXCEPT ![r] = @ - 1]
  /\ UNCHANGED <<place, rc, points, crc, current>>

\* Mutant: the request is taken back without a trace.
CancelLoses(r) ==
  /\ user[r] > 0
  /\ Begin(LoopThread, "decref", r)
  /\ user' = [user EXCEPT ![r] = @ - 1]
  /\ place' = [place EXCEPT ![r] = IF @ = "queued" THEN "over" ELSE @]
  /\ UNCHANGED <<rc, points, crc, current>>

\* Mutant: a request whose work has begun is taken back as well.
CancelRunning(r) ==
  /\ user[r] > 0
  /\ Begin(LoopThread, "decref", r)
  /\ user' = [user EXCEPT ![r] = @ - 1]
  /\ place' = [place EXCEPT ![r] = IF @ \in {"queued", "working"} THEN "cancelled" ELSE @]
  /\ UNCHANGED <<rc, points, crc, current>>

\* cancel(): uv_cancel, which refuses when the request is not in the pool's
\* queue; either way the parameter is dropped.
Cancel(r) ==
  /\ user[r] > 0
  /\ Begin(LoopThread, "decref", r)
  /\ user' = [user EXCEPT ![r] = @ - 1]
  /\ place' = [place EXCEPT ![r] = IF @ = "queued" THEN "cancelled" ELSE @]
  /\ UNCHANGED <<rc, points, crc, current>>

\* The count operation of a copy or a drop ends.
UserEnds ==
  /\ op[LoopThread].kind \in {"incref", "decref"}
  /\ End(LoopThread, {})
  /\ user' = IF op[LoopThread].kind = "incref"
             THEN [user EXCEPT ![op[LoopThread].on] = @ + 1] ELSE user
  /\ UNCHANGED <<place, current>>

------------------------------------------------------------------------------
(* The pool.                                                               *)

InPool(r) == place[r] \in {"taken", "working", "leaving"}

\* A thread of the pool takes the request off the queue.
Take(r) ==
  /\ place[r] = "queued"
  /\ Cardinality({q \in Requests : InPool(q)}) < PoolSize
  /\ place' = [place EXCEPT ![r] = "taken"]
  /\ UNCHANGED <<rc, user, points, crc, op, current>>

\* Mutant: the request is lent to its work callback, which drops it.
WorkCbLends(r) ==
  /\ place[r] = "taken"
  /\ op[r] = Idle
  /\ points' = [points EXCEPT ![r] = @ \ {"work"}]
  /\ place' = [place EXCEPT ![r] = "working"]
  /\ UNCHANGED <<rc, user, crc, op, current>>

\* Mutant: data still points to the closure that is moved into its call.
WorkCbKeeps(r) ==
  /\ place[r] = "taken"
  /\ Begin(r, "incref", r)
  /\ UNCHANGED <<place, rc, user, points, crc, current>>

\* moonbit_uv_work_cb: the closure is moved into its call, the request shared
\* with it.
WorkCb(r) ==
  /\ place[r] = "taken"
  /\ Begin(r, "incref", r)
  /\ points' = [points EXCEPT ![r] = @ \ {"work"}]
  /\ UNCHANGED <<place, rc, user, crc, current>>

WorkRuns(r) ==
  /\ place[r] = "taken"
  /\ op[r].kind = "incref"
  /\ End(r, {})
  /\ place' = [place EXCEPT ![r] = "working"]
  /\ UNCHANGED <<user, current>>

\* The closure drops the parameter it does not use, at some point of its run.
WorkReturns(r) ==
  /\ place[r] = "working"
  /\ Begin(r, "decref", r)
  /\ place' = [place EXCEPT ![r] = "leaving"]
  /\ UNCHANGED <<rc, user, points, crc, current>>

\* The thread drops the closure and posts the request to the loop.
WorkDone(r) ==
  /\ place[r] = "leaving"
  /\ End(r, {"work"})
  /\ place' = [place EXCEPT ![r] = "done"]
  /\ UNCHANGED <<user, current>>

------------------------------------------------------------------------------
(* The loop.                                                               *)

\* moonbit_uv_after_work_cb: closure and request are moved into the call.
AfterCb(r) ==
  /\ current = None
  /\ op[LoopThread] = Idle
  /\ place[r] \in {"done", "cancelled"}
  /\ points' = [points EXCEPT ![r] = @ \ {"after"}]
  /\ place' = [place EXCEPT ![r] = "after"]
  /\ current' = r
  /\ UNCHANGED <<rc, user, crc, op>>

\* Mutant: the after callback's parameter is not dropped.
AfterReturnsKeeps(r) ==
  /\ current = r
  /\ op[LoopThread] = Idle
  /\ place' = [place EXCEPT ![r] = "over"]
  /\ crc' = [crc EXCEPT ![r].after = @ - 1]
  /\ current' = None
  /\ UNCHANGED <<rc, user, points, op>>

\* The callback drops its parameter.
AfterReturns(r) ==
  /\ current = r
  /\ Begin(LoopThread, "param", r)
  /\ UNCHANGED <<place, rc, user, points, crc, current>>

AfterEnds(r) ==
  /\ current = r
  /\ op[LoopThread].kind = "param"
  /\ End(LoopThread, {"after"})
  /\ place' = [place EXCEPT ![r] = "over"]
  /\ current' = None
  /\ UNCHANGED user

------------------------------------------------------------------------------
UserStep(r) == QueueWork(r) \/ Dup(r) \/ Drop(r) \/ Cancel(r)

PoolStep(r) == Take(r) \/ WorkCb(r) \/ WorkRuns(r) \/ WorkReturns(r) \/ WorkDone(r)

LoopStep(r) == AfterCb(r) \/ AfterReturns(r) \/ AfterEnds(r)

Terminated ==
  /\ \A r \in Requests : place[r] = "over" /\ user[r] = 0
  /\ op[LoopThread] = Idle
  /\ UNCHANGED vars

Next ==
  \/ \E r \in Requests : UserStep(r) \/ PoolStep(r) \/ LoopStep(r)
  \/ UserEnds
  \/ Terminated

Spec == Init /\ [][Next]_vars

(***************************************************************************)
(* Count operations end, work functions and callbacks return, and the      *)
(* program runs its loop (uv_run returns only when no request is pending): *)
(* a step of the pool or the loop that is interrupted again and again by   *)
(* the program's own counting is taken in the end.                         *)
(***************************************************************************)
Fairness ==
  /\ WF_vars(UserEnds)
  /\ \A r \in Requests :
       /\ SF_vars(Take(r)) /\ SF_vars(WorkCb(r)) /\ WF_vars(WorkRuns(r))
       /\ SF_vars(WorkReturns(r)) /\ WF_vars(WorkDone(r))
       /\ SF_vars(AfterCb(r)) /\ SF_vars(AfterReturns(r)) /\ WF_vars(AfterEnds(r))

FairSpec == Spec /\ Fairness

------------------------------------------------------------------------------
Places ==
  {"new", "queued", "taken", "working", "leaving", "done", "cancelled", "after", "over"}

TypeOK ==
  /\ place \in [Requests -> Places]
  /\ rc \in [Requests -> Int]
  /\ user \in [Requests -> Nat]
  /\ points \in [Requests -> SUBSET Callbacks]
  /\ crc \in [Requests -> [Callbacks -> {0, 1}]]
  /\ op \in [Threads -> [kind : {"none", "incref", "decref", "param"},
                         on : Requests \cup {None}, read : Int]]
  /\ current \in Requests \cup {None}

\* libuv has the address of the request or the callback its reference.
Pending(r) == place[r] \notin {"new", "over"}

\* No thread counts in, and neither libuv nor the program leads to, a request
\* that was freed; a closure that will be called is there (docs/memory.md: no
\* use of the public API leads to a segmentation fault).
NoDangling ==
  \A r \in Requests :
    /\ Pending(r) \/ user[r] > 0 \/ (\E t \in Threads : op[t].on = r) => rc[r] > 0
    /\ place[r] \in {"queued", "taken", "working", "leaving"} => crc[r].work = 1
    /\ place[r] # "new" /\ Pending(r) => crc[r].after = 1

\* A request that is over, cancelled or not, is freed with the last reference
\* of the program, and so are both of its closures.
NoLeak ==
  \A r \in Requests :
    place[r] = "over" /\ user[r] = 0 /\ (\A t \in Threads : op[t].on # r) =>
      rc[r] = 0 /\ \A c \in Callbacks : crc[r][c] = 0

\* A pool thread is never the one that frees a request: its finalizer drops the
\* loop and closures that the loop thread counts.
NeverFreedByPool ==
  \A r \in Requests : op[r].kind = "decref" => op[r].read > 1

\* Work that was cancelled is not started, work that was started is not
\* reported as cancelled (UV_ECANCELED to error_cb).
CancelledNeverRuns ==
  [][\A r \in Requests :
       /\ place[r] = "cancelled" => "work" \in points[r] /\ place'[r] \in {"cancelled", "after"}
       /\ place'[r] = "cancelled" => "work" \in points'[r]]_vars

\* Every request that is queued gets its after callback, whatever the program
\* drops, copies or cancels meanwhile and however few threads the pool has.
Delivered == \A r \in Requests : place[r] = "queued" ~> place[r] = "after"

------------------------------------------------------------------------------
(* The inductive invariant, for schedules without overlap.                 *)

One(b) == IF b THEN 1 ELSE 0

Ending(t, r, kinds) == One(op[t].on = r /\ op[t].kind \in kinds)

\* References to a request: the program's, libuv's or the after callback's,
\* the work callback's, and those that are being dropped.
Refs(r) ==
  user[r] + One(Pending(r)) + One(place[r] \in {"working", "leaving"})
    + Ending(LoopThread, r, {"decref"})

RcExact == \A r \in Requests : rc[r] = Refs(r)

\* A closure exists while data points to it or its call runs.
CrcExact ==
  \A r \in Requests :
    /\ crc[r].work = One("work" \in points[r] \/ (InPool(r) /\ "work" \notin points[r]))
    /\ crc[r].after = One("after" \in points[r] \/ place[r] = "after")

Points ==
  \A r \in Requests :
    /\ place[r] = "new" => points[r] = {} /\ user[r] = 0
    /\ place[r] \in {"queued", "cancelled"} => points[r] = Callbacks
    /\ place[r] = "taken" => points[r] = (IF op[r] = Idle THEN Callbacks ELSE {"after"})
    /\ place[r] \in {"working", "leaving", "done"} => points[r] = {"after"}
    /\ place[r] \in {"after", "over"} => points[r] \subseteq {"work"}
    /\ place[r] # "new" /\ rc[r] = 0 => points[r] = {}
    /\ place[r] = "after" <=> current = r

Ops ==
  /\ \A t, u \in Threads : op[t] # Idle /\ op[u] # Idle => t = u
  /\ \A t \in Threads : op[t] # Idle =>
       /\ op[t].kind # "none" /\ op[t].on \in Requests
       /\ op[t].read = rc[op[t].on] /\ place[op[t].on] # "new"
  /\ \A r \in Requests :
       /\ op[r].kind = "incref" => place[r] = "taken" /\ op[r].on = r
       /\ op[r].kind = "decref" => op[r].on = r
       /\ op[r].kind # "param"
       /\ place[r] = "leaving" <=> op[r].kind = "decref"
  /\ op[LoopThread].kind = "param" => op[LoopThread].on = current /\ current # None
  /\ op[LoopThread].kind = "incref" => user[op[LoopThread].on] > 0

WInv == TypeOK /\ Points /\ Ops /\ RcExact /\ CrcExact
=============================================================================

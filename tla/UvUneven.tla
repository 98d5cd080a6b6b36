------------------------------- MODULE UvUneven -------------------------------
(***************************************************************************)
(* The handles whose functions do not count as docs/memory.md says: Async, *)
(* Signal, Tty.  Their init drops the reference that the loop should keep, *)
(* and the close callback drops it again; Async::send and Signal::start    *)
(* take a reference that they never drop, Signal::stop drops two.  What    *)
(* the calls have left over, `extra`, decides whether a handle is freed    *)
(* too early, in time or never, and nothing here stops a program from      *)
(* going wrong: it drops, sends, starts, stops and closes as it likes.     *)
(* Once a handle or its loop was freed too early (Broken) what happens is  *)
(* undefined, and the model takes no further step.                         *)
(*                                                                         *)
(* Async::send may come from another thread; its reference is counted with *)
(* two plain steps, a load and a store.                                    *)
(*                                                                         *)
(* A handle is closed once, and a signal not started or stopped after it   *)
(* (libuv asserts both).                                                   *)
(***************************************************************************)
EXTENDS Integers, FiniteSets

CONSTANTS
  Handles,    \* handle objects the program may make
  Kinds,      \* which of "async", "signal", "tty" it makes
  None,       \* no kind, no data, no callback
  MaxRefs,    \* bound: references to one handle in MoonBit variables
  MaxExtra,   \* bound: how far sends, starts and stops go
  Races       \* does the loop thread count a handle while another thread does?

\* A Tty is plain bytes: it keeps no loop and has no finalizer.
KeepsLoop == {"async", "signal"}

ASSUME UnevenAssumption ==
  /\ Kinds \subseteq KeepsLoop \cup {"tty"}
  /\ None \notin {"async", "signal", "tty", "event", "close"} \cup Handles \cup Int
  /\ IsFiniteSet(Handles)
  /\ MaxRefs \in Nat \ {0} /\ MaxExtra \in Nat
  /\ Races \in BOOLEAN

VARIABLES
  kind,      \* what a handle was made as
  phase,     \* "new", "failed", "open", "closing", "closed"
  rc,        \* Moonbit_object_header(handle)->rc
  user,      \* references in variables, of the thread's closure included
  extra,     \* references that no variable holds: calls that took and never
             \* dropped, minus drops of what was never taken
  data,      \* what handle->data leads to: an "event" or a "close" closure
  watch,     \* a signal's watch: "off", "once", "always"
  due,       \* the handles whose event callback is due
  tmp,       \* the count another thread has loaded, in Async::send
  lrc,       \* the loop's count
  luser,     \* 1 if the program has a reference to the loop
  running,   \* is uv_run on the stack?
  frame,     \* the handle whose callback runs
  param      \* 1 while its parameter is a reference

handleVars == <<kind, phase, rc, user, extra, data, watch, due, tmp>>
loopVars == <<luser, running, frame, param>>
vars == <<handleVars, lrc, loopVars>>

One(b) == IF b THEN 1 ELSE 0

Init ==
  /\ kind = [h \in Handles |-> None]
  /\ phase = [h \in Handles |-> "new"]
  /\ rc = [h \in Handles |-> 0]
  /\ user = [h \in Handles |-> 0]
  /\ extra = [h \in Handles |-> 0]
  /\ data = [h \in Handles |-> None]
  /\ watch = [h \in Handles |-> "off"]
  /\ due = {}
  /\ tmp = [h \in Handles |-> None]
  /\ lrc = 1 /\ luser = 1 /\ running = FALSE
  /\ frame = None /\ param = 0

\* libuv has the handle in its queues.
Linked(h) == phase[h] \in {"open", "closing"}

\* libuv, a variable or a callback's parameter leads to a handle that was freed,
\* or a linked handle to a loop that was.
Broken ==
  \E h \in Handles :
    \/ rc[h] <= 0 /\ (Linked(h) \/ user[h] > 0 \/ (frame = h /\ param = 1))
    \/ lrc <= 0 /\ Linked(h)

UserTurn == ~Broken /\ (~running \/ frame # None)
LoopTurn == ~Broken /\ running /\ frame = None

\* The loop thread may count h: nobody else is counting, or nobody cares.
Counts(h) == Races \/ tmp[h] = None

\* A variable of the loop thread; another one belongs to a thread in send.
Has(h) == user[h] > One(tmp[h] # None)

\* The count becomes n and data d; at zero the finalizer drops loop and data.
Settle(h, n, d) ==
  /\ rc' = [rc EXCEPT ![h] = n]
  /\ data' = [data EXCEPT ![h] = IF n <= 0 /\ kind[h] \in KeepsLoop THEN None ELSE d]
  /\ lrc' = lrc - One(n <= 0 /\ kind[h] \in KeepsLoop)

------------------------------------------------------------------------------
(* The program, on the loop thread.                                        *)

\* Async::new, Signal::new, Tty::new: init drops a reference.
New(h, k) ==
  /\ UserTurn /\ luser = 1
  /\ kind[h] = None
  /\ kind' = [kind EXCEPT ![h] = k]
  /\ phase' = [phase EXCEPT ![h] = "open"]
  /\ rc' = [rc EXCEPT ![h] = 1]
  /\ user' = [user EXCEPT ![h] = 1]
  /\ data' = [data EXCEPT ![h] = IF k = "async" THEN "event" ELSE None]
  /\ lrc' = lrc + One(k \in KeepsLoop)
  /\ UNCHANGED <<extra, watch, due, tmp, loopVars>>

\* The constructor raises: the handle goes at once, and as libuv has not set
\* its loop field the loop's reference is lost.
NewFails(h, k) ==
  /\ UserTurn /\ luser = 1
  /\ kind[h] = None
  /\ kind' = [kind EXCEPT ![h] = k]
  /\ phase' = [phase EXCEPT ![h] = "failed"]
  /\ lrc' = lrc + One(k \in KeepsLoop)
  /\ UNCHANGED <<rc, user, extra, data, watch, due, tmp, loopVars>>

Dup(h) ==
  /\ UserTurn /\ Counts(h)
  /\ Has(h) \/ (frame = h /\ param = 1)
  /\ user[h] < MaxRefs
  /\ user' = [user EXCEPT ![h] = @ + 1]
  /\ rc' = [rc EXCEPT ![h] = @ + 1]
  /\ UNCHANGED <<kind, phase, extra, data, watch, due, tmp, lrc, loopVars>>

\* Loop::walk passes the handle to its callback.
Walk(h) ==
  /\ UserTurn /\ Counts(h) /\ luser = 1
  /\ Linked(h) /\ user[h] < MaxRefs
  /\ user' = [user EXCEPT ![h] = @ + 1]
  /\ rc' = [rc EXCEPT ![h] = @ + 1]
  /\ UNCHANGED <<kind, phase, extra, data, watch, due, tmp, lrc, loopVars>>

Drop(h) ==
  /\ UserTurn /\ Has(h) /\ Counts(h)
  /\ user' = [user EXCEPT ![h] = @ - 1]
  /\ Settle(h, rc[h] - 1, data[h])
  /\ UNCHANGED <<kind, phase, extra, watch, due, tmp, loopVars>>

\* Async::send moves a reference into C, and C never drops it.  A callback that
\* is due already is not due twice.
Send(h) ==
  /\ UserTurn /\ Has(h) /\ kind[h] = "async" /\ extra[h] < MaxExtra
  /\ user' = [user EXCEPT ![h] = @ - 1]
  /\ extra' = [extra EXCEPT ![h] = @ + 1]
  /\ due' = IF phase[h] = "open" THEN due \cup {h} ELSE due
  /\ UNCHANGED <<kind, phase, rc, data, watch, tmp, lrc, loopVars>>

\* Signal::start moves a reference into C, as send does, and the closure into
\* data, whether libuv then refuses or not.  Which of libuv's two functions it
\* calls is the wrong way round.  A start for the signal that is watched changes
\* no more than the closure; one that fails may have stopped the watch.
Start(h, oneshot) ==
  /\ UserTurn /\ Has(h) /\ kind[h] = "signal" /\ phase[h] = "open" /\ extra[h] < MaxExtra
  /\ user' = [user EXCEPT ![h] = @ - 1]
  /\ extra' = [extra EXCEPT ![h] = @ + 1]
  /\ data' = [data EXCEPT ![h] = "event"]
  /\ \/ watch' = [watch EXCEPT ![h] = IF oneshot THEN "always" ELSE "once"] /\ UNCHANGED due
     \/ UNCHANGED <<watch, due>>
     \/ watch' = [watch EXCEPT ![h] = "off"] /\ due' = due \ {h}
  /\ UNCHANGED <<kind, phase, rc, tmp, lrc, loopVars>>

\* Mutant: Signal::stop drops its parameter only.
StopDropsOne(h) ==
  /\ UserTurn /\ Has(h) /\ kind[h] = "signal" /\ phase[h] = "open" /\ extra[h] > -MaxExtra
  /\ user' = [user EXCEPT ![h] = @ - 1]
  /\ extra' = [extra EXCEPT ![h] = @ - 1]
  /\ watch' = [watch EXCEPT ![h] = "off"]
  /\ due' = due \ {h}
  /\ Settle(h, rc[h] - 1, None)
  /\ UNCHANGED <<kind, phase, tmp, loopVars>>

\* Signal::stop drops its parameter and one more.
Stop(h) ==
  /\ UserTurn /\ Has(h) /\ kind[h] = "signal" /\ phase[h] = "open" /\ extra[h] > -MaxExtra
  /\ user' = [user EXCEPT ![h] = @ - 1]
  /\ extra' = [extra EXCEPT ![h] = @ - 1]
  /\ watch' = [watch EXCEPT ![h] = "off"]
  /\ due' = due \ {h}
  /\ Settle(h, rc[h] - 2, None)
  /\ UNCHANGED <<kind, phase, tmp, loopVars>>

\* Handle::close consumes its parameter; the event callback is dropped from data.
\* A Signal is no ToHandle: the parameter is one that Walk gave.
Close(h) ==
  /\ UserTurn /\ Has(h) /\ Counts(h) /\ phase[h] = "open"
  /\ phase' = [phase EXCEPT ![h] = "closing"]
  /\ user' = [user EXCEPT ![h] = @ - 1]
  /\ watch' = [watch EXCEPT ![h] = "off"]
  /\ due' = due \ {h}
  /\ Settle(h, rc[h] - 1, "close")
  /\ UNCHANGED <<kind, extra, tmp, loopVars>>

Run ==
  /\ ~Broken /\ ~running /\ luser = 1
  /\ running' = TRUE
  /\ lrc' = lrc + 1
  /\ UNCHANGED <<handleVars, luser, frame, param>>

RunReturns ==
  /\ LoopTurn
  /\ running' = FALSE
  /\ lrc' = lrc - 1
  /\ UNCHANGED <<handleVars, luser, frame, param>>

\* A Tty does not keep its loop.
DropLoop ==
  /\ UserTurn /\ luser = 1
  /\ luser' = 0
  /\ lrc' = lrc - 1
  /\ UNCHANGED <<handleVars, running, frame, param>>

------------------------------------------------------------------------------
(* Another thread, whose closure holds a reference: Async::send, which the *)
(* closure may call again, so a reference is taken for the call.           *)

SendLoads(h) ==
  /\ ~Broken
  /\ kind[h] = "async" /\ extra[h] < MaxExtra
  /\ user[h] > 0 /\ tmp[h] = None
  /\ tmp' = [tmp EXCEPT ![h] = rc[h]]
  /\ UNCHANGED <<kind, phase, rc, user, extra, data, watch, due, lrc, loopVars>>

SendStores(h) ==
  /\ ~Broken
  /\ tmp[h] # None
  /\ rc' = [rc EXCEPT ![h] = tmp[h] + 1]
  /\ extra' = [extra EXCEPT ![h] = @ + 1]
  /\ due' = IF phase[h] = "open" THEN due \cup {h} ELSE due
  /\ tmp' = [tmp EXCEPT ![h] = None]
  /\ UNCHANGED <<kind, phase, user, data, watch, lrc, loopVars>>

------------------------------------------------------------------------------
(* libuv.                                                                  *)

\* The system delivers a signal that is watched.
Raise(h) ==
  /\ ~Broken
  /\ watch[h] # "off" /\ h \notin due
  /\ due' = due \cup {h}
  /\ UNCHANGED <<kind, phase, rc, user, extra, data, watch, tmp, lrc, loopVars>>

\* Mutant: the handle is lent to the callback, which drops it.
EventCbBorrows(h) ==
  /\ LoopTurn /\ Counts(h)
  /\ phase[h] = "open" /\ h \in due /\ data[h] = "event"
  /\ due' = due \ {h}
  /\ frame' = h /\ param' = 1
  /\ UNCHANGED <<kind, phase, rc, user, extra, data, watch, tmp, lrc, luser, running>>

\* moonbit_uv_async_cb, moonbit_uv_signal_cb: the handle is shared with the
\* callback, as its parameter.  What is sent from now on makes it due again.
EventCb(h) ==
  /\ LoopTurn /\ Counts(h)
  /\ phase[h] = "open" /\ h \in due /\ data[h] = "event"
  /\ due' = due \ {h}
  /\ rc' = [rc EXCEPT ![h] = @ + 1]
  /\ frame' = h /\ param' = 1
  /\ UNCHANGED <<kind, phase, user, extra, data, watch, tmp, lrc, luser, running>>

\* Mutant: the loop's reference is kept, as init has dropped it already.
CloseCbKeeps(h) ==
  /\ LoopTurn /\ Counts(h)
  /\ phase[h] = "closing" /\ data[h] = "close"
  /\ phase' = [phase EXCEPT ![h] = "closed"]
  /\ extra' = [extra EXCEPT ![h] = @ - 1]
  /\ Settle(h, rc[h], None)
  /\ frame' = h
  /\ UNCHANGED <<kind, user, watch, due, tmp, luser, running, param>>

\* moonbit_uv_close_cb drops the loop's reference, if there is one or not.
CloseCb(h) ==
  /\ LoopTurn /\ Counts(h)
  /\ phase[h] = "closing" /\ data[h] = "close"
  /\ phase' = [phase EXCEPT ![h] = "closed"]
  /\ extra' = [extra EXCEPT ![h] = @ - 1]
  /\ Settle(h, rc[h] - 1, None)
  /\ frame' = h
  /\ UNCHANGED <<kind, user, watch, due, tmp, luser, running, param>>

\* Mutant: what was sent while the callback ran is taken for heard.
ReturnForgetsSends(h) ==
  /\ ~Broken /\ frame = h /\ Counts(h)
  /\ frame' = None /\ param' = 0
  /\ IF param = 1 THEN Settle(h, rc[h] - 1, data[h]) ELSE UNCHANGED <<rc, data, lrc>>
  /\ due' = due \ {h}
  /\ UNCHANGED <<kind, phase, user, extra, watch, tmp, luser, running>>

\* A callback returns, and its parameter goes; libuv ends a watch for once.
Return(h) ==
  /\ ~Broken /\ frame = h /\ Counts(h)
  /\ frame' = None /\ param' = 0
  /\ IF param = 1 THEN Settle(h, rc[h] - 1, data[h]) ELSE UNCHANGED <<rc, data, lrc>>
  /\ watch' = [watch EXCEPT ![h] = IF @ = "once" THEN "off" ELSE @]
  /\ due' = IF watch[h] = "once" THEN due \ {h} ELSE due
  /\ UNCHANGED <<kind, phase, user, extra, tmp, luser, running>>

------------------------------------------------------------------------------
\* The program has nothing left, or no loop to wait with, or is Broken.
Terminated ==
  /\ Broken \/ (~running /\ luser = 0)
  /\ UNCHANGED vars

UserStep(h) ==
  \/ \E k \in Kinds : New(h, k) \/ NewFails(h, k)
  \/ Dup(h) \/ Walk(h) \/ Drop(h) \/ Send(h) \/ Stop(h) \/ Close(h)
  \/ \E oneshot \in BOOLEAN : Start(h, oneshot)

ThreadStep(h) == SendLoads(h) \/ SendStores(h)

LoopStep(h) == Raise(h) \/ EventCb(h) \/ CloseCb(h) \/ Return(h)

Next ==
  \/ \E h \in Handles : UserStep(h) \/ ThreadStep(h) \/ LoopStep(h)
  \/ Run \/ RunReturns \/ DropLoop
  \/ Terminated

Spec == Init /\ [][Next]_vars

\* Callbacks return, a loop that the program still has is run again, and
\* uv_run gets to what is due, how often the program may interrupt it.
Fairness ==
  /\ WF_vars(Run)
  /\ \A h \in Handles :
       /\ WF_vars(SendStores(h)) /\ WF_vars(Return(h))
       /\ SF_vars(EventCb(h)) /\ SF_vars(CloseCb(h))

FairSpec == Spec /\ Fairness
------------------------------------------------------------------------------
TypeOK ==
  /\ kind \in [Handles -> Kinds \cup {None}]
  /\ phase \in [Handles -> {"new", "failed", "open", "closing", "closed"}]
  /\ rc \in [Handles -> Int]
  /\ user \in [Handles -> 0 .. MaxRefs]
  /\ extra \in [Handles -> Int]
  /\ data \in [Handles -> {None, "event", "close"}]
  /\ watch \in [Handles -> {"off", "once", "always"}]
  /\ due \in SUBSET Handles
  /\ tmp \in [Handles -> Int \cup {None}]
  /\ lrc \in Int /\ luser \in {0, 1}
  /\ running \in BOOLEAN /\ frame \in Handles \cup {None} /\ param \in {0, 1}

\* A count is what variables hold, the parameter of the callback, and what the
\* calls have left over.
RcExact ==
  \A h \in Handles : rc[h] = user[h] + extra[h] + One(frame = h /\ param = 1)

\* The loop is kept by the program, by uv_run and by the handles that are not
\* freed; a constructor that raised has lost one reference.
LoopKeepers ==
  {h \in Handles : kind[h] # None /\ kind[h] \in KeepsLoop /\ (rc[h] > 0 \/ phase[h] = "failed")}

LrcExact == lrc = luser + One(running) + Cardinality(LoopKeepers)

\* What libuv will call is what data leads to, of the type the C callback
\* takes it for.
Callable ==
  \A h \in Handles : rc[h] > 0 =>
    /\ phase[h] = "closing" => data[h] = "close"
    /\ phase[h] = "open" /\ (h \in due \/ watch[h] # "off") => data[h] = "event"

\* The references that the calls on a handle have taken and not dropped, but for
\* the one that close_cb drops.
Taken(h) == extra[h] + One(phase[h] = "closed")

\* What the calls have left over of a handle of each kind, at each phase; and a
\* count that another thread has loaded is still the count.
Account(h) ==
  /\ phase[h] = "new" <=> kind[h] = None
  /\ phase[h] \in {"new", "failed"} =>
       user[h] = 0 /\ extra[h] = 0 /\ h \notin due /\ watch[h] = "off" /\ frame # h
  /\ kind[h] = "async" => Taken(h) >= One(h \in due)
  /\ kind[h] = "tty" => Taken(h) = 0
  /\ phase[h] = "open" /\ kind[h] = "async" /\ rc[h] > 0 => data[h] = "event"
  /\ phase[h] = "closed" => data[h] = None /\ ~(frame = h /\ param = 1)
  /\ phase[h] \in {"closing", "closed"} => h \notin due /\ watch[h] = "off"
  /\ watch[h] # "off" => kind[h] = "signal"
  /\ tmp[h] # None => tmp[h] = rc[h] /\ kind[h] = "async" /\ user[h] > 0

Accounts ==
  /\ \A h \in Handles : Account(h)
  /\ frame = None => param = 0

UInv == TypeOK /\ RcExact /\ LrcExact /\ Callable /\ Accounts

\* An async that was ever sent to, and a signal started more often than stopped,
\* is there for libuv, for variables and for its callback, whatever else is
\* called and however often; and so is its loop.  A tty is until it is closed, as
\* long as a variable refers to it, and its loop as long as the program keeps it
\* (docs/memory.md: no use of the public API leads to a segmentation fault).
NoDangling ==
  \A h \in Handles :
    /\ Taken(h) >= 1 /\ (Linked(h) \/ user[h] > 0 \/ (frame = h /\ param = 1)) => rc[h] > 0
    /\ kind[h] = "tty" /\ phase[h] = "open" /\ user[h] > 0 => rc[h] > 0
    /\ Linked(h) /\ rc[h] > 0 => lrc > 0 \/ (kind[h] = "tty" /\ luser = 0 /\ ~running)

\* A handle that is closed and that no variable refers to is freed, with its
\* closure and its loop, if the calls took one reference; each further one is
\* never dropped.
NoLeak ==
  \A h \in Handles : phase[h] = "closed" /\ user[h] = 0 =>
    rc[h] = Taken(h) - 1 /\ data[h] = None

\* "The callback is guaranteed to be called at least once after send() is
\* called": a send, the first, one of many or one made while the callback runs,
\* is followed by a call that begins after it, unless the handle is closed, the
\* loop given up or something was freed too early.
Heard ==
  \A h \in Handles :
    h \in due /\ kind[h] = "async" ~>
      \/ frame = h /\ h \notin due
      \/ phase[h] # "open" \/ (luser = 0 /\ ~running) \/ Broken
=============================================================================

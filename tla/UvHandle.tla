------------------------------ MODULE UvHandle ------------------------------
(***************************************************************************)
(* Ownership of the watcher handles of uv.mbt: uv_timer_t, uv_idle_t,      *)
(* uv_prepare_t, uv_check_t, uv_poll_t, uv_fs_event_t and uv_fs_poll_t.    *)
(* Each is a MoonBit external object with a non-atomic reference count     *)
(* whose address is also stored in libuv's loop; its `data` pointer holds  *)
(* the one closure that libuv's next call on the handle will invoke, an    *)
(* event callback or, once close() was called, the close callback.         *)
(*                                                                         *)
(* MoonBit passes parameters as owned references: a call consumes one      *)
(* reference of the caller for every #owned parameter and the C function   *)
(* must drop it or store it.  Sharing is Dup followed by the call; the     *)
(* move of a last use is the call alone.                                   *)
(*                                                                         *)
(* libuv and the MoonBit runtime are external: of libuv the model keeps    *)
(* the handle flags that decide which callbacks run, of the runtime the    *)
(* counts and the finalizer that runs when one reaches zero.               *)
(***************************************************************************)
EXTENDS Integers, FiniteSets

CONSTANTS
  Handles,      \* handle objects the program may make
  Closures,     \* closure objects: those in use at one time bound the model
  None,         \* the NULL pointer
  KindOf,       \* the kind of each handle, a member of Kinds
  MaxRefs,      \* bound: references to one object in MoonBit variables
  AfterClose,   \* may the program start or stop a handle it has closed?
  InitFails     \* may uv_poll_init fail?

(***************************************************************************)
(* What tells the kinds apart.  clears: stop empties `data`.  fails: start *)
(* can fail on an open handle (a bad path or descriptor).  once: an event  *)
(* may deactivate the watcher.  initFails: init can fail.                  *)
(***************************************************************************)
Timer   == [clears |-> TRUE,  fails |-> FALSE, once |-> TRUE,  initFails |-> FALSE]
Idle    == [clears |-> TRUE,  fails |-> FALSE, once |-> FALSE, initFails |-> FALSE]
Prepare == [clears |-> TRUE,  fails |-> FALSE, once |-> FALSE, initFails |-> FALSE]
Check   == [clears |-> TRUE,  fails |-> FALSE, once |-> FALSE, initFails |-> FALSE]
Poll    == [clears |-> TRUE,  fails |-> TRUE,  once |-> TRUE,  initFails |-> TRUE]
FsEvent == [clears |-> FALSE, fails |-> TRUE,  once |-> FALSE, initFails |-> FALSE]
FsPoll  == [clears |-> FALSE, fails |-> TRUE,  once |-> FALSE, initFails |-> FALSE]

Kinds == {Timer, Idle, Prepare, Check, Poll, FsEvent, FsPoll}

ASSUME HandleAssumption ==
  /\ IsFiniteSet(Handles)
  /\ None \notin Handles \cup Closures
  /\ KindOf \in [Handles -> Kinds]
  /\ MaxRefs \in Nat
  /\ AfterClose \in BOOLEAN
  /\ InitFails \in BOOLEAN

VARIABLES
  phase,     \* libuv's flags of the handle, "failed" after a failing init
  rc,        \* Moonbit_object_header(handle)->rc; 0 before make and once freed
  user,      \* references to the handle held by the MoonBit program
  data,      \* handle->data
  crc,       \* reference count of each closure object; 0 when not allocated
  ctype,     \* the C type the closure was made for
  captures,  \* the handle a closure's environment refers to, or None
  frame,     \* the callback running: its closure, the handle it is called on,
             \* and the reference (0 or 1) its handle parameter still holds
  loopRc,    \* reference count of the uv_loop_t object
  userLoop,  \* references to the loop held by the MoonBit program
  running,   \* the mode of the uv_run in progress, or "no"
  stopFlag   \* loop->stop_flag

loopVars == <<userLoop, running, stopFlag>>
vars == <<phase, rc, user, data, crc, ctype, captures, frame, loopRc, loopVars>>

NoFrame == [cb |-> None, on |-> None, param |-> 0]

\* The event loop thread executes MoonBit code: main outside of uv_run, or a
\* callback inside of it.
UserTurn == running = "no" \/ frame # NoFrame

\* The handle is in the loop's handle queue.
Linked(h) == phase[h] \in {"open", "active", "closing"}

Closing(h) == phase[h] \in {"closing", "closed"}

Fresh(c) == crc[c] = 0

------------------------------------------------------------------------------
(***************************************************************************)
(* Reference counting.  Install(h, n, d, counts, loop): the handle's count *)
(* becomes n and its data d, the closures' counts become `counts` and the  *)
(* loop's `loop`; a count that reaches zero runs moonbit_uv_xxx_finalize,  *)
(* which drops handle->loop and handle->data.                              *)
(***************************************************************************)
DropClosure(counts, c) == IF c = None THEN counts ELSE [counts EXCEPT ![c] = @ - 1]

\* Dropping c once frees it and, with it, the reference it captured to h.
Captured(h, c) ==
  IF c # None /\ crc[c] = 1 /\ captures[c] = h THEN 1 ELSE 0

Install(h, n, d, counts, loop) ==
  LET finalize == rc[h] > 0 /\ n <= 0
  IN /\ rc' = [rc EXCEPT ![h] = n]
     /\ data' = [data EXCEPT ![h] = IF finalize THEN None ELSE d]
     /\ crc' = IF finalize THEN DropClosure(counts, d) ELSE counts
     /\ loopRc' = IF finalize THEN loop - 1 ELSE loop

\* Mutant: the closure replaced is not dropped (moonbit_uv_listen forgets to).
SetDataOverwrites(h, c, counts) == Install(h, rc[h] - 1, c, counts, loopRc)

\* Mutant: the handle is dropped twice (as in moonbit_uv_signal_stop).
SetDataDropsTwice(h, c, counts) ==
  Install(h, rc[h] - 2 - Captured(h, data[h]), c, DropClosure(counts, data[h]),
          loopRc)

\* Mutant: data is set only when it is empty.
SetDataIfEmpty(h, c, counts) ==
  IF data[h] = None THEN Install(h, rc[h] - 1, c, counts, loopRc)
  ELSE Install(h, rc[h] - 1, data[h], DropClosure(counts, c), loopRc)

\* moonbit_uv_xxx_set_data(handle, c), then the drop of the handle parameter.
SetData(h, c, counts) ==
  Install(h, rc[h] - 1 - Captured(h, data[h]), c, DropClosure(counts, data[h]),
          loopRc)

\* A closure that the program allocates for this call, one reference, moved
\* into the call; it may capture the handle itself.
NewClosure(c, type, h) ==
  /\ Fresh(c)
  /\ ctype' = [ctype EXCEPT ![c] = type]
  /\ captures' = [captures EXCEPT ![c] = h]

------------------------------------------------------------------------------
Init ==
  /\ phase = [h \in Handles |-> "none"]
  /\ rc = [h \in Handles |-> 0]
  /\ user = [h \in Handles |-> 0]
  /\ data = [h \in Handles |-> None]
  /\ crc = [c \in Closures |-> 0]
  /\ ctype = [c \in Closures |-> "event"]
  /\ captures = [c \in Closures |-> None]
  /\ frame = NoFrame
  /\ loopRc = 1
  /\ userLoop = 1
  /\ running = "no"
  /\ stopFlag = 0

------------------------------------------------------------------------------
(* References of the program: copies, drops and references it is handed.   *)

Dup(h) ==
  /\ UserTurn
  /\ user[h] \in 1 .. MaxRefs - 1
  /\ user' = [user EXCEPT ![h] = @ + 1]
  /\ rc' = [rc EXCEPT ![h] = @ + 1]
  /\ UNCHANGED <<phase, data, crc, ctype, captures, frame, loopRc, loopVars>>

\* A dropped variable, or a getter (is_closing, due_in, ...) that consumes it.
Drop(h) ==
  /\ UserTurn
  /\ user[h] > 0
  /\ user' = [user EXCEPT ![h] = @ - 1]
  /\ Install(h, rc[h] - 1, data[h], crc, loopRc)
  /\ UNCHANGED <<phase, ctype, captures, frame, loopVars>>

\* The running callback keeps its handle parameter in a variable.
TakeParam(h) ==
  /\ frame.param = 1
  /\ frame.on = h
  /\ user[h] < MaxRefs
  /\ user' = [user EXCEPT ![h] = @ + 1]
  /\ frame' = [frame EXCEPT !.param = 0]
  /\ UNCHANGED <<phase, rc, data, crc, ctype, captures, loopRc, loopVars>>

\* handle.loop(): the loop gains a reference, the handle parameter is dropped.
HandleLoop(h) ==
  /\ UserTurn
  /\ user[h] > 0
  /\ phase[h] # "none"
  /\ userLoop < MaxRefs
  /\ user' = [user EXCEPT ![h] = @ - 1]
  /\ userLoop' = userLoop + 1
  /\ Install(h, rc[h] - 1, data[h], crc, loopRc + 1)
  /\ UNCHANGED <<phase, ctype, captures, frame, running, stopFlag>>

\* loop.walk(cb) where cb keeps the handle it is called with.
Walk(h) ==
  /\ UserTurn
  /\ userLoop > 0
  /\ Linked(h)
  /\ user[h] < MaxRefs
  /\ user' = [user EXCEPT ![h] = @ + 1]
  /\ rc' = [rc EXCEPT ![h] = @ + 1]
  /\ UNCHANGED <<phase, data, crc, ctype, captures, frame, loopRc, loopVars>>

DupLoop ==
  /\ UserTurn
  /\ userLoop \in 1 .. MaxRefs - 1
  /\ userLoop' = userLoop + 1
  /\ loopRc' = loopRc + 1
  /\ UNCHANGED <<phase, rc, user, data, crc, ctype, captures, frame, running, stopFlag>>

DropLoop ==
  /\ UserTurn
  /\ userLoop > 0
  /\ userLoop' = userLoop - 1
  /\ loopRc' = loopRc - 1
  /\ UNCHANGED <<phase, rc, user, data, crc, ctype, captures, frame, running, stopFlag>>

------------------------------------------------------------------------------
(* The handle's operations.                                                *)

\* Timer::new and its siblings: make (one reference) and init, which stores
\* the loop parameter in handle->loop and leaves the handle parameter to the
\* loop.
New(h) ==
  /\ UserTurn
  /\ phase[h] = "none"
  /\ userLoop > 0
  /\ phase' = [phase EXCEPT ![h] = "open"]
  /\ rc' = [rc EXCEPT ![h] = 2]
  /\ user' = [user EXCEPT ![h] = 1]
  /\ userLoop' = userLoop - 1
  /\ UNCHANGED <<data, crc, ctype, captures, frame, loopRc, running, stopFlag>>

\* The constructor when init fails: it raises, the local variable is dropped,
\* the parameters moved into init are not.
NewFails(h) ==
  /\ UserTurn
  /\ InitFails
  /\ KindOf[h].initFails
  /\ phase[h] = "none"
  /\ userLoop > 0
  /\ phase' = [phase EXCEPT ![h] = "failed"]
  /\ rc' = [rc EXCEPT ![h] = 1]
  /\ userLoop' = userLoop - 1
  /\ UNCHANGED <<user, data, crc, ctype, captures, frame, loopRc, running, stopFlag>>

\* Mutant: a handle that is being closed may still be stopped and started.
UsableUntilClosed(h) == phase[h] \in {"open", "active", "closing"}

\* May the program call start or stop?
Usable(h) ==
  \/ phase[h] \in {"open", "active"}
  \/ AfterClose /\ Closing(h)

\* start: the closure replaces `data` before libuv is asked to start, and
\* stays there when libuv refuses.  A closure capturing the handle takes a
\* second reference of the program.
Start(h, c, self) ==
  /\ UserTurn
  /\ Usable(h)
  /\ user[h] > (IF self THEN 1 ELSE 0)
  /\ NewClosure(c, "event", IF self THEN h ELSE None)
  /\ user' = [user EXCEPT ![h] = @ - (IF self THEN 2 ELSE 1)]
  /\ SetData(h, c, [crc EXCEPT ![c] = 1])
  /\ \/ phase[h] \in {"open", "active"} /\ phase' = [phase EXCEPT ![h] = "active"]
     \/ (KindOf[h].fails \/ Closing(h)) /\ UNCHANGED phase
  /\ UNCHANGED <<frame, loopVars>>

\* stop: `data` is emptied (not by fs_event and fs_poll), then libuv stops.
Stop(h) ==
  /\ UserTurn
  /\ Usable(h)
  /\ user[h] > 0
  /\ user' = [user EXCEPT ![h] = @ - 1]
  /\ IF KindOf[h].clears
     THEN SetData(h, None, crc)
     ELSE Install(h, rc[h] - 1, data[h], crc, loopRc)
  /\ phase' = [phase EXCEPT ![h] = IF @ = "active" THEN "open" ELSE @]
  /\ UNCHANGED <<ctype, captures, frame, loopVars>>

\* moonbit_uv_close: the close callback replaces `data`; libuv stops the
\* watcher and queues the handle.  A second close aborts inside libuv and is
\* not modelled.
Close(h, c, self) ==
  /\ UserTurn
  /\ phase[h] \in {"open", "active"}
  /\ user[h] > (IF self THEN 1 ELSE 0)
  /\ NewClosure(c, "close", IF self THEN h ELSE None)
  /\ user' = [user EXCEPT ![h] = @ - (IF self THEN 2 ELSE 1)]
  /\ SetData(h, c, [crc EXCEPT ![c] = 1])
  /\ phase' = [phase EXCEPT ![h] = "closing"]
  /\ UNCHANGED <<frame, loopVars>>

------------------------------------------------------------------------------
(* The loop's calls.  Both read handle->data without a test.               *)

InLoop == running # "no" /\ frame = NoFrame

\* moonbit_uv_xxx_cb: the closure and the handle are shared with the callback.
\* The watcher of a one-shot event is inactive by the time of the call.
EventCb(h) ==
  /\ InLoop
  /\ phase[h] = "active"
  /\ data[h] # None
  /\ crc' = [crc EXCEPT ![data[h]] = @ + 1]
  /\ rc' = [rc EXCEPT ![h] = @ + 1]
  /\ frame' = [cb |-> data[h], on |-> h, param |-> 1]
  /\ \/ UNCHANGED phase
     \/ KindOf[h].once /\ phase' = [phase EXCEPT ![h] = "open"]
  /\ UNCHANGED <<user, data, ctype, captures, loopRc, loopVars>>

\* Mutant: data still points to the closure when the reference is dropped.
CloseCbKeepsData(h) ==
  /\ InLoop
  /\ phase[h] = "closing"
  /\ data[h] # None
  /\ Install(h, rc[h] - 1, data[h], crc, loopRc)
  /\ frame' = [cb |-> data[h], on |-> h, param |-> 0]
  /\ phase' = [phase EXCEPT ![h] = "closed"]
  /\ UNCHANGED <<user, ctype, captures, loopVars>>

\* moonbit_uv_close_cb: data is emptied before the loop's reference is
\* dropped, so a finalizer that runs here leaves the closure alone; then the
\* closure is moved into its call, which has no handle parameter.
CloseCb(h) ==
  /\ InLoop
  /\ phase[h] = "closing"
  /\ data[h] # None
  /\ Install(h, rc[h] - 1, None, crc, loopRc)
  /\ frame' = [cb |-> data[h], on |-> h, param |-> 0]
  /\ phase' = [phase EXCEPT ![h] = "closed"]
  /\ UNCHANGED <<user, ctype, captures, loopVars>>

\* The callback returns: it drops its parameter, if it still holds it, and
\* its closure, with what the closure captured.
Return(h) ==
  /\ frame # NoFrame
  /\ frame.on = h
  /\ Install(h, rc[h] - frame.param - Captured(h, frame.cb),
             data[h], DropClosure(crc, frame.cb), loopRc)
  /\ frame' = NoFrame
  /\ UNCHANGED <<phase, user, ctype, captures, loopVars>>

------------------------------------------------------------------------------
(* moonbit_uv_run and moonbit_uv_stop.                                     *)

Alive == \E h \in Handles : phase[h] \in {"active", "closing"}

Run(mode) ==
  /\ running = "no"
  /\ userLoop > 0
  /\ userLoop' = userLoop - 1
  /\ running' = mode
  /\ UNCHANGED <<phase, rc, user, data, crc, ctype, captures, frame, loopRc, stopFlag>>

\* uv_stop called by a callback; it consumes a reference to the loop.
StopLoop ==
  /\ UserTurn
  /\ userLoop > 0
  /\ stopFlag' = 1
  /\ userLoop' = userLoop - 1
  /\ loopRc' = loopRc - 1
  /\ UNCHANGED <<phase, rc, user, data, crc, ctype, captures, frame, running>>

\* uv_run returns and the loop parameter is dropped.
RunReturns ==
  /\ InLoop
  /\ running = "Once" \/ stopFlag = 1 \/ ~Alive
  /\ running' = "no"
  /\ stopFlag' = 0
  /\ loopRc' = loopRc - 1
  /\ UNCHANGED <<phase, rc, user, data, crc, ctype, captures, frame, userLoop>>

------------------------------------------------------------------------------
UserStep(h) ==
  \/ Dup(h) \/ Drop(h) \/ TakeParam(h) \/ HandleLoop(h) \/ Walk(h)
  \/ New(h) \/ NewFails(h) \/ Stop(h)
  \/ \E c \in Closures, self \in BOOLEAN : Start(h, c, self) \/ Close(h, c, self)

LoopStep(h) == EventCb(h) \/ CloseCb(h) \/ Return(h)

\* Nothing is left to do: the program holds no handle, no loop and no uv_run.
Terminated ==
  /\ running = "no" /\ userLoop = 0
  /\ \A h \in Handles : user[h] = 0
  /\ UNCHANGED vars

Next ==
  \/ \E h \in Handles : UserStep(h) \/ LoopStep(h)
  \/ DupLoop \/ DropLoop \/ StopLoop \/ RunReturns
  \/ \E mode \in {"Default", "Once"} : Run(mode)
  \/ Terminated

Spec == Init /\ [][Next]_vars

(***************************************************************************)
(* Callbacks return, and every iteration of uv_run ends with the closing   *)
(* handles (uv__run_closing_handles), however many events it delivers: a   *)
(* close callback cannot be starved by events.  The program owes nothing.  *)
(***************************************************************************)
Fairness ==
  \A h \in Handles : WF_vars(Return(h)) /\ SF_vars(CloseCb(h))

FairSpec == Spec /\ Fairness

------------------------------------------------------------------------------
TypeOK ==
  /\ phase \in [Handles -> {"none", "failed", "open", "active", "closing", "closed"}]
  /\ rc \in [Handles -> Int]
  /\ user \in [Handles -> Nat]
  /\ data \in [Handles -> Closures \cup {None}]
  /\ crc \in [Closures -> Int]
  /\ ctype \in [Closures -> {"event", "close"}]
  /\ captures \in [Closures -> Handles \cup {None}]
  /\ frame \in [cb : Closures \cup {None}, on : Handles \cup {None}, param : {0, 1}]
  /\ loopRc \in Int
  /\ userLoop \in Nat
  /\ running \in {"no", "Default", "Once"}
  /\ stopFlag \in {0, 1}

\* No reachable pointer dangles: libuv's queues, the program's variables, the
\* running callback, handle->data and handle->loop all lead to live objects
\* (docs/memory.md: no use of the public API leads to a segmentation fault).
NoDangling ==
  /\ \A h \in Handles :
       /\ (Linked(h) \/ user[h] > 0) => rc[h] > 0
       /\ rc[h] > 0 => loopRc > 0
       /\ data[h] # None => rc[h] > 0 /\ crc[data[h]] > 0
  /\ frame # NoFrame => crc[frame.cb] > 0
  /\ frame.param = 1 => rc[frame.on] > 0
  /\ (userLoop > 0 \/ running # "no") => loopRc > 0

\* What libuv will call is there and has the C type of the call: an event
\* callback for an active watcher, a close callback for a closing handle
\* (moonbit_uv_xxx_cb and moonbit_uv_close_cb jump through handle->data).
CallableData ==
  \A h \in Handles :
    /\ phase[h] = "active" => data[h] # None /\ ctype[data[h]] = "event"
    /\ phase[h] = "closing" => data[h] # None /\ ctype[data[h]] = "close"

\* Once its close callback has returned and the program has dropped its
\* references, a handle is freed, even if its closures captured it; a live
\* closure is running or awaited by a handle that is not closed; and the loop
\* is freed with its last handle (docs/memory.md: resources that are released
\* correctly do not leak).
NoLeak ==
  /\ \A h \in Handles :
       phase[h] \in {"closed", "failed"} /\ user[h] = 0 /\ frame.on # h => rc[h] = 0
  /\ \A c \in Closures : crc[c] > 0 =>
       \/ frame.cb = c
       \/ \E h \in Handles : data[h] = c /\ phase[h] # "closed"
  /\ (userLoop = 0 /\ running = "no" /\ \A h \in Handles : rc[h] = 0) => loopRc = 0

\* A closing handle gets its close callback as long as uv_run(Default) goes on
\* (no uv_stop), however many events other watchers receive.
CloseDelivered ==
  \A h \in Handles :
    (phase[h] = "closing" /\ running = "Default") ~> (phase[h] = "closed" \/ stopFlag = 1)

------------------------------------------------------------------------------
(***************************************************************************)
(* Every count is the number of references that exist.                     *)
(***************************************************************************)
One(b) == IF b THEN 1 ELSE 0

\* References to h: program, loop, running callback, the closures that
\* captured it (awaited in data or running), and the one a failing init keeps.
Refs(h) ==
  user[h] + One(Linked(h)) + One(phase[h] = "failed")
    + (IF frame.on = h THEN frame.param ELSE 0)
    + One(data[h] # None /\ captures[data[h]] = h)
    + One(frame.on = h /\ frame.cb # data[h] /\ captures[frame.cb] = h)

RcExact == \A h \in Handles : rc[h] = Refs(h)

CrcExact ==
  \A c \in Closures :
    crc[c] = One(\E h \in Handles : data[h] = c) + One(frame.cb = c)

Live == {h \in Handles : rc[h] > 0}

LoopExact == loopRc = userLoop + One(running # "no") + Cardinality(Live)

\* The three kinds of count are exact: each incref and decref of the C code is
\* matched with a reference that appears or disappears.
CountsExact == RcExact /\ CrcExact /\ LoopExact

\* Who points to whom: the part of the inductive invariant that CountsExact
\* and CallableData need.
Pointers ==
  /\ \A h \in Handles :
       /\ data[h] # None => Linked(h) /\ captures[data[h]] \in {None, h}
       /\ phase[h] \in {"none", "failed"} => user[h] = 0 /\ frame.on # h
  /\ \A g, h \in Handles : data[g] # None /\ data[g] = data[h] => g = h
  /\ frame.on = None <=> frame.cb = None
  /\ frame.on = None => frame.param = 0
  /\ frame.on # None =>
       /\ running # "no"
       /\ captures[frame.cb] \in {None, frame.on}
       /\ \A h \in Handles : data[h] = frame.cb => h = frame.on

\* Inductive when the program leaves closed handles alone (~AfterClose).
IInv == TypeOK /\ Pointers /\ CallableData /\ CountsExact

Shared == INSTANCE SharedObject WITH
  Objects <- Handles,
  refs <- [h \in Handles |-> Refs(h)],
  state <- [h \in Handles |-> IF phase[h] = "none" THEN "unborn"
                              ELSE IF rc[h] > 0 THEN "live" ELSE "freed"]

\* Every handle lives while a reference to it exists, is freed once, after the
\* last of them is gone, and no reference to a freed handle ever comes back.
ImplementsShared == Shared!Spec
=============================================================================

-------------------------------- MODULE UvReq --------------------------------
(***************************************************************************)
(* One-shot requests: file system calls, name resolution, random bytes and *)
(* the requests on a handle.  All their glue has one shape (UvCalls has    *)
(* what differs): the request is a MoonBit object; one reference to it is  *)
(* moved into libuv and comes back as the parameter of the callback, the   *)
(* other is returned to the program; the closure, the loop and the buffers *)
(* are references in its fields, which its finalizer drops.  What libuv    *)
(* allocates for a file system request is freed by uv_fs_req_cleanup only, *)
(* which the finalizer does not call.                                      *)
(*                                                                         *)
(* Counts change on the loop thread alone.  The threads of the pool use    *)
(* the request, the buffers and the loop, to which they post what is done. *)
(* Directory streams are in UvDir, the work of queue_work in UvWork, the   *)
(* handle's own life in UvHandle and UvStream.                             *)
(***************************************************************************)
EXTENDS Integers, FiniteSets

CONSTANTS
  Requests,   \* request objects the program may make
  Call,       \* a record of UvCalls for each function the program calls
  PoolSize,   \* threads of the pool
  None,       \* no request
  MaxRefs,    \* bound: references to one request in MoonBit variables
  DropsLoop   \* may the program drop its loop while a request of dns.c, which
              \* does not keep the loop, is pending?

Names == DOMAIN Call
Fields == {"closure", "bufs"}
Memory == {"path", "result"}
Outcomes == {"ok", "error"}

\* A finalizer drops what the fields lead to; then the callback has taken the
\* closure out of them.
IsCall(c) ==
  /\ c.on \in {"pool", "handle"}
  /\ c.starts \in SUBSET {"queued", "busy", "done"} /\ c.starts # {}
  /\ c.on = "pool" => c.starts = {"queued"}
  /\ c.gives \/ c.sync # "no" => c.on = "pool"
  /\ c.keeps \subseteq {"loop", "bufs"}
  /\ c.moves \subseteq c.keeps \cup {"closure"} /\ "loop" \notin c.moves
  /\ {c.drops, c.copies, c.gives} \subseteq BOOLEAN
  /\ c.drops <=> "closure" \in c.moves
  /\ ~c.drops => c.keeps = {}
  /\ c.cleans \subseteq Outcomes /\ c.tidies \subseteq Outcomes
  /\ c.cancels \in BOOLEAN /\ c.cancels => c.on = "pool"
  /\ c.sync \in {"no", "lent", "copied"}

ASSUME ReqAssumption ==
  /\ IsFiniteSet(Requests)
  /\ None \notin Requests \cup Names
  /\ PoolSize \in Nat /\ MaxRefs \in Nat
  /\ DropsLoop \in BOOLEAN
  /\ \A f \in Names : IsCall(Call[f])

VARIABLES
  fn,        \* the function a request was made for
  place,     \* where the request is
  outcome,   \* its result, once there is one
  rc,        \* Moonbit_object_header(req)->rc; 0 before make and once freed
  user,      \* references to it held by the MoonBit program
  points,    \* the fields of the request that are not NULL
  count,     \* references to its closure and to its array of buffers
  memory,    \* what libuv has allocated for it and not freed
  lrc,       \* Moonbit_object_header(loop)->rc
  luser,     \* 1 if the program has a reference to the loop
  running,   \* is uv_run on the stack?
  current,   \* the request whose callback runs, or None
  handle     \* the handle of write, shutdown, connect and send: its phase

reqVars == <<fn, place, outcome, rc, user, points, count, memory>>
loopVars == <<lrc, luser, running, current>>
vars == <<reqVars, loopVars, handle>>

One(b) == IF b THEN 1 ELSE 0

Init ==
  /\ fn = [r \in Requests |-> None]
  /\ place = [r \in Requests |-> "new"]
  /\ outcome = [r \in Requests |-> "none"]
  /\ rc = [r \in Requests |-> 0]
  /\ user = [r \in Requests |-> 0]
  /\ points = [r \in Requests |-> {}]
  /\ count = [r \in Requests |-> [x \in Fields |-> 0]]
  /\ memory = [r \in Requests |-> {}]
  /\ lrc = 1 /\ luser = 1
  /\ running = FALSE
  /\ current = None
  /\ handle = "none"

\* MoonBit code of the program runs: main or a callback.
UserTurn == ~running \/ current # None

\* The loop is about to take the next event.
LoopTurn == running /\ current = None

OfHandle(r) == fn[r] # None /\ Call[fn[r]].on = "handle"

Pending(r) == place[r] \in {"queued", "busy", "done", "cancelled"}

\* A thread of the pool will post the request to the loop.
InPool(r) == Pending(r) /\ ~OfHandle(r)

\* libuv is through with the request and will tell its result whatever comes:
\* a thread has posted it, or a write or a send is complete.  A connect and a
\* shutdown are answered as soon as they are done, or not at all.
Settled(r) == place[r] = "done" /\ (OfHandle(r) => "done" \in Call[fn[r]].starts)

------------------------------------------------------------------------------
(* Counting.                                                               *)

\* The count of r becomes n, its fields p, its objects' counts c, `kept` of
\* the loop; at zero the finalizer drops what the fields lead to.  A refused
\* or connecting request has no loop to drop; connect's has no finalizer.
Settle(r, n, p, c, kept) ==
  LET dropped == IF n = 0 /\ Call[fn'[r]].drops THEN p ELSE {}
  IN /\ rc' = [rc EXCEPT ![r] = n]
     /\ points' = [points EXCEPT ![r] = p \ dropped]
     /\ count' = [count EXCEPT ![r] =
                    [x \in Fields |-> c[x] - One(x \in dropped)]]
     /\ lrc' = kept - One("loop" \in dropped)

\* A count goes down without more ado.
Decref(r) == Settle(r, rc[r] - 1, points[r], count[r], lrc)

------------------------------------------------------------------------------
(* The program: calls on the request.                                      *)

\* Mutant: the loop is dropped after the call, as getaddrinfo does.
KeptNotLoop(f) == (Call[f].keeps \ {"loop"}) \cup {"closure"}

\* What a new request keeps: the closure, and what the call says.
Kept(f) == Call[f].keeps \cup {"closure"}

\* Mutant: the buffers are dropped after the call, as the twin of read does.
AcceptDropsBufs(r, f, p) ==
  /\ fn' = [fn EXCEPT ![r] = f]
  /\ place' = [place EXCEPT ![r] = p]
  /\ \E o \in Outcomes : outcome' = [outcome EXCEPT ![r] = IF p = "done" THEN o ELSE @]
  /\ user' = [user EXCEPT ![r] = 1]
  /\ rc' = [rc EXCEPT ![r] = 2]
  /\ points' = [points EXCEPT ![r] = Kept(f) \ {"bufs"}]
  /\ count' = [count EXCEPT ![r] = [x \in Fields |-> One(x = "closure")]]
  /\ memory' = [memory EXCEPT ![r] = IF Call[f].copies THEN {"path"} ELSE {}]
  /\ lrc' = lrc + One("loop" \in Kept(f))
  /\ UNCHANGED <<luser, running, current, handle>>

\* The request waits, or libuv has begun it, or is through with it, when the
\* call returns; its callback comes from the loop in every case.
Accept(r, f, p) ==
  /\ fn' = [fn EXCEPT ![r] = f]
  /\ place' = [place EXCEPT ![r] = p]
  /\ \E o \in Outcomes : outcome' = [outcome EXCEPT ![r] = IF p = "done" THEN o ELSE @]
  /\ user' = [user EXCEPT ![r] = 1]
  /\ rc' = [rc EXCEPT ![r] = 2]
  /\ points' = [points EXCEPT ![r] = Kept(f)]
  /\ count' = [count EXCEPT ![r] = [x \in Fields |-> One(x \in Kept(f))]]
  /\ memory' = [memory EXCEPT ![r] = IF Call[f].copies THEN {"path"} ELSE {}]
  /\ lrc' = lrc + One("loop" \in Kept(f))
  /\ UNCHANGED <<luser, running, current, handle>>

\* Loop::fs_open and the other calls, when libuv accepts: a reference to the
\* request stays with libuv, closure, loop and buffers with the request.
Submit(r, f) ==
  /\ UserTurn
  /\ place[r] = "new"
  /\ Call[f].on = "pool" => luser = 1
  /\ Call[f].on = "handle" => handle = "open"
  /\ \E p \in Call[f].starts : Accept(r, f, p)

\* libuv refuses (no memory for the path, no buffers, a bad flag, nothing
\* connected): the call raises; what was moved into libuv is not taken back.
SubmitRefused(r, f) ==
  /\ UserTurn
  /\ place[r] = "new"
  /\ Call[f].on = "pool" => luser = 1
  /\ fn' = [fn EXCEPT ![r] = f]
  /\ place' = [place EXCEPT ![r] = "refused"]
  /\ rc' = [rc EXCEPT ![r] = 1]
  /\ points' = [points EXCEPT ![r] = Kept(f)]
  /\ count' = [count EXCEPT ![r] = [x \in Fields |-> One(x \in Kept(f))]]
  /\ lrc' = lrc + One("loop" \in Kept(f))
  /\ UNCHANGED <<outcome, user, memory, luser, running, current, handle>>

\* The synchronous twin, from make to the return of the wrapper: the request
\* has no closure; the wrapper reads the result, cleans up or not, and drops
\* its reference; scandir's keeps it as a Scandir.
CallSync(r, f, o) ==
  LET made == (IF Call[f].sync = "copied" THEN {"path"} ELSE {})
                \cup (IF Call[f].gives /\ o = "ok" THEN {"result"} ELSE {})
      left == IF o \in Call[f].tidies THEN {} ELSE made
      keeps == "result" \in left
  IN /\ UserTurn
     /\ place[r] = "new"
     /\ luser = 1
     /\ Call[f].sync # "no"
     /\ fn' = [fn EXCEPT ![r] = f]
     /\ place' = [place EXCEPT ![r] = "over"]
     /\ outcome' = [outcome EXCEPT ![r] = o]
     /\ memory' = [memory EXCEPT ![r] = left]
     /\ user' = [user EXCEPT ![r] = One(keeps)]
     /\ rc' = [rc EXCEPT ![r] = One(keeps)]
     /\ points' = [points EXCEPT ![r] = IF keeps THEN {"loop"} ELSE {}]
     /\ lrc' = lrc + One(keeps)
     /\ UNCHANGED <<count, luser, running, current, handle>>

Dup(r) ==
  /\ UserTurn
  /\ user[r] \in 1 .. MaxRefs - 1
  /\ user' = [user EXCEPT ![r] = @ + 1]
  /\ rc' = [rc EXCEPT ![r] = @ + 1]
  /\ UNCHANGED <<fn, place, outcome, points, count, memory, loopVars, handle>>

\* A variable goes.
Drop(r) ==
  /\ UserTurn
  /\ user[r] > 0
  /\ user' = [user EXCEPT ![r] = @ - 1]
  /\ UNCHANGED fn
  /\ Decref(r)
  /\ UNCHANGED <<place, outcome, memory, luser, running, current, handle>>

\* Mutant: a request that is taken back is forgotten.
CancelLoses(r) ==
  /\ UserTurn
  /\ user[r] > 0
  /\ Call[fn[r]].cancels
  /\ user' = [user EXCEPT ![r] = @ - 1]
  /\ place' = [place EXCEPT ![r] =
                 IF @ = "queued" THEN "over" ELSE @]
  /\ UNCHANGED fn
  /\ Decref(r)
  /\ UNCHANGED <<outcome, memory, luser, running, current, handle>>

\* Cancelable::cancel, of a Fs: uv_cancel takes the request back if no thread
\* has it yet; the parameter is dropped either way.
Cancel(r) ==
  /\ UserTurn
  /\ user[r] > 0
  /\ Call[fn[r]].cancels
  /\ user' = [user EXCEPT ![r] = @ - 1]
  /\ place' = [place EXCEPT ![r] = IF @ = "queued" THEN "cancelled" ELSE @]
  /\ UNCHANGED fn
  /\ Decref(r)
  /\ UNCHANGED <<outcome, memory, luser, running, current, handle>>

\* The program holds entries of a scandir that it has not read to the end.
Listing(r) == place[r] \in {"told", "over"} /\ user[r] > 0 /\ "result" \in memory[r]

\* Scandir::next: at the end it raises and cleans the request up.
ScandirNext(r) ==
  /\ UserTurn
  /\ Listing(r)
  /\ \/ memory' = [memory EXCEPT ![r] = {}]
     \/ UNCHANGED memory
  /\ UNCHANGED <<fn, place, outcome, rc, user, points, count, loopVars, handle>>

------------------------------------------------------------------------------
(* The program: the loop and the handle.                                   *)

\* Loop::run; its parameter holds the loop until it returns.
Run ==
  /\ ~running /\ luser = 1
  /\ running' = TRUE
  /\ lrc' = lrc + 1
  /\ UNCHANGED <<reqVars, luser, current, handle>>

\* It may return with requests pending: Once, NoWait, or after Loop::stop.
RunReturns ==
  /\ LoopTurn
  /\ running' = FALSE
  /\ lrc' = lrc - 1
  /\ UNCHANGED <<reqVars, luser, current, handle>>

DropLoop ==
  /\ UserTurn
  /\ luser = 1
  /\ DropsLoop \/ \A r \in Requests : InPool(r) => "loop" \in Call[fn[r]].keeps
  /\ luser' = 0
  /\ lrc' = lrc - 1
  /\ UNCHANGED <<reqVars, running, current, handle>>

\* Tcp::new, Udp::new: the handle keeps the loop.
OpenHandle ==
  /\ UserTurn
  /\ luser = 1
  /\ handle = "none"
  /\ handle' = "open"
  /\ lrc' = lrc + 1
  /\ UNCHANGED <<reqVars, luser, running, current>>

\* Mutant: what is complete is answered with UV_ECANCELED as well.
CloseHandleUnsettles ==
  /\ UserTurn
  /\ handle = "open"
  /\ handle' = "closing"
  /\ place' = [r \in Requests |->
                 IF OfHandle(r) /\ Pending(r) THEN "cancelled" ELSE place[r]]
  /\ UNCHANGED <<fn, outcome, rc, user, points, count, memory, loopVars>>

\* close(handle): what is pending on it, begun or not, will be answered with
\* UV_ECANCELED, but for what is complete.
CloseHandle ==
  /\ UserTurn
  /\ handle = "open"
  /\ handle' = "closing"
  /\ place' = [r \in Requests |->
                 IF OfHandle(r) /\ Pending(r) /\ ~Settled(r) THEN "cancelled" ELSE place[r]]
  /\ UNCHANGED <<fn, outcome, rc, user, points, count, memory, loopVars>>

------------------------------------------------------------------------------
(* libuv: the pool and the loop.                                           *)

\* A thread takes a request; the loop begins those on a handle, as many at a
\* time as it likes.
Take(r) ==
  /\ place[r] = "queued"
  /\ ~OfHandle(r) => Cardinality({q \in Requests : InPool(q) /\ place[q] = "busy"}) < PoolSize
  /\ OfHandle(r) => LoopTurn
  /\ place' = [place EXCEPT ![r] = "busy"]
  /\ UNCHANGED <<fn, outcome, rc, user, points, count, memory, loopVars, handle>>

\* The thread is done, leaves its result and posts the request to the loop; or
\* the loop has connected, written, sent or shut down, or failed to.
Finish(r, o) ==
  /\ place[r] = "busy"
  /\ OfHandle(r) => LoopTurn
  /\ place' = [place EXCEPT ![r] = "done"]
  /\ outcome' = [outcome EXCEPT ![r] = o]
  /\ memory' = [memory EXCEPT ![r] =
                  @ \cup IF Call[fn[r]].gives /\ o = "ok" THEN {"result"} ELSE {}]
  /\ UNCHANGED <<fn, rc, user, points, count, loopVars, handle>>

\* Mutant: the wrapper cleans up after a success only.
AnswerUnclean(r) ==
  LET call == Call[fn[r]]
      o == IF place[r] = "cancelled" THEN "error" ELSE outcome[r]
      left == IF o = "ok" /\ o \in call.cleans THEN {} ELSE memory[r]
      handsOn == "result" \in left
  IN /\ LoopTurn
     /\ place[r] \in {"done", "cancelled"}
     /\ place' = [place EXCEPT ![r] = "told"]
     /\ outcome' = [outcome EXCEPT ![r] = o]
     /\ memory' = [memory EXCEPT ![r] = left]
     /\ user' = [user EXCEPT ![r] = @ + One(handsOn)]
     /\ UNCHANGED fn
     /\ Settle(r, rc[r] - One(~handsOn), points[r] \ call.moves, count[r], lrc)
     /\ current' = r
     /\ UNCHANGED <<luser, running, handle>>

\* Mutant: the request counts as shared with the callback, not moved into it.
AnswerShares(r) ==
  LET call == Call[fn[r]]
      o == IF place[r] = "cancelled" THEN "error" ELSE outcome[r]
      left == IF o \in call.cleans THEN {} ELSE memory[r]
      handsOn == "result" \in left
  IN /\ LoopTurn
     /\ place[r] \in {"done", "cancelled"}
     /\ place' = [place EXCEPT ![r] = "told"]
     /\ outcome' = [outcome EXCEPT ![r] = o]
     /\ memory' = [memory EXCEPT ![r] = left]
     /\ user' = [user EXCEPT ![r] = @ + One(handsOn)]
     /\ UNCHANGED fn
     /\ Settle(r, rc[r], points[r] \ call.moves, count[r], lrc)
     /\ current' = r
     /\ UNCHANGED <<luser, running, handle>>

\* The C callback: closure and request are moved into the call; the wrapper
\* reads the result, cleans up, drops the request (a successful scandir hands
\* it on instead), and calls the program.
Answer(r) ==
  LET call == Call[fn[r]]
      o == IF place[r] = "cancelled" THEN "error" ELSE outcome[r]
      left == IF o \in call.cleans THEN {} ELSE memory[r]
      handsOn == "result" \in left
  IN /\ LoopTurn
     /\ place[r] \in {"done", "cancelled"}
     /\ place' = [place EXCEPT ![r] = "told"]
     /\ outcome' = [outcome EXCEPT ![r] = o]
     /\ memory' = [memory EXCEPT ![r] = left]
     /\ user' = [user EXCEPT ![r] = @ + One(handsOn)]
     /\ UNCHANGED fn
     /\ Settle(r, rc[r] - One(~handsOn), points[r] \ call.moves, count[r], lrc)
     /\ current' = r
     /\ UNCHANGED <<luser, running, handle>>

\* The program's callback returns: the closure goes, and what it was given.
Return(r) ==
  /\ current = r
  /\ place' = [place EXCEPT ![r] = "over"]
  /\ count' = [count EXCEPT ![r] =
                 [x \in Fields |-> @[x] - One(x \in {"closure"} \cup Call[fn[r]].moves)]]
  /\ current' = None
  /\ UNCHANGED <<fn, outcome, rc, user, points, memory, lrc, luser, running, handle>>

\* The close callback comes after the answers; the handle goes and drops the
\* loop.
HandleClosed ==
  /\ LoopTurn
  /\ handle = "closing"
  /\ \A r \in Requests : OfHandle(r) => ~Pending(r)
  /\ handle' = "closed"
  /\ lrc' = lrc - 1
  /\ UNCHANGED <<reqVars, luser, running, current>>

------------------------------------------------------------------------------
\* The program has nothing left, or no loop to wait with.
Terminated ==
  /\ ~running /\ luser = 0
  /\ \A r \in Requests : user[r] = 0
  /\ UNCHANGED vars

UserStep(r) ==
  \/ \E f \in Names :
       Submit(r, f) \/ SubmitRefused(r, f) \/ \E o \in Outcomes : CallSync(r, f, o)
  \/ Dup(r) \/ Drop(r) \/ Cancel(r) \/ ScandirNext(r)

LibuvStep(r) == Take(r) \/ (\E o \in Outcomes : Finish(r, o)) \/ Answer(r) \/ Return(r)

Next ==
  \/ \E r \in Requests : UserStep(r) \/ LibuvStep(r)
  \/ Run \/ RunReturns \/ DropLoop
  \/ OpenHandle \/ CloseHandle \/ HandleClosed
  \/ Terminated

Spec == Init /\ [][Next]_vars

(***************************************************************************)
(* Threads of the pool finish, callbacks return, a loop that the program   *)
(* still has is run again, and uv_run gets to what is done in the end, how *)
(* often the program may interrupt it.                                     *)
(***************************************************************************)
Fairness ==
  /\ WF_vars(Run)
  /\ \A r \in Requests :
       /\ SF_vars(~OfHandle(r) /\ Take(r))
       /\ WF_vars(~OfHandle(r) /\ \E o \in Outcomes : Finish(r, o))
       /\ SF_vars(Answer(r)) /\ WF_vars(Return(r))

FairSpec == Spec /\ Fairness
------------------------------------------------------------------------------
Places ==
  {"new", "refused", "queued", "busy", "done", "cancelled", "told", "over"}

TypeOK ==
  /\ fn \in [Requests -> Names \cup {None}]
  /\ place \in [Requests -> Places]
  /\ outcome \in [Requests -> Outcomes \cup {"none"}]
  /\ rc \in [Requests -> Nat]
  /\ user \in [Requests -> Nat]
  /\ points \in [Requests -> SUBSET (Fields \cup {"loop"})]
  /\ count \in [Requests -> [Fields -> {0, 1}]]
  /\ memory \in [Requests -> SUBSET Memory]
  /\ lrc \in Int /\ luser \in {0, 1}
  /\ running \in BOOLEAN
  /\ current \in Requests \cup {None}
  /\ handle \in {"none", "open", "closing", "closed"}

\* The references to a request are the program's and libuv's.
RcExact == \A r \in Requests : rc[r] = user[r] + One(Pending(r) \/ place[r] = "refused")

\* Those to the loop: the program's, uv_run's, the handle's, the requests'.
KeepLoop == {r \in Requests : "loop" \in points[r]}

LrcExact ==
  lrc = luser + One(running) + One(handle \in {"open", "closing"}) + Cardinality(KeepLoop)

\* What the fields of a request lead to, and how long it exists.
Held(r) ==
  /\ place[r] = "new" =>
       /\ fn[r] = None /\ user[r] = 0 /\ points[r] = {} /\ memory[r] = {}
       /\ \A x \in Fields : count[r][x] = 0
  /\ place[r] # "new" => fn[r] \in Names
  /\ Pending(r) \/ place[r] = "refused" =>
       /\ points[r] = Kept(fn[r])
       /\ \A x \in Fields : count[r][x] = One(x \in Kept(fn[r]))
  /\ place[r] \in {"told", "over"} =>
       /\ rc[r] = 0 /\ Call[fn[r]].drops => points[r] = {}
       /\ "closure" \in points[r] => ~Call[fn[r]].drops
       /\ points[r] \subseteq {"loop"} \cup Kept(fn[r])
  /\ place[r] = "told" =>
       /\ count[r].closure = 1
       /\ points[r] \cap Call[fn[r]].moves = {}
       /\ count[r].bufs = One("bufs" \in points[r] \cup Call[fn[r]].moves)
  /\ place[r] = "over" => count[r].closure = 0 /\ count[r].bufs = One("bufs" \in points[r])

\* A refused call has left nothing to the program but what it leaks; a request
\* is told while its callback runs, and what is done has a result.
Turn(r) ==
  /\ place[r] = "refused" => user[r] = 0
  /\ place[r] = "told" <=> current = r
  /\ place[r] = "done" => outcome[r] \in Outcomes

\* A thread's request keeps the loop, or the program does.
LoopKept(r) == DropsLoop \/ (InPool(r) => "loop" \in Call[fn[r]].keeps \/ luser = 1)

\* What the references rest on.
ReqInv ==
  /\ TypeOK /\ RcExact /\ LrcExact
  /\ \A r \in Requests : Held(r) /\ Turn(r) /\ LoopKept(r)
  /\ current # None => running

\* Memory of libuv that outcome o of a call made with `path` gives rise to.
Allocates(c, path, o) == path \/ (c.gives /\ o = "ok")

\* What the callback, or the twin, does not clean up.
LeavesOver(c, o) ==
  \/ Allocates(c, c.copies, o) /\ o \notin c.cleans
  \/ Allocates(c, c.sync = "copied", o) /\ o \notin c.tidies

\* The calls whose memory may be left over, or is the program's to read.
Excused(f, o) ==
  \/ f \in {"mkstemp", "mkdtemp"} /\ o = "error"
  \/ f = "scandir" /\ o = "ok"

CleansUp(f, c) == \A o \in Outcomes : LeavesOver(c, o) => Excused(f, o)

\* The path is copied when a call is accepted, a result made when a thread has
\* been successful; told, a request has what its cleanup has left.
Allocated(r) ==
  LET c == Call[fn[r]]
  IN /\ place[r] \in {"new", "refused"} => memory[r] = {}
     /\ Pending(r) =>
          /\ "path" \in memory[r] => c.copies
          /\ "result" \in memory[r] => c.gives /\ place[r] = "done" /\ outcome[r] = "ok"
     /\ place[r] \in {"told", "over"} /\ memory[r] # {} =>
          outcome[r] \in Outcomes /\ LeavesOver(c, outcome[r])

RInv == ReqInv /\ \A r \in Requests : Allocated(r)

\* While libuv has a request it can reach the request, the closure it will
\* call and the buffers it reads or fills (docs/memory.md: no use of the public
\* API leads to a segmentation fault).
NoDangling ==
  \A r \in Requests : Pending(r) =>
    /\ rc[r] > 0
    /\ \A x \in Kept(fn[r]) \ {"loop"} : count[r][x] > 0 /\ x \in points[r]

\* The loop a thread of the pool will post to is there, whether the program
\* still has it or not.
LoopOutlives == \A r \in Requests : InPool(r) => lrc > 0

\* When the program is called back, and ever after, nothing that libuv
\* allocated is left over (but by the failures of mkstemp and mkdtemp_sync and
\* in a scandir that is not read to its end), and with the last reference to an
\* answered request all that it had goes.
NoLeak ==
  \A r \in Requests : place[r] \in {"told", "over"} =>
    /\ memory[r] # {} => Excused(fn[r], outcome[r])
    /\ place[r] = "over" /\ user[r] = 0 => rc[r] = 0 /\ \A x \in Fields : count[r][x] = 0

\* How far a request is, as the program can tell.
Stage(r) ==
  CASE place[r] = "new" -> "idle"
    [] place[r] = "queued" -> "asked"
    [] place[r] \in {"busy", "done"} -> IF Settled(r) THEN "settled" ELSE "begun"
    [] place[r] = "cancelled" -> "withdrawn"
    [] place[r] \in {"told", "over"} -> "told"
    [] OTHER -> "refused"

Abstract == INSTANCE OneShot WITH
  state <- [r \in Requests |-> Stage(r)],
  answer <- [r \in Requests |-> IF Stage(r) \in {"settled", "told"} THEN outcome[r] ELSE "none"],
  onHandle <- {r \in Requests : OfHandle(r)}

\* A request is answered once, by one callback.  A write that is complete keeps
\* its result when its handle is closed (pipe_test.mbt:51-59 closes right after
\* the write and expects success); what is not is told to the error callback,
\* even if it was begun; a cancel takes back only what no thread has begun.
ImplementsOneShot == Abstract!Spec

\* Every accepted request of the pool is answered, if the program keeps its
\* loop; so is every request on a handle that it closes.
Delivered ==
  \A r \in Requests :
    InPool(r) \/ (Pending(r) /\ handle = "closing") ~> place[r] = "told" \/ luser = 0
=============================================================================

------------------------------ MODULE UvStream ------------------------------
(***************************************************************************)
(* Reading, listening and accepting on the streams of uv.mbt (stream.c;    *)
(* Tcp and Pipe share it).  handle->data holds one object for three uses:  *)
(* the stream data with the alloc and read closures, the connection        *)
(* closure of a listening stream, or the close closure.  The glue finds    *)
(* out which by the C function that libuv calls, so the object must be the *)
(* one that function expects.                                              *)
(*                                                                         *)
(* libuv reads by two calls in a row, alloc and read.  While the program's *)
(* alloc closure runs, the stream data is in a local variable of           *)
(* moonbit_uv_read_start_alloc_cb and `data` is NULL; it is put back when  *)
(* the closure returns.  A datagram socket (udp.c) is read in the same two *)
(* calls, but its data stays where it is; where the system has recvmmsg, a *)
(* socket made by Udp::new_ex for it is called with several datagrams for  *)
(* one alloc, the chunks of a batch.                                       *)
(*                                                                         *)
(* Buffers, the counting of the loop and closures that capture the stream  *)
(* are left out (UvHandle has the last two); start and stop after close    *)
(* are UvHandle's too.                                                     *)
(***************************************************************************)
EXTENDS Integers, FiniteSets

CONSTANTS
  Streams,    \* uv_tcp_t, uv_pipe_t or uv_udp_t objects the program may make
  Datagrams,  \* those that are uv_udp_t
  Batching,   \* those of them that were made with recvmmsg
  Slots,      \* objects for handle->data: those in use at one time bound the model
  None,       \* the NULL pointer
  MaxRefs,    \* bound: references to a stream in MoonBit variables
  Allowed     \* which of Liberties the program takes

(***************************************************************************)
(* "alloc": an alloc callback starts, stops or closes its stream.          *)
(* "relisten": listen is called when data is not NULL.                     *)
(* "mix": a listening stream is told to read or to stop reading.           *)
(* "batch": a receive callback called with a chunk closes its socket       *)
(* without stopping it first.                                              *)
(* The last is the network's: "nothing" is a receive callback without an   *)
(* address: no datagram came, receiving failed, or a batch is over.        *)
(***************************************************************************)
Liberties == {"alloc", "relisten", "mix", "batch", "nothing"}

ASSUME StreamAssumption ==
  /\ None \notin Streams \cup Slots
  /\ Datagrams \subseteq Streams /\ Batching \subseteq Datagrams
  /\ MaxRefs \in Nat
  /\ Allowed \subseteq Liberties

VARIABLES
  phase,     \* libuv's state of a stream
  waiting,   \* accepted_fd: 1 if a connection waits for uv_accept
  rc,        \* Moonbit_object_header(stream)->rc; 0 before make and once freed
  user,      \* references to the stream held by the MoonBit program
  data,      \* handle->data
  kind,      \* what an object for data was made for
  count,     \* reference counts: of the object, and of its alloc and read
             \* closures if it is stream data
  frame      \* the call of libuv in progress: what for, on which stream, with
             \* which object, and the reference its stream parameter holds

slotVars == <<data, count>>
vars == <<phase, waiting, rc, user, slotVars, kind, frame>>

\* The read closure is running.
Reads == {"read", "chunk"}

NoFrame == [what |-> "none", on |-> None, slot |-> None, param |-> 0]

\* MoonBit code runs: main or a callback.
UserTurn == frame.what \notin {"between", "crash"}

\* The stream is in the loop's handle queue.
Linked(h) == phase[h] \notin {"none", "closed"}

Free == [object |-> 0, alloc |-> 0, read |-> 0]

Fresh(d) == count[d] = Free

Init ==
  /\ phase = [h \in Streams |-> "none"]
  /\ waiting = [h \in Streams |-> 0]
  /\ rc = [h \in Streams |-> 0]
  /\ user = [h \in Streams |-> 0]
  /\ data = [h \in Streams |-> None]
  /\ kind = [d \in Slots |-> "close"]
  /\ count = [d \in Slots |-> Free]
  /\ frame = NoFrame

------------------------------------------------------------------------------
(* Counting.                                                               *)

\* moonbit_decref of an object made for k: at zero
\* moonbit_uv_stream_data_finalize drops both closures.
Dropped(c, k) ==
  IF k = "read" /\ c.object = 1
  THEN [object |-> 0, alloc |-> c.alloc - 1, read |-> c.read - 1]
  ELSE [c EXCEPT !.object = @ - 1]

Decref(counts, d) ==
  IF d = None THEN counts ELSE [counts EXCEPT ![d] = Dropped(@, kind[d])]

\* The stream's count becomes n, its data d and the other counts `counts`;
\* at zero moonbit_uv_tcp_finalize drops data.
Install(h, n, d, counts) ==
  LET finalize == rc[h] > 0 /\ n <= 0
  IN /\ rc' = [rc EXCEPT ![h] = n]
     /\ data' = [data EXCEPT ![h] = IF finalize THEN None ELSE d]
     /\ count' = IF finalize THEN Decref(counts, d) ELSE counts

\* A new object, one reference, moved into the call that stores it.
Make(d, k) ==
  /\ Fresh(d)
  /\ kind' = [kind EXCEPT ![d] = k]

Made(d, k) ==
  [count EXCEPT ![d] = IF k = "read" THEN [object |-> 1, alloc |-> 1, read |-> 1]
                       ELSE [object |-> 1, alloc |-> 0, read |-> 0]]

\* moonbit_uv_stream_set_data, moonbit_uv_handle_set_data, then the drop of
\* the stream parameter.
SetData(h, d, counts) == Install(h, rc[h] - 1, d, Decref(counts, data[h]))

Consume(h) ==
  /\ UserTurn
  /\ user[h] > 0
  /\ user' = [user EXCEPT ![h] = @ - 1]

------------------------------------------------------------------------------
(* The program's calls.                                                    *)

\* Tcp::new, Pipe::new, Udp::new: make, and init, which leaves one reference to
\* the loop.  A datagram socket may receive from the start.
New(h) ==
  /\ UserTurn
  /\ phase[h] = "none"
  /\ phase' = [phase EXCEPT ![h] = IF h \in Datagrams THEN "connected" ELSE "open"]
  /\ rc' = [rc EXCEPT ![h] = 2]
  /\ user' = [user EXCEPT ![h] = 1]
  /\ UNCHANGED <<waiting, slotVars, kind, frame>>

Dup(h) ==
  /\ UserTurn
  /\ user[h] \in 1 .. MaxRefs - 1
  /\ user' = [user EXCEPT ![h] = @ + 1]
  /\ rc' = [rc EXCEPT ![h] = @ + 1]
  /\ UNCHANGED <<phase, waiting, slotVars, kind, frame>>

\* A variable goes, or set_blocking, write_queue_size, ... consume it.
Drop(h) ==
  /\ Consume(h)
  /\ Install(h, rc[h] - 1, data[h], count)
  /\ UNCHANGED <<phase, waiting, kind, frame>>

\* The running callback keeps its stream parameter.
TakeParam(h) ==
  /\ frame.param = 1
  /\ frame.on = h
  /\ user[h] < MaxRefs
  /\ user' = [user EXCEPT ![h] = @ + 1]
  /\ frame' = [frame EXCEPT !.param = 0]
  /\ UNCHANGED <<phase, waiting, rc, slotVars, kind>>

\* Connecting, or opening a connected socket, makes a stream readable.
Connected(h) ==
  /\ frame = NoFrame
  /\ phase[h] = "open"
  /\ phase' = [phase EXCEPT ![h] = "connected"]
  /\ UNCHANGED <<waiting, rc, user, slotVars, kind, frame>>

\* Calls that replace data are not for a stream that is closed, nor, unless
\* allowed, for the one whose alloc callback is running.
Usable(h) ==
  /\ phase[h] \in {"open", "connected", "reading", "listening"}
  /\ "alloc" \in Allowed \/ ~(frame.what = "alloc" /\ frame.on = h)

\* read_start, recv_start.  The stream data replaces what data holds before
\* libuv is asked; libuv
\* refuses when the stream reads already (EALREADY) or is not connected.
ReadStart(h, d) ==
  /\ Usable(h)
  /\ "mix" \in Allowed \/ phase[h] # "listening"
  /\ Consume(h)
  /\ Make(d, "read")
  /\ SetData(h, d, Made(d, "read"))
  /\ phase' = [phase EXCEPT ![h] = IF @ = "connected" THEN "reading" ELSE @]
  /\ UNCHANGED <<waiting, frame>>

\* Mutant: data is cleared and not dropped.
ReadStopForgets(h) ==
  /\ Usable(h)
  /\ "mix" \in Allowed \/ phase[h] # "listening"
  /\ Consume(h)
  /\ Install(h, rc[h] - 1, None, count)
  /\ phase' = [phase EXCEPT ![h] = IF @ = "reading" THEN "connected" ELSE @]
  /\ UNCHANGED <<waiting, kind, frame>>

ReadStop(h) ==
  /\ Usable(h)
  /\ "mix" \in Allowed \/ phase[h] # "listening"
  /\ Consume(h)
  /\ SetData(h, None, count)
  /\ phase' = [phase EXCEPT ![h] = IF @ = "reading" THEN "connected" ELSE @]
  /\ UNCHANGED <<waiting, kind, frame>>

\* moonbit_uv_listen: the closure overwrites data, and stays when uv_listen
\* refuses (an address in use, a connected stream).
Listen(h, d) ==
  /\ Usable(h)
  /\ h \notin Datagrams
  /\ "mix" \in Allowed \/ phase[h] \in {"open", "listening"}
  /\ "relisten" \in Allowed \/ data[h] = None
  /\ Consume(h)
  /\ Make(d, "listen")
  /\ Install(h, rc[h] - 1, d, Made(d, "listen"))
  /\ \/ phase[h] = "open" /\ phase' = [phase EXCEPT ![h] = "listening"]
     \/ UNCHANGED phase
  /\ UNCHANGED <<waiting, frame>>

\* moonbit_uv_accept into a stream without a socket; both streams are dropped.
\* libuv refuses when no connection waits.
Accept(server, client) ==
  /\ UserTurn
  /\ server # client
  /\ user[server] > 0 /\ user[client] > 0
  /\ phase[server] = "listening" /\ phase[client] = "open"
  /\ user' = [user EXCEPT ![server] = @ - 1, ![client] = @ - 1]
  /\ rc' = [rc EXCEPT ![server] = @ - 1, ![client] = @ - 1]
  /\ IF waiting[server] = 1
     THEN /\ phase' = [phase EXCEPT ![client] = "connected"]
          /\ waiting' = [waiting EXCEPT ![server] = 0]
     ELSE UNCHANGED <<phase, waiting>>
  /\ UNCHANGED <<slotVars, kind, frame>>

\* libuv is handing a batch to the socket's receive callback, and goes on while
\* its own recv_cb is set: uv_udp_recv_stop clears it, uv_close does not.
InBatch(h) ==
  /\ frame.what = "chunk" /\ frame.on = h
  /\ phase[h] \in {"reading", "cut"}

\* moonbit_uv_close; libuv stops reading and listening and closes a
\* connection that waits.
Close(h, d) ==
  /\ Usable(h)
  /\ "batch" \in Allowed \/ ~InBatch(h)
  /\ Consume(h)
  /\ Make(d, "close")
  /\ SetData(h, d, Made(d, "close"))
  /\ phase' = [phase EXCEPT ![h] = IF InBatch(h) THEN "cut" ELSE "closing"]
  /\ waiting' = [waiting EXCEPT ![h] = 0]
  /\ UNCHANGED frame

------------------------------------------------------------------------------
(* libuv's calls.                                                          *)

\* libuv asks for memory: the alloc closure is called, with a reference to it
\* and to the stream.
CallAlloc(h) ==
  /\ frame = NoFrame
  /\ phase[h] = "reading"
  /\ data[h] # None
  /\ count' = [count EXCEPT ![data[h]].alloc = @ + 1]
  /\ rc' = [rc EXCEPT ![h] = @ + 1]
  /\ frame' = [what |-> "alloc", on |-> h, slot |-> data[h], param |-> 1]
  /\ UNCHANGED <<phase, waiting, user, kind>>

\* Mutant: data is left in place while the alloc callback runs.
AllocCbKeepsData(h) ==
  /\ h \notin Datagrams
  /\ CallAlloc(h)
  /\ UNCHANGED data

\* moonbit_uv_read_start_alloc_cb, up to the call of the closure.
AllocCb(h) ==
  /\ h \notin Datagrams
  /\ CallAlloc(h)
  /\ data' = [data EXCEPT ![h] = None]

\* moonbit_uv_udp_recv_start_alloc_cb, up to the call.
RecvAllocCb(h) ==
  /\ h \in Datagrams
  /\ CallAlloc(h)
  /\ UNCHANGED data

\* The alloc closure returns, dropping itself and the parameter it still has;
\* the stream has data d from now on.
AllocGave(h, d, counts) ==
  /\ frame.what = "alloc"
  /\ frame.on = h
  /\ Install(h, rc[h] - frame.param, d, counts)
  /\ frame' = [what |-> "between", on |-> h, slot |-> None, param |-> 0]
  /\ UNCHANGED <<phase, waiting, user, kind>>

DropAlloc == [count EXCEPT ![frame.slot].alloc = @ - 1]

\* Mutant: the stream data is not put back.
AllocReturnsForgets(h) ==
  h \notin Datagrams /\ AllocGave(h, data[h], DropAlloc)

\* The stream data replaces whatever data holds now.
AllocReturns(h) ==
  h \notin Datagrams /\ AllocGave(h, frame.slot, Decref(DropAlloc, data[h]))

RecvAllocReturns(h) ==
  h \in Datagrams /\ AllocGave(h, data[h], DropAlloc)

\* Mutant: the read closure is called without taking a reference to it.
CallReadBorrows(h, what) ==
  /\ frame.what = "between" /\ frame.on = h
  /\ phase[h] = "reading"
  /\ data[h] # None
  /\ rc' = [rc EXCEPT ![h] = @ + 1]
  /\ frame' = [what |-> what, on |-> h, slot |-> data[h], param |-> 1]
  /\ UNCHANGED <<waiting, user, slotVars, kind>>

\* libuv has read, or failed to: the read closure is called, with a reference
\* to it and to the stream.
CallRead(h, what) ==
  /\ frame.what = "between" /\ frame.on = h
  /\ phase[h] = "reading"
  /\ data[h] # None
  /\ count' = [count EXCEPT ![data[h]].read = @ + 1]
  /\ rc' = [rc EXCEPT ![h] = @ + 1]
  /\ frame' = [what |-> what, on |-> h, slot |-> data[h], param |-> 1]
  /\ UNCHANGED <<waiting, user, data, kind>>

\* moonbit_uv_read_start_read_cb.  At the end of the stream libuv has stopped
\* reading before the call.
ReadCb(h) ==
  /\ h \notin Datagrams
  /\ CallRead(h, "read")
  /\ \/ UNCHANGED phase
     \/ phase' = [phase EXCEPT ![h] = "connected"]

\* moonbit_uv_udp_recv_start_cb; it reads the sender's address, which is NULL
\* when there is no sender.
RecvCb(h) ==
  /\ h \in Datagrams
  /\ \E what \in {"read", "chunk", "crash"} :
       /\ what = "chunk" => h \in Batching
       /\ what = "crash" => "nothing" \in Allowed
       /\ CallRead(h, what)
  /\ UNCHANGED phase

\* moonbit_uv_listen_cb: a connection arrived, or failed to.
ListenCb(h) ==
  /\ frame = NoFrame
  /\ phase[h] = "listening"
  /\ waiting[h] = 0
  /\ data[h] # None
  /\ waiting' \in {waiting, [waiting EXCEPT ![h] = 1]}
  /\ count' = [count EXCEPT ![data[h]].object = @ + 1]
  /\ rc' = [rc EXCEPT ![h] = @ + 1]
  /\ frame' = [what |-> "listen", on |-> h, slot |-> data[h], param |-> 1]
  /\ UNCHANGED <<phase, user, data, kind>>

\* moonbit_uv_close_cb, as in UvHandle.
CloseCb(h) ==
  /\ frame = NoFrame
  /\ phase[h] \in {"closing", "cut"}
  /\ data[h] # None
  /\ Install(h, rc[h] - 1, None, count)
  /\ frame' = [what |-> "close", on |-> h, slot |-> data[h], param |-> 0]
  /\ phase' = [phase EXCEPT ![h] = "closed"]
  /\ UNCHANGED <<waiting, user, kind>>

\* A callback returns, dropping its closure and the parameter it still has; in
\* a batch libuv may have the next datagram at hand.
Return(h) ==
  /\ frame.what \in {"read", "chunk", "listen", "close"}
  /\ frame.on = h
  /\ Install(h, rc[h] - frame.param, data[h],
             IF frame.what \in Reads THEN [count EXCEPT ![frame.slot].read = @ - 1]
             ELSE Decref(count, frame.slot))
  /\ \/ frame' = NoFrame
     \/ InBatch(h) /\ frame' = [what |-> "between", on |-> h, slot |-> None, param |-> 0]
  /\ UNCHANGED <<phase, waiting, user, kind>>

------------------------------------------------------------------------------
UserStep(h) ==
  \/ New(h) \/ Dup(h) \/ Drop(h) \/ TakeParam(h) \/ ReadStop(h)
  \/ \E d \in Slots : ReadStart(h, d) \/ Listen(h, d) \/ Close(h, d)
  \/ \E client \in Streams : Accept(h, client)

LoopStep(h) ==
  \/ Connected(h)
  \/ AllocCb(h) \/ AllocReturns(h) \/ ReadCb(h)
  \/ RecvAllocCb(h) \/ RecvAllocReturns(h) \/ RecvCb(h)
  \/ ListenCb(h) \/ CloseCb(h) \/ Return(h)

\* The program holds no stream and none of its code runs.
Terminated ==
  /\ frame = NoFrame
  /\ \A h \in Streams : user[h] = 0
  /\ UNCHANGED vars

Next == (\E h \in Streams : UserStep(h) \/ LoopStep(h)) \/ Terminated

Spec == Init /\ [][Next]_vars

------------------------------------------------------------------------------
Phases == {"none", "open", "connected", "reading", "listening", "closing", "cut", "closed"}
Counts == [object : Int, alloc : Int, read : Int]

TypeOK ==
  /\ phase \in [Streams -> Phases]
  /\ waiting \in [Streams -> {0, 1}]
  /\ rc \in [Streams -> Int]
  /\ user \in [Streams -> Nat]
  /\ data \in [Streams -> Slots \cup {None}]
  /\ kind \in [Slots -> {"read", "listen", "close"}]
  /\ count \in [Slots -> Counts]
  /\ frame \in [what : {"none", "alloc", "between", "read", "chunk", "crash", "listen", "close"},
                on : Streams \cup {None}, slot : Slots \cup {None}, param : {0, 1}]

\* The closure that is running.
Running == CASE frame.what = "alloc" -> count[frame.slot].alloc
             [] frame.what \in Reads \cup {"crash"} -> count[frame.slot].read
             [] OTHER -> count[frame.slot].object

\* Nothing leads to an object that was freed: not libuv or the program to a
\* stream, not data, the alloc call's local variable or a call in progress to
\* an object or a closure, and no NULL address is read (docs/memory.md: no
\* segmentation fault).
NoDangling ==
  /\ frame.what # "crash"
  /\ \A h \in Streams :
       /\ Linked(h) \/ user[h] > 0 \/ (frame.on = h /\ frame.what # "close") => rc[h] > 0
       /\ data[h] # None => rc[h] > 0 /\ count[data[h]].object > 0
  /\ frame.slot # None => Running > 0
  /\ frame.what = "alloc" => count[frame.slot].object > 0

\* The C function that libuv calls next on a stream finds in data the object
\* it takes for granted.
CallableData ==
  \A h \in Streams :
    LET busy == frame.on = h /\ frame.what = "alloc" /\ h \notin Datagrams
        holds(k) == data[h] # None /\ kind[data[h]] = k
    IN /\ frame.on = h /\ frame.what = "between" => phase[h] = "reading" /\ holds("read")
       /\ phase[h] = "reading" /\ ~busy => holds("read")
       /\ phase[h] = "listening" => holds("listen")
       /\ phase[h] \in {"closing", "cut"} /\ ~busy => holds("close")

\* A closed stream is freed with the program's last reference, and an object
\* for data, with its closures, when nothing leads to it.
NoLeak ==
  /\ \A h \in Streams :
       phase[h] = "closed" /\ user[h] = 0 /\ frame.on # h => rc[h] = 0 /\ data[h] = None
  /\ \A d \in Slots :
       (\A h \in Streams : data[h] # d) /\ frame.slot # d => Fresh(d)

\* The callbacks the program gave last to a stream.
Installed(h) ==
  IF frame.what = "alloc" /\ frame.on = h /\ data[h] = None THEN frame.slot ELSE data[h]

\* Whatever a callback does to other streams, the callbacks of a stream change
\* only by a call of the program on that stream, by its close callback, or
\* when it is freed; a read in progress does not bring old ones back.
OnlyCallsReplace ==
  [][\A h \in Streams :
       Installed(h)' # Installed(h) =>
         \/ ReadStop(h) \/ CloseCb(h) \/ rc'[h] = 0
         \/ \E d \in Slots : ReadStart(h, d) \/ Listen(h, d) \/ Close(h, d)]_vars

------------------------------------------------------------------------------
(* The invariant of programs that take none of Liberties.                  *)

One(b) == IF b THEN 1 ELSE 0

RcExact ==
  \A h \in Streams :
    rc[h] = user[h] + One(Linked(h)) + One(frame.on = h /\ frame.param = 1)

\* The stream data is in the local variable of the alloc call.
Away == frame.what = "alloc" /\ frame.on \notin Datagrams

\* A stream's data leads to the object.
Stored(d) == \E h \in Streams : data[h] = d

\* An object for data is in one place.
Held(d) == One(Stored(d))
           + One(frame.slot = d /\ (frame.what \in {"listen", "close"} \/ Away))

CountExact ==
  \A d \in Slots :
    /\ count[d].object = Held(d)
    /\ count[d].alloc = One(kind[d] = "read" /\ Held(d) = 1)
                        + One(frame.slot = d /\ frame.what = "alloc")
    /\ count[d].read = One(kind[d] = "read" /\ Held(d) = 1)
                       + One(frame.slot = d /\ frame.what \in Reads)

Places ==
  /\ \A h, g \in Streams : data[h] # None /\ data[h] = data[g] => h = g
  /\ \A h \in Streams :
       /\ phase[h] # "cut"
       /\ phase[h] \in {"none", "closed"} => data[h] = None
       /\ phase[h] = "none" => user[h] = 0 /\ frame.on # h
  /\ frame.what # "crash"
  /\ frame.what = "none" => frame = NoFrame
  /\ frame.what = "between" => frame.slot = None /\ frame.param = 0
  /\ frame.what \notin {"none", "between"} => frame.slot # None
  /\ frame.what # "none" => frame.on # None
  /\ frame.what = "alloc" =>
       /\ phase[frame.on] = "reading" /\ kind[frame.slot] = "read"
       /\ data[frame.on] = IF Away THEN None ELSE frame.slot
       /\ Away => \A h \in Streams : data[h] # frame.slot
  /\ frame.what \in Reads => kind[frame.slot] = "read" /\ phase[frame.on] # "closed"
  /\ frame.what = "listen" => kind[frame.slot] = "listen" /\ phase[frame.on] # "closed"
  /\ frame.what = "close" => kind[frame.slot] = "close" /\ phase[frame.on] = "closed"
                             /\ frame.param = 0

SInv == TypeOK /\ Places /\ RcExact /\ CountExact /\ CallableData

(***************************************************************************)
(* The invariant also of programs that listen again ("relisten"): an       *)
(* object that listen overwrites keeps a reference that nobody has, so the *)
(* counts are no longer exact, only never too low.                         *)
(***************************************************************************)

CountEnough ==
  \A d \in Slots :
    /\ count[d].object >= Held(d)
    /\ count[d].alloc >= One(kind[d] = "read" /\ count[d].object > 0)
                         + One(frame.slot = d /\ frame.what = "alloc")
    /\ count[d].read >= One(kind[d] = "read" /\ count[d].object > 0)
                        + One(frame.slot = d /\ frame.what \in Reads)

RelistenInv == TypeOK /\ Places /\ RcExact /\ CountEnough /\ CallableData
=============================================================================

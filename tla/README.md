# uv.mbt in TLA+

`uv.mbt` binds MoonBit to libuv. Its C files (`src/src/*.c`) are almost entirely
*ownership glue*: every `uv_*_t` is a MoonBit external object with a reference
count, every callback a MoonBit closure with one, and each C function must leave
the counts right although libuv keeps raw pointers to both. The `.mbt` files
wrap the C functions (an `#owned` parameter consumes one reference of the caller)
and raise `Errno` for negative results. What can go wrong is therefore not in any
single function but in sequences of them: a callback that closes its own handle,
a finalizer that runs because the loop gave up the last reference, a request
cancelled while a pool thread runs it, two threads that count at the same time.
That is what these modules are about. `docs/memory.md` states the goals (lines
5-9): no use of the public API leads to a segmentation fault, correct use leaks
nothing.

libuv and the MoonBit runtime are not in the repository's `src/` and are modelled
as the code uses them: of libuv the handle flags, queues and the order in which it
calls back; of the runtime the counts and the finalizer that runs at zero.

## The system

| Component | State | Operations | Interacts with | What makes it correct |
|---|---|---|---|---|
| Watcher handles: timer, idle, prepare, check, poll, fs_event, fs_poll (`handle.*`, `timer.c`, ...) | the count of the handle, `handle->data` (the one closure libuv's next call invokes), `handle->loop`, libuv's flags | make, init, start, stop, close, getters, event callback, close callback, finalizer | the loop (queue of handles, `uv_walk`), closures that capture their handle | no pointer of libuv's dangles; `data` holds a closure of the type of the next call; all is freed once closed and dropped |
| Loop (`loop.*`) | count, `stop_flag`, libuv's queues | new, run, stop, alive, walk, close, configure, fork | every handle and most requests keep it alive | outlives what refers to it |
| Shared thread primitives: Mutex, Sem, Cond, RwLock, Thread | wrappers (MoonBit counts) and a heap block with `arc`, atomic or guarded by a mutex | make/init, share (copy), the primitive's calls, finalizer | threads, closures moved to threads | the block is freed once, by the last wrapper, with no other thread inside it |
| Thread pool work and cancel (`work.*`, `req.*`) | request, its data with two closures, the counts of all three | queue_work, cancel, type_, work and after callbacks, finalizers | pool threads and the loop thread both count | cancelled work never runs, every request is reported, nothing dangles or leaks |
| Streams: Stream, Tcp, Pipe (`stream.*`, `tcp.*`, `pipe.*`) | the data slot shared by read data, listen closure and close closure | listen, accept, read_start, read_stop, connect, write, shutdown | requests, handles | as for handles, with user code called between two halves of a read |
| UDP (`udp.*`) | data with alloc and receive closures | bind, send, recv_start, recv_stop, connect | requests | like streams |
| One-shot requests: write, shutdown, connect, udp send, getaddrinfo, getnameinfo, random | count of the request, its fields (closure, buffers, loop) | submit, refusal, cancel, callback, finalizer | handles, thread pool, loop | kept alive until the callback, released after it, on every path |
| File system requests (`fs.c`, `fs.mbt`, `stat.c`) | `uv_fs_t`, the same fields, what libuv allocates for it | some 40 calls, asynchronous and synchronous, Scandir, cleanup | thread pool, cancel | buffers outlive the call, cleaned up once, the callback gets the result |
| Directory streams (`fs.c`, `fs.mbt`) | a bare `uv_dir_t` with one `dirents` field, an array of entries for each read | opendir, readdir, closedir, cancel | pool threads write through the Dir | entries in order and once, no use of a freed array |
| Async, Signal, Tty | like watcher handles, counted differently | init, send, start, stop, close | other threads (`send`), the loop | see hazards: the rule of `docs/memory.md` is not followed |
| Processes (`process.*`) | stdio containers, options, exit closure, process handle | make, spawn, kill, close, exit callback | handles, streams | the exit closure is called once, every stream reference ends |
| Barrier, Once, Key | libuv objects | thin calls | threads | - |
| Pure conversions: flags, addresses, CpuSet, priorities, error numbers | none | - | - | conversions agree with libuv's |
| os, passwd, if, cpu_info, rusage, metrics, time, version, env, args, dl | none | copy a value out | - | - |

Hard behaviours, with their lines, are in `PROJECT.json` under `hazards`: callbacks
that re-enter the glue, finalizers that run in the middle of a callback, counts that
two threads change, cancellation racing with the pool, initialisation that fails half
way, and stale reads of `data` around a call into user code.

`loop.mbt:169` and `stream.mbt:141,239` declare foreign functions that no C file
defines; nothing can call them and they are not modelled.

## Modules

| Module | Models | Runs | Proofs |
|---|---|---|---|
| `SharedObject` | abstract: an object that references share | via refinement | - |
| `UvHandle` | watcher handles, the loop's run and its counting | `handle_safety`, `handle_failing_init`, one counterexample (`MCHandle`) | `UvHandleProofs` |
| `UvArc` | Mutex, Sem, Cond, RwLock, Thread | `arc_safety` (`MCArc`) | `UvArcProofs` |
| `UvWork` | thread pool requests and cancel | `work_safety`, one counterexample (`MCWork`) | `UvWorkProofs` |
| `UvStream` | reading, receiving, listening, accepting, closing of streams and datagram sockets | `stream_safety` (`MCStream`) | `UvStreamProofs` |
| `OneShot` | abstract: a call that is answered once | via refinement | - |
| `UvCalls` | the table of one-shot requests, one record per C function | in `req_safety` | in `UvReqProofs` |
| `UvReq` | what a call with such a record does | `req_safety` (`MCReq`) | `UvReqProofs` |
| `DirListing` | abstract: reading a directory | via refinement | - |
| `UvDir` | directory streams | `dir_safety` (`MCDir`) | `UvDirProofs` |
| `UvUneven` | async, signal, tty | `uneven_safety`, one counterexample (`MCUneven`) | `UvUnevenProofs` |
| `UvProcess` | stdio containers, options, processes | `process_safety` (`MCProcess`) | `UvProcessProofs` |

The modules do not share variables: what one component keeps of another is a count in
its own module (a request keeps its loop in `UvReq`, a process its streams in
`UvProcess`), with the operations that change it.

### SharedObject

Two functions of objects, `refs` and `state`, and three steps: *Create* (with at least
one reference), *Share* (any change of the number of references of a live object that
has some; it may be freed when they are gone) and *Reclaim* (freed later). It is what
all of the ownership schemes promise. `UvHandle` implements it with `refs[h] <- Refs(h)`, the
references to `h` that exist, and a state that is live while the count `rc[h]` is positive (a
handle is freed in the step that drops its last reference), and `UvArc`
with `refs[b] <-` the number of wrappers that count in block `b` (a block is freed a few
steps after its last wrapper left `arc`).

### UvHandle

The seven kinds share their C text up to names; `KindOf` gives each handle a record
of the four things that differ (does stop clear `data`, can start fail, is an event the
last one, can init fail). One action is one call from MoonBit, with the drop of each
parameter and whatever finalizers that runs:

* `New`/`NewFails` - `Timer::new` and its siblings, make followed by init;
* `Start`, `Stop`, `Close` - `set_data`, the libuv call and the drop of the handle. The
  closure may capture the handle (`self`), which makes a cycle that only close breaks;
* `Dup`, `Drop`, `TakeParam`, `HandleLoop`, `Walk`, `DupLoop`, `DropLoop` - references
  copied, dropped, handed out;
* `EventCb`, `CloseCb`, `Return` - libuv calls back: `frame` is the C stack frame, with
  the closure, the handle and whether the parameter is still held. Between the call and
  `Return` the callback is the program and may take any of the actions above;
* `Run`, `StopLoop`, `RunReturns` - `uv_run` in its modes and `uv_stop`.

`Install` writes a handle's count and data back and, when the count reaches zero,
does what `moonbit_uv_xxx_finalize` does: drop `handle->data` and `handle->loop`.
`share` on a handle adds and drops one reference and is `Dup`.

Runs: `handle_safety` (timer and fs_event, 3 closures, 2 references each: enough for a
callback to replace its closure while it runs and for a close in between) checks that
nothing dangles, that `data` is callable by libuv, that nothing leaks, and that
`SharedObject` is implemented; `handle_failing_init` (a timer and a poll handle whose
init, start and stop may fail) the inductive invariant, with the exact counts, and that
close callbacks are delivered. `handle_after_close` shows a disagreement with the
documentation: start and stop after close replace the close callback.

Fairness: callbacks return (`WF Return`); every iteration of `uv_run` ends with the
closing handles, so a handle whose close callback is due again and again gets it
(`SF CloseCb`). Nothing is assumed of the program: it need not call `run`, and then no
close callback is owed.

### UvArc

A thread runs its program (`at = "run"`) until it calls; the labels are the points of
the glue between two accesses that other threads can see: the atomic add or subtract,
taking the guard, the store that releases it, the test of the value read, the free. A
wrapper belongs to one thread at a time (`owner`; `Move` is a closure handed to a new
thread). `Guarded` says which blocks count under a mutex of their own (`thread.c`, and
every primitive of a build without C11 atomics). The payload's calls (`Use`,
`UseBoth`) may block for any time; only the block's lifetime is at stake.

Run: `arc_safety` (2 threads, 3 wrappers, one guarded and one atomic block: one thread
may be in a call or share a block while the other finalizes a wrapper of it) checks the
inductive invariant, memory safety, the refinement of `SharedObject` and that blocks are
reclaimed; the first three are also proved, for any number of threads.
Fairness: threads that are inside the glue are scheduled; calls of the payload may
block forever.

### UvWork

A request moves through `place`: queued, taken by a pool thread, its work running, done,
its after callback, over; or cancelled before it is taken. `moonbit_incref` and
`moonbit_decref` are not atomic, so each is two steps, `Begin` (the count is read) and
`End` (written back, with the finalizers if it is zero), by the loop thread or by the
pool thread that has the request.

With `Overlap = FALSE` a count operation starts only when no other is in progress:
on these schedules the scheme itself is right, and `work_safety` shows it (exact counts,
nothing dangles, nothing leaks, the pool never frees a request, cancelled work does not
run, and every queued request is reported), with two requests and one pool thread for
which they compete; the safety part is also proved, for any number of either. With
`Overlap = TRUE` the schedules are those that the threads really have, and
`work_overlap` finds the lost update: the pool thread's `moonbit_incref(req)`
(`work.c:62`) against the loop thread's drop of the request that `queue_work` returned.
Fairness: count operations end and the steps of the pool and the loop are
strongly fair, because with `Overlap = FALSE` the program's own counting may disable them
for a moment again and again.

The counts of the loop object, which the request's finalizer drops, are not in this
module; `NeverFreedByPool` is what makes that drop safe.

### UvStream

`data` of a stream holds one of three kinds of object, and the C function libuv calls
takes the kind for granted. An object for `data` is a slot; `count` has its own count
and, for stream data, those of its two closures, because a read or alloc callback takes a
reference to its closure and not to the stream data around it. libuv's pair of calls for
one read is `AllocCb`, `AllocReturns`, `ReadCb`, `Return`: between the first two the
program's alloc closure runs with the stream data in `frame.slot` (the C local variable)
and `data` NULL; between the second and third no program code runs (`what = "between"`,
as on Unix, where libuv calls both in one iteration). A refused `read_start` or `listen`
has replaced `data` all the same. A datagram socket (`Datagrams`, `udp.c`) is read by
`RecvAllocCb`, `RecvAllocReturns`, `RecvCb`, which leave the data in its place while the
program's alloc closure runs, and neither listens nor accepts. One made with recvmmsg
(`Batching`; `UdpFlags::new`, `udp.mbt:213`) is handed several datagrams after one alloc: after a
call for a chunk of a batch, `Return` may lead to the next `RecvCb` without an alloc, as long as libuv's
`recv_cb` is set (`InBatch`). `uv_udp_recv_stop` clears it; `uv_close` does not (phase `"cut"`).

`Allowed` says which of `Liberties` are taken; the code is right when none is, and
`stream_safety` shows it (a server, a client and a datagram socket that receives in batches, so
that one's callback acts on another; three slots, so that a callback may replace its object
while it runs). The API allows the program four of them, and the fifth is the network's; with any
one of them in `Allowed` of `stream_safety.cfg` TLC finds `SInv` violated:

* `"alloc"`: a start, stop or close in the stream's own alloc callback is undone when that
  callback returns, and `CallableData` and `NoDangling` are lost (`stream.c:92`, `udp.c:261`);
* `"relisten"`: a second `listen` leaks the first closure (`NoLeak`) and costs nothing
  worse, as `RelistenSafe` proves;
* `"mix"`: reading calls on a listening stream break `CallableData` (`stream.c:142,157`);
* `"batch"`: a receive callback that is called with a chunk closes its socket without stopping
  it; libuv calls `moonbit_uv_udp_recv_start_cb` again, which takes the close closure in `data` for
  the udp data (`udp.c:273-274`). A `recv_stop` before the `close` is what avoids it;
* `"nothing"`: a receive callback without an address. libuv makes one when nothing is left to
  receive, when receiving failed and when a batch is over, so it is hardly a liberty: `udp.c:283` reads the
  family of the address and stops the program there. What is checked and proved of datagram
  sockets is about the calls that have an address.

`OnlyCallsReplace` is the promise of a callback API seen from outside: the callbacks in force are
those given last.

Left out: the bytes of a buffer (alloc's buffer goes to the read call that follows at
once), captures of the stream in closures and the loop's count (both in `UvHandle`),
use after close (in `UvHandle`).

### UvCalls, UvReq, OneShot

The C functions of `fs.c`, `dns.c`, `random.c`, `write.c`, `shutdown.c`, the two connects
and `udp_send` all have one shape and differ in a few facts: what the request keeps, what its
callback moves out of it, whether the finalizer drops the rest, whether libuv copies a path
or leaves a result, after which outcomes the wrapper cleans up. `UvCalls` is that table, one
record for each function with its `_sync` twin; `UvReq` executes a call with a record.

A request is `queued`, `busy` (a pool thread has it, or libuv has begun it on its handle), `done`
or `cancelled`, then `told` while the program's callback runs and `over` after it; or `refused` by
libuv at the call. `Submit`, `SubmitRefused` and `CallSync` are the three ends of a call; `starts` of a
record says how far an accepted one is when the call returns: a pool request and a shutdown wait, a
connect is begun, and a write or a send, which libuv tries at once, may wait, be begun (partly written) or
be complete. `Answer` is the C callback with the MoonBit wrapper around the program's closure (read the
result, clean up, drop the request or hand it on). `CloseHandle` makes what is pending on the handle
`cancelled`, begun or not, but for what is complete (`Settled`): `pipe_test.mbt:51-59` writes, closes at once
and expects success. `Cancel`, of file system requests only, takes back what no thread has begun.

Run: `req_safety` (two requests of six functions, one for each way a call can end: a result
that stays, a copied template, no loop, a moved buffer, a write, a connect; one pool thread
for which they compete). `MCReq` also has TLC evaluate that every record of the table is
one `UvReq` can execute and that cleans up what it allocates, and that no two functions have one
name. It shows the exact counts, that libuv finds request, closure and
buffers as long as it may use them, that the loop a pool thread posts to outlives it, that
nothing is left over (but a scandir that is not read to its end and the template of
a failed `mkstemp` or `mkdtemp_sync`), the refinement of `OneShot` (answered once; an answer that libuv has
is not changed by a close or a cancel; what is withdrawn goes to the error callback; a cancel takes back only
what was not begun), and that every request is answered. That the answers come before the handle's close
callback is how libuv works and the guard of `HandleClosed`; it is not checked. `dns.c` does not keep the loop: with
`DropsLoop = TRUE`, a program that drops its loop while one of its requests is pending,
`LoopOutlives` is lost. Refused calls leak their request and, through it, what it keeps:
`NoLeak` speaks of answered requests.
Fairness: pool threads finish, a loop the program still has is run again, `uv_run` gets to
what is done (`SF`, as the program may interrupt it by returning from `run`).

### UvDir, DirListing

A `Dir` is a bare pointer: nothing counts it, and the pool thread that fills the array of
one readdir finds it through `dir->dirents`, an entry at a time (`Fill`), as does
`uv_fs_req_cleanup`. `DirListing` is what the program wants: entries in order, each once.

Run: `dir_safety` (five requests: an opendir, up to four readdirs of up to two entries of a
directory of three, a closedir; two pool threads; cancels and errors of the system) shows
that arrays and Dir are there when a thread or callback uses them, that no name or array
is left over, and the refinement. It is for programs that wait for the answer before the
next call on a Dir (`Overlap = FALSE`); nothing in the API asks for that, and with
`Overlap = TRUE` a second readdir overwrites `dirents`, and `NoDangling` is lost.

### UvUneven

Async, Signal and Tty do not follow the rule of `docs/memory.md` that init leaves a
reference to the loop: init drops it, `Async::send` and `Signal::start` take one and keep
it, `Signal::stop` drops two, and the close callback drops one that was never taken. `extra[h]` counts
what no variable holds, `Taken(h)` what the calls have taken but for that last drop. Nothing
restrains the program: it sends, starts, stops, copies, drops, closes and walks to its handles in any order, as
often as `MaxExtra` lets it, in callbacks too. Sends are coalesced (`due` is a set), and one made while
the callback of an earlier one runs makes it due again. A start may fail and keep the reference all the same,
change only the closure (the signal is watched already), or end the old watch. A `Signal` is no
`ToHandle`; it can be closed with the reference that `Loop::walk` hands out (`Walk`). Once a handle or its
loop was freed too early (`Broken`) what happens is undefined, and the model stops.

`uneven_safety` (two handles of any of the three kinds) shows the counts, exact for every program
(`UInv`), and from them what the program must have done to be right: an async that was sent to at
least once, and a signal started more often than stopped, is there for libuv, its callback and every
variable, with its loop (`NoDangling`); a closed handle that no variable refers to keeps `Taken(h) - 1`
references (`NoLeak`), so it is freed if the calls took one and leaks if they took more; a
tty is safe until it is closed or dropped, or its loop is. An async never sent to, a signal not started, and a tty that
is closed are freed while libuv links them: these are `Broken`, and the code has the fault. `Heard` is what
`async.mbt:74-76` promises: after every send, repeated, coalesced or made in the callback, a call of the
callback begins, unless the handle is closed or broken or the loop given up.

`send` may come from another thread, whose count is a load and a store. In `uneven_safety` the loop thread does
not count the handle in between (`Races = FALSE`). `async_thread` lets it: an increment is lost, and a handle that
was sent to is freed while linked or in a variable, although the documentation names `send` as what other threads may call.
Fairness: callbacks return, another thread's send ends, a loop that the program has is run, and `uv_run`
gets to the callbacks that are due (`SF`).

### UvProcess

Containers own a stream until `ProcessOptions::new` moves their contents into the options
(`SetStdio`: in the order of the list, so that a container that occurs twice is to ignore the
second time); options own the exit closure until the first `spawn` moves it into the
process; the exit callback moves it into its call. `src` counts the references to the stream.

Run: `process_safety` (two spawns from one set of options with two streams, one container
that may be used twice and remade) shows that the exit closure is in one place and called at most once,
the exact counts of processes, loop and stream, that nothing dangles or leaks, and that the
exit of a child is told unless the process was closed first. A container of an inherited file that
is dropped unused is left out: its finalizer takes the file number for a pointer.

## Bounds

`Handles`, `Closures`, `Wrappers`, `Blocks`, `Requests`, `Streams`, `Slots`, `Processes`,
`Options` and `Containers` bound the objects the program makes; a closure, slot or container
may be allocated again after it was freed, a handle, block, request, stream or process not,
so a stale pointer shows as a pointer to a count of zero. `MaxRefs` bounds the
references of the program to one object, `MaxExtra` how far sends and starts run ahead of
what drops them, `MaxStdio` a child's streams, `Chunk` and `Entries` a directory. No counter
is bounded otherwise; all runs are exhaustive. Two objects suffice for what one does to
another (through the loop, the guard or the pool), and where there is a proof the theorems
hold for any number. Symmetry (of closures in `handle_safety`, of streams and slots in
`stream_safety`, of requests in `dir_safety`) is used only in runs without liveness
properties.

The premises that some runs and theorems make are constants, so that the
module has the other programs too. Three of them have a run that shows what happens without:
`AfterClose` (`UvHandle`; `handle_after_close`), `Overlap` of `UvWork` (`work_overlap`) and `Races` (`UvUneven`;
`async_thread`), each of which contradicts a line of the documentation. `InitFails` (`UvHandle`) is set in
`handle_failing_init`, where a failing init leaks and `NoLeak` is not claimed. `Overlap` of `UvDir`, `Allowed` (`UvStream`) and `DropsLoop`
(`UvReq`) have no run of their own: setting them in `dir_safety.cfg`, `stream_safety.cfg` and `req_safety.cfg`
gives the counterexamples described above.

## Proofs

All of the theorems hold for every value of the constants under the assumptions in the
modules (`HandleAssumption`, `ArcAssumption`, `ReqAssumption` and so on: finite sets where counts are
cardinalities, `None` outside of the object sets, handle kinds and calls of the right type) and, where it says so, for the
schedules of one setting of a constant, stated as hypothesis of the theorem.

* `UvHandleProofs`: `TypeCorrect`; `Inductive` (`IInv` for programs that do not use a
  handle they closed); `MemorySafe`; `LeakFree` (when init does not fail); `Refinement`.
  `NoDangling` alone is not inductive: that a handle is alive while libuv links it
  follows only from the *exact* count (program, loop, callback parameter, captures in
  closures), the exact count of each closure, and the fact that each live closure is
  either in one `data` slot or running. `IInv` states these, one conjunct each, and each
  action has a lemma that keeps them.
* `UvArcProofs`: `ArcInductive`, `ArcMemorySafe` and `ArcRefinement`, for any number
  of threads, wrappers and blocks, any mix of atomic and guarded counts. The invariant `AInv`
  says that `arc` is the number of wrappers that still count (a cardinality: adding and
  subtracting one are `CountUp` and `CountDown`), that a guarded `arc` is as the thread
  inside the guard read it, and that the thread that saw the last count is alone with
  the block.
* `UvWorkProofs`: `WorkInductive` and `WorkMemorySafe`, for any
  number of requests and pool threads, with `~Overlap`. `WInv` adds to the exact counts
  where each request's closures are in every `place` and that the value a thread has
  read is still the count. `WorkUnbegun` and `WorkCancel` need no such hypothesis. Their
  invariant `RaceInv` says who may be counting what: a pool thread only its own request, from
  the call of the work closure on. So up to that call, and for good in a request that was
  cancelled, the counts are exact also on schedules where counts overlap (`work_overlap` shows
  what happens after it), and cancelled work does not run.
* `UvStreamProofs`: `StreamInvariant` and `StreamMemorySafe`, for any
  streams, sockets and objects, with `Allowed = {}`, for sockets that receive in batches
  too; `RelistenInvariant`, `RelistenSafe` and
  `StreamCallbacks` with `Allowed \subseteq {"relisten"}`. `SInv` says in which place an object
  is (`Places`: one stream's data, or the local variable of the alloc call, or the call of a
  listen or close closure) and that its counts are the number of those places (`Held`) and
  of its running closures. What `listen` overwrites keeps a count that nothing accounts for, so
  `RelistenInv` has inequalities in place of the equations (`CountEnough`); each step is proved once,
  to preserve `RelistenInv` and with it the equations. All calls that put something into `data` are one lemma
  (`ReplaceStep`), all that do not touch it another (`QuietStep`); each of libuv's calls has
  its own.
* `UvDirProofs`: `DirInductive`, `DirMemorySafe` and `DirImplementsListing`, for any requests,
  threads and entries, with `~Overlap`. `DirInv` needs, besides where arrays and names are, the
  history of the one Dir (`Once`): opened before it is closed, closed once, and not used again.
  The order needs `InOrder` too, and `DInv` is both: what was handed over lies before what the one
  reader has copied, which is consecutive and ends at the cursor of the system's stream, and a
  result of zero means the cursor is at the last entry. The refinement maps the entries
  the cursor has passed that are neither handed over nor in an array to the skipped entries of
  `DirListing` (`Skipped`), and a told result of zero to its end (`Ended`). A `Fill` changes no
  variable of the listing, `FillFails` loses what its array held, and the callback of a readdir
  hands over its array or, if that is empty and the read did not fail, tells the end.
* `UvReqProofs`: `ReqInvariant`, `ReqMemoryInvariant`, `ReqMemorySafe`, `ReqTable`, `ReqLeakFree`,
  `ReqCodeLeakFree`,
  `ReqLoopOutlives` (with `~DropsLoop`) and `ReqImplementsOneShot`, for any requests, any pool and any table of calls whose records have
  the right types (`IsCall`, in `ReqAssumption`). `ReqInv` says of each request what its fields lead to in every place (`Held`), that
  the one that is told is the one whose callback runs and what is done has a result (`Turn`), and that a loop which a pool thread
  posts to is kept by the request or by the program (`LoopKept`); the loop's count is a
  cardinality. The refinement maps `place` to the states of `OneShot` (`Stage`) and the result of what is settled or told to its answer; `CloseHandle`
  withdraws many requests in one step, and most other steps are one step of `OneShot` or none.
  `RInv` adds what libuv has allocated for a request (`Allocated`): a path or template only if the
  call copies one, a result only after success and only if the call gives one, and once the program
  is told, only what the record of the call leaves (`LeavesOver`: what the wrapper of this outcome does not
  clean). `ReqLeakFree` has as its hypothesis that the functions of the table leave nothing but
  what `Excused` names (`CleansUp`), a fact about the table and not about schedules. `ReqTable` proves
  it, and `IsCall`, of each function of `UvCalls`, and `ReqCodeLeakFree` is `ReqLeakFree` for a program that
  calls these, whichever and however often.
* `UvUnevenProofs`: `UnevenInvariant`, `UnevenMemorySafe` and `UnevenFreed`, for any handles of the
  three kinds and any program, with `~Races` as the only hypothesis: without it the theorems are
  false. Exact counts say nothing by themselves here, as `extra` may be anything a program makes of it;
  `Accounts` adds what it is in each phase (an async that is due was sent to, so `Taken` is at least 1; a tty's
  is 0), that a count which `send` has read on another thread is still the count, and that what is not open is not
  due. Steps after something was freed too early need no proof: the model has none.
* `UvProcessProofs`: `ProcessInvariant`, `ProcessMemorySafe` and `ExitClosureOnce`, for any
  processes, options and containers. `ProcessInv` leaves the standard streams out. `ExitOnce`, a sum,
  is not inductive: `OneHolder` says it pair by pair (no two processes, no process and options,
  nobody after the call), and `Fresh` that what was never spawned has nothing.
  `StdioInvariant` and `ProcessLeakFree` add the streams: `SrcExact` counts the containers that own
  one and the entries of all lists, and a step that moves a list of any length changes both at
  once. That `SetStdio` moves as many references as it lists is a bijection: each container that
  owned the stream is matched with the first place that names it (`Least`, `MovedOnce`), and each
  later place is to ignore. `Least`, that a non-empty set of numbers has a least member, comes
  from the well-foundedness of `<` as the library states it for sets, which needs no
  induction over an operator.

Only model-checked, as liveness is out of the prover's reach: `CloseDelivered`,
`Reclaimed`, `Delivered` (of `UvWork` and of `UvReq`), `Heard`, `ExitTold`. All invariants and
refinements that a passing run checks are also proved. The counterexample runs are TLC's alone.

## Plan

| | Module | Content | State |
|---|---|---|---|
| A | `UvHandle` | watcher handles and loop | checked, proved |
| B | `UvArc` | shared thread primitives | checked, proved |
| C | `UvWork` | thread pool and cancel | checked, proved |
| D | `UvStream` | read data, alloc and read callbacks, listen, accept, close, receive | checked, proved |
| E | `UvCalls`, `UvReq` | one-shot and file system requests, refining `OneShot` | checked, safety and refinement proved |
| F | `UvDir` | directory streams, refining `DirListing` | checked, safety and refinement proved |
| G | `UvUneven` | async, signal, tty | checked, safety proved |
| H | `UvProcess` | stdio containers, options, processes | checked, safety proved |

## Known and outside of the models

Reading the code for the models showed faults that are a matter of one call, for which a
state machine says no more than the line does: the slice of `stream.mbt:66` is wrong for
a read at an offset other than 0; `udp.c:192` drops a NULL address; `udp.c:293` copies an IPv6 address with the size of a plain
`sockaddr`; `signal.mbt:62` passes `oneshot` the wrong way round (modelled so in
`UvUneven!Start`); `process.c:102` takes the union of a container for a pointer;
`thread.c:126` stores a block before its mutex is there; `mutex.c:49` destroys a locked
mutex with its last wrapper; `work.mbt:38` drops what a work closure captured on the pool's
thread. They are not in the list of hazards, which is about sequences of calls; `udp.c:283`, which reads the
family of a NULL address when a batch or the datagrams are over, is in the list and in `UvStream` (`"nothing"`).

## Not modelled

* Values of one call: flags, addresses and sockets, `CpuSet`, priorities, file status, error
  numbers, views of bytes. No state of their own, nothing for an interleaving to disturb.
* Copies of system information, environment, arguments, dynamic libraries: a call, a value.
* Barrier, Once and Key: one libuv call each; they have no shared count, so a second thread
  cannot even refer to one.
* `Loop::configure`, `fork`, `now` and the like are forwarded to libuv. Closing a handle
  twice aborts inside libuv by design.
* The vendored libuv, the MoonBit runtime (modelled as used) and the scripts that fetch
  and build them.
* `UvHandle` and `UvStream` do not model their requests: write, shutdown and connect are in
  `UvReq`, which has one handle with a phase of its own.

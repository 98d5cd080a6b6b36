------------------------------- MODULE UvArc -------------------------------
(***************************************************************************)
(* Mutex, Sem, Cond, RwLock and Thread of uv.mbt: objects that several     *)
(* threads share.  MoonBit's reference count is not atomic, so each thread *)
(* has a wrapper of its own, counted by MoonBit, and the wrappers of one   *)
(* primitive point to a heap block that counts them: `arc`, an _Atomic     *)
(* int32_t in C11 builds, an int32_t guarded by a mutex of the block in    *)
(* the others and, always, in thread.c.  share() makes a wrapper for the   *)
(* same block; the finalizer of the last wrapper destroys and frees it.    *)
(*                                                                         *)
(* The steps are the points where threads can interleave: each access to   *)
(* `arc` and each taking of the guard is one.  What a thread does to its   *)
(* own wrappers in between is private and joined to the step before it.    *)
(* The payload (the lock, the semaphore, the OS thread) is libuv's: a call *)
(* on it may block for any time and return at any time.                    *)
(***************************************************************************)
EXTENDS Integers, FiniteSets

CONSTANTS
  Threads,
  Wrappers,   \* MoonBit objects: those alive at one time bound the model
  Blocks,     \* heap blocks, never allocated twice
  Guarded,    \* the blocks whose arc is guarded by the mutex of the block
  None,       \* the NULL pointer
  MaxRefs     \* bound: references to one wrapper

ASSUME ArcAssumption ==
  /\ IsFiniteSet(Wrappers)
  /\ Guarded \subseteq Blocks
  /\ None \notin Threads \cup Wrappers \cup Blocks
  /\ MaxRefs \in Nat

VARIABLES
  owner,   \* the thread that holds the references to a wrapper, or None
  refs,    \* Moonbit_object_header(wrapper)->rc
  block,   \* wrapper->block
  arc,     \* block->arc
  mem,     \* "none" before malloc, then "live" until the block is "freed"
  guard,   \* who holds block->mutex
  at,      \* where a thread is
  self,    \* the wrapper its current call works on
  other,   \* the second parameter of that call: share's result, or the
           \* wrapper to drop next
  tmp      \* its local variable `arc`

heapVars == <<arc, mem, guard>>
callVars == <<self, other>>
vars == <<owner, refs, block, heapVars, at, callVars, tmp>>

\* The block thread t's call works on.
On(t) == block[self[t]]

Owns(t, w) == owner[w] = t /\ refs[w] > 0

\* The call is over, or its second parameter is to be dropped.
Finish(t) ==
  /\ at' = [at EXCEPT ![t] = IF other[t] = None THEN "run" ELSE "drop"]
  /\ self' = [self EXCEPT ![t] = other[t]]
  /\ other' = [other EXCEPT ![t] = None]

Goto(t, label) == at' = [at EXCEPT ![t] = label]

Call(t, label, w, v) ==
  /\ at[t] = "run"
  /\ Goto(t, label)
  /\ self' = [self EXCEPT ![t] = w]
  /\ other' = [other EXCEPT ![t] = v]

Init ==
  /\ owner = [w \in Wrappers |-> None]
  /\ refs = [w \in Wrappers |-> 0]
  /\ block = [w \in Wrappers |-> None]
  /\ arc = [b \in Blocks |-> 0]
  /\ mem = [b \in Blocks |-> "none"]
  /\ guard = [b \in Blocks |-> None]
  /\ at = [t \in Threads |-> "run"]
  /\ self = [t \in Threads |-> None]
  /\ other = [t \in Threads |-> None]
  /\ tmp = [t \in Threads |-> 0]

------------------------------------------------------------------------------
(* The program: references to wrappers and calls.                          *)

\* Mutex::new and its siblings.  When init fails it frees the block and leaves
\* NULL, which the finalizer skips: nothing remains of the attempt.
New(t, w, b) ==
  /\ at[t] = "run"
  /\ owner[w] = None
  /\ mem[b] = "none"
  /\ owner' = [owner EXCEPT ![w] = t]
  /\ refs' = [refs EXCEPT ![w] = 1]
  /\ block' = [block EXCEPT ![w] = b]
  /\ arc' = [arc EXCEPT ![b] = 1]
  /\ mem' = [mem EXCEPT ![b] = "live"]
  /\ UNCHANGED <<guard, at, callVars, tmp>>

Dup(t, w) ==
  /\ at[t] = "run"
  /\ Owns(t, w)
  /\ refs[w] < MaxRefs
  /\ refs' = [refs EXCEPT ![w] = @ + 1]
  /\ UNCHANGED <<owner, block, heapVars, at, callVars, tmp>>

Drop(t, w) ==
  /\ Owns(t, w)
  /\ Call(t, "drop", w, None)
  /\ UNCHANGED <<owner, refs, block, heapVars, tmp>>

\* A closure handed to another thread (Thread::new) takes the wrapper along.
Move(t, u, w) ==
  /\ at[t] = "run"
  /\ Owns(t, w)
  /\ refs[w] = 1
  /\ owner' = [owner EXCEPT ![w] = u]
  /\ UNCHANGED <<refs, block, heapVars, at, callVars, tmp>>

\* A call on the payload, which may block: lock, wait, post, join, ...
Use(t, w) ==
  /\ Owns(t, w)
  /\ Call(t, "in", w, None)
  /\ UNCHANGED <<owner, refs, block, heapVars, tmp>>

\* A call with two parameters: Cond::wait(cond, mutex), Thread::equal.
UseBoth(t, w, v) ==
  /\ Owns(t, w) /\ Owns(t, v) /\ w # v
  /\ Call(t, "in", w, v)
  /\ UNCHANGED <<owner, refs, block, heapVars, tmp>>

UseReturns(t) ==
  /\ at[t] = "in"
  /\ Goto(t, "drop")
  /\ UNCHANGED <<owner, refs, block, heapVars, callVars, tmp>>

\* share(): a new wrapper, then moonbit_uv_xxx_copy(self, other).
Share(t, w, v) ==
  /\ Owns(t, w)
  /\ owner[v] = None
  /\ Call(t, "add", w, v)
  /\ owner' = [owner EXCEPT ![v] = t]
  /\ refs' = [refs EXCEPT ![v] = 1]
  /\ UNCHANGED <<block, heapVars, tmp>>

------------------------------------------------------------------------------
(* moonbit_uv_xxx_copy.                                                    *)

\* other->block = self->block; then self is dropped.
Attach(t) ==
  /\ block' = [block EXCEPT ![other[t]] = On(t)]
  /\ other' = [other EXCEPT ![t] = None]
  /\ Goto(t, "drop")
  /\ UNCHANGED <<owner, refs, mem, self>>

\* atomic_fetch_add
Add(t) ==
  /\ at[t] = "add"
  /\ On(t) \notin Guarded
  /\ arc' = [arc EXCEPT ![On(t)] = @ + 1]
  /\ Attach(t)
  /\ UNCHANGED <<guard, tmp>>

\* Mutant: arc is read and written without waiting for the guard.
LockDoesNotWait(t) ==
  /\ On(t) \in Guarded
  /\ guard' = [guard EXCEPT ![On(t)] = t]
  /\ tmp' = [tmp EXCEPT ![t] = arc[On(t)]]
  /\ UNCHANGED <<owner, refs, block, arc, mem, callVars>>

\* uv_mutex_lock, then `arc` is read.
Lock(t) ==
  /\ On(t) \in Guarded
  /\ guard[On(t)] = None
  /\ guard' = [guard EXCEPT ![On(t)] = t]
  /\ tmp' = [tmp EXCEPT ![t] = arc[On(t)]]
  /\ UNCHANGED <<owner, refs, block, arc, mem, callVars>>

AddLoad(t) ==
  /\ at[t] = "add"
  /\ Lock(t)
  /\ Goto(t, "adding")

\* `arc` is written, then uv_mutex_unlock.
AddStore(t) ==
  /\ at[t] = "adding"
  /\ arc' = [arc EXCEPT ![On(t)] = tmp[t] + 1]
  /\ guard' = [guard EXCEPT ![On(t)] = None]
  /\ Attach(t)
  /\ UNCHANGED tmp

------------------------------------------------------------------------------
(* moonbit_decref of a wrapper, and moonbit_uv_xxx_finalize at zero.       *)

Decref(t) ==
  /\ at[t] = "drop"
  /\ refs' = [refs EXCEPT ![self[t]] = @ - 1]
  /\ IF refs[self[t]] > 1 THEN Finish(t) ELSE Goto(t, "sub") /\ UNCHANGED callVars
  /\ UNCHANGED <<owner, block, heapVars, tmp>>

\* atomic_fetch_sub
Sub(t) ==
  /\ at[t] = "sub"
  /\ On(t) \notin Guarded
  /\ tmp' = [tmp EXCEPT ![t] = arc[On(t)]]
  /\ arc' = [arc EXCEPT ![On(t)] = @ - 1]
  /\ Goto(t, "test")
  /\ UNCHANGED <<owner, refs, block, mem, guard, callVars>>

SubLoad(t) ==
  /\ at[t] = "sub"
  /\ Lock(t)
  /\ Goto(t, "subbing")

\* Mutant: a path that forgets uv_mutex_unlock.
SubStoreNoUnlock(t) ==
  /\ at[t] = "subbing"
  /\ arc' = [arc EXCEPT ![On(t)] = tmp[t] - 1]
  /\ Goto(t, "test")
  /\ UNCHANGED <<owner, refs, block, mem, guard, callVars, tmp>>

SubStore(t) ==
  /\ at[t] = "subbing"
  /\ arc' = [arc EXCEPT ![On(t)] = tmp[t] - 1]
  /\ guard' = [guard EXCEPT ![On(t)] = None]
  /\ Goto(t, "test")
  /\ UNCHANGED <<owner, refs, block, mem, callVars, tmp>>

\* Mutant: the count is read again after it was decremented.
LastWrapperRereads(t) == arc[On(t)] <= 0

\* Mutant: `if (arc >= 1) return`.
LastWrapperOffByOne(t) == tmp[t] < 1

\* The value that was read decides: `if (arc > 1) return`.
LastWrapper(t) == tmp[t] <= 1

\* The finalizer returns and the runtime frees the wrapper.
FreeWrapper(t) ==
  /\ owner' = [owner EXCEPT ![self[t]] = None]
  /\ block' = [block EXCEPT ![self[t]] = None]
  /\ Finish(t)
  /\ UNCHANGED <<refs, arc, guard, tmp>>

Keep(t) ==
  /\ at[t] = "test"
  /\ ~LastWrapper(t)
  /\ FreeWrapper(t)
  /\ UNCHANGED mem

\* uv_xxx_destroy and free.
Reclaim(t) ==
  /\ at[t] = "test"
  /\ LastWrapper(t)
  /\ mem' = [mem EXCEPT ![On(t)] = "freed"]
  /\ FreeWrapper(t)

------------------------------------------------------------------------------
UserStep(t) ==
  \/ \E w \in Wrappers :
       \/ Dup(t, w) \/ Drop(t, w) \/ Use(t, w)
       \/ \E b \in Blocks : New(t, w, b)
       \/ \E u \in Threads : Move(t, u, w)
       \/ \E v \in Wrappers : UseBoth(t, w, v) \/ Share(t, w, v)
  \/ UseReturns(t)

GlueStep(t) ==
  \/ Add(t) \/ AddLoad(t) \/ AddStore(t)
  \/ Decref(t) \/ Sub(t) \/ SubLoad(t) \/ SubStore(t) \/ Keep(t) \/ Reclaim(t)

Terminated ==
  /\ \A t \in Threads : at[t] = "run"
  /\ \A w \in Wrappers : owner[w] = None
  /\ UNCHANGED vars

Next == (\E t \in Threads : UserStep(t) \/ GlueStep(t)) \/ Terminated

Spec == Init /\ [][Next]_vars

\* Threads are scheduled; a call on the payload may block forever.
Fairness == \A t \in Threads : WF_vars(GlueStep(t))

FairSpec == Spec /\ Fairness

------------------------------------------------------------------------------
Labels == {"run", "in", "add", "adding", "drop", "sub", "subbing", "test"}

TypeOK ==
  /\ owner \in [Wrappers -> Threads \cup {None}]
  /\ refs \in [Wrappers -> Nat]
  /\ block \in [Wrappers -> Blocks \cup {None}]
  /\ arc \in [Blocks -> Int]
  /\ mem \in [Blocks -> {"none", "live", "freed"}]
  /\ guard \in [Blocks -> Threads \cup {None}]
  /\ at \in [Threads -> Labels]
  /\ self \in [Threads -> Wrappers \cup {None}]
  /\ other \in [Threads -> Wrappers \cup {None}]
  /\ tmp \in [Threads -> Int]

\* t has taken its wrapper off the count and is to act on the result.
Leaving(t) == at[t] = "test"

\* The wrapper counts in its block's arc.
Counted(w) == block[w] # None /\ \A t \in Threads : self[t] = w => ~Leaving(t)

Pointing(b) == {w \in Wrappers : block[w] = b /\ Counted(w)}

\* Thread t is about to read or write the memory of block b.
Touches(t, b) ==
  \/ at[t] \in {"in", "add", "adding", "sub", "subbing"} /\ On(t) = b
  \/ at[t] = "in" /\ other[t] # None /\ block[other[t]] = b
  \/ Leaving(t) /\ LastWrapper(t) /\ On(t) = b

\* No thread reads, writes, locks, destroys or frees a block that was freed
\* (mutex.c: the finalizer that sees arc > 1 must return).
NoUseAfterFree ==
  \A t \in Threads, b \in Blocks : Touches(t, b) => mem[b] = "live"

\* The thread that destroys a block and its guard is alone with it: no other
\* thread is in a call on it or waits for its guard, and no wrapper leads to it.
SoleReclaimer ==
  \A t \in Threads : Leaving(t) /\ LastWrapper(t) =>
    /\ Pointing(On(t)) = {}
    /\ guard[On(t)] = None
    /\ \A u \in Threads \ {t} : ~Touches(u, On(t))

\* A block that no reference of the program leads to is freed, however its
\* finalizers interleave.
Reclaimed ==
  \A b \in Blocks :
    (mem[b] = "live" /\ \A w \in Wrappers : block[w] = b => refs[w] = 0)
      ~> mem[b] = "freed"

------------------------------------------------------------------------------
(* The inductive invariant.                                                *)

\* arc counts the wrappers, and a live block has some or one thread that is
\* about to free it.
ArcExact ==
  \A b \in Blocks :
    /\ arc[b] = Cardinality(Pointing(b))
    /\ mem[b] = "live" <=>
         \/ Pointing(b) # {}
         \/ \E t \in Threads : Leaving(t) /\ LastWrapper(t) /\ On(t) = b

\* Where the calls are: a thread's call works on wrappers of its own.
Calls ==
  \A t \in Threads :
    /\ at[t] = "run" <=> self[t] = None
    /\ at[t] = "run" => other[t] = None
    /\ at[t] # "run" =>
         /\ owner[self[t]] = t
         /\ block[self[t]] # None
         /\ refs[self[t]] > 0 <=> at[t] \notin {"sub", "subbing", "test"}
    /\ at[t] \in {"add", "adding"} => other[t] # None
    /\ other[t] # None =>
         /\ other[t] # self[t]
         /\ owner[other[t]] = t
         /\ refs[other[t]] > 0
         /\ block[other[t]] = None <=> at[t] \in {"add", "adding"}

\* A wrapper that exists has references, or its finalizer is running.
Owned ==
  \A w \in Wrappers :
    /\ owner[w] = None => refs[w] = 0 /\ block[w] = None
    /\ owner[w] # None =>
         /\ refs[w] > 0 \/ \E t \in Threads : self[t] = w
         /\ block[w] = None => \E t \in Threads : other[t] = w

\* The guard is held around each read and write of a guarded arc.
GuardHeld ==
  /\ \A t \in Threads : at[t] \in {"adding", "subbing"} =>
       guard[On(t)] = t /\ On(t) \in Guarded /\ tmp[t] = arc[On(t)]
  /\ \A b \in Blocks : guard[b] # None =>
       at[guard[b]] \in {"adding", "subbing"} /\ On(guard[b]) = b

AInv == TypeOK /\ Calls /\ Owned /\ GuardHeld /\ ArcExact /\ SoleReclaimer

Shared == INSTANCE SharedObject WITH
  Objects <- Blocks,
  refs <- [b \in Blocks |-> Cardinality(Pointing(b))],
  state <- [b \in Blocks |-> IF mem[b] = "none" THEN "unborn" ELSE mem[b]]

\* A block lives while a wrapper counts in it, is freed once, after the last
\* one left, and no wrapper ever leads to it again.
ImplementsShared == Shared!Spec
=============================================================================

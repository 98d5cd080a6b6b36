---------------------------- MODULE UvArcProofs ----------------------------
(* The shared blocks of UvArc are never used after they are freed, for any *)
(* threads, wrappers and blocks and for both ways of counting.             *)
EXTENDS UvArc, FiniteSetTheorems, TLAPS

\* A thread that is about to free a block has no wrapper of that block left
\* to fear and no rival.
Alone ==
  \A t \in Threads : Leaving(t) /\ LastWrapper(t) =>
    /\ Pointing(On(t)) = {}
    /\ \A u \in Threads : Leaving(u) /\ LastWrapper(u) /\ On(u) = On(t) => u = t

\* A wrapper is in one thread's call at most.
LEMMA OneCall ==
  TypeOK /\ Calls =>
    \A t, u \in Threads : self[t] # None /\ self[t] = self[u] => t = u
BY DEF TypeOK, Calls

\* The wrappers of a call count until it has subtracted them.
LEMMA InUse ==
  TypeOK /\ Calls =>
    \A t \in Threads :
      /\ at[t] \in {"in", "add", "adding", "drop", "sub", "subbing"} =>
           self[t] \in Pointing(On(t)) /\ On(t) \in Blocks
      /\ at[t] = "in" /\ other[t] # None =>
           other[t] \in Pointing(block[other[t]]) /\ block[other[t]] \in Blocks
<1> SUFFICES ASSUME TypeOK, Calls, NEW t \in Threads
    PROVE /\ at[t] \in {"in", "add", "adding", "drop", "sub", "subbing"} =>
               self[t] \in Pointing(On(t)) /\ On(t) \in Blocks
          /\ at[t] = "in" /\ other[t] # None =>
               other[t] \in Pointing(block[other[t]]) /\ block[other[t]] \in Blocks
  OBVIOUS
<1>1. ASSUME at[t] \in {"in", "add", "adding", "drop", "sub", "subbing"}
      PROVE  self[t] \in Pointing(On(t)) /\ On(t) \in Blocks
  <2>1. self[t] \in Wrappers /\ block[self[t]] # None
    BY <1>1 DEF TypeOK, Calls
  <2>2. \A u \in Threads : self[u] = self[t] => ~Leaving(u)
    BY <1>1, <2>1, OneCall, ArcAssumption DEF Leaving
  <2> QED
    BY <2>1, <2>2 DEF Pointing, Counted, On, TypeOK
<1>2. ASSUME at[t] = "in", other[t] # None
      PROVE  other[t] \in Pointing(block[other[t]]) /\ block[other[t]] \in Blocks
  <2>1. other[t] \in Wrappers /\ block[other[t]] # None /\ refs[other[t]] > 0
    BY <1>2 DEF TypeOK, Calls
  <2>2. \A u \in Threads : self[u] = other[t] => ~Leaving(u)
    BY <2>1 DEF Calls, Leaving
  <2> QED
    BY <2>1, <2>2 DEF Pointing, Counted, TypeOK
<1> QED
  BY <1>1, <1>2

\* Who holds the guard of a block is in a call on it.
LEMMA AloneSole == TypeOK /\ Calls /\ GuardHeld /\ Alone => SoleReclaimer
<1> SUFFICES ASSUME TypeOK, Calls, GuardHeld, Alone,
                    NEW t \in Threads, Leaving(t), LastWrapper(t)
    PROVE /\ Pointing(On(t)) = {}
          /\ guard[On(t)] = None
          /\ \A u \in Threads \ {t} : ~Touches(u, On(t))
  BY DEF SoleReclaimer
<1>1. Pointing(On(t)) = {} /\ On(t) \in Blocks
  <2>1. Pointing(On(t)) = {}
    BY DEF Alone
  <2>2. self[t] \in Wrappers /\ block[self[t]] # None
    BY DEF Leaving, Calls, TypeOK
  <2> QED
    BY <2>1, <2>2 DEF On, TypeOK
<1>2. guard[On(t)] = None
  <2>1. guard[On(t)] \in Threads \cup {None}
    BY <1>1 DEF TypeOK
  <2>2. ASSUME NEW u \in Threads, guard[On(t)] = u PROVE FALSE
    <3>1. u # None /\ at[u] \in {"adding", "subbing"} /\ On(u) = On(t)
      BY <1>1, <2>2, ArcAssumption DEF GuardHeld
    <3>2. self[u] \in Pointing(On(u))
      BY <3>1, InUse
    <3> QED
      BY <1>1, <3>1, <3>2
  <2> QED
    BY <2>1, <2>2
<1>3. ASSUME NEW u \in Threads \ {t} PROVE ~Touches(u, On(t))
  BY <1>1, InUse DEF Touches, Alone
<1> QED
  BY <1>1, <1>2, <1>3

\* SoleReclaimer implies the part of it that the steps carry along.
LEMMA SoleAlone == TypeOK /\ Calls /\ SoleReclaimer => Alone
BY DEF SoleReclaimer, Alone, Touches, On

\* Memory safety follows from the invariant: a block in use has a wrapper
\* that counts in it, or a thread that is about to free it.
LEMMA AInvSafe == AInv => NoUseAfterFree
<1> SUFFICES ASSUME AInv, NEW t \in Threads, NEW b \in Blocks, Touches(t, b)
    PROVE mem[b] = "live"
  BY DEF NoUseAfterFree
<1>1. Pointing(b) # {} \/ (Leaving(t) /\ LastWrapper(t) /\ On(t) = b)
  BY InUse DEF AInv, Touches
<1> QED
  BY <1>1 DEF AInv, ArcExact

\* The initial state satisfies the inductive invariant.
LEMMA AInvInit == Init => AInv
<1> SUFFICES ASSUME Init PROVE AInv
  OBVIOUS
<1>1. \A b \in Blocks : Pointing(b) = {}
  BY ArcAssumption DEF Init, Pointing, Counted
<1>2. TypeOK
  BY DEF Init, TypeOK, Labels
<1>3. Calls /\ Owned /\ GuardHeld
  BY ArcAssumption DEF Init, Calls, Owned, GuardHeld
<1>4. ArcExact /\ SoleReclaimer
  BY <1>1, FS_EmptySet DEF Init, ArcExact, SoleReclaimer, Leaving
<1> QED
  BY <1>2, <1>3, <1>4 DEF AInv

\* Every step keeps the types: a block that a thread writes is one it is on.
LEMMA ArcTypeNext == TypeOK /\ Calls /\ [Next]_vars => TypeOK'
<1> SUFFICES ASSUME TypeOK, Calls, [Next]_vars PROVE TypeOK'
  OBVIOUS
<1> USE DEF TypeOK, Labels, heapVars, callVars
<1>1. ASSUME NEW t \in Threads, NEW w \in Wrappers,
             Dup(t, w) \/ Drop(t, w) \/ Use(t, w)
      PROVE  TypeOK'
  BY <1>1 DEF Dup, Drop, Use, Owns, Call, Goto
<1>2. ASSUME NEW t \in Threads, NEW w \in Wrappers, NEW b \in Blocks, New(t, w, b)
      PROVE  TypeOK'
  BY <1>2 DEF New
<1>3. ASSUME NEW t \in Threads, NEW u \in Threads, NEW w \in Wrappers, Move(t, u, w)
      PROVE  TypeOK'
  BY <1>3 DEF Move
<1>4. ASSUME NEW t \in Threads, NEW w \in Wrappers, NEW v \in Wrappers,
             UseBoth(t, w, v) \/ Share(t, w, v)
      PROVE  TypeOK'
  BY <1>4 DEF UseBoth, Share, Call, Goto
<1>5. ASSUME NEW t \in Threads, UseReturns(t) PROVE TypeOK'
  BY <1>5 DEF UseReturns, Goto
<1>6. ASSUME NEW t \in Threads, Add(t) \/ AddStore(t) PROVE TypeOK'
  <2>1. On(t) \in Blocks \cup {None}
    BY <1>6 DEF Add, AddStore, Calls, On
  <2> QED
    BY <1>6, <2>1 DEF Add, AddStore, Attach, Goto
<1>7. ASSUME NEW t \in Threads, AddLoad(t) \/ SubLoad(t) PROVE TypeOK'
  <2>1. On(t) \in Blocks
    BY <1>7, ArcAssumption DEF AddLoad, SubLoad, Lock
  <2> QED
    BY <1>7, <2>1 DEF AddLoad, SubLoad, Lock, Goto
<1>8. ASSUME NEW t \in Threads, Decref(t) PROVE TypeOK'
  <2>1. self[t] \in Wrappers /\ refs[self[t]] > 0
    BY <1>8 DEF Decref, Calls
  <2> QED
    BY <1>8, <2>1 DEF Decref, Finish, Goto
<1>9. ASSUME NEW t \in Threads, Sub(t) \/ SubStore(t) PROVE TypeOK'
  <2>1. On(t) \in Blocks
    BY <1>9 DEF Sub, SubStore, Calls, On
  <2> QED
    BY <1>9, <2>1 DEF Sub, SubStore, Goto
<1>10. ASSUME NEW t \in Threads, Keep(t) \/ Reclaim(t) PROVE TypeOK'
  BY <1>10 DEF Keep, Reclaim, FreeWrapper, Finish
<1>11. CASE UNCHANGED vars
  BY <1>11 DEF vars
<1> QED
  BY <1>1, <1>2, <1>3, <1>4, <1>5, <1>6, <1>7, <1>8, <1>9, <1>10, <1>11
  DEF Next, UserStep, GlueStep, Terminated

\* Steps that change no count, no wrapper's block and no thread that is leaving.
LEMMA Quiet ==
  ASSUME ArcExact, Alone, UNCHANGED <<block, arc, mem>>,
         \A t \in Threads : Leaving(t)' <=> Leaving(t),
         \A t \in Threads : Leaving(t) => self'[t] = self[t] /\ tmp'[t] = tmp[t]
  PROVE  ArcExact' /\ Alone'
<1>1. \A t \in Threads : Leaving(t) => On(t)' = On(t) /\ (LastWrapper(t)' <=> LastWrapper(t))
  BY DEF On, LastWrapper
<1>2. \A w \in Wrappers : Counted(w)' <=> Counted(w)
  BY DEF Counted
<1>3. \A b : Pointing(b)' = Pointing(b)
  BY <1>2 DEF Pointing
<1>4. ArcExact'
  BY <1>1, <1>3 DEF ArcExact
<1>5. ASSUME NEW t \in Threads, Leaving(t)', LastWrapper(t)'
      PROVE  /\ Pointing(On(t))' = {}
             /\ \A u \in Threads : Leaving(u)' /\ LastWrapper(u)' /\ On(u)' = On(t)' => u = t
  <2>1. Leaving(t) /\ LastWrapper(t) /\ On(t)' = On(t)
    BY <1>1, <1>5
  <2>2. Pointing(On(t))' = Pointing(On(t))
    BY <1>2, <2>1 DEF Pointing
  <2> QED
    BY <1>1, <2>1, <2>2 DEF Alone
<1> QED
  BY <1>4, <1>5 DEF Alone

\* What the steps below have to keep.
Kept == Calls /\ Owned /\ GuardHeld

\* The wrapper a call is on is not in another thread's call.
LEMMA OwnWrapper ==
  TypeOK /\ Calls /\ Owned =>
    \A t \in Threads, w \in Wrappers :
      owner[w] = t => \A u \in Threads \ {t} : self[u] # w /\ other[u] # w
BY ArcAssumption DEF TypeOK, Calls, Owned

\* The wrappers of a thread that runs MoonBit code are in no call.
LEMMA FreeOfCalls ==
  ASSUME TypeOK, Kept, NEW t \in Threads, at[t] = "run", NEW w \in Wrappers, owner[w] = t
  PROVE  block[w] # None /\ \A u \in Threads : self[u] # w /\ other[u] # w
<1>1. \A u \in Threads : self[u] # w /\ other[u] # w
  BY OwnWrapper, ArcAssumption DEF Kept, Calls, TypeOK
<1> QED
  BY <1>1, ArcAssumption DEF Kept, Owned

\* A copy of a wrapper reference keeps the invariant.
LEMMA DupStep ==
  ASSUME TypeOK, Alone, ArcExact, Kept, NEW t \in Threads, NEW w \in Wrappers, Dup(t, w)
  PROVE  Kept' /\ ArcExact' /\ Alone'
<1> USE DEF Dup, Owns, heapVars, callVars
<1>1. Calls'
  BY DEF Kept, Calls, TypeOK
<1>2. Owned'
  BY DEF Kept, Owned, TypeOK
<1>3. GuardHeld'
  BY DEF Kept, GuardHeld, On
<1>4. ArcExact' /\ Alone'
  BY Quiet DEF Leaving
<1> QED
  BY <1>1, <1>2, <1>3, <1>4 DEF Kept

\* A wrapper that moves to another thread keeps the invariant: it was in no
\* call.
LEMMA MoveStep ==
  ASSUME TypeOK, Alone, ArcExact, Kept, NEW t \in Threads, NEW u \in Threads,
         NEW w \in Wrappers, Move(t, u, w)
  PROVE  Kept' /\ ArcExact' /\ Alone'
<1> USE DEF Move, Owns, heapVars, callVars
<1>1. Calls'
  <2>1. \A v \in Threads : self[v] # w /\ other[v] # w
    BY OwnWrapper, ArcAssumption DEF Kept, Calls, TypeOK
  <2> QED
    BY <2>1 DEF Kept, Calls, TypeOK
<1>2. Owned'
  BY ArcAssumption DEF Kept, Owned, TypeOK
<1>3. GuardHeld'
  BY DEF Kept, GuardHeld, On
<1>4. ArcExact' /\ Alone'
  BY Quiet DEF Leaving
<1> QED
  BY <1>1, <1>2, <1>3, <1>4 DEF Kept

\* drop, a call on the payload, or one on two payloads begins.
LEMMA CallStep ==
  ASSUME TypeOK, Alone, ArcExact, Kept, NEW t \in Threads, NEW w \in Wrappers,
         NEW v \in Wrappers, Drop(t, w) \/ Use(t, w) \/ UseBoth(t, w, v)
  PROVE  Kept' /\ ArcExact' /\ Alone'
<1> USE DEF Drop, Use, UseBoth, Owns, Call, Goto, heapVars, callVars
<1>0. /\ \A u \in Threads : self[u] # w /\ other[u] # w
      /\ block[w] # None
      /\ UseBoth(t, w, v) => block[v] # None
  <2>1. at[t] = "run" /\ owner[w] = t /\ (UseBoth(t, w, v) => owner[v] = t)
    OBVIOUS
  <2> HIDE DEF Drop, Use, UseBoth
  <2>2. \A x \in Wrappers : owner[x] = t =>
          block[x] # None /\ \A u \in Threads : self[u] # x /\ other[u] # x
    BY <2>1, FreeOfCalls
  <2> QED
    BY <2>1, <2>2
<1>1. Calls'
  BY <1>0, ArcAssumption DEF Kept, Calls, TypeOK
<1>2. Owned'
  <2>1. self[t] = None /\ other[t] = None /\ UNCHANGED <<owner, refs, block>>
    BY DEF Kept, Calls
  <2>2. \A x \in Wrappers, u \in Threads :
          /\ self[u] = x => self'[u] = x
          /\ other[u] = x => other'[u] = x
    BY <2>1, ArcAssumption DEF TypeOK
  <2> HIDE DEF Drop, Use, UseBoth
  <2> QED
    BY <2>1, <2>2 DEF Kept, Owned
<1>3. GuardHeld'
  <2>1. \A u \in Threads : at'[u] \in {"adding", "subbing"} \/ at[u] \in {"adding", "subbing"}
           => u # t /\ at'[u] = at[u] /\ On(u)' = On(u)
    BY DEF TypeOK, On
  <2> QED
    BY <2>1 DEF Kept, GuardHeld, TypeOK
<1>4. ArcExact' /\ Alone'
  BY Quiet DEF Leaving, TypeOK
<1> QED
  BY <1>1, <1>2, <1>3, <1>4 DEF Kept

\* share() keeps the invariant: the new wrapper points nowhere yet.
LEMMA ShareStep ==
  ASSUME TypeOK, Alone, ArcExact, Kept, NEW t \in Threads, NEW w \in Wrappers,
         NEW v \in Wrappers, Share(t, w, v)
  PROVE  Kept' /\ ArcExact' /\ Alone'
<1> USE DEF Share, Owns, Call, Goto, heapVars
<1>0. /\ \A u \in Threads : self[u] # w /\ other[u] # w /\ self[u] # v /\ other[u] # v
      /\ block[w] # None /\ block[v] = None /\ w # v
      /\ self[t] = None /\ other[t] = None
  <2>1. \A u \in Threads : self[u] # w /\ other[u] # w
    BY FreeOfCalls
  <2>2. \A u \in Threads : self[u] # v /\ other[u] # v
    BY ArcAssumption DEF Kept, Calls, TypeOK
  <2>3. block[w] # None
    BY FreeOfCalls
  <2>4. block[v] = None /\ w # v /\ self[t] = None /\ other[t] = None
    BY ArcAssumption DEF Kept, Calls, Owned
  <2> QED
    BY <2>1, <2>2, <2>3, <2>4
<1>1. Calls'
  BY <1>0, ArcAssumption DEF Kept, Calls, TypeOK
<1>2. Owned'
  <2>1. \A x \in Wrappers, u \in Threads :
          /\ self[u] = x => self'[u] = x
          /\ other[u] = x => other'[u] = x
    BY <1>0, ArcAssumption DEF TypeOK
  <2>2. \A x \in Wrappers \ {v} : owner'[x] = owner[x] /\ refs'[x] = refs[x] /\ block'[x] = block[x]
    BY DEF TypeOK
  <2>3. owner'[v] = t /\ refs'[v] = 1 /\ other'[t] = v
    BY DEF TypeOK
  <2> HIDE DEF Share
  <2> QED
    BY <2>1, <2>2, <2>3, ArcAssumption DEF Kept, Owned
<1>3. GuardHeld'
  <2>1. \A u \in Threads : at'[u] \in {"adding", "subbing"} \/ at[u] \in {"adding", "subbing"}
           => u # t /\ at'[u] = at[u] /\ On(u)' = On(u)
    BY DEF TypeOK, On
  <2> QED
    BY <2>1 DEF Kept, GuardHeld, TypeOK
<1>4. ArcExact' /\ Alone'
  BY Quiet DEF Leaving, TypeOK
<1> QED
  BY <1>1, <1>2, <1>3, <1>4 DEF Kept

\* A call on the payload that returns keeps the invariant.
LEMMA UseReturnsStep ==
  ASSUME TypeOK, Alone, ArcExact, Kept, NEW t \in Threads, UseReturns(t)
  PROVE  Kept' /\ ArcExact' /\ Alone'
<1> USE DEF UseReturns, Goto, heapVars, callVars
<1>1. Calls'
  BY DEF Kept, Calls, TypeOK
<1>2. Owned'
  BY DEF Kept, Owned
<1>3. GuardHeld'
  BY DEF Kept, GuardHeld, On, TypeOK
<1>4. ArcExact' /\ Alone'
  BY Quiet DEF Leaving, TypeOK
<1> QED
  BY <1>1, <1>2, <1>3, <1>4 DEF Kept

\* uv_mutex_lock of the guard, on the way to an addition or a subtraction.
LEMMA LockStep ==
  ASSUME TypeOK, Alone, ArcExact, Kept, NEW t \in Threads, AddLoad(t) \/ SubLoad(t)
  PROVE  Kept' /\ ArcExact' /\ Alone'
<1> USE DEF AddLoad, SubLoad, Lock, Goto, heapVars, callVars
<1>1. Calls'
  BY DEF Kept, Calls, TypeOK
<1>2. Owned'
  BY DEF Kept, Owned
<1>3. GuardHeld'
  <2>1. /\ On(t) \in Blocks /\ guard'[On(t)] = t /\ On(t) \in Guarded /\ guard[On(t)] = None
        /\ tmp'[t] = arc[On(t)] /\ at'[t] \in {"adding", "subbing"} /\ arc' = arc
        /\ at[t] \in {"add", "sub"}
    BY ArcAssumption DEF TypeOK
  <2>2. \A u \in Threads : On(u)' = On(u)
    BY DEF On
  <2>3. \A u \in Threads \ {t} : at'[u] = at[u] /\ tmp'[u] = tmp[u]
    BY DEF TypeOK
  <2>4. \A b \in Blocks \ {On(t)} : guard'[b] = guard[b] /\ (guard[b] # None => guard[b] # t)
    <3>1. \A b \in Blocks \ {On(t)} : guard'[b] = guard[b]
      BY DEF TypeOK
    <3> QED
      BY <2>1, <3>1 DEF Kept, GuardHeld
  <2> HIDE DEF AddLoad, SubLoad
  <2>5. \A u \in Threads \ {t} : at[u] \in {"adding", "subbing"} => On(u) # On(t)
    BY <2>1, ArcAssumption DEF Kept, GuardHeld
  <2>6. \A u \in Threads : at[u] \in {"adding", "subbing"} => On(u) \in Blocks
    BY ArcAssumption DEF Kept, GuardHeld
  <2>7. \A u \in Threads : at'[u] \in {"adding", "subbing"} =>
          guard'[On(u)'] = u /\ On(u)' \in Guarded /\ tmp'[u] = arc'[On(u)']
    BY <2>1, <2>2, <2>3, <2>4, <2>5, <2>6 DEF Kept, GuardHeld
  <2>8. ASSUME NEW b \in Blocks, guard'[b] # None
        PROVE  (at[guard[b]] \in {"adding", "subbing"} /\ On(guard[b]) = b)'
    <3>1. CASE b = On(t)
      BY <2>1, <2>2, <3>1
    <3>2. CASE b # On(t)
      <4>1. guard'[b] = guard[b] /\ guard[b] \in Threads \ {t}
        BY <2>4, <2>8, <3>2 DEF TypeOK
      <4>2. at[guard[b]] \in {"adding", "subbing"} /\ On(guard[b]) = b
        BY <2>8, <4>1 DEF Kept, GuardHeld
      <4>3. at'[guard[b]] = at[guard[b]] /\ block'[self'[guard[b]]] = On(guard[b])
        BY <2>2, <2>3, <4>1 DEF On
      <4> QED
        BY <4>1, <4>2, <4>3 DEF On
    <3> QED
      BY <3>1, <3>2
  <2> QED
    BY <2>7, <2>8 DEF GuardHeld
<1>4. ArcExact' /\ Alone'
  <2>1. \A u \in Threads : (Leaving(u)' <=> Leaving(u)) /\ (Leaving(u) => tmp'[u] = tmp[u])
    BY DEF Leaving, TypeOK
  <2> QED
    BY <2>1, Quiet
<1> QED
  BY <1>1, <1>2, <1>3, <1>4 DEF Kept

InGuard(u) == at[u] \in {"adding", "subbing"}

\* Steps that leave the guards and what they protect alone.
LEMMA GuardKept ==
  ASSUME TypeOK, GuardHeld, guard' = guard,
         \A u \in Threads : InGuard(u)' <=> InGuard(u),
         \A u \in Threads : InGuard(u) =>
           On(u)' = On(u) /\ tmp'[u] = tmp[u] /\ arc'[On(u)] = arc[On(u)]
  PROVE  GuardHeld'
<1>1. ASSUME NEW u \in Threads, InGuard(u)'
      PROVE  (guard[On(u)] = u /\ On(u) \in Guarded /\ tmp[u] = arc[On(u)])'
  BY <1>1 DEF GuardHeld, InGuard
<1>2. ASSUME NEW b \in Blocks, guard'[b] # None
      PROVE  (InGuard(guard[b]) /\ On(guard[b]) = b)'
  <2>1. guard[b] \in Threads /\ InGuard(guard[b]) /\ On(guard[b]) = b /\ guard'[b] = guard[b]
    BY <1>2 DEF GuardHeld, InGuard, TypeOK
  <2>2. On(guard[b])' = b
    BY <2>1 DEF On
  <2> QED
    BY <2>1, <2>2
<1> QED
  BY <1>1, <1>2 DEF GuardHeld, InGuard

\* A thread writes arc and releases the guard it holds.
LEMMA GuardReleased ==
  ASSUME TypeOK, GuardHeld, NEW t \in Threads, InGuard(t), ~InGuard(t)', NEW n,
         guard' = [guard EXCEPT ![On(t)] = None], arc' = [arc EXCEPT ![On(t)] = n],
         \A u \in Threads \ {t} : at'[u] = at[u] /\ tmp'[u] = tmp[u],
         \A u \in Threads \ {t} : InGuard(u) => On(u)' = On(u)
  PROVE  GuardHeld'
<1>0. /\ On(t) \in Blocks /\ guard[On(t)] = t
      /\ guard'[On(t)] = None
      /\ \A b \in Blocks \ {On(t)} : guard'[b] = guard[b] /\ arc'[b] = arc[b]
  BY ArcAssumption DEF GuardHeld, InGuard, TypeOK
<1>1. ASSUME NEW u \in Threads, InGuard(u)'
      PROVE  (guard[On(u)] = u /\ On(u) \in Guarded /\ tmp[u] = arc[On(u)])'
  <2>1. u # t /\ InGuard(u) /\ On(u)' = On(u) /\ tmp'[u] = tmp[u]
    BY <1>1 DEF InGuard
  <2>2. guard[On(u)] = u /\ On(u) \in Guarded /\ tmp[u] = arc[On(u)]
    BY <2>1 DEF GuardHeld, InGuard
  <2>3. On(u) \in Blocks \ {On(t)}
    BY <1>0, <2>1, <2>2, ArcAssumption
  <2> QED
    BY <1>0, <2>1, <2>2, <2>3
<1>2. ASSUME NEW b \in Blocks, guard'[b] # None
      PROVE  (InGuard(guard[b]) /\ On(guard[b]) = b)'
  <2>1. b # On(t) /\ guard'[b] = guard[b]
    BY <1>0, <1>2
  <2>2. guard[b] \in Threads /\ InGuard(guard[b]) /\ On(guard[b]) = b
    BY <1>2, <2>1 DEF GuardHeld, InGuard, TypeOK
  <2>3. guard[b] # t
    BY <2>1, <2>2
  <2>4. On(guard[b])' = b /\ InGuard(guard[b])'
    BY <2>1, <2>2, <2>3 DEF On, InGuard
  <2> QED
    BY <2>4
<1> QED
  BY <1>1, <1>2 DEF GuardHeld, InGuard

\* One more wrapper points to block b and is counted.
LEMMA CountUp ==
  ASSUME TypeOK, TypeOK', Calls, Calls', ArcExact, Alone,
         NEW v \in Wrappers, NEW b \in Blocks,
         block' = [block EXCEPT ![v] = b], block[v] = None,
         arc' = [arc EXCEPT ![b] = arc[b] + 1],
         mem' = [mem EXCEPT ![b] = "live"],
         ~\E t \in Threads : Leaving(t) /\ LastWrapper(t) /\ On(t) = b,
         \A t \in Threads : Leaving(t)' <=> Leaving(t),
         \A t \in Threads : Leaving(t) => self'[t] = self[t] /\ tmp'[t] = tmp[t]
  PROVE  ArcExact' /\ Alone'
<1>1. \A t \in Threads : Leaving(t) => self[t] \in Wrappers /\ self[t] # v
  BY DEF Leaving, Calls, TypeOK
<1>2. \A t \in Threads : Leaving(t) => On(t)' = On(t) /\ (LastWrapper(t)' <=> LastWrapper(t))
  BY <1>1 DEF On, LastWrapper, TypeOK
<1>3. \A w \in Wrappers \ {v} : Counted(w)' <=> Counted(w)
  BY DEF Counted, TypeOK
<1>4. Counted(v)' /\ ~Counted(v)
  BY <1>1, ArcAssumption DEF Counted, TypeOK
<1>5. Pointing(b)' = Pointing(b) \cup {v} /\ v \notin Pointing(b)
  BY <1>3, <1>4 DEF Pointing, TypeOK
<1>6. \A c \in Blocks \ {b} : Pointing(c)' = Pointing(c)
  BY <1>3, <1>4 DEF Pointing, TypeOK
<1>7. Cardinality(Pointing(b)') = Cardinality(Pointing(b)) + 1
  BY <1>5, FS_AddElement, FS_Subset, ArcAssumption DEF Pointing
<1>8. ASSUME NEW c \in Blocks
      PROVE (/\ arc[c] = Cardinality(Pointing(c))
             /\ mem[c] = "live" <=>
                  \/ Pointing(c) # {}
                  \/ \E t \in Threads : Leaving(t) /\ LastWrapper(t) /\ On(t) = c)'
  <2>1. CASE c = b
    BY <1>5, <1>7, <2>1 DEF ArcExact, TypeOK
  <2>2. CASE c # b
    <3>1. arc'[c] = arc[c] /\ mem'[c] = mem[c]
      BY <2>2 DEF TypeOK
    <3> QED
      BY <1>2, <1>6, <2>2, <3>1 DEF ArcExact
  <2> QED
    BY <2>1, <2>2
<1>9. ASSUME NEW t \in Threads, Leaving(t)', LastWrapper(t)'
      PROVE  /\ Pointing(On(t))' = {}
             /\ \A u \in Threads : Leaving(u)' /\ LastWrapper(u)' /\ On(u)' = On(t)' => u = t
  <2>1. Leaving(t) /\ LastWrapper(t) /\ On(t)' = On(t)
    BY <1>2, <1>9
  <2>2. On(t) \in Blocks /\ On(t) # b
    BY <1>1, <2>1 DEF On, Calls, Leaving, TypeOK
  <2>3. Pointing(On(t))' = Pointing(On(t))
    BY <1>3, <1>4, <2>1, <2>2 DEF Pointing, TypeOK
  <2> QED
    BY <1>2, <2>1, <2>3 DEF Alone
<1> QED
  BY <1>8, <1>9 DEF ArcExact, Alone

\* One wrapper fewer: t takes the wrapper of its call off the count and learns
\* how many there were.
LEMMA CountDown ==
  ASSUME TypeOK, TypeOK', Calls, ArcExact, Alone, NEW t \in Threads,
         NEW b \in Blocks, b = On(t), at[t] \in {"sub", "subbing"}, Leaving(t)',
         UNCHANGED <<block, mem, self>>,
         arc' = [arc EXCEPT ![b] = arc[b] - 1],
         tmp'[t] = arc[b],
         \A u \in Threads \ {t} : Leaving(u)' <=> Leaving(u),
         \A u \in Threads \ {t} : tmp'[u] = tmp[u]
  PROVE  ArcExact' /\ Alone'
<1>1. self[t] \in Pointing(b) /\ b \in Blocks /\ self[t] \in Wrappers /\ ~Leaving(t)
  BY InUse DEF Pointing, Leaving
<1>2. \A u \in Threads : On(u)' = On(u)
  BY DEF On
<1>3. \A u \in Threads \ {t} : self[u] # self[t]
  BY <1>1, OneCall, ArcAssumption
<1>4. \A w \in Wrappers : Counted(w)' <=> Counted(w) /\ w # self[t]
  BY <1>1, <1>3 DEF Counted
<1>5. \A c : Pointing(c)' = Pointing(c) \ {self[t]}
  BY <1>4 DEF Pointing
<1>6. \A c \in Blocks \ {b} : Pointing(c)' = Pointing(c)
  BY <1>4 DEF Pointing, On
<1>7. IsFiniteSet(Pointing(b)) /\ IsFiniteSet(Pointing(b)')
  BY FS_Subset, ArcAssumption DEF Pointing
<1>8. Cardinality(Pointing(b)') = Cardinality(Pointing(b)) - 1
  BY <1>1, <1>5, <1>7, FS_RemoveElement
<1>9. arc[b] = Cardinality(Pointing(b)) /\ Cardinality(Pointing(b)) \in Nat
      /\ Cardinality(Pointing(b)') \in Nat
  BY <1>1, <1>7, FS_CardinalityType DEF ArcExact
<1>10. Pointing(b)' = {} <=> LastWrapper(t)'
  <2>1. Pointing(b)' = {} <=> Cardinality(Pointing(b)') = 0
    BY <1>7, FS_EmptySet
  <2>2. LastWrapper(t)' <=> arc[b] <= 1
    BY DEF LastWrapper
  <2> QED
    BY <1>8, <1>9, <2>1, <2>2
<1>11. \A u \in Threads \ {t} : LastWrapper(u)' <=> LastWrapper(u)
  BY DEF LastWrapper
<1>12. \A u \in Threads : Leaving(u) /\ LastWrapper(u) => On(u) # b
  BY <1>1 DEF Alone
<1>13. mem[b] = "live"
  BY <1>1 DEF ArcExact
<1>14. ASSUME NEW c \in Blocks
       PROVE (/\ arc[c] = Cardinality(Pointing(c))
              /\ mem[c] = "live" <=>
                   \/ Pointing(c) # {}
                   \/ \E u \in Threads : Leaving(u) /\ LastWrapper(u) /\ On(u) = c)'
  <2>1. CASE c = b
    <3>1. arc'[c] = Cardinality(Pointing(c)')
      <4>1. arc'[b] = arc[b] - 1
        BY DEF TypeOK
      <4> QED
        BY <1>8, <1>9, <2>1, <4>1
    <3>2. Leaving(t)' /\ On(t)' = b /\ mem'[c] = "live"
      BY <1>2, <1>13, <2>1
    <3> QED
      BY <1>10, <2>1, <3>1, <3>2
  <2>2. CASE c # b
    <3>1. arc'[c] = arc[c] /\ mem'[c] = mem[c] /\ Pointing(c)' = Pointing(c)
      BY <1>6, <2>2 DEF TypeOK
    <3>2. \A u \in Threads : Leaving(u)' /\ LastWrapper(u)' /\ On(u)' = c
             <=> Leaving(u) /\ LastWrapper(u) /\ On(u) = c
      BY <1>1, <1>2, <1>11, <2>2
    <3> QED
      BY <3>1, <3>2 DEF ArcExact
  <2> QED
    BY <2>1, <2>2
<1>15. ASSUME NEW u \in Threads, Leaving(u)', LastWrapper(u)'
       PROVE  /\ Pointing(On(u))' = {}
              /\ \A v \in Threads : Leaving(v)' /\ LastWrapper(v)' /\ On(v)' = On(u)' => v = u
  <2>1. \A v \in Threads \ {t} : Leaving(v)' /\ LastWrapper(v)'
           => Leaving(v) /\ LastWrapper(v) /\ On(v) # b
    BY <1>11, <1>12
  <2>2. CASE u = t
    <3>1. Pointing(On(u))' = Pointing(b)'
      BY <1>2, <2>2 DEF Pointing
    <3> QED
      BY <1>2, <1>10, <1>15, <2>1, <2>2, <3>1
  <2>3. CASE u # t
    <3>1. Leaving(u) /\ LastWrapper(u) /\ On(u) # b /\ On(u)' = On(u)
      BY <1>2, <1>15, <2>1, <2>3
    <3>2. Pointing(On(u)) = {} /\ \A v \in Threads : Leaving(v) /\ LastWrapper(v) /\ On(v) = On(u) => v = u
      BY <3>1 DEF Alone
    <3>3. Pointing(On(u))' = {}
      BY <1>4, <3>1, <3>2 DEF Pointing
    <3> QED
      BY <1>2, <2>1, <3>1, <3>2, <3>3
  <2> QED
    BY <2>2, <2>3
<1> QED
  BY <1>14, <1>15 DEF ArcExact, Alone

\* A new block with its first wrapper keeps the invariant.
LEMMA NewStep ==
  ASSUME TypeOK, TypeOK', Alone, ArcExact, Kept, NEW t \in Threads, NEW w \in Wrappers,
         NEW b \in Blocks, New(t, w, b)
  PROVE  Kept' /\ ArcExact' /\ Alone'
<1> USE DEF New, callVars
<1>0. refs[w] = 0 /\ block[w] = None /\ \A u \in Threads : self[u] # w /\ other[u] # w
  BY ArcAssumption DEF Kept, Calls, Owned, TypeOK
<1>1. Calls'
  BY <1>0 DEF Kept, Calls, TypeOK
<1>2. Owned'
  BY <1>0, ArcAssumption DEF Kept, Owned, TypeOK
<1>3. \A u \in Threads : at[u] # "run" => On(u)' = On(u)
  BY <1>0 DEF On, TypeOK, Kept, Calls
<1>4. Pointing(b) = {} /\ ~\E u \in Threads : Leaving(u) /\ LastWrapper(u) /\ On(u) = b
  BY DEF ArcExact
<1>5. \A u \in Threads : InGuard(u) => On(u) # b
  BY <1>4, InUse DEF Kept, InGuard
<1>6. GuardHeld'
  <2>1. \A u \in Threads : InGuard(u) =>
          On(u)' = On(u) /\ tmp'[u] = tmp[u] /\ arc'[On(u)] = arc[On(u)]
    BY <1>3, <1>5 DEF InGuard, TypeOK
  <2> QED
    BY <2>1, GuardKept DEF InGuard, Kept
<1>7. arc[b] = 0
  BY <1>4, FS_EmptySet DEF ArcExact
<1>8. ArcExact' /\ Alone'
  <2>1. arc' = [arc EXCEPT ![b] = arc[b] + 1]
    BY <1>7
  <2>2. \A u \in Threads : Leaving(u)' <=> Leaving(u)
    BY DEF Leaving
  <2>3. block' = [block EXCEPT ![w] = b] /\ mem' = [mem EXCEPT ![b] = "live"]
        /\ self' = self /\ tmp' = tmp
    OBVIOUS
  <2> HIDE DEF New
  <2> QED
    BY <1>0, <1>1, <1>4, <2>1, <2>2, <2>3, CountUp DEF Kept
<1> QED
  BY <1>1, <1>2, <1>6, <1>8 DEF Kept

\* The copy has counted itself and points to the block.
LEMMA AddStep ==
  ASSUME TypeOK, TypeOK', Alone, ArcExact, Kept, NEW t \in Threads, Add(t) \/ AddStore(t)
  PROVE  Kept' /\ ArcExact' /\ Alone'
<1> DEFINE v == other[t]
<1>0. PICK b \in Blocks : b = On(t)
  BY InUse DEF Kept, Add, AddStore
<1>1. /\ v \in Wrappers /\ v # self[t] /\ block[v] = None /\ owner[v] = t /\ refs[v] > 0
      /\ self[t] \in Wrappers /\ at[t] \in {"add", "adding"} /\ ~Leaving(t)
  BY DEF Kept, Calls, TypeOK, Add, AddStore, Leaving
<1>2. \A u \in Threads \ {t} : self[u] # v /\ other[u] # v
  BY <1>1, OwnWrapper DEF Kept
<1>3. Pointing(b) # {} /\ mem[b] = "live"
  BY <1>0, <1>1, InUse DEF Kept, ArcExact
<1>4. ~\E u \in Threads : Leaving(u) /\ LastWrapper(u) /\ On(u) = b
  BY <1>3 DEF Alone
<1>5. /\ block' = [block EXCEPT ![v] = b] /\ at' = [at EXCEPT ![t] = "drop"]
      /\ other' = [other EXCEPT ![t] = None]
      /\ owner' = owner /\ refs' = refs /\ mem' = mem /\ self' = self /\ tmp' = tmp
  BY <1>0 DEF Add, AddStore, Attach, Goto
<1>6. arc' = [arc EXCEPT ![b] = arc[b] + 1]
  BY <1>0 DEF Add, AddStore, Kept, GuardHeld
<1>7. \A u \in Threads : self[u] # None => On(u)' = On(u)
  <2>1. \A u \in Threads : self[u] \in Wrappers \cup {None} /\ self[u] # v
    BY <1>1, <1>2 DEF TypeOK
  <2> QED
    BY <1>5, <2>1 DEF On, TypeOK
<1>8. \A x \in Wrappers \ {v} : block'[x] = block[x]
  BY <1>5 DEF TypeOK
<1>9. block'[v] = b /\ b # None
  BY <1>1, <1>5, ArcAssumption DEF TypeOK
<1>10. at'[t] = "drop" /\ other'[t] = None
       /\ \A u \in Threads \ {t} : at'[u] = at[u] /\ other'[u] = other[u]
  BY <1>5 DEF TypeOK
<1> HIDE DEF v
<1>11. Calls'
  <2>1. \A u \in Threads \ {t} :
          /\ at[u] # "run" => block'[self[u]] # None
          /\ other[u] # None => (block'[other[u]] = None <=> block[other[u]] = None)
    BY <1>2, <1>8, ArcAssumption DEF Kept, Calls, TypeOK
  <2>2. at[t] # "run" /\ block'[self[t]] # None
    BY <1>1, <1>8 DEF Kept, Calls
  <2>3. \A u \in Threads \ {t} : self'[u] = self[u] /\ owner' = owner /\ refs' = refs
    BY <1>5
  <2>4. self'[t] = self[t] /\ owner'[self[t]] = t /\ refs'[self[t]] > 0
    BY <1>1, <1>5 DEF Kept, Calls
  <2>5. self[t] # None
    BY <2>2 DEF Kept, Calls
  <2> QED
    BY <1>10, <2>1, <2>2, <2>3, <2>4, <2>5 DEF Kept, Calls
<1>12. Owned'
  <2>1. \A x \in Wrappers \ {v}, u \in Threads : other[u] = x => other'[u] = x
    BY <1>10 DEF v
  <2>2. \A x \in Wrappers \ {v} : owner'[x] = owner[x] /\ refs'[x] = refs[x]
          /\ block'[x] = block[x]
    BY <1>5, <1>8
  <2>3. owner'[v] = t /\ refs'[v] > 0 /\ block'[v] # None /\ t # None
    BY <1>1, <1>5, <1>9, ArcAssumption
  <2> QED
    BY <1>5, <2>1, <2>2, <2>3 DEF Kept, Owned
<1>13. GuardHeld'
  <2>1. CASE Add(t)
    <3>1. guard' = guard /\ b \notin Guarded /\ at[t] = "add"
      BY <1>0, <2>1 DEF Add
    <3>2. \A u \in Threads : InGuard(u) => On(u) # b /\ On(u) \in Blocks /\ self[u] # None
      BY <3>1, ArcAssumption DEF InGuard, Kept, GuardHeld, Calls
    <3>3. \A u \in Threads : InGuard(u)' <=> InGuard(u)
      BY <1>10, <3>1 DEF InGuard
    <3>4. \A u \in Threads : InGuard(u) => arc'[On(u)] = arc[On(u)]
      BY <1>6, <3>2 DEF TypeOK
    <3> QED
      BY <1>5, <1>7, <3>1, <3>2, <3>3, <3>4, GuardKept DEF Kept
  <2>2. CASE AddStore(t)
    <3>1. guard' = [guard EXCEPT ![On(t)] = None] /\ InGuard(t)
          /\ arc' = [arc EXCEPT ![On(t)] = tmp[t] + 1]
      BY <2>2 DEF AddStore, InGuard
    <3>2. ~InGuard(t)'
      BY <1>10 DEF InGuard
    <3>3. \A u \in Threads \ {t} : at'[u] = at[u] /\ tmp'[u] = tmp[u]
      BY <1>5, <1>10
    <3>4. \A u \in Threads \ {t} : InGuard(u) => On(u)' = On(u)
      BY <1>7 DEF InGuard, Kept, Calls
    <3> QED
      BY <3>1, <3>2, <3>3, <3>4, GuardReleased DEF Kept
  <2> QED
    BY <2>1, <2>2
<1>14. ArcExact' /\ Alone'
  <2>1. mem' = [mem EXCEPT ![b] = "live"]
    BY <1>3, <1>5 DEF TypeOK
  <2>2. \A u \in Threads : Leaving(u)' <=> Leaving(u)
    BY <1>1, <1>10 DEF Leaving
  <2> QED
    BY <1>1, <1>4, <1>5, <1>6, <1>11, <2>1, <2>2, CountUp DEF Kept
<1> QED
  BY <1>11, <1>12, <1>13, <1>14 DEF Kept

\* A reference to a wrapper goes; the last one starts the finalizer.
LEMMA DecrefStep ==
  ASSUME TypeOK, Alone, ArcExact, Kept, NEW t \in Threads, Decref(t)
  PROVE  Kept' /\ ArcExact' /\ Alone'
<1> DEFINE w == self[t]
<1>0. /\ w \in Wrappers /\ at[t] = "drop" /\ owner[w] = t /\ block[w] # None /\ refs[w] > 0
      /\ w # None /\ refs[w] \in Nat
  BY DEF Decref, Kept, Calls, TypeOK
<1>1. \A u \in Threads \ {t} : self[u] # w /\ other[u] # w
  BY <1>0, OwnWrapper DEF Kept
<1>2. UNCHANGED <<owner, block, arc, mem, guard, tmp>>
  BY DEF Decref, heapVars
<1>3. refs'[w] = refs[w] - 1 /\ \A x \in Wrappers \ {w} : refs'[x] = refs[x]
  BY <1>0 DEF Decref, TypeOK
<1>4. \A u \in Threads \ {t} : at'[u] = at[u] /\ self'[u] = self[u] /\ other'[u] = other[u]
  BY DEF Decref, Finish, Goto, callVars, TypeOK
<1>5. \/ /\ refs[w] > 1 /\ self'[t] = other[t] /\ other'[t] = None
         /\ at'[t] = IF other[t] = None THEN "run" ELSE "drop"
      \/ refs[w] = 1 /\ self'[t] = w /\ other'[t] = other[t] /\ at'[t] = "sub"
  BY <1>0 DEF Decref, Finish, Goto, callVars, TypeOK
<1>6. other[t] # None =>
        /\ other[t] \in Wrappers /\ other[t] # w /\ owner[other[t]] = t
        /\ refs[other[t]] > 0 /\ block[other[t]] # None
  BY <1>0 DEF Kept, Calls, TypeOK
<1> HIDE DEF w
<1>7. Calls'
  <2>1. ASSUME NEW u \in Threads \ {t}
        PROVE  /\ self[u] \in Wrappers \cup {None} /\ other[u] \in Wrappers \cup {None}
               /\ self[u] # None => refs'[self[u]] = refs[self[u]]
               /\ other[u] # None => refs'[other[u]] = refs[other[u]]
    BY <1>1, <1>3 DEF TypeOK
  <2>2. ASSUME NEW u \in Threads, u # t
        PROVE  /\ at'[u] = "run" <=> self'[u] = None
               /\ at'[u] = "run" => other'[u] = None
               /\ at'[u] # "run" =>
                    /\ owner'[self'[u]] = u
                    /\ block'[self'[u]] # None
                    /\ refs'[self'[u]] > 0 <=> at'[u] \notin {"sub", "subbing", "test"}
               /\ at'[u] \in {"add", "adding"} => other'[u] # None
               /\ other'[u] # None =>
                    /\ other'[u] # self'[u]
                    /\ owner'[other'[u]] = u
                    /\ refs'[other'[u]] > 0
                    /\ block'[other'[u]] = None <=> at'[u] \in {"add", "adding"}
    BY <1>2, <1>4, <2>1, <2>2 DEF Kept, Calls
  <2>3. /\ at'[t] = "run" <=> self'[t] = None
        /\ at'[t] = "run" => other'[t] = None
        /\ at'[t] # "run" =>
             /\ owner'[self'[t]] = t
             /\ block'[self'[t]] # None
             /\ refs'[self'[t]] > 0 <=> at'[t] \notin {"sub", "subbing", "test"}
        /\ at'[t] \in {"add", "adding"} => other'[t] # None
        /\ other'[t] # None =>
             /\ other'[t] # self'[t]
             /\ owner'[other'[t]] = t
             /\ refs'[other'[t]] > 0
             /\ block'[other'[t]] = None <=> at'[t] \in {"add", "adding"}
    <3>1. CASE refs[w] > 1 /\ other[t] = None
      BY <1>0, <1>5, <3>1
    <3>2. CASE refs[w] > 1 /\ other[t] # None
      BY <1>0, <1>2, <1>3, <1>5, <1>6, <3>2
    <3>3. CASE refs[w] = 1
      BY <1>0, <1>2, <1>3, <1>5, <1>6, <3>3
    <3> QED
      BY <1>0, <3>1, <3>2, <3>3
  <2> QED
    BY <2>2, <2>3 DEF Calls
<1>8. Owned'
  <2>1. \A x \in Wrappers : owner'[x] = owner[x] /\ block'[x] = block[x]
    BY <1>2
  <2>2. \A x \in Wrappers \ {w} : \A u \in Threads :
          self[u] = x => u # t /\ self'[u] = x
    BY <1>4 DEF w
  <2>3. \A x \in Wrappers : block[x] = None => \A u \in Threads : other[u] = x => u # t
    BY <1>6, ArcAssumption
  <2>4. refs'[w] > 0 \/ self'[t] = w
    BY <1>0, <1>3, <1>5
  <2>5. \A x \in Wrappers \ {w} : owner[x] = None => refs'[x] = 0 /\ block[x] = None
    BY <1>3 DEF Kept, Owned
  <2>6. \A x \in Wrappers \ {w} : owner[x] # None => refs'[x] > 0 \/ \E u \in Threads : self'[u] = x
    BY <1>3, <2>2 DEF Kept, Owned
  <2>7. \A x \in Wrappers : owner[x] # None /\ block[x] = None => \E u \in Threads : other'[u] = x
    BY <1>4, <2>3 DEF Kept, Owned
  <2>8. owner[w] # None
    BY <1>0, ArcAssumption
  <2> QED
    BY <1>0, <2>1, <2>4, <2>5, <2>6, <2>7, <2>8 DEF Owned
<1>9. GuardHeld'
  <2>1. \A u \in Threads : InGuard(u) => u # t
    BY <1>0 DEF InGuard
  <2>2. \A u \in Threads : InGuard(u)' <=> InGuard(u)
    BY <1>0, <1>4, <1>5 DEF InGuard
  <2>3. \A u \in Threads : InGuard(u) => On(u)' = On(u)
    BY <1>2, <1>4, <2>1 DEF On
  <2> QED
    BY <1>2, <2>2, <2>3, GuardKept DEF Kept
<1>10. ArcExact' /\ Alone'
  <2>1. \A u \in Threads : (Leaving(u)' <=> Leaving(u)) /\ (Leaving(u) => u # t)
    BY <1>0, <1>4, <1>5 DEF Leaving
  <2> QED
    BY <1>2, <1>4, <2>1, Quiet
<1> QED
  BY <1>7, <1>8, <1>9, <1>10 DEF Kept

\* A finalizer has taken its wrapper off the count.
LEMMA SubStep ==
  ASSUME TypeOK, TypeOK', Alone, ArcExact, Kept, NEW t \in Threads, Sub(t) \/ SubStore(t)
  PROVE  Kept' /\ ArcExact' /\ Alone'
<1>0. PICK b \in Blocks : b = On(t)
  BY InUse DEF Kept, Sub, SubStore
<1>1. UNCHANGED <<owner, refs, block, mem, self, other>> /\ at[t] \in {"sub", "subbing"}
  BY DEF Sub, SubStore, callVars
<1>2. at'[t] = "test" /\ \A u \in Threads \ {t} : at'[u] = at[u] /\ tmp'[u] = tmp[u]
  BY DEF Sub, SubStore, Goto, TypeOK
<1>3. arc' = [arc EXCEPT ![b] = arc[b] - 1] /\ tmp'[t] = arc[b]
  BY <1>0 DEF Sub, SubStore, Kept, GuardHeld, TypeOK
<1>4. Calls'
  BY <1>1, <1>2 DEF Kept, Calls
<1>5. Owned'
  BY <1>1 DEF Kept, Owned
<1>6. \A u \in Threads : On(u)' = On(u)
  BY <1>1 DEF On
<1>7. ~InGuard(t)' /\ \A u \in Threads \ {t} : InGuard(u)' <=> InGuard(u)
  BY <1>2 DEF InGuard
<1>8. GuardHeld'
  <2>1. CASE Sub(t)
    <3>1. guard' = guard /\ b \notin Guarded /\ ~InGuard(t)
      BY <1>0, <2>1 DEF Sub, InGuard
    <3>2. \A u \in Threads : InGuard(u) => On(u) # b /\ On(u) \in Blocks
      BY <3>1, ArcAssumption DEF InGuard, Kept, GuardHeld
    <3>3. \A u \in Threads : InGuard(u) => arc'[On(u)] = arc[On(u)]
      BY <1>3, <3>2 DEF TypeOK
    <3> QED
      BY <1>2, <1>6, <1>7, <3>1, <3>3, GuardKept DEF Kept
  <2>2. CASE SubStore(t)
    <3>1. guard' = [guard EXCEPT ![On(t)] = None] /\ InGuard(t)
          /\ arc' = [arc EXCEPT ![On(t)] = tmp[t] - 1]
      BY <2>2 DEF SubStore, InGuard
    <3> QED
      BY <1>2, <1>6, <1>7, <3>1, GuardReleased DEF Kept
  <2> QED
    BY <2>1, <2>2
<1>9. ArcExact' /\ Alone'
  <2>1. Leaving(t)' /\ \A u \in Threads \ {t} : Leaving(u)' <=> Leaving(u)
    BY <1>2 DEF Leaving
  <2> QED
    BY <1>0, <1>1, <1>2, <1>3, <2>1, CountDown DEF Kept
<1> QED
  BY <1>4, <1>5, <1>8, <1>9 DEF Kept

\* The finalizer returns, having freed the block if its wrapper was the last.
LEMMA FreeStep ==
  ASSUME TypeOK, Alone, ArcExact, Kept, NEW t \in Threads, Keep(t) \/ Reclaim(t)
  PROVE  Kept' /\ ArcExact' /\ Alone'
<1>a. PICK w \in Wrappers : w = self[t]
  BY DEF Keep, Reclaim, Kept, Calls, TypeOK
<1>0. /\ w \in Wrappers /\ at[t] = "test" /\ owner[w] = t /\ block[w] # None /\ refs[w] = 0
      /\ w # None /\ On(t) = block[w] /\ Leaving(t)
  BY <1>a DEF Keep, Reclaim, Kept, Calls, TypeOK, On, Leaving
<1>1. \A u \in Threads \ {t} : self[u] # w /\ other[u] # w
  BY <1>0, OwnWrapper DEF Kept
<1>2. UNCHANGED <<refs, arc, guard, tmp>>
  BY DEF Keep, Reclaim, FreeWrapper
<1>3. /\ owner'[w] = None /\ block'[w] = None
      /\ \A x \in Wrappers \ {w} : owner'[x] = owner[x] /\ block'[x] = block[x]
  BY <1>0, <1>a DEF Keep, Reclaim, FreeWrapper, TypeOK
<1>4. \A u \in Threads \ {t} : at'[u] = at[u] /\ self'[u] = self[u] /\ other'[u] = other[u]
  BY DEF Keep, Reclaim, FreeWrapper, Finish, TypeOK
<1>5. /\ self'[t] = other[t] /\ other'[t] = None
      /\ at'[t] = IF other[t] = None THEN "run" ELSE "drop"
  BY DEF Keep, Reclaim, FreeWrapper, Finish, TypeOK
<1>6. other[t] # None =>
        /\ other[t] \in Wrappers /\ other[t] # w /\ owner[other[t]] = t
        /\ refs[other[t]] > 0 /\ block[other[t]] # None
  BY <1>0, <1>a DEF Kept, Calls, TypeOK
<1>7. /\ Keep(t) => ~LastWrapper(t) /\ mem' = mem
      /\ Reclaim(t) => LastWrapper(t) /\ mem' = [mem EXCEPT ![On(t)] = "freed"]
  BY DEF Keep, Reclaim
<1>8. Calls'
  <2>1. ASSUME NEW u \in Threads \ {t}
        PROVE  /\ self[u] \in Wrappers \cup {None} /\ other[u] \in Wrappers \cup {None}
               /\ self[u] # None => block'[self[u]] = block[self[u]] /\ owner'[self[u]] = owner[self[u]]
               /\ other[u] # None => block'[other[u]] = block[other[u]] /\ owner'[other[u]] = owner[other[u]]
    BY <1>1, <1>3 DEF TypeOK
  <2>2. ASSUME NEW u \in Threads, u # t
        PROVE  /\ at'[u] = "run" <=> self'[u] = None
               /\ at'[u] = "run" => other'[u] = None
               /\ at'[u] # "run" =>
                    /\ owner'[self'[u]] = u
                    /\ block'[self'[u]] # None
                    /\ refs'[self'[u]] > 0 <=> at'[u] \notin {"sub", "subbing", "test"}
               /\ at'[u] \in {"add", "adding"} => other'[u] # None
               /\ other'[u] # None =>
                    /\ other'[u] # self'[u]
                    /\ owner'[other'[u]] = u
                    /\ refs'[other'[u]] > 0
                    /\ block'[other'[u]] = None <=> at'[u] \in {"add", "adding"}
    BY <1>2, <1>4, <2>1, <2>2 DEF Kept, Calls
  <2>3. /\ at'[t] = "run" <=> self'[t] = None
        /\ at'[t] = "run" => other'[t] = None
        /\ at'[t] # "run" =>
             /\ owner'[self'[t]] = t
             /\ block'[self'[t]] # None
             /\ refs'[self'[t]] > 0 <=> at'[t] \notin {"sub", "subbing", "test"}
        /\ at'[t] \notin {"add", "adding"}
        /\ other'[t] = None
    <3>1. CASE other[t] = None
      BY <1>5, <3>1
    <3>2. CASE other[t] # None
      BY <1>2, <1>3, <1>5, <1>6, <3>2
    <3> QED
      BY <3>1, <3>2
  <2> QED
    BY <2>2, <2>3 DEF Calls
<1>9. Owned'
  <2>2. \A x \in Wrappers \ {w} : \A u \in Threads :
          self[u] = x => u # t /\ self'[u] = x
    BY <1>4, <1>a
  <2>3. \A x \in Wrappers : block[x] = None => \A u \in Threads : other[u] = x => u # t
    BY <1>6, ArcAssumption
  <2>5. \A x \in Wrappers \ {w} : owner[x] = None => refs'[x] = 0 /\ block[x] = None
    BY <1>2 DEF Kept, Owned
  <2>6. \A x \in Wrappers \ {w} : owner[x] # None => refs'[x] > 0 \/ \E u \in Threads : self'[u] = x
    BY <1>2, <2>2 DEF Kept, Owned
  <2>7. \A x \in Wrappers : owner[x] # None /\ block[x] = None => \E u \in Threads : other'[u] = x
    BY <1>4, <2>3 DEF Kept, Owned
  <2>8. owner'[w] = None /\ refs'[w] = 0 /\ block'[w] = None
    BY <1>0, <1>2, <1>3
  <2> QED
    BY <1>3, <2>5, <2>6, <2>7, <2>8 DEF Owned
<1>10. GuardHeld'
  <2>1. \A u \in Threads : InGuard(u) => u # t /\ self[u] \in Wrappers \ {w}
    BY <1>0, <1>1 DEF InGuard, Kept, Calls, TypeOK
  <2>2. \A u \in Threads : InGuard(u)' <=> InGuard(u)
    BY <1>0, <1>4, <1>5 DEF InGuard
  <2>3. \A u \in Threads : InGuard(u) => On(u)' = On(u)
    BY <1>3, <1>4, <2>1 DEF On
  <2> QED
    BY <1>2, <2>2, <2>3, GuardKept DEF Kept
<1>11. \A u \in Threads : Leaving(u)' <=> Leaving(u) /\ u # t
  BY <1>0, <1>4, <1>5 DEF Leaving
<1>12. \A u \in Threads \ {t} : Leaving(u) => self[u] \in Wrappers \ {w}
  BY <1>1 DEF Leaving, Kept, Calls, TypeOK
<1>13. \A u \in Threads \ {t} : Leaving(u) => On(u)' = On(u) /\ (LastWrapper(u)' <=> LastWrapper(u))
  BY <1>2, <1>3, <1>4, <1>12 DEF On, LastWrapper
<1>14. \A x \in Wrappers : Counted(x)' <=> Counted(x)
  <2>1. ~Counted(w)' /\ ~Counted(w)
    BY <1>0, <1>3, <1>a DEF Counted
  <2>2. ASSUME NEW x \in Wrappers \ {w} PROVE Counted(x)' <=> Counted(x)
    <3>1. \A u \in Threads : (self[u] = x /\ Leaving(u)) <=> (self'[u] = x /\ Leaving(u)')
      BY <1>4, <1>11, <1>a
    <3> QED
      BY <1>3, <3>1 DEF Counted
  <2> QED
    BY <2>1, <2>2
<1>15. \A b \in Blocks : Pointing(b)' = Pointing(b)
  <2>1. ~Counted(w)
    BY <1>0, <1>a DEF Counted
  <2> QED
    BY <1>3, <1>14, <2>1 DEF Pointing
<1>16. ArcExact'
  <2>1. ASSUME NEW b \in Blocks
        PROVE (/\ arc[b] = Cardinality(Pointing(b))
               /\ mem[b] = "live" <=>
                    \/ Pointing(b) # {}
                    \/ \E u \in Threads : Leaving(u) /\ LastWrapper(u) /\ On(u) = b)'
    <3>1. arc'[b] = Cardinality(Pointing(b)')
      BY <1>2, <1>15 DEF ArcExact
    <3>2. CASE LastWrapper(t) /\ On(t) = b
      <4>1. mem'[b] = "freed"
        BY <1>7, <3>2 DEF TypeOK
      <4>2. Pointing(b)' = {} /\ ~\E u \in Threads : Leaving(u)' /\ LastWrapper(u)' /\ On(u)' = b
        BY <1>0, <1>11, <1>13, <1>15, <3>2 DEF Alone
      <4> QED
        BY <3>1, <4>1, <4>2
    <3>3. CASE ~(LastWrapper(t) /\ On(t) = b)
      <4>1. mem'[b] = mem[b]
        BY <1>7, <3>3 DEF TypeOK
      <4>2. (\E u \in Threads : Leaving(u)' /\ LastWrapper(u)' /\ On(u)' = b)
              <=> \E u \in Threads : Leaving(u) /\ LastWrapper(u) /\ On(u) = b
        BY <1>11, <1>13, <3>3
      <4> QED
        BY <1>15, <3>1, <4>1, <4>2 DEF ArcExact
    <3> QED
      BY <3>2, <3>3
  <2> QED
    BY <2>1 DEF ArcExact
<1>17. Alone'
  <2>1. ASSUME NEW u \in Threads, Leaving(u)', LastWrapper(u)'
        PROVE  /\ Pointing(On(u))' = {}
               /\ \A v \in Threads : Leaving(v)' /\ LastWrapper(v)' /\ On(v)' = On(u)' => v = u
    <3>1. u # t /\ Leaving(u) /\ LastWrapper(u) /\ On(u)' = On(u)
      BY <1>11, <1>13, <2>1
    <3>2. PICK b \in Blocks : b = On(u)
      <4>1. at[u] # "run" /\ self[u] \in Wrappers
        BY <1>12, <3>1 DEF Leaving
      <4>2. block[self[u]] # None
        BY <4>1 DEF Kept, Calls
      <4> QED
        BY <4>1, <4>2 DEF On, TypeOK
    <3>3. Pointing(On(u))' = {}
      <4>1. Pointing(b)' = {}
        BY <1>15, <3>1, <3>2 DEF Alone
      <4>2. Pointing(On(u))' = Pointing(b)'
        BY <3>1, <3>2 DEF Pointing
      <4> QED
        BY <4>1, <4>2
    <3> QED
      BY <1>11, <1>13, <3>1, <3>3 DEF Alone
  <2> QED
    BY <2>1 DEF Alone
<1> QED
  BY <1>8, <1>9, <1>10, <1>16, <1>17 DEF Kept

\* The invariant is inductive.
LEMMA ArcNext == AInv /\ [Next]_vars => AInv'
<1> SUFFICES ASSUME AInv, [Next]_vars PROVE AInv'
  OBVIOUS
<1>1. TypeOK /\ Kept /\ ArcExact /\ Alone /\ TypeOK'
  BY SoleAlone, ArcTypeNext DEF AInv, Kept
<1>2. ASSUME NEW t \in Threads, UserStep(t) PROVE Kept' /\ ArcExact' /\ Alone'
  <2>1. ASSUME NEW w \in Wrappers, NEW v \in Wrappers,
               Drop(t, w) \/ Use(t, w) \/ UseBoth(t, w, v)
        PROVE  Kept' /\ ArcExact' /\ Alone'
    BY <1>1, <2>1, CallStep
  <2>2. ASSUME NEW w \in Wrappers, Dup(t, w) PROVE Kept' /\ ArcExact' /\ Alone'
    BY <1>1, <2>2, DupStep
  <2>3. ASSUME NEW w \in Wrappers, NEW b \in Blocks, New(t, w, b)
        PROVE  Kept' /\ ArcExact' /\ Alone'
    BY <1>1, <2>3, NewStep
  <2>4. ASSUME NEW w \in Wrappers, NEW u \in Threads, Move(t, u, w)
        PROVE  Kept' /\ ArcExact' /\ Alone'
    BY <1>1, <2>4, MoveStep
  <2>5. ASSUME NEW w \in Wrappers, NEW v \in Wrappers, Share(t, w, v)
        PROVE  Kept' /\ ArcExact' /\ Alone'
    BY <1>1, <2>5, ShareStep
  <2>6. ASSUME UseReturns(t) PROVE Kept' /\ ArcExact' /\ Alone'
    BY <1>1, <2>6, UseReturnsStep
  <2> QED
    BY <1>2, <2>1, <2>2, <2>3, <2>4, <2>5, <2>6 DEF UserStep
<1>3. ASSUME NEW t \in Threads, GlueStep(t) PROVE Kept' /\ ArcExact' /\ Alone'
  <2>1. ASSUME Add(t) \/ AddStore(t) PROVE Kept' /\ ArcExact' /\ Alone'
    BY <1>1, <2>1, AddStep
  <2>2. ASSUME AddLoad(t) \/ SubLoad(t) PROVE Kept' /\ ArcExact' /\ Alone'
    BY <1>1, <2>2, LockStep
  <2>3. ASSUME Decref(t) PROVE Kept' /\ ArcExact' /\ Alone'
    BY <1>1, <2>3, DecrefStep
  <2>4. ASSUME Sub(t) \/ SubStore(t) PROVE Kept' /\ ArcExact' /\ Alone'
    BY <1>1, <2>4, SubStep
  <2>5. ASSUME Keep(t) \/ Reclaim(t) PROVE Kept' /\ ArcExact' /\ Alone'
    BY <1>1, <2>5, FreeStep
  <2> QED
    BY <1>3, <2>1, <2>2, <2>3, <2>4, <2>5 DEF GlueStep
<1>4. ASSUME UNCHANGED vars PROVE Kept' /\ ArcExact' /\ Alone'
  <2>1. UNCHANGED <<owner, refs, block, arc, mem, guard, at, self, other, tmp>>
    BY <1>4 DEF vars, heapVars, callVars
  <2>2. Kept'
    BY <1>1, <2>1 DEF Kept, Calls, Owned, GuardHeld, On
  <2>3. ArcExact' /\ Alone'
    BY <1>1, <2>1, Quiet DEF Leaving
  <2> QED
    BY <2>2, <2>3
<1>5. Kept' /\ ArcExact' /\ Alone'
  BY <1>2, <1>3, <1>4 DEF Next, Terminated
<1>6. (TypeOK /\ Calls /\ GuardHeld /\ Alone => SoleReclaimer)'
  BY AloneSole, PTL
<1> QED
  BY <1>1, <1>5, <1>6 DEF AInv, Kept

\* In every reachable state the count of a block is the number of wrappers that
\* count in it, and calls, guards and owners are where AInv says.
THEOREM ArcInductive == Spec => []AInv
BY AInvInit, ArcNext, PTL DEF Spec

\* mutex.c, sem.c, cond.c, rwlock.c, thread.c: no finalizer destroys a block that
\* another thread is in or will touch, with either way of counting.
THEOREM ArcMemorySafe == Spec => [](NoUseAfterFree /\ SoleReclaimer)
<1>1. AInv => NoUseAfterFree /\ SoleReclaimer
  BY AInvSafe DEF AInv
<1> QED
  BY <1>1, ArcInductive, PTL

\* What the abstract object calls its references is arc.
ArcIsCount ==
  [b \in Blocks |-> Cardinality(Pointing(b))] = arc /\ arc \in [Blocks -> Nat]

\* The abstract count of references is the count the code keeps.
LEMMA RefsAreArc == TypeOK /\ ArcExact => ArcIsCount
<1> SUFFICES ASSUME TypeOK, ArcExact PROVE ArcIsCount
  OBVIOUS
<1>1. ASSUME NEW b \in Blocks PROVE arc[b] = Cardinality(Pointing(b)) /\ arc[b] \in Nat
  <2>1. IsFiniteSet(Pointing(b))
    BY FS_Subset, ArcAssumption DEF Pointing
  <2>2. arc[b] = Cardinality(Pointing(b))
    BY DEF ArcExact
  <2> QED
    BY <2>1, <2>2, FS_CardinalityType
<1> QED
  BY <1>1 DEF TypeOK, ArcIsCount

AbsState == [b \in Blocks |-> IF mem[b] = "none" THEN "unborn" ELSE mem[b]]

\* The abstract state follows mem.
LEMMA AbsStateAt ==
  ASSUME TypeOK, TypeOK', NEW b \in Blocks
  PROVE  /\ AbsState[b] = "unborn" <=> mem[b] = "none"
         /\ AbsState[b] = "live" <=> mem[b] = "live"
         /\ AbsState'[b] = "live" <=> mem'[b] = "live"
         /\ AbsState'[b] = "freed" <=> mem'[b] = "freed"
         /\ mem'[b] = mem[b] => AbsState'[b] = AbsState[b]
BY DEF AbsState, TypeOK

\* A step of the count or of the memory of one block is a step of its abstract
\* object, any other step is a stutter.
LEMMA AbsStep ==
  ASSUME AInv, AInv', NEW t \in Threads, NEW b \in Blocks,
         UserStep(t) \/ GlueStep(t), at[t] # "run", b = On(t)
  PROVE  \/ /\ mem[b] = "live" /\ mem'[b] = "live" /\ arc[b] > 0 /\ arc'[b] >= 0
            /\ \A c \in Blocks \ {b} : arc'[c] = arc[c] /\ mem'[c] = mem[c]
         \/ /\ mem[b] = "live" /\ mem'[b] = "freed" /\ arc[b] = 0 /\ arc'[b] = 0
            /\ \A c \in Blocks \ {b} : arc'[c] = arc[c] /\ mem'[c] = mem[c]
         \/ arc' = arc /\ mem' = mem
<1>0. arc[b] = Cardinality(Pointing(b)) /\ arc[b] \in Nat /\ arc'[b] \in Nat
      /\ IsFiniteSet(Pointing(b))
  <2>1. arc[b] \in Nat /\ arc[b] = Cardinality(Pointing(b))
    BY RefsAreArc DEF AInv, ArcExact, ArcIsCount
  <2>2. arc'[b] \in Nat
    <3>1. (TypeOK /\ ArcExact => ArcIsCount)'
      BY RefsAreArc, PTL
    <3> QED
      BY <3>1 DEF AInv, ArcIsCount
  <2> QED
    BY <2>1, <2>2, FS_Subset, ArcAssumption DEF Pointing
<1>2. ASSUME Add(t) \/ AddStore(t) \/ Sub(t) \/ SubStore(t)
      PROVE  /\ mem[b] = "live" /\ mem'[b] = "live" /\ arc[b] > 0 /\ arc'[b] >= 0
             /\ \A d \in Blocks \ {b} : arc'[d] = arc[d] /\ mem'[d] = mem[d]
  <2>1. at[t] \in {"add", "adding", "sub", "subbing"} /\ b = On(t)
    BY <1>2 DEF Add, AddStore, Sub, SubStore
  <2>2. Pointing(b) # {}
    BY <2>1, InUse DEF AInv
  <2>3. arc[b] > 0
    BY <1>0, <2>2, FS_EmptySet
  <2>4. mem[b] = "live" /\ mem' = mem
    BY <1>2, <2>2 DEF AInv, ArcExact, Add, AddStore, Attach, Sub, SubStore
  <2>5. \A d \in Blocks \ {b} : arc'[d] = arc[d]
    BY <1>2, <2>1 DEF Add, AddStore, Sub, SubStore, AInv, TypeOK
  <2> QED
    BY <1>0, <2>3, <2>4, <2>5
<1>3. ASSUME Reclaim(t)
      PROVE  /\ mem[b] = "live" /\ mem'[b] = "freed" /\ arc[b] = 0 /\ arc'[b] = 0
             /\ \A d \in Blocks \ {b} : arc'[d] = arc[d] /\ mem'[d] = mem[d]
  <2>1. Leaving(t) /\ LastWrapper(t) /\ b = On(t)
    BY <1>3 DEF Reclaim, Leaving
  <2>2. Pointing(b) = {} /\ mem[b] = "live"
    BY <2>1 DEF AInv, SoleReclaimer, ArcExact
  <2>3. arc[b] = 0
    BY <1>0, <2>2, FS_EmptySet
  <2>4. arc' = arc /\ mem' = [mem EXCEPT ![b] = "freed"]
    BY <1>3, <2>1 DEF Reclaim, FreeWrapper
  <2> QED
    BY <2>2, <2>3, <2>4 DEF AInv, TypeOK
<1>4. CASE UserStep(t)
  BY <1>4 DEF UserStep, Dup, Drop, New, Use, Move, UseBoth, Share, UseReturns, Call, heapVars
<1>5. CASE GlueStep(t)
  <2>1. CASE Add(t) \/ AddStore(t) \/ Sub(t) \/ SubStore(t)
    BY <1>2, <2>1
  <2>2. CASE Reclaim(t)
    BY <1>3, <2>2
  <2>3. CASE AddLoad(t) \/ SubLoad(t) \/ Decref(t) \/ Keep(t)
    BY <2>3 DEF AddLoad, SubLoad, Lock, Decref, Keep, FreeWrapper, heapVars
  <2> QED
    BY <1>5, <2>1, <2>2, <2>3 DEF GlueStep
<1> QED
  BY <1>4, <1>5

\* A block behaves as a shared object: freed once, after its last wrapper.
THEOREM ArcRefinement == Spec => ImplementsShared
<1>1. Init => Shared!Init
  <2> SUFFICES ASSUME Init PROVE Shared!Init
    OBVIOUS
  <2>1. TypeOK /\ ArcExact
    BY AInvInit DEF AInv
  <2>2. [b \in Blocks |-> Cardinality(Pointing(b))] = arc
    BY <2>1, RefsAreArc DEF ArcIsCount
  <2> QED
    BY <2>2 DEF Init, Shared!Init
<1>2. AInv /\ AInv' /\ [Next]_vars => [Shared!Next]_(Shared!sharedVars)
  <2> SUFFICES ASSUME AInv, AInv', [Next]_vars PROVE [Shared!Next]_(Shared!sharedVars)
    OBVIOUS
  <2>1. [b \in Blocks |-> Cardinality(Pointing(b))] = arc /\ arc \in [Blocks -> Nat]
    BY RefsAreArc DEF AInv, ArcIsCount
  <2>2. [b \in Blocks |-> Cardinality(Pointing(b))]' = arc' /\ arc' \in [Blocks -> Nat]
    <3>1. (TypeOK /\ ArcExact => ArcIsCount)'
      BY RefsAreArc, PTL
    <3> QED
      BY <3>1 DEF AInv, ArcIsCount
  <2>3. CASE arc' = arc /\ mem' = mem
    BY <2>1, <2>2, <2>3 DEF Shared!sharedVars
  <2>4. ASSUME NEW b \in Blocks, \A c \in Blocks \ {b} : arc'[c] = arc[c] /\ mem'[c] = mem[c],
               \/ mem[b] = "none" /\ mem'[b] = "live" /\ arc'[b] = 1
               \/ mem[b] = "live" /\ mem'[b] = "live" /\ arc[b] > 0 /\ arc'[b] >= 0
               \/ mem[b] = "live" /\ mem'[b] = "freed" /\ arc[b] = 0 /\ arc'[b] = 0
        PROVE  Shared!Next
    <3>1. Shared!Others(b)
      BY <2>1, <2>2, <2>4, AbsStateAt DEF Shared!Others, AInv, AbsState
    <3>2. CASE mem[b] = "none" /\ mem'[b] = "live" /\ arc'[b] = 1
      <4>1. Shared!Create(b)
        BY <2>2, <3>1, <3>2, AbsStateAt DEF Shared!Create, AInv, AbsState
      <4> QED
        BY <4>1 DEF Shared!Next
    <3>3. CASE mem[b] = "live" /\ mem'[b] = "live" /\ arc[b] > 0 /\ arc'[b] >= 0
      <4>1. Shared!Share(b)
        BY <2>1, <2>2, <3>1, <3>3, AbsStateAt DEF Shared!Share, AInv, AbsState
      <4> QED
        BY <4>1 DEF Shared!Next
    <3>4. CASE mem[b] = "live" /\ mem'[b] = "freed" /\ arc[b] = 0 /\ arc'[b] = 0
      <4>1. Shared!Reclaim(b)
        BY <2>1, <2>2, <3>1, <3>4, AbsStateAt DEF Shared!Reclaim, AInv, AbsState
      <4> QED
        BY <4>1 DEF Shared!Next
    <3> QED
      BY <2>4, <3>2, <3>3, <3>4
  <2>5. ASSUME NEW t \in Threads, UserStep(t) \/ GlueStep(t)
        PROVE  [Shared!Next]_(Shared!sharedVars)
    <3>1. CASE \E w \in Wrappers, c \in Blocks : New(t, w, c)
      <4>1. PICK w \in Wrappers, c \in Blocks : New(t, w, c)
        BY <3>1
      <4>2. /\ mem[c] = "none" /\ mem'[c] = "live" /\ arc'[c] = 1
            /\ \A d \in Blocks \ {c} : arc'[d] = arc[d] /\ mem'[d] = mem[d]
        BY <4>1 DEF New, AInv, TypeOK
      <4> QED
        BY <2>4, <4>2
    <3>2. CASE ~(\E w \in Wrappers, c \in Blocks : New(t, w, c)) /\ at[t] = "run"
      BY <2>3, <2>5, <3>2 DEF UserStep, GlueStep, Dup, Drop, Use, Move, UseBoth, Share,
         UseReturns, heapVars, Add, AddLoad, AddStore, Decref, Sub, SubLoad, SubStore, Keep, Reclaim
    <3>3. CASE ~(\E w \in Wrappers, c \in Blocks : New(t, w, c)) /\ at[t] # "run"
      <4>1. PICK b \in Blocks : b = On(t)
        BY <3>3 DEF AInv, Calls, TypeOK, On
      <4>2. \/ /\ mem[b] = "live" /\ mem'[b] = "live" /\ arc[b] > 0 /\ arc'[b] >= 0
               /\ \A c \in Blocks \ {b} : arc'[c] = arc[c] /\ mem'[c] = mem[c]
            \/ /\ mem[b] = "live" /\ mem'[b] = "freed" /\ arc[b] = 0 /\ arc'[b] = 0
               /\ \A c \in Blocks \ {b} : arc'[c] = arc[c] /\ mem'[c] = mem[c]
            \/ arc' = arc /\ mem' = mem
        BY <2>5, <3>3, <4>1, AbsStep
      <4> QED
        BY <2>3, <2>4, <4>2
    <3> QED
      BY <3>1, <3>2, <3>3
  <2>6. CASE UNCHANGED vars
    BY <2>3, <2>6 DEF vars, heapVars
  <2> QED
    BY <2>5, <2>6 DEF Next, Terminated
<1> QED
  BY <1>1, <1>2, ArcInductive, PTL DEF Spec, ImplementsShared, Shared!Spec
=============================================================================

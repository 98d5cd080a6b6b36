--------------------------- MODULE UvStreamProofs ---------------------------
(***************************************************************************)
(* Proofs about UvStream.  For programs that take no liberties the counts  *)
(* of streams, data objects and closures are exact whatever the order of   *)
(* the program's calls and libuv's, and so nothing dangles and nothing is  *)
(* left over.  For programs that also listen again they are never too low, *)
(* and so nothing dangles.                                                 *)
(*                                                                         *)
(* Each step is proved once for both: it preserves RelistenInv, and with   *)
(* it CountExact.                                                          *)
(***************************************************************************)
EXTENDS UvStream, TLAPS

USE DEF Reads

(***************************************************************************)
(* How the counts of one object change.                                    *)
(***************************************************************************)

\* moonbit_incref and moonbit_decref of an alloc closure, as one assignment.
LEMMA AllocCounted ==
  ASSUME NEW c \in [Slots -> Counts], NEW d \in Slots, NEW k \in Int
  PROVE  [c EXCEPT ![d].alloc = k] =
         [c EXCEPT ![d] = [object |-> c[d].object, alloc |-> k, read |-> c[d].read]]
<1>1. [c EXCEPT ![d].alloc = k] = [c EXCEPT ![d] = [c[d] EXCEPT !.alloc = k]]
  OBVIOUS
<1>2. [c[d] EXCEPT !.alloc = k] = [object |-> c[d].object, alloc |-> k, read |-> c[d].read]
  BY c[d] \in Counts DEF Counts
<1> QED
  BY <1>1, <1>2

\* The same of a read closure.
LEMMA ReadCounted ==
  ASSUME NEW c \in [Slots -> Counts], NEW d \in Slots, NEW k \in Int
  PROVE  [c EXCEPT ![d].read = k] =
         [c EXCEPT ![d] = [object |-> c[d].object, alloc |-> c[d].alloc, read |-> k]]
<1>1. [c EXCEPT ![d].read = k] = [c EXCEPT ![d] = [c[d] EXCEPT !.read = k]]
  OBVIOUS
<1>2. [c[d] EXCEPT !.read = k] = [object |-> c[d].object, alloc |-> c[d].alloc, read |-> k]
  BY c[d] \in Counts DEF Counts
<1> QED
  BY <1>1, <1>2

\* The same of an object.
LEMMA ObjectCounted ==
  ASSUME NEW c \in [Slots -> Counts], NEW d \in Slots, NEW k \in Int
  PROVE  [c EXCEPT ![d].object = k] =
         [c EXCEPT ![d] = [object |-> k, alloc |-> c[d].alloc, read |-> c[d].read]]
<1>1. [c EXCEPT ![d].object = k] = [c EXCEPT ![d] = [c[d] EXCEPT !.object = k]]
  OBVIOUS
<1>2. [c[d] EXCEPT !.object = k] = [object |-> k, alloc |-> c[d].alloc, read |-> c[d].read]
  BY c[d] \in Counts DEF Counts
<1> QED
  BY <1>1, <1>2

\* moonbit_decref of an object for data.
LEMMA DecrefOf ==
  ASSUME NEW c \in [Slots -> Counts], NEW d \in Slots
  PROVE  Decref(c, d) = [c EXCEPT ![d] =
           [object |-> c[d].object - 1,
            alloc |-> IF kind[d] = "read" /\ c[d].object = 1 THEN c[d].alloc - 1 ELSE c[d].alloc,
            read |-> IF kind[d] = "read" /\ c[d].object = 1 THEN c[d].read - 1 ELSE c[d].read]]
<1>1. c[d] \in Counts /\ d # None
  BY StreamAssumption
<1>2. [c[d] EXCEPT !.object = c[d].object - 1] =
        [object |-> c[d].object - 1, alloc |-> c[d].alloc, read |-> c[d].read]
  BY <1>1 DEF Counts
<1>3. Dropped(c[d], kind[d]) =
        [object |-> c[d].object - 1,
         alloc |-> IF kind[d] = "read" /\ c[d].object = 1 THEN c[d].alloc - 1 ELSE c[d].alloc,
         read |-> IF kind[d] = "read" /\ c[d].object = 1 THEN c[d].read - 1 ELSE c[d].read]
  BY <1>1, <1>2 DEF Dropped, Counts
<1>4. Decref(c, d) = [c EXCEPT ![d] = Dropped(c[d], kind[d])]
  BY <1>1 DEF Decref
<1> QED
  BY <1>3, <1>4

\* The initial state.
LEMMA SInvInit == Init => SInv
<1> SUFFICES ASSUME Init PROVE SInv
  OBVIOUS
<1>1. TypeOK
  BY DEF Init, TypeOK, Phases, Counts, Free, NoFrame
<1>2. Places /\ RcExact /\ CallableData
  BY StreamAssumption DEF Init, Places, RcExact, CallableData, NoFrame, Linked, One, Away
<1>3. CountExact
  BY StreamAssumption DEF Init, CountExact, NoFrame, Held, Stored, One, Away, Free
<1> QED
  BY <1>1, <1>2, <1>3 DEF SInv

\* Exact counts are not too low: stream data is in at most one place.
LEMMA ExactEnough == SInv => RelistenInv
<1> SUFFICES ASSUME SInv, NEW d \in Slots
             PROVE  /\ count[d].object >= Held(d)
                    /\ kind[d] = "read" /\ count[d].object > 0 => Held(d) = 1
  BY DEF SInv, RelistenInv, CountExact, CountEnough, Held, One
<1>1. count[d].object = Held(d) /\ Held(d) \in {0, 1, 2}
  BY DEF SInv, CountExact, Held, One
<1>2. ASSUME kind[d] = "read" PROVE Held(d) # 2
  <2>1. ~(frame.slot = d /\ frame.what \in {"listen", "close"})
    BY <1>2 DEF SInv, Places
  <2>2. frame.slot = d /\ Away => ~Stored(d)
    BY DEF SInv, Places, Away, Stored
  <2> QED
    BY <2>1, <2>2 DEF Held, One
<1> QED
  BY <1>1, <1>2

(***************************************************************************)
(* The calls that put something else into data.                            *)
(***************************************************************************)

\* While a stream is linked the drop of a parameter is not its last.
LEMMA InstallLinked ==
  ASSUME RelistenInv, NEW h \in Streams, Linked(h), NEW n, n = rc[h] - 1,
         user[h] > 0 \/ (frame.on = h /\ frame.param = 1), NEW d, NEW c, Install(h, n, d, c)
  PROVE  /\ rc' = [rc EXCEPT ![h] = rc[h] - 1]
         /\ data' = [data EXCEPT ![h] = d]
         /\ count' = c
<1>1. n \in Int /\ ~(n <= 0)
  BY DEF RelistenInv, TypeOK, RcExact, One
<1> QED
  BY <1>1 DEF Install

\* An object that was just made has no place yet.
LEMMA FreshFree ==
  ASSUME RelistenInv, NEW d \in Slots, Fresh(d)
  PROVE  /\ ~Stored(d)
         /\ frame.slot # d
<1>1. count[d].object = 0 /\ count[d].alloc = 0 /\ count[d].read = 0
  BY DEF Fresh, Free
<1>2. Held(d) = 0 /\ ~(frame.slot = d /\ frame.what = "alloc") /\ ~(frame.slot = d /\ frame.what \in Reads)
  <2>1. 0 >= Held(d)
        /\ 0 >= One(kind[d] = "read" /\ count[d].object > 0) + One(frame.slot = d /\ frame.what = "alloc")
        /\ 0 >= One(kind[d] = "read" /\ count[d].object > 0) + One(frame.slot = d /\ frame.what \in Reads)
    BY <1>1 DEF RelistenInv, CountEnough
  <2> QED
    BY <2>1 DEF One, Held
<1>3. ~Stored(d) /\ ~(frame.slot = d /\ frame.what \in {"listen", "close"})
  BY <1>2 DEF Held, One
<1>4. frame.what # "crash" /\ (frame.what \in {"none", "between"} => frame.slot = None)
  BY DEF RelistenInv, Places, NoFrame
<1> QED
  BY <1>2, <1>3, <1>4, StreamAssumption DEF RelistenInv, TypeOK

\* CountExact and CountEnough of one object.
Exact(e) ==
  /\ count[e].object = Held(e)
  /\ count[e].alloc = One(kind[e] = "read" /\ Held(e) = 1) + One(frame.slot = e /\ frame.what = "alloc")
  /\ count[e].read = One(kind[e] = "read" /\ Held(e) = 1) + One(frame.slot = e /\ frame.what \in Reads)

Enough(e) ==
  /\ count[e].object >= Held(e)
  /\ count[e].alloc >= One(kind[e] = "read" /\ count[e].object > 0) + One(frame.slot = e /\ frame.what = "alloc")
  /\ count[e].read >= One(kind[e] = "read" /\ count[e].object > 0) + One(frame.slot = e /\ frame.what \in Reads)

LEMMA Numbers ==
  ASSUME TypeOK, NEW e \in Slots
  PROVE  /\ count[e] = [object |-> count[e].object, alloc |-> count[e].alloc, read |-> count[e].read]
         /\ count[e].object \in Int /\ count[e].alloc \in Int /\ count[e].read \in Int
         /\ Held(e) \in Int
<1>1. count[e] \in Counts
  BY DEF TypeOK
<1> QED
  BY <1>1 DEF Counts, Held, One

\* The counts of an object that has one place less, and as the code counts.
Without(o) ==
  [object |-> Held(o) - 1,
   alloc |-> One(kind[o] = "read" /\ Held(o) - 1 = 1) + One(frame.slot = o /\ frame.what = "alloc"),
   read |-> One(kind[o] = "read" /\ Held(o) - 1 = 1) + One(frame.slot = o /\ frame.what \in Reads)]

Less(o) ==
  [object |-> count[o].object - 1,
   alloc |-> IF kind[o] = "read" /\ count[o].object = 1 THEN count[o].alloc - 1 ELSE count[o].alloc,
   read |-> IF kind[o] = "read" /\ count[o].object = 1 THEN count[o].read - 1 ELSE count[o].read]

LEMMA DecrefLess ==
  ASSUME TypeOK, NEW o \in Slots, NEW c \in [Slots -> Counts], c[o] = count[o]
  PROVE  Decref(c, o) = [c EXCEPT ![o] = Less(o)] /\ Less(o) \in Counts
<1>1. Decref(c, o) = [c EXCEPT ![o] =
           [object |-> c[o].object - 1,
            alloc |-> IF kind[o] = "read" /\ c[o].object = 1 THEN c[o].alloc - 1 ELSE c[o].alloc,
            read |-> IF kind[o] = "read" /\ c[o].object = 1 THEN c[o].read - 1 ELSE c[o].read]]
  BY DecrefOf
<1>2. count[o] \in Counts
  BY DEF TypeOK
<1> QED
  BY <1>1, <1>2 DEF Less, Counts

\* What was there loses its place and its reference, and if it was the last
\* one its closures lose theirs.
LEMMA Replaced ==
  ASSUME RelistenInv, CountExact, NEW h \in Streams, NEW o \in Slots, data[h] = o,
         ~(frame.what = "alloc" /\ frame.on = h)
  PROVE  Less(o) = Without(o)
<1>1. Stored(o)
  BY DEF Stored
<1>2. /\ count[o].object = Held(o)
      /\ count[o].alloc = One(kind[o] = "read" /\ Held(o) = 1) + One(frame.slot = o /\ frame.what = "alloc")
      /\ count[o].read = One(kind[o] = "read" /\ Held(o) = 1) + One(frame.slot = o /\ frame.what \in Reads)
  BY DEF CountExact
<1>3. Held(o) \in {1, 2}
  BY <1>1 DEF Held, One
<1>4. kind[o] = "read" => Held(o) = 1
  <2>1. frame.slot = o /\ frame.what \in {"listen", "close"} => kind[o] # "read"
    BY DEF RelistenInv, Places
  <2>2. ~(frame.slot = o /\ Away)
    BY DEF RelistenInv, Places, Away
  <2> QED
    BY <1>1, <2>1, <2>2 DEF Held, One
<1> DEFINE a == IF kind[o] = "read" /\ count[o].object = 1 THEN count[o].alloc - 1 ELSE count[o].alloc
<1> DEFINE r == IF kind[o] = "read" /\ count[o].object = 1 THEN count[o].read - 1 ELSE count[o].read
<1>5. Less(o) = [object |-> count[o].object - 1, alloc |-> a, read |-> r]
  BY DEF Less
<1>6. a = One(kind[o] = "read" /\ Held(o) - 1 = 1) + One(frame.slot = o /\ frame.what = "alloc")
  BY <1>2, <1>3, <1>4 DEF One
<1>7. r = One(kind[o] = "read" /\ Held(o) - 1 = 1) + One(frame.slot = o /\ frame.what \in Reads)
  BY <1>2, <1>3, <1>4 DEF One
<1>8. count[o].object = Held(o)
  BY <1>2
<1> HIDE DEF a, r
<1> QED
  BY <1>5, <1>6, <1>7, <1>8, Zenon DEF Without

\* read_start, recv_start, read_stop, listen and close, for all that they do to
\* the counts: a new object, or nothing, takes the place of what data led to,
\* which is dropped or, by listen, left to itself.
Replaces(h, d, k, c, after, p) ==
  /\ Usable(h) /\ Consume(h)
  /\ d \in Slots \cup {None} /\ k \in {"read", "listen", "close"}
  /\ IF d = None THEN kind' = kind /\ c = count ELSE Make(d, k) /\ c = Made(d, k)
  /\ after = c \/ after = Decref(c, data[h])
  /\ Install(h, rc[h] - 1, d, after)
  /\ p \in Phases \ {"none", "closed", "cut"} /\ phase' = [phase EXCEPT ![h] = p]
  /\ p = "reading" => d # None /\ k = "read"
  /\ p = "listening" => d # None /\ k = "listen"
  /\ p = "closing" => d # None /\ k = "close"
  /\ waiting' \in [Streams -> {0, 1}] /\ frame' = frame

LEMMA ReplaceStep ==
  ASSUME "alloc" \notin Allowed, RelistenInv, NEW h \in Streams,
         NEW d, NEW k, NEW c, NEW after, NEW p, Replaces(h, d, k, c, after, p)
  PROVE  RelistenInv' /\ (CountExact /\ after = Decref(c, data[h]) => CountExact')
<1> SUFFICES
      ASSUME Usable(h), Consume(h), d \in Slots \cup {None}, k \in {"read", "listen", "close"},
             IF d = None THEN kind' = kind /\ c = count ELSE Make(d, k) /\ c = Made(d, k),
             after = c \/ after = Decref(c, data[h]),
             Install(h, rc[h] - 1, d, after),
             p \in Phases \ {"none", "closed", "cut"}, phase' = [phase EXCEPT ![h] = p],
             p = "reading" => d # None /\ k = "read",
             p = "listening" => d # None /\ k = "listen",
             p = "closing" => d # None /\ k = "close",
             waiting' \in [Streams -> {0, 1}], frame' = frame
      PROVE  RelistenInv' /\ (CountExact /\ after = Decref(c, data[h]) => CountExact')
  BY DEF Replaces
<1> USE DEF Usable, Consume
<1>0. Linked(h) /\ frame.what # "between" /\ ~(frame.what = "alloc" /\ frame.on = h)
  BY DEF UserTurn, Linked
<1>1. /\ rc' = [rc EXCEPT ![h] = rc[h] - 1]
      /\ data' = [data EXCEPT ![h] = d]
      /\ count' = after
  BY <1>0, InstallLinked
<1>2. d # None => d \in Slots /\ ~Stored(d) /\ frame.slot # d /\ kind' = [kind EXCEPT ![d] = k]
  BY FreshFree DEF Make
<1>3. c \in [Slots -> Counts] /\ (d # None => d \in Slots /\ c[d] =
        [object |-> 1, alloc |-> One(k = "read"), read |-> One(k = "read")])
      /\ \A e \in Slots : e # d => c[e] = count[e]
  BY <1>2 DEF Made, RelistenInv, TypeOK, Counts, One
<1>4. data[h] # None => data[h] \in Slots /\ data[h] # d
  BY <1>2 DEF RelistenInv, TypeOK, Stored
<1>5. /\ after # c => data[h] # None
      /\ data[h] # None => /\ Decref(c, data[h]) = [c EXCEPT ![data[h]] = Less(data[h])]
                          /\ Less(data[h]) \in Counts
  <2>1. after # c => data[h] # None
    BY DEF Decref
  <2>2. CASE data[h] # None
    BY <1>3, <1>4, <2>1, <2>2, DecrefLess DEF RelistenInv
  <2> QED
    BY <2>1, <2>2
<1>b. count' = c \/ (data[h] # None /\ count' = [c EXCEPT ![data[h]] = Less(data[h])])
  BY <1>1, <1>5
<1>6. TypeOK'
  <2>1. count' \in [Slots -> Counts]
    BY <1>3, <1>4, <1>5, <1>b
  <2>2. kind' \in [Slots -> {"read", "listen", "close"}]
    BY <1>2 DEF RelistenInv, TypeOK
  <2>3. rc' \in [Streams -> Int] /\ user' \in [Streams -> Nat] /\ data' \in [Streams -> Slots \cup {None}]
        /\ phase' \in [Streams -> Phases]
    BY <1>1 DEF RelistenInv, TypeOK
  <2> QED
    BY <2>1, <2>2, <2>3 DEF RelistenInv, TypeOK
<1>7. Places'
  <2>1. \A f, g \in Streams : data'[f] # None /\ data'[f] = data'[g] => f = g
    BY <1>1, <1>2 DEF RelistenInv, TypeOK, Places, Stored
  <2>2. \A g \in Streams : /\ phase'[g] # "cut"
                           /\ phase'[g] \in {"none", "closed"} => data'[g] = None
                           /\ phase'[g] = "none" => user'[g] = 0 /\ frame'.on # g
    BY <1>1 DEF RelistenInv, TypeOK, Places
  <2>3. frame.what = "alloc" =>
          /\ frame.on \in Streams /\ frame.on # h /\ frame.slot # None
          /\ phase'[frame.on] = phase[frame.on] /\ data'[frame.on] = data[frame.on]
          /\ kind'[frame.slot] = kind[frame.slot]
          /\ (\A g \in Streams : data[g] # frame.slot) => \A g \in Streams : data'[g] # frame.slot
    BY <1>0, <1>1, <1>2 DEF RelistenInv, TypeOK, Places
  <2>4. frame.what \in {"read", "chunk", "listen"} =>
          kind'[frame.slot] = kind[frame.slot] /\ phase'[frame.on] # "closed"
    BY <1>2 DEF RelistenInv, TypeOK, Places
  <2>5. frame.what = "close" => kind'[frame.slot] = "close" /\ phase'[frame.on] = "closed"
    BY <1>2 DEF RelistenInv, TypeOK, Places
  <2> QED
    BY <2>1, <2>2, <2>3, <2>4, <2>5 DEF RelistenInv, Places, Away
<1>8. RcExact'
  BY <1>0, <1>1 DEF RelistenInv, TypeOK, RcExact, Linked, One
<1>9. CallableData'
  <2> SUFFICES ASSUME NEW g \in Streams
               PROVE  LET busy == frame.on = g /\ frame.what = "alloc" /\ g \notin Datagrams
                          holds(q) == data'[g] # None /\ kind'[data'[g]] = q
                      IN /\ phase'[g] = "reading" /\ ~busy => holds("read")
                         /\ phase'[g] = "listening" => holds("listen")
                         /\ phase'[g] \in {"closing", "cut"} /\ ~busy => holds("close")
    BY <1>0 DEF CallableData
  <2>1. CASE g = h
    BY <1>1, <1>2, <2>1 DEF RelistenInv, TypeOK
  <2>2. CASE g # h
    <3>1. phase'[g] = phase[g] /\ data'[g] = data[g] /\ (data[g] # None => kind'[data[g]] = kind[data[g]])
      BY <1>1, <1>2, <2>2 DEF RelistenInv, TypeOK, Stored
    <3> QED
      BY <3>1 DEF RelistenInv, CallableData
  <2> QED
    BY <2>1, <2>2
<1>10. \A e \in Slots : e # d =>
         /\ kind'[e] = kind[e]
         /\ e = data[h] => Stored(e) /\ ~Stored(e)' /\ Held(e)' = Held(e) - 1
         /\ e # data[h] => Held(e)' = Held(e) /\ count'[e] = count[e]
  <2> SUFFICES ASSUME NEW e \in Slots, e # d
               PROVE  /\ kind'[e] = kind[e]
                      /\ e = data[h] => Stored(e) /\ ~Stored(e)' /\ Held(e)' = Held(e) - 1
                      /\ e # data[h] => Held(e)' = Held(e) /\ count'[e] = count[e]
    OBVIOUS
  <2>1. kind'[e] = kind[e]
    BY <1>2 DEF RelistenInv, TypeOK
  <2>2. CASE e = data[h]
    <3>1. Stored(e) /\ ~Stored(e)'
      BY <1>1, <2>2, StreamAssumption DEF Stored, RelistenInv, TypeOK, Places
    <3> QED
      BY <2>1, <2>2, <3>1 DEF Held, One, Away
  <2>3. CASE e # data[h]
    <3>1. Stored(e)' <=> Stored(e)
      BY <1>1, <2>3 DEF Stored, RelistenInv, TypeOK
    <3>2. Held(e)' = Held(e)
      BY <3>1 DEF Held, One, Away
    <3>3. count'[e] = count[e]
      BY <1>3, <1>b, <2>3
    <3> QED
      BY <2>1, <2>3, <3>2, <3>3
  <2> QED
    BY <2>2, <2>3
<1>11. d # None => /\ frame.slot # d /\ Held(d)' = 1 /\ kind'[d] = k
                   /\ count'[d] = [object |-> 1, alloc |-> One(k = "read"), read |-> One(k = "read")]
  <2> SUFFICES ASSUME d # None
               PROVE  /\ frame.slot # d /\ Held(d)' = 1 /\ kind'[d] = k
                      /\ count'[d] = [object |-> 1, alloc |-> One(k = "read"), read |-> One(k = "read")]
    OBVIOUS
  <2>1. Stored(d)' /\ frame.slot # d
    BY <1>1, <1>2, StreamAssumption DEF Stored, RelistenInv, TypeOK
  <2>2. Held(d)' = 1
    BY <2>1 DEF Held, One
  <2>3. count'[d] = c[d] /\ kind'[d] = k
    BY <1>2, <1>3, <1>4, <1>b DEF RelistenInv, TypeOK
  <2> QED
    BY <1>3, <2>1, <2>2, <2>3
<1>12. CountEnough'
  <2> SUFFICES ASSUME NEW e \in Slots PROVE Enough(e)'
    BY DEF CountEnough, Enough
  <2>1. Enough(e) /\ count[e] \in Counts /\ Held(e) \in Int
    BY DEF RelistenInv, CountEnough, Enough, TypeOK, Held, One
  <2>2. CASE e = d
    BY <1>11, <2>2, StreamAssumption DEF Enough, One
  <2>3. CASE e # d /\ e = data[h]
    <3>1. count'[e] = count[e] \/ count'[e] = Less(e)
      BY <1>1, <1>3, <1>b, <2>3
    <3>2. CASE count'[e] = count[e]
      BY <1>10, <2>1, <2>3, <3>2 DEF Enough, One, Counts
    <3>3. CASE count'[e] = Less(e)
      <4>1. count[e].object >= 1
        BY <1>10, <2>1, <2>3 DEF Enough, Held, One, Counts
      <4> QED
        BY <1>10, <2>1, <2>3, <3>3, <4>1 DEF Enough, One, Counts, Less
    <3> QED
      BY <3>1, <3>2, <3>3
  <2>4. CASE e # d /\ e # data[h]
    BY <1>10, <2>1, <2>4 DEF Enough
  <2> QED
    BY <2>2, <2>3, <2>4
<1>13. ASSUME CountExact, after = Decref(c, data[h]) PROVE CountExact'
  <2> SUFFICES ASSUME NEW e \in Slots PROVE Exact(e)'
    BY DEF CountExact, Exact
  <2>1. Exact(e)
    BY <1>13 DEF CountExact, Exact
  <2>2. CASE e = d
    BY <1>11, <2>2, StreamAssumption DEF Exact, One
  <2>3. CASE e # d /\ e = data[h]
    <3>1. Less(e) = Without(e)
      BY <1>0, <1>13, <2>3, Replaced
    <3>2. count'[e] = Less(e)
      BY <1>1, <1>3, <1>4, <1>5, <1>13, <2>3, StreamAssumption
    <3>3. kind'[e] = kind[e] /\ Held(e)' = Held(e) - 1
      BY <1>10, <2>3
    <3> QED
      BY <3>1, <3>2, <3>3 DEF Exact, Without
  <2>4. CASE e # d /\ e # data[h]
    BY <1>10, <2>1, <2>4 DEF Exact
  <2> QED
    BY <2>2, <2>3, <2>4
<1> QED
  BY <1>6, <1>7, <1>8, <1>9, <1>12, <1>13 DEF RelistenInv

\* The program's calls that put something else into data.
LEMMA ReplacingCalls ==
  ASSUME Allowed \subseteq {"relisten"}, RelistenInv, NEW h \in Streams,
         ReadStop(h) \/ \E d \in Slots : ReadStart(h, d) \/ Listen(h, d) \/ Close(h, d)
  PROVE  RelistenInv' /\ (Allowed = {} /\ CountExact => CountExact')
<1> DEFINE Goal == RelistenInv' /\ (Allowed = {} /\ CountExact => CountExact')
<1>a. "alloc" \notin Allowed /\ "mix" \notin Allowed /\ "batch" \notin Allowed
  OBVIOUS
<1>0. user[h] > 0 /\ phase[h] \in Phases /\ phase \in [Streams -> Phases]
  BY DEF RelistenInv, TypeOK, ReadStop, ReadStart, Listen, Close, Consume
<1>1. CASE ReadStop(h)
  <2> DEFINE p == IF phase[h] = "reading" THEN "connected" ELSE phase[h]
  <2>1. /\ Usable(h) /\ phase[h] # "listening" /\ phase' = [phase EXCEPT ![h] = p]
    BY <1>1, <1>a DEF ReadStop
  <2>2. p \in Phases \ {"none", "closed", "cut", "reading", "listening", "closing"}
    BY <2>1 DEF Usable, Phases
  <2> HIDE DEF p
  <2>3. Replaces(h, None, "read", count, Decref(count, data[h]), p)
    BY <1>1, <2>1, <2>2 DEF Replaces, ReadStop, SetData, RelistenInv, TypeOK
  <2> QED
    BY <1>a, <2>3, ReplaceStep
<1>2. ASSUME NEW d \in Slots, ReadStart(h, d) PROVE Goal
  <2> DEFINE p == IF phase[h] = "connected" THEN "reading" ELSE phase[h]
  <2>1. Usable(h) /\ phase[h] # "listening" /\ phase' = [phase EXCEPT ![h] = p]
    BY <1>2, <1>a DEF ReadStart
  <2>2. p \in Phases \ {"none", "closed", "cut", "listening", "closing"} /\ d # None
    BY <2>1, StreamAssumption DEF Usable, Phases
  <2> HIDE DEF p
  <2>3. Replaces(h, d, "read", Made(d, "read"), Decref(Made(d, "read"), data[h]), p)
    BY <1>2, <2>1, <2>2 DEF Replaces, ReadStart, SetData, RelistenInv, TypeOK
  <2> QED
    BY <1>a, <2>3, ReplaceStep
<1>3. ASSUME NEW d \in Slots, Listen(h, d) PROVE Goal
  <2>1. d # None /\ phase[h] \in {"open", "listening"}
    BY <1>3, <1>a, StreamAssumption DEF Listen
  <2>2. PICK p \in {"open", "listening"} : phase' = [phase EXCEPT ![h] = p]
    BY <1>0, <1>3, <2>1 DEF Listen
  <2>3. p \in Phases \ {"none", "closed", "cut", "reading", "closing"}
    BY <2>2 DEF Phases
  <2>4. Replaces(h, d, "listen", Made(d, "listen"), Made(d, "listen"), p)
    BY <1>3, <2>1, <2>2, <2>3 DEF Replaces, Listen, RelistenInv, TypeOK
  <2>5. Allowed = {} => Made(d, "listen") = Decref(Made(d, "listen"), data[h])
    BY <1>3 DEF Listen, Decref
  <2> QED
    BY <1>a, <2>4, <2>5, ReplaceStep
<1>4. ASSUME NEW d \in Slots, Close(h, d) PROVE Goal
  <2>1. "closing" \in Phases \ {"none", "closed", "cut"} /\ d # None
    BY StreamAssumption DEF Phases
  <2>2. waiting' \in [Streams -> {0, 1}]
    BY <1>4 DEF Close, RelistenInv, TypeOK
  <2>3. Replaces(h, d, "close", Made(d, "close"), Decref(Made(d, "close"), data[h]), "closing")
    BY <1>4, <1>a, <2>1, <2>2 DEF Replaces, Close, SetData
  <2> QED
    BY <1>a, <2>3, ReplaceStep
<1> QED
  BY <1>1, <1>2, <1>3, <1>4

(***************************************************************************)
(* The steps that leave the objects of data alone.                         *)
(***************************************************************************)

\* Counting and phases alone: what data leads to is as it was.
LEMMA QuietStep ==
  ASSUME RelistenInv, UNCHANGED <<slotVars, kind>>, TypeOK', RcExact',
         frame'.what = frame.what, frame'.on = frame.on, frame'.slot = frame.slot,
         frame.param = 0 => frame' = frame,
         \A h \in Streams :
           /\ phase'[h] = phase[h] \/ phase'[h] \in {"open", "connected"}
           /\ phase[h] = "reading" => phase'[h] = "reading"
           /\ phase'[h] = "none" => user'[h] = 0,
         frame.what = "close" => phase'[frame.on] = "closed"
  PROVE  RelistenInv' /\ (CountExact => CountExact')
<1>1. Places'
  BY DEF RelistenInv, Places, slotVars, TypeOK, Away, NoFrame
<1>2. CallableData'
  BY DEF RelistenInv, CallableData, slotVars, TypeOK
<1>3. CountEnough'
  BY DEF RelistenInv, CountEnough, slotVars, Held, Stored, One, Away
<1>4. CountExact => CountExact'
  BY DEF CountExact, slotVars, Held, Stored, One, Away
<1> QED
  BY <1>1, <1>2, <1>3, <1>4 DEF RelistenInv

\* A variable goes: the count falls, and at zero there is no data to drop.
LEMMA DropStep ==
  ASSUME RelistenInv, NEW h \in Streams, Drop(h)
  PROVE  RelistenInv' /\ (CountExact => CountExact')
<1>1. user[h] > 0 /\ Install(h, rc[h] - 1, data[h], count)
      /\ user' = [user EXCEPT ![h] = user[h] - 1] /\ UNCHANGED <<phase, waiting, kind, frame>>
  BY DEF Drop, Consume
<1>2. rc[h] - 1 <= 0 => data[h] = None
  BY <1>1 DEF RelistenInv, TypeOK, Places, RcExact, Linked, One
<1>3. /\ rc' = [rc EXCEPT ![h] = rc[h] - 1] /\ data' = data /\ count' = count
  <2>1. CASE rc[h] > 0 /\ rc[h] - 1 <= 0
    BY <1>1, <1>2, <2>1 DEF Install, Decref, RelistenInv, TypeOK
  <2>2. CASE ~(rc[h] > 0 /\ rc[h] - 1 <= 0)
    BY <1>1, <2>2 DEF Install, RelistenInv, TypeOK
  <2> QED
    BY <2>1, <2>2
<1>4. TypeOK' /\ RcExact'
  BY <1>1, <1>3 DEF RelistenInv, TypeOK, RcExact, Linked, One
<1> QED
  BY <1>1, <1>3, <1>4, QuietStep DEF RelistenInv, Places, TypeOK, slotVars

LEMMA QuietSteps ==
  ASSUME RelistenInv, NEW h \in Streams,
         New(h) \/ Dup(h) \/ TakeParam(h) \/ Connected(h)
           \/ \E client \in Streams : Accept(h, client)
  PROVE  RelistenInv' /\ (CountExact => CountExact')
<1>1. CASE New(h)
  <2>1. TypeOK' /\ RcExact'
    BY <1>1 DEF New, RelistenInv, TypeOK, RcExact, Places, Linked, One, Phases, slotVars
  <2> QED
    BY <1>1, <2>1, QuietStep DEF New, RelistenInv, TypeOK, Places, slotVars
<1>2. CASE Dup(h)
  <2>1. TypeOK' /\ RcExact'
    BY <1>2 DEF Dup, RelistenInv, TypeOK, RcExact, Linked, One, slotVars
  <2> QED
    BY <1>2, <2>1, QuietStep DEF Dup, RelistenInv, TypeOK, Places, slotVars
<1>3. CASE TakeParam(h)
  <2>1. frame'.what = frame.what /\ frame'.on = frame.on /\ frame'.slot = frame.slot /\ frame'.param = 0
        /\ frame' \in [what : {"none", "alloc", "between", "read", "chunk", "crash", "listen", "close"},
                       on : Streams \cup {None}, slot : Slots \cup {None}, param : {0, 1}]
    BY <1>3 DEF TakeParam, RelistenInv, TypeOK
  <2>2. TypeOK' /\ RcExact'
    BY <1>3, <2>1 DEF TakeParam, RelistenInv, TypeOK, RcExact, Linked, One, slotVars
  <2> QED
    BY <1>3, <2>1, <2>2, QuietStep DEF TakeParam, RelistenInv, TypeOK, Places, slotVars
<1>4. CASE Connected(h)
  <2>1. TypeOK' /\ RcExact'
    BY <1>4 DEF Connected, RelistenInv, TypeOK, RcExact, Linked, One, slotVars, Phases
  <2> QED
    BY <1>4, <2>1, QuietStep DEF Connected, RelistenInv, TypeOK, Places, slotVars, NoFrame
<1>5. ASSUME NEW g \in Streams, Accept(h, g) PROVE RelistenInv' /\ (CountExact => CountExact')
  <2>1. TypeOK' /\ RcExact'
    BY <1>5 DEF Accept, RelistenInv, TypeOK, RcExact, Linked, One, slotVars, Phases
  <2> QED
    BY <1>5, <2>1, QuietStep DEF Accept, RelistenInv, TypeOK, Places, slotVars
<1> QED
  BY <1>1, <1>2, <1>3, <1>4, <1>5

(***************************************************************************)
(* libuv's calls.                                                          *)
(***************************************************************************)
\* The alloc callback is called: on a stream the data moves to the local
\* variable, on a datagram socket it stays.
LEMMA AllocCbStep ==
  ASSUME RelistenInv, NEW h \in Streams, AllocCb(h) \/ RecvAllocCb(h)
  PROVE  RelistenInv' /\ (CountExact => CountExact')
<1> DEFINE d == data[h]
<1>1. /\ frame = NoFrame /\ phase[h] = "reading" /\ d \in Slots /\ kind[d] = "read" /\ d # None
      /\ count' = [count EXCEPT ![d].alloc = count[d].alloc + 1]
      /\ rc' = [rc EXCEPT ![h] = rc[h] + 1]
      /\ frame' = [what |-> "alloc", on |-> h, slot |-> d, param |-> 1]
      /\ UNCHANGED <<phase, waiting, user, kind>>
      /\ data' = IF h \in Datagrams THEN data ELSE [data EXCEPT ![h] = None]
  BY DEF AllocCb, RecvAllocCb, CallAlloc, RelistenInv, TypeOK, CallableData, NoFrame
<1> HIDE DEF d
<1>2. count[d] \in Counts /\ count[d].alloc + 1 \in Int
  BY <1>1 DEF RelistenInv, TypeOK, Counts
<1>3. count' = [count EXCEPT ![d] =
                  [object |-> count[d].object, alloc |-> count[d].alloc + 1, read |-> count[d].read]]
  <2>1. count \in [Slots -> Counts] /\ d \in Slots
    BY <1>1 DEF RelistenInv, TypeOK
  <2>2. [count EXCEPT ![d].alloc = count[d].alloc + 1] = [count EXCEPT ![d] =
                  [object |-> count[d].object, alloc |-> count[d].alloc + 1, read |-> count[d].read]]
    BY <1>2, <2>1, AllocCounted
  <2> QED
    BY <1>1, <2>2
<1>4. TypeOK'
  BY <1>1, <1>2, <1>3 DEF RelistenInv, TypeOK, Counts
<1>5. \A g \in Streams : data[g] = d <=> g = h
  BY <1>1 DEF RelistenInv, TypeOK, Places, d
<1>6. Places'
  <2>1. /\ frame'.what = "alloc" /\ frame'.on = h /\ frame'.slot = d /\ frame'.param = 1
        /\ Away' <=> h \notin Datagrams
    BY <1>1 DEF Away
  <2>2. \A g \in Streams : data'[g] = IF h \in Datagrams \/ g # h THEN data[g] ELSE None
    BY <1>1 DEF RelistenInv, TypeOK
  <2>3. \A g, f \in Streams : data'[g] # None /\ data'[g] = data'[f] => g = f
    BY <2>2 DEF RelistenInv, Places
  <2>4. \A g \in Streams : /\ phase'[g] # "cut"
                           /\ phase'[g] \in {"none", "closed"} => data'[g] = None
                           /\ phase'[g] = "none" => user'[g] = 0 /\ frame'.on # g
    BY <1>1, <2>1, <2>2 DEF RelistenInv, Places
  <2>5. data'[h] = (IF h \in Datagrams THEN d ELSE None)
        /\ (h \notin Datagrams => \A g \in Streams : data'[g] # d)
    BY <1>1, <1>5, <2>2
  <2> QED
    BY <1>1, <2>1, <2>3, <2>4, <2>5, StreamAssumption DEF Places
<1>7. RcExact'
  BY <1>1, StreamAssumption DEF RelistenInv, TypeOK, RcExact, Linked, One, NoFrame
<1>8. CallableData'
  BY <1>1, <1>5 DEF RelistenInv, TypeOK, CallableData, NoFrame, d
<1>9. CountEnough' /\ (CountExact => CountExact')
  <2> SUFFICES ASSUME NEW e \in Slots PROVE Enough(e)' /\ (Exact(e) => Exact(e)')
    BY DEF CountExact, Exact, CountEnough, Enough
  <2>0. /\ count[e].object \in Int /\ count[e].alloc \in Int /\ count[e].read \in Int
        /\ Held(e) \in Int /\ count[e] = [object |-> count[e].object, alloc |-> count[e].alloc, read |-> count[e].read]
    BY Numbers DEF RelistenInv
  <2>1. Held(e)' = Held(e)
    <3>1. CASE h \in Datagrams
      BY <1>1, <3>1 DEF Held, Stored, Away, One, NoFrame
    <3>2. CASE h \notin Datagrams /\ e = d
      <4>1. Stored(e) /\ ~Stored(e)'
        BY <1>1, <1>5, <3>2 DEF Stored, RelistenInv, TypeOK
      <4> QED
        BY <1>1, <3>2, <4>1 DEF Held, Away, One, NoFrame
    <3>3. CASE h \notin Datagrams /\ e # d
      <4>1. Stored(e) <=> Stored(e)'
        BY <1>1, <1>5, <3>3, StreamAssumption DEF Stored, RelistenInv, TypeOK
      <4> QED
        BY <1>1, <3>3, <4>1 DEF Held, Away, One, NoFrame
    <3> QED
      BY <3>1, <3>2, <3>3
  <2>2. Enough(e) /\ frame.what = "none"
    BY <1>1 DEF RelistenInv, CountEnough, Enough, NoFrame
  <2>3. CASE e = d
    BY <1>1, <1>2, <1>3, <2>0, <2>1, <2>2, <2>3 DEF Exact, Enough, One, RelistenInv, TypeOK
  <2>4. CASE e # d
    BY <1>1, <1>3, <2>0, <2>1, <2>2, <2>4 DEF Exact, Enough, One, RelistenInv, TypeOK
  <2> QED
    BY <2>3, <2>4
<1> QED
  BY <1>4, <1>6, <1>7, <1>8, <1>9 DEF RelistenInv

\* The alloc callback returns: the data is put back where it was.
LEMMA AllocReturnsStep ==
  ASSUME RelistenInv, NEW h \in Streams, AllocReturns(h) \/ RecvAllocReturns(h)
  PROVE  RelistenInv' /\ (CountExact => CountExact')
<1> DEFINE d == frame.slot
<1>1. /\ frame.what = "alloc" /\ frame.on = h /\ d \in Slots /\ d # None /\ kind[d] = "read" /\ phase[h] = "reading"
      /\ data[h] = (IF h \in Datagrams THEN d ELSE None)
      /\ h \notin Datagrams => \A g \in Streams : data[g] # d
      /\ frame' = [what |-> "between", on |-> h, slot |-> None, param |-> 0]
      /\ UNCHANGED <<phase, waiting, user, kind>>
  BY DEF AllocReturns, RecvAllocReturns, AllocGave, RelistenInv, TypeOK, Places, Away
<1>2. DropAlloc = [count EXCEPT ![d].alloc = count[d].alloc - 1]
  BY DEF DropAlloc
<1> HIDE DEF d
<1>3. count[d] \in Counts /\ count[d].alloc - 1 \in Int
  BY <1>1 DEF RelistenInv, TypeOK, Counts
<1>4. DropAlloc = [count EXCEPT ![d] =
                  [object |-> count[d].object, alloc |-> count[d].alloc - 1, read |-> count[d].read]]
  <2>1. [count[d] EXCEPT !.alloc = count[d].alloc - 1] =
          [object |-> count[d].object, alloc |-> count[d].alloc - 1, read |-> count[d].read]
    BY <1>3 DEF Counts
  <2>2. DropAlloc = [count EXCEPT ![d] = [count[d] EXCEPT !.alloc = count[d].alloc - 1]]
    BY <1>2
  <2> QED
    BY <2>1, <2>2
<1>5. Install(h, rc[h] - frame.param, d, DropAlloc)
  <2>1. CASE h \in Datagrams
    BY <1>1, <2>1 DEF AllocReturns, RecvAllocReturns, AllocGave
  <2>2. CASE h \notin Datagrams
    <3>1. Decref(DropAlloc, data[h]) = DropAlloc
      BY <1>1, <2>2 DEF Decref
    <3> QED
      BY <1>1, <2>2, <3>1 DEF AllocReturns, RecvAllocReturns, AllocGave, d
  <2> QED
    BY <2>1, <2>2
<1>6. /\ rc' = [rc EXCEPT ![h] = rc[h] - frame.param] /\ data' = [data EXCEPT ![h] = d] /\ count' = DropAlloc
  <2>1. ~(rc[h] - frame.param <= 0)
    BY <1>1 DEF RelistenInv, TypeOK, RcExact, Linked, One
  <2> QED
    BY <1>5, <2>1 DEF Install
<1>7. TypeOK'
  BY <1>1, <1>3, <1>4, <1>6 DEF RelistenInv, TypeOK, Counts
<1>8. \A g \in Streams : data'[g] = d <=> g = h
  BY <1>1, <1>6 DEF RelistenInv, TypeOK, Places
<1>9. Places'
  BY <1>1, <1>6, <1>8, StreamAssumption DEF RelistenInv, TypeOK, Places, Away
<1>10. RcExact'
  BY <1>1, <1>6 DEF RelistenInv, TypeOK, RcExact, Linked, One
<1>11. CallableData'
  BY <1>1, <1>6, <1>8 DEF RelistenInv, TypeOK, CallableData
<1>12. CountEnough' /\ (CountExact => CountExact')
  <2> SUFFICES ASSUME NEW e \in Slots PROVE Enough(e)' /\ (Exact(e) => Exact(e)')
    BY DEF CountExact, Exact, CountEnough, Enough
  <2>0. /\ count[e].object \in Int /\ count[e].alloc \in Int /\ count[e].read \in Int
        /\ Held(e) \in Int /\ count[e] = [object |-> count[e].object, alloc |-> count[e].alloc, read |-> count[e].read]
    BY Numbers DEF RelistenInv
  <2>1. Enough(e)
    BY DEF RelistenInv, CountEnough, Enough
  <2>2. CASE e = d
    <3>1. Stored(e)' /\ Held(e) = 1
      BY <1>1, <1>6, <1>8, <2>2 DEF Stored, Held, Away, One, d
    <3>2. Held(e)' = 1
      BY <1>1, <3>1 DEF Held, Away, One
    <3> QED
      BY <1>1, <1>3, <1>4, <1>6, <2>0, <2>1, <2>2, <3>1, <3>2, StreamAssumption DEF Exact, Enough, One, RelistenInv, TypeOK, d
  <2>3. CASE e # d
    <3>1. Stored(e) <=> Stored(e)'
      BY <1>1, <1>6, <2>3, StreamAssumption DEF Stored, RelistenInv, TypeOK
    <3>2. Held(e)' = Held(e)
      BY <1>1, <2>3, <3>1, StreamAssumption DEF Held, Away, One, d
    <3> QED
      BY <1>1, <1>4, <1>6, <2>0, <2>1, <2>3, <3>2, StreamAssumption DEF Exact, Enough, One, RelistenInv, TypeOK, d
  <2> QED
    BY <2>2, <2>3
<1> QED
  BY <1>7, <1>9, <1>10, <1>11, <1>12 DEF RelistenInv

\* The read callback is called, with a reference to the read closure.
LEMMA ReadCbStep ==
  ASSUME "nothing" \notin Allowed, RelistenInv, NEW h \in Streams, ReadCb(h) \/ RecvCb(h)
  PROVE  RelistenInv' /\ (CountExact => CountExact')
<1> DEFINE d == data[h]
<1>0. PICK what \in Reads : CallRead(h, what) /\ (phase' = phase \/ phase' = [phase EXCEPT ![h] = "connected"])
  BY DEF ReadCb, RecvCb
<1>1. /\ frame.what = "between" /\ frame.on = h /\ frame.slot = None /\ frame.param = 0
      /\ phase[h] = "reading" /\ d \in Slots /\ kind[d] = "read" /\ d # None
      /\ count' = [count EXCEPT ![d].read = count[d].read + 1]
      /\ rc' = [rc EXCEPT ![h] = rc[h] + 1]
      /\ frame' = [what |-> what, on |-> h, slot |-> d, param |-> 1]
      /\ UNCHANGED <<waiting, user, data, kind>>
      /\ phase' = phase \/ phase' = [phase EXCEPT ![h] = "connected"]
  BY <1>0 DEF CallRead, RelistenInv, TypeOK, Places, CallableData
<1> HIDE DEF d
<1>2. count \in [Slots -> Counts] /\ count[d] \in Counts /\ count[d].read + 1 \in Int
  BY <1>1 DEF RelistenInv, TypeOK, Counts
<1>3. count' = [count EXCEPT ![d] =
                  [object |-> count[d].object, alloc |-> count[d].alloc, read |-> count[d].read + 1]]
  <2>1. d \in Slots
    BY <1>1
  <2>2. \A k \in Int : [count EXCEPT ![d].read = k] =
                    [count EXCEPT ![d] = [object |-> count[d].object, alloc |-> count[d].alloc, read |-> k]]
    BY <1>2, <2>1, ReadCounted
  <2> QED
    BY <1>1, <1>2, <2>2
<1>4. TypeOK'
  <2>1. count' \in [Slots -> Counts]
    BY <1>1, <1>2, <1>3 DEF Counts
  <2>2. phase' \in [Streams -> Phases]
    BY <1>1 DEF RelistenInv, TypeOK, Phases
  <2>3. frame' \in [what : {"none", "alloc", "between", "read", "chunk", "crash", "listen", "close"},
                      on : Streams \cup {None}, slot : Slots \cup {None}, param : {0, 1}]
    BY <1>1
  <2>4. rc' \in [Streams -> Int]
    BY <1>1 DEF RelistenInv, TypeOK
  <2> QED
    BY <1>1, <2>1, <2>2, <2>3, <2>4 DEF RelistenInv, TypeOK
<1>5. \A g \in Streams : phase'[g] = phase[g] \/ (g = h /\ phase'[g] = "connected")
  <2>1. phase \in [Streams -> Phases]
    BY DEF RelistenInv, TypeOK
  <2>2. CASE phase' = phase
    BY <2>2
  <2>3. CASE phase' = [phase EXCEPT ![h] = "connected"]
    BY <2>1, <2>3
  <2> QED
    BY <1>1, <2>2, <2>3
<1>6. Places'
  <2>1. \A g \in Streams : /\ phase'[g] # "cut"
                           /\ phase'[g] \in {"none", "closed"} => data'[g] = None
                           /\ phase'[g] = "none" => user'[g] = 0 /\ frame'.on # g
    BY <1>1, <1>5 DEF RelistenInv, Places
  <2>2. \A g, f \in Streams : data'[g] # None /\ data'[g] = data'[f] => g = f
    BY <1>1 DEF RelistenInv, Places
  <2>3. frame'.what \in Reads /\ frame'.slot = d /\ frame'.on = h /\ kind'[d] = "read"
    BY <1>1
  <2>4. phase'[h] # "closed" /\ h # None
    BY <1>1, <1>5, StreamAssumption
  <2> QED
    BY <1>1, <2>1, <2>2, <2>3, <2>4 DEF Places, Away
<1>7. RcExact'
  BY <1>1, <1>5 DEF RelistenInv, TypeOK, RcExact, Linked, One
<1>8. CallableData'
  BY <1>1, <1>5 DEF RelistenInv, TypeOK, CallableData
<1>9. CountEnough' /\ (CountExact => CountExact')
  <2> SUFFICES ASSUME NEW e \in Slots PROVE Enough(e)' /\ (Exact(e) => Exact(e)')
    BY DEF CountExact, Exact, CountEnough, Enough
  <2>0. /\ count[e].object \in Int /\ count[e].alloc \in Int /\ count[e].read \in Int
        /\ Held(e) \in Int /\ count[e] = [object |-> count[e].object, alloc |-> count[e].alloc, read |-> count[e].read]
    BY Numbers DEF RelistenInv
  <2>1. Held(e)' = Held(e)
    BY <1>1 DEF Held, Stored, Away, One
  <2>2. Enough(e)
    BY DEF RelistenInv, CountEnough, Enough
  <2>3. CASE e = d
    BY <1>1, <1>2, <1>3, <2>0, <2>1, <2>2, <2>3 DEF Exact, Enough, One
  <2>4. CASE e # d
    BY <1>1, <1>2, <1>3, <2>0, <2>1, <2>2, <2>4 DEF Exact, Enough, One
  <2> QED
    BY <2>3, <2>4
<1> QED
  BY <1>4, <1>6, <1>7, <1>8, <1>9 DEF RelistenInv

\* A connection is announced, with a reference to the closure of listen.
LEMMA ListenCbStep ==
  ASSUME RelistenInv, NEW h \in Streams, ListenCb(h)
  PROVE  RelistenInv' /\ (CountExact => CountExact')
<1> DEFINE d == data[h]
<1>1. /\ frame = NoFrame /\ phase[h] = "listening" /\ d \in Slots /\ kind[d] = "listen" /\ d # None
      /\ count' = [count EXCEPT ![d].object = count[d].object + 1]
      /\ rc' = [rc EXCEPT ![h] = rc[h] + 1]
      /\ frame' = [what |-> "listen", on |-> h, slot |-> d, param |-> 1]
      /\ UNCHANGED <<phase, user, data, kind>>
  BY DEF ListenCb, RelistenInv, TypeOK, CallableData, NoFrame
<1> HIDE DEF d
<1>2. count \in [Slots -> Counts] /\ count[d] \in Counts /\ count[d].object + 1 \in Int
  BY <1>1 DEF RelistenInv, TypeOK, Counts
<1>3. count' = [count EXCEPT ![d] =
                  [object |-> count[d].object + 1, alloc |-> count[d].alloc, read |-> count[d].read]]
  <2>1. d \in Slots
    BY <1>1
  <2>2. [count EXCEPT ![d].object = count[d].object + 1] = [count EXCEPT ![d] =
                  [object |-> count[d].object + 1, alloc |-> count[d].alloc, read |-> count[d].read]]
    BY <1>2, <2>1, ObjectCounted
  <2> QED
    BY <1>1, <2>2
<1>4. TypeOK'
  <2>1. count' \in [Slots -> Counts]
    BY <1>1, <1>2, <1>3 DEF Counts
  <2>2. waiting' \in [Streams -> {0, 1}]
    BY DEF ListenCb, RelistenInv, TypeOK
  <2>3. frame' \in [what : {"none", "alloc", "between", "read", "chunk", "crash", "listen", "close"},
                      on : Streams \cup {None}, slot : Slots \cup {None}, param : {0, 1}]
    BY <1>1
  <2>4. rc' \in [Streams -> Int]
    BY <1>1 DEF RelistenInv, TypeOK
  <2> QED
    BY <1>1, <2>1, <2>2, <2>3, <2>4 DEF RelistenInv, TypeOK
<1>5. frame.what = "none" /\ frame.on = None /\ frame.slot = None /\ frame.param = 0
  BY <1>1 DEF NoFrame
<1>6. Places'
  BY <1>1, StreamAssumption DEF RelistenInv, TypeOK, Places
<1>7. RcExact'
  BY <1>1, <1>5, StreamAssumption DEF RelistenInv, TypeOK, RcExact, Linked, One
<1>8. CallableData'
  BY <1>1, <1>5 DEF RelistenInv, TypeOK, CallableData
<1>9. CountEnough' /\ (CountExact => CountExact')
  <2> SUFFICES ASSUME NEW e \in Slots PROVE Enough(e)' /\ (Exact(e) => Exact(e)')
    BY DEF CountExact, Exact, CountEnough, Enough
  <2>0. /\ count[e].object \in Int /\ count[e].alloc \in Int /\ count[e].read \in Int
        /\ Held(e) \in Int /\ count[e] = [object |-> count[e].object, alloc |-> count[e].alloc, read |-> count[e].read]
    BY Numbers DEF RelistenInv
  <2>1. Enough(e) /\ Stored(e)' = Stored(e)
    BY <1>1 DEF RelistenInv, CountEnough, Enough, Stored
  <2>2. CASE e = d
    <3>1. Stored(e) /\ kind[e] # "read"
      BY <1>1, <2>2 DEF Stored, d
    <3>2. Held(e) = 1 /\ Held(e)' = 2
      BY <1>1, <1>5, <2>1, <2>2, <3>1 DEF Held, Away, One
    <3> QED
      BY <1>1, <1>2, <1>3, <1>5, <2>0, <2>1, <2>2, <3>1, <3>2 DEF Exact, Enough, One
  <2>3. CASE e # d
    <3>1. Held(e)' = Held(e)
      BY <1>1, <1>5, <2>1, <2>3, StreamAssumption DEF Held, Away, One
    <3> QED
      BY <1>1, <1>2, <1>3, <1>5, <2>0, <2>1, <2>3, <3>1, StreamAssumption DEF Exact, Enough, One
  <2> QED
    BY <2>2, <2>3
<1> QED
  BY <1>4, <1>6, <1>7, <1>8, <1>9 DEF RelistenInv

\* A close is over: the closure moves from data to the call, and the reference
\* of the loop goes.
LEMMA CloseCbStep ==
  ASSUME RelistenInv, NEW h \in Streams, CloseCb(h)
  PROVE  RelistenInv' /\ (CountExact => CountExact')
<1> DEFINE d == data[h]
<1>0. phase[h] = "closing"
  BY DEF CloseCb, RelistenInv, Places
<1>1. /\ frame = NoFrame /\ d \in Slots /\ kind[d] = "close" /\ d # None
      /\ Install(h, rc[h] - 1, None, count)
      /\ frame' = [what |-> "close", on |-> h, slot |-> d, param |-> 0]
      /\ phase' = [phase EXCEPT ![h] = "closed"]
      /\ UNCHANGED <<waiting, user, kind>>
  <2>1. phase[h] \in {"closing", "cut"}
    BY DEF CloseCb
  <2> QED
    BY <2>1 DEF CloseCb, RelistenInv, TypeOK, CallableData, NoFrame
<1>2. rc' = [rc EXCEPT ![h] = rc[h] - 1] /\ data' = [data EXCEPT ![h] = None] /\ count' = count
  BY <1>0, <1>1 DEF Install, Decref
<1>3. frame.what = "none" /\ frame.on = None /\ frame.slot = None /\ frame.param = 0
  BY <1>0, <1>1 DEF NoFrame
<1>4. \A g \in Streams : data[g] = d <=> g = h
  BY <1>0, <1>1 DEF RelistenInv, TypeOK, Places
<1> HIDE DEF d
<1>5. \A g \in Streams : data'[g] = IF g = h THEN None ELSE data[g]
  BY <1>2 DEF RelistenInv, TypeOK
<1>6. TypeOK'
  BY <1>0, <1>1, <1>2 DEF RelistenInv, TypeOK, Phases
<1>7. Places'
  <2>1. \A g \in Streams : /\ phase'[g] # "cut"
                           /\ phase'[g] \in {"none", "closed"} => data'[g] = None
                           /\ phase'[g] = "none" => user'[g] = 0 /\ frame'.on # g
    BY <1>0, <1>1, <1>5 DEF RelistenInv, TypeOK, Places
  <2>2. \A g, f \in Streams : data'[g] # None /\ data'[g] = data'[f] => g = f
    BY <1>5 DEF RelistenInv, Places
  <2>3. phase'[h] = "closed"
    BY <1>0, <1>1 DEF RelistenInv, TypeOK
  <2> QED
    BY <1>0, <1>1, <2>1, <2>2, <2>3, StreamAssumption DEF Places
<1>8. RcExact'
  BY <1>0, <1>1, <1>2, <1>3, StreamAssumption DEF RelistenInv, TypeOK, RcExact, Linked, One
<1>9. CallableData'
  BY <1>0, <1>1, <1>3, <1>5 DEF RelistenInv, TypeOK, CallableData
<1>10. CountEnough' /\ (CountExact => CountExact')
  <2> SUFFICES ASSUME NEW e \in Slots PROVE Enough(e)' /\ (Exact(e) => Exact(e)')
    BY DEF CountExact, Exact, CountEnough, Enough
  <2>0. /\ count[e].object \in Int /\ count[e].alloc \in Int /\ count[e].read \in Int
        /\ Held(e) \in Int /\ count[e] = [object |-> count[e].object, alloc |-> count[e].alloc, read |-> count[e].read]
    BY Numbers DEF RelistenInv
  <2>1. Enough(e)
    BY DEF RelistenInv, CountEnough, Enough
  <2>2. Held(e)' = Held(e)
    <3>1. CASE e = d
      <4>1. Stored(e) /\ ~Stored(e)'
        BY <1>0, <1>1, <1>4, <1>5, <3>1 DEF Stored
      <4> QED
        BY <1>0, <1>1, <1>3, <3>1, <4>1 DEF Held, Away, One
    <3>2. CASE e # d
      <4>1. Stored(e) <=> Stored(e)'
        BY <1>4, <1>5, <3>2, StreamAssumption DEF Stored
      <4> QED
        BY <1>0, <1>1, <1>3, <3>2, <4>1, StreamAssumption DEF Held, Away, One
    <3> QED
      BY <3>1, <3>2
  <2> QED
    BY <1>0, <1>1, <1>2, <1>3, <2>0, <2>1, <2>2 DEF Exact, Enough, One
<1> QED
  BY <1>6, <1>7, <1>8, <1>9, <1>10 DEF RelistenInv

\* A callback returns, dropping its closure and its parameter; data stays.
LEMMA ReturnStep ==
  ASSUME RelistenInv, NEW h \in Streams, Return(h)
  PROVE  RelistenInv' /\ (CountExact => CountExact')
<1> DEFINE d == frame.slot
<1> DEFINE c == IF frame.what \in Reads THEN [count EXCEPT ![d].read = count[d].read - 1]
                ELSE Decref(count, d)
<1>1. /\ frame.what \in {"read", "chunk", "listen", "close"} /\ frame.on = h /\ d \in Slots /\ d # None
      /\ kind[d] = IF frame.what \in Reads THEN "read" ELSE frame.what
      /\ Install(h, rc[h] - frame.param, data[h], c)
      /\ \/ frame' = NoFrame
         \/ phase[h] = "reading" /\ frame' = [what |-> "between", on |-> h, slot |-> None, param |-> 0]
      /\ UNCHANGED <<phase, waiting, user, kind>>
  BY DEF Return, InBatch, RelistenInv, TypeOK, Places
<1>2. Enough(d) /\ count[d] \in Counts /\ count \in [Slots -> Counts]
  BY <1>1 DEF RelistenInv, TypeOK, CountEnough, Enough
<1> HIDE DEF d
<1>3. c = [count EXCEPT ![d] =
             IF frame.what \in Reads
             THEN [object |-> count[d].object, alloc |-> count[d].alloc, read |-> count[d].read - 1]
             ELSE [object |-> count[d].object - 1, alloc |-> count[d].alloc, read |-> count[d].read]]
  <2>1. CASE frame.what \in Reads
    <3>1. count[d].read - 1 \in Int
      BY <1>2 DEF Counts
    <3>2. d \in Slots
      BY <1>1
    <3>3. \A k \in Int : [count EXCEPT ![d].read = k] =
                    [count EXCEPT ![d] = [object |-> count[d].object, alloc |-> count[d].alloc, read |-> k]]
      BY <1>2, <3>2, ReadCounted
    <3> QED
      BY <2>1, <3>1, <3>3
  <2>2. CASE frame.what \notin Reads
    <3>1. Decref(count, d) = [count EXCEPT ![d] =
             [object |-> count[d].object - 1,
              alloc |-> IF kind[d] = "read" /\ count[d].object = 1 THEN count[d].alloc - 1 ELSE count[d].alloc,
              read |-> IF kind[d] = "read" /\ count[d].object = 1 THEN count[d].read - 1 ELSE count[d].read]]
      BY <1>1, <1>2, DecrefOf
    <3> QED
      BY <1>1, <2>2, <3>1
  <2> QED
    BY <2>1, <2>2
<1> HIDE DEF c
<1>4. rc[h] - frame.param <= 0 => data[h] = None
  BY <1>1 DEF RelistenInv, TypeOK, Places, RcExact, Linked, One
<1>5. rc' = [rc EXCEPT ![h] = rc[h] - frame.param] /\ data' = data /\ count' = c
  <2>1. data = [data EXCEPT ![h] = data[h]]
    BY DEF RelistenInv, TypeOK
  <2>2. CASE rc[h] > 0 /\ rc[h] - frame.param <= 0
    BY <1>1, <1>4, <2>1, <2>2 DEF Install, Decref
  <2>3. CASE ~(rc[h] > 0 /\ rc[h] - frame.param <= 0)
    BY <1>1, <2>1, <2>3 DEF Install
  <2> QED
    BY <2>2, <2>3
<1>6. /\ frame'.slot = None /\ frame'.param = 0
      /\ \/ frame'.what = "none" /\ frame'.on = None /\ frame' = NoFrame
         \/ phase[h] = "reading" /\ frame'.what = "between" /\ frame'.on = h
  BY <1>1 DEF NoFrame
<1>7. TypeOK'
  <2>1. c \in [Slots -> Counts]
    BY <1>1, <1>2, <1>3 DEF Counts
  <2>2. rc' \in [Streams -> Int]
    BY <1>5 DEF RelistenInv, TypeOK
  <2> QED
    BY <1>1, <1>5, <2>1, <2>2 DEF RelistenInv, TypeOK, NoFrame
<1>8. Places'
  BY <1>1, <1>5, <1>6, StreamAssumption DEF RelistenInv, TypeOK, Places
<1>9. RcExact'
  BY <1>1, <1>5, <1>6, StreamAssumption DEF RelistenInv, TypeOK, RcExact, Linked, One
<1>10. CallableData'
  BY <1>1, <1>5, <1>6 DEF RelistenInv, TypeOK, CallableData
<1>11. CountEnough' /\ (CountExact => CountExact')
  <2> SUFFICES ASSUME NEW e \in Slots PROVE Enough(e)' /\ (Exact(e) => Exact(e)')
    BY DEF CountExact, Exact, CountEnough, Enough
  <2>0. /\ count[e].object \in Int /\ count[e].alloc \in Int /\ count[e].read \in Int
        /\ Held(e) \in Int /\ count[e] = [object |-> count[e].object, alloc |-> count[e].alloc, read |-> count[e].read]
    BY Numbers DEF RelistenInv
  <2>1. Enough(e) /\ (Stored(e)' <=> Stored(e))
    BY <1>5 DEF RelistenInv, CountEnough, Enough, Stored
  <2>2. CASE e = d /\ frame.what \in Reads
    <3>1. Held(e)' = Held(e)
      BY <1>1, <1>6, <2>1, <2>2, StreamAssumption DEF Held, Away, One
    <3> QED
      BY <1>1, <1>2, <1>3, <1>5, <1>6, <2>0, <2>1, <2>2, <3>1, StreamAssumption DEF Exact, Enough, One, d
  <2>3. CASE e = d /\ frame.what \notin Reads
    <3>1. Held(e)' = Held(e) - 1
      BY <1>1, <1>6, <2>1, <2>3, StreamAssumption DEF Held, Away, One, d
    <3> QED
      BY <1>1, <1>2, <1>3, <1>5, <1>6, <2>0, <2>1, <2>3, <3>1, StreamAssumption DEF Exact, Enough, One, d
  <2>4. CASE e # d
    <3>1. Held(e)' = Held(e)
      BY <1>1, <1>6, <2>1, <2>4, StreamAssumption DEF Held, Away, One, d
    <3> QED
      BY <1>1, <1>2, <1>3, <1>5, <1>6, <2>0, <2>1, <2>4, <3>1, StreamAssumption DEF Exact, Enough, One, d
  <2> QED
    BY <2>2, <2>3, <2>4
<1> QED
  BY <1>7, <1>8, <1>9, <1>10, <1>11 DEF RelistenInv

(***************************************************************************)
(* Every step, and what follows.                                           *)
(***************************************************************************)

LEMMA RelistenInvNext ==
  ASSUME Allowed \subseteq {"relisten"}, RelistenInv, [Next]_vars
  PROVE  RelistenInv' /\ (Allowed = {} /\ CountExact => CountExact')
<1>1. CASE UNCHANGED vars
  <2>1. RelistenInv'
    BY <1>1 DEF vars, slotVars, RelistenInv, TypeOK, Places, RcExact, CountEnough, CallableData, Linked,
                Held, Stored, Away, NoFrame, One
  <2>2. CountExact => CountExact'
    BY <1>1 DEF vars, slotVars, CountExact, Held, Stored, Away, One
  <2> QED
    BY <2>1, <2>2
<1>2. CASE Terminated
  BY <1>1, <1>2 DEF Terminated
<1>3. ASSUME NEW h \in Streams, UserStep(h)
      PROVE  RelistenInv' /\ (Allowed = {} /\ CountExact => CountExact')
  BY <1>3, ReplacingCalls, DropStep, QuietSteps DEF UserStep
<1>4. ASSUME NEW h \in Streams, LoopStep(h)
      PROVE  RelistenInv' /\ (Allowed = {} /\ CountExact => CountExact')
  BY <1>4, QuietSteps, AllocCbStep, AllocReturnsStep, ReadCbStep, ListenCbStep, CloseCbStep, ReturnStep
     DEF LoopStep
<1> QED
  BY <1>1, <1>2, <1>3, <1>4 DEF Next

\* A program that takes no liberties keeps exact counts.
LEMMA SInvNext ==
  ASSUME Allowed = {}, SInv, [Next]_vars
  PROVE  SInv'
<1>1. RelistenInv /\ CountExact
  BY ExactEnough DEF SInv
<1>2. RelistenInv' /\ CountExact'
  BY <1>1, RelistenInvNext
<1> QED
  BY <1>2 DEF RelistenInv, SInv

\* What has a place has a count, and so has a closure that runs.
LEMMA Kept ==
  ASSUME RelistenInv, NEW e \in Slots
  PROVE  /\ Stored(e) \/ (frame.slot = e /\ (frame.what \in {"listen", "close"} \/ Away))
             => count[e].object > 0
         /\ frame.slot = e /\ frame.what = "alloc" => count[e].alloc > 0
         /\ frame.slot = e /\ frame.what \in Reads => count[e].read > 0
<1>1. /\ count[e].object \in Int /\ count[e].alloc \in Int /\ count[e].read \in Int
      /\ Held(e) \in Int
  <2>1. TypeOK
    BY DEF RelistenInv
  <2> QED
    BY <2>1, Numbers
<1>2. /\ count[e].object >= Held(e)
      /\ count[e].alloc >= One(kind[e] = "read" /\ count[e].object > 0)
                           + One(frame.slot = e /\ frame.what = "alloc")
      /\ count[e].read >= One(kind[e] = "read" /\ count[e].object > 0)
                          + One(frame.slot = e /\ frame.what \in Reads)
  BY DEF RelistenInv, CountEnough
<1>3. Stored(e) \/ (frame.slot = e /\ (frame.what \in {"listen", "close"} \/ Away)) => Held(e) > 0
  BY DEF Held, One
<1>4. \A b : One(b) \in {0, 1}
  BY DEF One
<1>5. Held(e) > 0 => count[e].object > 0
  BY <1>1, <1>2
<1>6. frame.slot = e /\ frame.what = "alloc" => count[e].alloc > 0
  <2>1. frame.slot = e /\ frame.what = "alloc" =>
          One(frame.slot = e /\ frame.what = "alloc") = 1
    BY DEF One
  <2> QED
    BY <1>1, <1>2, <1>4, <2>1
<1>7. frame.slot = e /\ frame.what \in Reads => count[e].read > 0
  <2>1. frame.slot = e /\ frame.what \in Reads =>
          One(frame.slot = e /\ frame.what \in Reads) = 1
    BY DEF One
  <2> QED
    BY <1>1, <1>2, <1>4, <2>1
<1> QED
  BY <1>3, <1>5, <1>6, <1>7

\* No count is too low: every way to an object that exists is counted.
LEMMA RelistenNoDangling == RelistenInv => NoDangling
<1> SUFFICES ASSUME RelistenInv PROVE NoDangling
  OBVIOUS
<1>1. ASSUME NEW h \in Streams PROVE
        /\ Linked(h) \/ user[h] > 0 \/ (frame.on = h /\ frame.what # "close") => rc[h] > 0
        /\ data[h] # None => rc[h] > 0 /\ count[data[h]].object > 0
  <2>1. frame.on = h /\ frame.what # "close" => Linked(h)
    BY StreamAssumption DEF RelistenInv, TypeOK, Places, CallableData, Linked, NoFrame
  <2>2. data[h] # None => Linked(h)
    BY DEF RelistenInv, Places, Linked
  <2>3. Linked(h) \/ user[h] > 0 => rc[h] > 0
    BY DEF RelistenInv, TypeOK, RcExact, One
  <2>4. ASSUME data[h] # None PROVE count[data[h]].object > 0
    <3>1. data[h] \in Slots /\ Stored(data[h])
      BY <2>4 DEF RelistenInv, TypeOK, Stored
    <3> QED
      BY <3>1, Kept
  <2> QED
    BY <2>1, <2>2, <2>3, <2>4
<1>2. ASSUME frame.slot # None PROVE Running > 0
  <2>1. frame.slot \in Slots /\ frame.what \in {"alloc", "read", "chunk", "listen", "close"}
    BY <1>2 DEF RelistenInv, TypeOK, Places, NoFrame
  <2>2. frame.what = "alloc" => count[frame.slot].alloc > 0
    BY <2>1, Kept
  <2>3. frame.what \in Reads => count[frame.slot].read > 0
    BY <2>1, Kept
  <2>4. frame.what \in {"listen", "close"} => count[frame.slot].object > 0
    BY <2>1, Kept
  <2> QED
    BY <2>1, <2>2, <2>3, <2>4 DEF Running
<1>3. ASSUME frame.what = "alloc" PROVE count[frame.slot].object > 0
  <2>1. frame.slot \in Slots /\ frame.on \in Streams
    BY <1>3 DEF RelistenInv, TypeOK, Places
  <2>2. Away \/ Stored(frame.slot)
    BY <1>3, <2>1 DEF RelistenInv, Places, Stored
  <2> QED
    BY <1>3, <2>1, <2>2, Kept
<1>4. frame.what # "crash"
  BY DEF RelistenInv, Places
<1> QED
  BY <1>1, <1>2, <1>3, <1>4 DEF NoDangling

\* And an object that nothing leads to has no counts.
LEMMA SInvNoLeak == SInv => NoLeak
<1> SUFFICES ASSUME SInv PROVE NoLeak
  OBVIOUS
<1>1. \A h \in Streams :
        phase[h] = "closed" /\ user[h] = 0 /\ frame.on # h => rc[h] = 0 /\ data[h] = None
  BY DEF SInv, TypeOK, RcExact, Places, Linked, One
<1>2. ASSUME NEW d \in Slots, ~Stored(d), frame.slot # d PROVE Fresh(d)
  <2>1. count[d] \in Counts
    BY DEF SInv, TypeOK
  <2>2. count[d].object = 0 /\ count[d].alloc = 0 /\ count[d].read = 0
    BY <1>2 DEF SInv, CountExact, Held, One
  <2> QED
    BY <2>1, <2>2 DEF Counts, Fresh, Free
<1> QED
  BY <1>1, <1>2 DEF NoLeak, Stored

\* The inductive invariant: places, counts and what libuv finds in data
\* (stream.c:28-224, udp.c:228-328).
THEOREM StreamInvariant == ASSUME Allowed = {} PROVE Spec => []SInv
<1>1. Init => SInv
  BY SInvInit
<1>2. SInv /\ [Next]_vars => SInv'
  BY SInvNext
<1> QED
  BY <1>1, <1>2, PTL DEF Spec

\* Nothing leads to freed memory, nothing is left over, and libuv's next call
\* finds what it takes for granted (docs/memory.md:5-9).
THEOREM StreamMemorySafe ==
  ASSUME Allowed = {} PROVE Spec => [](NoDangling /\ NoLeak /\ CallableData)
<1>1. SInv => NoDangling /\ NoLeak /\ CallableData
  BY ExactEnough, RelistenNoDangling, SInvNoLeak DEF SInv
<1> QED
  BY <1>1, StreamInvariant, PTL

\* The inductive invariant of programs that may also listen again on a stream
\* that listens or whose listen failed (stream.c:194-205).
THEOREM RelistenInvariant ==
  ASSUME Allowed \subseteq {"relisten"} PROVE Spec => []RelistenInv
<1>1. Init => RelistenInv
  BY SInvInit, ExactEnough
<1>2. RelistenInv /\ [Next]_vars => RelistenInv'
  BY RelistenInvNext
<1> QED
  BY <1>1, <1>2, PTL DEF Spec

\* Listening again costs the first closure and no more: nothing leads to freed
\* memory, and libuv's next call finds what it takes for granted
\* (docs/memory.md:5-6).
THEOREM RelistenSafe ==
  ASSUME Allowed \subseteq {"relisten"} PROVE Spec => [](NoDangling /\ CallableData)
<1>1. RelistenInv => NoDangling /\ CallableData
  BY RelistenNoDangling DEF RelistenInv
<1> QED
  BY <1>1, RelistenInvariant, PTL

\* Who may change the callbacks of a stream.
MayReplace(h) ==
  \/ ReadStop(h) \/ CloseCb(h) \/ rc'[h] = 0
  \/ \E d \in Slots : ReadStart(h, d) \/ Listen(h, d) \/ Close(h, d)

LEMMA InstallOthers ==
  ASSUME TypeOK, NEW h \in Streams, NEW n, NEW d, NEW c, Install(h, n, d, c)
  PROVE  /\ \A g \in Streams : g # h => data'[g] = data[g]
         /\ n # 0 => data'[h] = d \/ n <= 0
         /\ rc'[h] = n
  BY DEF Install, TypeOK

\* A step that leaves the frame alone and, but for the stream it is about, data.
LEMMA SameFrame ==
  ASSUME TypeOK, frame'.what = frame.what, frame'.on = frame.on, frame'.slot = frame.slot,
         NEW g \in Streams, data'[g] = data[g]
  PROVE  Installed(g)' = Installed(g)
  BY DEF Installed

LEMMA OnlyCallsReplaceStep ==
  ASSUME RelistenInv, [Next]_vars, NEW g \in Streams
  PROVE  Installed(g)' # Installed(g) => MayReplace(g)
<1>0. TypeOK
  BY DEF RelistenInv
<1>1. CASE UNCHANGED vars
  BY <1>1 DEF vars, slotVars, Installed
<1>2. CASE Terminated
  BY <1>2 DEF Terminated, vars, slotVars, Installed
<1>3. ASSUME NEW h \in Streams, UserStep(h) PROVE Installed(g)' # Installed(g) => MayReplace(g)
  <2>1. CASE ReadStop(h) \/ \E d \in Slots : ReadStart(h, d) \/ Listen(h, d) \/ Close(h, d)
    <3>1. CASE g = h
      BY <2>1, <3>1 DEF MayReplace
    <3>2. CASE g # h
      BY <1>0, <2>1, <3>2, InstallOthers, SameFrame DEF ReadStop, ReadStart, Listen, Close, SetData
    <3> QED
      BY <3>1, <3>2
  <2>2. CASE New(h) \/ Dup(h) \/ TakeParam(h) \/ \E client \in Streams : Accept(h, client)
    <3>1. data' = data /\ (frame' = frame \/ frame' = [frame EXCEPT !.param = 0])
      BY <2>2 DEF New, Dup, TakeParam, Accept, slotVars
    <3>2. frame'.what = frame.what /\ frame'.on = frame.on /\ frame'.slot = frame.slot
      BY <1>0, <3>1 DEF TypeOK
    <3> QED
      BY <1>0, <3>1, <3>2, SameFrame
  <2>3. CASE Drop(h)
    <3>1. /\ Install(h, rc[h] - 1, data[h], count) /\ frame' = frame /\ user[h] > 0
      BY <2>3 DEF Drop, Consume
    <3>2. rc[h] - 1 >= 0
      BY <3>1 DEF RelistenInv, TypeOK, RcExact, One
    <3>3. data'[g] = data[g] \/ (g = h /\ rc'[h] = 0)
      BY <1>0, <3>1, <3>2 DEF Install, TypeOK
    <3> QED
      BY <1>0, <3>1, <3>3, SameFrame DEF MayReplace
  <2> QED
    BY <1>3, <2>1, <2>2, <2>3 DEF UserStep
<1>4. ASSUME NEW h \in Streams, LoopStep(h) PROVE Installed(g)' # Installed(g) => MayReplace(g)
  <2>1. CASE Connected(h)
    BY <1>0, <2>1, SameFrame DEF Connected, slotVars
  <2>2. CASE AllocCb(h)
    <3>1. frame.what = "none" /\ frame'.what = "alloc" /\ frame'.on = h /\ frame'.slot = data[h]
          /\ data' = [data EXCEPT ![h] = None]
      BY <2>2 DEF AllocCb, CallAlloc, NoFrame
    <3> QED
      BY <1>0, <3>1 DEF Installed, TypeOK
  <2>3. CASE AllocReturns(h)
    <3>1. /\ frame.what = "alloc" /\ frame.on = h /\ data[h] = None /\ phase[h] = "reading"
          /\ Install(h, rc[h] - frame.param, frame.slot, Decref(DropAlloc, data[h]))
          /\ frame' = [what |-> "between", on |-> h, slot |-> None, param |-> 0]
      BY <2>3 DEF AllocReturns, AllocGave, RelistenInv, Places, Away
    <3>2. ~(rc[h] - frame.param <= 0)
      BY <3>1 DEF RelistenInv, TypeOK, RcExact, Linked, One
    <3>3. data' = [data EXCEPT ![h] = frame.slot]
      BY <3>1, <3>2 DEF Install
    <3> QED
      BY <1>0, <3>1, <3>3 DEF Installed, TypeOK
  <2>4. CASE RecvAllocCb(h) \/ ReadCb(h) \/ RecvCb(h) \/ ListenCb(h)
    <3>1. data' = data /\ frame.what # "alloc" /\ frame'.slot = data[h] /\ frame'.on = h
      BY <2>4 DEF RecvAllocCb, CallAlloc, ReadCb, RecvCb, CallRead, ListenCb, NoFrame
    <3> QED
      BY <3>1 DEF Installed
  <2>5. CASE RecvAllocReturns(h)
    <3>1. /\ frame.what = "alloc" /\ frame.on = h /\ data[h] = frame.slot /\ frame.slot # None
          /\ phase[h] = "reading"
          /\ Install(h, rc[h] - frame.param, data[h], DropAlloc)
          /\ frame'.what = "between"
      BY <2>5 DEF RecvAllocReturns, AllocGave, RelistenInv, Places, Away
    <3>2. ~(rc[h] - frame.param <= 0)
      BY <3>1 DEF RelistenInv, TypeOK, RcExact, Linked, One
    <3>3. data' = data
      BY <1>0, <3>1, <3>2 DEF Install, TypeOK
    <3> QED
      BY <3>1, <3>3 DEF Installed
  <2>6. CASE CloseCb(h)
    <3>1. CASE g = h
      BY <2>6, <3>1 DEF MayReplace
    <3>2. CASE g # h
      BY <1>0, <2>6, <3>2, InstallOthers DEF CloseCb, Installed, NoFrame
    <3> QED
      BY <3>1, <3>2
  <2>7. CASE Return(h)
    <3>1. /\ frame.what # "alloc" /\ frame'.what \in {"none", "between"} /\ frame.on = h /\ frame.what # "none"
      BY <2>7 DEF Return, NoFrame
    <3>2. \A n \in Int : rc'[h] = n /\ n >= 0 => data'[g] = data[g] \/ (g = h /\ rc'[h] = 0)
      BY <1>0, <2>7 DEF Return, Install, TypeOK
    <3>3. rc'[h] = rc[h] - frame.param /\ rc[h] - frame.param \in Int /\ rc[h] - frame.param >= 0
      BY <2>7, <3>1 DEF Return, Install, RelistenInv, TypeOK, RcExact, One
    <3> QED
      BY <3>1, <3>2, <3>3 DEF Installed, MayReplace
  <2> QED
    BY <1>4, <2>1, <2>2, <2>3, <2>4, <2>5, <2>6, <2>7 DEF LoopStep
<1> QED
  BY <1>1, <1>2, <1>3, <1>4 DEF Next

\* Only a call on the stream, its end or its close callback changes its
\* callbacks (stream.c:95-173, udp.c:304-358).
THEOREM StreamCallbacks ==
  ASSUME Allowed \subseteq {"relisten"} PROVE Spec => OnlyCallsReplace
<1>1. RelistenInv /\ [Next]_vars =>
        [\A h \in Streams : Installed(h)' # Installed(h) =>
           \/ ReadStop(h) \/ CloseCb(h) \/ rc'[h] = 0
           \/ \E d \in Slots : ReadStart(h, d) \/ Listen(h, d) \/ Close(h, d)]_vars
  BY OnlyCallsReplaceStep DEF MayReplace
<1> QED
  BY <1>1, RelistenInvariant, PTL DEF Spec, OnlyCallsReplace
=============================================================================

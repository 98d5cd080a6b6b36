----------------------------- MODULE UvDirProofs -----------------------------
(***************************************************************************)
(* Proofs about UvDir for programs that wait for the answer before they    *)
(* call on a Dir again: whatever the number of requests, threads and       *)
(* entries, an array and its names are there as long as somebody reads or  *)
(* writes them, and gone when the program is told.                         *)
(***************************************************************************)
EXTENDS UvDir, SequenceTheorems, TLAPS

USE DEF Slots

\* The initial state.
LEMMA DirInvInit == Init => DirInv
<1> SUFFICES ASSUME Init PROVE DirInv
  OBVIOUS
<1>1. TypeOK
  <2>1. Chunk \in Nat /\ Entries \in Nat
    BY DirAssumption
  <2>2. slots \in [Requests -> [Slots -> 0 .. Entries]]
    BY <2>1 DEF Init, Empty
  <2>3. /\ result \in [Requests -> -1 .. Chunk] /\ asked \in [Requests -> 0 .. Chunk]
        /\ index \in [Requests -> 0 .. Chunk] /\ cursor \in 0 .. Entries
    BY <2>1 DEF Init
  <2>4. /\ op \in [Requests -> {"none", "opendir", "readdir", "closedir"}]
        /\ place \in [Requests -> {"new", "queued", "busy", "done", "cancelled", "told"}]
        /\ array \in [Requests -> {"none", "live", "freed"}]
        /\ dir \in {"none", "live", "freed", "orphan"} /\ dirents \in Requests \cup {None}
    BY DEF Init
  <2>5. open \in BOOLEAN
    BY DEF Init
  <2> QED
    BY <2>2, <2>3, <2>4, <2>5 DEF TypeOK
<1>2. OneReader /\ ArrayLives /\ OneAtATime /\ DirLives /\ Once
  BY DirAssumption DEF Init, OneReader, ArrayLives, OneAtATime, DirLives, Once, Reading, Pending
<1>3. NamesInPlace
  BY DirAssumption DEF Init, NamesInPlace, Copied, Empty
<1> QED
  BY <1>1, <1>2, <1>3 DEF DirInv

\* What the types say of one request.
LEMMA Typed ==
  ASSUME TypeOK, NEW r \in Requests
  PROVE  /\ result[r] \in Int /\ -1 <= result[r] /\ result[r] <= Chunk
         /\ asked[r] \in Nat /\ asked[r] <= Chunk
         /\ index[r] \in Nat /\ index[r] <= Chunk
         /\ slots[r] \in [Slots -> 0 .. Entries]
         /\ Chunk \in Nat /\ Entries \in Nat
         /\ cursor \in Nat /\ cursor <= Entries
<1>1. Chunk \in Nat /\ Entries \in Nat
  BY DirAssumption
<1>2. /\ result[r] \in -1 .. Chunk /\ asked[r] \in 0 .. Chunk /\ index[r] \in 0 .. Chunk
      /\ slots[r] \in [Slots -> 0 .. Entries] /\ cursor \in 0 .. Entries
  BY DEF TypeOK
<1> QED
  BY <1>1, <1>2

\* A call that asks for something new.
LEMMA OpenDirStep ==
  ASSUME DirInv, NEW r \in Requests, OpenDir(r)
  PROVE  DirInv'
<1>1. /\ place[r] = "new" /\ op' = [op EXCEPT ![r] = "opendir"]
      /\ place' = [place EXCEPT ![r] = "queued"] /\ dir = "none"
      /\ \A q \in Requests : ~Pending(q)
      /\ UNCHANGED <<result, asked, index, array, slots, dir, dirents, cursor, open, given>>
  BY DEF OpenDir, Ask, dirVars
<1>2. TypeOK'
  BY <1>1 DEF DirInv, TypeOK
<1>3. OneReader' /\ ArrayLives'
  BY <1>1 DEF DirInv, TypeOK, OneReader, ArrayLives, Reading, Pending
<1>4. NamesInPlace'
  <2> SUFFICES ASSUME NEW q \in Requests
               PROVE  /\ \A i \in Slots : slots[q][i] # 0 <=> op'[q] = "readdir" /\ i <= Copied(q)'
                      /\ Copied(q)' <= asked[q]
    BY <1>1 DEF NamesInPlace
  <2>1. Copied(q)' = Copied(q)
    BY <1>1 DEF DirInv, TypeOK, Copied
  <2>2. op'[q] = op[q] \/ (q = r /\ op'[q] = "opendir" /\ op[q] = "none")
    BY <1>1 DEF DirInv, TypeOK, Once
  <2>3. q = r => Copied(q) = 0
    BY <1>1 DEF Copied
  <2> QED
    BY <2>1, <2>2, <2>3 DEF DirInv, NamesInPlace
<1>5. OneAtATime' /\ DirLives'
  BY <1>1 DEF DirInv, TypeOK, OneAtATime, DirLives, Reading, Pending
<1>6. Once'
  BY <1>1 DEF DirInv, TypeOK, Once, DirLives, Pending
<1> QED
  BY <1>2, <1>3, <1>4, <1>5, <1>6 DEF DirInv

LEMMA ReadDirStep ==
  ASSUME ~Overlap, DirInv, NEW r \in Requests, NEW n \in 1 .. Chunk, ReadDir(r, n)
  PROVE  DirInv'
<1>1. /\ place[r] = "new" /\ op' = [op EXCEPT ![r] = "readdir"]
      /\ place' = [place EXCEPT ![r] = "queued"] /\ open
      /\ \A q \in Requests : ~Pending(q)
      /\ asked' = [asked EXCEPT ![r] = n] /\ array' = [array EXCEPT ![r] = "live"]
      /\ dirents' = r
      /\ UNCHANGED <<result, index, slots, dir, cursor, open, given>>
  BY DEF ReadDir, Ask, Usable
<1>2. TypeOK'
  <2>1. asked' \in [Requests -> 0 .. Chunk]
    BY <1>1, DirAssumption DEF DirInv, TypeOK
  <2> QED
    BY <1>1, <2>1 DEF DirInv, TypeOK
<1>3. OneReader' /\ ArrayLives'
  BY <1>1 DEF DirInv, TypeOK, OneReader, ArrayLives, Reading, Pending
<1>4. NamesInPlace'
  <2> SUFFICES ASSUME NEW q \in Requests
               PROVE  /\ \A i \in Slots : slots[q][i] # 0 <=> op'[q] = "readdir" /\ i <= Copied(q)'
                      /\ Copied(q)' <= asked'[q]
    BY <1>1 DEF NamesInPlace
  <2>1. Copied(q)' = Copied(q)
    BY <1>1 DEF DirInv, TypeOK, Copied
  <2>2. CASE q = r
    <3>1. Copied(q) = 0 /\ op[q] = "none" /\ asked'[q] = n
      BY <1>1, <2>2 DEF Copied, DirInv, Once, TypeOK
    <3> QED
      BY <2>1, <3>1, DirAssumption DEF DirInv, NamesInPlace
  <2>3. CASE q # r
    BY <1>1, <2>1, <2>3 DEF DirInv, NamesInPlace, TypeOK
  <2> QED
    BY <2>2, <2>3
<1>5. OneAtATime' /\ DirLives'
  BY <1>1 DEF DirInv, TypeOK, OneAtATime, DirLives, Reading, Pending
<1>6. Once'
  BY <1>1 DEF DirInv, TypeOK, Once, DirLives, Pending
<1> QED
  BY <1>2, <1>3, <1>4, <1>5, <1>6 DEF DirInv

LEMMA CloseDirStep ==
  ASSUME ~Overlap, DirInv, NEW r \in Requests, CloseDir(r)
  PROVE  DirInv'
<1>1. /\ place[r] = "new" /\ op' = [op EXCEPT ![r] = "closedir"]
      /\ place' = [place EXCEPT ![r] = "queued"] /\ open /\ ~open'
      /\ \A q \in Requests : ~Pending(q)
      /\ UNCHANGED <<result, asked, index, array, slots, dir, dirents, cursor, given>>
  BY DEF CloseDir, Ask, Usable, dirVars
<1>2. TypeOK'
  BY <1>1 DEF DirInv, TypeOK, CloseDir
<1>3. OneReader' /\ ArrayLives'
  BY <1>1 DEF DirInv, TypeOK, OneReader, ArrayLives, Reading, Pending
<1>4. NamesInPlace'
  <2> SUFFICES ASSUME NEW q \in Requests
               PROVE  /\ \A i \in Slots : slots[q][i] # 0 <=> op'[q] = "readdir" /\ i <= Copied(q)'
                      /\ Copied(q)' <= asked[q]
    BY <1>1 DEF NamesInPlace
  <2>1. Copied(q)' = Copied(q)
    BY <1>1 DEF DirInv, TypeOK, Copied
  <2>2. op'[q] = op[q] \/ (q = r /\ op'[q] = "closedir" /\ op[q] = "none")
    BY <1>1 DEF DirInv, TypeOK, Once
  <2> QED
    BY <2>1, <2>2 DEF DirInv, NamesInPlace
<1>5. OneAtATime' /\ DirLives'
  BY <1>1 DEF DirInv, TypeOK, OneAtATime, DirLives, Reading, Pending
<1>6. Once'
  BY <1>1 DEF DirInv, TypeOK, Once, DirLives, Pending
<1> QED
  BY <1>2, <1>3, <1>4, <1>5, <1>6 DEF DirInv

(***************************************************************************)
(* The threads of the pool.                                                *)
(***************************************************************************)

\* One request moves on and its result may be set; all else is as it was.
LEMMA MoveStep ==
  ASSUME DirInv, NEW r \in Requests, Pending(r),
         NEW p \in {"queued", "busy", "done", "cancelled"},
         place' = [place EXCEPT ![r] = p], op' = op,
         NEW n \in -1 .. Chunk, result' = [result EXCEPT ![r] = n],
         NEW e \in {"live", "freed", "none"}, dir' = e,
         op[r] # "closedir" => e = dir \/ (op[r] = "opendir" /\ n = 0 /\ p = "done" /\ e = "live"),
         op[r] = "closedir" => e = dir \/ (n = 0 /\ p = "done" /\ e = "freed"),
         op[r] = "closedir" /\ p = "done" /\ n = 0 => e = "freed",
         op[r] = "opendir" /\ p = "done" /\ n = 0 => e = "live",
         op[r] = "opendir" /\ ~(p = "done" /\ n = 0) => e = "none",
         op[r] = "closedir" /\ p \in {"queued", "busy", "cancelled"} => e = "live",
         UNCHANGED <<asked, index, array, dirents, cursor, open, given>>,
         p = "queued" => index[r] = 0, p = "cancelled" => n = -1,
         slots' \in [Requests -> [Slots -> 0 .. Entries]],
         \A q \in Requests \ {r} : slots'[q] = slots[q],
         \A i \in Slots : slots'[r][i] # 0 <=> op[r] = "readdir" /\ i <= Copied(r)',
         Copied(r)' <= asked[r]
  PROVE  DirInv'
<1>1. TypeOK'
  BY DEF DirInv, TypeOK
<1>2. \A q \in Requests : (Pending(q)' <=> Pending(q)) /\ (q # r => ~Pending(q))
  BY DEF DirInv, TypeOK, Pending, OneAtATime
<1>3. OneReader' /\ ArrayLives' /\ OneAtATime'
  BY <1>2 DEF DirInv, OneReader, ArrayLives, OneAtATime, Reading
<1>4. NamesInPlace'
  <2> SUFFICES ASSUME NEW q \in Requests
               PROVE  /\ \A i \in Slots : slots'[q][i] # 0 <=> op[q] = "readdir" /\ i <= Copied(q)'
                      /\ Copied(q)' <= asked[q]
    BY DEF NamesInPlace
  <2>1. CASE q = r
    BY <2>1
  <2>2. CASE q # r
    <3>1. Copied(q)' = Copied(q) /\ slots'[q] = slots[q]
      BY <2>2 DEF DirInv, TypeOK, Copied
    <3> QED
      BY <3>1 DEF DirInv, NamesInPlace
  <2> QED
    BY <2>1, <2>2
<1>5. DirLives'
  BY <1>2 DEF DirInv, TypeOK, DirLives, Once, Reading, Pending
<1>6. Once'
  BY <1>2 DEF DirInv, TypeOK, Once, DirLives, Pending
<1> QED
  BY <1>1, <1>3, <1>4, <1>5, <1>6 DEF DirInv

\* The steps that move a request and leave every name where it is.
LEMMA PlainSteps ==
  ASSUME DirInv, NEW r \in Requests,
         Cancel(r) \/ Take(r) \/ Opens(r) \/ Filled(r) \/ Closes(r)
  PROVE  DirInv'
<1>0. /\ result[r] \in -1 .. Chunk /\ 0 \in -1 .. Chunk /\ -1 \in -1 .. Chunk
      /\ slots \in [Requests -> [Slots -> 0 .. Entries]]
      /\ result = [result EXCEPT ![r] = result[r]]
      /\ index[r] \in Nat /\ asked[r] \in Nat
  <2>1. TypeOK
    BY DEF DirInv
  <2>2. index[r] \in Nat /\ asked[r] \in Nat /\ Chunk \in Nat
    BY <2>1, Typed
  <2>3. 0 \in -1 .. Chunk /\ -1 \in -1 .. Chunk
    BY <2>2
  <2>4. result[r] \in -1 .. Chunk /\ result = [result EXCEPT ![r] = result[r]]
    BY <2>1 DEF TypeOK
  <2> QED
    BY <2>1, <2>2, <2>3, <2>4 DEF TypeOK
<1>1. CASE Cancel(r)
  <2>1. /\ place[r] = "queued" /\ place' = [place EXCEPT ![r] = "cancelled"]
        /\ result' = [result EXCEPT ![r] = -1]
        /\ UNCHANGED <<op, asked, index, array, slots, dir, dirents, cursor, open, given>>
    BY <1>1 DEF Cancel, dirVars
  <2>2. Copied(r) = 0 /\ Copied(r)' = 0 /\ Pending(r)
    BY <2>1 DEF Copied, Pending, DirInv, TypeOK
  <2>3. dir \in {"live", "freed", "none"} /\ op[r] # "none"
        /\ (op[r] = "closedir" => dir = "live") /\ (op[r] = "opendir" => dir = "none")
    BY <2>1 DEF DirInv, TypeOK, DirLives, Once, Pending, Reading
  <2> QED
    BY <1>0, <2>1, <2>2, <2>3, MoveStep DEF DirInv, NamesInPlace
<1>2. CASE Take(r)
  <2>1. /\ place[r] = "queued" /\ place' = [place EXCEPT ![r] = "busy"] /\ result' = result
        /\ UNCHANGED <<op, asked, index, array, slots, dir, dirents, cursor, open, given>>
    BY <1>2 DEF Take, dirVars
  <2>2. Copied(r) = 0 /\ Copied(r)' = 0 /\ Pending(r)
    BY <2>1 DEF Copied, Pending, DirInv, TypeOK, Once
  <2>3. dir \in {"live", "freed", "none"} /\ op[r] # "none"
        /\ (op[r] = "closedir" => dir = "live") /\ (op[r] = "opendir" => dir = "none")
    BY <2>1 DEF DirInv, TypeOK, DirLives, Once, Pending, Reading
  <2> QED
    BY <1>0, <2>1, <2>2, <2>3, MoveStep DEF DirInv, NamesInPlace
<1>3. CASE Opens(r)
  <2>1. /\ place[r] = "busy" /\ op[r] = "opendir" /\ place' = [place EXCEPT ![r] = "done"]
        /\ UNCHANGED <<op, asked, index, array, slots, dirents, cursor, open, given>>
        /\ \/ result' = [result EXCEPT ![r] = 0] /\ dir' = "live"
           \/ result' = [result EXCEPT ![r] = -1] /\ dir' = dir
    BY <1>3 DEF Opens, Done
  <2>2. Copied(r)' = 0 /\ Pending(r) /\ dir = "none"
    BY <2>1 DEF Copied, Pending, DirInv, TypeOK, Once
  <2>3. /\ \A i \in Slots : slots'[r][i] # 0 <=> op[r] = "readdir" /\ i <= Copied(r)'
        /\ Copied(r)' <= asked[r]
        /\ slots' \in [Requests -> [Slots -> 0 .. Entries]]
        /\ \A q \in Requests \ {r} : slots'[q] = slots[q]
    BY <1>0, <2>1, <2>2 DEF DirInv, NamesInPlace
  <2>4. CASE result' = [result EXCEPT ![r] = 0] /\ dir' = "live"
    BY <1>0, <2>1, <2>2, <2>3, <2>4, MoveStep
  <2>5. CASE result' = [result EXCEPT ![r] = -1] /\ dir' = dir
    <3>1. dir' = "none" /\ -1 # 0
      BY <2>2, <2>5
    <3>2. result' = [result EXCEPT ![r] = -1] /\ op[r] = "opendir"
      BY <2>1, <2>5
    <3> QED
      BY <1>0, <2>1, <2>2, <2>3, <3>1, <3>2, MoveStep
  <2> QED
    BY <2>1, <2>4, <2>5
<1>4. CASE Filled(r)
  <2>1. /\ place[r] = "busy" /\ op[r] = "readdir" /\ place' = [place EXCEPT ![r] = "done"]
        /\ result' = [result EXCEPT ![r] = index[r]]
        /\ UNCHANGED <<op, asked, index, array, slots, dir, dirents, cursor, open, given>>
    BY <1>4 DEF Filled, Done, dirVars
  <2>2. Copied(r) = index[r] /\ Copied(r)' = index[r] /\ Pending(r) /\ dir = "live"
    BY <1>0, <2>1 DEF Copied, Pending, DirInv, TypeOK, DirLives, Reading
  <2>3. index[r] \in -1 .. Chunk
    BY DirAssumption DEF DirInv, TypeOK
  <2> QED
    BY <1>0, <2>1, <2>2, <2>3, MoveStep DEF DirInv, NamesInPlace
<1>5. CASE Closes(r)
  <2>1. /\ place[r] = "busy" /\ op[r] = "closedir" /\ place' = [place EXCEPT ![r] = "done"]
        /\ result' = [result EXCEPT ![r] = 0] /\ dir' = "freed"
        /\ UNCHANGED <<op, asked, index, array, slots, dirents, cursor, open, given>>
    BY <1>5 DEF Closes, Done
  <2>2. Copied(r)' = 0 /\ Pending(r)
    BY <2>1 DEF Copied, Pending, DirInv, TypeOK
  <2>3. /\ \A i \in Slots : slots'[r][i] # 0 <=> op[r] = "readdir" /\ i <= Copied(r)'
        /\ Copied(r)' <= asked[r]
        /\ slots' \in [Requests -> [Slots -> 0 .. Entries]]
        /\ \A q \in Requests \ {r} : slots'[q] = slots[q]
    BY <1>0, <2>1, <2>2 DEF DirInv, NamesInPlace
  <2> QED
    BY <1>0, <2>1, <2>2, <2>3, MoveStep
<1> QED
  BY <1>1, <1>2, <1>3, <1>4, <1>5

\* A thread that reads does so into its own array.
LEMMA OwnArray ==
  ASSUME DirInv, NEW r \in Requests, op[r] = "readdir", Pending(r)
  PROVE  dirents = r /\ dir = "live" /\ array[r] = "live" /\ r # None
  BY DirAssumption DEF DirInv, OneReader, DirLives, ArrayLives, Reading

\* A name is copied into the next entry.
LEMMA FillStep ==
  ASSUME DirInv, NEW r \in Requests, Fill(r)
  PROVE  DirInv'
<1>1. /\ place[r] = "busy" /\ op[r] = "readdir" /\ Pending(r)
      /\ HasNext(r) /\ cursor' = cursor + 1
      /\ slots' = [slots EXCEPT ![dirents] = [slots[dirents] EXCEPT ![index[r] + 1] = cursor + 1]]
      /\ index' = [index EXCEPT ![r] = index[r] + 1]
      /\ UNCHANGED <<op, place, result, asked, array, dir, dirents, open, given>>
  BY DEF Fill, Pending
<1>2. dirents = r
  BY <1>1, OwnArray
<1>3. index[r] < asked[r] /\ cursor < Entries /\ cursor \in Nat /\ Entries \in Nat /\ cursor <= Entries
  <2>1. TypeOK
    BY DEF DirInv
  <2>2. /\ cursor \in Nat /\ Entries \in Nat /\ cursor <= Entries
        /\ index[r] \in Nat /\ asked[r] \in Nat
    BY <2>1, Typed
  <2> QED
    BY <1>1, <1>2, <2>2 DEF HasNext
<1>4. index[r] \in Nat /\ asked[r] \in Nat /\ asked[r] <= Chunk /\ Chunk \in Nat
      /\ slots[r] \in [Slots -> 0 .. Entries] /\ slots \in [Requests -> [Slots -> 0 .. Entries]]
  <2>1. TypeOK
    BY DEF DirInv
  <2> QED
    BY <2>1, Typed DEF TypeOK
<1>5. index[r] + 1 \in Slots /\ cursor + 1 \in 1 .. Entries
  BY <1>3, <1>4
<1> DEFINE s == [slots[r] EXCEPT ![index[r] + 1] = cursor + 1]
<1>6. s \in [Slots -> 0 .. Entries] /\ \A i \in Slots : s[i] # 0 <=> i <= index[r] + 1
  <2>1. \A i \in Slots : slots[r][i] # 0 <=> i <= index[r]
    BY <1>1 DEF DirInv, NamesInPlace, Copied
  <2>2. s \in [Slots -> 0 .. Entries]
    BY <1>4, <1>5
  <2>3. \A i \in Slots : s[i] = IF i = index[r] + 1 THEN cursor + 1 ELSE slots[r][i]
    BY <1>4, <1>5
  <2> HIDE DEF s
  <2>4. ASSUME NEW i \in Slots PROVE s[i] # 0 <=> i <= index[r] + 1
    <3>1. i \in Nat
      BY <1>4
    <3>2. CASE i = index[r] + 1
      BY <1>3, <1>4, <2>3, <3>1, <3>2
    <3>3. CASE i # index[r] + 1
      BY <1>4, <2>1, <2>3, <3>1, <3>3
    <3> QED
      BY <3>2, <3>3
  <2> QED
    BY <2>2, <2>4
<1>7. slots' = [slots EXCEPT ![r] = s]
  BY <1>1, <1>2
<1> HIDE DEF s
<1>8. TypeOK'
  <2>1. slots' \in [Requests -> [Slots -> 0 .. Entries]]
    BY <1>4, <1>6, <1>7
  <2>2. index' \in [Requests -> 0 .. Chunk] /\ cursor' \in 0 .. Entries
    BY <1>1, <1>3, <1>4 DEF DirInv, TypeOK
  <2> QED
    BY <1>1, <2>1, <2>2 DEF DirInv, TypeOK
<1>9. NamesInPlace'
  <2> SUFFICES ASSUME NEW q \in Requests
               PROVE  /\ \A i \in Slots : slots'[q][i] # 0 <=> op[q] = "readdir" /\ i <= Copied(q)'
                      /\ Copied(q)' <= asked[q]
    BY <1>1 DEF NamesInPlace
  <2>1. CASE q = r
    <3>1. Copied(r)' = index[r] + 1
      BY <1>1 DEF Copied, DirInv, TypeOK
    <3>2. slots'[r] = s
      BY <1>4, <1>7
    <3>3. \A i \in Slots : slots'[r][i] # 0 <=> i <= Copied(r)'
      BY <1>6, <3>1, <3>2
    <3>4. Copied(r)' <= asked[r]
      BY <1>3, <1>4, <3>1
    <3> QED
      BY <1>1, <2>1, <3>3, <3>4
  <2>2. CASE q # r
    <3>1. Copied(q)' = Copied(q) /\ slots'[q] = slots[q]
      BY <1>1, <1>4, <1>7, <2>2 DEF DirInv, TypeOK, Copied
    <3> QED
      BY <3>1 DEF DirInv, NamesInPlace
  <2> QED
    BY <2>1, <2>2
<1>10. OneReader' /\ ArrayLives' /\ OneAtATime' /\ DirLives'
  BY <1>1 DEF DirInv, OneReader, ArrayLives, OneAtATime, DirLives, Reading, Pending
<1>11. Once'
  BY <1>1 DEF DirInv, TypeOK, Once, Pending
<1> QED
  BY <1>8, <1>9, <1>10, <1>11 DEF DirInv

\* The names that were copied go, with an error.
LEMMA FillFailsStep ==
  ASSUME DirInv, NEW r \in Requests, FillFails(r)
  PROVE  DirInv'
<1>1. /\ place[r] = "busy" /\ op[r] = "readdir" /\ Pending(r)
      /\ FreeNames(index[r])
      /\ place' = [place EXCEPT ![r] = "done"] /\ result' = [result EXCEPT ![r] = -1]
      /\ UNCHANGED <<op, asked, index, array, dir, dirents, cursor, open, given>>
  BY DEF FillFails, Done, Pending, dirVars
<1>2. dirents = r /\ dir = "live" /\ r # None
  BY <1>1, OwnArray
<1>3. slots' = [slots EXCEPT ![r] = [i \in Slots |-> IF i <= index[r] THEN 0 ELSE slots[r][i]]]
  BY <1>1, <1>2 DEF FreeNames
<1>4. \A i \in Slots : slots[r][i] # 0 <=> i <= index[r]
  BY <1>1 DEF DirInv, NamesInPlace, Copied
<1>5. /\ slots[r] \in [Slots -> 0 .. Entries] /\ slots \in [Requests -> [Slots -> 0 .. Entries]]
      /\ Entries \in Nat /\ asked[r] \in Nat /\ -1 \in -1 .. Chunk
  <2>1. TypeOK
    BY DEF DirInv
  <2>2. /\ slots[r] \in [Slots -> 0 .. Entries] /\ Entries \in Nat /\ asked[r] \in Nat
        /\ Chunk \in Nat
    BY <2>1, Typed
  <2>3. -1 \in -1 .. Chunk
    BY <2>2
  <2> QED
    BY <2>1, <2>2, <2>3 DEF TypeOK
<1>6. /\ slots' \in [Requests -> [Slots -> 0 .. Entries]]
      /\ \A q \in Requests \ {r} : slots'[q] = slots[q]
      /\ \A i \in Slots : slots'[r][i] = 0
  BY <1>3, <1>4, <1>5
<1>7. Copied(r)' = 0
  BY <1>1 DEF Copied, DirInv, TypeOK
<1>8. \A i \in Slots : slots'[r][i] # 0 <=> op[r] = "readdir" /\ i <= Copied(r)'
  BY <1>6, <1>7
<1>9. Copied(r)' <= asked[r]
  BY <1>5, <1>7
<1> QED
  BY <1>1, <1>2, <1>5, <1>6, <1>8, <1>9, MoveStep

(***************************************************************************)
(* The callbacks.                                                          *)
(***************************************************************************)

LEMMA OpenDirCbStep ==
  ASSUME DirInv, NEW r \in Requests, OpenDirCb(r)
  PROVE  DirInv'
<1>1. /\ place[r] \in {"done", "cancelled"} /\ op[r] = "opendir" /\ Pending(r)
      /\ place' = [place EXCEPT ![r] = "told"]
      /\ (open' <=> result[r] = 0) /\ open' \in BOOLEAN
      /\ dirents' = None
      /\ UNCHANGED <<op, result, asked, index, array, slots, dir, cursor, given>>
  BY DEF OpenDirCb, Told, Pending
<1>2. \A q \in Requests : (Pending(q)' <=> Pending(q) /\ q # r) /\ (q # r => ~Pending(q))
  BY <1>1 DEF DirInv, TypeOK, Pending, OneAtATime
<1>3. TypeOK'
  BY <1>1 DEF DirInv, TypeOK
<1>4. OneReader' /\ ArrayLives' /\ OneAtATime'
  BY <1>1, <1>2, DirAssumption DEF DirInv, OneReader, ArrayLives, OneAtATime, Reading
<1>5. result[r] = 0 => place[r] = "done" /\ dir = "live"
  BY <1>1 DEF DirInv, Once
<1>6. NamesInPlace'
  <2> SUFFICES ASSUME NEW q \in Requests
               PROVE  /\ \A i \in Slots : slots[q][i] # 0 <=> op[q] = "readdir" /\ i <= Copied(q)'
                      /\ Copied(q)' <= asked[q]
    BY <1>1 DEF NamesInPlace
  <2>1. CASE q = r
    <3>1. Copied(q)' = 0 /\ asked[q] \in Nat
      BY <1>1, <2>1 DEF DirInv, TypeOK, Copied
    <3> QED
      BY <1>1, <2>1, <3>1 DEF DirInv, NamesInPlace
  <2>2. CASE q # r
    <3>1. Copied(q)' = Copied(q)
      BY <1>1, <2>2 DEF DirInv, TypeOK, Copied
    <3> QED
      BY <3>1 DEF DirInv, NamesInPlace
  <2> QED
    BY <2>1, <2>2
<1>7. DirLives'
  BY <1>1, <1>2, <1>5 DEF DirInv, TypeOK, DirLives, Reading, Pending
<1>8. Once'
  BY <1>1, <1>2 DEF DirInv, TypeOK, Once, Pending
<1> QED
  BY <1>3, <1>4, <1>6, <1>7, <1>8 DEF DirInv

LEMMA ReadDirCbStep ==
  ASSUME DirInv, NEW r \in Requests, ReadDirCb(r)
  PROVE  DirInv'
<1>1. /\ place[r] \in {"done", "cancelled"} /\ op[r] = "readdir" /\ Pending(r)
      /\ place' = [place EXCEPT ![r] = "told"]
      /\ FreeNames(result[r])
      /\ dirents' = None /\ array' = [array EXCEPT ![r] = "freed"]
      /\ UNCHANGED <<op, result, asked, index, dir, cursor, open>>
  BY DEF ReadDirCb, Told, Pending
<1>2. \A q \in Requests : (Pending(q)' <=> Pending(q) /\ q # r) /\ (q # r => ~Pending(q))
  BY <1>1 DEF DirInv, TypeOK, Pending, OneAtATime
<1>3. dirents = r /\ r # None
  BY <1>1, OwnArray
<1>4. slots' = [slots EXCEPT ![r] = [i \in Slots |-> IF i <= result[r] THEN 0 ELSE slots[r][i]]]
  BY <1>1, <1>3 DEF FreeNames
<1>5. /\ slots[r] \in [Slots -> 0 .. Entries] /\ slots \in [Requests -> [Slots -> 0 .. Entries]]
      /\ Entries \in Nat /\ asked[r] \in Nat /\ result[r] \in Int /\ Chunk \in Nat
  <2>1. TypeOK
    BY DEF DirInv
  <2> QED
    BY <2>1, Typed DEF TypeOK
<1>6. \A i \in Slots : slots[r][i] # 0 => i <= result[r]
  <2>1. Copied(r) = 0 \/ Copied(r) = result[r]
    BY <1>1 DEF Copied
  <2>2. \A i \in Slots : slots[r][i] # 0 => i <= Copied(r) /\ i \in Int /\ i >= 1
    BY <1>5 DEF DirInv, NamesInPlace
  <2> QED
    BY <2>1, <2>2
<1>7. /\ slots' \in [Requests -> [Slots -> 0 .. Entries]]
      /\ \A q \in Requests \ {r} : slots'[q] = slots[q]
      /\ \A i \in Slots : slots'[r][i] = 0
  BY <1>4, <1>5, <1>6
<1>8. TypeOK'
  BY <1>1, <1>7 DEF DirInv, TypeOK
<1>9. OneReader' /\ ArrayLives' /\ OneAtATime'
  BY <1>1, <1>2, DirAssumption DEF DirInv, TypeOK, OneReader, ArrayLives, OneAtATime, Reading
<1>10. NamesInPlace'
  <2> SUFFICES ASSUME NEW q \in Requests
               PROVE  /\ \A i \in Slots : slots'[q][i] # 0 <=> op[q] = "readdir" /\ i <= Copied(q)'
                      /\ Copied(q)' <= asked[q]
    BY <1>1 DEF NamesInPlace
  <2>1. CASE q = r
    <3>1. Copied(q)' = 0
      BY <1>1, <2>1 DEF DirInv, TypeOK, Copied
    <3> QED
      BY <1>5, <1>7, <2>1, <3>1
  <2>2. CASE q # r
    <3>1. Copied(q)' = Copied(q) /\ slots'[q] = slots[q]
      BY <1>1, <1>7, <2>2 DEF DirInv, TypeOK, Copied
    <3> QED
      BY <3>1 DEF DirInv, NamesInPlace
  <2> QED
    BY <2>1, <2>2
<1>11. DirLives'
  BY <1>1, <1>2 DEF DirInv, TypeOK, DirLives, Reading, Pending
<1>12. Once'
  BY <1>1, <1>2 DEF DirInv, TypeOK, Once, Pending
<1> QED
  BY <1>8, <1>9, <1>10, <1>11, <1>12 DEF DirInv

LEMMA CloseDirCbStep ==
  ASSUME DirInv, NEW r \in Requests, CloseDirCb(r)
  PROVE  DirInv'
<1>1. /\ place[r] \in {"done", "cancelled"} /\ op[r] = "closedir" /\ Pending(r)
      /\ place' = [place EXCEPT ![r] = "told"]
      /\ dir' = IF result[r] < 0 THEN "orphan" ELSE dir
      /\ UNCHANGED <<op, result, asked, index, array, slots, dirents, cursor, open>>
  BY DEF CloseDirCb, Told, Pending
<1>2. \A q \in Requests : (Pending(q)' <=> Pending(q) /\ q # r) /\ (q # r => ~Pending(q))
  BY <1>1 DEF DirInv, TypeOK, Pending, OneAtATime
<1>3. TypeOK'
  BY <1>1 DEF DirInv, TypeOK
<1>4. OneReader' /\ ArrayLives' /\ OneAtATime'
  BY <1>1, <1>2 DEF DirInv, OneReader, ArrayLives, OneAtATime, Reading
<1>5. NamesInPlace'
  <2> SUFFICES ASSUME NEW q \in Requests
               PROVE  /\ \A i \in Slots : slots[q][i] # 0 <=> op[q] = "readdir" /\ i <= Copied(q)'
                      /\ Copied(q)' <= asked[q]
    BY <1>1 DEF NamesInPlace
  <2>1. CASE q = r
    <3>1. Copied(q)' = 0 /\ asked[q] \in Nat
      BY <1>1, <2>1 DEF DirInv, TypeOK, Copied
    <3> QED
      BY <1>1, <2>1, <3>1 DEF DirInv, NamesInPlace
  <2>2. CASE q # r
    <3>1. Copied(q)' = Copied(q)
      BY <1>1, <2>2 DEF DirInv, TypeOK, Copied
    <3> QED
      BY <3>1 DEF DirInv, NamesInPlace
  <2> QED
    BY <2>1, <2>2
<1>6. DirLives'
  BY <1>1, <1>2 DEF DirInv, TypeOK, DirLives, Once, Reading, Pending
<1>7. Once'
  BY <1>1, <1>2 DEF DirInv, TypeOK, Once, Pending
<1> QED
  BY <1>3, <1>4, <1>5, <1>6, <1>7 DEF DirInv

(***************************************************************************)
(* Every step, and what follows.                                           *)
(***************************************************************************)

LEMMA DirInvNext ==
  ASSUME ~Overlap, DirInv, [Next]_vars
  PROVE  DirInv'
<1>1. CASE UNCHANGED vars
  BY <1>1 DEF vars, reqVars, dirVars, DirInv, TypeOK, OneReader, ArrayLives, NamesInPlace, OneAtATime,
              DirLives, Once, Reading, Pending, Copied
<1>2. CASE Terminated
  BY <1>1, <1>2 DEF Terminated
<1>3. ASSUME NEW r \in Requests, UserStep(r) PROVE DirInv'
  BY <1>3, OpenDirStep, CloseDirStep, ReadDirStep, PlainSteps DEF UserStep
<1>4. ASSUME NEW r \in Requests, ThreadStep(r) \/ LoopStep(r) PROVE DirInv'
  BY <1>4, PlainSteps, FillStep, FillFailsStep, OpenDirCbStep, ReadDirCbStep, CloseDirCbStep
     DEF ThreadStep, LoopStep
<1> QED
  BY <1>1, <1>2, <1>3, <1>4 DEF Next

\* What a thread or a callback reaches through the Dir is there.
LEMMA DirInvNoDangling == DirInv => NoDangling
<1> SUFFICES ASSUME DirInv PROVE NoDangling
  OBVIOUS
<1>1. dirents # None => array[dirents] = "live"
  BY DEF DirInv, TypeOK, OneReader, ArrayLives
<1>2. \A r \in Requests :
        /\ op[r] \in {"readdir", "closedir"} /\ place[r] \in {"queued", "busy"} => dir = "live"
        /\ Reading(r) => dir = "live"
  BY DEF DirInv, DirLives, Reading, Pending
<1>3. OwnNames
  <2> SUFFICES ASSUME NEW r \in Requests, Reading(r), place[r] = "done",
                      NEW i \in Slots, i <= result[r]
               PROVE  slots[r][i] # 0
    BY DEF OwnNames
  <2>1. i \in Nat /\ i >= 1 /\ result[r] \in Int
    BY DirAssumption DEF DirInv, TypeOK
  <2>2. Copied(r) = result[r] /\ op[r] = "readdir"
    BY <2>1 DEF Copied, Reading
  <2> QED
    BY <2>1, <2>2 DEF DirInv, NamesInPlace
<1> QED
  BY <1>1, <1>2, <1>3 DEF NoDangling

\* A request that was told has left nothing.
LEMMA DirInvNoLeak == DirInv => NoLeak
<1> SUFFICES ASSUME DirInv, NEW r \in Requests, place[r] = "told"
             PROVE  /\ array[r] # "live" /\ slots[r] = Empty
                    /\ op[r] = "closedir" /\ result[r] = 0 => dir = "freed"
  BY DEF NoLeak
<1>1. array[r] # "live"
  BY DEF DirInv, ArrayLives, Reading, Pending
<1>2. slots[r] = Empty
  <2>1. slots[r] \in [Slots -> 0 .. Entries] /\ Copied(r) = 0
    BY DEF DirInv, TypeOK, Copied
  <2>2. \A i \in Slots : slots[r][i] = 0
    BY <2>1, DirAssumption DEF DirInv, NamesInPlace
  <2> QED
    BY <2>1, <2>2 DEF Empty
<1>3. op[r] = "closedir" /\ result[r] = 0 => dir = "freed"
  BY DEF DirInv, Once
<1> QED
  BY <1>1, <1>2, <1>3

(***************************************************************************)
(* The order of the entries.                                               *)
(***************************************************************************)

LEMMA InOrderInit == Init => InOrder
<1> SUFFICES ASSUME Init PROVE InOrder
  OBVIOUS
<1>1. given = <<>> /\ given \in Seq(1 .. Entries)
  BY DEF Init
<1>2. DOMAIN given = {}
  BY <1>1
<1>3. \A r \in Requests : ~Reading(r)
  BY DEF Init, Reading, Pending
<1> QED
  BY <1>1, <1>2, <1>3 DEF InOrder

\* What the types say of one readdir.
LEMMA ReaderTyped ==
  ASSUME DirInv, NEW r \in Requests
  PROVE  /\ Copied(r) \in Nat /\ Copied(r) <= Chunk /\ Copied(r) <= asked[r]
         /\ cursor \in Nat /\ cursor <= Entries /\ Entries \in Nat /\ Chunk \in Nat
         /\ asked[r] \in Nat /\ index[r] \in Nat /\ result[r] \in Int
<1>1. TypeOK /\ NamesInPlace
  BY DEF DirInv
<1>2. /\ result[r] \in Int /\ index[r] \in Nat /\ asked[r] \in Nat /\ asked[r] <= Chunk
      /\ Chunk \in Nat /\ Entries \in Nat
  BY <1>1, Typed
<1>3. Copied(r) \in Nat
  BY <1>2 DEF Copied
<1>4. Copied(r) <= asked[r]
  BY <1>1 DEF NamesInPlace
<1>5. cursor \in Nat /\ cursor <= Entries
  BY <1>1, <1>2 DEF TypeOK
<1> QED
  BY <1>2, <1>3, <1>4, <1>5

\* What was given are entries.
LEMMA GivenTyped ==
  ASSUME InOrder
  PROVE  /\ given \in Seq(1 .. Entries) /\ DOMAIN given = 1 .. Len(given) /\ Len(given) \in Nat
         /\ \A i \in DOMAIN given : given[i] \in 1 .. Entries
<1>1. given \in Seq(1 .. Entries)
  BY DEF InOrder
<1> QED
  BY <1>1, LenProperties, ElementOfSeq

\* A reader is left alone, or has no names yet or no more.
Undisturbed(r) ==
  /\ \/ Reading(r) /\ asked'[r] = asked[r] /\ Copied(r)' = Copied(r) /\ slots'[r] = slots[r]
     \/ Copied(r)' = 0 /\ asked'[r] > 0
  /\ place'[r] = "done" /\ result'[r] = 0 =>
       cursor = Entries \/ (Reading(r) /\ place[r] = "done" /\ result[r] = 0)

LEMMA OrderKept ==
  ASSUME DirInv, InOrder, UNCHANGED <<given, cursor>>,
         \A r \in Requests : Reading(r)' => Undisturbed(r)
  PROVE  InOrder'
<1> SUFFICES ASSUME NEW r \in Requests, Reading(r)'
             PROVE  /\ asked'[r] > 0 /\ Copied(r)' <= cursor
                    /\ \A i \in 1 .. Copied(r)' : slots'[r][i] = cursor - Copied(r)' + i
                    /\ \A i \in DOMAIN given : given[i] <= cursor - Copied(r)'
                    /\ place'[r] = "done" /\ result'[r] = 0 => cursor = Entries
  BY DEF InOrder
<1>a. Undisturbed(r) /\ cursor \in Nat
  BY ReaderTyped
<1>1. place'[r] = "done" /\ result'[r] = 0 => cursor = Entries
  BY <1>a DEF Undisturbed, InOrder
<1>2. CASE Reading(r) /\ asked'[r] = asked[r] /\ Copied(r)' = Copied(r) /\ slots'[r] = slots[r]
  BY <1>1, <1>2 DEF InOrder
<1>3. CASE Copied(r)' = 0 /\ asked'[r] > 0
  <2>1. \A i \in DOMAIN given : given[i] <= cursor /\ given[i] \in 1 .. Entries
    BY GivenTyped DEF InOrder
  <2> QED
    BY <1>a, <1>1, <1>3, <2>1
<1> QED
  BY <1>a, <1>2, <1>3 DEF Undisturbed

\* The calls of the program: nobody reads when they come.
LEMMA OrderUserSteps ==
  ASSUME ~Overlap, DirInv, InOrder, NEW r \in Requests, UserStep(r)
  PROVE  InOrder'
<1>1. UNCHANGED <<given, cursor>>
  BY DEF UserStep, OpenDir, CloseDir, Cancel, ReadDir, dirVars
<1>2. CASE OpenDir(r) \/ CloseDir(r)
  <2>1. /\ \A q \in Requests : ~Pending(q)
        /\ \E o \in {"opendir", "closedir"} : op' = [op EXCEPT ![r] = o]
        /\ place' = [place EXCEPT ![r] = "queued"]
    BY <1>2 DEF OpenDir, CloseDir, Ask, Usable
  <2>2. \A q \in Requests : ~Reading(q)'
    BY <2>1 DEF DirInv, TypeOK, Reading, Pending
  <2> QED
    BY <1>1, <2>2, OrderKept
<1>3. CASE Cancel(r)
  <2>1. /\ place[r] = "queued" /\ place' = [place EXCEPT ![r] = "cancelled"]
        /\ result' = [result EXCEPT ![r] = -1]
        /\ UNCHANGED <<op, asked, index, slots>>
    BY <1>3 DEF Cancel
  <2>2. ASSUME NEW q \in Requests, Reading(q)' PROVE Undisturbed(q)
    <3>1. Reading(q)
      BY <2>1, <2>2 DEF DirInv, TypeOK, Reading, Pending
    <3>2. Copied(q)' = Copied(q)
      BY <2>1 DEF DirInv, TypeOK, Copied
    <3>3. place'[q] = "done" /\ result'[q] = 0 => place[q] = "done" /\ result[q] = 0
      BY <2>1 DEF DirInv, TypeOK
    <3> QED
      BY <2>1, <3>1, <3>2, <3>3 DEF Undisturbed
  <2> QED
    BY <1>1, <2>2, OrderKept
<1>4. ASSUME NEW n \in 1 .. Chunk, ReadDir(r, n) PROVE InOrder'
  <2>1. /\ \A q \in Requests : ~Pending(q)
        /\ place' = [place EXCEPT ![r] = "queued"]
        /\ asked' = [asked EXCEPT ![r] = n]
    BY <1>4 DEF ReadDir, Ask, Usable
  <2>2. ASSUME NEW q \in Requests, Reading(q)' PROVE Undisturbed(q)
    <3>1. q = r
      BY <2>1, <2>2 DEF DirInv, TypeOK, Reading, Pending
    <3>2. place'[q] = "queued" /\ asked'[q] = n /\ n > 0
      BY <2>1, <3>1, DirAssumption DEF DirInv, TypeOK
    <3>3. Copied(q)' = 0
      BY <3>2 DEF Copied
    <3> QED
      BY <3>2, <3>3 DEF Undisturbed
  <2> QED
    BY <1>1, <2>2, OrderKept
<1> QED
  BY <1>2, <1>3, <1>4 DEF UserStep

\* The steps of a thread that give nobody a name.
LEMMA OrderThreadSteps ==
  ASSUME DirInv, InOrder, NEW r \in Requests,
         Take(r) \/ Opens(r) \/ Filled(r) \/ FillFails(r) \/ Closes(r)
  PROVE  InOrder'
<1>1. /\ UNCHANGED <<given, cursor, op, asked, index>>
      /\ Pending(r)
  BY DEF Take, Opens, Filled, FillFails, Closes, dirVars, Pending
<1>2. \A q \in Requests : Reading(q) => q = r
  BY <1>1 DEF DirInv, OneAtATime, Reading
<1>3. CASE Take(r)
  <2>1. /\ place[r] = "queued" /\ place' = [place EXCEPT ![r] = "busy"] /\ UNCHANGED <<result, slots>>
    BY <1>3 DEF Take
  <2>2. ASSUME NEW q \in Requests, Reading(q)' PROVE Undisturbed(q)
    <3>1. Reading(q) /\ q = r
      BY <1>1, <1>2, <2>1, <2>2 DEF DirInv, TypeOK, Reading, Pending
    <3>2. Copied(q) = 0 /\ Copied(q)' = 0 /\ place'[q] = "busy"
      BY <1>1, <2>1, <3>1 DEF DirInv, TypeOK, Once, Copied
    <3> QED
      BY <1>1, <2>1, <3>1, <3>2 DEF Undisturbed
  <2> QED
    BY <1>1, <2>2, OrderKept
<1>4. CASE Opens(r) \/ Closes(r)
  <2>1. op[r] \in {"opendir", "closedir"} /\ place' = [place EXCEPT ![r] = "done"]
    BY <1>4 DEF Opens, Closes, Done
  <2>2. \A q \in Requests : ~Reading(q)'
    BY <1>1, <1>2, <2>1 DEF DirInv, TypeOK, Reading, Pending
  <2> QED
    BY <1>1, <2>2, OrderKept
<1>5. CASE Filled(r)
  <2>1. /\ place[r] = "busy" /\ op[r] = "readdir" /\ place' = [place EXCEPT ![r] = "done"]
        /\ result' = [result EXCEPT ![r] = index[r]] /\ ~HasNext(r) /\ UNCHANGED slots
    BY <1>5 DEF Filled, Done
  <2>2. ASSUME NEW q \in Requests, Reading(q)' PROVE Undisturbed(q)
    <3>1. Reading(q) /\ q = r
      BY <1>1, <1>2, <2>1, <2>2 DEF DirInv, TypeOK, Reading, Pending
    <3>2. index[r] \in Nat /\ cursor \in Nat /\ Entries \in Nat /\ cursor <= Entries
      BY ReaderTyped
    <3>3. Copied(q) = index[r] /\ place'[q] = "done" /\ result'[q] = index[r]
      BY <2>1, <3>1 DEF DirInv, TypeOK, Copied
    <3>4. Copied(q)' = Copied(q)
      BY <3>2, <3>3 DEF Copied
    <3>5. index[r] = 0 => cursor = Entries
      <4>1. dirents = r /\ r # None
        BY <1>1, <2>1, OwnArray
      <4>2. asked[r] > 0
        BY <3>1 DEF InOrder
      <4> QED
        BY <2>1, <3>2, <4>1, <4>2 DEF HasNext
    <3> QED
      BY <1>1, <2>1, <3>1, <3>3, <3>4, <3>5 DEF Undisturbed
  <2> QED
    BY <1>1, <2>2, OrderKept
<1>6. CASE FillFails(r)
  <2>1. /\ place[r] = "busy" /\ op[r] = "readdir" /\ place' = [place EXCEPT ![r] = "done"]
        /\ result' = [result EXCEPT ![r] = -1]
    BY <1>6 DEF FillFails, Done
  <2>2. ASSUME NEW q \in Requests, Reading(q)' PROVE Undisturbed(q)
    <3>1. Reading(q) /\ q = r
      BY <1>1, <1>2, <2>1, <2>2 DEF DirInv, TypeOK, Reading, Pending
    <3>2. result'[q] = -1 /\ place'[q] = "done"
      BY <2>1, <3>1 DEF DirInv, TypeOK
    <3>3. Copied(q)' = 0
      BY <3>2 DEF Copied
    <3>4. asked[q] > 0
      BY <3>1 DEF InOrder
    <3> QED
      BY <1>1, <3>2, <3>3, <3>4 DEF Undisturbed
  <2> QED
    BY <1>1, <2>2, OrderKept
<1> QED
  BY <1>3, <1>4, <1>5, <1>6

\* The thread takes the next entry.
LEMMA OrderFill ==
  ASSUME DirInv, InOrder, NEW r \in Requests, Fill(r)
  PROVE  InOrder'
<1>1. /\ place[r] = "busy" /\ op[r] = "readdir" /\ Pending(r) /\ Reading(r)
      /\ HasNext(r) /\ cursor' = cursor + 1
      /\ slots' = [slots EXCEPT ![dirents] = [slots[dirents] EXCEPT ![index[r] + 1] = cursor + 1]]
      /\ index' = [index EXCEPT ![r] = index[r] + 1]
      /\ UNCHANGED <<op, place, result, asked, given>>
  BY DEF Fill, Pending, Reading
<1>2. dirents = r
  BY <1>1, OwnArray
<1>3. /\ index[r] \in Nat /\ cursor \in Nat /\ Copied(r) = index[r] /\ index[r] < asked[r]
      /\ asked[r] \in Nat /\ asked[r] <= Chunk /\ Chunk \in Nat
      /\ slots[r] \in [1 .. Chunk -> 0 .. Entries]
  BY <1>1, <1>2, ReaderTyped, Typed DEF HasNext, Copied, DirInv, Slots
<1>4. Copied(r)' = index[r] + 1
  BY <1>1 DEF Copied, DirInv, TypeOK
<1>5. slots'[r] = [slots[r] EXCEPT ![index[r] + 1] = cursor + 1]
  BY <1>1, <1>2 DEF DirInv, TypeOK
<1>6. \A q \in Requests : Reading(q)' => q = r
  BY <1>1 DEF DirInv, OneAtATime, Reading, Pending
<1>7. /\ asked[r] > 0 /\ index[r] <= cursor
      /\ \A i \in 1 .. index[r] : slots[r][i] = cursor - index[r] + i
      /\ \A i \in DOMAIN given : given[i] <= cursor - index[r]
      /\ \A i \in DOMAIN given : given[i] \in 1 .. Entries
  BY <1>1, <1>3, GivenTyped DEF InOrder
<1>8. \A i \in 1 .. index[r] + 1 : slots'[r][i] = (cursor + 1) - (index[r] + 1) + i
  <2> SUFFICES ASSUME NEW i \in 1 .. index[r] + 1
               PROVE  slots'[r][i] = (cursor + 1) - (index[r] + 1) + i
    OBVIOUS
  <2> DEFINE n == index[r]
  <2>3. n \in Int /\ cursor \in Int /\ i \in Int
    BY <1>3
  <2> HIDE DEF n
  <2>4. (cursor + 1) - (n + 1) + i = cursor - n + i
    BY <2>3
  <2>0. /\ index[r] \in Int /\ cursor \in Int /\ i \in Int
        /\ (cursor + 1) - (index[r] + 1) + i = cursor - index[r] + i
    BY <2>3, <2>4 DEF n
  <2>1. CASE i = index[r] + 1
    <3>1. slots'[r][i] = cursor + 1
      BY <1>3, <1>5, <2>1
    <3>2. cursor + 1 = cursor - index[r] + i
      BY <2>0, <2>1
    <3> QED
      BY <2>0, <3>1, <3>2
  <2>2. CASE i # index[r] + 1
    <3>1. i \in 1 .. index[r] /\ i \in 1 .. Chunk
      BY <1>3, <2>2
    <3>2. slots'[r][i] = slots[r][i]
      BY <1>3, <1>5, <2>2, <3>1
    <3>3. slots[r][i] = cursor - index[r] + i
      BY <1>7, <3>1
    <3> QED
      BY <2>0, <3>2, <3>3
  <2> QED
    BY <2>1, <2>2
<1>9. \A i \in DOMAIN given : given[i] <= (cursor + 1) - (index[r] + 1) /\ given[i] <= cursor + 1
  BY <1>3, <1>7
<1>10. given \in Seq(1 .. Entries)
  BY DEF InOrder
<1>11. index[r] + 1 <= cursor + 1 /\ place'[r] # "done"
  BY <1>1, <1>3, <1>7
<1>12. ASSUME NEW q \in Requests, Reading(q)'
       PROVE  /\ asked'[q] > 0 /\ Copied(q)' <= cursor'
              /\ \A i \in 1 .. Copied(q)' : slots'[q][i] = cursor' - Copied(q)' + i
              /\ \A i \in DOMAIN given' : given'[i] <= cursor' - Copied(q)'
              /\ place'[q] = "done" /\ result'[q] = 0 => cursor' = Entries
  <2>1. q = r
    BY <1>6, <1>12
  <2>2. asked'[r] > 0 /\ Copied(r)' <= cursor'
    BY <1>1, <1>4, <1>7, <1>11
  <2>0. cursor' = cursor + 1 /\ Copied(r)' = index[r] + 1 /\ given' = given
    BY <1>1, <1>4
  <2>3. ASSUME NEW i \in 1 .. Copied(r)' PROVE slots'[r][i] = cursor' - Copied(r)' + i
    <3>1. i \in 1 .. index[r] + 1
      BY <2>0
    <3>2. slots'[r][i] = (cursor + 1) - (index[r] + 1) + i
      BY <1>8, <3>1
    <3>3. cursor' - Copied(r)' + i = (cursor + 1) - (index[r] + 1) + i
      BY <2>0
    <3> QED
      BY <3>2, <3>3
  <2>4. ASSUME NEW i \in DOMAIN given' PROVE given'[i] <= cursor' - Copied(r)'
    <3>1. given'[i] = given[i] /\ i \in DOMAIN given
      BY <2>0
    <3>2. given[i] <= (cursor + 1) - (index[r] + 1)
      BY <1>9, <3>1
    <3> QED
      BY <1>3, <2>0, <3>1, <3>2
  <2>5. place'[r] = "done" /\ result'[r] = 0 => cursor' = Entries
    BY <1>11
  <2> QED
    BY <2>1, <2>2, <2>3, <2>4, <2>5
<1>13. given' \in Seq(1 .. Entries) /\ \A i \in DOMAIN given' : given'[i] <= cursor'
  BY <1>1, <1>9, <1>10
<1> QED
  BY <1>12, <1>13 DEF InOrder

\* The callback of a readdir that found something gives the program what is in
\* its array, the entries up to the cursor.
LEMMA ToldEntries ==
  ASSUME DirInv, InOrder, NEW r \in Requests, ReadDirCb(r)
  PROVE  LET n == Copied(r)
         IN  /\ given' = given \o [i \in 1 .. n |-> cursor - n + i]
             /\ [i \in 1 .. n |-> cursor - n + i] \in Seq(1 .. Entries)
             /\ n > 0 => n = result[r]
<1> DEFINE n == Copied(r)
           told == [i \in 1 .. n |-> cursor - n + i]
<1>1. /\ place[r] \in {"done", "cancelled"} /\ op[r] = "readdir" /\ Reading(r)
      /\ given' = given \o SubSeq(slots[r], 1, IF result[r] < 0 THEN 0 ELSE result[r])
  BY DEF ReadDirCb, Told, Reading, Pending
<1>2. /\ n \in Nat /\ cursor \in Nat /\ cursor <= Entries /\ Entries \in Nat /\ result[r] \in Int
      /\ Chunk \in Nat /\ n <= Chunk /\ slots[r] \in [1 .. Chunk -> 0 .. Entries]
  BY ReaderTyped, Typed DEF DirInv, Slots
<1>3. n <= cursor /\ \A i \in 1 .. n : slots[r][i] = cursor - n + i
  BY <1>1 DEF InOrder
<1>4. n = IF result[r] < 0 THEN 0 ELSE result[r]
  <2>1. place[r] = "cancelled" => result[r] = -1
    BY DEF DirInv, Once
  <2> QED
    BY <1>1, <1>2, <2>1 DEF Copied
<1> HIDE DEF n
<1>5. told \in Seq(1 .. Entries) /\ Len(told) = n
  <2>1. \A i \in 1 .. n : cursor - n + i \in 1 .. Entries
    BY <1>2, <1>3
  <2>2. told \in [1 .. n -> 1 .. Entries]
    BY <2>1
  <2> HIDE DEF told
  <2>3. told \in Seq(1 .. Entries)
    BY <1>2, <2>2
  <2> QED
    BY <1>2, <2>2, <2>3, LenProperties
<1>6. /\ SubSeq(slots[r], 1, n) \in Seq(1 .. Entries)
      /\ Len(SubSeq(slots[r], 1, n)) = n
      /\ \A i \in 1 .. n : SubSeq(slots[r], 1, n)[i] = slots[r][i]
  <2>1. \A i \in 1 .. n : slots[r][i] \in 1 .. Entries
    BY <1>2, <1>3
  <2>2. /\ SubSeq(slots[r], 1, n) \in Seq(1 .. Entries)
        /\ Len(SubSeq(slots[r], 1, n)) = IF 1 <= n THEN n - 1 + 1 ELSE 0
        /\ \A i \in 1 .. n - 1 + 1 : SubSeq(slots[r], 1, n)[i] = slots[r][1 + i - 1]
    BY <1>2, <2>1, SubSeqProperties
  <2> QED
    BY <1>2, <2>2
<1>7. SubSeq(slots[r], 1, n) = told
  <2>1. \A i \in 1 .. n : SubSeq(slots[r], 1, n)[i] = told[i]
    BY <1>3, <1>6
  <2> QED
    BY <1>5, <1>6, <2>1, SeqEqual
<1>8. n > 0 => n = result[r]
  BY <1>2, <1>4
<1> QED
  BY <1>1, <1>4, <1>5, <1>7, <1>8 DEF n

\* The callbacks: after that of a readdir nobody reads.
LEMMA OrderLoopSteps ==
  ASSUME DirInv, InOrder, NEW r \in Requests, LoopStep(r)
  PROVE  InOrder'
<1>1. /\ Pending(r) /\ place' = [place EXCEPT ![r] = "told"]
      /\ UNCHANGED <<op, result, asked, index, cursor>>
      /\ op[r] \in {"opendir", "readdir", "closedir"}
  BY DEF LoopStep, OpenDirCb, ReadDirCb, CloseDirCb, Told, Pending
<1>2. \A q \in Requests : ~Reading(q)'
  <2>1. \A q \in Requests : Pending(q) => q = r
    BY <1>1 DEF DirInv, OneAtATime
  <2> QED
    BY <1>1, <2>1 DEF DirInv, TypeOK, Reading, Pending
<1>3. CASE OpenDirCb(r) \/ CloseDirCb(r)
  <2>1. UNCHANGED given
    BY <1>3 DEF OpenDirCb, CloseDirCb
  <2> QED
    BY <1>1, <1>2, <2>1, OrderKept
<1>4. CASE ReadDirCb(r)
  <2> DEFINE n == Copied(r)
             told == [i \in 1 .. n |-> cursor - n + i]
  <2>1. given' = given \o told /\ told \in Seq(1 .. Entries)
    BY <1>4, ToldEntries
  <2>2. /\ n \in Nat /\ cursor \in Nat
        /\ given \in Seq(1 .. Entries) /\ DOMAIN given = 1 .. Len(given) /\ Len(given) \in Nat
        /\ \A i \in DOMAIN given : given[i] <= cursor
    BY ReaderTyped, GivenTyped DEF InOrder
  <2> HIDE DEF n
  <2>3. Len(told) = n /\ \A i \in 1 .. n : told[i] <= cursor
    <3>1. DOMAIN told = 1 .. n
      OBVIOUS
    <3>2. DOMAIN told = 1 .. Len(told) /\ Len(told) \in Nat
      BY <2>1, LenProperties
    <3>3. Len(told) = n
      BY <2>2, <3>1, <3>2
    <3> QED
      BY <2>2, <3>3
  <2> HIDE DEF told
  <2>4. /\ given' \in Seq(1 .. Entries) /\ Len(given') = Len(given) + n
        /\ \A i \in 1 .. Len(given) + n :
             given'[i] = IF i <= Len(given) THEN given[i] ELSE told[i - Len(given)]
    BY <2>1, <2>2, <2>3, ConcatProperties
  <2>5. DOMAIN given' = 1 .. Len(given) + n
    BY <2>4, LenProperties
  <2>6. ASSUME NEW i \in DOMAIN given' PROVE given'[i] <= cursor
    <3>1. CASE i <= Len(given)
      BY <2>2, <2>4, <2>5, <3>1
    <3>2. CASE ~(i <= Len(given))
      <4>1. i - Len(given) \in 1 .. n
        BY <2>2, <2>5, <3>2
      <4> QED
        BY <2>3, <2>4, <2>5, <3>2, <4>1
    <3> QED
      BY <3>1, <3>2
  <2> QED
    BY <1>1, <1>2, <2>4, <2>6 DEF InOrder
<1> QED
  BY <1>3, <1>4 DEF LoopStep

LEMMA DInvInit == Init => DInv
  BY DirInvInit, InOrderInit DEF DInv

LEMMA DInvNext ==
  ASSUME ~Overlap, DInv, [Next]_vars
  PROVE  DInv'
<1>1. DirInv /\ InOrder
  BY DEF DInv
<1>2. SUFFICES InOrder'
  BY <1>1, DirInvNext DEF DInv
<1>3. CASE UNCHANGED vars
  <2>1. UNCHANGED <<op, place, result, asked, index, slots>> /\ UNCHANGED <<given, cursor>>
    BY <1>3 DEF vars, reqVars, dirVars
  <2>2. ASSUME NEW r \in Requests, Reading(r)' PROVE Undisturbed(r)
    <3>1. Reading(r) /\ Copied(r)' = Copied(r)
      BY <2>1, <2>2 DEF Reading, Pending, Copied
    <3> QED
      BY <2>1, <3>1 DEF Undisturbed
  <2> QED
    BY <1>1, <2>1, <2>2, OrderKept
<1>4. CASE Terminated
  BY <1>3, <1>4 DEF Terminated
<1>5. ASSUME NEW r \in Requests, UserStep(r) PROVE InOrder'
  BY <1>1, <1>5, OrderUserSteps
<1>6. ASSUME NEW r \in Requests, ThreadStep(r) PROVE InOrder'
  BY <1>1, <1>6, OrderThreadSteps, OrderFill DEF ThreadStep
<1>7. ASSUME NEW r \in Requests, LoopStep(r) PROVE InOrder'
  BY <1>1, <1>7, OrderLoopSteps
<1> QED
  BY <1>3, <1>4, <1>5, <1>6, <1>7 DEF Next

\* While the program leaves the Dir alone between a call and its callback, one
\* request at a time is on it, and its memory and the order of its entries are
\* as DInv says, for any directory, chunk and pool.
THEOREM DirInductive == ASSUME ~Overlap PROVE Spec => []DInv
<1>1. Init => DInv
  BY DInvInit
<1>2. DInv /\ [Next]_vars => DInv'
  BY DInvNext
<1> QED
  BY <1>1, <1>2, PTL DEF Spec

\* No thread writes to and no callback reads from what was freed, and nothing
\* is left over when the program is told (docs/memory.md:5-9).
THEOREM DirMemorySafe == ASSUME ~Overlap PROVE Spec => [](NoDangling /\ NoLeak)
<1>1. DInv => NoDangling /\ NoLeak
  BY DirInvNoDangling, DirInvNoLeak DEF DInv
<1> QED
  BY <1>1, DirInductive, PTL

(***************************************************************************)
(* UvDir implements DirListing.                                            *)
(***************************************************************************)

\* With a reader, what the program has or has lost is all up to where its array
\* begins; without one, all up to the cursor.
Horizon ==
  /\ \A r \in Requests : Reading(r) =>
       /\ Skipped = (1 .. cursor - Copied(r)) \ Given
       /\ Given \subseteq 1 .. cursor - Copied(r)
  /\ (\A r \in Requests : ~Reading(r)) => Skipped = 1 .. cursor \ Given

\* Nobody but a reader has names in its array.
LEMMA NamesOfReader ==
  ASSUME DirInv, NEW q \in Requests, ~Reading(q)
  PROVE  InFlight(q) = {}
<1>1. op[q] = "readdir" => Copied(q) = 0
  BY DEF Reading, Pending, Copied
<1>2. \A i \in Slots : slots[q][i] = 0
  BY <1>1 DEF DirInv, NamesInPlace, Slots
<1> QED
  BY <1>2 DEF InFlight

\* A reader has those from where its array begins up to the cursor.
LEMMA NamesOf ==
  ASSUME DirInv, InOrder, NEW r \in Requests, Reading(r)
  PROVE  UNION {InFlight(q) : q \in Requests} = cursor - Copied(r) + 1 .. cursor
<1>1. \A q \in Requests : q # r => InFlight(q) = {}
  <2>1. \A q \in Requests : q # r => ~Reading(q)
    BY DEF DirInv, OneAtATime, Reading
  <2> QED
    BY <2>1, NamesOfReader
<1> DEFINE n == Copied(r)
<1>2. /\ n \in Nat /\ cursor \in Nat /\ Chunk \in Nat /\ n <= Chunk /\ op[r] = "readdir"
      /\ n <= cursor /\ \A i \in 1 .. n : slots[r][i] = cursor - n + i
      /\ \A i \in 1 .. Chunk : slots[r][i] # 0 <=> i <= n
  BY ReaderTyped DEF InOrder, DirInv, NamesInPlace, Slots, Reading
<1> HIDE DEF n
<1>3. InFlight(r) = cursor - n + 1 .. cursor
  <2>1. ASSUME NEW e \in InFlight(r) PROVE e \in cursor - n + 1 .. cursor
    <3>1. PICK i \in 1 .. Chunk : e = slots[r][i] /\ e # 0
      BY <2>1 DEF InFlight, Slots
    <3>2. i \in 1 .. n /\ e = cursor - n + i
      BY <1>2, <3>1
    <3> QED
      BY <1>2, <3>2
  <2>2. ASSUME NEW e \in cursor - n + 1 .. cursor PROVE e \in InFlight(r)
    <3> DEFINE i == e - (cursor - n)
    <3>1. i \in 1 .. n /\ i \in 1 .. Chunk /\ cursor - n + i = e
      BY <1>2, <2>2
    <3> HIDE DEF i
    <3>2. slots[r][i] = e /\ e # 0
      BY <1>2, <3>1
    <3> QED
      BY <3>1, <3>2 DEF InFlight, Slots
  <2> QED
    BY <2>1, <2>2
<1> QED
  BY <1>1, <1>3 DEF n

LEMMA HorizonHolds == DInv => Horizon
<1> SUFFICES ASSUME DirInv, InOrder PROVE Horizon
  BY DEF DInv
<1>1. ASSUME NEW r \in Requests, Reading(r)
      PROVE  /\ Skipped = (1 .. cursor - Copied(r)) \ Given
             /\ Given \subseteq 1 .. cursor - Copied(r)
  <2>1. /\ Copied(r) \in Nat /\ cursor \in Nat /\ Copied(r) <= cursor
        /\ \A i \in DOMAIN given : given[i] <= cursor - Copied(r) /\ given[i] \in 1 .. Entries
    BY <1>1, ReaderTyped, GivenTyped DEF InOrder
  <2>2. \A e \in Given : e \in 1 .. cursor - Copied(r)
    BY <2>1 DEF Given
  <2>3. Skipped = 1 .. cursor \ (Given \cup (cursor - Copied(r) + 1 .. cursor))
    BY <1>1, NamesOf DEF Skipped
  <2>4. \A e \in 1 .. cursor :
           e \notin cursor - Copied(r) + 1 .. cursor <=> e \in 1 .. cursor - Copied(r)
    BY <2>1
  <2>5. 1 .. cursor - Copied(r) \subseteq 1 .. cursor
    BY <2>1
  <2> QED
    BY <2>2, <2>3, <2>4, <2>5
<1>2. ASSUME \A r \in Requests : ~Reading(r) PROVE Skipped = 1 .. cursor \ Given
  <2>1. UNION {InFlight(r) : r \in Requests} = {}
    BY <1>2, NamesOfReader
  <2> QED
    BY <2>1 DEF Skipped
<1> QED
  BY <1>1, <1>2 DEF Horizon

\* What comes first of what the program neither has nor has lost.
LEMMA NextEntry ==
  ASSUME NEW k \in Nat, Skipped = (1 .. k) \ Given, Given \subseteq 1 .. k
  PROVE  Listing!IsNext(k + 1)
<1>1. Skipped \cup {given[i] : i \in DOMAIN given} = 1 .. k
  BY DEF Given
<1>2. k + 1 \notin 1 .. k /\ \A d \in 1 .. k + 1 - 1 : d \in 1 .. k
  OBVIOUS
<1> QED
  BY <1>1, <1>2 DEF Listing!IsNext

\* Whether the end was told changes with the callback of a readdir only.
LEMMA EndedKept ==
  ASSUME DirInv,
         NEW r \in Requests,
         \A q \in Requests : q # r => op'[q] = op[q] /\ place'[q] = place[q] /\ result'[q] = result[q],
         ~(op'[r] = "readdir" /\ place'[r] = "told" /\ result'[r] = 0),
         place[r] # "told"
  PROVE  Ended' = Ended
  BY DEF Ended

\* A step that leaves the names, the cursor and what was given alone, and tells
\* no readdir its end.
LEMMA QuietRefines ==
  ASSUME DirInv, NEW r \in Requests,
         \/ OpenDir(r) \/ CloseDir(r) \/ Cancel(r) \/ Take(r) \/ Opens(r) \/ Filled(r) \/ Closes(r)
         \/ OpenDirCb(r) \/ CloseDirCb(r)
         \/ \E n \in 1 .. Chunk : ReadDir(r, n)
  PROVE  UNCHANGED Listing!listingVars
<1>1. /\ slots' = slots /\ cursor' = cursor /\ given' = given
  BY DEF OpenDir, CloseDir, Cancel, Take, Opens, Filled, Closes, OpenDirCb, CloseDirCb, ReadDir, dirVars
<1>2. Skipped' = Skipped
  BY <1>1 DEF Skipped, Given, InFlight
<1>3. /\ \A q \in Requests : q # r => op'[q] = op[q] /\ place'[q] = place[q] /\ result'[q] = result[q]
      /\ ~(op'[r] = "readdir" /\ place'[r] = "told" /\ result'[r] = 0)
      /\ place[r] # "told"
  BY DEF OpenDir, CloseDir, Cancel, Take, Opens, Filled, Closes, OpenDirCb, CloseDirCb, ReadDir,
         Ask, Done, Told, DirInv, TypeOK
<1>4. Ended' = Ended
  BY <1>3, EndedKept
<1> QED
  BY <1>1, <1>2, <1>4 DEF Listing!listingVars

\* A name on its way is neither given nor lost.
LEMMA FillRefines ==
  ASSUME DInv, Horizon, Horizon', NEW r \in Requests, Fill(r)
  PROVE  UNCHANGED Listing!listingVars
<1>0. DirInv
  BY DEF DInv
<1>1. /\ place[r] = "busy" /\ op[r] = "readdir" /\ Reading(r)
      /\ cursor' = cursor + 1 /\ index' = [index EXCEPT ![r] = index[r] + 1]
      /\ op' = op /\ place' = place /\ result' = result /\ given' = given
  BY DEF Fill, Pending, Reading
<1>2. Reading(r)'
  BY <1>1 DEF Reading, Pending
<1>3. /\ Copied(r) = index[r] /\ Copied(r)' = index[r] + 1
      /\ index[r] \in Nat /\ cursor \in Nat
  BY <1>0, <1>1, ReaderTyped DEF Copied, DirInv, TypeOK
<1>4. cursor' - Copied(r)' = cursor - Copied(r)
  BY <1>1, <1>3
<1>5. Given' = Given
  BY <1>1 DEF Given
<1>6. Skipped = (1 .. cursor - Copied(r)) \ Given
  BY <1>1 DEF Horizon
<1>7. Skipped' = (1 .. cursor' - Copied(r)') \ Given'
  BY <1>2 DEF Horizon
<1>8. Skipped' = Skipped
  BY <1>4, <1>5, <1>6, <1>7
<1>9. Ended' = Ended
  BY <1>1 DEF Ended
<1> QED
  BY <1>1, <1>8, <1>9 DEF Listing!listingVars

\* A read that fails loses the names it had.
LEMMA FillFailsRefines ==
  ASSUME DInv, Horizon, Horizon', NEW r \in Requests, FillFails(r)
  PROVE  Listing!Next \/ UNCHANGED Listing!listingVars
<1>0. DirInv /\ InOrder
  BY DEF DInv
<1>1. /\ place[r] = "busy" /\ op[r] = "readdir" /\ Reading(r)
      /\ place' = [place EXCEPT ![r] = "done"] /\ result' = [result EXCEPT ![r] = -1]
      /\ op' = op /\ cursor' = cursor /\ given' = given
  BY DEF FillFails, Done, Pending, Reading, dirVars
<1>2. /\ Reading(r)' /\ place'[r] = "done" /\ result'[r] = -1
      /\ \A q \in Requests : q # r => op'[q] = op[q] /\ place'[q] = place[q] /\ result'[q] = result[q]
  BY <1>0, <1>1 DEF Reading, Pending, DirInv, TypeOK
<1> DEFINE n == index[r]
<1>3. Copied(r) = n /\ Copied(r)' = 0
  BY <1>1, <1>2 DEF Copied
<1>4. /\ n \in Nat /\ cursor \in Nat /\ Entries \in Nat /\ Chunk \in Nat
      /\ n <= cursor /\ cursor <= Entries /\ n <= Chunk
  BY <1>0, <1>1, <1>3, ReaderTyped DEF InOrder
<1>5. Given' = Given
  BY <1>1 DEF Given
<1>6. Skipped = (1 .. cursor - n) \ Given /\ Given \subseteq 1 .. cursor - n
  BY <1>1, <1>3 DEF Horizon
<1>7. Skipped' = (1 .. cursor - 0) \ Given
  BY <1>1, <1>2, <1>3, <1>5 DEF Horizon
<1>8. Ended' = Ended
  BY <1>0, <1>1, <1>2, EndedKept
<1> HIDE DEF n
<1>9. CASE n = 0
  BY <1>1, <1>4, <1>6, <1>7, <1>8, <1>9 DEF Listing!listingVars
<1>10. CASE n # 0
  <2> DEFINE e == cursor - n + 1
  <2>1. e \in 1 .. Entries /\ n \in 1 .. Chunk /\ e + n - 1 = cursor /\ e + n - 1 <= Entries
    BY <1>4, <1>10
  <2>2. Listing!IsNext(e)
    BY <1>4, <1>6, NextEntry
  <2>3. Skipped' = Skipped \cup e .. e + n - 1
    <3>1. \A d \in Int : d \in 1 .. cursor <=> d \in 1 .. cursor - n \/ d \in e .. cursor
      BY <1>4
    <3>2. \A d \in e .. cursor : d \notin 1 .. cursor - n
      BY <1>4
    <3>3. 1 .. cursor - 0 = 1 .. cursor
      BY <1>4
    <3> HIDE DEF e
    <3>4. 1 .. cursor \subseteq Int /\ 1 .. cursor - n \subseteq Int /\ e .. cursor \subseteq Int
      OBVIOUS
    <3> QED
      BY <1>6, <1>7, <2>1, <3>1, <3>2, <3>3, <3>4
  <2> HIDE DEF e
  <2>4. Listing!Lose
    BY <1>1, <1>8, <2>1, <2>2, <2>3 DEF Listing!Lose
  <2> QED
    BY <2>4 DEF Listing!Next
<1> QED
  BY <1>9, <1>10

\* The next entries appended to those that were given.
LEMMA GivenGrows ==
  ASSUME NEW n \in Nat, cursor \in Nat, n <= cursor, given \in Seq(1 .. Entries),
         NEW run \in Seq(1 .. Entries), DOMAIN run = 1 .. n,
         \A i \in 1 .. n : run[i] = cursor - n + i,
         given' = given \o run
  PROVE  Given' = Given \cup (cursor - n + 1 .. cursor)
<1> DEFINE S == 1 .. Entries
           c == cursor
           s == given
           t == given'
<1>0. /\ s \in Seq(S) /\ run \in Seq(S) /\ c \in Nat /\ n <= c /\ t = s \o run
      /\ \A i \in 1 .. n : run[i] = c - n + i
  OBVIOUS
<1> HIDE DEF S, c, s, t
<1>1. /\ run \in Seq(S) /\ Len(run) = n /\ DOMAIN s = 1 .. Len(s) /\ Len(s) \in Nat
  <2>1. DOMAIN run = 1 .. Len(run) /\ Len(run) \in Nat
    BY <1>0, LenProperties
  <2>2. DOMAIN run = 1 .. n
    OBVIOUS
  <2>3. Len(run) = n
    <3>1. n > 0 => n \in 1 .. Len(run)
      BY <2>1, <2>2
    <3>2. Len(run) > 0 => Len(run) \in 1 .. n
      BY <2>1, <2>2
    <3> QED
      BY <2>1, <3>1, <3>2
  <2> QED
    BY <1>0, <2>3, LenProperties
<1>2. \A i \in 1 .. n : run[i] = c - n + i
  BY <1>0
<1>3. /\ t \in Seq(S) /\ Len(t) = Len(s) + n
      /\ \A i \in 1 .. Len(s) + n : t[i] = IF i <= Len(s) THEN s[i] ELSE run[i - Len(s)]
  <2>1. /\ s \o run \in Seq(S) /\ Len(s \o run) = Len(s) + Len(run)
        /\ \A i \in 1 .. Len(s) + Len(run) :
             (s \o run)[i] = IF i <= Len(s) THEN s[i] ELSE run[i - Len(s)]
    BY <1>0, ConcatProperties
  <2> QED
    BY <1>0, <1>1, <2>1
<1>4. DOMAIN t = 1 .. Len(s) + n
  BY <1>3, LenProperties
<1>5. ASSUME NEW i \in DOMAIN t PROVE t[i] \in {s[j] : j \in DOMAIN s} \cup (c - n + 1 .. c)
  <2>1. CASE i <= Len(s)
    BY <1>0, <1>1, <1>3, <1>4, <2>1
  <2>2. CASE ~(i <= Len(s))
    <3>1. i - Len(s) \in 1 .. n /\ t[i] = run[i - Len(s)]
      BY <1>1, <1>3, <1>4, <2>2
    <3> DEFINE k == i - Len(s)
    <3>2. k \in 1 .. n /\ t[i] = c - n + k
      BY <1>2, <3>1
    <3> HIDE DEF k
    <3>3. c - n + k \in c - n + 1 .. c
      BY <1>0, <3>2
    <3> QED
      BY <3>2, <3>3
  <2> QED
    BY <2>1, <2>2
<1>6. ASSUME NEW i \in DOMAIN s PROVE s[i] \in {t[j] : j \in DOMAIN t}
  <2>1. i \in DOMAIN t /\ t[i] = s[i]
    BY <1>0, <1>1, <1>3, <1>4
  <2> QED
    BY <2>1
<1>7. ASSUME NEW d \in c - n + 1 .. c PROVE d \in {t[j] : j \in DOMAIN t}
  <2> DEFINE k == d - (c - n)
             j == Len(s) + k
  <2>1. k \in 1 .. n /\ c - n + k = d
    BY <1>0
  <2> HIDE DEF k
  <2>2. j \in 1 .. Len(s) + n /\ ~(j <= Len(s)) /\ j - Len(s) = k
    BY <1>1, <2>1
  <2> HIDE DEF j
  <2>3. t[j] = d
    BY <1>2, <1>3, <2>1, <2>2
  <2> QED
    BY <1>4, <2>2, <2>3
<1>8. {t[i] : i \in DOMAIN t} \subseteq {s[j] : j \in DOMAIN s} \cup (c - n + 1 .. c)
  BY <1>5
<1>9. {s[j] : j \in DOMAIN s} \subseteq {t[j] : j \in DOMAIN t}
  BY <1>6
<1>10. (c - n + 1 .. c) \subseteq {t[j] : j \in DOMAIN t}
  BY <1>7
<1> QED
  BY <1>8, <1>9, <1>10, Zenon DEF Given, s, t, c

\* The callback of a readdir gives what its array holds; a read that holds
\* nothing and did not fail tells the end.
LEMMA ReadDirCbRefines ==
  ASSUME DInv, Horizon, Horizon', NEW r \in Requests, ReadDirCb(r)
  PROVE  Listing!Next \/ UNCHANGED Listing!listingVars
<1>0. DirInv /\ InOrder
  BY DEF DInv
<1>1. /\ place[r] \in {"done", "cancelled"} /\ op[r] = "readdir" /\ Reading(r) /\ Pending(r)
      /\ place' = [place EXCEPT ![r] = "told"]
      /\ op' = op /\ result' = result /\ cursor' = cursor
  BY DEF ReadDirCb, Told, Reading, Pending
<1>2. /\ place'[r] = "told"
      /\ \A q \in Requests : q # r => op'[q] = op[q] /\ place'[q] = place[q] /\ result'[q] = result[q]
  BY <1>0, <1>1 DEF DirInv, TypeOK
<1>3. \A q \in Requests : ~Reading(q)'
  <2>1. \A q \in Requests : Pending(q) => q = r
    BY <1>0, <1>1 DEF DirInv, OneAtATime
  <2> QED
    BY <1>1, <1>2, <2>1 DEF Reading, Pending
<1> DEFINE n == Copied(r)
           told == [i \in 1 .. n |-> cursor - n + i]
<1>4. /\ n \in Nat /\ cursor \in Nat /\ Entries \in Nat /\ Chunk \in Nat
      /\ n <= cursor /\ cursor <= Entries /\ n <= Chunk
  BY <1>0, <1>1, ReaderTyped DEF InOrder
<1>5. /\ given' = given \o told /\ told \in Seq(1 .. Entries)
      /\ n > 0 => n = result[r]
      /\ given \in Seq(1 .. Entries)
  BY <1>0, ToldEntries DEF InOrder
<1>6. Skipped = (1 .. cursor - n) \ Given /\ Given \subseteq 1 .. cursor - n
  BY <1>1 DEF Horizon
<1>7. Skipped' = 1 .. cursor \ Given'
  BY <1>1, <1>3 DEF Horizon
<1>8. n = 0 /\ result[r] = 0 => cursor = Entries
  <2>1. place[r] = "cancelled" => result[r] = -1
    BY <1>0 DEF DirInv, Once
  <2> QED
    BY <1>0, <1>1, <2>1 DEF InOrder
<1> HIDE DEF n
<1>9. CASE n = 0
  <2>1. told = <<>>
    BY <1>9
  <2>2. given' = given
    BY <1>5, <2>1, ConcatEmptySeq
  <2>3. Skipped' = Skipped
    BY <1>4, <1>6, <1>7, <1>9, <2>2 DEF Given
  <2>4. CASE result[r] = 0
    <3>1. Ended' = TRUE
      BY <1>1, <1>2, <2>4 DEF Ended
    <3>2. Listing!IsNext(Entries + 1)
      <4>1. cursor - n = Entries
        BY <1>4, <1>8, <1>9, <2>4
      <4> QED
        BY <1>4, <1>6, <4>1, NextEntry
    <3> QED
      BY <2>2, <2>3, <3>1, <3>2 DEF Listing!End, Listing!Next
  <2>5. CASE result[r] # 0
    <3>1. Ended' = Ended
      BY <1>0, <1>1, <1>2, <2>5, EndedKept
    <3> QED
      BY <2>2, <2>3, <3>1 DEF Listing!listingVars
  <2> QED
    BY <2>4, <2>5
<1>10. CASE n # 0
  <2> DEFINE e == cursor - n + 1
  <2>1. /\ e \in 1 .. Entries /\ n \in 1 .. Chunk /\ e + n - 1 <= Entries /\ result[r] # 0
        /\ \A i \in 1 .. n : e + i - 1 = cursor - n + i
    BY <1>4, <1>5, <1>10
  <2>2. Listing!IsNext(e)
    BY <1>4, <1>6, NextEntry
  <2> HIDE DEF e
  <2>3. Listing!From(e, n) = told
    BY <2>1 DEF Listing!From
  <2>4. Ended' = Ended
    BY <1>0, <1>1, <1>2, <2>1, EndedKept
  <2>5. Skipped' = Skipped
    <3>1. Given' = Given \cup (cursor - n + 1 .. cursor)
      <4>1. /\ told \in Seq(1 .. Entries) /\ DOMAIN told = 1 .. n
            /\ \A i \in 1 .. n : told[i] = cursor - n + i
            /\ given' = given \o told
        BY <1>5
      <4>2. given \in Seq(1 .. Entries) /\ cursor \in Nat /\ n \in Nat /\ n <= cursor
        BY <1>4, <1>5
      <4> HIDE DEF told
      <4> QED
        BY <4>1, <4>2, GivenGrows
    <3>2. \A d \in 1 .. cursor : d \notin cursor - n + 1 .. cursor <=> d \in 1 .. cursor - n
      BY <1>4
    <3>3. 1 .. cursor - n \subseteq 1 .. cursor
      BY <1>4
    <3> QED
      BY <1>6, <1>7, <3>1, <3>2, <3>3
  <2>6. Listing!Give
    BY <1>5, <2>1, <2>2, <2>3, <2>4, <2>5 DEF Listing!Give
  <2> QED
    BY <2>6 DEF Listing!Next
<1> QED
  BY <1>9, <1>10

\* The program sees the directory in order, each entry once, and is told the
\* end at the end: reading through the one dirents field of a Dir implements
\* the listing (fs.mbt:3617-3724).
THEOREM DirImplementsListing == ASSUME ~Overlap PROVE Spec => ImplementsListing
<1>1. Init => Listing!Init
  <2> SUFFICES ASSUME Init PROVE Listing!Init
    OBVIOUS
  <2>1. given = <<>> /\ cursor = 0 /\ \A r \in Requests : place[r] = "new"
    BY DEF Init
  <2>2. Skipped = {} /\ Ended = FALSE
    BY <2>1 DEF Skipped, Ended
  <2> QED
    BY <2>1, <2>2 DEF Listing!Init
<1>2. DInv /\ Horizon /\ Horizon' /\ [Next]_vars => [Listing!Next]_(Listing!listingVars)
  <2> SUFFICES ASSUME DInv, Horizon, Horizon', [Next]_vars
               PROVE  Listing!Next \/ UNCHANGED Listing!listingVars
    OBVIOUS
  <2>1. DirInv
    BY DEF DInv
  <2>2. ASSUME NEW r \in Requests, UserStep(r)
        PROVE  Listing!Next \/ UNCHANGED Listing!listingVars
    BY <2>1, <2>2, QuietRefines DEF UserStep
  <2>3. ASSUME NEW r \in Requests, ThreadStep(r)
        PROVE  Listing!Next \/ UNCHANGED Listing!listingVars
    BY <2>1, <2>3, QuietRefines, FillRefines, FillFailsRefines DEF ThreadStep
  <2>4. ASSUME NEW r \in Requests, LoopStep(r)
        PROVE  Listing!Next \/ UNCHANGED Listing!listingVars
    BY <2>1, <2>4, QuietRefines, ReadDirCbRefines DEF LoopStep
  <2>5. CASE UNCHANGED vars
    <3>1. given' = given /\ slots' = slots /\ cursor' = cursor
      BY <2>5 DEF vars, dirVars
    <3>2. op' = op /\ place' = place /\ result' = result
      BY <2>5 DEF vars, reqVars
    <3>3. Skipped' = Skipped
      BY <3>1 DEF Skipped, Given, InFlight
    <3>4. Ended' = Ended
      BY <3>2 DEF Ended
    <3> QED
      BY <3>1, <3>3, <3>4 DEF Listing!listingVars
  <2> QED
    BY <2>2, <2>3, <2>4, <2>5 DEF Next, Terminated
<1>3. DInv => Horizon
  BY HorizonHolds
<1> QED
  BY <1>1, <1>2, <1>3, DirInductive, PTL DEF Spec, ImplementsListing, Listing!Spec
=============================================================================

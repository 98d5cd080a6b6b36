-------------------------------- MODULE UvDir --------------------------------
(***************************************************************************)
(* A directory stream: fs_opendir, fs_readdir, fs_closedir (fs.c, fs.mbt). *)
(* A Dir is a bare pointer to libuv's uv_dir_t: nothing counts it.  Each   *)
(* readdir has an array of entries of its own, made on the C heap, but the *)
(* thread that fills it finds it through the one dirents field of the Dir, *)
(* one entry at a time, and so does uv_fs_req_cleanup, which frees the     *)
(* names in it.  The callback of the readdir reads the array it made.      *)
(*                                                                         *)
(* The requests' own references are in UvReq; here a request is what it    *)
(* does with the Dir and the arrays.  One Dir, opened once.                *)
(***************************************************************************)
EXTENDS Integers, Sequences, FiniteSets

CONSTANTS
  Requests,   \* requests the program may make
  None,       \* no array: NULL
  Entries,    \* entries of the directory; they are 1 .. Entries
  Chunk,      \* bound: the largest array asked for
  PoolSize,   \* threads of the pool
  Overlap     \* may the program call on the Dir while a request is on it?

ASSUME DirAssumption ==
  /\ None \notin Requests
  /\ Entries \in Nat /\ Chunk \in Nat \ {0} /\ PoolSize \in Nat
  /\ Overlap \in BOOLEAN

VARIABLES
  op,        \* what a request asks for
  place,     \* where it is
  result,    \* req->result
  asked,     \* the length of the array made for it
  array,     \* that array: "none", "live" or "freed"
  slots,     \* its entries: the name in each of them, 0 for NULL
  index,     \* where the thread is in filling
  dir,       \* the uv_dir_t: "none", "live", "freed", or "orphan": freed with
             \* the stream of the system left open
  dirents,   \* dir->dirents: the request whose array it is, or None
  cursor,    \* how far the stream of the system has been read
  open,      \* does the program have a Dir that it has not closed?
  given      \* the entries that the program has been given

reqVars == <<op, place, result, asked, index>>
dirVars == <<dir, dirents, cursor>>
vars == <<reqVars, array, slots, dirVars, open, given>>

Slots == 1 .. Chunk
Empty == [i \in Slots |-> 0]

Init ==
  /\ op = [r \in Requests |-> "none"]
  /\ place = [r \in Requests |-> "new"]
  /\ result = [r \in Requests |-> 0]
  /\ asked = [r \in Requests |-> 0]
  /\ index = [r \in Requests |-> 0]
  /\ array = [r \in Requests |-> "none"]
  /\ slots = [r \in Requests |-> Empty]
  /\ dir = "none" /\ dirents = None /\ cursor = 0
  /\ open = FALSE
  /\ given = <<>>

\* Submitted and not answered.
Pending(r) == place[r] \in {"queued", "busy", "done", "cancelled"}

Reading(r) == op[r] = "readdir" /\ Pending(r)

Ask(r, o) ==
  /\ place[r] = "new"
  /\ op' = [op EXCEPT ![r] = o]
  /\ place' = [place EXCEPT ![r] = "queued"]

\* The program has a Dir that nobody works on, unless it does not care.
Usable == open /\ (Overlap \/ \A r \in Requests : ~Pending(r))

------------------------------------------------------------------------------
(* The program.                                                            *)

OpenDir(r) ==
  /\ dir = "none" /\ \A q \in Requests : ~Pending(q)
  /\ Ask(r, "opendir")
  /\ UNCHANGED <<result, asked, index, array, slots, dirVars, open, given>>

\* fs_readdir makes the array, and the Dir leads to it from then on.
ReadDir(r, n) ==
  /\ Usable
  /\ Ask(r, "readdir")
  /\ asked' = [asked EXCEPT ![r] = n]
  /\ array' = [array EXCEPT ![r] = "live"]
  /\ dirents' = r
  /\ UNCHANGED <<result, index, slots, dir, cursor, open, given>>

\* Whatever closedir is answered, the Dir is not used again.
CloseDir(r) ==
  /\ Usable
  /\ Ask(r, "closedir")
  /\ open' = FALSE
  /\ UNCHANGED <<result, asked, index, array, slots, dirVars, given>>

\* Cancelable::cancel: only what no thread has taken is taken back.
Cancel(r) ==
  /\ place[r] = "queued"
  /\ place' = [place EXCEPT ![r] = "cancelled"]
  /\ result' = [result EXCEPT ![r] = -1]
  /\ UNCHANGED <<op, asked, index, array, slots, dirVars, open, given>>

------------------------------------------------------------------------------
(* A thread of the pool.                                                   *)

Take(r) ==
  /\ place[r] = "queued"
  /\ Cardinality({q \in Requests : place[q] = "busy"}) < PoolSize
  /\ place' = [place EXCEPT ![r] = "busy"]
  /\ UNCHANGED <<op, result, asked, index, array, slots, dirVars, open, given>>

Done(r, n) ==
  /\ place' = [place EXCEPT ![r] = "done"]
  /\ result' = [result EXCEPT ![r] = n]

\* opendir allocates the uv_dir_t, or fails.
Opens(r) ==
  /\ place[r] = "busy" /\ op[r] = "opendir"
  /\ \/ Done(r, 0) /\ dir' = "live"
     \/ Done(r, -1) /\ UNCHANGED dir
  /\ UNCHANGED <<op, asked, index, array, slots, dirents, cursor, open, given>>

\* There is an entry, and room for it in the array the Dir leads to now.
HasNext(r) == dirents # None /\ index[r] < asked[dirents] /\ cursor < Entries

\* readdir copies the name of one entry.
Fill(r) ==
  /\ place[r] = "busy" /\ op[r] = "readdir"
  /\ HasNext(r)
  /\ cursor' = cursor + 1
  /\ slots' = [slots EXCEPT ![dirents] = [@ EXCEPT ![index[r] + 1] = cursor + 1]]
  /\ index' = [index EXCEPT ![r] = @ + 1]
  /\ UNCHANGED <<op, place, result, asked, array, dir, dirents, open, given>>

\* The array is full, or the directory at its end.
Filled(r) ==
  /\ place[r] = "busy" /\ op[r] = "readdir"
  /\ ~HasNext(r)
  /\ Done(r, index[r])
  /\ UNCHANGED <<op, asked, index, array, slots, dirVars, open, given>>

\* The names in the first n entries of the array that the Dir leads to go.
FreeNames(n) ==
  slots' = IF dirents = None THEN slots
           ELSE [slots EXCEPT ![dirents] = [i \in Slots |-> IF i <= n THEN 0 ELSE @[i]]]

\* The system reports an error, or there is no memory for a name.
FillFails(r) ==
  /\ place[r] = "busy" /\ op[r] = "readdir"
  /\ FreeNames(index[r])
  /\ Done(r, -1)
  /\ UNCHANGED <<op, asked, index, array, dirVars, open, given>>

Closes(r) ==
  /\ place[r] = "busy" /\ op[r] = "closedir"
  /\ Done(r, 0)
  /\ dir' = "freed"
  /\ UNCHANGED <<op, asked, index, array, slots, dirents, cursor, open, given>>

------------------------------------------------------------------------------
(* The callbacks, on the loop thread.                                      *)

Told(r, o) ==
  /\ place[r] \in {"done", "cancelled"} /\ op[r] = o
  /\ place' = [place EXCEPT ![r] = "told"]
  /\ UNCHANGED <<op, result, asked, index>>

\* fs_get_dir resets the fields that libuv has left as malloc gave them.
OpenDirCb(r) ==
  /\ Told(r, "opendir")
  /\ open' = (result[r] = 0)
  /\ dirents' = None
  /\ UNCHANGED <<array, slots, dir, cursor, given>>

\* Mutant: the array is deleted after a success only.
ReadDirCbErrorKeeps(r) ==
  /\ Told(r, "readdir")
  /\ given' = given \o SubSeq(slots[r], 1, IF result[r] < 0 THEN 0 ELSE result[r])
  /\ FreeNames(result[r])
  /\ dirents' = None
  /\ array' = [array EXCEPT ![r] = IF result[r] < 0 THEN @ ELSE "freed"]
  /\ UNCHANGED <<dir, cursor, open>>

\* Mutant: the Dir is left with the deleted array.
ReadDirCbKeepsDirents(r) ==
  /\ Told(r, "readdir")
  /\ given' = given \o SubSeq(slots[r], 1, IF result[r] < 0 THEN 0 ELSE result[r])
  /\ FreeNames(result[r])
  /\ array' = [array EXCEPT ![r] = "freed"]
  /\ UNCHANGED <<dir, dirents, cursor, open>>

\* Mutant: the Dir forgets the array before the request is cleaned up.
ReadDirCbUnsetsFirst(r) ==
  /\ Told(r, "readdir")
  /\ given' = given \o SubSeq(slots[r], 1, IF result[r] < 0 THEN 0 ELSE result[r])
  /\ dirents' = None
  /\ array' = [array EXCEPT ![r] = "freed"]
  /\ UNCHANGED <<slots, dir, cursor, open>>

\* Mutant: as many entries are read as were asked for.
ReadDirCbTellsAsked(r) ==
  /\ Told(r, "readdir")
  /\ given' = given \o SubSeq(slots[r], 1, IF result[r] < 0 THEN 0 ELSE asked[r])
  /\ FreeNames(result[r])
  /\ dirents' = None
  /\ array' = [array EXCEPT ![r] = "freed"]
  /\ UNCHANGED <<dir, cursor, open>>

\* The wrapper copies the entries out of its array, cleans the request up,
\* makes the Dir forget the array and deletes it; then it calls the program.
ReadDirCb(r) ==
  /\ Told(r, "readdir")
  /\ given' = given \o SubSeq(slots[r], 1, IF result[r] < 0 THEN 0 ELSE result[r])
  /\ FreeNames(result[r])
  /\ dirents' = None
  /\ array' = [array EXCEPT ![r] = "freed"]
  /\ UNCHANGED <<dir, cursor, open>>

\* uv_fs_req_cleanup frees the uv_dir_t of a closedir that no thread got to.
CloseDirCb(r) ==
  /\ Told(r, "closedir")
  /\ dir' = IF result[r] < 0 THEN "orphan" ELSE dir
  /\ UNCHANGED <<array, slots, dirents, cursor, open, given>>

------------------------------------------------------------------------------
\* The program does not call again, and everything is answered.
Terminated == (\A r \in Requests : ~Pending(r)) /\ UNCHANGED vars

UserStep(r) ==
  \/ OpenDir(r) \/ CloseDir(r) \/ Cancel(r)
  \/ \E n \in 1 .. Chunk : ReadDir(r, n)

ThreadStep(r) ==
  Take(r) \/ Opens(r) \/ Fill(r) \/ Filled(r) \/ FillFails(r) \/ Closes(r)

LoopStep(r) == OpenDirCb(r) \/ ReadDirCb(r) \/ CloseDirCb(r)

Next ==
  \/ \E r \in Requests : UserStep(r) \/ ThreadStep(r) \/ LoopStep(r)
  \/ Terminated

Spec == Init /\ [][Next]_vars
------------------------------------------------------------------------------
TypeOK ==
  /\ op \in [Requests -> {"none", "opendir", "readdir", "closedir"}]
  /\ place \in [Requests -> {"new", "queued", "busy", "done", "cancelled", "told"}]
  /\ result \in [Requests -> -1 .. Chunk]
  /\ asked \in [Requests -> 0 .. Chunk]
  /\ index \in [Requests -> 0 .. Chunk]
  /\ array \in [Requests -> {"none", "live", "freed"}]
  /\ slots \in [Requests -> [Slots -> 0 .. Entries]]
  /\ dir \in {"none", "live", "freed", "orphan"}
  /\ dirents \in Requests \cup {None}
  /\ cursor \in 0 .. Entries
  /\ open \in BOOLEAN

\* The array the Dir leads to is that of the readdir that is pending.
OneReader == \A r \in Requests : Reading(r) <=> dirents = r

ArrayLives == \A r \in Requests : array[r] = "live" <=> Reading(r)

\* How many names a thread has copied for r and nobody has freed.
Copied(r) ==
  IF place[r] = "busy" THEN index[r]
  ELSE IF place[r] = "done" /\ result[r] >= 0 THEN result[r]
  ELSE 0

\* They are where the thread put them.  An array is never written past its end.
NamesInPlace ==
  \A r \in Requests :
    /\ \A i \in Slots : slots[r][i] # 0 <=> op[r] = "readdir" /\ i <= Copied(r)
    /\ Copied(r) <= asked[r]

\* One request at a time is on the Dir, and while it is the Dir is there.
OneAtATime == \A q, r \in Requests : Pending(q) /\ Pending(r) => q = r

DirLives ==
  /\ open => dir = "live"
  /\ \A r \in Requests :
       Reading(r) \/ (op[r] = "closedir" /\ place[r] \in {"queued", "busy", "cancelled"})
         => dir = "live"

\* Opened before it is closed, and closed once.
Once ==
  /\ \A r \in Requests :
       /\ place[r] \in {"new", "queued"} => index[r] = 0
       /\ place[r] = "cancelled" => result[r] = -1
       /\ op[r] = "opendir" /\ Pending(r) =>
            /\ ~open /\ \A q \in Requests : op[q] # "closedir"
            /\ dir = IF place[r] = "done" /\ result[r] = 0 THEN "live" ELSE "none"
       /\ op[r] = "closedir" => ~open /\ dir # "none"
       /\ op[r] = "closedir" /\ place[r] \in {"done", "told"} /\ result[r] = 0 => dir = "freed"
       /\ op[r] = "none" <=> place[r] = "new"
  /\ \A q, r \in Requests : op[q] = "closedir" /\ op[r] = "closedir" => q = r

\* What the memory of Dir, arrays and names rests on.
DirInv ==
  TypeOK /\ OneReader /\ ArrayLives /\ NamesInPlace /\ OneAtATime /\ DirLives /\ Once

\* The names in an array are the entries up to the cursor, what the program was
\* given comes before them, and a read that found nothing was at the end.
InOrder ==
  /\ given \in Seq(1 .. Entries)
  /\ \A i \in DOMAIN given : given[i] <= cursor
  /\ \A r \in Requests : Reading(r) =>
       /\ asked[r] > 0 /\ Copied(r) <= cursor
       /\ \A i \in 1 .. Copied(r) : slots[r][i] = cursor - Copied(r) + i
       /\ \A i \in DOMAIN given : given[i] <= cursor - Copied(r)
       /\ place[r] = "done" /\ result[r] = 0 => cursor = Entries

DInv == DirInv /\ InOrder

\* The names the callback of a readdir is about to copy out of its array have
\* been put there, and nobody has freed them.
OwnNames ==
  \A r \in Requests : Reading(r) /\ place[r] = "done" =>
    \A i \in Slots : i <= result[r] => slots[r][i] # 0

\* What a thread writes through the Dir and what the callbacks read is there:
\* the Dir, the array it leads to, and the names.
NoDangling ==
  /\ dirents # None => array[dirents] = "live"
  /\ \A r \in Requests :
       /\ op[r] \in {"readdir", "closedir"} /\ place[r] \in {"queued", "busy"} =>
            dir = "live"
       /\ Reading(r) => dir = "live"
  /\ OwnNames

\* When the program is called back, the array and every name are freed; a
\* closedir that was not cancelled leaves nothing.
NoLeak ==
  \A r \in Requests : place[r] = "told" =>
    /\ array[r] # "live" /\ slots[r] = Empty
    /\ op[r] = "closedir" /\ result[r] = 0 => dir = "freed"

\* The program sees the directory: in order, nothing twice, nothing left out
\* but what a read that failed had taken.
Given == {given[i] : i \in DOMAIN given}
InFlight(r) == {slots[r][i] : i \in Slots} \ {0}
Skipped == 1 .. cursor \ (Given \cup UNION {InFlight(r) : r \in Requests})
Ended == \E r \in Requests : op[r] = "readdir" /\ place[r] = "told" /\ result[r] = 0

Listing == INSTANCE DirListing WITH skipped <- Skipped, ended <- Ended

ImplementsListing == Listing!Spec
=============================================================================

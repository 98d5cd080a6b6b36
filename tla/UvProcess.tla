------------------------------ MODULE UvProcess ------------------------------
(***************************************************************************)
(* Child processes (process.c): the containers that say what a child's     *)
(* standard streams are, the options they are moved into, and the process  *)
(* handle that spawn makes and whose exit callback it moves out of the     *)
(* options.  Every reference to the exit closure and to a stream has one   *)
(* holder at a time: container, options, process, or a callback's frame.   *)
(*                                                                         *)
(* file, args, env and cwd are held by the options as the exit closure is, *)
(* until their finalizer; they are left out.  What the stream is for is in *)
(* UvStream: only the references to it count here.                         *)
(***************************************************************************)
EXTENDS Integers, Sequences, FiniteSets

CONSTANTS
  Processes,    \* process handles the program may make
  Options,      \* ProcessOptions it may make, each with an exit closure
  Containers,   \* StdioContainers it may make
  None,         \* NULL
  MaxRefs,      \* bound: references to one process in MoonBit variables, and how
                \* often the options are copied
  MaxStdio      \* bound: the number of standard streams of a child

ASSUME ProcessAssumption ==
  /\ None \notin Processes \cup {"close", "ignore", "stream", "fd"}
  /\ {None, "close"} \cap Options = {}
  /\ IsFiniteSet(Processes) /\ IsFiniteSet(Options) /\ IsFiniteSet(Containers)
  /\ MaxRefs \in Nat /\ MaxStdio \in Nat

VARIABLES
  phase,     \* of a process: "new", "failed", "active", "exited", "closing", "closed"
  child,     \* the child itself: "none", "runs", "dead"
  rc,        \* Moonbit_object_header(process)->rc
  user,      \* references to it in variables
  data,      \* process->data: the exit closure of some options, "close", None
  made,      \* the options that were made
  ouser,     \* references to the options in variables: their count
  exitCb,    \* the options that lead to their exit closure
  stdio,     \* the options' array: what each entry is
  content,   \* what a container is; None before it is made and once it is freed
  src,       \* the references to the stream that containers took over
  exits,     \* how often the closure of the options has been called
  lrc,       \* the loop's count
  luser,     \* 1 if the program has a reference to the loop
  running,   \* is uv_run on the stack?
  frame,     \* the process whose callback runs, or None
  param      \* 1 while the callback's parameter is a reference

processVars == <<phase, child, rc, user, data>>
optionVars == <<made, ouser, exitCb, stdio, exits>>
streamVars == <<content, src>>
loopVars == <<lrc, luser, running, frame, param>>
vars == <<processVars, optionVars, streamVars, loopVars>>

Contents == {"ignore", "stream", "fd"}

One(b) == IF b THEN 1 ELSE 0

Init ==
  /\ phase = [p \in Processes |-> "new"]
  /\ child = [p \in Processes |-> "none"]
  /\ rc = [p \in Processes |-> 0]
  /\ user = [p \in Processes |-> 0]
  /\ data = [p \in Processes |-> None]
  /\ made = {}
  /\ ouser = [o \in Options |-> 0]
  /\ exitCb = {}
  /\ stdio = [o \in Options |-> <<>>]
  /\ exits = [o \in Options |-> 0]
  /\ content = [c \in Containers |-> None]
  /\ src = 0
  /\ lrc = 1 /\ luser = 1
  /\ running = FALSE
  /\ frame = None /\ param = 0

UserTurn == ~running \/ frame # None
LoopTurn == running /\ frame = None

\* Entries that lead to the stream.
StreamsIn(s) == Cardinality({i \in DOMAIN s : s[i] = "stream"})

------------------------------------------------------------------------------
(* Containers and options.                                                 *)

\* StdioContainer::ignore, inherit_file, create_pipe, inherit_stream: the last
\* two take over a reference to the stream, which the program has got.
MakeContainer(c, what) ==
  /\ UserTurn
  /\ content[c] = None
  /\ content' = [content EXCEPT ![c] = what]
  /\ src' = src + One(what = "stream")
  /\ UNCHANGED <<processVars, optionVars, loopVars>>

\* The finalizer drops the stream.  It takes a file for one, too: a program
\* that drops the container of a file without using it is not modelled.
DropContainer(c) ==
  /\ UserTurn
  /\ content[c] \in {"ignore", "stream"}
  /\ content' = [content EXCEPT ![c] = None]
  /\ src' = src - One(content[c] = "stream")
  /\ UNCHANGED <<processVars, optionVars, loopVars>>

\* Mutant: the container is left as it was.
SetStdioCopies(o, list) ==
  /\ stdio' = [stdio EXCEPT ![o] = [i \in DOMAIN list |-> content[list[i]]]]
  /\ UNCHANGED content

\* moonbit_uv_process_options_set_stdio moves what the containers hold, one
\* after the other; an emptied container is one to ignore.
SetStdio(o, list) ==
  /\ stdio' = [stdio EXCEPT ![o] =
       [i \in DOMAIN list |->
          IF \E j \in 1 .. i - 1 : list[j] = list[i] THEN "ignore" ELSE content[list[i]]]]
  /\ content' = [c \in Containers |->
       IF \E i \in DOMAIN list : list[i] = c THEN "ignore" ELSE content[c]]

\* ProcessOptions::new.
MakeOptions(o, list) ==
  /\ UserTurn
  /\ o \notin made
  /\ \A i \in DOMAIN list : content[list[i]] # None
  /\ made' = made \cup {o}
  /\ ouser' = [ouser EXCEPT ![o] = 1]
  /\ exitCb' = exitCb \cup {o}
  /\ SetStdio(o, list)
  /\ UNCHANGED <<processVars, exits, src, loopVars>>

\* The count of the options becomes n, and `with` are the options that have
\* their closure; at zero the finalizer drops it and the streams.
SettleOptions(o, n, with) ==
  /\ ouser' = [ouser EXCEPT ![o] = n]
  /\ exitCb' = IF n = 0 THEN with \ {o} ELSE with
  /\ stdio' = [stdio EXCEPT ![o] = IF n = 0 THEN <<>> ELSE @]
  /\ src' = src - (IF n = 0 THEN StreamsIn(stdio[o]) ELSE 0)

DupOptions(o) ==
  /\ UserTurn
  /\ ouser[o] \in 1 .. MaxRefs
  /\ ouser' = [ouser EXCEPT ![o] = @ + 1]
  /\ UNCHANGED <<processVars, made, exitCb, stdio, exits, streamVars, loopVars>>

DropOptions(o) ==
  /\ UserTurn
  /\ ouser[o] > 0
  /\ SettleOptions(o, ouser[o] - 1, exitCb)
  /\ UNCHANGED <<processVars, made, exits, content, loopVars>>

------------------------------------------------------------------------------
(* Processes.                                                              *)

\* Mutant: the options keep the closure that was moved into the process.
SpawnShares(p, o) ==
  /\ UserTurn /\ luser = 1
  /\ phase[p] = "new" /\ ouser[o] > 0
  /\ data' = [data EXCEPT ![p] = IF o \in exitCb THEN o ELSE None]
  /\ SettleOptions(o, ouser[o] - 1, exitCb)
  /\ lrc' = lrc + 1
  /\ \/ /\ phase' = [phase EXCEPT ![p] = "active"]
        /\ child' = [child EXCEPT ![p] = "runs"]
        /\ rc' = [rc EXCEPT ![p] = 2]
        /\ user' = [user EXCEPT ![p] = 1]
     \/ /\ phase' = [phase EXCEPT ![p] = "failed"]
        /\ rc' = [rc EXCEPT ![p] = 1]
        /\ UNCHANGED <<child, user>>
  /\ UNCHANGED <<made, exits, content, luser, running, frame, param>>

\* Mutant: libuv is lent the reference that the program gets back.
SpawnLends(p, o) ==
  /\ UserTurn /\ luser = 1
  /\ phase[p] = "new" /\ ouser[o] > 0
  /\ data' = [data EXCEPT ![p] = IF o \in exitCb THEN o ELSE None]
  /\ SettleOptions(o, ouser[o] - 1, exitCb \ {o})
  /\ lrc' = lrc + 1
  /\ phase' = [phase EXCEPT ![p] = "active"]
  /\ child' = [child EXCEPT ![p] = "runs"]
  /\ rc' = [rc EXCEPT ![p] = 1]
  /\ user' = [user EXCEPT ![p] = 1]
  /\ UNCHANGED <<made, exits, content, luser, running, frame, param>>

\* Loop::spawn: the exit closure is moved from the options to the process, if
\* no earlier spawn has had it; the options' parameter goes.  libuv keeps the
\* process and the process the loop; they stay when it fails and the call
\* raises, for the handle is linked.
Spawn(p, o) ==
  /\ UserTurn /\ luser = 1
  /\ phase[p] = "new" /\ ouser[o] > 0
  /\ data' = [data EXCEPT ![p] = IF o \in exitCb THEN o ELSE None]
  /\ SettleOptions(o, ouser[o] - 1, exitCb \ {o})
  /\ lrc' = lrc + 1
  /\ \/ /\ phase' = [phase EXCEPT ![p] = "active"]
        /\ child' = [child EXCEPT ![p] = "runs"]
        /\ rc' = [rc EXCEPT ![p] = 2]
        /\ user' = [user EXCEPT ![p] = 1]
     \/ /\ phase' = [phase EXCEPT ![p] = "failed"]
        /\ rc' = [rc EXCEPT ![p] = 1]
        /\ UNCHANGED <<child, user>>
  /\ UNCHANGED <<made, exits, content, luser, running, frame, param>>

\* The count of p becomes n, its data d; the finalizer drops data and loop.
Settle(p, n, d) ==
  /\ rc' = [rc EXCEPT ![p] = n]
  /\ data' = [data EXCEPT ![p] = IF n = 0 THEN None ELSE d]
  /\ lrc' = lrc - One(n = 0)

Dup(p) ==
  /\ UserTurn
  /\ user[p] > 0 \/ (frame = p /\ param = 1)
  /\ user[p] < MaxRefs
  /\ user' = [user EXCEPT ![p] = @ + 1]
  /\ rc' = [rc EXCEPT ![p] = @ + 1]
  /\ UNCHANGED <<phase, child, data, optionVars, streamVars, loopVars>>

\* A variable goes, or is consumed by Process::pid or kill (a child may die
\* whether or not it is killed).
Drop(p) ==
  /\ UserTurn
  /\ user[p] > 0
  /\ user' = [user EXCEPT ![p] = @ - 1]
  /\ Settle(p, rc[p] - 1, data[p])
  /\ UNCHANGED <<phase, child, optionVars, streamVars, luser, running, frame, param>>

\* close(): what data leads to is dropped, be it an exit closure or nothing.
Close(p) ==
  /\ UserTurn
  /\ user[p] > 0
  /\ phase[p] \in {"active", "exited"}
  /\ phase' = [phase EXCEPT ![p] = "closing"]
  /\ user' = [user EXCEPT ![p] = @ - 1]
  /\ Settle(p, rc[p] - 1, "close")
  /\ UNCHANGED <<child, optionVars, streamVars, luser, running, frame, param>>

Run ==
  /\ ~running /\ luser = 1
  /\ running' = TRUE
  /\ lrc' = lrc + 1
  /\ UNCHANGED <<processVars, optionVars, streamVars, luser, frame, param>>

RunReturns ==
  /\ LoopTurn
  /\ running' = FALSE
  /\ lrc' = lrc - 1
  /\ UNCHANGED <<processVars, optionVars, streamVars, luser, frame, param>>

DropLoop ==
  /\ UserTurn /\ luser = 1
  /\ luser' = 0
  /\ lrc' = lrc - 1
  /\ UNCHANGED <<processVars, optionVars, streamVars, running, frame, param>>

------------------------------------------------------------------------------
(* The child, libuv and the callbacks.                                     *)

Dies(p) ==
  /\ child[p] = "runs"
  /\ child' = [child EXCEPT ![p] = "dead"]
  /\ UNCHANGED <<phase, rc, user, data, optionVars, streamVars, loopVars>>

\* Mutant: data is cleared before the closure is read from it.
ExitCbClearsFirst(p) ==
  /\ LoopTurn
  /\ phase[p] = "active" /\ child[p] = "dead"
  /\ phase' = [phase EXCEPT ![p] = "exited"]
  /\ data' = [data EXCEPT ![p] = None]
  /\ UNCHANGED <<child, rc, user, optionVars, streamVars, loopVars>>

\* moonbit_uv_exit_cb: the closure is moved out of data into its call, the
\* process shared with it; a process without closure exits unheard.
ExitCb(p) ==
  /\ LoopTurn
  /\ phase[p] = "active" /\ child[p] = "dead"
  /\ phase' = [phase EXCEPT ![p] = "exited"]
  /\ data' = [data EXCEPT ![p] = None]
  /\ IF data[p] = None
       THEN UNCHANGED <<rc, exits, frame, param>>
       ELSE /\ rc' = [rc EXCEPT ![p] = @ + 1]
            /\ exits' = [exits EXCEPT ![data[p]] = @ + 1]
            /\ frame' = p /\ param' = 1
  /\ UNCHANGED <<child, user, made, ouser, exitCb, stdio, streamVars, lrc, luser, running>>

\* Mutant: the loop's reference stays.
CloseCbKeeps(p) ==
  /\ LoopTurn
  /\ phase[p] = "closing"
  /\ phase' = [phase EXCEPT ![p] = "closed"]
  /\ Settle(p, rc[p], None)
  /\ frame' = p
  /\ UNCHANGED <<child, user, optionVars, streamVars, luser, running, param>>

\* moonbit_uv_close_cb.
CloseCb(p) ==
  /\ LoopTurn
  /\ phase[p] = "closing"
  /\ phase' = [phase EXCEPT ![p] = "closed"]
  /\ Settle(p, rc[p] - 1, None)
  /\ frame' = p
  /\ UNCHANGED <<child, user, optionVars, streamVars, luser, running, param>>

\* The callback returns: the closure goes, and its parameter.
Return(p) ==
  /\ frame = p
  /\ frame' = None /\ param' = 0
  /\ IF param = 1 THEN Settle(p, rc[p] - 1, data[p]) ELSE UNCHANGED <<rc, data, lrc>>
  /\ UNCHANGED <<phase, child, user, optionVars, streamVars, luser, running>>

------------------------------------------------------------------------------
\* The program has nothing left, or no loop to wait with.
Terminated ==
  /\ ~running /\ luser = 0
  /\ UNCHANGED vars

Lists == UNION {[1 .. n -> Containers] : n \in 0 .. MaxStdio}

OptionStep ==
  \/ \E c \in Containers :
       DropContainer(c) \/ \E what \in Contents : MakeContainer(c, what)
  \/ \E o \in Options :
       DupOptions(o) \/ DropOptions(o) \/ \E list \in Lists : MakeOptions(o, list)

ProcessStep(p) ==
  \/ \E o \in Options : Spawn(p, o)
  \/ Dup(p) \/ Drop(p) \/ Close(p)
  \/ Dies(p) \/ ExitCb(p) \/ CloseCb(p) \/ Return(p)

Next ==
  \/ OptionStep
  \/ \E p \in Processes : ProcessStep(p)
  \/ Run \/ RunReturns \/ DropLoop
  \/ Terminated

Spec == Init /\ [][Next]_vars

\* Callbacks return, a loop that the program still has is run again, and
\* uv_run gets to a dead child and a closing handle in the end.
Fairness ==
  /\ WF_vars(Run)
  /\ \A p \in Processes : WF_vars(Return(p)) /\ SF_vars(ExitCb(p)) /\ SF_vars(CloseCb(p))

FairSpec == Spec /\ Fairness
------------------------------------------------------------------------------
ProcessTypes ==
  /\ phase \in [Processes -> {"new", "failed", "active", "exited", "closing", "closed"}]
  /\ child \in [Processes -> {"none", "runs", "dead"}]
  /\ rc \in [Processes -> Nat]
  /\ user \in [Processes -> Nat]
  /\ data \in [Processes -> Options \cup {"close", None}]
  /\ made \subseteq Options /\ exitCb \subseteq Options
  /\ exits \in [Options -> {0, 1}]
  /\ lrc \in Int /\ luser \in {0, 1}
  /\ running \in BOOLEAN
  /\ frame \in Processes \cup {None} /\ param \in {0, 1}

TypeOK ==
  /\ ProcessTypes
  /\ ouser \in [Options -> Nat]
  /\ stdio \in [Options -> UNION {[1 .. n -> Contents] : n \in 0 .. MaxStdio}]
  /\ content \in [Containers -> Contents \cup {None}]
  /\ src \in Nat

\* libuv has the process in its queues.
Linked(p) == phase[p] \in {"failed", "active", "exited", "closing"}

RcExact ==
  \A p \in Processes : rc[p] = user[p] + One(Linked(p)) + One(frame = p /\ param = 1)

LrcExact ==
  lrc = luser + One(running) + Cardinality({p \in Processes : rc[p] > 0})

\* A reference that was taken over is a container's or an entry's.  Options
\* that were freed, or not made yet, have no entries.
SrcExact ==
  /\ src = Cardinality({c \in Containers : content[c] = "stream"})
             + Cardinality({e \in Options \X (1 .. MaxStdio) :
                              e[2] \in DOMAIN stdio[e[1]] /\ stdio[e[1]][e[2]] = "stream"})
  /\ \A o \in Options :
       /\ ouser[o] = 0 => stdio[o] = <<>>
       /\ o \notin made => ouser[o] = 0

\* What libuv will call is of the type the C callback takes it for.
Callable ==
  \A p \in Processes :
    /\ phase[p] = "closing" => data[p] = "close"
    /\ phase[p] = "active" => data[p] # "close"
    /\ phase[p] \in {"exited", "closed"} => data[p] = None

\* What was not spawned is in nobody's way, and a parameter is a callback's.
Fresh ==
  /\ \A p \in Processes :
       phase[p] = "new" => user[p] = 0 /\ data[p] = None /\ frame # p
  /\ frame = None => param = 0

\* An exit closure has one holder, and none once it has been called.
OneHolder(o) ==
  /\ \A p, q \in Processes : data[p] = o /\ data[q] = o => p = q
  /\ o \in exitCb => o \in made /\ exits[o] = 0 /\ \A p \in Processes : data[p] # o
  /\ \A p \in Processes : data[p] = o => o \in made /\ exits[o] = 0
  /\ o \notin made => exits[o] = 0

\* What the safety of the processes rests on, the standard streams apart.
ProcessInv ==
  /\ ProcessTypes /\ RcExact /\ LrcExact /\ Callable /\ Fresh
  /\ \A o \in Options : OneHolder(o)

PInv == TypeOK /\ ProcessInv /\ SrcExact

\* The exit closure is in one place, and nowhere once it has been called.
ExitOnce ==
  \A o \in Options :
    LET holders == {p \in Processes : data[p] = o}
    IN Cardinality(holders) + One(o \in exitCb) + exits[o] <= 1

\* What libuv links to is there, and its loop.
NoDangling == \A p \in Processes : Linked(p) => rc[p] > 0 /\ lrc > 0

\* A closed process that no variable refers to is freed; with the last options
\* and containers every moved reference to the stream is gone.
NoLeak ==
  /\ \A p \in Processes :
       phase[p] = "closed" /\ user[p] = 0 /\ frame # p => rc[p] = 0
  /\ (\A o \in Options : ouser[o] = 0) /\ (\A c \in Containers : content[c] # "stream")
       => src = 0

\* The exit of a child whose options came with their closure is told to it,
\* unless the process is closed first or the loop given up.
ExitTold ==
  \A p \in Processes, o \in Options :
    data[p] = o /\ child[p] = "dead" /\ phase[p] # "failed"
      ~> exits[o] = 1 \/ phase[p] = "closing" \/ luser = 0
=============================================================================

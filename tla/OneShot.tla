------------------------------- MODULE OneShot -------------------------------
(***************************************************************************)
(* What uv.mbt promises of every one-shot request: a call either raises or *)
(* is accepted; an accepted one is answered exactly once, by one of its    *)
(* two callbacks.  Once libuv is through with it its answer is settled,    *)
(* and neither a cancel nor the close of its handle changes it.  A cancel  *)
(* takes back only what was not begun; closing a handle answers all that   *)
(* is not settled by the error callback, begun or not.  A synchronous call *)
(* is asked and answered at once.                                          *)
(***************************************************************************)
CONSTANT Requests

VARIABLES
  state,     \* "idle", "refused", "asked", "begun", "settled", "withdrawn", "told"
  answer,    \* "none", or by which callback it is to be told: "ok", "error"
  onHandle   \* the requests made on a handle

oneShotVars == <<state, answer, onHandle>>

Init ==
  /\ state = [r \in Requests |-> "idle"]
  /\ answer = [r \in Requests |-> "none"]
  /\ onHandle = {}

Move(r, from, to) ==
  /\ state[r] = from
  /\ state' = [state EXCEPT ![r] = to]

GetAnswer(r) == \E a \in {"ok", "error"} : answer' = [answer EXCEPT ![r] = a]

Ask(r) == Move(r, "idle", "asked") /\ UNCHANGED <<answer, onHandle>>
Refuse(r) == Move(r, "idle", "refused") /\ UNCHANGED answer /\ onHandle' \in {onHandle, onHandle \cup {r}}
Do(r) == Move(r, "idle", "told") /\ GetAnswer(r) /\ UNCHANGED onHandle

\* On a handle the call itself may begin the request, or be through with it.
AskHandle(r) ==
  /\ onHandle' = onHandle \cup {r}
  /\ \/ \E to \in {"asked", "begun"} : Move(r, "idle", to) /\ UNCHANGED answer
     \/ Move(r, "idle", "settled") /\ GetAnswer(r)

Begin(r) == Move(r, "asked", "begun") /\ UNCHANGED <<answer, onHandle>>
Settle(r) == Move(r, "begun", "settled") /\ GetAnswer(r) /\ UNCHANGED onHandle

Cancel(r) ==
  /\ r \notin onHandle
  /\ Move(r, "asked", "withdrawn")
  /\ UNCHANGED <<answer, onHandle>>

CloseHandle ==
  /\ state' = [r \in Requests |->
                 IF r \in onHandle /\ state[r] \in {"asked", "begun"}
                 THEN "withdrawn" ELSE state[r]]
  /\ UNCHANGED <<answer, onHandle>>

\* What is withdrawn is told by the error callback; the end of a connect or a
\* shutdown, and its answer, are one.
Tell(r) ==
  /\ UNCHANGED onHandle
  /\ \/ Move(r, "settled", "told") /\ UNCHANGED answer
     \/ Move(r, "withdrawn", "told") /\ answer' = [answer EXCEPT ![r] = "error"]
     \/ r \in onHandle /\ Move(r, "begun", "told") /\ GetAnswer(r)

Next ==
  \/ \E r \in Requests :
       Ask(r) \/ AskHandle(r) \/ Refuse(r) \/ Do(r) \/ Begin(r) \/ Settle(r) \/ Cancel(r) \/ Tell(r)
  \/ CloseHandle

Spec == Init /\ [][Next]_oneShotVars
=============================================================================

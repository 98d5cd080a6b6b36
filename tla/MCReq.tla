------------------------------- MODULE MCReq -------------------------------
(* UvReq on small instances, with the records of UvCalls.                  *)
EXTENDS UvReq

Table == INSTANCE UvCalls

\* Every function of the table, the ones that no run calls included; a name
\* stands for one of them.
ASSUME
  /\ \A f \in DOMAIN Table!Calls : IsCall(Table!Calls[f]) /\ CleansUp(f, Table!Calls[f])
  /\ \A s, t \in Table!Tables : s # t => DOMAIN s \cap DOMAIN t = {}

\* One function for each way a call can end.
SomeCalls ==
  [f \in {"scandir", "mkstemp", "getaddrinfo", "random", "stream_write", "tcp_connect"}
     |-> Table!Calls[f]]
=============================================================================

------------------------------ MODULE TwoStores -----------------------------
(***************************************************************************)
(* What the memory plane promises of a turn, over the stream that keeps it *)
(* and the palace that copies it.  Both only grow.  A dual-written turn is *)
(* copied only once the stream holds it and never once its caller was told *)
(* that it failed, also if its requests are served after the call; success *)
(* of a call that publishes means that the stream holds it, and a palace   *)
(* write that is reported took place.  An outcome is final.                *)
(***************************************************************************)
VARIABLES
  turn,      \* each call: its operation, and none, open, failed, returned or written
  stream,    \* the calls whose turn the stream holds
  palace     \* <<call, path>> of each copy

tsVars == <<turn, stream, palace>>

TSInit == (\A k \in DOMAIN turn : turn[k].state = "none") /\ stream = {} /\ palace = {}

Publishes(k) == turn[k].op \in {"publish", "recall", "dual"}

Copied(k) == \E p \in palace : p[1] = k

Enter(k, op, state) ==
  /\ turn[k].state = "none" /\ state \in {"open", "failed"}
  /\ turn' = [turn EXCEPT ![k] = [op |-> op, state |-> state]]
  /\ UNCHANGED <<stream, palace>>

Append(k) ==
  /\ turn[k].state # "none" /\ Publishes(k)
  /\ stream' = stream \cup {k}
  /\ UNCHANGED <<turn, palace>>

Copy(k, path) ==
  /\ turn[k].state # "none" /\ turn[k].op \in {"ingest", "dual"}
  /\ turn[k].op = "dual" => k \in stream /\ turn[k].state # "failed"
  /\ palace' = palace \cup {<<k, path>>}
  /\ UNCHANGED <<turn, stream>>

Leave(k, state) ==
  /\ turn[k].state = "open" /\ state \in {"failed", "returned", "written"}
  /\ state = "failed" /\ turn[k].op = "dual" => ~Copied(k)
  /\ state # "failed" /\ Publishes(k) => k \in stream
  /\ state = "written" => Copied(k)
  /\ turn' = [turn EXCEPT ![k].state = state]
  /\ UNCHANGED <<stream, palace>>

TSNext == \E k \in DOMAIN turn :
  \/ \E op \in {"publish", "recall", "ingest", "dual", "read"}, state \in {"open", "failed"} :
       Enter(k, op, state)
  \/ Append(k)
  \/ \E path \in {"v1", "v5"} : Copy(k, path)
  \/ \E state \in {"failed", "returned", "written"} : Leave(k, state)

TSSpec == TSInit /\ [][TSNext]_tsVars
=============================================================================

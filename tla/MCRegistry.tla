----------------------------- MODULE MCRegistry -----------------------------
(* TLC instance of Registry: the operations the run uses; tickets, and      *)
(* callers with an org, are interchangeable.                                *)
EXTENDS Registry, TLC

CONSTANTS c1, c2, c3, t1, t2, t3

StreamUses == {op \in Ops : op.kind = "stream"}

KeyUses == {Op("create", "bucket"), Op("put", "key"), Op("get", "key"),
            Op("delete", "key"), Op("create", "entry")}

AllUses == StreamUses \cup KeyUses

\* Calls on streams and calls on buckets and keys do not touch one another: no
\* behaviour has both, and only callers with an org use buckets and keys.
OneStore ==
  \/ \A t \in Tickets : calls[t].op \subseteq StreamUses
  \/ \A t \in Tickets : calls[t].op \subseteq KeyUses /\ calls[t].by \cap Closed = {}

Symmetry == Permutations(Tickets) \cup Permutations(Callers \ Closed)
=============================================================================

--------------------------- MODULE MCPullConsumer ---------------------------
(* TLC instances of PullConsumer: workers and tickets are model values,     *)
(* interchangeable except for the workers behind the organization gate.     *)
EXTENDS PullConsumer, TLC

CONSTANTS w1, w2, t1, t2, t3, t4, t5, s1, s2

\* No state depends on which ticket a call holds, nor on which subject is which.
Symmetry == Permutations(Tickets) \cup Permutations(Subjects)
=============================================================================

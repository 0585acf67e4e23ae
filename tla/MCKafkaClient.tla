---------------------------- MODULE MCKafkaClient ----------------------------
(* TLC instances of KafkaClient: two interchangeable goroutines.            *)
EXTENDS KafkaClient, TLC

CONSTANTS p1, p2

Symmetry == Permutations(Procs)
=============================================================================

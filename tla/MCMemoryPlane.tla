---------------------------- MODULE MCMemoryPlane ----------------------------
(* TLC instances of MemoryPlane: calls are interchangeable model values.    *)
EXTENDS MemoryPlane, TLC

CONSTANTS k1, k2

Symmetry == Permutations(Calls)
=============================================================================

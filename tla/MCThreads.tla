------------------------------ MODULE MCThreads ------------------------------
(* Threads with a few MThread objects.                                        *)
EXTENDS Threads, TLC

Symmetry == Permutations(Objects) \cup Permutations(Ids)
=============================================================================

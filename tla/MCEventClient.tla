---------------------------- MODULE MCEventClient ----------------------------
(* EventClient on a small table: the types "", "a", "ab" are a chain of      *)
(* prefixes in lexicographic order.                                          *)
EXTENDS EventClient, TLC

MCTypes == 0 .. 2
MCPrefixes == [t \in MCTypes |-> 0 .. t]
Symmetry == Permutations(Targets)
=============================================================================

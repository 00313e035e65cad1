------------------------------ MODULE MCEventBus ------------------------------
(* EventBus with two clients and two types, "a" a prefix of "ab".             *)
EXTENDS EventBus, TLC

MCTypes == 1 .. 2
MCPrefixes == [t \in MCTypes |-> 1 .. t]
OneType == {1}
OnePrefix == [t \in OneType |-> {t}]
Symmetry == Permutations(Clients)
=============================================================================

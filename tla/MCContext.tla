------------------------------ MODULE MCContext ------------------------------
(* Context with clients that have one of their two sockets.                   *)
EXTENDS Context

Publish == <<"pub">>
Subscribe == <<"sub">>

Symmetry == Permutations(Clients)
=============================================================================

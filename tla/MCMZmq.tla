-------------------------------- MODULE MCMZmq --------------------------------
(* MZmq with a few sends.                                                       *)
EXTENDS MZmq
=============================================================================

------------------------------ MODULE MCMailbox ------------------------------
(* Mailbox with three senders and chunks of two commands.                     *)
EXTENDS Mailbox
=============================================================================

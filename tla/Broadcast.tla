------------------------------ MODULE Broadcast ------------------------------
(***************************************************************************)
(* What an event bus promises: the messages of each sender wait in the     *)
(* order it sent them, the bus puts all of them into one order, and every  *)
(* receiver gets some of them, each at most once and in that order.        *)
(***************************************************************************)
EXTENDS Naturals, Sequences

CONSTANTS Parties, Messages

VARIABLES
    wait,   \* wait[p]: sent by p and not yet ordered
    log,    \* the common order
    got     \* got[p]: what p received, by its place in log

vars == <<wait, log, got>>

Init ==
    /\ wait = [p \in Parties |-> << >>]
    /\ log = << >>
    /\ got = [p \in Parties |-> << >>]

Send(p) ==
    /\ \E m \in Messages : wait' = [wait EXCEPT ![p] = Append(@, m)]
    /\ UNCHANGED <<log, got>>

Order(p) ==
    /\ wait[p] # << >>
    /\ log' = Append(log, Head(wait[p]))
    /\ wait' = [wait EXCEPT ![p] = Tail(@)]
    /\ UNCHANGED got

Deliver(p) ==
    /\ \E i \in 1 .. Len(log) :
          /\ \A j \in 1 .. Len(got[p]) : got[p][j] < i
          /\ got' = [got EXCEPT ![p] = Append(@, i)]
    /\ UNCHANGED <<wait, log>>

Next == \E p \in Parties : Send(p) \/ Order(p) \/ Deliver(p)

Spec == Init /\ [][Next]_vars
=============================================================================

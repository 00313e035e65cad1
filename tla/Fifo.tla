-------------------------------- MODULE Fifo --------------------------------
(***************************************************************************)
(* What a queue between two threads promises: every item that is put is    *)
(* taken once, in the order of the puts.                                   *)
(***************************************************************************)
EXTENDS Sequences

CONSTANT Items

VARIABLES
    queue,   \* put and not yet taken
    taken    \* taken, in order

vars == <<queue, taken>>

Init == queue = << >> /\ taken = << >>

Put ==
    /\ \E m \in Items : queue' = Append(queue, m)
    /\ UNCHANGED taken

Get ==
    /\ queue # << >>
    /\ taken' = Append(taken, Head(queue))
    /\ queue' = Tail(queue)

Next == Put \/ Get

Spec == Init /\ [][Next]_vars
=============================================================================

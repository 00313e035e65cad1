-------------------------------- MODULE Pipe --------------------------------
(***************************************************************************)
(* One direction of a ZeroMQ pipe (pipe.cpp): a queue with a high-water    *)
(* mark.  The reader acknowledges every Lwm-th message only, and the       *)
(* writer learns of it when it next processes its commands, so the writer  *)
(* may take the queue for full long before it is.                          *)
(***************************************************************************)
EXTENDS Naturals, Sequences

CONSTANT Hwm   \* what a pipe holds: sndhwm + rcvhwm of the two sockets

ASSUME HwmAssumption == Hwm \in Nat \ {0}

\* compute_lwm
Lwm == (Hwm + 1) \div 2

\* msgs_written and peers_msgs_read are the writer's counters.
Pipe(Msg) == [q : Seq(Msg), written : Nat, acked : Nat]

NewPipe == [q |-> << >>, written |-> 0, acked |-> 0]

\* msgs_read, the reader's counter.
MsgsRead(p) == p.written - Len(p.q)

\* Mutant: everything written counts as read.
AckSentWritten(p) == p.written

\* The last activate_write the reader sent.
AckSent(p) == (MsgsRead(p) \div Lwm) * Lwm

\* The writer processes its commands.
Sync(p) == [q |-> p.q, written |-> p.written, acked |-> AckSent(p)]

\* check_hwm
Full(p) == p.written - p.acked >= Hwm

\* Mutant: a message is written in front of the others.
WriteFront(p, m) ==
    IF Full(p) THEN p
    ELSE [q |-> <<m>> \o p.q, written |-> p.written + 1, acked |-> p.acked]

\* write: a full pipe drops the message.
Write(p, m) ==
    IF Full(p) THEN p
    ELSE [q |-> Append(p.q, m), written |-> p.written + 1, acked |-> p.acked]

\* Mutant: the message stays in the queue.
ReadPeek(p) == p

\* read
Read(p) == [q |-> Tail(p.q), written |-> p.written, acked |-> p.acked]

\* The reader takes everything that is there.
ReadAll(p) == [q |-> << >>, written |-> p.written, acked |-> p.acked]

\* The queue keeps the mark, and the writer takes nothing for read that is not.
Bounded(p) == Len(p.q) <= Hwm /\ p.acked <= MsgsRead(p)
=============================================================================

------------------------------- MODULE Mailbox -------------------------------
(***************************************************************************)
(* The mailbox through which the threads of ZeroMQ send one another        *)
(* commands (mailbox.cpp): a lock-free queue with one reader and one       *)
(* writer (ypipe.hpp), a mutex among the senders, and a signaler that      *)
(* wakes the receiver when it sleeps.                                      *)
(*                                                                         *)
(* Pointers are addresses, pairs <<chunk, position>>, and chunks are used  *)
(* again (yqueue.hpp): an address may stand for one item after another.    *)
(***************************************************************************)
EXTENDS Naturals, Sequences

CONSTANTS
    Senders,   \* the threads that send
    Chunks,    \* the memory the allocator hands out
    N,         \* items per chunk
    None,      \* NULL, and nobody
    MaxSends   \* bound: commands sent before the mailbox is destroyed

ASSUME GranularityAssumption == N \in Nat /\ N >= 2
ASSUME MailboxNoneAssumption ==
    None \notin Senders \cup Chunks \cup (Chunks \X (0 .. N - 1))
ASSUME MaxSendsAssumption == MaxSends \in Nat

VARIABLES
    chunks,      \* the chunks of the queue, from begin_chunk to end_chunk
    spare,       \* spare_chunk
    begin_pos,   \* place of the front item in the first chunk
    end_pos,     \* the next free place in the last chunk
    mem,         \* mem[a]: the command at address a
    w, f,        \* the writer's pointers: first not flushed, next to flush to
    r,           \* the reader's pointer: first not prefetched
    c,           \* the shared pointer: past the last flushed; None: reader sleeps
    sync,        \* the sender that holds the mutex
    pc, ok,      \* where each sender is, and what its flush returned
    signals,     \* the signals that wait in the signaler
    active,      \* the receiver believes there may be commands
    rpc,         \* where the receiver is
    sent,        \* how many commands were written
    got,         \* the commands received
    alive        \* the mailbox has not been destroyed

queueVars == <<chunks, spare, begin_pos, end_pos, mem>>
senderVars == <<sync, pc, ok, sent>>
receiverVars == <<active, rpc, got, alive>>
vars == <<queueVars, w, f, r, c, senderVars, signals, receiverVars>>

-----------------------------------------------------------------------------
(* The queue of chunks.  An item is at the i-th place from the beginning of *)
(* the first chunk, counting from 0.                                        *)

Addr == Chunks \X (0 .. N - 1)

Place(i) == <<chunks[i \div N + 1], i % N>>

Front == begin_pos

Back == (Len(chunks) - 1) * N + end_pos - 1

InUse == {chunks[k] : k \in 1 .. Len(chunks)}

\* Mutant: the reader puts a chunk aside while it still has an item to read.
PopEarly ==
    IF begin_pos + 2 < N
    THEN begin_pos' = begin_pos + 1 /\ UNCHANGED <<chunks, spare>>
    ELSE /\ begin_pos' = (begin_pos + 1) % N
         /\ IF Len(chunks) > 1 /\ begin_pos' = 0
            THEN chunks' = Tail(chunks) ELSE UNCHANGED chunks
         /\ spare' = Head(chunks)

\* yqueue_t::pop: the chunk that was read out becomes the spare one, and the
\* spare one before it is freed.
Pop ==
    IF begin_pos + 1 < N
    THEN begin_pos' = begin_pos + 1 /\ UNCHANGED <<chunks, spare>>
    ELSE begin_pos' = 0 /\ chunks' = Tail(chunks) /\ spare' = Head(chunks)

\* yqueue_t::push: when the last chunk is full, the spare one is appended, or
\* one that the allocator gives.
Push ==
    IF end_pos + 1 < N
    THEN end_pos' = end_pos + 1 /\ UNCHANGED <<chunks, spare>>
    ELSE /\ end_pos' = 0
         /\ spare' = None
         /\ \E k \in IF spare # None THEN {spare} ELSE Chunks \ InUse :
               chunks' = Append(chunks, k)

-----------------------------------------------------------------------------
\* The constructors: a terminator is in the queue, all pointers point to it,
\* and the first read, which finds nothing, has put the reader to sleep.
Init ==
    /\ \E k \in Chunks :
          /\ chunks = <<k>>
          /\ w = <<k, 0>> /\ f = <<k, 0>> /\ r = <<k, 0>>
    /\ spare = None
    /\ begin_pos = 0 /\ end_pos = 1
    /\ mem = [a \in Addr |-> 0]
    /\ c = None
    /\ sync = None
    /\ pc = [s \in Senders |-> "idle"]
    /\ ok = [s \in Senders |-> TRUE]
    /\ signals = 0
    /\ active = FALSE
    /\ rpc = "ready"
    /\ sent = 0
    /\ got = << >>
    /\ alive = TRUE

-----------------------------------------------------------------------------
(* mailbox_t::send.                                                         *)

Lock(s) ==
    /\ pc[s] = "idle"
    /\ sent < MaxSends
    /\ sync = None
    /\ sync' = s
    /\ pc' = [pc EXCEPT ![s] = "write"]
    /\ UNCHANGED <<queueVars, w, f, r, c, ok, sent, signals, receiverVars>>

\* ypipe_t::write of a complete item.
WriteCommand(s) ==
    /\ pc[s] = "write"
    /\ sent' = sent + 1
    /\ mem' = [mem EXCEPT ![Place(Back)] = sent + 1]
    /\ Push
    /\ f' = Place(Back)'
    /\ pc' = [pc EXCEPT ![s] = "flush"]
    /\ UNCHANGED <<begin_pos, w, r, c, sync, ok, signals, receiverVars>>

\* Mutant: the writer does not ask whether the reader sleeps.
FlushBlind(s) ==
    /\ pc[s] = "flush"
    /\ c' = f /\ w' = f
    /\ ok' = [ok EXCEPT ![s] = TRUE]
    /\ pc' = [pc EXCEPT ![s] = "unlock"]
    /\ UNCHANGED <<queueVars, f, r, sync, sent, signals, receiverVars>>

\* ypipe_t::flush: compare-and-swap of c from w to f.
Flush(s) ==
    /\ pc[s] = "flush"
    /\ IF c = w
       THEN /\ c' = f /\ w' = f
            /\ ok' = [ok EXCEPT ![s] = TRUE]
            /\ pc' = [pc EXCEPT ![s] = "unlock"]
       ELSE /\ pc' = [pc EXCEPT ![s] = "set"]
            /\ UNCHANGED <<c, w, ok>>
    /\ UNCHANGED <<queueVars, f, r, sync, sent, signals, receiverVars>>

\* The reader sleeps: c is set without care, and the caller is to wake it.
FlushSet(s) ==
    /\ pc[s] = "set"
    /\ c' = f /\ w' = f
    /\ ok' = [ok EXCEPT ![s] = FALSE]
    /\ pc' = [pc EXCEPT ![s] = "unlock"]
    /\ UNCHANGED <<queueVars, f, r, sync, sent, signals, receiverVars>>

\* Mutant: the sender signals whether the receiver sleeps or not.
UnlockSignalling(s) ==
    /\ pc[s] = "unlock"
    /\ sync' = None
    /\ pc' = [pc EXCEPT ![s] = "signal"]
    /\ UNCHANGED <<queueVars, w, f, r, c, ok, sent, signals, receiverVars>>

Unlock(s) ==
    /\ pc[s] = "unlock"
    /\ sync' = None
    /\ pc' = [pc EXCEPT ![s] = IF ok[s] THEN "idle" ELSE "signal"]
    /\ UNCHANGED <<queueVars, w, f, r, c, ok, sent, signals, receiverVars>>

\* signaler_t::send
Signal(s) ==
    /\ pc[s] = "signal"
    /\ signals' = signals + 1
    /\ pc' = [pc EXCEPT ![s] = "idle"]
    /\ UNCHANGED <<queueVars, w, f, r, c, sync, ok, sent, receiverVars>>

-----------------------------------------------------------------------------
(* mailbox_t::recv.                                                         *)

\* Mutant: the reader goes to sleep without telling the writer.
CheckReadQuiet ==
    /\ alive
    /\ \/ rpc = "ready" /\ active
       \/ rpc = "took"
    /\ IF r # None /\ r # Place(Front)
       THEN /\ rpc' = "pop"
            /\ UNCHANGED <<r, c, active>>
       ELSE /\ r' = c
            /\ UNCHANGED c
            /\ IF c # None /\ c # Place(Front)
               THEN rpc' = "pop" /\ UNCHANGED active
               ELSE /\ rpc' = IF rpc = "took" THEN "failed" ELSE "ready"
                    /\ active' = FALSE
    /\ UNCHANGED <<queueVars, w, f, senderVars, signals, got, alive>>

\* ypipe_t::check_read: unless something was prefetched, compare-and-swap of c
\* from the front to NULL.  A command must be there after a signal.
CheckRead ==
    /\ alive
    /\ \/ rpc = "ready" /\ active
       \/ rpc = "took"
    /\ IF r # None /\ r # Place(Front)
       THEN /\ rpc' = "pop"
            /\ UNCHANGED <<r, c, active>>
       ELSE /\ r' = c
            /\ c' = IF c = Place(Front) THEN None ELSE c
            /\ IF c # None /\ c # Place(Front)
               THEN rpc' = "pop" /\ UNCHANGED active
               ELSE /\ rpc' = IF rpc = "took" THEN "failed" ELSE "ready"
                    /\ active' = FALSE
    /\ UNCHANGED <<queueVars, w, f, senderVars, signals, got, alive>>

\* ypipe_t::read of a command that is there.
ReadCommand ==
    /\ rpc = "pop"
    /\ got' = Append(got, mem[Place(Front)])
    /\ Pop
    /\ rpc' = "ready"
    /\ UNCHANGED <<end_pos, mem, w, f, r, c, senderVars, signals, active, alive>>

\* signaler_t::wait finds a signal.  A wait that times out or is interrupted
\* ends the call and changes nothing.
Wait ==
    /\ alive
    /\ rpc = "ready" /\ ~active
    /\ signals > 0
    /\ rpc' = "signalled"
    /\ UNCHANGED <<queueVars, w, f, r, c, senderVars, signals, active, got, alive>>

\* signaler_t::recv_failable takes one signal, whatever else is there.
RecvSignal ==
    /\ rpc = "signalled"
    /\ signals' = signals - 1
    /\ active' = TRUE
    /\ rpc' = "took"
    /\ UNCHANGED <<queueVars, w, f, r, c, senderVars, got, alive>>

\* Mutant: the destructor does not wait for the mutex.
DestroyAtOnce ==
    /\ alive
    /\ rpc = "ready"
    /\ Len(got) = MaxSends
    /\ alive' = FALSE
    /\ UNCHANGED <<queueVars, w, f, r, c, senderVars, signals, active, rpc, got>>

\* ~mailbox_t, once the owner has got all commands it knows of: it takes the
\* mutex, because a sender may still be in send().
Destroy ==
    /\ alive
    /\ rpc = "ready"
    /\ Len(got) = MaxSends
    /\ sync = None
    /\ alive' = FALSE
    /\ UNCHANGED <<queueVars, w, f, r, c, senderVars, signals, active, rpc, got>>

Send(s) ==
    \/ Lock(s) \/ WriteCommand(s) \/ Flush(s) \/ FlushSet(s) \/ Unlock(s)
    \/ Signal(s)

Recv == CheckRead \/ ReadCommand \/ Wait \/ RecvSignal

Next == (\E s \in Senders : Send(s)) \/ Recv \/ Destroy

\* A sender that has the mutex goes on, and the receiver keeps calling recv.
Fairness ==
    /\ \A s \in Senders :
          /\ WF_vars(WriteCommand(s)) /\ WF_vars(Flush(s)) /\ WF_vars(FlushSet(s))
          /\ WF_vars(Unlock(s)) /\ WF_vars(Signal(s))
    /\ WF_vars(Recv)

Spec == Init /\ [][Next]_vars
FairSpec == Spec /\ Fairness

-----------------------------------------------------------------------------
(* What the mailbox guarantees.                                             *)

\* The commands from the front up to the place a points to.
Upto(a) ==
    LET n == CHOOSE i \in 0 .. Back : Place(i) = a
    IN  [i \in 1 .. n - Front |-> mem[Place(Front + i - 1)]]

Commands == INSTANCE Fifo WITH
    Items <- 1 .. MaxSends,
    queue <- Upto(w),
    taken <- got

\* The mailbox is a queue: a command is put when a flush publishes it and taken
\* when recv returns it, whatever the interleaving of lock-free steps and
\* however often the memory of chunks is used again.
ImplementsFifo == Commands!Spec

\* When recv has taken a signal there is a command: the assertion at the end of
\* mailbox_t::recv holds.
SignalMeansCommand == rpc # "failed"

\* A receiver that sleeps is owed exactly one signal if commands wait for it,
\* and none otherwise; it is in the signaler or a sender is about to send it.
OneWakeup ==
    LET waking == {s \in Senders : pc[s] = "signal" \/ (pc[s] = "unlock" /\ ~ok[s])}
    IN  /\ \A s, t \in waking : s = t
        /\ (~active /\ w # Place(Front)) =>
              (signals = 1 /\ waking = {}) \/ (signals = 0 /\ waking # {})
        /\ (active \/ w = Place(Front)) => signals = 0 /\ waking = {}

\* A chunk is in the queue once and is not the spare one, and no pointer
\* points to memory that was given back.
PointersLive ==
    /\ \A i, j \in 1 .. Len(chunks) : chunks[i] = chunks[j] => i = j
    /\ spare \notin InUse
    /\ {w[1], f[1], r[1]} \subseteq InUse
    /\ c # None => c[1] \in InUse

\* Nobody uses the mailbox after its destructor has run, although senders
\* signal after they have released the mutex.
NoUseAfterDestroy == ~alive => \A s \in Senders : pc[s] = "idle"

\* Every command is received: no wake-up is lost.
EventuallyReceived ==
    \A n \in 1 .. MaxSends : sent >= n ~> Len(got) >= n
=============================================================================

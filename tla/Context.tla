------------------------------- MODULE Context -------------------------------
(***************************************************************************)
(* The life of the ZeroMQ context: how the sockets of the bus and of its   *)
(* clients find one another (inproc bind and connect, ctx.cpp), and how    *)
(* they are taken down: zmq_close, the reaper thread (reaper.cpp), the     *)
(* handshake that ends a pipe (pipe.cpp), the counters that keep a socket  *)
(* until nobody refers to it (own.cpp), and zmq_ctx_term, on which         *)
(* ~EventBus waits.                                                        *)
(*                                                                         *)
(* A socket's commands wait in its mailbox, a queue (module Mailbox); one  *)
(* step handles those it finds.  What the library keeps is the record z;   *)
(* operators named after the library's functions map one such record to    *)
(* the next, in the order of the calls.                                    *)
(***************************************************************************)
EXTENDS Naturals, Sequences, FiniteSetsExt, SequencesExt

CONSTANTS
    Clients,   \* the EventClients
    Links,     \* the sockets of each that are modelled, <<"sub", "pub">> in the code
    Signals,   \* a signal may interrupt zmq_ctx_term
    None,      \* NULL
    MaxQueue   \* bound: messages that wait in one direction of a pipe

ASSUME ClientsAssumption == IsFiniteSet(Clients)
ASSUME LinksAssumption == Links \in {<<"sub">>, <<"pub">>, <<"sub", "pub">>}
ASSUME SignalsAssumption == Signals \in BOOLEAN
ASSUME MaxQueueAssumption == MaxQueue \in Nat

\* Sockets: those of the bus, those of the clients, and the PAIR sockets that
\* terminate() makes, one for each pending connection.
Bus == [i \in 1 .. Len(Links) |-> <<"bus", IF Links[i] = "sub" THEN "xpub" ELSE "xsub">>]
Connectors == Clients \X ToSet(Links)
PairOf(s) == Append(s, "pair")
Pairs == {PairOf(s) : s \in Connectors}
Sockets == ToSet(Bus) \cup Connectors \cup Pairs

\* The endpoint that a client's socket connects to is named by the bus's socket.
Target(s) == <<"bus", IF s[2] = "sub" THEN "xpub" ELSE "xsub">>

\* Every connection has one pipe, with two ends.
Ends == Connectors \X {"connect", "bind"}
Peer(e) == <<e[1], IF e[2] = "connect" THEN "bind" ELSE "connect">>

\* NULL is no object.
ASSUME ContextNoneAssumption == None \notin Sockets \cup Ends

VARIABLES
    z,           \* what the library keeps
    reaper,      \* the reaper thread: its mailbox and the sockets it has
    terminating, \* ctx_t::terminating
    cpc,         \* where each client is
    peer,        \* the endpoint each client's find_endpoint returned
    bpc,         \* where the thread that builds and destroys the EventBus is
    copy,        \* pending connections that terminate() has still to connect
    aborted      \* an assert() of EventClient's constructor failed

vars == <<z, reaper, terminating, cpc, peer, bpc, copy, aborted>>

-----------------------------------------------------------------------------
(* Commands and pipes.                                                      *)

Command(type, e) == [type |-> type, end |-> e]

\* object_t::send_command to the mailbox of socket s
SendTo(q, s, m) == [q EXCEPT !.mbox[s] = Append(@, m)]

\* A command to a pipe end goes to the socket whose thread id the end has.
Tell(q, e, type) == SendTo(q, q.pipe[e].tid, Command(type, e))

Require(q, p) == IF p THEN q ELSE [q EXCEPT !.ok = FALSE]

\* outpipe->write and flush: a reader that found its pipe empty is woken up.
Write(q, e, m) ==
    LET p == Peer(e)
        written == [q EXCEPT !.pipe[p].in = Append(@, m), !.pipe[p].asleep = FALSE]
    IN  IF q.pipe[p].asleep THEN Tell(written, p, "activate_read") ELSE written

\* Mutant: the end keeps what it writes to after it has acknowledged.
AcknowledgeKeeping(q, e, state) ==
    Tell([q EXCEPT !.pipe[e].state = state], Peer(e), "pipe_term_ack")

\* pipe_t::send_pipe_term_ack: this end is done with what it writes to.
Acknowledge(q, e, state) ==
    Tell([q EXCEPT !.pipe[e].state = state, !.pipe[e].out = FALSE],
         Peer(e), "pipe_term_ack")

\* Mutant: terminate() does not write the delimiter.
TerminateSilently(q, e, delay) ==
    LET q1 == [q EXCEPT !.pipe[e].delay = delay]
        state == q.pipe[e].state
    IN  CASE state \in {"active", "delimiter_received"} ->
               Tell([q1 EXCEPT !.pipe[e].state = "term_req_sent1"], Peer(e), "pipe_term")
          [] state = "waiting_for_delimiter" /\ ~delay ->
               Acknowledge(q1, e, "term_ack_sent")
          [] OTHER -> q1

\* pipe_t::terminate
Terminate(q, e, delay) ==
    LET q1 == [q EXCEPT !.pipe[e].delay = delay]
        state == q.pipe[e].state
        Delimit(qq) == IF qq.pipe[e].out THEN Write(qq, e, "delimiter") ELSE qq
    IN  CASE state \in {"active", "delimiter_received"} ->
               Delimit(Tell([q1 EXCEPT !.pipe[e].state = "term_req_sent1"],
                            Peer(e), "pipe_term"))
          [] state = "waiting_for_delimiter" /\ ~delay ->
               Acknowledge(q1, e, "term_ack_sent")
          [] state = "waiting_for_delimiter" /\ delay -> Delimit(q1)
          [] state \in {"term_req_sent1", "term_req_sent2", "term_ack_sent"} -> q1
          [] OTHER -> Require(q1, FALSE)

\* Mutant: the delimiter is acknowledged before the peer has asked.
ProcessDelimiterEager(q, e) ==
    IF q.pipe[e].state \in {"active", "waiting_for_delimiter"}
    THEN Acknowledge(q, e, "term_ack_sent") ELSE Require(q, FALSE)

\* pipe_t::process_delimiter
ProcessDelimiter(q, e) ==
    CASE q.pipe[e].state = "active" ->
           [q EXCEPT !.pipe[e].state = "delimiter_received"]
      [] q.pipe[e].state = "waiting_for_delimiter" ->
           Acknowledge(q, e, "term_ack_sent")
      [] OTHER -> Require(q, FALSE)

CanRead(q, e) ==
    q.pipe[e].in_active /\ q.pipe[e].state \in {"active", "waiting_for_delimiter"}

\* pipe_t::read until it returns false: everything up to the delimiter, if it is
\* there, and otherwise everything, and the pipe is inactive then.
ReadAll(q, e) ==
    LET taken == [q EXCEPT !.pipe[e].in = << >>]
    IN  IF "delimiter" \in ToSet(q.pipe[e].in)
        THEN ProcessDelimiter(taken, e)
        ELSE [taken EXCEPT !.pipe[e].in_active = FALSE, !.pipe[e].asleep = TRUE]

\* Mutant: what waits in the pipe is dropped when the peer goes.
ProcessPipeTermNow(q, e) ==
    CASE q.pipe[e].state \in {"active", "delimiter_received"} ->
           Acknowledge(q, e, "term_ack_sent")
      [] q.pipe[e].state = "term_req_sent1" -> Acknowledge(q, e, "term_req_sent2")
      [] OTHER -> Require(q, FALSE)

\* pipe_t::process_pipe_term
ProcessPipeTerm(q, e) ==
    CASE q.pipe[e].state = "active" /\ q.pipe[e].delay ->
           [q EXCEPT !.pipe[e].state = "waiting_for_delimiter"]
      [] \/ q.pipe[e].state = "active" /\ ~q.pipe[e].delay
         \/ q.pipe[e].state = "delimiter_received" ->
           Acknowledge(q, e, "term_ack_sent")
      [] q.pipe[e].state = "term_req_sent1" -> Acknowledge(q, e, "term_req_sent2")
      [] OTHER -> Require(q, FALSE)

\* pipe_t::process_activate_read; the socket then reads when it likes.
ProcessActivateRead(q, e) ==
    IF ~q.pipe[e].in_active /\ q.pipe[e].state \in {"active", "waiting_for_delimiter"}
    THEN Require([q EXCEPT !.pipe[e].in_active = TRUE], q.pipe[e].sink # None)
    ELSE q

-----------------------------------------------------------------------------
(* Sockets: own.cpp and socket_base.cpp.                                    *)

\* own_t::check_term_acks, with socket_base_t::process_destroy
CheckTermAcks(q, s) ==
    IF q.sock[s].terminating /\ q.sock[s].processed = q.sock[s].sent
          /\ q.sock[s].term_acks = 0
    THEN [q EXCEPT !.sock[s].destroyed = TRUE] ELSE q

ProcessSeqnum(q, s) == CheckTermAcks([q EXCEPT !.sock[s].processed = @ + 1], s)

IncSeqnum(q, s) == [q EXCEPT !.sock[s].sent = @ + 1]

\* socket_base_t::pipe_terminated
PipeTerminated(q, s, e) ==
    LET q1 == [q EXCEPT !.sock[s].pipes = @ \ {e},
                        !.sock[s].only = IF @ = e THEN None ELSE @]
    IN  IF ~q.sock[s].terminating THEN q1
        ELSE IF q.sock[s].term_acks = 0 THEN Require(q1, FALSE)
        ELSE CheckTermAcks([q1 EXCEPT !.sock[s].term_acks = @ - 1], s)

\* pipe_t::process_pipe_term_ack
ProcessPipeTermAck(q, e) ==
    IF q.pipe[e].sink = None THEN Require(q, FALSE)
    ELSE LET q1 == PipeTerminated(q, q.pipe[e].sink, e)
             q2 == IF q.pipe[e].state = "term_req_sent1"
                   THEN Acknowledge(q1, e, "term_req_sent1")
                   ELSE Require(q1, q.pipe[e].state \in {"term_ack_sent", "term_req_sent2"})
         IN  [q2 EXCEPT !.pipe[e].state = "deleted", !.pipe[e].in = << >>,
                        !.pipe[e].out = FALSE]

\* socket_base_t::attach_pipe, with xattach_pipe of PAIR, which keeps one pipe,
\* and of PUB, which never reads up to a delimiter.
AttachPipe(q, s, e) ==
    LET q1 == [q EXCEPT !.pipe[e].sink = s, !.sock[s].pipes = @ \cup {e},
                        !.pipe[e].delay = @ /\ ~(s \in Connectors /\ s[2] = "pub")]
        q2 == IF s \notin Pairs THEN q1
              ELSE IF q.sock[s].only = None THEN [q1 EXCEPT !.sock[s].only = e]
              ELSE Terminate(q1, e, FALSE)
    IN  IF q.sock[s].terminating
        THEN Terminate([q2 EXCEPT !.sock[s].term_acks = @ + 1], e, FALSE)
        ELSE q2

\* Mutant: a socket that terminates keeps its endpoints.
ProcessTermNamed(q, s) ==
    LET Stop(e, acc) == Terminate(acc, e, FALSE)
        q2 == FoldSet(Stop, q, q.sock[s].pipes)
    IN  CheckTermAcks([q2 EXCEPT !.sock[s].term_acks = @ + Cardinality(q.sock[s].pipes),
                                 !.sock[s].terminating = TRUE], s)

\* socket_base_t::process_term and own_t::process_term
ProcessTerm(q, s) ==
    LET q1 == [q EXCEPT !.endpoints = [a \in DOMAIN @ |-> IF @[a] = s THEN None ELSE @[a]]]
        Stop(e, acc) == Terminate(acc, e, FALSE)
        q2 == FoldSet(Stop, q1, q.sock[s].pipes)
    IN  CheckTermAcks([Require(q2, ~q.sock[s].terminating) EXCEPT
                         !.sock[s].term_acks = @ + Cardinality(q.sock[s].pipes),
                         !.sock[s].terminating = TRUE], s)

\* object_t::process_command of a command in the mailbox of s
ProcessCommand(q, s, m) ==
    CASE m.type = "activate_read" -> ProcessActivateRead(q, m.end)
      [] m.type = "pipe_term" -> ProcessPipeTerm(q, m.end)
      [] m.type = "pipe_term_ack" -> ProcessPipeTermAck(q, m.end)
      [] m.type = "bind" -> ProcessSeqnum(AttachPipe(q, s, m.end), s)
      [] m.type = "inproc_connected" -> ProcessSeqnum(q, s)
      [] m.type = "stop" -> [q EXCEPT !.sock[s].ctx_terminated = TRUE]

\* socket_base_t::process_commands: all the commands that are there.
ProcessCommands(q, s) ==
    LET Handle(acc, m) == ProcessCommand(acc, s, m)
    IN  FoldLeft(Handle, [q EXCEPT !.mbox[s] = << >>], q.mbox[s])

\* ctx_t::create_socket
CreateSocket(q, s) == [q EXCEPT !.sock[s].stage = "open"]

\* The sockets in the context's list.
Live(q) == {s \in Sockets : q.sock[s].stage \in {"open", "closed", "reaping"}}

-----------------------------------------------------------------------------
(* Endpoints: ctx.cpp.  Each operator runs under endpoints_sync.            *)

\* pipepair: the far end belongs to the peer, or for now to s itself.
PipePair(q, s, far) ==
    LET fresh(t) == [state |-> "active", delay |-> TRUE, in_active |-> TRUE,
                     asleep |-> FALSE, in |-> << >>, out |-> TRUE,
                     sink |-> None, tid |-> t]
    IN  [q EXCEPT !.pipe[<<s, "connect">>] = fresh(s),
                  !.pipe[<<s, "bind">>] = fresh(far)]

\* The part of connect_inproc_sockets before the sides differ: the routing id
\* that the connecting side wrote is read and dropped.
Adopt(q, b, s) ==
    LET e == <<s, "bind">>
        q1 == [IncSeqnum(q, b) EXCEPT !.pipe[e].tid = b]
    IN  IF CanRead(q1, e) /\ q1.pipe[e].in # << >> /\ Head(q1.pipe[e].in) = "id"
        THEN [q1 EXCEPT !.pipe[e].in = Tail(@)] ELSE Require(q1, FALSE)

\* connect_inproc_sockets on the binding side
ConnectBindSide(q, b, s) ==
    LET q1 == Adopt(q, b, s)
    IN  SendTo(ProcessSeqnum(AttachPipe(q1, b, <<s, "bind">>), b),
               s, Command("inproc_connected", None))

\* connect_pending
ConnectPending(q, b, a) ==
    LET Join(acc, s) == ConnectBindSide(acc, b, s)
    IN  [FoldLeft(Join, q, q.pending[a]) EXCEPT !.pending[a] = << >>]

\* The connections that wait for a bind, of any endpoint.
Pending(q) == UNION {ToSet(q.pending[a]) : a \in ToSet(Bus)}

\* pend_connection
PendConnection(q, s) ==
    LET b == q.endpoints[Target(s)]
    IN  IF b = None
        THEN [IncSeqnum(q, s) EXCEPT !.pending[Target(s)] = Append(@, s)]
        ELSE SendTo(Adopt(q, b, s), b, Command("bind", <<s, "bind">>))

-----------------------------------------------------------------------------
Init ==
    /\ z = [sock |-> [s \in Sockets |->
                [stage |-> "none", pipes |-> {}, only |-> None, term_acks |-> 0,
                 sent |-> 0, processed |-> 0, terminating |-> FALSE,
                 destroyed |-> FALSE, ctx_terminated |-> FALSE]],
            pipe |-> [e \in Ends |->
                [state |-> "none", delay |-> TRUE, in_active |-> TRUE,
                 asleep |-> FALSE, in |-> << >>, out |-> FALSE,
                 sink |-> None, tid |-> e[1]]],
            mbox |-> [s \in Sockets |-> << >>],
            endpoints |-> [a \in ToSet(Bus) |-> None],
            pending |-> [a \in ToSet(Bus) |-> << >>],
            ok |-> TRUE]
    /\ reaper = [mbox |-> << >>, sockets |-> 0, stop |-> FALSE, done |-> FALSE]
    /\ terminating = FALSE
    /\ cpc = [k \in Clients |-> <<"create", 1>>]
    /\ peer = [k \in Clients |-> None]
    /\ bpc = <<"create", 1>>
    /\ copy = {}
    /\ aborted = FALSE

-----------------------------------------------------------------------------
(* A client: the constructor and destructor of EventClient.  cpc[k] is the  *)
(* next step and the socket it is about.                                    *)

Socket(k) == <<k, Links[cpc[k][2]]>>

Go(k, step, i) == cpc' = [cpc EXCEPT ![k] = <<step, i>>]

\* terminate() holds slot_sync while it connects pending connections.
SlotSyncFree == bpc[1] \notin {"pairs", "pair"}

\* zmq_socket returns NULL once the context terminates, and assert() aborts.
Create(k) ==
    /\ cpc[k][1] = "create"
    /\ SlotSyncFree
    /\ IF terminating
       THEN aborted' = TRUE /\ UNCHANGED <<z, cpc>>
       ELSE /\ z' = CreateSocket(z, Socket(k))
            /\ Go(k, "find", cpc[k][2])
            /\ UNCHANGED aborted
    /\ UNCHANGED <<reaper, terminating, peer, bpc, copy>>

\* Mutant: the peer that was found is not kept.
FindEndpointBare(k) ==
    /\ cpc[k][1] = "find"
    /\ LET q == ProcessCommands(z, Socket(k))
       IN  IF q.sock[Socket(k)].ctx_terminated
           THEN aborted' = TRUE /\ UNCHANGED <<z, cpc, peer>>
           ELSE /\ peer' = [peer EXCEPT ![k] = q.endpoints[Target(Socket(k))]]
                /\ z' = q
                /\ Go(k, "connect", cpc[k][2])
                /\ UNCHANGED aborted
    /\ UNCHANGED <<reaper, terminating, bpc, copy>>

\* zmq_connect, first part: commands are processed, then find_endpoint, which
\* keeps the peer until it has got its bind command.
FindEndpoint(k) ==
    /\ cpc[k][1] = "find"
    /\ LET q == ProcessCommands(z, Socket(k))
           b == q.endpoints[Target(Socket(k))]
       IN  IF q.sock[Socket(k)].ctx_terminated
           THEN aborted' = TRUE /\ UNCHANGED <<z, cpc, peer>>
           ELSE /\ peer' = [peer EXCEPT ![k] = b]
                /\ z' = IF b = None THEN q ELSE IncSeqnum(q, b)
                /\ Go(k, "connect", cpc[k][2])
                /\ UNCHANGED aborted
    /\ UNCHANGED <<reaper, terminating, bpc, copy>>

\* zmq_connect, second part: the pipe is made and the peer told of it; without
\* a peer the connection is left pending.
Connect(k) ==
    /\ cpc[k][1] = "connect"
    /\ LET s == Socket(k)
           joined ==
             IF peer[k] # None
             THEN SendTo(PipePair(z, s, peer[k]), peer[k], Command("bind", <<s, "bind">>))
             ELSE PendConnection(Write(PipePair(z, s, s), <<s, "connect">>, "id"), s)
       IN  z' = AttachPipe(joined, s, <<s, "connect">>)
    /\ peer' = [peer EXCEPT ![k] = None]
    /\ IF cpc[k][2] < Len(Links) THEN Go(k, "create", cpc[k][2] + 1)
       ELSE Go(k, "close", Len(Links))
    /\ UNCHANGED <<reaper, terminating, bpc, copy, aborted>>

\* zmq_close hands the socket over to the reaper.
CloseSocket(q, s) == [q EXCEPT !.sock[s].stage = "closed"]
Reap(s) == reaper' = [reaper EXCEPT !.mbox = Append(@, <<"reap", s>>)]

\* zmq_disconnect, where term_endpoint ends the pipe to that endpoint, and
\* zmq_close.  The code names the wrong endpoint for _pub_socket, whose pipe
\* zmq_disconnect therefore leaves alone.
Close(k) ==
    /\ cpc[k][1] = "close"
    /\ LET s == Socket(k)
           q == ProcessCommands(z, s)
           e == <<s, "connect">>
       IN  /\ z' = CloseSocket(
                     IF q.sock[s].ctx_terminated \/ s[2] = "pub" \/ e \notin q.sock[s].pipes
                     THEN q ELSE Terminate(q, e, TRUE), s)
           /\ Reap(s)
    /\ IF cpc[k][2] > 1 THEN Go(k, "close", cpc[k][2] - 1) ELSE Go(k, "gone", 1)
    /\ UNCHANGED <<terminating, peer, bpc, copy, aborted>>

\* EventClient::EventClient and ~EventClient
ClientThread(k) ==
    Create(k) \/ FindEndpoint(k) \/ Connect(k) \/ Close(k)

-----------------------------------------------------------------------------
(* Sockets in the hands of their application thread.                        *)

Using(s) == z.sock[s].stage = "open" /\ s \notin Pairs

\* Every call on a socket, and every event of zmq_poll, processes commands.
SocketCommands(s) ==
    /\ Using(s)
    /\ z.mbox[s] # << >>
    /\ z' = ProcessCommands(z, s)
    /\ UNCHANGED <<reaper, terminating, cpc, peer, bpc, copy, aborted>>

SocketRead(e) ==
    /\ z.pipe[e].sink # None /\ Using(z.pipe[e].sink)
    /\ CanRead(z, e)
    /\ z' = ReadAll(z, e)
    /\ UNCHANGED <<reaper, terminating, cpc, peer, bpc, copy, aborted>>

\* Events flow from the publisher to the bus and from the bus to the subscriber.
SocketWrite(e) ==
    /\ e[2] = IF e[1][2] = "pub" THEN "connect" ELSE "bind"
    /\ z.pipe[e].sink # None /\ Using(z.pipe[e].sink)
    /\ z.pipe[e].state = "active"
    /\ Len(z.pipe[Peer(e)].in) < MaxQueue
    /\ z' = Write(z, e, "msg")
    /\ UNCHANGED <<reaper, terminating, cpc, peer, bpc, copy, aborted>>

-----------------------------------------------------------------------------
(* The thread that builds and destroys the EventBus.                        *)

\* EventBus::EventBus, for each socket: zmq_socket, and zmq_bind in two parts.
BusRegister(i) ==
    /\ bpc = <<"create", i>>
    /\ z' = [CreateSocket(z, Bus[i]) EXCEPT !.endpoints[Bus[i]] = Bus[i]]
    /\ bpc' = <<"bind", i>>
    /\ UNCHANGED <<reaper, terminating, cpc, peer, copy, aborted>>

BusConnectPending(i) ==
    /\ bpc = <<"bind", i>>
    /\ z' = ConnectPending(z, Bus[i], Bus[i])
    /\ bpc' = IF i < Len(Bus) THEN <<"create", i + 1>> ELSE <<"close", 1>>
    /\ UNCHANGED <<reaper, terminating, cpc, peer, copy, aborted>>

\* EventBus::~EventBus: zmq_disconnect, which only unregisters the endpoint, and
\* zmq_close.
BusClose(i) ==
    /\ bpc = <<"close", i>>
    /\ LET q == ProcessCommands(z, Bus[i])
       IN  z' = CloseSocket([q EXCEPT !.endpoints[Bus[i]] = IF @ = Bus[i] THEN None ELSE @],
                            Bus[i])
    /\ Reap(Bus[i])
    /\ bpc' = IF i < Len(Bus) THEN <<"close", i + 1>> ELSE <<"terminate", 0>>
    /\ UNCHANGED <<terminating, cpc, peer, copy, aborted>>

\* ctx_t::terminate: pending connections are connected to PAIR sockets.
TerminateBegin ==
    /\ bpc = <<"terminate", 0>>
    /\ copy' = Pending(z)
    /\ bpc' = <<"pairs", 0>>
    /\ UNCHANGED <<z, reaper, terminating, cpc, peer, aborted>>

\* A PAIR socket binds the endpoint, unless another one has.
PairBind ==
    /\ bpc = <<"pairs", 0>>
    /\ \E s \in copy :
          /\ z.endpoints[Target(s)] = None
          /\ z' = [CreateSocket(z, PairOf(s)) EXCEPT !.endpoints[Target(s)] = PairOf(s)]
          /\ bpc' = <<"pair", s>>
    /\ UNCHANGED <<reaper, terminating, cpc, peer, copy, aborted>>

PairConnect ==
    /\ bpc[1] = "pair"
    /\ LET p == PairOf(bpc[2])
       IN  /\ z' = CloseSocket(ConnectPending(z, p, Target(bpc[2])), p)
           /\ Reap(p)
    /\ copy' = copy \ {bpc[2]}
    /\ bpc' = <<"pairs", 0>>
    /\ UNCHANGED <<terminating, cpc, peer, aborted>>

PairBindFails ==
    /\ bpc = <<"pairs", 0>>
    /\ \E s \in copy :
          /\ z.endpoints[Target(s)] # None
          /\ z' = CloseSocket(CreateSocket(z, PairOf(s)), PairOf(s))
          /\ Reap(PairOf(s))
          /\ copy' = copy \ {s}
    /\ UNCHANGED <<terminating, cpc, peer, bpc, aborted>>

\* The stop command goes to every socket, or to the reaper if there is none.
TerminateStop ==
    /\ bpc = <<"pairs", 0>>
    /\ copy = {}
    /\ terminating' = TRUE
    /\ z' = [z EXCEPT !.mbox = [s \in Sockets |->
               IF s \in Live(z) THEN Append(@[s], Command("stop", None)) ELSE @[s]]]
    /\ reaper' = IF Live(z) = {}
                 THEN [reaper EXCEPT !.mbox = Append(@, <<"stop", None>>)] ELSE reaper
    /\ bpc' = <<"wait", 0>>
    /\ UNCHANGED <<cpc, peer, copy, aborted>>

\* The done command: the context is deleted.
TerminateEnd ==
    /\ bpc = <<"wait", 0>>
    /\ reaper.done
    /\ z' = Require(z, Live(z) = {})
    /\ bpc' = <<"dead", 0>>
    /\ UNCHANGED <<reaper, terminating, cpc, peer, copy, aborted>>

\* A signal interrupts the wait; ~EventBus goes on and does not ask again.
TerminateInterrupted ==
    /\ Signals
    /\ bpc = <<"wait", 0>>
    /\ bpc' = <<"interrupted", 0>>
    /\ UNCHANGED <<z, reaper, terminating, cpc, peer, copy, aborted>>

BusThread ==
    \/ \E i \in 1 .. Len(Bus) : \/ BusRegister(i) \/ BusConnectPending(i) \/ BusClose(i)
    \/ TerminateBegin \/ PairBind \/ PairConnect \/ PairBindFails
    \/ TerminateStop \/ TerminateEnd

-----------------------------------------------------------------------------
(* The reaper thread: its own mailbox, and in_event of the sockets it has.  *)

\* Sockets that are about to be deleted: the reaper does nothing else then.
Doomed == {s \in Sockets : z.sock[s].stage = "reaping" /\ z.sock[s].destroyed}

\* Mutant: the reaper is not told when the last socket has gone.
DestroySocketQuiet ==
    /\ SlotSyncFree
    /\ \E s \in Doomed : z' = [z EXCEPT !.sock[s].stage = "gone"]
    /\ reaper' = [reaper EXCEPT !.mbox = Append(@, <<"reaped", None>>)]
    /\ UNCHANGED <<terminating, cpc, peer, bpc, copy, aborted>>

\* socket_base_t::check_destroy and ctx_t::destroy_socket
DestroySocket ==
    /\ SlotSyncFree
    /\ \E s \in Doomed :
          LET q == [z EXCEPT !.sock[s].stage = "gone"]
              stop == IF terminating /\ Live(q) = {} THEN <<<<"stop", None>>>> ELSE << >>
          IN  /\ z' = Require(q, z.sock[s].only = None)
              /\ reaper' = [reaper EXCEPT !.mbox = @ \o stop \o <<<<"reaped", None>>>>]
    /\ UNCHANGED <<terminating, cpc, peer, bpc, copy, aborted>>

Done(rp) == rp.stop /\ rp.sockets = 0

\* reaper_t::in_event, one command: process_reap with start_reaping,
\* process_reaped, process_stop.
ReaperCommand ==
    /\ Doomed = {} /\ ~reaper.done
    /\ reaper.mbox # << >>
    /\ LET m == Head(reaper.mbox)
           rp == [reaper EXCEPT !.mbox = Tail(@)]
       IN  \/ /\ m[1] = "reap"
              /\ z' = ProcessTerm([z EXCEPT !.sock[m[2]].stage = "reaping"], m[2])
              /\ reaper' = [rp EXCEPT !.sockets = @ + 1]
           \/ /\ m[1] = "reaped"
              /\ reaper' = LET r1 == [rp EXCEPT !.sockets = @ - 1]
                           IN  [r1 EXCEPT !.done = Done(r1)]
              /\ UNCHANGED z
           \/ /\ m[1] = "stop"
              /\ reaper' = LET r1 == [rp EXCEPT !.stop = TRUE]
                           IN  [r1 EXCEPT !.done = Done(r1)]
              /\ UNCHANGED z
    /\ UNCHANGED <<terminating, cpc, peer, bpc, copy, aborted>>

\* socket_base_t::in_event
ReapedSocket(s) ==
    /\ Doomed = {} /\ ~reaper.done
    /\ z.sock[s].stage = "reaping"
    /\ z.mbox[s] # << >>
    /\ z' = ProcessCommands(z, s)
    /\ UNCHANGED <<reaper, terminating, cpc, peer, bpc, copy, aborted>>

Reaper == DestroySocket \/ ReaperCommand \/ \E s \in Sockets : ReapedSocket(s)

-----------------------------------------------------------------------------
Next ==
    /\ ~aborted
    /\ \/ \E k \in Clients : ClientThread(k)
       \/ \E s \in Sockets : SocketCommands(s)
       \/ \E e \in Ends : SocketRead(e) \/ SocketWrite(e)
       \/ BusThread \/ TerminateInterrupted
       \/ Reaper

Spec == Init /\ [][Next]_vars

\* Every thread goes on with what it has begun, and the proxy thread and the
\* reaper serve their sockets.  Nobody has to build or destroy anything: a client
\* may never be built, or stay up for good, and the bus too.
Fairness ==
    /\ \A k \in Clients :
          WF_vars(/\ ClientThread(k) /\ ~aborted
                  /\ cpc[k] \notin {<<"create", 1>>, <<"close", Len(Links)>>})
    /\ \A s \in Sockets : WF_vars(SocketCommands(s) /\ ~aborted)
    /\ \A s \in Connectors : WF_vars(SocketRead(<<s, "bind">>) /\ ~aborted)
    /\ WF_vars(BusThread /\ bpc # <<"close", 1>> /\ ~aborted)
    /\ WF_vars(Reaper /\ ~aborted)

FairSpec == Spec /\ Fairness

-----------------------------------------------------------------------------
(* What the library and its users rely on.                                  *)

\* No zmq_assert fails on the way down: pipes take only the steps their state
\* allows, in whatever order the two ends are closed, acknowledgements are
\* never short, no socket terminates twice, and a context ends without sockets.
AssertionsHold == z.ok

\* No command but stop, which it need not see, is lost with a socket or sent to
\* it after it was deleted, and none is meant for a pipe end that was deleted:
\* handling it would be a use of freed memory.
NoCommandToTheDead ==
    \A s \in Sockets : \A m \in ToSet(z.mbox[s]) :
       /\ z.sock[s].stage = "gone" => m.type = "stop"
       /\ m.end # None => z.pipe[m.end].state # "deleted"

\* A socket that has been deleted is no endpoint, no thread is about to connect
\* to it, no connection waits for it and no pipe end reports to it.
NothingNamesTheDead ==
    \A s \in Sockets : z.sock[s].stage = "gone" =>
       /\ \A a \in DOMAIN z.endpoints : z.endpoints[a] # s
       /\ \A k \in Clients : peer[k] # s
       /\ s \notin Pending(z)
       /\ \A e \in Ends : z.pipe[e].sink = s => z.pipe[e].state = "deleted"

\* The queue an end writes to lives: it is deleted with the peer, after the end
\* has let go of it.
OutpipeLive ==
    \A e \in Ends : z.pipe[e].out => z.pipe[Peer(e)].state # "deleted"

\* Events a client published before it went are not lost: as long as the bus is
\* open, its end of the pipe goes only when everything in it has been read.
ReadBeforeGone ==
    \A s \in Connectors :
       LET p == z.pipe[<<s, "bind">>]
       IN  /\ p.sink # None
           /\ p.sink \notin Pairs
           /\ z.sock[p.sink].stage = "open"
           /\ p.state \in {"term_ack_sent", "delimiter_received"}
           => "msg" \notin ToSet(p.in)

\* A client's socket that was closed goes, unless it waits for a bind that
\* nobody has made.
ClosedClientsGo ==
    \A s \in Connectors :
       (z.sock[s].stage = "closed") ~>
          (z.sock[s].stage = "gone" \/ s \in Pending(z) \/ aborted)

AllClosed == \A s \in Sockets : z.sock[s].stage # "open"

\* zmq_ctx_term returns, so ~EventBus does, once every socket is closed and no
\* connection is left pending.
TerminateReturns ==
    (bpc = <<"wait", 0>> /\ AllClosed /\ Pending(z) = {}) ~>
       (bpc \in {<<"dead", 0>>, <<"interrupted", 0>>} \/ aborted)

\* The documentation of zmq_ctx_term lets it wait only for sockets that are open
\* and for messages that linger.
TerminateWaitsForClose ==
    (bpc = <<"wait", 0>> /\ AllClosed) ~>
       (bpc \in {<<"dead", 0>>, <<"interrupted", 0>>} \/ aborted)
=============================================================================

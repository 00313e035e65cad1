------------------------------ MODULE EventBus ------------------------------
(***************************************************************************)
(* The bus: every EventClient has a SUB socket connected to the XPUB and a *)
(* PUB socket connected to the XSUB of the EventBus, whose thread runs     *)
(* zmq_proxy between the two (EventBus.cpp).  Subscriptions travel         *)
(* SUB -> XPUB -> proxy -> XSUB -> every PUB, each of which keeps a copy   *)
(* and filters with it; events travel PUB -> XSUB -> proxy -> XPUB -> SUB. *)
(* Threads share nothing but the pipes, and every pipe may overflow.       *)
(***************************************************************************)
EXTENDS Pipe, FiniteSets, Functions

CONSTANTS
    Types,        \* the event types
    Prefixes,     \* Prefixes[t]: the types that are a prefix of t
    Clients,      \* the EventClients
    MaxOps,       \* bound: subscriptions and unsubscriptions
    MaxPublish    \* bound: events published

ASSUME BusTypesAssumption ==
    /\ IsFiniteSet(Types)
    /\ Cardinality(Types) <= Hwm
    /\ Prefixes \in [Types -> SUBSET Types]
    /\ \A t \in Types : t \in Prefixes[t]
ASSUME BusBoundsAssumption == MaxOps \in Nat /\ MaxPublish \in Nat

VARIABLES
    running,   \* begin() was called: the proxy thread runs
    open,      \* the clients whose sockets are open
    gone,      \* the clients whose sockets were closed
    table,     \* table[c]: what the SUB of c is subscribed to
    subs,      \* subs[c]: the pipe SUB -> XPUB of subscriptions
    xpub,      \* xpub[t]: the clients XPUB holds for t (mtrie)
    pending,   \* XPUB's notifications for the proxy
    xsub,      \* xsub[t]: XSUB's count for t (trie)
    attached,  \* the clients whose PUB is attached to XSUB
    ctl,       \* ctl[c]: the pipe XSUB -> PUB of subscriptions
    filter,    \* filter[c]: what the PUB of c lets through
    up,        \* up[c]: the pipe PUB -> XSUB of events
    turn,      \* what the proxy still has to do in this round
    log,       \* the events the proxy has forwarded, in order
    down,      \* down[c]: the pipe XPUB -> SUB of events, by their place in log
    got,       \* got[c]: the events handed to c, by their place in log
    ops, sent, \* how many operations and events there were
    owed,      \* pairs <<event, client>>: accepted for c, not yet accounted for
    lost,      \* the clients whose SUB dropped a subscription message
    deaf,      \* the clients whose PUB missed a subscription message
    behind     \* the clients that may miss an event in this round of the proxy

clientVars == <<open, gone, table>>
ctlVars == <<subs, xpub, pending, xsub, attached, ctl, filter>>
eventVars == <<up, log, down, got, owed>>
counters == <<ops, sent>>
lossVars == <<lost, deaf, behind>>
vars == <<running, clientVars, ctlVars, turn, eventVars, counters, lossVars>>

-----------------------------------------------------------------------------
Op == [on : BOOLEAN, type : Types]
Event == [pub : Clients, num : Nat, type : Types]

\* Mutant: filters compare whole types.
MatchExact(S, t) == t \in S

\* A filter that holds the types S lets t through (prefix matching).
Match(S, t) == S \cap Prefixes[t] # {}

\* The last operation on t in the queue q, or the state it will change.
Settled(q, t, now) ==
    IF \E i \in 1 .. Len(q) : q[i].type = t
    THEN \E i \in 1 .. Len(q) :
            /\ q[i] = [on |-> TRUE, type |-> t]
            /\ \A j \in i + 1 .. Len(q) : q[j].type # t
    ELSE now

\* No operation on t is under way in q.
Quiet(q, t) == \A i \in 1 .. Len(q) : q[i].type # t

\* The types c is subscribed to as far as XPUB knows.
XpubTypes(c) == {t \in Types : c \in xpub[t]}

\* All orders in which the types S may be written to a pipe as operations.
Writings(S, on) == Bijection(1 .. Cardinality(S), [on : {on}, type : S])

-----------------------------------------------------------------------------
Init ==
    /\ running = FALSE
    /\ open = {} /\ gone = {}
    /\ table = [c \in Clients |-> {}]
    /\ subs = [c \in Clients |-> NewPipe]
    /\ xpub = [t \in Types |-> {}]
    /\ pending = << >>
    /\ xsub = [t \in Types |-> 0]
    /\ attached = {}
    /\ ctl = [c \in Clients |-> NewPipe]
    /\ filter = [c \in Clients |-> {}]
    /\ up = [c \in Clients |-> NewPipe]
    /\ turn = "poll"
    /\ log = << >>
    /\ down = [c \in Clients |-> NewPipe]
    /\ got = [c \in Clients |-> << >>]
    /\ ops = 0 /\ sent = 0
    /\ owed = {}
    /\ lost = {} /\ deaf = {} /\ behind = {}

-----------------------------------------------------------------------------
(* The threads of the clients.                                              *)

\* The constructor of EventClient connects both sockets; an inproc endpoint
\* need not be bound yet.
Connect(c) ==
    /\ c \notin open \cup gone
    /\ open' = open \cup {c}
    /\ UNCHANGED <<running, gone, table, ctlVars, turn, eventVars, counters, lossVars>>

\* zmq_setsockopt on the SUB socket: the operation is entered in the socket's
\* own table and written to the pipe, which may be full.
SetSockOpt(c, t, on) ==
    /\ c \in open
    /\ ops < MaxOps
    /\ ops' = ops + 1
    /\ subs' = [subs EXCEPT ![c] = Write(@, [on |-> on, type |-> t])]
    /\ lost' = IF Full(subs[c]) THEN lost \cup {c} ELSE lost

\* The first observer of t registers with c.
Subscribe(c, t) ==
    /\ t \notin table[c]
    /\ SetSockOpt(c, t, TRUE)
    /\ table' = [table EXCEPT ![c] = @ \cup {t}]
    /\ UNCHANGED <<running, open, gone, xpub, pending, xsub, attached, ctl,
                   filter, turn, eventVars, sent, deaf, behind>>

\* The last observer of t unregisters: c waives what it would receive by t.
Unsubscribe(c, t) ==
    /\ t \in table[c]
    /\ SetSockOpt(c, t, FALSE)
    /\ table' = [table EXCEPT ![c] = @ \ {t}]
    /\ owed' = {o \in owed : o[2] # c \/ t \notin Prefixes[o[1].type]}
    /\ UNCHANGED <<running, open, gone, xpub, pending, xsub, attached, ctl,
                   filter, turn, up, log, down, got, sent, deaf,
                   behind>>

\* publish_event: zmq_send first processes the commands of the PUB socket,
\* unless it did so a moment ago, and then filters.
PublishEvent(c, t) ==
    /\ c \in open
    /\ sent < MaxPublish
    /\ sent' = sent + 1
    /\ \E busy \in BOOLEAN :
        LET known == IF busy THEN filter[c]
                     ELSE {u \in Types :
                              Settled(ctl[c].q, u, u \in filter[c])}
            pipe  == IF busy THEN up[c] ELSE Sync(up[c])
            e     == [pub |-> c, num |-> sent + 1, type |-> t]
        IN  /\ filter' = [filter EXCEPT ![c] = known]
            /\ ctl' = IF busy THEN ctl ELSE [ctl EXCEPT ![c] = ReadAll(@)]
            /\ IF Match(known, t) /\ ~Full(pipe)
               THEN /\ up' = [up EXCEPT ![c] = Write(pipe, e)]
                    /\ owed' = owed \cup
                         {<<e, d>> : d \in {d \in open :
                            \E u \in Prefixes[t] : /\ u \in table[d]
                                                   /\ d \in xpub[u]
                                                   /\ Quiet(subs[d].q, u)}}
               ELSE /\ up' = [up EXCEPT ![c] = pipe]
                    /\ UNCHANGED owed
    /\ UNCHANGED <<running, clientVars, subs, xpub, pending, xsub, attached,
                   turn, log, down, got, ops, lossVars>>

\* handle_event with a message in the pipe: the SUB socket drops what its own
\* table no longer matches.  zmq_poll processes the socket's commands, unless
\* XPUB has stored one and not signalled it yet.
HandleEvent(c) ==
    /\ c \in open
    /\ down[c].q # << >>
    /\ subs' \in {subs, [subs EXCEPT ![c] = Sync(@)]}
    /\ down' = [down EXCEPT ![c] = Read(@)]
    /\ LET pos == Head(down[c].q)
       IN  IF Match(table[c], log[pos].type)
           THEN /\ got' = [got EXCEPT ![c] = Append(@, pos)]
                /\ owed' = owed \ {<<log[pos], c>>}
           ELSE UNCHANGED <<got, owed>>
    /\ UNCHANGED <<running, clientVars, xpub, pending, xsub, attached, ctl,
                   filter, turn, up, log, counters, lossVars>>

\* handle_event without a message.
HandleTimeout(c) ==
    /\ c \in open
    /\ down[c].q = << >>
    /\ subs' = [subs EXCEPT ![c] = Sync(@)]
    /\ UNCHANGED <<running, clientVars, xpub, pending, xsub, attached, ctl,
                   filter, turn, eventVars, counters, lossVars>>

\* The destructor of EventClient closes both sockets.
Close(c) ==
    /\ c \in open
    /\ open' = open \ {c}
    /\ gone' = gone \cup {c}
    /\ table' = [table EXCEPT ![c] = {}]
    /\ attached' = attached \ {c}
    /\ down' = [down EXCEPT ![c] = NewPipe]
    /\ owed' = {o \in owed : o[2] # c}
    /\ UNCHANGED <<running, subs, xpub, pending, xsub, ctl, filter, turn, up,
                   log, got, counters, lossVars>>

-----------------------------------------------------------------------------
(* The thread of the bus.                                                   *)

\* begin() starts the thread that runs zmq_proxy.
Begin ==
    /\ ~running
    /\ running' = TRUE
    /\ UNCHANGED <<clientVars, ctlVars, turn, eventVars, counters, lossVars>>

\* Mutant: a new PUB is not told the subscriptions XSUB already holds.
AttachPubBare(c) ==
    /\ running
    /\ c \in open \ attached
    /\ attached' = attached \cup {c}
    /\ UNCHANGED <<running, clientVars, subs, xpub, pending, xsub, ctl, filter,
                   turn, eventVars, counters, lossVars>>

\* XSUB attaches a new PUB and passes it the subscriptions it holds.
AttachPub(c) ==
    /\ running
    /\ c \in open \ attached
    /\ attached' = attached \cup {c}
    /\ \E s \in Writings({t \in Types : xsub[t] > 0}, TRUE) :
          ctl' = [ctl EXCEPT ![c] =
                     [q |-> s, written |-> Len(s), acked |-> 0]]
    /\ UNCHANGED <<running, clientVars, subs, xpub, pending, xsub, filter,
                   turn, eventVars, counters, lossVars>>

\* XPUB applies a subscription of c and notifies the proxy when it was the
\* first for its type, or an unsubscription that left nobody or removed
\* nothing.
ReadSubscription(c) ==
    /\ running
    /\ subs[c].q # << >>
    /\ subs' = [subs EXCEPT ![c] = Read(@)]
    /\ LET op  == Head(subs[c].q)
           was == xpub[op.type]
           now == IF op.on THEN was \cup {c} ELSE was \ {c}
           notify == IF op.on THEN was = {} ELSE now = {} \/ c \notin was
       IN  /\ xpub' = [xpub EXCEPT ![op.type] = now]
           /\ pending' = IF notify THEN Append(pending, op) ELSE pending
    /\ UNCHANGED <<running, clientVars, xsub, attached, ctl, filter, turn,
                   eventVars, counters, lossVars>>

\* XPUB notices that the SUB of c is gone, once its pipe is read out.
DetachSub(c) ==
    /\ running
    /\ c \in gone
    /\ subs[c].q = << >>
    /\ XpubTypes(c) # {}
    /\ xpub' = [t \in Types |-> xpub[t] \ {c}]
    /\ \E s \in Writings({t \in Types : xpub[t] = {c}}, FALSE) :
          pending' = pending \o s
    /\ UNCHANGED <<running, clientVars, subs, xsub, attached, ctl, filter,
                   turn, eventVars, counters, lossVars>>

\* What a socket of the bus knows of its pipes once it has processed the
\* commands in its mailbox.  Those of the clients late come late: of all of
\* them when the socket does not look, of some when a client has stored a
\* command and not signalled it yet, which holds up what is stored after it.
Known(pipes, late) ==
    [c \in Clients |-> IF c \in late THEN pipes[c] ELSE Sync(pipes[c])]

EventsWait == \E c \in Clients : up[c].q # << >>

\* The clients that can look full to XPUB in a round that starts with a poll on
\* XPUB: those with more than Hwm - Lwm events waiting and those of which the
\* poll missed an acknowledgement (history).
MayLookFull(late) ==
    {c \in Clients :
        /\ EventsWait
        /\ \/ Len(down[c].q) > Hwm - Lwm
           \/ c \in late /\ Sync(down[c]) # down[c]}

\* Mutant: zmq_poll looks into XPUB's mailbox as seldom as zmq_send does.
PollSocketsThrottled(xpubLate, xsubLate) ==
    /\ ctl' = Known(ctl, xsubLate)
    /\ behind' = MayLookFull(xpubLate)
    /\ UNCHANGED <<running, clientVars, subs, xpub, pending, xsub, attached,
                   filter, eventVars, counters, lost, deaf>>

\* zmq_poll on XSUB and XPUB makes both process their commands.
PollSockets(xpubLate, xsubLate) ==
    /\ down' = Known(down, xpubLate)
    /\ ctl' = Known(ctl, xsubLate)
    /\ behind' = MayLookFull(xpubLate)
    /\ UNCHANGED <<running, clientVars, subs, xpub, pending, xsub, attached,
                   filter, up, log, got, owed, counters, lost, deaf>>

\* Mutant: the proxy wakes up for events only.
PollEvents ==
    /\ running
    /\ turn = "poll"
    /\ EventsWait
    /\ turn' = IF pending # << >> THEN "both" ELSE "event"
    /\ \E xpubLate, xsubLate \in SUBSET Clients : PollSockets(xpubLate, xsubLate)

\* Mutant: the proxy wakes up for notifications only.
PollNotes ==
    /\ running
    /\ turn = "poll"
    /\ pending # << >>
    /\ turn' = IF EventsWait THEN "both" ELSE "note"
    /\ \E xpubLate, xsubLate \in SUBSET Clients : PollSockets(xpubLate, xsubLate)

\* zmq_proxy polls until one side has something to forward.
Poll ==
    /\ running
    /\ turn = "poll"
    /\ LET notes == pending # << >>
       IN  /\ EventsWait \/ notes
           /\ turn' = CASE EventsWait /\ notes -> "both"
                        [] EventsWait /\ ~notes -> "event"
                        [] ~EventsWait /\ notes -> "note"
    /\ \E xpubLate, xsubLate \in SUBSET Clients : PollSockets(xpubLate, xsubLate)

\* The proxy forwards one event from XSUB to XPUB, which copies it to the
\* pipe of every client with a matching subscription that does not look full.
\* zmq_send does not look into the mailbox if it did so a moment ago: what
\* clients have read since the poll may be unknown.
ForwardEvent ==
    /\ turn \in {"both", "event"}
    /\ turn' = IF turn = "both" THEN "note" ELSE "poll"
    /\ \E c \in Clients, late \in SUBSET Clients :
        /\ up[c].q # << >>
        /\ up' = [up EXCEPT ![c] = Read(@)]
        /\ LET e == Head(up[c].q)
               pipes == Known(down, late)
               to == {d \in open : Match(XpubTypes(d), e.type)}
               full == {d \in to : Full(pipes[d])}
           IN  /\ log' = Append(log, e)
               /\ down' = [d \in Clients |->
                             IF d \in to THEN Write(pipes[d], Len(log) + 1)
                                         ELSE pipes[d]]
               /\ owed' = owed \ {<<e, d>> : d \in full}
    /\ behind' = {}
    /\ UNCHANGED <<running, clientVars, ctlVars, got, counters, lost, deaf>>

\* Mutant: XSUB counts down without looking.
ForwardNoteUnguarded ==
    /\ turn = "note"
    /\ turn' = "poll"
    /\ pending' = Tail(pending)
    /\ \E late \in SUBSET Clients :
        LET op == Head(pending)
            pipes == Known(ctl, late)
        IN  /\ xsub' = [xsub EXCEPT ![op.type] = IF op.on THEN @ + 1 ELSE @ - 1]
            /\ ctl' = [c \in Clients |->
                         IF c \in attached THEN Write(pipes[c], op) ELSE pipes[c]]
            /\ deaf' = deaf \cup {c \in attached : Full(pipes[c])}
    /\ UNCHANGED <<running, clientVars, subs, xpub, attached, filter,
                   eventVars, ops, sent, lost, behind>>

\* The proxy forwards one notification from XPUB to XSUB, which counts it and
\* passes on what changes its table to every attached PUB that does not look
\* full.
ForwardNote ==
    /\ turn = "note"
    /\ turn' = "poll"
    /\ pending' = Tail(pending)
    /\ \E late \in SUBSET Clients :
        LET op == Head(pending)
            t  == op.type
            n  == xsub[t]
            to == IF op.on \/ n = 1 THEN attached ELSE {}
            pipes == Known(ctl, late)
        IN  /\ xsub' = [xsub EXCEPT ![t] = IF op.on THEN n + 1
                                           ELSE IF n = 0 THEN 0 ELSE n - 1]
            /\ ctl' = [c \in Clients |->
                         IF c \in to THEN Write(pipes[c], op) ELSE pipes[c]]
            /\ deaf' = deaf \cup {c \in to : Full(pipes[c])}
    /\ UNCHANGED <<running, clientVars, subs, xpub, attached, filter,
                   eventVars, ops, sent, lost, behind>>

Next ==
    \/ \E c \in Clients :
          \/ Connect(c)
          \/ \E t \in Types : Subscribe(c, t) \/ Unsubscribe(c, t)
                              \/ PublishEvent(c, t)
          \/ HandleEvent(c) \/ HandleTimeout(c)
          \/ Close(c)
          \/ AttachPub(c) \/ ReadSubscription(c) \/ DetachSub(c)
    \/ Begin
    \/ Poll \/ ForwardEvent \/ ForwardNote

\* Once the proxy thread runs it keeps working; a client thread keeps calling
\* handle_event while its client is open (MThread::_thread_run).
Fairness ==
    /\ WF_vars(Poll) /\ WF_vars(ForwardEvent) /\ WF_vars(ForwardNote)
    /\ \A c \in Clients :
          /\ WF_vars(AttachPub(c))
          /\ WF_vars(ReadSubscription(c))
          /\ WF_vars(DetachSub(c))
          /\ WF_vars(HandleEvent(c))

Spec == Init /\ [][Next]_vars
FairSpec == Spec /\ Fairness

-----------------------------------------------------------------------------
(* What the bus guarantees.                                                 *)

\* Every variable has its type.
TypeOK ==
    /\ running \in BOOLEAN
    /\ open \in SUBSET Clients
    /\ gone \in SUBSET Clients
    /\ table \in [Clients -> SUBSET Types]
    /\ subs \in [Clients -> Pipe(Op)]
    /\ xpub \in [Types -> SUBSET Clients]
    /\ pending \in Seq(Op)
    /\ xsub \in [Types -> Nat]
    /\ attached \in SUBSET Clients
    /\ ctl \in [Clients -> Pipe(Op)]
    /\ filter \in [Clients -> SUBSET Types]
    /\ up \in [Clients -> Pipe(Event)]
    /\ turn \in {"poll", "both", "event", "note"}
    /\ log \in Seq(Event)
    /\ down \in [Clients -> Pipe(Nat)]
    /\ got \in [Clients -> Seq(Nat)]
    /\ ops \in Nat
    /\ sent \in Nat
    /\ owed \in SUBSET (Event \X Clients)
    /\ lost \in SUBSET Clients
    /\ deaf \in SUBSET Clients
    /\ behind \in SUBSET Clients

\* All clients receive the events they receive in one order, the order of the
\* proxy, and none of them twice.
AgreedOrder ==
    \A c \in Clients :
        LET all == got[c] \o down[c].q
        IN  \A i, j \in 1 .. Len(all) : i < j => all[i] < all[j]

\* The events of one publisher are forwarded in the order it published them,
\* and none of them twice.
PublisherOrder ==
    /\ \A i, j \in 1 .. Len(log) :
          i < j /\ log[i].pub = log[j].pub => log[i].num < log[j].num
    /\ \A c \in Clients :
          /\ \A i, j \in 1 .. Len(up[c].q) :
                i < j => up[c].q[i].num < up[c].q[j].num
          /\ \A i \in 1 .. Len(log), j \in 1 .. Len(up[c].q) :
                log[i].pub = c => log[i].num < up[c].q[j].num

Promise == INSTANCE Broadcast WITH
    Parties <- Clients,
    Messages <- [pub : Clients, num : 1 .. MaxPublish, type : Types],
    wait <- [c \in Clients |-> up[c].q],
    log <- log,
    got <- got

\* The bus is a broadcast: whatever the sockets, pipes, filters and the proxy do
\* in between, clients see events being sent, put into one order and received
\* from it.
ImplementsBroadcast == Promise!Spec

\* An event that was accepted while the subscription of a client was in force
\* is on its way to the client until the client receives it, waives it or
\* its pipe overflows: no race of subscriptions and events loses it.
Accounted ==
    \A o \in owed :
        \/ \E i \in 1 .. Len(up[o[1].pub].q) : up[o[1].pub].q[i] = o[1]
        \/ \E i \in 1 .. Len(down[o[2]].q) : log[down[o[2]].q[i]] = o[1]

\* Each copy of a subscription becomes what the previous one is when the
\* operations under way are applied: XPUB what a SUB holds that dropped
\* nothing, XSUB what XPUB holds as long as no SUB dropped anything, an
\* attached PUB what XSUB holds if its own pipe never overflowed.
MirrorChain ==
    \A t \in Types :
        /\ \A c \in open \ lost :
              Settled(subs[c].q, t, c \in xpub[t]) <=> t \in table[c]
        /\ lost = {} =>
              (Settled(pending, t, xsub[t] > 0) <=> xpub[t] # {})
        /\ \A c \in attached \ deaf :
              Settled(ctl[c].q, t, t \in filter[c]) <=> xsub[t] > 0

\* No queue grows beyond the high-water mark, and a writer, which learns late
\* and in steps what was read, never takes a message for read that is not.
QueuesBounded ==
    \A c \in Clients :
        /\ Bounded(subs[c]) /\ Bounded(ctl[c])
        /\ Bounded(up[c]) /\ Bounded(down[c])

\* XPUB drops an event for a client only if more than Hwm - Lwm events were
\* waiting in the client's pipe when the proxy last polled, or if that poll
\* missed an acknowledgement of this client: reading late costs events, but not
\* acknowledging in steps, nor a zmq_send that knows less than the poll did.
DropsOnlyWhenBehind ==
    [][ \A o \in owed \ owed' :
            \/ o[2] \notin open' \/ table'[o[2]] # table[o[2]]
            \/ Len(got'[o[2]]) > Len(got[o[2]])
            \/ o[2] \in behind
      ]_vars

\* Every accepted event is eventually accounted for: received, waived or
\* dropped by a full pipe.
EventuallyAccounted ==
    \A n \in 1 .. MaxPublish, c \in Clients :
        (\E o \in owed : o[1].num = n /\ o[2] = c)
            ~> ~(\E o \in owed : o[1].num = n /\ o[2] = c)

\* On a running bus XSUB ends up subscribed to exactly what the open clients
\* are subscribed to, unless a subscription message was dropped.
EventuallyMirrored ==
    <>[](\/ ~running \/ lost # {}
         \/ \A t \in Types :
                xsub[t] > 0 <=> \E c \in open : t \in table[c])
=============================================================================

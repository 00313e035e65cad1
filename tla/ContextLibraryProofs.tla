------------------------ MODULE ContextLibraryProofs ------------------------
(***************************************************************************)
(* Proofs about the operators of Context, for any set of clients: what the *)
(* library keeps true of pipes, sockets, mailboxes and endpoints, whoever  *)
(* calls it.                                                               *)
(***************************************************************************)
EXTENDS Context, FiniteSetTheorems, SequenceTheorems, WellFoundedInduction, TLAPS

-----------------------------------------------------------------------------
(* The invariant of the library.                                             *)

\* Sockets that are bound.
Hosts == ToSet(Bus) \cup Pairs

PipeStates == {"none", "active", "delimiter_received", "waiting_for_delimiter",
               "term_ack_sent", "term_req_sent1", "term_req_sent2", "deleted"}
Stages == {"none", "open", "closed", "reaping", "gone"}
EndCommands == [type : {"activate_read", "pipe_term", "pipe_term_ack", "bind"}, end : Ends]
PlainCommands == [type : {"inproc_connected", "stop"}, end : {None}]
Commands == EndCommands \cup PlainCommands

SocketType ==
    [stage : Stages, pipes : SUBSET Ends, only : Ends \cup {None}, term_acks : Nat,
     sent : Nat, processed : Nat, terminating : BOOLEAN, destroyed : BOOLEAN,
     ctx_terminated : BOOLEAN]
PipeType ==
    [state : PipeStates, delay : BOOLEAN, in_active : BOOLEAN, asleep : BOOLEAN,
     in : Seq({"id", "msg", "delimiter"}), out : BOOLEAN,
     sink : Sockets \cup {None}, tid : Sockets]

SocketTable == [Sockets -> SocketType]
PipeTable == [Ends -> PipeType]
Boxes == [Sockets -> Seq(Commands)]
EndpointTable == [ToSet(Bus) -> Sockets \cup {None}]
PendingTable == [ToSet(Bus) -> Seq(Connectors)]
Library ==
    [sock : SocketTable, pipe : PipeTable, mbox : Boxes, endpoints : EndpointTable,
     pending : PendingTable, ok : BOOLEAN]

\* Commands on their way: mb is the contents of the mailboxes, with those that a
\* socket has taken out and not handled yet.
At(mb, t, m) == \E i \in 1 .. Len(mb[t]) : mb[t][i] = m
Sent(mb, m) == \E t \in Sockets : At(mb, t, m)
OnceAt(mb, t, m) == \A i, j \in 1 .. Len(mb[t]) : mb[t][i] = m /\ mb[t][j] = m => i = j
Once(mb, m) ==
    /\ \A t \in Sockets : OnceAt(mb, t, m)
    /\ \A t, u \in Sockets : At(mb, t, m) /\ At(mb, u, m) => t = u
Before(mb, m, n) ==
    \A t, u \in Sockets : \A i \in 1 .. Len(mb[t]), j \in 1 .. Len(mb[u]) :
       mb[t][i] = m /\ mb[u][j] = n => t = u /\ i < j

Ask(e) == Command("pipe_term", e)
Ack(e) == Command("pipe_term_ack", e)
Wake(e) == Command("activate_read", e)
Bind(e) == Command("bind", e)
Joined == Command("inproc_connected", None)
Stopped == Command("stop", None)

Acked == {"term_ack_sent", "term_req_sent2", "deleted"}
Asking == {"term_req_sent1", "term_req_sent2"}

\* The handshake that ends a pipe, as end e sees it: an acknowledgement is under
\* way, or was got, exactly if the end that gives it is in a state after that; a
\* request is under way exactly if one end has asked and the other has not seen it.
Handshake(pipe, mb, e) ==
    LET x == pipe[e].state
        y == pipe[Peer(e)].state
    IN  /\ x = "none" <=> y = "none"
        /\ x \in Acked <=> Sent(mb, Ack(Peer(e))) \/ y = "deleted"
        /\ Sent(mb, Ack(e)) => x \in {"term_req_sent1", "term_ack_sent", "term_req_sent2"}
        /\ Sent(mb, Ask(e)) <=>
              y \in Asking /\ x \in {"active", "delimiter_received", "term_req_sent1"}
        /\ x = "waiting_for_delimiter" => y = "term_req_sent1"
        /\ x = "term_ack_sent" => y \in {"term_req_sent1", "deleted"}
        /\ x = "term_req_sent2" => y \in {"term_req_sent1", "term_req_sent2", "deleted"}
        /\ x \in Acked => ~pipe[e].out

\* The commands for end e are with the thread that has it, an acknowledgement the
\* last of them.  A request may also be left with the connecting socket, which
\* had both ends at first; it handles that one before it hears from its peer.
Order(pipe, mb, e) ==
    /\ Once(mb, Ask(e)) /\ Once(mb, Ack(e))
    /\ Before(mb, Ask(e), Ack(e)) /\ Before(mb, Wake(e), Ack(e))
    /\ \A t \in Sockets :
          /\ At(mb, t, Ack(e)) => t = pipe[e].tid
          /\ At(mb, t, Wake(e)) => /\ t = pipe[e].tid /\ pipe[e].sink # None
                                   /\ pipe[e].state \notin {"none", "deleted"}
          /\ At(mb, t, Ask(e)) /\ t # pipe[e].tid =>
                /\ t = pipe[Peer(e)].tid
                /\ pipe[Peer(e)].state = "term_req_sent1"
                /\ Before(mb, Ask(e), Ask(Peer(e)))

\* Whom end e belongs to: the connecting end to its socket, the other to the
\* socket it was attached to, or it is pending, or a bind command brings it.
Owner(pipe, mb, pend, e) ==
    LET p == pipe[e]
    IN  /\ p.state = "none" => p.sink = None
        /\ p.asleep \/ ~p.in_active => p.sink # None
        /\ e[2] = "connect" =>
              /\ p.state # "none" => p.sink = e[1] /\ p.tid = e[1]
              /\ ~Sent(mb, Bind(e))
        /\ e[2] = "bind" =>
              /\ p.sink # None => p.sink = p.tid /\ p.tid \in Hosts
              /\ p.sink = None /\ p.state # "none" =>
                    /\ p.state \in {"active", "waiting_for_delimiter"} /\ p.delay
                    /\ e[1] \in pend \/ At(mb, p.tid, Bind(e))
              /\ e[1] \in pend =>
                    /\ p.sink = None /\ p.state # "none" /\ p.tid = e[1]
                    /\ p.in # << >> /\ Head(p.in) = "id"
              /\ \A t \in Sockets : At(mb, t, Bind(e)) =>
                    /\ t = p.tid /\ t \in Hosts
                    /\ p.sink = None /\ p.state # "none"
              /\ Once(mb, Bind(e))

\* What waits in the pipe for end e: nothing follows a delimiter, and an end of
\* the bus that is still open has read everything before it goes.
Content(pipe, sock, e) ==
    LET p == pipe[e]
    IN  /\ "delimiter" \in ToSet(p.in) => pipe[Peer(e)].state # "active"
        /\ e[2] = "bind" /\ p.sink # None /\ p.sink \notin Pairs
              /\ sock[p.sink].stage \in {"none", "open"} =>
              /\ p.delay
              /\ p.state \in {"term_ack_sent", "delimiter_received"} =>
                    "msg" \notin ToSet(p.in) /\ pipe[Peer(e)].state # "active"

\* Connections that are under way to socket t, which it waits for: the bind
\* command is in its mailbox, a thread is about to send it (found), or its own
\* connection is pending or just joined.
Owed(mb, pend, found, t) ==
    {s \in Connectors : \/ At(mb, t, Bind(<<s, "bind">>)) \/ <<s, t>> \in found
                        \/ s = t /\ (s \in pend \/ At(mb, t, Joined))}

Counting(sock, mb, pend, found, t) ==
    /\ sock[t].sent = sock[t].processed + Cardinality(Owed(mb, pend, found, t))
    /\ sock[t].term_acks = IF sock[t].terminating THEN Cardinality(sock[t].pipes) ELSE 0
    /\ sock[t].destroyed =>
          sock[t].terminating /\ sock[t].term_acks = 0 /\ sock[t].processed = sock[t].sent
    /\ At(mb, t, Joined) => t \in Connectors /\ t \notin pend /\ <<t, t>> \notin found
    /\ OnceAt(mb, t, Joined)

Members(sock, pipe, t) ==
    /\ \A e \in Ends : e \in sock[t].pipes <=> pipe[e].sink = t /\ pipe[e].state # "deleted"
    /\ sock[t].only # None => sock[t].only \in sock[t].pipes
    /\ sock[t].terminating <=> sock[t].stage \in {"reaping", "gone"}
    /\ sock[t].stage = "gone" => sock[t].destroyed

Bound(endpoints, sock) ==
    \A a \in ToSet(Bus) : endpoints[a] # None =>
       endpoints[a] \in Hosts /\ ~sock[endpoints[a]].terminating

\* The invariant of the library, but for the owners of the ends in X.
Holds(pipe, sock, endpoints, mb, pend, found, X) ==
    /\ pipe \in PipeTable /\ sock \in SocketTable /\ mb \in Boxes
    /\ endpoints \in EndpointTable
    /\ \A e \in Ends : Handshake(pipe, mb, e)
    /\ \A e \in Ends : Order(pipe, mb, e)
    /\ \A e \in Ends \ X : Owner(pipe, mb, pend, e)
    /\ \A e \in Ends : Content(pipe, sock, e)
    /\ \A t \in Sockets : Counting(sock, mb, pend, found, t)
    /\ \A t \in Sockets : Members(sock, pipe, t)
    /\ Bound(endpoints, sock)

Found == {<<Socket(k), peer[k]>> : k \in {k \in Clients : peer[k] # None}}

Distinct(sq) == \A i, j \in 1 .. Len(sq) : sq[i] = sq[j] => i = j

\* A connection waits once, for its own endpoint.
PendingWell(pending) ==
    \A a \in ToSet(Bus) : /\ Distinct(pending[a])
                          /\ \A i \in 1 .. Len(pending[a]) : Target(pending[a][i]) = a

LibraryInv ==
    /\ z \in Library
    /\ z.ok
    /\ Holds(z.pipe, z.sock, z.endpoints, z.mbox, Pending(z), Found, {})
    /\ PendingWell(z.pending)

-----------------------------------------------------------------------------
(* Names: sockets and pipe ends.                                             *)

\* A client has one or two sockets, of different kinds.
LEMMA LinkFacts ==
    /\ Links \in Seq({"sub", "pub"})
    /\ Len(Links) \in {1, 2} /\ Len(Links) \in Nat
    /\ \A i \in 1 .. Len(Links) : Links[i] \in {"sub", "pub"}
    /\ \A i, j \in 1 .. Len(Links) : Links[i] = Links[j] => i = j
    /\ ToSet(Links) = {Links[i] : i \in 1 .. Len(Links)}
PROOF
  <1>1. CASE Links = <<"sub">>
    BY <1>1 DEF ToSet
  <1>2. CASE Links = <<"pub">>
    BY <1>2 DEF ToSet
  <1>3. CASE Links = <<"sub", "pub">>
    BY <1>3 DEF ToSet
  <1> QED BY <1>1, <1>2, <1>3, LinksAssumption

\* The bus has a socket of its own for each kind.
LEMMA BusFacts ==
    /\ Len(Bus) = Len(Links)
    /\ Bus \in Seq({<<"bus", "xpub">>, <<"bus", "xsub">>})
    /\ ToSet(Bus) = {Bus[i] : i \in 1 .. Len(Bus)}
    /\ \A i \in 1 .. Len(Bus) : Bus[i] = <<"bus", IF Links[i] = "sub" THEN "xpub" ELSE "xsub">>
    /\ \A i, j \in 1 .. Len(Bus) : Bus[i] = Bus[j] => i = j
PROOF
  <1>1. Bus \in [1 .. Len(Links) -> {<<"bus", "xpub">>, <<"bus", "xsub">>}]
        /\ \A i \in 1 .. Len(Links) :
              Bus[i] = <<"bus", IF Links[i] = "sub" THEN "xpub" ELSE "xsub">>
    BY DEF Bus
  <1>2. Bus \in Seq({<<"bus", "xpub">>, <<"bus", "xsub">>}) /\ Len(Bus) = Len(Links)
    BY <1>1, LinkFacts, SeqDef, LenProperties
  <1>3. ToSet(Bus) = {Bus[i] : i \in 1 .. Len(Bus)}
    BY <1>2, LenProperties DEF ToSet
  <1> HIDE DEF Bus
  <1>4. ASSUME NEW i \in 1 .. Len(Bus), NEW j \in 1 .. Len(Bus), Bus[i] = Bus[j]
        PROVE  i = j
    <2>1. Links[i] = Links[j]
      BY <1>1, <1>2, <1>4, LinkFacts
    <2> QED BY <2>1, <1>2, LinkFacts
  <1> QED BY <1>1, <1>2, <1>3, <1>4

\* The three kinds of sockets are different.
LEMMA SocketFacts ==
    /\ Sockets = Connectors \cup Hosts /\ Connectors \cap Hosts = {}
    /\ ToSet(Bus) \subseteq Hosts /\ Pairs \subseteq Hosts
    /\ ToSet(Bus) \cap Pairs = {}
    /\ \A s \in Connectors : PairOf(s) \in Pairs
    /\ \A s, t \in Connectors : PairOf(s) = PairOf(t) => s = t
PROOF
  <1>1. \A s \in Connectors : \E k \in Clients, l \in {"sub", "pub"} : s = <<k, l>>
    BY LinkFacts DEF Connectors
  <1>2. \A t \in ToSet(Bus) : t = <<"bus", "xpub">> \/ t = <<"bus", "xsub">>
    BY BusFacts
  <1>3. \A s \in Connectors : Len(PairOf(s)) = 3 /\ PairOf(s)[1] = s[1] /\ PairOf(s)[2] = s[2]
    <2> TAKE s \in Connectors
    <2>0. PICK k \in Clients, l \in {"sub", "pub"} : s = <<k, l>>
      BY <1>1
    <2> DEFINE S == Clients \cup {"sub", "pub", "pair"}
    <2>1. <<k, l>> \in Seq(S) /\ Len(<<k, l>>) = 2 /\ "pair" \in S
          /\ <<k, l>>[1] = k /\ <<k, l>>[2] = l
      OBVIOUS
    <2>2. /\ Len(PairOf(<<k, l>>)) = Len(<<k, l>>) + 1
          /\ \A i \in 1 .. Len(<<k, l>>) : PairOf(<<k, l>>)[i] = <<k, l>>[i]
      <3> HIDE DEF S
      <3> QED BY ONLY <2>1, AppendProperties DEF PairOf
    <2>3. 1 \in 1 .. Len(<<k, l>>) /\ 2 \in 1 .. Len(<<k, l>>)
      BY <2>1
    <2> QED BY <2>0, <2>1, <2>2, <2>3
  <1>4. \A s \in Connectors \cup ToSet(Bus) : Len(s) = 2
    BY <1>1, <1>2
  <1>5. Connectors \cap ToSet(Bus) = {}
    BY <1>1, <1>2
  <1> QED BY <1>1, <1>3, <1>4, <1>5 DEF Sockets, Hosts, Pairs

\* Every connection has two ends, and they are peers of one another.
LEMMA EndFacts ==
    /\ \A s \in Connectors : /\ <<s, "connect">> \in Ends /\ <<s, "bind">> \in Ends
                             /\ Peer(<<s, "connect">>) = <<s, "bind">>
                             /\ Peer(<<s, "bind">>) = <<s, "connect">>
    /\ \A e \in Ends : /\ e[1] \in Connectors /\ e[1] \in Sockets /\ e = <<e[1], e[2]>>
                       /\ e[2] \in {"connect", "bind"}
                       /\ Peer(e) \in Ends /\ Peer(e) # e /\ Peer(Peer(e)) = e
                       /\ Peer(e)[1] = e[1]
                       /\ e[2] = "bind" <=> Peer(e)[2] = "connect"
    /\ \A e, f \in Ends : e[1] = f[1] => f = e \/ f = Peer(e)
    /\ \A e, f \in Ends : Peer(e) = Peer(f) => e = f
  BY SocketFacts DEF Ends, Peer

\* There are finitely many ends, so that sets of them can be counted.
LEMMA EndsFinite == IsFiniteSet(Ends) /\ IsFiniteSet(Connectors)
PROOF
  <1>1. \A a, b : IsFiniteSet({a, b})
    <2> TAKE a, b
    <2>1. IsFiniteSet({a}) /\ {a} \cup {b} = {a, b}
      BY FS_Singleton
    <2> QED BY <2>1, FS_AddElement
  <1>2. IsFiniteSet(ToSet(Links))
    <2>1. ToSet(Links) \in SUBSET {"sub", "pub"}
      BY LinkFacts
    <2> QED BY <1>1, <2>1, FS_Subset
  <1>3. IsFiniteSet(Connectors)
    BY <1>2, ClientsAssumption, FS_Product DEF Connectors
  <1> QED BY <1>1, <1>3, FS_Product DEF Ends

-----------------------------------------------------------------------------
(* Commands and mailboxes.                                                   *)

\* Commands of different kinds, or for different ends, are different.
LEMMA CommandFacts ==
    /\ \A e \in Ends : /\ Ask(e) \in Commands /\ Ack(e) \in Commands
                       /\ Wake(e) \in Commands /\ Bind(e) \in Commands
    /\ Joined \in Commands /\ Stopped \in Commands /\ Joined # Stopped
    /\ \A e, f \in Ends :
          /\ Ask(e) = Ask(f) => e = f
          /\ Ack(e) = Ack(f) => e = f
          /\ Wake(e) = Wake(f) => e = f
          /\ Bind(e) = Bind(f) => e = f
          /\ Ask(e) # Ack(f) /\ Ask(e) # Wake(f) /\ Ask(e) # Bind(f)
          /\ Ack(e) # Wake(f) /\ Ack(e) # Bind(f) /\ Wake(e) # Bind(f)
    /\ \A e \in Ends : /\ Ask(e) # Joined /\ Ack(e) # Joined /\ Wake(e) # Joined
                       /\ Bind(e) # Joined /\ Ask(e) # Stopped /\ Ack(e) # Stopped
                       /\ Wake(e) # Stopped /\ Bind(e) # Stopped
  BY DEF Ask, Ack, Wake, Bind, Joined, Stopped, Command, Commands, EndCommands,
         PlainCommands

\* A command is for an end, or is one of the two that are for a socket.
LEMMA CommandCases ==
    ASSUME NEW m \in Commands
    PROVE  \/ \E e \in Ends : m \in {Ask(e), Ack(e), Wake(e), Bind(e)} /\ m.end = e
           \/ m \in {Joined, Stopped} /\ m.end = None
  BY DEF Ask, Ack, Wake, Bind, Joined, Stopped, Command, Commands, EndCommands,
         PlainCommands

Put(mb, t, m) == [mb EXCEPT ![t] = Append(@, m)]
Drop(mb, t) == [mb EXCEPT ![t] = Tail(@)]

\* A command is put at the end of a mailbox.
LEMMA PutPlaces ==
    ASSUME NEW mb \in Boxes, NEW t \in Sockets, NEW m \in Commands
    PROVE  /\ Put(mb, t, m) \in Boxes
           /\ \A u \in Sockets : u # t => Put(mb, t, m)[u] = mb[u]
           /\ Len(mb[t]) \in Nat
           /\ Len(Put(mb, t, m)[t]) = Len(mb[t]) + 1
           /\ \A i \in 1 .. Len(mb[t]) : Put(mb, t, m)[t][i] = mb[t][i]
           /\ Put(mb, t, m)[t][Len(mb[t]) + 1] = m
PROOF
  <1>1. mb[t] \in Seq(Commands)
    BY DEF Boxes
  <1>2. /\ Append(mb[t], m) \in Seq(Commands)
        /\ Len(Append(mb[t], m)) = Len(mb[t]) + 1
        /\ \A i \in 1 .. Len(mb[t]) : Append(mb[t], m)[i] = mb[t][i]
        /\ Append(mb[t], m)[Len(mb[t]) + 1] = m
    BY <1>1, AppendProperties
  <1>3. Len(mb[t]) \in Nat
    BY <1>1, LenProperties
  <1>4. Put(mb, t, m)[t] = Append(mb[t], m)
    BY DEF Put, Boxes
  <1> QED BY <1>2, <1>3, <1>4 DEF Put, Boxes

\* Where a command is after one was put into a mailbox.
LEMMA PutAt ==
    ASSUME NEW mb \in Boxes, NEW t \in Sockets, NEW m \in Commands,
           NEW u \in Sockets, NEW n \in Commands
    PROVE  At(Put(mb, t, m), u, n) <=> At(mb, u, n) \/ (u = t /\ n = m)
PROOF
  <1> DEFINE mc == Put(mb, t, m)
  <1>1. /\ u # t => mc[u] = mb[u]
        /\ Len(mb[t]) \in Nat
        /\ Len(mc[t]) = Len(mb[t]) + 1
        /\ \A i \in 1 .. Len(mb[t]) : mc[t][i] = mb[t][i]
        /\ mc[t][Len(mb[t]) + 1] = m
    BY PutPlaces
  <1> HIDE DEF mc
  <1> DEFINE l == Len(mb[t])
  <1>2. CASE u # t
    BY <1>1, <1>2 DEF At, mc
  <1>3. CASE u = t
    <2>1. \A i : i \in 1 .. l + 1 <=> i \in 1 .. l \/ i = l + 1
      BY <1>1
    <2>2. At(mc, t, n) <=> \E i \in 1 .. l + 1 : mc[t][i] = n
      BY <1>1 DEF At
    <2>3. At(mb, t, n) <=> \E i \in 1 .. l : mb[t][i] = n
      BY DEF At
    <2> HIDE DEF l
    <2> QED BY <1>1, <1>3, <2>1, <2>2, <2>3 DEF mc, l
  <1> QED BY <1>2, <1>3

\* A command that was not under way is under way once when it is put.
LEMMA PutOnce ==
    ASSUME NEW mb \in Boxes, NEW t \in Sockets, NEW m \in Commands,
           NEW n \in Commands, n = m => ~Sent(mb, m)
    PROVE  /\ Once(mb, n) => Once(Put(mb, t, m), n)
           /\ n = m => Once(Put(mb, t, m), n)
PROOF
  <1> DEFINE mc == Put(mb, t, m)
  <1>1. /\ \A u \in Sockets : u # t => mc[u] = mb[u]
        /\ Len(mb[t]) \in Nat
        /\ Len(mc[t]) = Len(mb[t]) + 1
        /\ \A i \in 1 .. Len(mb[t]) : mc[t][i] = mb[t][i]
        /\ mc[t][Len(mb[t]) + 1] = m
    BY PutPlaces
  <1>2. \A u \in Sockets : At(mc, u, n) <=> At(mb, u, n) \/ (u = t /\ n = m)
    BY PutAt
  <1> HIDE DEF mc
  <1> SUFFICES ASSUME Once(mb, n) \/ n = m PROVE Once(mc, n)
    BY DEF mc
  <1>3. ASSUME NEW u \in Sockets PROVE OnceAt(mc, u, n)
    <2> SUFFICES ASSUME NEW i \in 1 .. Len(mc[u]), NEW j \in 1 .. Len(mc[u]),
                        mc[u][i] = n, mc[u][j] = n
                 PROVE  i = j
      BY DEF OnceAt
    <2>1. CASE n = m
      <3>1. u = t /\ ~At(mb, t, m)
        BY <2>1, <1>1 DEF At, Sent
      <3>2. \A a \in 1 .. Len(mb[t]) : mb[t][a] # m
        BY <3>1 DEF At
      <3>3. i \notin 1 .. Len(mb[t]) /\ j \notin 1 .. Len(mb[t])
        BY <3>1, <3>2, <2>1, <1>1
      <3> QED BY <3>1, <3>3, <1>1
    <2>2. CASE n # m
      <3>1. OnceAt(mb, u, n)
        BY <2>2 DEF Once
      <3>2. CASE u # t
        BY <3>1, <3>2, <1>1 DEF OnceAt
      <3>3. CASE u = t
        <4>1. i # Len(mb[t]) + 1 /\ j # Len(mb[t]) + 1
          BY <3>3, <2>2, <1>1
        <4>2. i \in 1 .. Len(mb[t]) /\ j \in 1 .. Len(mb[t])
          BY <4>1, <3>3, <1>1
        <4>3. mb[t][i] = n /\ mb[t][j] = n
          BY <4>2, <3>3, <1>1
        <4> QED BY <4>2, <4>3, <3>1, <3>3 DEF OnceAt
      <3> QED BY <3>2, <3>3
    <2> QED BY <2>1, <2>2
  <1> QED BY <1>2, <1>3 DEF Once, Sent

\* Putting a command keeps an order, unless it is the one that has to come
\* first.
LEMMA PutBefore ==
    ASSUME NEW mb \in Boxes, NEW t \in Sockets, NEW m \in Commands,
           NEW n \in Commands, NEW o \in Commands, n # o, Before(mb, n, o),
           m = n => ~Sent(mb, o),
           m = o => \A u \in Sockets : At(mb, u, n) => u = t
    PROVE  Before(Put(mb, t, m), n, o)
PROOF
  <1> DEFINE mc == Put(mb, t, m)
  <1>1. /\ \A u \in Sockets : u # t => mc[u] = mb[u]
        /\ Len(mb[t]) \in Nat
        /\ Len(mc[t]) = Len(mb[t]) + 1
        /\ \A i \in 1 .. Len(mb[t]) : mc[t][i] = mb[t][i]
        /\ mc[t][Len(mb[t]) + 1] = m
    BY PutPlaces
  <1>0. \A u \in Sockets : Len(mb[u]) \in Nat
    BY LenProperties DEF Boxes
  <1> HIDE DEF mc
  <1> SUFFICES ASSUME NEW u \in Sockets, NEW v \in Sockets,
                      NEW i \in 1 .. Len(mc[u]), NEW j \in 1 .. Len(mc[v]),
                      mc[u][i] = n, mc[v][j] = o
               PROVE  u = v /\ i < j
    BY DEF Before, mc
  <1>2. CASE i \in 1 .. Len(mb[u]) /\ j \in 1 .. Len(mb[v])
    <2>1. mb[u][i] = n /\ mb[v][j] = o
      BY <1>1, <1>2
    <2> QED BY <2>1, <1>2 DEF Before
  <1>3. CASE ~(j \in 1 .. Len(mb[v]))
    <2>1. v = t /\ j = Len(mb[t]) + 1 /\ m = o
      BY <1>1, <1>3
    <2>2. i \in 1 .. Len(mb[u]) /\ mb[u][i] = n
      BY <2>1, <1>1
    <2>3. u = t
      BY <2>1, <2>2 DEF At
    <2> QED BY <2>1, <2>2, <2>3, <1>0
  <1>4. CASE ~(i \in 1 .. Len(mb[u])) /\ j \in 1 .. Len(mb[v])
    <2>1. u = t /\ m = n
      BY <1>1, <1>4
    <2>2. mb[v][j] = o
      BY <2>1, <1>1, <1>4
    <2> QED BY <2>1, <2>2, <1>4 DEF Sent, At
  <1> QED BY <1>2, <1>3, <1>4

\* The first command of a mailbox is taken out.
LEMMA DropPlaces ==
    ASSUME NEW mb \in Boxes, NEW t \in Sockets, mb[t] # << >>
    PROVE  /\ Drop(mb, t) \in Boxes
           /\ \A u \in Sockets : u # t => Drop(mb, t)[u] = mb[u]
           /\ Len(mb[t]) \in Nat \ {0}
           /\ Len(Drop(mb, t)[t]) = Len(mb[t]) - 1
           /\ \A i \in 1 .. Len(mb[t]) - 1 : Drop(mb, t)[t][i] = mb[t][i + 1]
           /\ Head(mb[t]) = mb[t][1]
PROOF
  <1>1. mb[t] \in Seq(Commands)
    BY DEF Boxes
  <1>2. /\ Tail(mb[t]) \in Seq(Commands)
        /\ Len(Tail(mb[t])) = Len(mb[t]) - 1
        /\ \A i \in 1 .. Len(Tail(mb[t])) : Tail(mb[t])[i] = mb[t][i + 1]
        /\ Head(mb[t]) = mb[t][1]
    BY <1>1, HeadTailProperties
  <1>3. Len(mb[t]) \in Nat /\ Len(mb[t]) # 0
    BY <1>1, LenProperties, EmptySeq
  <1>4. Drop(mb, t)[t] = Tail(mb[t])
    BY DEF Drop, Boxes
  <1> QED BY <1>2, <1>3, <1>4 DEF Drop, Boxes

\* Where a command is after the first one of a mailbox was taken.
LEMMA DropAt ==
    ASSUME NEW mb \in Boxes, NEW t \in Sockets, mb[t] # << >>,
           NEW u \in Sockets, NEW n \in Commands
    PROVE  /\ At(Drop(mb, t), u, n) => At(mb, u, n)
           /\ u # t \/ n # Head(mb[t]) => (At(mb, u, n) => At(Drop(mb, t), u, n))
           /\ u = t /\ n = Head(mb[t]) /\ OnceAt(mb, t, n) => ~At(Drop(mb, t), u, n)
           /\ OnceAt(mb, u, n) => OnceAt(Drop(mb, t), u, n)
           /\ At(mb, t, Head(mb[t]))
PROOF
  <1> DEFINE mc == Drop(mb, t)
             l == Len(mb[t])
             m == Head(mb[t])
  <1>1. /\ u # t => mc[u] = mb[u]
        /\ l \in Nat \ {0}
        /\ Len(mc[t]) = l - 1
        /\ \A i \in 1 .. l - 1 : mc[t][i] = mb[t][i + 1]
        /\ m = mb[t][1]
    BY DropPlaces
  <1>2. At(mb, t, n) <=> \E i \in 1 .. l : mb[t][i] = n
    BY DEF At
  <1>3. At(mc, t, n) <=> \E i \in 1 .. l - 1 : mc[t][i] = n
    BY <1>1 DEF At
  <1>4. OnceAt(mb, t, n) <=> \A i, j \in 1 .. l : mb[t][i] = n /\ mb[t][j] = n => i = j
    BY DEF OnceAt
  <1>5. OnceAt(mc, t, n) <=>
           \A i, j \in 1 .. l - 1 : mc[t][i] = n /\ mc[t][j] = n => i = j
    BY <1>1 DEF OnceAt
  <1>6. At(mb, t, m)
    <2>1. 1 \in 1 .. Len(mb[t]) /\ mb[t][1] = m
      BY <1>1
    <2> QED BY <2>1 DEF At
  <1>7. CASE u # t
    BY <1>1, <1>6, <1>7 DEF At, OnceAt
  <1>8. CASE u = t
    <2> HIDE DEF mc, l, m
    <2>1. \A i \in 1 .. l - 1 : i + 1 \in 1 .. l /\ i + 1 # 1 /\ mc[t][i] = mb[t][i + 1]
      BY <1>1
    <2>2. \A i \in 1 .. l : i # 1 => i - 1 \in 1 .. l - 1 /\ mc[t][i - 1] = mb[t][i]
      <3> TAKE i \in 1 .. l
      <3> HAVE i # 1
      <3>1. i - 1 \in 1 .. l - 1 /\ (i - 1) + 1 = i
        BY <1>1
      <3> QED BY <3>1, <1>1
    <2>3. 1 \in 1 .. l /\ mb[t][1] = m
      BY <1>1
    <2>4. At(mc, t, n) => At(mb, t, n)
      BY <2>1, <1>2, <1>3
    <2>5. n # m => (At(mb, t, n) => At(mc, t, n))
      BY <2>2, <2>3, <1>2, <1>3
    <2>6. n = m /\ OnceAt(mb, t, n) => ~At(mc, t, n)
      BY <2>1, <2>3, <1>3, <1>4
    <2>7. OnceAt(mb, t, n) => OnceAt(mc, t, n)
      <3> SUFFICES ASSUME OnceAt(mb, t, n), NEW i \in 1 .. l - 1, NEW j \in 1 .. l - 1,
                          mc[t][i] = n, mc[t][j] = n
                   PROVE  i = j
        BY <1>5
      <3>1. i + 1 = j + 1
        BY <2>1, <1>4
      <3> QED BY <3>1
    <2> QED BY <1>6, <1>8, <2>4, <2>5, <2>6, <2>7 DEF mc, m
  <1> QED BY <1>7, <1>8

\* A command that is under way once has gone when it is taken.
LEMMA DropOnce ==
    ASSUME NEW mb \in Boxes, NEW t \in Sockets, mb[t] # << >>,
           NEW n \in Commands, Once(mb, n)
    PROVE  /\ Once(Drop(mb, t), n)
           /\ n = Head(mb[t]) => ~Sent(Drop(mb, t), n)
           /\ n = Head(mb[t]) => \A u \in Sockets : At(mb, u, n) => u = t
PROOF
  <1>1. \A u \in Sockets : /\ At(Drop(mb, t), u, n) => At(mb, u, n)
                           /\ OnceAt(mb, u, n) => OnceAt(Drop(mb, t), u, n)
                           /\ u = t /\ n = Head(mb[t]) => ~At(Drop(mb, t), u, n)
    BY DropAt DEF Once
  <1>2. At(mb, t, Head(mb[t]))
    BY DropAt
  <1> QED BY <1>1, <1>2 DEF Once, Sent

\* Taking a command keeps an order, and what comes first has gone before what
\* follows.
LEMMA DropBefore ==
    ASSUME NEW mb \in Boxes, NEW t \in Sockets, mb[t] # << >>,
           NEW n \in Commands, NEW o \in Commands, Before(mb, n, o)
    PROVE  /\ Before(Drop(mb, t), n, o)
           /\ o = Head(mb[t]) => ~Sent(mb, n)
PROOF
  <1> DEFINE mc == Drop(mb, t)
  <1>1. /\ \A u \in Sockets : u # t => mc[u] = mb[u]
        /\ Len(mb[t]) \in Nat \ {0}
        /\ Len(mc[t]) = Len(mb[t]) - 1
        /\ \A i \in 1 .. Len(mb[t]) - 1 : mc[t][i] = mb[t][i + 1]
        /\ Head(mb[t]) = mb[t][1]
    BY DropPlaces
  <1>0. \A u \in Sockets : Len(mb[u]) \in Nat
    BY LenProperties DEF Boxes
  <1> HIDE DEF mc
  <1>2. ASSUME NEW u \in Sockets, NEW v \in Sockets,
               NEW i \in 1 .. Len(mc[u]), NEW j \in 1 .. Len(mc[v]),
               mc[u][i] = n, mc[v][j] = o
        PROVE  u = v /\ i < j
    <2> DEFINE a == IF u = t THEN i + 1 ELSE i
               b == IF v = t THEN j + 1 ELSE j
    <2>1. a \in 1 .. Len(mb[u]) /\ mb[u][a] = n
      <3>1. CASE u = t
        BY <3>1, <1>1, <1>2
      <3>2. CASE u # t
        BY <3>2, <1>1, <1>2
      <3> QED BY <3>1, <3>2
    <2>2. b \in 1 .. Len(mb[v]) /\ mb[v][b] = o
      <3>1. CASE v = t
        BY <3>1, <1>1, <1>2
      <3>2. CASE v # t
        BY <3>2, <1>1, <1>2
      <3> QED BY <3>1, <3>2
    <2>3. u = v /\ a < b
      BY <2>1, <2>2 DEF Before
    <2>4. i \in Int /\ j \in Int
      BY <1>0, <1>1
    <2> QED BY <2>3, <2>4
  <1>3. ASSUME o = Head(mb[t]), Sent(mb, n) PROVE FALSE
    <2>1. 1 \in 1 .. Len(mb[t]) /\ mb[t][1] = o
      BY <1>1, <1>3
    <2>2. PICK u \in Sockets : At(mb, u, n)
      BY <1>3 DEF Sent
    <2>3. PICK i \in 1 .. Len(mb[u]) : mb[u][i] = n
      BY <2>2 DEF At
    <2>4. u = t /\ i < 1
      BY <2>1, <2>3 DEF Before
    <2> QED BY <2>4, <1>0
  <1> QED BY <1>2, <1>3 DEF Before, mc

\* mc differs from mb only in the commands of M.
SameBut(mb, mc, M) ==
    /\ mc \in Boxes
    /\ \A n \in Commands \ M :
          /\ \A u \in Sockets : /\ At(mc, u, n) <=> At(mb, u, n)
                                /\ OnceAt(mb, u, n) => OnceAt(mc, u, n)
          /\ Sent(mc, n) <=> Sent(mb, n)
          /\ Once(mb, n) => Once(mc, n)
    /\ \A n, o \in Commands \ M : n # o /\ Before(mb, n, o) => Before(mc, n, o)

\* Two changes of the mailboxes, one after the other.
LEMMA SameButTrans ==
    ASSUME NEW mb, NEW mc, NEW md, NEW M, NEW N, SameBut(mb, mc, M), SameBut(mc, md, N)
    PROVE  SameBut(mb, md, M \cup N)
PROOF
  <1>1. \A n \in Commands \ (M \cup N) : n \in Commands \ M /\ n \in Commands \ N
    OBVIOUS
  <1>2. md \in Boxes
    BY DEF SameBut
  <1>3. ASSUME NEW n \in Commands \ (M \cup N)
        PROVE  /\ \A u \in Sockets : /\ At(md, u, n) <=> At(mb, u, n)
                                     /\ OnceAt(mb, u, n) => OnceAt(md, u, n)
               /\ Sent(md, n) <=> Sent(mb, n)
               /\ Once(mb, n) => Once(md, n)
    <2>1. n \in Commands \ M /\ n \in Commands \ N
      BY <1>1
    <2>2. /\ \A u \in Sockets : /\ At(mc, u, n) <=> At(mb, u, n)
                                /\ OnceAt(mb, u, n) => OnceAt(mc, u, n)
          /\ Sent(mc, n) <=> Sent(mb, n)
          /\ Once(mb, n) => Once(mc, n)
      BY <2>1 DEF SameBut
    <2>3. /\ \A u \in Sockets : /\ At(md, u, n) <=> At(mc, u, n)
                                /\ OnceAt(mc, u, n) => OnceAt(md, u, n)
          /\ Sent(md, n) <=> Sent(mc, n)
          /\ Once(mc, n) => Once(md, n)
      BY <2>1 DEF SameBut
    <2> QED BY <2>2, <2>3
  <1>4. ASSUME NEW n \in Commands \ (M \cup N), NEW o \in Commands \ (M \cup N),
               n # o, Before(mb, n, o)
        PROVE  Before(md, n, o)
    BY <1>1, <1>4 DEF SameBut
  <1> QED BY <1>2, <1>3, <1>4 DEF SameBut

\* What the lemmas above say of all commands at once.
LEMMA PutFacts ==
    ASSUME NEW mb \in Boxes, NEW t \in Sockets, NEW m \in Commands
    PROVE  /\ Put(mb, t, m) \in Boxes
           /\ \A u \in Sockets, n \in Commands :
                 At(Put(mb, t, m), u, n) <=> At(mb, u, n) \/ (u = t /\ n = m)
           /\ \A n \in Commands : Sent(Put(mb, t, m), n) <=> Sent(mb, n) \/ n = m
           /\ ~Sent(mb, m) => Once(Put(mb, t, m), m)
           /\ SameBut(mb, Put(mb, t, m), {m})
PROOF
  <1>1. \A u \in Sockets, n \in Commands :
           At(Put(mb, t, m), u, n) <=> At(mb, u, n) \/ (u = t /\ n = m)
    BY PutAt
  <1>2. \A n \in Commands : Sent(Put(mb, t, m), n) <=> Sent(mb, n) \/ n = m
    BY <1>1 DEF Sent
  <1>3. ASSUME NEW u \in Sockets, NEW n \in Commands, n # m, OnceAt(mb, u, n)
        PROVE  OnceAt(Put(mb, t, m), u, n)
    <2> DEFINE mc == Put(mb, t, m)
    <2>1. /\ u # t => mc[u] = mb[u]
          /\ Len(mb[t]) \in Nat
          /\ Len(mc[t]) = Len(mb[t]) + 1
          /\ \A i \in 1 .. Len(mb[t]) : mc[t][i] = mb[t][i]
          /\ mc[t][Len(mb[t]) + 1] = m
      BY PutPlaces
    <2> HIDE DEF mc
    <2> SUFFICES ASSUME NEW i \in 1 .. Len(mc[u]), NEW j \in 1 .. Len(mc[u]),
                        mc[u][i] = n, mc[u][j] = n
                 PROVE  i = j
      BY DEF OnceAt, mc
    <2>2. CASE u # t
      BY <2>1, <2>2, <1>3 DEF OnceAt
    <2>3. CASE u = t
      <3>1. i # Len(mb[t]) + 1 /\ j # Len(mb[t]) + 1
        BY <2>1, <2>3, <1>3
      <3>2. i \in 1 .. Len(mb[t]) /\ j \in 1 .. Len(mb[t])
        BY <3>1, <2>1, <2>3
      <3>3. mb[t][i] = n /\ mb[t][j] = n
        BY <3>2, <2>1, <2>3
      <3> QED BY <3>2, <3>3, <2>3, <1>3 DEF OnceAt
    <2> QED BY <2>2, <2>3
  <1>4. \A n, o \in Commands :
           n # m /\ o # m /\ n # o /\ Before(mb, n, o) => Before(Put(mb, t, m), n, o)
    BY PutBefore
  <1>5. /\ \A n \in Commands : n # m /\ Once(mb, n) => Once(Put(mb, t, m), n)
        /\ ~Sent(mb, m) => Once(Put(mb, t, m), m)
    BY PutOnce
  <1> QED BY <1>1, <1>2, <1>3, <1>4, <1>5, PutPlaces DEF SameBut

\* Taking the first command of a mailbox, in one statement.
LEMMA DropFacts ==
    ASSUME NEW mb \in Boxes, NEW t \in Sockets, NEW m \in Commands,
           mb[t] # << >>, m = Head(mb[t])
    PROVE  /\ Drop(mb, t) \in Boxes
           /\ At(mb, t, m) /\ Sent(mb, m)
           /\ \A u \in Sockets, n \in Commands :
                 /\ n # m \/ u # t => (At(Drop(mb, t), u, n) <=> At(mb, u, n))
                 /\ At(Drop(mb, t), u, n) => At(mb, u, n)
                 /\ OnceAt(mb, u, n) => OnceAt(Drop(mb, t), u, n)
           /\ Once(mb, m) => Once(Drop(mb, t), m)
           /\ SameBut(mb, Drop(mb, t), {m})
           /\ OnceAt(mb, t, m) => ~At(Drop(mb, t), t, m)
           /\ Once(mb, m) => /\ ~Sent(Drop(mb, t), m)
                             /\ \A u \in Sockets : At(mb, u, m) => u = t
           /\ \A n, o \in Commands : Before(mb, n, o) => Before(Drop(mb, t), n, o)
           /\ \A n \in Commands : Before(mb, n, m) => ~Sent(mb, n)
PROOF
  <1>1. \A u \in Sockets, n \in Commands :
           /\ At(Drop(mb, t), u, n) => At(mb, u, n)
           /\ u # t \/ n # m => (At(mb, u, n) => At(Drop(mb, t), u, n))
           /\ u = t /\ n = m /\ OnceAt(mb, t, n) => ~At(Drop(mb, t), u, n)
           /\ OnceAt(mb, u, n) => OnceAt(Drop(mb, t), u, n)
    BY DropAt
  <1>2. At(mb, t, m)
    BY DropAt
  <1>3. \A n \in Commands : n # m => (Sent(Drop(mb, t), n) <=> Sent(mb, n))
    BY <1>1 DEF Sent
  <1>4. /\ \A n \in Commands : Once(mb, n) => Once(Drop(mb, t), n)
        /\ Once(mb, m) => /\ ~Sent(Drop(mb, t), m)
                          /\ \A u \in Sockets : At(mb, u, m) => u = t
    BY DropOnce
  <1>5. /\ \A n, o \in Commands : Before(mb, n, o) => Before(Drop(mb, t), n, o)
        /\ \A n \in Commands : Before(mb, n, m) => ~Sent(mb, n)
    BY DropBefore
  <1>6. Sent(mb, m)
    BY <1>2 DEF Sent
  <1> QED BY <1>1, <1>2, <1>3, <1>4, <1>5, <1>6, DropPlaces DEF SameBut

\* The commands of a pipe.
Near(e) == UNION {{Ask(f), Ack(f), Wake(f), Bind(f)} : f \in {e, Peer(e)}}

\* The commands for other pipes are none of those for the pipe of e.
LEMMA NearFacts ==
    ASSUME NEW e \in Ends
    PROVE  /\ \A f \in Ends : f # e /\ f # Peer(e) =>
                 /\ Peer(f) \in Ends /\ Peer(f) # e /\ Peer(f) # Peer(e) /\ Peer(f) # f
                 /\ \A g \in {f, Peer(f)} :
                       /\ Ask(g) \in Commands \ Near(e) /\ Ack(g) \in Commands \ Near(e)
                       /\ Wake(g) \in Commands \ Near(e) /\ Bind(g) \in Commands \ Near(e)
           /\ Joined \in Commands \ Near(e) /\ Stopped \in Commands \ Near(e)
PROOF
  <1>1. \A n : n \in Near(e) <=> \E g \in {e, Peer(e)} : n \in {Ask(g), Ack(g), Wake(g), Bind(g)}
    BY DEF Near
  <1>2. \A f \in Ends : f # e /\ f # Peer(e) =>
           Peer(f) \in Ends /\ Peer(f) # e /\ Peer(f) # Peer(e) /\ Peer(f) # f
    BY EndFacts
  <1>3. Peer(e) \in Ends
    BY EndFacts
  <1>4. ASSUME NEW g \in Ends, g # e, g # Peer(e)
        PROVE  /\ Ask(g) \in Commands \ Near(e) /\ Ack(g) \in Commands \ Near(e)
               /\ Wake(g) \in Commands \ Near(e) /\ Bind(g) \in Commands \ Near(e)
    BY <1>1, <1>3, <1>4, CommandFacts
  <1>5. Joined \notin Near(e) /\ Stopped \notin Near(e)
    BY <1>1, <1>3, CommandFacts
  <1> QED BY <1>2, <1>4, <1>5, CommandFacts

\* A step of one pipe does not concern the others.
Elsewhere(pipe, pipe1, mb, mc, e) ==
    /\ \A g \in Ends : g # e /\ g # Peer(e) => pipe1[g] = pipe[g]
    /\ SameBut(mb, mc, Near(e))

\* A change of one pipe and of the commands for it leaves all other pipes
\* alone.
LEMMA ElsewhereFacts ==
    ASSUME NEW pipe, NEW pipe1, NEW mb, NEW mc, NEW M, NEW e,
           \A g \in Ends : g # e /\ g # Peer(e) => pipe1[g] = pipe[g],
           SameBut(mb, mc, M), M \subseteq Near(e)
    PROVE  Elsewhere(pipe, pipe1, mb, mc, e)
  BY DEF Elsewhere, SameBut

\* What a step does to one pipe leaves the invariant of the others, with
\* pending connections changed for that pipe only.
LEMMA FarFrame ==
    ASSUME NEW pipe, NEW sock, NEW endpoints, NEW mb, NEW pend, NEW found, NEW X,
           Holds(pipe, sock, endpoints, mb, pend, found, X),
           NEW e \in Ends, NEW pipe1, NEW sock1, NEW mc, NEW pend1,
           Elsewhere(pipe, pipe1, mb, mc, e),
           \A t \in Sockets : sock1[t].stage = sock[t].stage,
           \A s \in Connectors : s # e[1] => (s \in pend1 <=> s \in pend),
           NEW f \in Ends, f # e, f # Peer(e)
    PROVE  /\ Handshake(pipe1, mc, f) /\ Order(pipe1, mc, f)
           /\ f \notin X => Owner(pipe1, mc, pend1, f)
           /\ Content(pipe1, sock1, f)
PROOF
  <1> DEFINE p == Peer(f)
             M == Near(e)
  <1>0. SameBut(mb, mc, M)
    BY DEF Elsewhere
  <1>1. pipe1[f] = pipe[f] /\ pipe1[p] = pipe[p] /\ p # f
    BY NearFacts DEF Elsewhere
  <1>2. \A g \in {f, p} : /\ Ask(g) \in Commands \ M /\ Ack(g) \in Commands \ M
                          /\ Wake(g) \in Commands \ M /\ Bind(g) \in Commands \ M
    BY NearFacts
  <1>3. pipe[f].tid \in Sockets /\ pipe[f].sink \in Sockets \cup {None}
    BY DEF Holds, PipeTable, PipeType
  <1>4. f[1] # e[1] /\ f[1] \in Connectors
    BY EndFacts
  <1>9. \A g \in {f, p} : \A n \in {Ask(g), Ack(g), Wake(g), Bind(g)} :
           /\ \A u \in Sockets : At(mc, u, n) <=> At(mb, u, n)
           /\ Sent(mc, n) <=> Sent(mb, n)
           /\ Once(mb, n) => Once(mc, n)
    <2> SUFFICES ASSUME NEW n \in Commands \ M
                 PROVE  /\ \A u \in Sockets : At(mc, u, n) <=> At(mb, u, n)
                        /\ Sent(mc, n) <=> Sent(mb, n)
                        /\ Once(mb, n) => Once(mc, n)
      BY <1>2
    <2> QED BY <1>0 DEF SameBut
  <1>5. Handshake(pipe1, mc, f)
    BY <1>1, <1>9 DEF Holds, Handshake
  <1>6. Order(pipe1, mc, f)
    <2>1. Order(pipe, mb, f)
      BY DEF Holds
    <2>2. /\ Once(mc, Ask(f)) /\ Once(mc, Ack(f))
          /\ Before(mc, Ask(f), Ack(f)) /\ Before(mc, Wake(f), Ack(f))
      BY <2>1, <1>0, <1>2, CommandFacts DEF Order, SameBut
    <2>3. Before(mb, Ask(f), Ask(p)) => Before(mc, Ask(f), Ask(p))
      BY <1>0, <1>1, <1>2, CommandFacts, EndFacts DEF SameBut
    <2>4. \A u \in Sockets : /\ At(mc, u, Ask(f)) <=> At(mb, u, Ask(f))
                             /\ At(mc, u, Ack(f)) <=> At(mb, u, Ack(f))
                             /\ At(mc, u, Wake(f)) <=> At(mb, u, Wake(f))
      BY <1>9
    <2> QED BY <2>1, <2>2, <2>3, <2>4, <1>1 DEF Order
  <1>7. ASSUME f \notin X PROVE Owner(pipe1, mc, pend1, f)
    <2>1. Owner(pipe, mb, pend, f)
      BY <1>7 DEF Holds
    <2>2. /\ \A u \in Sockets : At(mc, u, Bind(f)) <=> At(mb, u, Bind(f))
          /\ Sent(mc, Bind(f)) <=> Sent(mb, Bind(f))
          /\ Once(mb, Bind(f)) => Once(mc, Bind(f))
      BY <1>9
    <2> QED BY <2>1, <2>2, <1>1, <1>3, <1>4 DEF Owner
  <1>8. Content(pipe1, sock1, f)
    <2>1. Content(pipe, sock, f)
      BY DEF Holds
    <2>2. pipe1[f].sink # None => sock1[pipe1[f].sink].stage = sock[pipe[f].sink].stage
      BY <1>1, <1>3
    <2> QED BY <2>1, <2>2, <1>1 DEF Content
  <1> QED BY <1>5, <1>6, <1>7, <1>8

\* What a step does to one pipe leaves the invariant of the others.
LEMMA FarEnds ==
    ASSUME NEW pipe, NEW sock, NEW endpoints, NEW mb, NEW pend, NEW found, NEW X,
           Holds(pipe, sock, endpoints, mb, pend, found, X),
           NEW e \in Ends, NEW pipe1, NEW mc, Elsewhere(pipe, pipe1, mb, mc, e)
    PROVE  \A f \in Ends : f # e /\ f # Peer(e) =>
              /\ Handshake(pipe1, mc, f) /\ Order(pipe1, mc, f)
              /\ f \notin X => Owner(pipe1, mc, pend, f)
              /\ Content(pipe1, sock, f)
  BY FarFrame

\* Commands that count as connections under way.
Counted == {Joined} \cup {Bind(<<s, "bind">>) : s \in Connectors}

\* Only bind and inproc_connected count as connections under way.
LEMMA CountedFacts ==
    /\ Counted \subseteq Commands
    /\ \A e \in Ends : Ask(e) \notin Counted /\ Ack(e) \notin Counted /\ Wake(e) \notin Counted
    /\ Stopped \notin Counted
PROOF
  <1>1. \A n \in Counted : n = Joined \/ \E e \in Ends : n = Bind(e)
    <2>1. \A s \in Connectors : <<s, "bind">> \in Ends
      BY EndFacts
    <2> QED BY ONLY <2>1 DEF Counted
  <1> QED BY <1>1, CommandFacts

\* Other commands do not count.
LEMMA CountingFrame ==
    ASSUME NEW sock, NEW mb, NEW mc, NEW M, NEW pend, NEW found, NEW t \in Sockets,
           Counting(sock, mb, pend, found, t), SameBut(mb, mc, M), M \cap Counted = {}
    PROVE  Counting(sock, mc, pend, found, t)
PROOF
  <1>1. \A n \in Counted : n \in Commands \ M
    BY CountedFacts
  <1>2. Joined \in Counted /\ \A s \in Connectors : Bind(<<s, "bind">>) \in Counted
    BY DEF Counted
  <1>4. \A n \in Counted : /\ At(mc, t, n) <=> At(mb, t, n)
                           /\ OnceAt(mb, t, n) => OnceAt(mc, t, n)
    <2> SUFFICES ASSUME NEW n \in Commands \ M
                 PROVE  /\ At(mc, t, n) <=> At(mb, t, n)
                        /\ OnceAt(mb, t, n) => OnceAt(mc, t, n)
      BY <1>1
    <2> QED BY DEF SameBut
  <1>3. Owed(mc, pend, found, t) = Owed(mb, pend, found, t)
    BY <1>2, <1>4 DEF Owed
  <1> QED BY <1>2, <1>3, <1>4 DEF Counting

-----------------------------------------------------------------------------
(* Steps of a pipe that leave the sockets alone.                             *)

\* What is in a pipe, and what its ends know of that, may change.
LEMMA PipeQuiet ==
    ASSUME NEW pipe, NEW sock, NEW endpoints, NEW mb, NEW pend, NEW found, NEW X,
           Holds(pipe, sock, endpoints, mb, pend, found, X),
           NEW e \in Ends, NEW r \in PipeType,
           r.state = pipe[e].state, r.out = pipe[e].out, r.sink = pipe[e].sink,
           r.tid = pipe[e].tid,
           r.asleep \/ ~r.in_active => r.sink # None,
           e[2] = "bind" /\ r.sink = None /\ r.state # "none" => r.delay,
           e[2] = "bind" /\ e[1] \in pend => r.in # << >> /\ Head(r.in) = "id",
           Content([pipe EXCEPT ![e] = r], sock, e)
    PROVE  Holds([pipe EXCEPT ![e] = r], sock, endpoints, mb, pend, found, X)
PROOF
  <1> DEFINE pipe1 == [pipe EXCEPT ![e] = r]
  <1>0. pipe \in PipeTable
    BY DEF Holds
  <1>1. pipe1 \in PipeTable
    BY <1>0 DEF PipeTable
  <1>2. /\ pipe1[e] = r
        /\ \A f \in Ends : f # e => pipe1[f] = pipe[f]
        /\ \A f \in Ends : /\ pipe1[f].state = pipe[f].state /\ pipe1[f].out = pipe[f].out
                           /\ pipe1[f].sink = pipe[f].sink /\ pipe1[f].tid = pipe[f].tid
    BY <1>0 DEF PipeTable
  <1> HIDE DEF pipe1
  <1>3. ASSUME NEW f \in Ends PROVE Handshake(pipe1, mb, f)
    BY <1>2, EndFacts DEF Holds, Handshake
  <1>4. ASSUME NEW f \in Ends PROVE Order(pipe1, mb, f)
    BY <1>2, EndFacts DEF Holds, Order
  <1>5. ASSUME NEW f \in Ends \ X PROVE Owner(pipe1, mb, pend, f)
    BY <1>2, EndFacts DEF Holds, Owner
  <1>6. ASSUME NEW f \in Ends PROVE Content(pipe1, sock, f)
    BY <1>2, EndFacts DEF Holds, Content, pipe1
  <1>7. ASSUME NEW t \in Sockets PROVE Members(sock, pipe1, t)
    BY <1>2 DEF Holds, Members
  <1> QED BY <1>1, <1>3, <1>4, <1>5, <1>6, <1>7 DEF Holds, pipe1

\* A reader that sleeps is woken up.
LEMMA PutWake ==
    ASSUME NEW pipe, NEW sock, NEW endpoints, NEW mb, NEW pend, NEW found, NEW X,
           Holds(pipe, sock, endpoints, mb, pend, found, X),
           NEW e \in Ends, pipe[e].sink # None, pipe[e].state \notin {"none", "deleted"},
           pipe[Peer(e)].state \notin Acked
    PROVE  Holds(pipe, sock, endpoints, Put(mb, pipe[e].tid, Wake(e)), pend, found, X)
PROOF
  <1> DEFINE t == pipe[e].tid
             mc == Put(mb, t, Wake(e))
  <1>0. pipe \in PipeTable /\ mb \in Boxes /\ t \in Sockets /\ Wake(e) \in Commands
    BY CommandFacts DEF Holds, PipeTable, PipeType
  <1>1. ~Sent(mb, Ack(e))
    BY EndFacts DEF Holds, Handshake
  <1>2. /\ \A u \in Sockets, n \in Commands :
              At(mc, u, n) <=> At(mb, u, n) \/ (u = t /\ n = Wake(e))
        /\ SameBut(mb, mc, {Wake(e)})
    BY <1>0, PutFacts
  <1>3. Before(mc, Wake(e), Ack(e))
    <2>1. Before(mb, Wake(e), Ack(e))
      BY DEF Holds, Order
    <2> QED BY <2>1, <1>0, <1>1, PutBefore, CommandFacts
  <1> HIDE DEF mc, t
  <1>4. \A f \in Ends : /\ Ask(f) \in Commands \ {Wake(e)} /\ Ack(f) \in Commands \ {Wake(e)}
                        /\ Bind(f) \in Commands \ {Wake(e)}
    BY CommandFacts
  <1>5. ASSUME NEW f \in Ends PROVE Handshake(pipe, mc, f)
    BY <1>2, <1>4, EndFacts DEF Holds, Handshake, SameBut
  <1>6. ASSUME NEW f \in Ends PROVE Order(pipe, mc, f)
    <2>1. Order(pipe, mb, f)
      BY DEF Holds
    <2>2. Before(mc, Wake(f), Ack(f))
      <3>1. CASE f = e
        BY <3>1, <1>3
      <3>2. CASE f # e
        <4>1. Wake(f) \in Commands \ {Wake(e)}
          BY <3>2, CommandFacts
        <4> QED BY <4>1, <2>1, <1>2, <1>4, CommandFacts DEF Order, SameBut
      <3> QED BY <3>1, <3>2
    <2>3. /\ Once(mc, Ask(f)) /\ Once(mc, Ack(f)) /\ Before(mc, Ask(f), Ack(f))
          /\ Before(mb, Ask(f), Ask(Peer(f))) => Before(mc, Ask(f), Ask(Peer(f)))
      BY <2>1, <1>2, <1>4, EndFacts, CommandFacts DEF Order, SameBut
    <2>4. \A u \in Sockets : /\ At(mc, u, Ack(f)) <=> At(mb, u, Ack(f))
                             /\ At(mc, u, Ask(f)) <=> At(mb, u, Ask(f))
                             /\ At(mc, u, Wake(f)) => At(mb, u, Wake(f)) \/ (u = t /\ f = e)
      BY <1>2, <1>4, CommandFacts
    <2> QED BY <2>1, <2>2, <2>3, <2>4 DEF Order, t
  <1>7. ASSUME NEW f \in Ends \ X PROVE Owner(pipe, mc, pend, f)
    <2>1. Owner(pipe, mb, pend, f) /\ pipe[f].tid \in Sockets
      BY DEF Holds, PipeTable, PipeType
    <2>2. /\ \A u \in Sockets : At(mc, u, Bind(f)) <=> At(mb, u, Bind(f))
          /\ Sent(mc, Bind(f)) <=> Sent(mb, Bind(f))
          /\ Once(mb, Bind(f)) => Once(mc, Bind(f))
      BY <1>2, <1>4 DEF SameBut
    <2> QED BY <2>1, <2>2 DEF Owner
  <1>8. ASSUME NEW u \in Sockets PROVE Counting(sock, mc, pend, found, u)
    <2>1. Counting(sock, mb, pend, found, u) /\ {Wake(e)} \cap Counted = {}
      BY CountedFacts DEF Holds
    <2> QED BY <2>1, <1>2, CountingFrame
  <1> QED BY <1>2, <1>5, <1>6, <1>7, <1>8 DEF Holds, SameBut, mc, t

\* A step of one pipe that keeps its ends with their sockets: only what concerns
\* the two ends is to be shown.
LEMMA PipeChange ==
    ASSUME NEW pipe, NEW sock, NEW endpoints, NEW mb, NEW pend, NEW found, NEW X,
           Holds(pipe, sock, endpoints, mb, pend, found, X),
           NEW e \in Ends, NEW pipe1 \in PipeTable, NEW mc, NEW M \in SUBSET Near(e),
           \A g \in Ends : g # e /\ g # Peer(e) => pipe1[g] = pipe[g],
           SameBut(mb, mc, M), M \cap Counted = {},
           \A f \in {e, Peer(e)} :
              /\ Handshake(pipe1, mc, f) /\ Order(pipe1, mc, f) /\ Content(pipe1, sock, f)
              /\ f \notin X => Owner(pipe1, mc, pend, f)
              /\ pipe1[f].sink = pipe[f].sink
              /\ pipe1[f].state = "deleted" <=> pipe[f].state = "deleted"
    PROVE  Holds(pipe1, sock, endpoints, mc, pend, found, X)
PROOF
  <1>1. \A f \in Ends :
           /\ Handshake(pipe1, mc, f) /\ Order(pipe1, mc, f) /\ Content(pipe1, sock, f)
           /\ f \notin X => Owner(pipe1, mc, pend, f)
    <2>1. Elsewhere(pipe, pipe1, mb, mc, e)
      BY ElsewhereFacts
    <2>2. \A f \in Ends : f # e /\ f # Peer(e) =>
            /\ Handshake(pipe1, mc, f) /\ Order(pipe1, mc, f) /\ Content(pipe1, sock, f)
            /\ f \notin X => Owner(pipe1, mc, pend, f)
      BY <2>1, FarEnds
    <2> QED BY <2>2
  <1>2. ASSUME NEW u \in Sockets PROVE Counting(sock, mc, pend, found, u)
    <2>1. Counting(sock, mb, pend, found, u)
      BY DEF Holds
    <2> QED BY <2>1, CountingFrame
  <1>3. ASSUME NEW u \in Sockets PROVE Members(sock, pipe1, u)
    <2>1. Members(sock, pipe, u)
      BY DEF Holds
    <2>2. \A f \in Ends : /\ pipe1[f].sink = pipe[f].sink
                          /\ pipe1[f].state = "deleted" <=> pipe[f].state = "deleted"
      OBVIOUS
    <2> QED BY <2>1, <2>2 DEF Members
  <1> QED BY <1>1, <1>2, <1>3 DEF Holds, SameBut

\* End e asks its peer to end the pipe.
LEMMA AskStep ==
    ASSUME NEW pipe, NEW sock, NEW endpoints, NEW mb, NEW pend, NEW found, NEW X,
           Holds(pipe, sock, endpoints, mb, pend, found, X),
           NEW e \in Ends, NEW r \in PipeType,
           pipe[e].state \in {"active", "delimiter_received"}, pipe[e].sink # None,
           r = [pipe[e] EXCEPT !.state = "term_req_sent1"]
    PROVE  Holds([pipe EXCEPT ![e] = r], sock, endpoints,
                 Put(mb, pipe[Peer(e)].tid, Ask(Peer(e))), pend, found, X)
PROOF
  <1> DEFINE p == Peer(e)
             t == pipe[p].tid
             mc == Put(mb, t, Ask(p))
             pipe1 == [pipe EXCEPT ![e] = r]
  <1>0. /\ pipe \in PipeTable /\ mb \in Boxes /\ t \in Sockets /\ p \in Ends
        /\ Peer(p) = e /\ p # e /\ Ask(p) \in Commands /\ Ask(p) \in Near(e)
    BY EndFacts, CommandFacts DEF Holds, PipeTable, PipeType, Near
  <1>1. /\ pipe1 \in PipeTable /\ pipe1[e] = r /\ pipe1[p] = pipe[p]
        /\ \A f \in Ends : f # e => pipe1[f] = pipe[f]
        /\ r.state = "term_req_sent1" /\ r.delay = pipe[e].delay
        /\ r.in_active = pipe[e].in_active /\ r.asleep = pipe[e].asleep /\ r.in = pipe[e].in
        /\ r.out = pipe[e].out /\ r.sink = pipe[e].sink /\ r.tid = pipe[e].tid
    BY <1>0 DEF PipeTable, PipeType
  <1>2. Handshake(pipe, mb, e) /\ Handshake(pipe, mb, p) /\ Order(pipe, mb, e) /\ Order(pipe, mb, p)
    BY <1>0 DEF Holds
  <1>3. /\ ~Sent(mb, Ask(p)) /\ ~Sent(mb, Ack(p))
        /\ pipe[p].state \in {"active", "delimiter_received", "term_req_sent1"}
    BY <1>0, <1>2 DEF Handshake, Acked, Asking, PipeTable, PipeType, PipeStates
  <1>4. /\ mc \in Boxes
        /\ \A u \in Sockets, n \in Commands : At(mc, u, n) <=> At(mb, u, n) \/ (u = t /\ n = Ask(p))
        /\ \A n \in Commands : Sent(mc, n) <=> Sent(mb, n) \/ n = Ask(p)
        /\ Once(mc, Ask(p))
        /\ SameBut(mb, mc, {Ask(p)})
    BY <1>0, <1>3, PutFacts
  <1>5. Before(mc, Ask(p), Ack(p))
    BY <1>0, <1>2, <1>3, PutBefore, CommandFacts DEF Order
  <1>6. ASSUME At(mb, t, Ask(e)), t # pipe[e].tid PROVE Before(mc, Ask(e), Ask(p))
    <2>1. Before(mb, Ask(e), Ask(p)) /\ \A u \in Sockets : At(mb, u, Ask(e)) => u = t
      BY <1>0, <1>2, <1>6 DEF Order, Once
    <2> QED BY <2>1, <1>0, <1>3, PutBefore, CommandFacts
  <1> HIDE DEF mc, t, p, pipe1
  <1>7. /\ Ask(e) # Ask(p) /\ Ack(e) # Ask(p) /\ Ack(p) # Ask(p) /\ Wake(e) # Ask(p)
        /\ Wake(p) # Ask(p) /\ Bind(e) # Ask(p) /\ Bind(p) # Ask(p)
        /\ {Ask(e), Ack(e), Ack(p), Wake(e), Wake(p), Bind(e), Bind(p)} \subseteq Commands
        /\ Ask(e) # Ack(e) /\ Wake(e) # Ack(e) /\ Ask(p) # Ack(p) /\ Wake(p) # Ack(p)
    BY <1>0, CommandFacts
  <1>8. Handshake(pipe1, mc, e) /\ Handshake(pipe1, mc, p)
    BY <1>0, <1>1, <1>2, <1>3, <1>4, <1>7 DEF Handshake, Acked, Asking, p
  <1>9. Order(pipe1, mc, e)
    <2>1. /\ Once(mc, Ask(e)) /\ Once(mc, Ack(e))
          /\ Before(mc, Ask(e), Ack(e)) /\ Before(mc, Wake(e), Ack(e))
      BY <1>2, <1>4, <1>7 DEF Order, SameBut
    <2> QED BY <2>1, <1>0, <1>1, <1>2, <1>3, <1>4, <1>6, <1>7 DEF Order, p, t
  <1>10. Order(pipe1, mc, p)
    <2>1. Once(mc, Ack(p)) /\ Before(mc, Wake(p), Ack(p))
      BY <1>2, <1>4, <1>7 DEF Order, SameBut
    <2> QED BY <2>1, <1>0, <1>1, <1>2, <1>3, <1>4, <1>5, <1>7 DEF Order, p, t, Sent
  <1>11. ASSUME NEW f \in {e, p}, f \notin X PROVE Owner(pipe1, mc, pend, f)
    <2>1. Owner(pipe, mb, pend, f) /\ pipe[f].tid \in Sockets
      BY <1>0, <1>11 DEF Holds, PipeTable, PipeType
    <2>2. /\ \A u \in Sockets : At(mc, u, Bind(f)) <=> At(mb, u, Bind(f))
          /\ Sent(mc, Bind(f)) <=> Sent(mb, Bind(f))
          /\ Once(mb, Bind(f)) => Once(mc, Bind(f))
      BY <1>4, <1>7 DEF SameBut
    <2>3. CASE f = e
      BY <2>1, <2>2, <2>3, <1>1 DEF Owner
    <2>4. CASE f = p
      BY <2>1, <2>2, <2>4, <1>1 DEF Owner
    <2> QED BY <2>3, <2>4
  <1>12. ASSUME NEW f \in {e, p} PROVE Content(pipe1, sock, f)
    <2>1. Content(pipe, sock, f)
      BY <1>0 DEF Holds
    <2> QED BY <2>1, <1>0, <1>1 DEF Content, p
  <1>13. {Ask(p)} \cap Counted = {} /\ {Ask(p)} \in SUBSET Near(e)
    BY <1>0, CountedFacts
  <1>14. \A f \in {e, p} :
            /\ Handshake(pipe1, mc, f) /\ Order(pipe1, mc, f) /\ Content(pipe1, sock, f)
            /\ f \notin X => Owner(pipe1, mc, pend, f)
            /\ pipe1[f].sink = pipe[f].sink
            /\ pipe1[f].state = "deleted" <=> pipe[f].state = "deleted"
    BY <1>1, <1>8, <1>9, <1>10, <1>11, <1>12
  <1>15. Holds(pipe1, sock, endpoints, mc, pend, found, X)
    BY <1>1, <1>4, <1>13, <1>14, PipeChange DEF p
  <1> QED BY <1>15 DEF mc, t, p, pipe1

\* A command that is not under way is in every order with the others.
LEMMA Unsent ==
    ASSUME NEW mb, NEW m, ~Sent(mb, m)
    PROVE  /\ Once(mb, m)
           /\ \A n : Before(mb, m, n) /\ Before(mb, n, m)
           /\ \A t \in Sockets : ~At(mb, t, m)
PROOF
  <1>1. \A t \in Sockets : \A i \in 1 .. Len(mb[t]) : mb[t][i] # m
    BY DEF Sent, At
  <1>2. \A t \in Sockets : ~At(mb, t, m)
    BY DEF Sent
  <1>3. Once(mb, m)
    BY <1>1, <1>2 DEF Once, OnceAt
  <1> QED BY <1>1, <1>2, <1>3 DEF Before

\* Mailboxes that did not change.
LEMMA SameButItself ==
    ASSUME NEW mb \in Boxes, NEW M
    PROVE  SameBut(mb, mb, M)
  BY DEF SameBut

\* End e acknowledges: md is what is left once the request has been taken out.
LEMMA AckStep ==
    ASSUME NEW pipe, NEW sock, NEW endpoints, NEW mb, NEW pend, NEW found, NEW X,
           Holds(pipe, sock, endpoints, mb, pend, found, X),
           NEW e \in Ends, NEW r \in PipeType, NEW x, NEW md,
           SameBut(mb, md, {Ask(e)}), ~Sent(md, Ask(e)),
           pipe[e].sink # None,
           r = [pipe[e] EXCEPT !.state = x, !.out = FALSE],
           \/ x = "term_ack_sent" /\ pipe[e].state = "waiting_for_delimiter"
           \/ x = "term_ack_sent" /\ pipe[e].state \in {"active", "delimiter_received"}
              /\ Sent(mb, Ask(e))
           \/ x = "term_req_sent2" /\ pipe[e].state = "term_req_sent1" /\ Sent(mb, Ask(e)),
           \A u \in Sockets : At(mb, u, Ask(Peer(e))) => u = pipe[Peer(e)].tid,
           Content([pipe EXCEPT ![e] = r], sock, e)
    PROVE  Holds([pipe EXCEPT ![e] = r], sock, endpoints,
                 Put(md, pipe[Peer(e)].tid, Ack(Peer(e))), pend, found, X)
PROOF
  <1> DEFINE p == Peer(e)
             t == pipe[p].tid
             mc == Put(md, t, Ack(p))
             pipe1 == [pipe EXCEPT ![e] = r]
  <1>0. /\ pipe \in PipeTable /\ mb \in Boxes /\ md \in Boxes /\ t \in Sockets /\ p \in Ends
        /\ Peer(p) = e /\ p # e /\ Ack(p) \in Commands /\ Ack(p) \in Near(e) /\ Ask(e) \in Near(e)
    BY EndFacts, CommandFacts DEF Holds, PipeTable, PipeType, Near, SameBut
  <1>1. /\ pipe1 \in PipeTable /\ pipe1[e] = r /\ pipe1[p] = pipe[p]
        /\ \A f \in Ends : f # e => pipe1[f] = pipe[f]
        /\ r.state = x /\ r.delay = pipe[e].delay
        /\ r.in_active = pipe[e].in_active /\ r.asleep = pipe[e].asleep /\ r.in = pipe[e].in
        /\ r.out = FALSE /\ r.sink = pipe[e].sink /\ r.tid = pipe[e].tid
    BY <1>0 DEF PipeTable, PipeType
  <1>2. Handshake(pipe, mb, e) /\ Handshake(pipe, mb, p) /\ Order(pipe, mb, e) /\ Order(pipe, mb, p)
    BY <1>0 DEF Holds
  <1>3. ~Sent(mb, Ack(p)) /\ pipe[p].state \in Asking
        /\ (x = "term_ack_sent" => pipe[p].state = "term_req_sent1")
    BY <1>0, <1>2 DEF Handshake, Acked, Asking, PipeTable, PipeType, PipeStates
  <1>7. /\ Ask(e) # Ask(p) /\ Ack(e) # Ask(e) /\ Ack(p) # Ask(e) /\ Wake(e) # Ask(e)
        /\ Wake(p) # Ask(e) /\ Bind(e) # Ask(e) /\ Bind(p) # Ask(e)
        /\ Ask(e) # Ack(p) /\ Ask(p) # Ack(p) /\ Ack(e) # Ack(p) /\ Wake(e) # Ack(p)
        /\ Wake(p) # Ack(p) /\ Bind(e) # Ack(p) /\ Bind(p) # Ack(p)
        /\ {Ask(e), Ask(p), Ack(e), Ack(p), Wake(e), Wake(p), Bind(e), Bind(p)} \subseteq Commands
        /\ Ask(e) # Ack(e) /\ Wake(e) # Ack(e)
    BY <1>0, CommandFacts
  <1>30. ~Sent(md, Ack(p))
    BY <1>3, <1>7 DEF SameBut
  <1>4. /\ mc \in Boxes
        /\ \A u \in Sockets, n \in Commands : At(mc, u, n) <=> At(md, u, n) \/ (u = t /\ n = Ack(p))
        /\ \A n \in Commands : Sent(mc, n) <=> Sent(md, n) \/ n = Ack(p)
        /\ Once(mc, Ack(p))
        /\ SameBut(md, mc, {Ack(p)})
    BY <1>0, <1>30, PutFacts
  <1>40. SameBut(mb, mc, {Ask(e), Ack(p)})
    <2>1. SameBut(mb, mc, {Ask(e)} \cup {Ack(p)}) /\ {Ask(e)} \cup {Ack(p)} = {Ask(e), Ack(p)}
      BY <1>4, SameButTrans
    <2> QED BY <2>1
  <1>41. ~Sent(mc, Ask(e))
    BY <1>4, <1>7
  <1>5. Before(mc, Ask(p), Ack(p)) /\ Before(mc, Wake(p), Ack(p))
    <2>1. Before(md, Ask(p), Ack(p)) /\ Before(md, Wake(p), Ack(p))
      BY <1>2, <1>7 DEF Order, SameBut
    <2>2. \A u \in Sockets : At(md, u, Ask(p)) \/ At(md, u, Wake(p)) => u = t
      <3>1. \A u \in Sockets : /\ At(md, u, Ask(p)) <=> At(mb, u, Ask(p))
                               /\ At(md, u, Wake(p)) <=> At(mb, u, Wake(p))
        BY <1>7 DEF SameBut
      <3> QED BY <3>1, <1>2 DEF Order
    <2> QED BY <2>1, <2>2, <1>0, <1>7, PutBefore
  <1> HIDE DEF mc, t, p, pipe1
  <1>42. /\ \A n \in {Ask(p), Ack(e), Wake(e), Wake(p), Bind(e), Bind(p)} :
              /\ \A u \in Sockets : At(mc, u, n) <=> At(mb, u, n)
              /\ Sent(mc, n) <=> Sent(mb, n)
              /\ Once(mb, n) => Once(mc, n)
         /\ Before(mb, Wake(e), Ack(e)) => Before(mc, Wake(e), Ack(e))
    <2>1. \A n \in {Ask(p), Ack(e), Wake(e), Wake(p), Bind(e), Bind(p)} :
             n \in Commands \ {Ask(e), Ack(p)}
      BY <1>7
    <2> HIDE <1>7
    <2>2. Wake(e) # Ack(e)
      BY <1>7
    <2> QED BY <2>1, <2>2, <1>40 DEF SameBut
  <1>8. Handshake(pipe1, mc, e)
    BY <1>0, <1>1, <1>2, <1>3, <1>4, <1>41, <1>42 DEF Handshake, Acked, Asking, p
  <1>81. Handshake(pipe1, mc, p)
    BY <1>0, <1>1, <1>2, <1>3, <1>4, <1>41, <1>42 DEF Handshake, Acked, Asking, p
  <1>9. Order(pipe1, mc, e)
    <2>1. /\ Once(mc, Ask(e)) /\ Before(mc, Ask(e), Ack(e)) /\ Once(mc, Ack(e))
          /\ Before(mc, Wake(e), Ack(e)) /\ \A u \in Sockets : ~At(mc, u, Ask(e))
      BY <1>2, <1>41, <1>42, Unsent DEF Order
    <2> QED BY <2>1, <1>1, <1>2, <1>42 DEF Order
  <1>10. Order(pipe1, mc, p)
    <2>1. Once(mc, Ask(p))
      BY <1>2, <1>42 DEF Order
    <2>2. \A u \in Sockets : At(mc, u, Ack(p)) => u = t
      BY <1>4, <1>7, <1>30 DEF Sent
    <2> QED BY <2>1, <2>2, <1>0, <1>1, <1>2, <1>4, <1>5, <1>42 DEF Order, p, t
  <1>11. ASSUME NEW f \in {e, p}, f \notin X PROVE Owner(pipe1, mc, pend, f)
    <2>1. Owner(pipe, mb, pend, f) /\ pipe[f].tid \in Sockets
      BY <1>0, <1>11 DEF Holds, PipeTable, PipeType
    <2>2. /\ \A u \in Sockets : At(mc, u, Bind(f)) <=> At(mb, u, Bind(f))
          /\ Sent(mc, Bind(f)) <=> Sent(mb, Bind(f))
          /\ Once(mb, Bind(f)) => Once(mc, Bind(f))
      BY <1>42
    <2>3. CASE f = e
      BY <2>1, <2>2, <2>3, <1>1 DEF Owner
    <2>4. CASE f = p
      BY <2>1, <2>2, <2>4, <1>1 DEF Owner
    <2> QED BY <2>3, <2>4
  <1>12. Content(pipe1, sock, e) /\ Content(pipe1, sock, p)
    <2>1. Content(pipe, sock, p)
      BY <1>0 DEF Holds
    <2>2. Content(pipe1, sock, p)
      BY <2>1, <1>0, <1>1 DEF Content
    <2> QED BY <2>2 DEF pipe1
  <1>13. {Ask(e), Ack(p)} \cap Counted = {} /\ {Ask(e), Ack(p)} \in SUBSET Near(e)
    BY <1>0, CountedFacts
  <1>14. \A f \in {e, p} :
            /\ Handshake(pipe1, mc, f) /\ Order(pipe1, mc, f) /\ Content(pipe1, sock, f)
            /\ f \notin X => Owner(pipe1, mc, pend, f)
            /\ pipe1[f].sink = pipe[f].sink
            /\ pipe1[f].state = "deleted" <=> pipe[f].state = "deleted"
    BY <1>1, <1>8, <1>81, <1>9, <1>10, <1>11, <1>12
  <1>15. Holds(pipe1, sock, endpoints, mc, pend, found, X)
    BY <1>1, <1>13, <1>14, <1>40, PipeChange DEF p
  <1> QED BY <1>15 DEF mc, t, p, pipe1

\* End e sees the request and waits for the delimiter.
LEMMA WaitStep ==
    ASSUME NEW pipe, NEW sock, NEW endpoints, NEW mb, NEW pend, NEW found, NEW X,
           Holds(pipe, sock, endpoints, mb, pend, found, X),
           NEW e \in Ends, NEW r \in PipeType, NEW mc,
           SameBut(mb, mc, {Ask(e)}), ~Sent(mc, Ask(e)), Sent(mb, Ask(e)),
           pipe[e].state = "active",
           r = [pipe[e] EXCEPT !.state = "waiting_for_delimiter"]
    PROVE  Holds([pipe EXCEPT ![e] = r], sock, endpoints, mc, pend, found, X)
PROOF
  <1> DEFINE p == Peer(e)
             pipe1 == [pipe EXCEPT ![e] = r]
  <1>0. /\ pipe \in PipeTable /\ mb \in Boxes /\ mc \in Boxes /\ p \in Ends
        /\ Peer(p) = e /\ p # e /\ Ask(e) \in Near(e)
    BY EndFacts, CommandFacts DEF Holds, PipeTable, PipeType, Near, SameBut
  <1>1. /\ pipe1 \in PipeTable /\ pipe1[e] = r /\ pipe1[p] = pipe[p]
        /\ \A f \in Ends : f # e => pipe1[f] = pipe[f]
        /\ r.state = "waiting_for_delimiter" /\ r.delay = pipe[e].delay
        /\ r.in_active = pipe[e].in_active /\ r.asleep = pipe[e].asleep /\ r.in = pipe[e].in
        /\ r.out = pipe[e].out /\ r.sink = pipe[e].sink /\ r.tid = pipe[e].tid
    BY <1>0 DEF PipeTable, PipeType
  <1>2. Handshake(pipe, mb, e) /\ Handshake(pipe, mb, p) /\ Order(pipe, mb, e) /\ Order(pipe, mb, p)
    BY <1>0 DEF Holds
  <1>3. pipe[p].state = "term_req_sent1" /\ ~Sent(mb, Ask(p))
    BY <1>0, <1>2 DEF Handshake, Acked, Asking, PipeTable, PipeType, PipeStates
  <1>7. /\ Ask(e) # Ask(p) /\ Ack(e) # Ask(e) /\ Ack(p) # Ask(e) /\ Wake(e) # Ask(e)
        /\ Wake(p) # Ask(e) /\ Bind(e) # Ask(e) /\ Bind(p) # Ask(e)
        /\ {Ask(e), Ask(p), Ack(e), Ack(p), Wake(e), Wake(p), Bind(e), Bind(p)} \subseteq Commands
        /\ Ask(p) # Ack(p) /\ Wake(p) # Ack(p) /\ Wake(e) # Ack(e)
    BY <1>0, CommandFacts
  <1> HIDE DEF p, pipe1
  <1>4. /\ \A n \in {Ask(p), Ack(e), Ack(p), Wake(e), Wake(p), Bind(e), Bind(p)} :
              /\ \A u \in Sockets : At(mc, u, n) <=> At(mb, u, n)
              /\ Sent(mc, n) <=> Sent(mb, n)
              /\ Once(mb, n) => Once(mc, n)
        /\ Before(mb, Wake(e), Ack(e)) => Before(mc, Wake(e), Ack(e))
        /\ Before(mb, Wake(p), Ack(p)) => Before(mc, Wake(p), Ack(p))
        /\ Before(mb, Ask(p), Ack(p)) => Before(mc, Ask(p), Ack(p))
    <2>1. \A n \in {Ask(p), Ack(e), Ack(p), Wake(e), Wake(p), Bind(e), Bind(p)} :
             n \in Commands \ {Ask(e)}
      BY <1>7
    <2>2. Wake(e) # Ack(e) /\ Wake(p) # Ack(p) /\ Ask(p) # Ack(p)
      BY <1>7
    <2> HIDE <1>7
    <2> QED BY <2>1, <2>2 DEF SameBut
  <1>8. Handshake(pipe1, mc, e) /\ Handshake(pipe1, mc, p)
    BY <1>0, <1>1, <1>2, <1>3, <1>4 DEF Handshake, Acked, Asking, p
  <1>9. Order(pipe1, mc, e)
    <2>1. /\ Once(mc, Ask(e)) /\ Before(mc, Ask(e), Ack(e)) /\ Once(mc, Ack(e))
          /\ Before(mc, Wake(e), Ack(e)) /\ \A u \in Sockets : ~At(mc, u, Ask(e))
      BY <1>2, <1>4, Unsent DEF Order
    <2> QED BY <2>1, <1>1, <1>2, <1>4 DEF Order
  <1>10. Order(pipe1, mc, p)
    <2>1. \A u \in Sockets : ~At(mc, u, Ask(p))
      BY <1>3, <1>4 DEF Sent
    <2> QED BY <2>1, <1>0, <1>1, <1>2, <1>4 DEF Order
  <1>11. ASSUME NEW f \in {e, p}, f \notin X PROVE Owner(pipe1, mc, pend, f)
    <2>1. Owner(pipe, mb, pend, f) /\ pipe[f].tid \in Sockets
      BY <1>0, <1>11 DEF Holds, PipeTable, PipeType
    <2>2. /\ \A u \in Sockets : At(mc, u, Bind(f)) <=> At(mb, u, Bind(f))
          /\ Sent(mc, Bind(f)) <=> Sent(mb, Bind(f))
          /\ Once(mb, Bind(f)) => Once(mc, Bind(f))
      BY <1>4
    <2>3. CASE f = e
      BY <2>1, <2>2, <2>3, <1>1 DEF Owner
    <2>4. CASE f = p
      BY <2>1, <2>2, <2>4, <1>1 DEF Owner
    <2> QED BY <2>3, <2>4
  <1>12. Content(pipe1, sock, e) /\ Content(pipe1, sock, p)
    <2>1. Content(pipe, sock, p) /\ Content(pipe, sock, e)
      BY <1>0 DEF Holds
    <2> QED BY <2>1, <1>0, <1>1, <1>3 DEF Content, p
  <1>13. {Ask(e)} \cap Counted = {} /\ {Ask(e)} \in SUBSET Near(e)
    BY <1>0, CountedFacts
  <1>14. \A f \in {e, p} :
            /\ Handshake(pipe1, mc, f) /\ Order(pipe1, mc, f) /\ Content(pipe1, sock, f)
            /\ f \notin X => Owner(pipe1, mc, pend, f)
            /\ pipe1[f].sink = pipe[f].sink
            /\ pipe1[f].state = "deleted" <=> pipe[f].state = "deleted"
    BY <1>1, <1>8, <1>9, <1>10, <1>11, <1>12
  <1>15. Holds(pipe1, sock, endpoints, mc, pend, found, X)
    BY <1>1, <1>13, <1>14, PipeChange DEF p
  <1> QED BY <1>15 DEF p, pipe1

\* End e reads the delimiter before it sees the request.
LEMMA DelimitStep ==
    ASSUME NEW pipe, NEW sock, NEW endpoints, NEW mb, NEW pend, NEW found, NEW X,
           Holds(pipe, sock, endpoints, mb, pend, found, X),
           NEW e \in Ends, NEW r \in PipeType,
           pipe[e].state = "active", pipe[e].sink # None,
           r = [pipe[e] EXCEPT !.state = "delimiter_received"],
           Content([pipe EXCEPT ![e] = r], sock, e)
    PROVE  Holds([pipe EXCEPT ![e] = r], sock, endpoints, mb, pend, found, X)
PROOF
  <1> DEFINE p == Peer(e)
             pipe1 == [pipe EXCEPT ![e] = r]
  <1>0. pipe \in PipeTable /\ mb \in Boxes /\ p \in Ends /\ Peer(p) = e /\ p # e
    BY EndFacts DEF Holds
  <1>1. /\ pipe1 \in PipeTable /\ pipe1[e] = r /\ pipe1[p] = pipe[p]
        /\ \A f \in Ends : f # e => pipe1[f] = pipe[f]
        /\ r.state = "delimiter_received" /\ r.delay = pipe[e].delay
        /\ r.in_active = pipe[e].in_active /\ r.asleep = pipe[e].asleep /\ r.in = pipe[e].in
        /\ r.out = pipe[e].out /\ r.sink = pipe[e].sink /\ r.tid = pipe[e].tid
    BY <1>0 DEF PipeTable, PipeType
  <1>2. Handshake(pipe, mb, e) /\ Handshake(pipe, mb, p) /\ Order(pipe, mb, e) /\ Order(pipe, mb, p)
    BY <1>0 DEF Holds
  <1> HIDE DEF p, pipe1
  <1>8. Handshake(pipe1, mb, e) /\ Handshake(pipe1, mb, p)
    BY <1>0, <1>1, <1>2 DEF Handshake, Acked, Asking, p
  <1>9. Order(pipe1, mb, e) /\ Order(pipe1, mb, p)
    BY <1>0, <1>1, <1>2 DEF Order, p
  <1>11. ASSUME NEW f \in {e, p}, f \notin X PROVE Owner(pipe1, mb, pend, f)
    <2>1. Owner(pipe, mb, pend, f)
      BY <1>0, <1>11 DEF Holds
    <2>3. CASE f = e
      BY <2>1, <2>3, <1>1 DEF Owner
    <2>4. CASE f = p
      BY <2>1, <2>4, <1>1 DEF Owner
    <2> QED BY <2>3, <2>4
  <1>12. Content(pipe1, sock, e) /\ Content(pipe1, sock, p)
    <2>1. Content(pipe, sock, p)
      BY <1>0 DEF Holds
    <2>2. Content(pipe1, sock, p)
      BY <2>1, <1>0, <1>1 DEF Content
    <2> QED BY <2>2 DEF pipe1
  <1>13. SameBut(mb, mb, {}) /\ {} \in SUBSET Near(e)
    BY <1>0, SameButItself
  <1>14. \A f \in {e, p} :
            /\ Handshake(pipe1, mb, f) /\ Order(pipe1, mb, f) /\ Content(pipe1, sock, f)
            /\ f \notin X => Owner(pipe1, mb, pend, f)
            /\ pipe1[f].sink = pipe[f].sink
            /\ pipe1[f].state = "deleted" <=> pipe[f].state = "deleted"
    BY <1>1, <1>8, <1>9, <1>11, <1>12
  <1>15. Holds(pipe1, sock, endpoints, mb, pend, found, X)
    BY <1>1, <1>13, <1>14, PipeChange DEF p
  <1> QED BY <1>15 DEF p, pipe1

\* Commands that say nothing of a pipe's end or of a connection may come and go.
LEMMA StopStep ==
    ASSUME NEW pipe, NEW sock, NEW endpoints, NEW mb, NEW pend, NEW found, NEW X,
           Holds(pipe, sock, endpoints, mb, pend, found, X),
           NEW mc, SameBut(mb, mc, {Stopped})
    PROVE  Holds(pipe, sock, endpoints, mc, pend, found, X)
PROOF
  <1>1. \A f \in Ends : {Ask(f), Ack(f), Wake(f), Bind(f)} \subseteq Commands \ {Stopped}
    BY CommandFacts
  <1>2. \A f \in Ends : Ask(f) # Ack(f) /\ Wake(f) # Ack(f) /\ Peer(f) \in Ends /\ Ask(f) # Ask(Peer(f))
    BY CommandFacts, EndFacts
  <1>3. \A f \in Ends : \A n \in {Ask(f), Ack(f), Wake(f), Bind(f)} :
           /\ \A u \in Sockets : At(mc, u, n) <=> At(mb, u, n)
           /\ Sent(mc, n) <=> Sent(mb, n)
           /\ Once(mb, n) => Once(mc, n)
    <2> SUFFICES ASSUME NEW n \in Commands \ {Stopped}
                 PROVE  /\ \A u \in Sockets : At(mc, u, n) <=> At(mb, u, n)
                        /\ Sent(mc, n) <=> Sent(mb, n)
                        /\ Once(mb, n) => Once(mc, n)
      BY <1>1
    <2> QED BY DEF SameBut
  <1>4. \A f \in Ends :
           /\ Before(mb, Ask(f), Ack(f)) => Before(mc, Ask(f), Ack(f))
           /\ Before(mb, Wake(f), Ack(f)) => Before(mc, Wake(f), Ack(f))
           /\ Before(mb, Ask(f), Ask(Peer(f))) => Before(mc, Ask(f), Ask(Peer(f)))
    BY <1>1, <1>2 DEF SameBut
  <1>5. ASSUME NEW f \in Ends PROVE Handshake(pipe, mc, f)
    BY <1>2, <1>3 DEF Holds, Handshake
  <1>6. ASSUME NEW f \in Ends PROVE Order(pipe, mc, f)
    <2>1. Order(pipe, mb, f)
      BY DEF Holds
    <2> QED BY <2>1, <1>3, <1>4 DEF Order
  <1>7. ASSUME NEW f \in Ends \ X PROVE Owner(pipe, mc, pend, f)
    <2>1. Owner(pipe, mb, pend, f) /\ pipe[f].tid \in Sockets
      BY DEF Holds, PipeTable, PipeType
    <2> QED BY <2>1, <1>3 DEF Owner
  <1>8. ASSUME NEW u \in Sockets PROVE Counting(sock, mc, pend, found, u)
    <2>1. Counting(sock, mb, pend, found, u) /\ {Stopped} \cap Counted = {}
      BY CountedFacts DEF Holds
    <2> QED BY <2>1, CountingFrame
  <1> QED BY <1>5, <1>6, <1>7, <1>8 DEF Holds, SameBut

\* Taking an activate_read keeps the invariant.
LEMMA DropWake ==
    ASSUME NEW pipe, NEW sock, NEW endpoints, NEW mb, NEW pend, NEW found, NEW X,
           Holds(pipe, sock, endpoints, mb, pend, found, X),
           NEW t \in Sockets, NEW e \in Ends, mb[t] # << >>, Head(mb[t]) = Wake(e)
    PROVE  Holds(pipe, sock, endpoints, Drop(mb, t), pend, found, X)
PROOF
  <1> DEFINE mc == Drop(mb, t)
  <1>0. mb \in Boxes /\ Wake(e) \in Commands /\ Wake(e) \in Near(e) /\ pipe \in PipeTable
        /\ Peer(e) \in Ends /\ Peer(Peer(e)) = e /\ Peer(e) # e
    BY CommandFacts, EndFacts DEF Holds, Near
  <1>1. /\ SameBut(mb, mc, {Wake(e)})
        /\ \A u \in Sockets, n \in Commands : At(mc, u, n) => At(mb, u, n)
        /\ \A n, o \in Commands : Before(mb, n, o) => Before(mc, n, o)
    BY <1>0, DropFacts
  <1> HIDE DEF mc
  <1>2. ASSUME NEW f \in {e, Peer(e)}
        PROVE  /\ Handshake(pipe, mc, f) /\ Order(pipe, mc, f)
               /\ f \notin X => Owner(pipe, mc, pend, f)
    <2>0. f \in Ends /\ Peer(f) \in Ends /\ f # Peer(f)
      BY <1>0, EndFacts
    <2>1. \A g \in {f, Peer(f)} : \A n \in {Ask(g), Ack(g), Bind(g)} :
             /\ \A u \in Sockets : At(mc, u, n) <=> At(mb, u, n)
             /\ Sent(mc, n) <=> Sent(mb, n)
             /\ Once(mb, n) => Once(mc, n)
      <3>1. \A g \in {f, Peer(f)} : \A n \in {Ask(g), Ack(g), Bind(g)} : n \in Commands \ {Wake(e)}
        BY <2>0, CommandFacts
      <3> SUFFICES ASSUME NEW n \in Commands \ {Wake(e)}
                   PROVE  /\ \A u \in Sockets : At(mc, u, n) <=> At(mb, u, n)
                          /\ Sent(mc, n) <=> Sent(mb, n)
                          /\ Once(mb, n) => Once(mc, n)
        BY <3>1
      <3> QED BY <1>1 DEF SameBut
    <2>2. /\ Before(mb, Ask(f), Ack(f)) => Before(mc, Ask(f), Ack(f))
          /\ Before(mb, Wake(f), Ack(f)) => Before(mc, Wake(f), Ack(f))
          /\ Before(mb, Ask(f), Ask(Peer(f))) => Before(mc, Ask(f), Ask(Peer(f)))
          /\ \A u \in Sockets : At(mc, u, Wake(f)) => At(mb, u, Wake(f))
      BY <1>1, <2>0, CommandFacts
    <2>3. Handshake(pipe, mb, f) /\ Order(pipe, mb, f) /\ (f \notin X => Owner(pipe, mb, pend, f))
          /\ pipe[f].tid \in Sockets
      BY <2>0 DEF Holds, PipeTable, PipeType
    <2>4. Handshake(pipe, mc, f)
      BY <2>1, <2>3 DEF Handshake
    <2>5. Order(pipe, mc, f)
      BY <2>1, <2>2, <2>3 DEF Order
    <2>6. f \notin X => Owner(pipe, mc, pend, f)
      BY <2>1, <2>3 DEF Owner
    <2> QED BY <2>4, <2>5, <2>6
  <1>3. {Wake(e)} \cap Counted = {} /\ {Wake(e)} \in SUBSET Near(e)
    BY <1>0, CountedFacts
  <1>4. \A f \in {e, Peer(e)} :
            /\ Handshake(pipe, mc, f) /\ Order(pipe, mc, f) /\ Content(pipe, sock, f)
            /\ f \notin X => Owner(pipe, mc, pend, f)
    BY <1>0, <1>2 DEF Holds
  <1>5. Holds(pipe, sock, endpoints, mc, pend, found, X)
    BY <1>0, <1>1, <1>3, <1>4, PipeChange
  <1> QED BY <1>5 DEF mc

\* Counting the pipes of a socket.
LEMMA PipesFinite ==
    ASSUME NEW S \in SUBSET Ends
    PROVE  /\ IsFiniteSet(S) /\ Cardinality(S) \in Nat
           /\ Cardinality(S) = 0 <=> S = {}
           /\ \A e \in S : Cardinality(S \ {e}) = Cardinality(S) - 1
           /\ \A e \in Ends : e \notin S => Cardinality(S \cup {e}) = Cardinality(S) + 1
PROOF
  <1>1. IsFiniteSet(S)
    BY EndsFinite, FS_Subset
  <1> QED BY <1>1, FS_CardinalityType, FS_EmptySet, FS_RemoveElement, FS_AddElement

\* What is so when an acknowledgement is at hand.
LEMMA AckFacts ==
    ASSUME NEW pipe, NEW sock, NEW endpoints, NEW mb, NEW pend, NEW found, NEW X,
           Holds(pipe, sock, endpoints, mb, pend, found, X),
           NEW t \in Sockets, NEW e \in Ends \ X, mb[t] # << >>, Head(mb[t]) = Ack(e)
    PROVE  /\ pipe[e].sink = t /\ pipe[e].tid = t /\ e \in sock[t].pipes
           /\ pipe[e].state \in {"term_req_sent1", "term_ack_sent", "term_req_sent2"}
           /\ pipe[e].state = "term_req_sent1" =>
                 pipe[Peer(e)].state \in {"term_ack_sent", "term_req_sent2"}
           /\ pipe[Peer(e)].state \in Acked
           /\ sock[t].terminating => sock[t].term_acks # 0
           /\ ~sock[t].destroyed
           /\ ~Sent(mb, Ask(e)) /\ ~Sent(mb, Wake(e)) /\ ~Sent(mb, Ask(Peer(e)))
PROOF
  <1>0. mb \in Boxes /\ pipe \in PipeTable /\ sock \in SocketTable /\ Peer(e) \in Ends
        /\ Peer(Peer(e)) = e
    BY EndFacts DEF Holds
  <1>1. Ack(e) \in Commands /\ Ask(e) \in Commands /\ Wake(e) \in Commands
    BY CommandFacts
  <1>2. Handshake(pipe, mb, e) /\ Handshake(pipe, mb, Peer(e)) /\ Order(pipe, mb, e)
        /\ Owner(pipe, mb, pend, e) /\ Members(sock, pipe, t) /\ Counting(sock, mb, pend, found, t)
    BY <1>0 DEF Holds
  <1>3. At(mb, t, Ack(e)) /\ Sent(mb, Ack(e)) /\ ~Sent(mb, Ask(e)) /\ ~Sent(mb, Wake(e))
    BY <1>0, <1>1, <1>2, DropFacts DEF Order
  <1>4. /\ pipe[e].state \in {"term_req_sent1", "term_ack_sent", "term_req_sent2"}
        /\ pipe[Peer(e)].state \in Acked /\ ~Sent(mb, Ask(Peer(e)))
        /\ pipe[e].state = "term_req_sent1" =>
              pipe[Peer(e)].state \in {"term_ack_sent", "term_req_sent2"}
    BY <1>0, <1>2, <1>3 DEF Handshake, Acked, Asking
  <1>5. pipe[e].tid = t
    BY <1>2, <1>3 DEF Order
  <1>6. pipe[e].sink = t
    BY <1>2, <1>4, <1>5, EndFacts DEF Owner
  <1>7. e \in sock[t].pipes
    BY <1>2, <1>4, <1>6 DEF Members
  <1>8. Cardinality(sock[t].pipes) \in Nat \ {0}
    <2>1. sock[t].pipes \in SUBSET Ends
      BY <1>0 DEF SocketTable, SocketType
    <2> QED BY <2>1, <1>7, PipesFinite
  <1> QED BY <1>2, <1>3, <1>4, <1>5, <1>6, <1>7, <1>8 DEF Counting

\* The end is deleted, and acknowledges itself if it has not done so.
LEMMA AckHandled ==
    ASSUME NEW pipe, NEW sock, NEW endpoints, NEW mb, NEW pend, NEW found, NEW X,
           Holds(pipe, sock, endpoints, mb, pend, found, X),
           NEW t \in Sockets, NEW e \in Ends \ X, mb[t] # << >>, Head(mb[t]) = Ack(e),
           NEW r \in PipeType, NEW w \in SocketType, NEW mc,
           r = [pipe[e] EXCEPT !.state = "deleted", !.in = << >>, !.out = FALSE],
           w.pipes = sock[t].pipes \ {e},
           w.only = IF sock[t].only = e THEN None ELSE sock[t].only,
           w.term_acks = IF sock[t].terminating THEN sock[t].term_acks - 1
                         ELSE sock[t].term_acks,
           w.stage = sock[t].stage, w.sent = sock[t].sent, w.processed = sock[t].processed,
           w.terminating = sock[t].terminating,
           w.destroyed => w.terminating /\ w.term_acks = 0 /\ w.processed = w.sent,
           mc = IF pipe[e].state = "term_req_sent1"
                THEN Put(Drop(mb, t), pipe[Peer(e)].tid, Ack(Peer(e))) ELSE Drop(mb, t)
    PROVE  Holds([pipe EXCEPT ![e] = r], [sock EXCEPT ![t] = w], endpoints, mc, pend, found, X)
PROOF
  <1> DEFINE p == Peer(e)
             tp == pipe[p].tid
             md == Drop(mb, t)
             pipe1 == [pipe EXCEPT ![e] = r]
             sock1 == [sock EXCEPT ![t] = w]
  <1>0. /\ pipe \in PipeTable /\ sock \in SocketTable /\ mb \in Boxes /\ tp \in Sockets /\ p \in Ends
        /\ Peer(p) = e /\ p # e /\ Ack(e) \in Commands
        /\ Ack(p) \in Commands /\ Ack(p) \in Near(e) /\ Ack(e) \in Near(e)
    BY EndFacts, CommandFacts DEF Holds, PipeTable, PipeType, Near
  <1>1. /\ pipe1 \in PipeTable /\ pipe1[e] = r /\ pipe1[p] = pipe[p]
        /\ \A f \in Ends : f # e => pipe1[f] = pipe[f]
        /\ r.state = "deleted" /\ r.delay = pipe[e].delay
        /\ r.in_active = pipe[e].in_active /\ r.asleep = pipe[e].asleep /\ r.in = << >>
        /\ r.out = FALSE /\ r.sink = pipe[e].sink /\ r.tid = pipe[e].tid
    BY <1>0 DEF PipeTable, PipeType
  <1>s. /\ sock1 \in SocketTable /\ sock1[t] = w
        /\ \A u \in Sockets : u # t => sock1[u] = sock[u]
    BY <1>0 DEF SocketTable
  <1>2. Handshake(pipe, mb, e) /\ Handshake(pipe, mb, p) /\ Order(pipe, mb, e) /\ Order(pipe, mb, p)
    BY <1>0 DEF Holds
  <1>3. /\ pipe[e].sink = t /\ pipe[e].tid = t /\ e \in sock[t].pipes
        /\ pipe[e].state \in {"term_req_sent1", "term_ack_sent", "term_req_sent2"}
        /\ pipe[e].state = "term_req_sent1" => pipe[p].state \in {"term_ack_sent", "term_req_sent2"}
        /\ pipe[p].state \in Acked /\ ~sock[t].destroyed
        /\ sock[t].terminating => sock[t].term_acks # 0
        /\ ~Sent(mb, Ask(e)) /\ ~Sent(mb, Wake(e)) /\ ~Sent(mb, Ask(p))
    BY AckFacts
  <1>7. /\ Ask(e) # Ack(e) /\ Ask(p) # Ack(e) /\ Ack(p) # Ack(e) /\ Wake(e) # Ack(e)
        /\ Wake(p) # Ack(e) /\ Bind(e) # Ack(e) /\ Bind(p) # Ack(e)
        /\ Ask(e) # Ack(p) /\ Ask(p) # Ack(p) /\ Wake(e) # Ack(p)
        /\ Wake(p) # Ack(p) /\ Bind(e) # Ack(p) /\ Bind(p) # Ack(p)
        /\ {Ask(e), Ask(p), Ack(e), Ack(p), Wake(e), Wake(p), Bind(e), Bind(p)} \subseteq Commands
    BY <1>0, CommandFacts
  <1>4. /\ md \in Boxes /\ SameBut(mb, md, {Ack(e)}) /\ ~Sent(md, Ack(e))
        /\ \A u \in Sockets, n \in Commands : At(md, u, n) => At(mb, u, n)
        /\ \A n, o \in Commands : Before(mb, n, o) => Before(md, n, o)
    BY <1>0, <1>2, DropFacts DEF Order
  <1>50. pipe[e].state = "term_req_sent1" => ~Sent(mb, Ack(p))
    BY <1>2 DEF Handshake, Acked
  <1>51. pipe[e].state = "term_req_sent1" => ~Sent(md, Ack(p))
    BY <1>4, <1>50, <1>7 DEF SameBut
  <1> HIDE DEF md, p, tp
  <1>5. /\ SameBut(mb, mc, {Ack(e), Ack(p)}) /\ ~Sent(mc, Ack(e))
        /\ Once(mc, Ack(p))
        /\ \A u \in Sockets : At(mc, u, Ack(p)) => u = tp
        /\ Before(mc, Wake(p), Ack(p))
        /\ Sent(mc, Ack(p)) <=> Sent(mb, Ack(p)) \/ pipe[e].state = "term_req_sent1"
    <2>1. CASE pipe[e].state = "term_req_sent1"
      <3>0. mc = Put(md, tp, Ack(p))
        BY <2>1 DEF md, tp, p
      <3>1. /\ \A u \in Sockets, n \in Commands :
                  At(mc, u, n) <=> At(md, u, n) \/ (u = tp /\ n = Ack(p))
            /\ \A n \in Commands : Sent(mc, n) <=> Sent(md, n) \/ n = Ack(p)
            /\ Once(mc, Ack(p))
            /\ SameBut(md, mc, {Ack(p)})
        BY <1>0, <1>4, <1>51, <2>1, <3>0, PutFacts
      <3>2. SameBut(mb, mc, {Ack(e), Ack(p)})
        <4>1. SameBut(mb, mc, {Ack(e)} \cup {Ack(p)}) /\ {Ack(e)} \cup {Ack(p)} = {Ack(e), Ack(p)}
          BY <1>4, <3>1, SameButTrans
        <4> QED BY <4>1
      <3>3. ~Sent(mc, Ack(e))
        BY <3>1, <1>4, <1>7
      <3>4. \A u \in Sockets : At(mc, u, Ack(p)) => u = tp
        BY <3>1, <1>51, <1>7, <2>1 DEF Sent
      <3>5. Before(mc, Wake(p), Ack(p))
        <4>1. Before(md, Wake(p), Ack(p)) /\ \A u \in Sockets : At(md, u, Wake(p)) => u = tp
          BY <1>2, <1>4, <1>7 DEF Order, tp
        <4> QED BY <4>1, <1>0, <1>4, <1>7, <3>0, PutBefore
      <3> QED BY <3>1, <3>2, <3>3, <3>4, <3>5, <2>1, <1>7
    <2>2. CASE pipe[e].state # "term_req_sent1"
      <3>0. mc = md
        BY <2>2 DEF md
      <3>1. SameBut(md, md, {Ack(p)})
        BY <1>4, SameButItself
      <3>2. SameBut(mb, mc, {Ack(e), Ack(p)})
        <4>1. SameBut(mb, mc, {Ack(e)} \cup {Ack(p)}) /\ {Ack(e)} \cup {Ack(p)} = {Ack(e), Ack(p)}
          BY <1>4, <3>0, <3>1, SameButTrans
        <4> QED BY <4>1
      <3>3. /\ Once(mc, Ack(p)) /\ Before(mc, Wake(p), Ack(p))
            /\ \A u \in Sockets : At(mc, u, Ack(p)) => u = tp
            /\ Sent(mc, Ack(p)) <=> Sent(mb, Ack(p))
        BY <3>0, <1>2, <1>4, <1>7 DEF Order, SameBut, tp
      <3> QED BY <3>0, <3>2, <3>3, <2>2, <1>4
    <2> QED BY <2>1, <2>2
  <1> HIDE DEF pipe1, sock1
  <1>6. /\ \A n \in {Ask(e), Ask(p), Wake(e), Wake(p), Bind(e), Bind(p)} :
              /\ \A u \in Sockets : At(mc, u, n) <=> At(mb, u, n)
              /\ Sent(mc, n) <=> Sent(mb, n)
              /\ Once(mb, n) => Once(mc, n)
    <2>1. \A n \in {Ask(e), Ask(p), Wake(e), Wake(p), Bind(e), Bind(p)} :
             n \in Commands \ {Ack(e), Ack(p)}
      BY <1>7
    <2> HIDE <1>7
    <2> QED BY <2>1, <1>5 DEF SameBut
  <1>8. Handshake(pipe1, mc, e)
    BY <1>0, <1>1, <1>2, <1>3, <1>5, <1>6 DEF Handshake, Acked, Asking, p
  <1>81. Handshake(pipe1, mc, p)
    BY <1>0, <1>1, <1>2, <1>3, <1>5, <1>6 DEF Handshake, Acked, Asking, p
  <1>9. Order(pipe1, mc, e)
    <2>1. ~Sent(mc, Ask(e)) /\ ~Sent(mc, Wake(e)) /\ ~Sent(mc, Ack(e))
      BY <1>3, <1>5, <1>6
    <2>2. /\ Once(mc, Ask(e)) /\ Once(mc, Ack(e))
          /\ Before(mc, Ask(e), Ack(e)) /\ Before(mc, Wake(e), Ack(e))
          /\ \A u \in Sockets : ~At(mc, u, Ask(e)) /\ ~At(mc, u, Ack(e)) /\ ~At(mc, u, Wake(e))
      BY <2>1, Unsent
    <2> QED BY <2>2 DEF Order
  <1>10. Order(pipe1, mc, p)
    <2>1. ~Sent(mc, Ask(p))
      BY <1>3, <1>6
    <2>2. /\ Once(mc, Ask(p)) /\ Before(mc, Ask(p), Ack(p))
          /\ \A u \in Sockets : ~At(mc, u, Ask(p))
      BY <2>1, Unsent
    <2> QED BY <2>2, <1>1, <1>2, <1>5, <1>6 DEF Order, tp
  <1>11. ASSUME NEW f \in {e, p}, f \notin X PROVE Owner(pipe1, mc, pend, f)
    <2>1. Owner(pipe, mb, pend, f) /\ pipe[f].tid \in Sockets
      BY <1>0, <1>11 DEF Holds, PipeTable, PipeType
    <2>2. /\ \A u \in Sockets : At(mc, u, Bind(f)) <=> At(mb, u, Bind(f))
          /\ Sent(mc, Bind(f)) <=> Sent(mb, Bind(f))
          /\ Once(mb, Bind(f)) => Once(mc, Bind(f))
      BY <1>6
    <2>3. CASE f = e
      <3>1. t # None
        BY ContextNoneAssumption
      <3> QED BY <2>1, <2>2, <2>3, <1>1, <1>3, <3>1 DEF Owner
    <2>4. CASE f = p
      BY <2>1, <2>2, <2>4, <1>1 DEF Owner
    <2> QED BY <2>3, <2>4
  <1>12. Content(pipe1, sock1, e) /\ Content(pipe1, sock1, p)
    <2>1. Content(pipe, sock, p) /\ Content(pipe, sock, e) /\ pipe[p].sink \in Sockets \cup {None}
          /\ pipe[e].sink \in Sockets \cup {None}
      BY <1>0 DEF Holds, PipeTable, PipeType
    <2>2. \A u \in Sockets : sock1[u].stage = sock[u].stage
      BY <1>s
    <2>3. ToSet(r.in) = {}
      BY <1>1 DEF ToSet
    <2>4. Content(pipe1, sock1, p)
      BY <2>1, <2>2, <1>0, <1>1 DEF Content
    <2>5. Content(pipe1, sock1, e)
      BY <2>1, <2>2, <2>3, <1>0, <1>1 DEF Content
    <2> QED BY <2>4, <2>5
  <1>13. ASSUME NEW f \in Ends
         PROVE  /\ Handshake(pipe1, mc, f) /\ Order(pipe1, mc, f) /\ Content(pipe1, sock1, f)
                /\ f \notin X => Owner(pipe1, mc, pend, f)
    <2>1. CASE f = e \/ f = p
      BY <2>1, <1>8, <1>81, <1>9, <1>10, <1>11, <1>12
    <2>2. CASE f # e /\ f # p
      <3>1. Elsewhere(pipe, pipe1, mb, mc, e)
        BY <1>0, <1>1, <1>5, ElsewhereFacts DEF p
      <3>2. \A u \in Sockets : sock1[u].stage = sock[u].stage
        BY <1>s
      <3>3. e \in Ends /\ f # Peer(e) /\ \A v \in Connectors : v # e[1] => (v \in pend <=> v \in pend)
        BY <2>2 DEF p
      <3>4. Holds(pipe, sock, endpoints, mb, pend, found, X)
        OBVIOUS
      <3> QED BY ONLY <2>2, <3>1, <3>2, <3>3, <3>4, f \in Ends, FarFrame
    <2> QED BY <2>1, <2>2
  <1>14. ASSUME NEW u \in Sockets PROVE Counting(sock1, mc, pend, found, u)
    <2>1. Counting(sock, mc, pend, found, u)
      <3>1. {Ack(e), Ack(p)} \cap Counted = {} /\ Counting(sock, mb, pend, found, u)
        BY <1>0, CountedFacts DEF Holds
      <3> QED BY <3>1, <1>5, CountingFrame
    <2>2. CASE u # t
      BY <2>1, <2>2, <1>s DEF Counting
    <2>3. CASE u = t
      <3>1. Cardinality(w.pipes) = Cardinality(sock[t].pipes) - 1 /\ Cardinality(sock[t].pipes) \in Nat
        <4>1. sock[t].pipes \in SUBSET Ends
          BY <1>0 DEF SocketTable, SocketType
        <4> QED BY <4>1, <1>3, PipesFinite
      <3> QED BY <2>1, <2>3, <3>1, <1>s DEF Counting
    <2> QED BY <2>2, <2>3
  <1>15. ASSUME NEW u \in Sockets PROVE Members(sock1, pipe1, u)
    <2>1. Members(sock, pipe, u)
      BY DEF Holds
    <2>2. CASE u # t
      <3>1. ASSUME NEW f \in Ends
            PROVE  (pipe1[f].sink = u /\ pipe1[f].state # "deleted") <=>
                   (pipe[f].sink = u /\ pipe[f].state # "deleted")
        <4>1. CASE f = e
          BY <4>1, <2>2, <1>1, <1>3
        <4>2. CASE f # e
          BY <4>2, <1>1
        <4> QED BY <4>1, <4>2
      <3> QED BY <2>1, <2>2, <3>1, <1>s DEF Members
    <2>3. CASE u = t
      <3>1. w.stage # "gone"
        BY <2>1, <2>3, <1>3 DEF Members
      <3>2. \A f \in Ends : f \in w.pipes <=> pipe1[f].sink = t /\ pipe1[f].state # "deleted"
        <4> TAKE f \in Ends
        <4>1. CASE f = e
          BY <4>1, <1>1
        <4>2. CASE f # e
          BY <4>2, <2>1, <2>3, <1>1 DEF Members
        <4> QED BY <4>1, <4>2
      <3>3. w.only # None => w.only \in w.pipes
        BY <2>1, <2>3 DEF Members
      <3> QED BY <2>1, <2>3, <3>1, <3>2, <3>3, <1>s DEF Members
    <2> QED BY <2>2, <2>3
  <1>16. Bound(endpoints, sock1)
    <2>1. Bound(endpoints, sock) /\ endpoints \in EndpointTable
      BY DEF Holds
    <2>2. \A u \in Sockets : sock1[u].terminating = sock[u].terminating
      BY <1>s
    <2> QED BY <2>1, <2>2 DEF Bound, EndpointTable
  <1>17. Holds(pipe1, sock1, endpoints, mc, pend, found, X)
    BY <1>1, <1>s, <1>5, <1>13, <1>14, <1>15, <1>16 DEF Holds, SameBut
  <1> QED BY <1>17 DEF pipe1, sock1

-----------------------------------------------------------------------------
(* Connections under way: a pair <<s, t>> of found is a connection of s that *)
(* a thread is about to tell t of, or has just told it of.                   *)

\* The connections under way to a socket can be counted.
LEMMA OwedFacts ==
    ASSUME NEW mb, NEW pend, NEW found, NEW t
    PROVE  /\ IsFiniteSet(Owed(mb, pend, found, t))
           /\ Cardinality(Owed(mb, pend, found, t)) \in Nat
           /\ Owed(mb, pend, found, t) # {} => Cardinality(Owed(mb, pend, found, t)) # 0
PROOF
  <1> DEFINE O == Owed(mb, pend, found, t)
  <1>1. O \subseteq Connectors
    BY DEF Owed
  <1> HIDE DEF O
  <1>2. IsFiniteSet(O)
    BY <1>1, EndsFinite, FS_Subset
  <1>3. Cardinality(O) \in Nat /\ (Cardinality(O) = 0 <=> O = {})
    BY <1>2, FS_CardinalityType, FS_EmptySet
  <1> QED BY <1>2, <1>3 DEF O

\* A socket that is waited for is not destroyed.
LEMMA OwedAlive ==
    ASSUME NEW sock, NEW mb, NEW pend, NEW found, NEW t \in Sockets, NEW x,
           sock \in SocketTable, Counting(sock, mb, pend, found, t),
           x \in Owed(mb, pend, found, t)
    PROVE  ~sock[t].destroyed
PROOF
  <1>1. sock[t].sent \in Nat /\ sock[t].processed \in Nat
    BY DEF SocketTable, SocketType
  <1>2. Cardinality(Owed(mb, pend, found, t)) \in Nat \ {0}
    BY OwedFacts
  <1> QED BY <1>1, <1>2 DEF Counting

\* A change of the counters of sockets keeps the invariant, if they still
\* count what is under way.
LEMMA SockChange ==
    ASSUME NEW pipe, NEW sock, NEW endpoints, NEW mb, NEW pend, NEW found, NEW X,
           Holds(pipe, sock, endpoints, mb, pend, found, X),
           NEW sock1 \in SocketTable, NEW found1,
           \A u \in Sockets :
              /\ sock1[u].stage = sock[u].stage /\ sock1[u].pipes = sock[u].pipes
              /\ sock1[u].only = sock[u].only /\ sock1[u].terminating = sock[u].terminating
              /\ sock1[u].stage = "gone" => sock1[u].destroyed
              /\ Counting(sock1, mb, pend, found1, u)
    PROVE  Holds(pipe, sock1, endpoints, mb, pend, found1, X)
PROOF
  <1>1. ASSUME NEW f \in Ends PROVE Content(pipe, sock1, f)
    <2>1. Content(pipe, sock, f) /\ pipe[f].sink \in Sockets \cup {None}
      BY DEF Holds, PipeTable, PipeType
    <2> QED BY <2>1 DEF Content
  <1>2. ASSUME NEW u \in Sockets PROVE Members(sock1, pipe, u)
    BY DEF Holds, Members
  <1>3. Bound(endpoints, sock1)
    <2>1. Bound(endpoints, sock) /\ endpoints \in EndpointTable
      BY DEF Holds
    <2> QED BY <2>1 DEF Bound, EndpointTable
  <1> QED BY <1>1, <1>2, <1>3 DEF Holds

\* inc_seqnum
LEMMA CountUp ==
    ASSUME NEW pipe, NEW sock, NEW endpoints, NEW mb, NEW pend, NEW found, NEW X,
           Holds(pipe, sock, endpoints, mb, pend, found, X),
           NEW t \in Sockets, NEW x \in Connectors, x \notin Owed(mb, pend, found, t),
           ~sock[t].destroyed, NEW w \in SocketType, w = [sock[t] EXCEPT !.sent = @ + 1]
    PROVE  Holds(pipe, [sock EXCEPT ![t] = w], endpoints, mb, pend, found \cup {<<x, t>>}, X)
PROOF
  <1> DEFINE sock1 == [sock EXCEPT ![t] = w]
             found1 == found \cup {<<x, t>>}
             O == Owed(mb, pend, found, t)
  <1>0. sock \in SocketTable
    BY DEF Holds
  <1>1. /\ sock1 \in SocketTable /\ sock1[t] = w
        /\ \A u \in Sockets : u # t => sock1[u] = sock[u]
        /\ w.stage = sock[t].stage /\ w.pipes = sock[t].pipes /\ w.only = sock[t].only
        /\ w.term_acks = sock[t].term_acks /\ w.sent = sock[t].sent + 1
        /\ w.processed = sock[t].processed /\ w.terminating = sock[t].terminating
        /\ w.destroyed = sock[t].destroyed
        /\ sock[t].sent \in Nat /\ sock[t].processed \in Nat
    BY <1>0 DEF SocketTable, SocketType
  <1> HIDE DEF sock1
  <1>2. Owed(mb, pend, found1, t) = O \cup {x}
    BY DEF Owed
  <1>3. \A u \in Sockets : u # t => Owed(mb, pend, found1, u) = Owed(mb, pend, found, u)
    BY DEF Owed
  <1>4. Cardinality(O \cup {x}) = Cardinality(O) + 1 /\ Cardinality(O) \in Nat
    <2>1. IsFiniteSet(O) /\ Cardinality(O) \in Nat
      BY OwedFacts
    <2> HIDE DEF O
    <2>2. x \notin O
      BY DEF O
    <2> QED BY <2>1, <2>2, FS_AddElement
  <1>5. \A u \in Sockets : At(mb, u, Joined) => <<u, u>> # <<x, t>>
    BY DEF Owed
  <1>6. ASSUME NEW u \in Sockets PROVE Counting(sock1, mb, pend, found1, u)
    <2>1. Counting(sock, mb, pend, found, u)
      BY DEF Holds
    <2>2. CASE u # t
      BY <2>1, <2>2, <1>1, <1>3, <1>5 DEF Counting
    <2>3. CASE u = t
      <3> DEFINE c == Cardinality(Owed(mb, pend, found, t))
                 c1 == Cardinality(Owed(mb, pend, found1, t))
      <3>1. c1 = c + 1 /\ c \in Nat
        BY <1>2, <1>4
      <3>2. sock[t].sent = sock[t].processed + c
        BY <2>1, <2>3 DEF Counting
      <3> HIDE DEF c, c1
      <3>3. w.sent = w.processed + c1
        BY <3>1, <3>2, <1>1
      <3>4. <<t, t>> \in found1 => <<t, t>> \in found \/ <<t, t>> = <<x, t>>
        OBVIOUS
      <3> HIDE DEF found1
      <3> QED BY <2>1, <2>3, <3>3, <3>4, <1>1, <1>5 DEF Counting, c1
    <2> QED BY <2>2, <2>3
  <1>7. \A u \in Sockets :
              /\ sock1[u].stage = sock[u].stage /\ sock1[u].pipes = sock[u].pipes
              /\ sock1[u].only = sock[u].only /\ sock1[u].terminating = sock[u].terminating
              /\ sock1[u].stage = "gone" => sock1[u].destroyed
    <2> TAKE u \in Sockets
    <2>1. sock[u].stage = "gone" => sock[u].destroyed
      BY DEF Holds, Members
    <2>2. CASE u = t
      BY <2>1, <2>2, <1>1
    <2>3. CASE u # t
      BY <2>1, <2>3, <1>1
    <2> QED BY <2>2, <2>3
  <1> HIDE DEF found1, O
  <1>8. Holds(pipe, sock1, endpoints, mb, pend, found1, X)
    BY <1>1, <1>6, <1>7, SockChange
  <1> QED BY <1>8 DEF sock1, found1

\* process_seqnum
LEMMA CountDown ==
    ASSUME NEW pipe, NEW sock, NEW endpoints, NEW mb, NEW pend, NEW found, NEW X,
           Holds(pipe, sock, endpoints, mb, pend, found, X),
           NEW t \in Sockets, NEW x \in Connectors, <<x, t>> \in found,
           ~At(mb, t, Bind(<<x, "bind">>)), x = t => x \notin pend,
           NEW w \in SocketType,
           w.stage = sock[t].stage, w.pipes = sock[t].pipes, w.only = sock[t].only,
           w.term_acks = sock[t].term_acks, w.sent = sock[t].sent,
           w.processed = sock[t].processed + 1, w.terminating = sock[t].terminating,
           w.destroyed => w.terminating /\ w.term_acks = 0 /\ w.processed = w.sent
    PROVE  Holds(pipe, [sock EXCEPT ![t] = w], endpoints, mb, pend, found \ {<<x, t>>}, X)
PROOF
  <1> DEFINE sock1 == [sock EXCEPT ![t] = w]
             found1 == found \ {<<x, t>>}
             O == Owed(mb, pend, found, t)
  <1>0. sock \in SocketTable /\ Counting(sock, mb, pend, found, t)
    BY DEF Holds
  <1>1. /\ sock1 \in SocketTable /\ sock1[t] = w
        /\ \A u \in Sockets : u # t => sock1[u] = sock[u]
        /\ sock[t].sent \in Nat /\ sock[t].processed \in Nat
    BY <1>0 DEF SocketTable, SocketType
  <1> HIDE DEF sock1
  <1>20. x = t => ~At(mb, t, Joined)
    BY <1>0 DEF Counting
  <1>2. Owed(mb, pend, found1, t) = O \ {x} /\ x \in O
    BY <1>20 DEF Owed
  <1>3. \A u \in Sockets : u # t => Owed(mb, pend, found1, u) = Owed(mb, pend, found, u)
    BY DEF Owed
  <1>4. Cardinality(O \ {x}) = Cardinality(O) - 1 /\ Cardinality(O) \in Nat
    <2>1. IsFiniteSet(O) /\ Cardinality(O) \in Nat
      BY OwedFacts
    <2>2. x \in O
      BY <1>2
    <2> HIDE DEF O
    <2> QED BY <2>1, <2>2, FS_RemoveElement
  <1>6. ASSUME NEW u \in Sockets PROVE Counting(sock1, mb, pend, found1, u)
    <2>1. Counting(sock, mb, pend, found, u)
      BY DEF Holds
    <2>2. CASE u # t
      BY <2>1, <2>2, <1>1, <1>3 DEF Counting
    <2>3. CASE u = t
      <3> DEFINE c == Cardinality(Owed(mb, pend, found, t))
                 c1 == Cardinality(Owed(mb, pend, found1, t))
      <3>1. c1 = c - 1 /\ c \in Nat
        BY <1>2, <1>4
      <3>2. sock[t].sent = sock[t].processed + c
        BY <2>1, <2>3 DEF Counting
      <3> HIDE DEF c, c1
      <3>3. w.sent = w.processed + c1
        BY <3>1, <3>2, <1>1
      <3>4. <<t, t>> \in found1 => <<t, t>> \in found
        OBVIOUS
      <3> HIDE DEF found1
      <3> QED BY <2>1, <2>3, <3>3, <3>4, <1>1 DEF Counting, c1
    <2> QED BY <2>2, <2>3
  <1>70. ~sock[t].destroyed
    BY <1>0, <1>2, OwedAlive
  <1>7. \A u \in Sockets :
              /\ sock1[u].stage = sock[u].stage /\ sock1[u].pipes = sock[u].pipes
              /\ sock1[u].only = sock[u].only /\ sock1[u].terminating = sock[u].terminating
              /\ sock1[u].stage = "gone" => sock1[u].destroyed
    <2> TAKE u \in Sockets
    <2>1. sock[u].stage = "gone" => sock[u].destroyed
      BY DEF Holds, Members
    <2>2. CASE u = t
      BY <2>1, <2>2, <1>1, <1>70
    <2>3. CASE u # t
      BY <2>1, <2>3, <1>1, <1>70
    <2> QED BY <2>2, <2>3
  <1> HIDE DEF found1, O
  <1>8. Holds(pipe, sock1, endpoints, mb, pend, found1, X)
    BY <1>1, <1>6, <1>7, SockChange
  <1> QED BY <1>8 DEF sock1, found1

\* A bind or an inproc_connected command comes or goes.
LEMMA CountedStep ==
    ASSUME NEW pipe, NEW sock, NEW endpoints, NEW mb, NEW pend, NEW found, NEW X,
           Holds(pipe, sock, endpoints, mb, pend, found, X),
           NEW n \in Counted, NEW mc, SameBut(mb, mc, {n}), NEW found1, NEW Y,
           \A f \in Ends \ Y : (f \notin X /\ n # Bind(f)) \/ Owner(pipe, mc, pend, f),
           \A u \in Sockets : Counting(sock, mc, pend, found1, u)
    PROVE  Holds(pipe, sock, endpoints, mc, pend, found1, Y)
PROOF
  <1>1. \A f \in Ends : {Ask(f), Ack(f), Wake(f)} \subseteq Commands \ {n}
    BY CommandFacts, CountedFacts
  <1>2. \A f \in Ends : Ask(f) # Ack(f) /\ Wake(f) # Ack(f) /\ Peer(f) \in Ends /\ Ask(f) # Ask(Peer(f))
    BY CommandFacts, EndFacts
  <1>3. \A f \in Ends : \A m \in {Ask(f), Ack(f), Wake(f)} :
           /\ \A u \in Sockets : At(mc, u, m) <=> At(mb, u, m)
           /\ Sent(mc, m) <=> Sent(mb, m)
           /\ Once(mb, m) => Once(mc, m)
    <2> SUFFICES ASSUME NEW m \in Commands \ {n}
                 PROVE  /\ \A u \in Sockets : At(mc, u, m) <=> At(mb, u, m)
                        /\ Sent(mc, m) <=> Sent(mb, m)
                        /\ Once(mb, m) => Once(mc, m)
      BY <1>1
    <2> QED BY DEF SameBut
  <1>4. \A f \in Ends :
           /\ Before(mb, Ask(f), Ack(f)) => Before(mc, Ask(f), Ack(f))
           /\ Before(mb, Wake(f), Ack(f)) => Before(mc, Wake(f), Ack(f))
           /\ Before(mb, Ask(f), Ask(Peer(f))) => Before(mc, Ask(f), Ask(Peer(f)))
    BY <1>1, <1>2 DEF SameBut
  <1>5. ASSUME NEW f \in Ends PROVE Handshake(pipe, mc, f)
    BY <1>2, <1>3 DEF Holds, Handshake
  <1>6. ASSUME NEW f \in Ends PROVE Order(pipe, mc, f)
    <2>1. Order(pipe, mb, f)
      BY DEF Holds
    <2> QED BY <2>1, <1>3, <1>4 DEF Order
  <1>7. ASSUME NEW f \in Ends \ Y PROVE Owner(pipe, mc, pend, f)
    <2> SUFFICES ASSUME f \notin X, n # Bind(f) PROVE Owner(pipe, mc, pend, f)
      OBVIOUS
    <2>1. Owner(pipe, mb, pend, f) /\ pipe[f].tid \in Sockets
      BY DEF Holds, PipeTable, PipeType
    <2>2. Bind(f) \in Commands \ {n}
      BY CommandFacts
    <2>3. /\ \A u \in Sockets : At(mc, u, Bind(f)) <=> At(mb, u, Bind(f))
          /\ Sent(mc, Bind(f)) <=> Sent(mb, Bind(f))
          /\ Once(mb, Bind(f)) => Once(mc, Bind(f))
      BY <2>2 DEF SameBut
    <2> QED BY <2>1, <2>3 DEF Owner
  <1> QED BY <1>5, <1>6, <1>7 DEF Holds, SameBut

\* The bind command of a connection names it.
LEMMA BindNames ==
    ASSUME NEW x \in Connectors, NEW e \in Ends
    PROVE  /\ <<x, "bind">> \in Ends /\ Bind(<<x, "bind">>) \in Counted /\ Bind(e) \in Commands
           /\ Bind(<<x, "bind">>) \in Commands /\ Bind(<<x, "bind">>) # Joined
           /\ Bind(<<x, "bind">>) = Bind(e) => x = e[1] /\ e = <<x, "bind">>
PROOF
  <1>1. <<x, "bind">> \in Ends /\ <<x, "bind">>[1] = x
    BY EndFacts
  <1> QED BY <1>1, CommandFacts DEF Counted

\* What is so of the end that a bind command brings, once that is taken out.
BindTaken(pipe, mc, pend, t, e) ==
    /\ e[2] = "bind"
    /\ pipe[e].sink = None /\ pipe[e].tid = t /\ t \in Hosts /\ pipe[e].delay
    /\ pipe[e].state \in {"active", "waiting_for_delimiter"}
    /\ ~Sent(mc, Bind(e)) /\ e[1] \notin pend
    /\ ~pipe[e].asleep /\ pipe[e].in_active

\* The bind command is taken out.
LEMMA DropBind ==
    ASSUME NEW pipe, NEW sock, NEW endpoints, NEW mb, NEW pend, NEW found, NEW X,
           Holds(pipe, sock, endpoints, mb, pend, found, X),
           NEW t \in Sockets, NEW e \in Ends \ X, mb[t] # << >>, Head(mb[t]) = Bind(e)
    PROVE  /\ Holds(pipe, sock, endpoints, Drop(mb, t), pend, found \cup {<<e[1], t>>}, X \cup {e})
           /\ BindTaken(pipe, Drop(mb, t), pend, t, e)
PROOF
  <1> DEFINE mc == Drop(mb, t)
             found1 == found \cup {<<e[1], t>>}
  <1>0. mb \in Boxes /\ pipe \in PipeTable /\ Bind(e) \in Commands /\ e[1] \in Connectors
        /\ e = <<e[1], e[2]>> /\ e[2] \in {"connect", "bind"} /\ Owner(pipe, mb, pend, e)
    BY CommandFacts, EndFacts DEF Holds
  <1>1. At(mb, t, Bind(e)) /\ Sent(mb, Bind(e))
    BY <1>0, DropFacts
  <1>2. /\ e[2] = "bind" /\ pipe[e].sink = None /\ pipe[e].tid = t /\ t \in Hosts
        /\ pipe[e].state # "none" /\ Once(mb, Bind(e))
    BY <1>0, <1>1 DEF Owner
  <1>3. pipe[e].delay /\ pipe[e].state \in {"active", "waiting_for_delimiter"}
    BY <1>0, <1>2 DEF Owner
  <1>4. e[1] \notin pend
    <2>1. t \notin Connectors
      BY <1>2, SocketFacts
    <2> QED BY <2>1, <1>0, <1>2 DEF Owner
  <1>5. ~pipe[e].asleep /\ pipe[e].in_active
    BY <1>0, <1>2 DEF Owner
  <1>6. /\ \A u \in Sockets, n \in Commands :
              n # Bind(e) \/ u # t => (At(mc, u, n) <=> At(mb, u, n))
        /\ \A u \in Sockets, n \in Commands : OnceAt(mb, u, n) => OnceAt(mc, u, n)
        /\ SameBut(mb, mc, {Bind(e)})
        /\ ~Sent(mc, Bind(e))
    <2>1. mb \in Boxes /\ Bind(e) \in Commands /\ Once(mb, Bind(e))
      BY <1>0, <1>2
    <2> DEFINE m == Bind(e)
    <2> HIDE DEF m, Holds
    <2>2. mb \in Boxes /\ m \in Commands /\ Once(mb, m) /\ mb[t] # << >> /\ Head(mb[t]) = m
      BY <2>1 DEF m
    <2> QED BY ONLY t \in Sockets, <2>2, DropFacts DEF m
  <1> HIDE DEF mc
  <1>7. ASSUME NEW u \in Sockets PROVE Counting(sock, mc, pend, found1, u)
    <2>1. Counting(sock, mb, pend, found, u)
      BY DEF Holds
    <2>2. ASSUME NEW x \in Connectors
          PROVE  At(mc, u, Bind(<<x, "bind">>)) \/ <<x, u>> \in found1
                 <=> At(mb, u, Bind(<<x, "bind">>)) \/ <<x, u>> \in found
      <3>1. CASE u = t /\ x = e[1]
        BY <3>1, <1>0, <1>1, <1>2
      <3>2. CASE u # t \/ x # e[1]
        <4>1. Bind(<<x, "bind">>) \in Commands
          BY BindNames
        <4>2. u = t => Bind(<<x, "bind">>) # Bind(e)
          BY <3>2, BindNames
        <4> QED BY <3>2, <4>1, <4>2, <1>6
      <3> QED BY <3>1, <3>2
    <2>3. At(mc, u, Joined) <=> At(mb, u, Joined)
      BY <1>6, CommandFacts
    <2>4. OnceAt(mb, u, Joined) => OnceAt(mc, u, Joined)
      BY <1>6, CommandFacts
    <2>5. Owed(mc, pend, found1, u) = Owed(mb, pend, found, u)
      <3> HIDE DEF found1
      <3> QED BY <2>2, <2>3 DEF Owed
    <2>6. <<u, u>> \in found1 => <<u, u>> \in found
      <3>1. <<u, u>> # <<e[1], t>>
        BY <1>0, <1>2, SocketFacts
      <3> QED BY <3>1
    <2> HIDE DEF found1
    <2> QED BY <2>1, <2>3, <2>4, <2>5, <2>6 DEF Counting
  <1>8. Bind(e) \in Counted
    BY <1>0, <1>2 DEF Counted
  <1>9. \A f \in Ends \ (X \cup {e}) : f \notin X /\ Bind(e) # Bind(f)
    BY CommandFacts
  <1>10. Holds(pipe, sock, endpoints, mc, pend, found1, X \cup {e})
    <2> DEFINE Y == X \cup {e}
    <2>1. \A f \in Ends \ Y : (f \notin X /\ Bind(e) # Bind(f)) \/ Owner(pipe, mc, pend, f)
      BY <1>9
    <2> HIDE DEF Y, found1
    <2>2. Holds(pipe, sock, endpoints, mc, pend, found1, Y)
      BY <2>1, <1>6, <1>7, <1>8, CountedStep
    <2> QED BY <2>2 DEF Y
  <1> QED BY <1>0, <1>2, <1>3, <1>4, <1>5, <1>6, <1>10 DEF mc, BindTaken

\* The inproc_connected command is taken out.
LEMMA DropJoined ==
    ASSUME NEW pipe, NEW sock, NEW endpoints, NEW mb, NEW pend, NEW found, NEW X,
           Holds(pipe, sock, endpoints, mb, pend, found, X),
           NEW t \in Sockets, mb[t] # << >>, Head(mb[t]) = Joined
    PROVE  /\ Holds(pipe, sock, endpoints, Drop(mb, t), pend, found \cup {<<t, t>>}, X)
           /\ t \in Connectors /\ t \notin pend
PROOF
  <1> DEFINE mc == Drop(mb, t)
             found1 == found \cup {<<t, t>>}
  <1>0. mb \in Boxes /\ Joined \in Commands /\ Counting(sock, mb, pend, found, t)
    BY CommandFacts DEF Holds
  <1>1. At(mb, t, Joined) /\ OnceAt(mb, t, Joined)
    BY <1>0, DropFacts DEF Counting
  <1>2. t \in Connectors /\ t \notin pend /\ <<t, t>> \notin found
    BY <1>0, <1>1 DEF Counting
  <1>6. /\ \A u \in Sockets, n \in Commands :
              n # Joined \/ u # t => (At(mc, u, n) <=> At(mb, u, n))
        /\ \A u \in Sockets, n \in Commands : OnceAt(mb, u, n) => OnceAt(mc, u, n)
        /\ SameBut(mb, mc, {Joined})
        /\ ~At(mc, t, Joined)
    BY <1>0, <1>1, DropFacts
  <1> HIDE DEF mc
  <1>7. ASSUME NEW u \in Sockets PROVE Counting(sock, mc, pend, found1, u)
    <2>1. Counting(sock, mb, pend, found, u)
      BY DEF Holds
    <2>2. \A x \in Connectors : At(mc, u, Bind(<<x, "bind">>)) <=> At(mb, u, Bind(<<x, "bind">>))
      <3> TAKE x \in Connectors
      <3>1. Bind(<<x, "bind">>) \in Commands /\ Bind(<<x, "bind">>) # Joined
        BY CommandFacts, EndFacts
      <3> QED BY <3>1, <1>6
    <2>3. u # t => (At(mc, u, Joined) <=> At(mb, u, Joined))
      BY <1>0, <1>6
    <2>4. OnceAt(mb, u, Joined) => OnceAt(mc, u, Joined)
      BY <1>0, <1>6
    <2>5. Owed(mc, pend, found1, u) = Owed(mb, pend, found, u)
      <3>1. CASE u = t
        BY <3>1, <2>2, <1>1, <1>2, <1>6 DEF Owed
      <3>2. CASE u # t
        BY <3>2, <2>2, <2>3 DEF Owed
      <3> QED BY <3>1, <3>2
    <2>6. u # t /\ <<u, u>> \in found1 => <<u, u>> \in found
      OBVIOUS
    <2> HIDE DEF found1
    <2> QED BY <2>1, <2>3, <2>4, <2>5, <2>6, <1>6 DEF Counting
  <1>8. Joined \in Counted
    BY DEF Counted
  <1>9. \A f \in Ends \ X : f \notin X /\ Joined # Bind(f)
    BY CommandFacts
  <1>10. Holds(pipe, sock, endpoints, mc, pend, found1, X)
    <2>1. \A f \in Ends \ X : (f \notin X /\ Joined # Bind(f)) \/ Owner(pipe, mc, pend, f)
      BY <1>9
    <2> HIDE DEF found1
    <2> QED BY <2>1, <1>6, <1>7, <1>8, CountedStep
  <1> QED BY <1>2, <1>10 DEF mc

\* The bind command is sent.
LEMMA PutBind ==
    ASSUME NEW pipe, NEW sock, NEW endpoints, NEW mb, NEW pend, NEW found, NEW X,
           Holds(pipe, sock, endpoints, mb, pend, found, X),
           NEW s \in Connectors, NEW b \in Hosts, NEW e \in Ends, e = <<s, "bind">>,
           <<s, b>> \in found, s \notin pend, ~Sent(mb, Bind(e)),
           pipe[e].state \in {"active", "waiting_for_delimiter"}, pipe[e].delay,
           pipe[e].sink = None, pipe[e].tid = b, ~pipe[e].asleep, pipe[e].in_active
    PROVE  Holds(pipe, sock, endpoints, Put(mb, b, Bind(e)), pend, found \ {<<s, b>>}, X \ {e})
PROOF
  <1> DEFINE mc == Put(mb, b, Bind(e))
             found1 == found \ {<<s, b>>}
  <1>0. mb \in Boxes /\ pipe \in PipeTable /\ Bind(e) \in Commands /\ b \in Sockets
        /\ e[1] = s /\ e[2] = "bind"
    BY CommandFacts, EndFacts, SocketFacts DEF Holds
  <1>6. /\ \A u \in Sockets, n \in Commands :
              At(mc, u, n) <=> At(mb, u, n) \/ (u = b /\ n = Bind(e))
        /\ \A n \in Commands : Sent(mc, n) <=> Sent(mb, n) \/ n = Bind(e)
        /\ SameBut(mb, mc, {Bind(e)})
        /\ Once(mc, Bind(e))
    <2> DEFINE m == Bind(e)
    <2> HIDE DEF m
    <2>2. mb \in Boxes /\ m \in Commands /\ ~Sent(mb, m) /\ b \in Sockets
      BY <1>0 DEF m
    <2> QED BY ONLY <2>2, PutFacts DEF m
  <1>60. OnceAt(mb, b, Joined) => OnceAt(mc, b, Joined)
    <2>1. Joined \in Commands \ {Bind(e)}
      BY CommandFacts
    <2> QED BY <2>1, <1>0, <1>6 DEF SameBut
  <1> HIDE DEF mc
  <1>7. ASSUME NEW u \in Sockets PROVE Counting(sock, mc, pend, found1, u)
    <2>1. Counting(sock, mb, pend, found, u)
      BY DEF Holds
    <2>2. ASSUME NEW x \in Connectors
          PROVE  At(mc, u, Bind(<<x, "bind">>)) \/ <<x, u>> \in found1
                 <=> At(mb, u, Bind(<<x, "bind">>)) \/ <<x, u>> \in found
      <3>0. Bind(<<x, "bind">>) \in Commands
        BY BindNames
      <3>1. CASE u = b /\ x = s
        BY <3>0, <3>1, <1>0, <1>6
      <3>2. CASE u # b \/ x # s
        <4>2. u = b => Bind(<<x, "bind">>) # Bind(e)
          BY <3>2, <1>0, BindNames
        <4> QED BY <3>0, <3>2, <4>2, <1>6
      <3> QED BY <3>1, <3>2
    <2>3. At(mc, u, Joined) <=> At(mb, u, Joined)
      BY <1>6, CommandFacts
    <2>4. OnceAt(mb, u, Joined) => OnceAt(mc, u, Joined)
      <3>1. Joined \in Commands \ {Bind(e)}
        BY CommandFacts
      <3> QED BY <3>1, <1>6 DEF SameBut
    <2>5. Owed(mc, pend, found1, u) = Owed(mb, pend, found, u)
      <3> HIDE DEF found1
      <3> QED BY <2>2, <2>3 DEF Owed
    <2>6. <<u, u>> \in found1 => <<u, u>> \in found
      OBVIOUS
    <2> HIDE DEF found1
    <2> QED BY <2>1, <2>3, <2>4, <2>5, <2>6 DEF Counting
  <1>8. Bind(e) \in Counted
    BY DEF Counted
  <1>9. Owner(pipe, mc, pend, e)
    <2>1. \A u \in Sockets : At(mc, u, Bind(e)) <=> u = b
      BY <1>0, <1>6 DEF Sent
    <2> QED BY <2>1, <1>0, <1>6 DEF Owner
  <1>10. Holds(pipe, sock, endpoints, mc, pend, found1, X \ {e})
    <2> DEFINE Y == X \ {e}
    <2>1. \A f \in Ends \ Y : (f \notin X /\ Bind(e) # Bind(f)) \/ Owner(pipe, mc, pend, f)
      BY <1>9, CommandFacts
    <2> HIDE DEF Y, found1
    <2>2. Holds(pipe, sock, endpoints, mc, pend, found1, Y)
      BY <2>1, <1>6, <1>7, <1>8, CountedStep
    <2> QED BY <2>2 DEF Y
  <1> QED BY <1>10 DEF mc

\* The inproc_connected command is sent.
LEMMA PutJoined ==
    ASSUME NEW pipe, NEW sock, NEW endpoints, NEW mb, NEW pend, NEW found, NEW X,
           Holds(pipe, sock, endpoints, mb, pend, found, X),
           NEW s \in Connectors, <<s, s>> \in found, s \notin pend
    PROVE  Holds(pipe, sock, endpoints, Put(mb, s, Joined), pend, found \ {<<s, s>>}, X)
PROOF
  <1> DEFINE mc == Put(mb, s, Joined)
             found1 == found \ {<<s, s>>}
  <1>0. mb \in Boxes /\ Joined \in Commands /\ s \in Sockets /\ Counting(sock, mb, pend, found, s)
    BY CommandFacts, SocketFacts DEF Holds
  <1>1. ~At(mb, s, Joined)
    BY <1>0 DEF Counting
  <1>6. /\ \A u \in Sockets, n \in Commands :
              At(mc, u, n) <=> At(mb, u, n) \/ (u = s /\ n = Joined)
        /\ SameBut(mb, mc, {Joined})
    BY <1>0, PutFacts
  <1>5. /\ \A u \in Sockets : u # s => mc[u] = mb[u]
        /\ Len(mb[s]) \in Nat /\ Len(mc[s]) = Len(mb[s]) + 1
        /\ \A i \in 1 .. Len(mb[s]) : mc[s][i] = mb[s][i]
    BY <1>0, PutPlaces
  <1> HIDE DEF mc
  <1>7. ASSUME NEW u \in Sockets PROVE Counting(sock, mc, pend, found1, u)
    <2>1. Counting(sock, mb, pend, found, u)
      BY DEF Holds
    <2>2. \A x \in Connectors : At(mc, u, Bind(<<x, "bind">>)) <=> At(mb, u, Bind(<<x, "bind">>))
      <3> TAKE x \in Connectors
      <3>1. Bind(<<x, "bind">>) \in Commands /\ Bind(<<x, "bind">>) # Joined
        BY CommandFacts, EndFacts
      <3> QED BY <3>1, <1>6
    <2>3. (u # s => (At(mc, u, Joined) <=> At(mb, u, Joined))) /\ At(mc, s, Joined)
      BY <1>0, <1>6
    <2>4. OnceAt(mc, u, Joined)
      <3>1. CASE u # s
        BY <3>1, <2>1, <1>5 DEF Counting, OnceAt
      <3>2. CASE u = s
        <4>1. \A i \in 1 .. Len(mb[s]) : mc[s][i] # Joined
          BY <1>1, <1>5 DEF At
        <4>2. \A i \in 1 .. Len(mc[s]) : mc[s][i] = Joined => i = Len(mb[s]) + 1
          BY <4>1, <1>5
        <4> QED BY <4>2, <3>2 DEF OnceAt
      <3> QED BY <3>1, <3>2
    <2>5. Owed(mc, pend, found1, u) = Owed(mb, pend, found, u)
      <3>1. CASE u = s
        BY <3>1, <2>2, <2>3 DEF Owed
      <3>2. CASE u # s
        BY <3>2, <2>2, <2>3 DEF Owed
      <3> QED BY <3>1, <3>2
    <2>6. /\ <<s, s>> \notin found1
          /\ <<u, u>> \in found1 => <<u, u>> \in found
      OBVIOUS
    <2> HIDE DEF found1
    <2> QED BY <2>1, <2>3, <2>4, <2>5, <2>6 DEF Counting
  <1>8. Joined \in Counted
    BY DEF Counted
  <1>10. Holds(pipe, sock, endpoints, mc, pend, found1, X)
    <2>1. \A f \in Ends \ X : (f \notin X /\ Joined # Bind(f)) \/ Owner(pipe, mc, pend, f)
      BY CommandFacts
    <2> HIDE DEF found1
    <2> QED BY <2>1, <1>6, <1>7, <1>8, CountedStep
  <1> QED BY <1>10 DEF mc

-----------------------------------------------------------------------------
(* Pipes are made and attached.                                              *)

\* The invariant with more ends excepted follows.
LEMMA HoldsMore ==
    ASSUME NEW pipe, NEW sock, NEW endpoints, NEW mb, NEW pend, NEW found, NEW X, NEW Y,
           Holds(pipe, sock, endpoints, mb, pend, found, X), X \subseteq Y
    PROVE  Holds(pipe, sock, endpoints, mb, pend, found, Y)
  BY DEF Holds

\* A pipe end and a socket before and after the end is attached.
AttachEnd(p, r, s) ==
    /\ r.sink = s /\ r.state = p.state /\ r.out = p.out /\ r.tid = s
    /\ r.in = p.in /\ r.in_active = p.in_active /\ r.asleep = p.asleep
AttachSock(v, w, e) ==
    /\ w.pipes = v.pipes \cup {e} /\ w.only \in {v.only, e}
    /\ w.term_acks = IF v.terminating THEN v.term_acks + 1 ELSE v.term_acks
    /\ w.stage = v.stage /\ w.sent = v.sent /\ w.processed = v.processed
    /\ w.terminating = v.terminating /\ ~w.destroyed
Attachable(p, e, s, pend) ==
    /\ p.sink = None /\ p.tid = s
    /\ p.state \in {"active", "waiting_for_delimiter"}
    /\ \/ e[2] = "connect" /\ s = e[1]
       \/ e[2] = "bind" /\ s \in Hosts /\ e[1] \notin pend

\* attach_pipe: an end that no command brings is given to a socket that
\* lives.
LEMMA AttachStep ==
    ASSUME NEW pipe, NEW sock, NEW endpoints, NEW mb, NEW pend, NEW found, NEW X,
           Holds(pipe, sock, endpoints, mb, pend, found, X),
           NEW s \in Sockets, NEW e \in Ends,
           Attachable(pipe[e], e, s, pend), ~Sent(mb, Bind(e)), ~sock[s].destroyed,
           NEW r \in PipeType, NEW w \in SocketType,
           AttachEnd(pipe[e], r, s), AttachSock(sock[s], w, e),
           e[2] = "bind" /\ s \notin Pairs /\ sock[s].stage \in {"none", "open"} => r.delay
    PROVE  Holds([pipe EXCEPT ![e] = r], [sock EXCEPT ![s] = w], endpoints, mb, pend, found,
                 X \ {e})
PROOF
  <1> USE DEF AttachEnd, AttachSock, Attachable
  <1> DEFINE pipe1 == [pipe EXCEPT ![e] = r]
             sock1 == [sock EXCEPT ![s] = w]
             Y == X \ {e}
  <1>0. pipe \in PipeTable /\ sock \in SocketTable /\ mb \in Boxes /\ s # None
        /\ Members(sock, pipe, s)
    BY ContextNoneAssumption DEF Holds
  <1>1. /\ pipe1 \in PipeTable /\ pipe1[e] = r
        /\ \A f \in Ends : f # e => pipe1[f] = pipe[f]
        /\ \A f \in Ends : /\ pipe1[f].state = pipe[f].state /\ pipe1[f].out = pipe[f].out
                           /\ pipe1[f].tid = pipe[f].tid /\ pipe1[f].in = pipe[f].in
                           /\ pipe[f].sink # None => pipe1[f].sink = pipe[f].sink
    BY <1>0 DEF PipeTable
  <1>s. /\ sock1 \in SocketTable /\ sock1[s] = w
        /\ \A u \in Sockets : u # s => sock1[u] = sock[u]
        /\ \A u \in Sockets : /\ sock1[u].stage = sock[u].stage
                              /\ sock1[u].terminating = sock[u].terminating
    BY <1>0 DEF SocketTable
  <1>2. e \notin sock[s].pipes
    BY <1>0 DEF Members
  <1> HIDE DEF pipe1, sock1
  <1>3. ASSUME NEW f \in Ends PROVE Handshake(pipe1, mb, f)
    BY <1>1, EndFacts DEF Holds, Handshake
  <1>4. ASSUME NEW f \in Ends PROVE Order(pipe1, mb, f)
    BY <1>1, EndFacts DEF Holds, Order
  <1>5. ASSUME NEW f \in Ends \ Y PROVE Owner(pipe1, mb, pend, f)
    <2>1. CASE f # e
      <3>1. Owner(pipe, mb, pend, f) /\ pipe1[f] = pipe[f]
        BY <2>1, <1>1 DEF Holds
      <3> QED BY <3>1 DEF Owner
    <2>2. CASE f = e
      <3>1. \A u \in Sockets : ~At(mb, u, Bind(e))
        BY DEF Sent
      <3>2. Once(mb, Bind(e))
        BY Unsent
      <3> QED BY <2>2, <3>1, <3>2, <1>0, <1>1 DEF Owner
    <2> QED BY <2>1, <2>2
  <1>6. ASSUME NEW f \in Ends PROVE Content(pipe1, sock1, f)
    <2>1. Content(pipe, sock, f) /\ pipe[f].sink \in Sockets \cup {None} /\ Peer(f) \in Ends
      BY <1>0, EndFacts DEF Holds, PipeTable, PipeType
    <2>2. CASE f # e
      <3>1. pipe1[f] = pipe[f] /\ pipe1[Peer(f)].state = pipe[Peer(f)].state
        BY <2>1, <2>2, <1>1
      <3> QED BY <2>1, <3>1, <1>s DEF Content
    <2>3. CASE f = e
      <3>1. pipe1[f] = r /\ pipe1[Peer(f)].state = pipe[Peer(f)].state
        BY <2>1, <2>3, <1>1
      <3> QED BY <2>1, <2>3, <3>1, <1>s DEF Content
    <2> QED BY <2>2, <2>3
  <1>7. ASSUME NEW u \in Sockets PROVE Counting(sock1, mb, pend, found, u)
    <2>1. Counting(sock, mb, pend, found, u)
      BY DEF Holds
    <2>2. CASE u # s
      BY <2>1, <2>2, <1>s DEF Counting
    <2>3. CASE u = s
      <3>1. Cardinality(w.pipes) = Cardinality(sock[s].pipes) + 1 /\ Cardinality(sock[s].pipes) \in Nat
        <4>1. sock[s].pipes \in SUBSET Ends
          BY <1>0 DEF SocketTable, SocketType
        <4> QED BY <4>1, <1>2, PipesFinite
      <3> QED BY <2>1, <2>3, <3>1, <1>s DEF Counting
    <2> QED BY <2>2, <2>3
  <1>8. ASSUME NEW u \in Sockets PROVE Members(sock1, pipe1, u)
    <2>1. Members(sock, pipe, u)
      BY DEF Holds
    <2>2. CASE u # s
      <3>1. ASSUME NEW f \in Ends
            PROVE  (pipe1[f].sink = u /\ pipe1[f].state # "deleted") <=>
                   (pipe[f].sink = u /\ pipe[f].state # "deleted")
        <4>1. CASE f = e
          BY <4>1, <2>2, <1>1, ContextNoneAssumption
        <4>2. CASE f # e
          BY <4>2, <1>1
        <4> QED BY <4>1, <4>2
      <3> QED BY <2>1, <2>2, <3>1, <1>s DEF Members
    <2>3. CASE u = s
      <3>1. w.stage # "gone"
        BY <2>1, <2>3 DEF Members
      <3>2. \A f \in Ends : f \in w.pipes <=> pipe1[f].sink = s /\ pipe1[f].state # "deleted"
        <4> TAKE f \in Ends
        <4>1. CASE f = e
          BY <4>1, <1>1
        <4>2. CASE f # e
          BY <4>2, <2>1, <2>3, <1>1 DEF Members
        <4> QED BY <4>1, <4>2
      <3>3. w.only # None => w.only \in w.pipes
        BY <2>1, <2>3 DEF Members
      <3> QED BY <2>1, <2>3, <3>1, <3>2, <3>3, <1>s DEF Members
    <2> QED BY <2>2, <2>3
  <1>9. Bound(endpoints, sock1)
    <2>1. Bound(endpoints, sock) /\ endpoints \in EndpointTable
      BY DEF Holds
    <2> QED BY <2>1, <1>s DEF Bound, EndpointTable
  <1> HIDE DEF Y
  <1>10. Holds(pipe1, sock1, endpoints, mb, pend, found, Y)
    BY <1>1, <1>s, <1>3, <1>4, <1>5, <1>6, <1>7, <1>8, <1>9 DEF Holds
  <1> QED BY <1>10 DEF pipe1, sock1, Y

\* Two new pipe ends.
PairMade(pipe, pipe1, s) ==
    /\ pipe1 \in PipeTable
    /\ \A g \in Ends : g # <<s, "connect">> /\ g # <<s, "bind">> => pipe1[g] = pipe[g]
    /\ \A f \in {<<s, "connect">>, <<s, "bind">>} :
          pipe1[f].state = "active" /\ pipe1[f].in = << >> /\ pipe1[f].sink = None

\* pipepair: a new pipe, whose two ends have no owner yet.
LEMMA PairStep ==
    ASSUME NEW pipe, NEW sock, NEW endpoints, NEW mb, NEW pend, NEW found,
           Holds(pipe, sock, endpoints, mb, pend, found, {}),
           NEW s \in Connectors, pipe[<<s, "connect">>].state = "none",
           NEW pipe1, PairMade(pipe, pipe1, s)
    PROVE  /\ Holds(pipe1, sock, endpoints, mb, pend, found, {<<s, "connect">>, <<s, "bind">>})
           /\ s \notin pend
           /\ ~Sent(mb, Bind(<<s, "connect">>)) /\ ~Sent(mb, Bind(<<s, "bind">>))
PROOF
  <1> USE DEF PairMade
  <1> DEFINE e == <<s, "connect">>
             p == <<s, "bind">>
             X == {e, p}
  <1>0. /\ pipe \in PipeTable /\ mb \in Boxes /\ e \in Ends /\ p \in Ends
        /\ Peer(e) = p /\ Peer(p) = e /\ p # e
        /\ e[1] = s /\ p[1] = s /\ e[2] = "connect" /\ p[2] = "bind"
    BY EndFacts DEF Holds
  <1>1. /\ Handshake(pipe, mb, e) /\ Handshake(pipe, mb, p) /\ Order(pipe, mb, e)
        /\ Order(pipe, mb, p) /\ Owner(pipe, mb, pend, e) /\ Owner(pipe, mb, pend, p)
    BY <1>0 DEF Holds
  <1> HIDE DEF e, p
  <1>2. pipe[e].state = "none" /\ pipe[p].state = "none"
    BY <1>0, <1>1 DEF Handshake, e
  <1>3. pipe[e].sink = None /\ pipe[p].sink = None /\ s \notin pend /\ ~Sent(mb, Bind(e))
        /\ ~Sent(mb, Bind(p))
    BY <1>0, <1>1, <1>2 DEF Owner, Sent
  <1>4. /\ ~Sent(mb, Ask(e)) /\ ~Sent(mb, Ask(p)) /\ ~Sent(mb, Ack(e)) /\ ~Sent(mb, Ack(p))
    BY <1>0, <1>1, <1>2 DEF Handshake, Asking
  <1>5. ~Sent(mb, Wake(e)) /\ ~Sent(mb, Wake(p))
    BY <1>1, <1>2 DEF Order, Sent
  <1>6. ASSUME NEW f \in {e, p}
        PROVE  /\ Handshake(pipe1, mb, f) /\ Order(pipe1, mb, f) /\ Content(pipe1, sock, f)
               /\ pipe1[f].sink = pipe[f].sink
               /\ pipe1[f].state = "deleted" <=> pipe[f].state = "deleted"
    <2>1. /\ pipe1[f].state = "active" /\ pipe1[f].in = << >> /\ pipe1[f].sink = None
          /\ pipe1[Peer(f)].state = "active"
      BY <1>0 DEF e, p
    <2>2. ~Sent(mb, Ask(f)) /\ ~Sent(mb, Ask(Peer(f))) /\ ~Sent(mb, Ack(f)) /\ ~Sent(mb, Ack(Peer(f)))
          /\ ~Sent(mb, Wake(f))
      BY <1>0, <1>4, <1>5
    <2>3. Handshake(pipe1, mb, f)
      BY <2>1, <2>2 DEF Handshake, Acked, Asking
    <2>4. Order(pipe1, mb, f)
      <3>1. /\ Once(mb, Ask(f)) /\ Once(mb, Ack(f))
            /\ Before(mb, Ask(f), Ack(f)) /\ Before(mb, Wake(f), Ack(f))
            /\ \A u \in Sockets : ~At(mb, u, Ask(f)) /\ ~At(mb, u, Ack(f)) /\ ~At(mb, u, Wake(f))
        BY <2>2, Unsent
      <3> QED BY <3>1 DEF Order
    <2>5. Content(pipe1, sock, f)
      BY <2>1 DEF Content, ToSet
    <2> QED BY <2>1, <2>3, <2>4, <2>5, <1>2, <1>3
  <1>7. Holds(pipe, sock, endpoints, mb, pend, found, X)
    BY HoldsMore
  <1>8. SameBut(mb, mb, {}) /\ {} \in SUBSET Near(e)
    BY <1>0, SameButItself
  <1>9. e \in X /\ p \in X
    OBVIOUS
  <1> HIDE DEF X
  <1>10. \A g \in Ends : g # e /\ g # Peer(e) => pipe1[g] = pipe[g]
    BY <1>0 DEF e, p
  <1>11. Holds(pipe1, sock, endpoints, mb, pend, found, X)
    BY <1>0, <1>6, <1>7, <1>8, <1>9, <1>10, PipeChange
  <1> QED BY <1>3, <1>11 DEF X, e, p

\* A change of the pending connections keeps the invariant, if the owners of
\* the ends and the counters agree with it.
LEMMA PendChange ==
    ASSUME NEW pipe, NEW sock, NEW endpoints, NEW mb, NEW pend, NEW found, NEW X,
           Holds(pipe, sock, endpoints, mb, pend, found, X),
           NEW sock1 \in SocketTable, NEW pend1, NEW found1, NEW Y,
           \A f \in Ends \ Y : \/ f \notin X /\ (f[1] \in pend1 <=> f[1] \in pend)
                               \/ Owner(pipe, mb, pend1, f),
           \A u \in Sockets :
              /\ sock1[u].stage = sock[u].stage /\ sock1[u].pipes = sock[u].pipes
              /\ sock1[u].only = sock[u].only /\ sock1[u].terminating = sock[u].terminating
              /\ sock1[u].stage = "gone" => sock1[u].destroyed
              /\ Counting(sock1, mb, pend1, found1, u)
    PROVE  Holds(pipe, sock1, endpoints, mb, pend1, found1, Y)
PROOF
  <1>1. ASSUME NEW f \in Ends PROVE Content(pipe, sock1, f)
    <2>1. Content(pipe, sock, f) /\ pipe[f].sink \in Sockets \cup {None}
      BY DEF Holds, PipeTable, PipeType
    <2> QED BY <2>1 DEF Content
  <1>2. ASSUME NEW u \in Sockets PROVE Members(sock1, pipe, u)
    BY DEF Holds, Members
  <1>3. Bound(endpoints, sock1)
    <2>1. Bound(endpoints, sock) /\ endpoints \in EndpointTable
      BY DEF Holds
    <2> QED BY <2>1 DEF Bound, EndpointTable
  <1>4. ASSUME NEW f \in Ends \ Y PROVE Owner(pipe, mb, pend1, f)
    <2> SUFFICES ASSUME f \notin X, f[1] \in pend1 <=> f[1] \in pend
                 PROVE  Owner(pipe, mb, pend1, f)
      OBVIOUS
    <2>1. Owner(pipe, mb, pend, f)
      BY DEF Holds
    <2> QED BY <2>1 DEF Owner
  <1> QED BY <1>1, <1>2, <1>3, <1>4 DEF Holds

\* A connection is left pending.
LEMMA PendStep ==
    ASSUME NEW pipe, NEW sock, NEW endpoints, NEW mb, NEW pend, NEW found, NEW X,
           Holds(pipe, sock, endpoints, mb, pend, found, X),
           NEW s \in Connectors, NEW e \in Ends, e = <<s, "bind">>,
           s \notin Owed(mb, pend, found, s), ~Sent(mb, Bind(e)),
           pipe[e].state = "active", pipe[e].delay,
           pipe[e].sink = None, pipe[e].tid = s, ~pipe[e].asleep, pipe[e].in_active,
           pipe[e].in # << >>, Head(pipe[e].in) = "id",
           ~sock[s].destroyed, NEW w \in SocketType, w = [sock[s] EXCEPT !.sent = @ + 1]
    PROVE  Holds(pipe, [sock EXCEPT ![s] = w], endpoints, mb, pend \cup {s}, found, X \ {e})
PROOF
  <1> DEFINE sock1 == [sock EXCEPT ![s] = w]
             pend1 == pend \cup {s}
             O == Owed(mb, pend, found, s)
             Y == X \ {e}
  <1>0. sock \in SocketTable /\ s \in Sockets /\ e[1] = s /\ e[2] = "bind"
    BY SocketFacts DEF Holds
  <1>1. /\ sock1 \in SocketTable /\ sock1[s] = w
        /\ \A u \in Sockets : u # s => sock1[u] = sock[u]
        /\ w.stage = sock[s].stage /\ w.pipes = sock[s].pipes /\ w.only = sock[s].only
        /\ w.term_acks = sock[s].term_acks /\ w.sent = sock[s].sent + 1
        /\ w.processed = sock[s].processed /\ w.terminating = sock[s].terminating
        /\ w.destroyed = sock[s].destroyed
        /\ sock[s].sent \in Nat /\ sock[s].processed \in Nat
    BY <1>0 DEF SocketTable, SocketType
  <1> HIDE DEF sock1
  <1>2. Owed(mb, pend1, found, s) = O \cup {s}
    BY DEF Owed
  <1>3. \A u \in Sockets : u # s => Owed(mb, pend1, found, u) = Owed(mb, pend, found, u)
    BY DEF Owed
  <1>4. Cardinality(O \cup {s}) = Cardinality(O) + 1 /\ Cardinality(O) \in Nat
    <2>1. IsFiniteSet(O) /\ Cardinality(O) \in Nat
      BY OwedFacts
    <2> HIDE DEF O
    <2>2. s \notin O
      BY DEF O
    <2> QED BY <2>1, <2>2, FS_AddElement
  <1>5. ~At(mb, s, Joined)
    BY DEF Owed
  <1>6. ASSUME NEW u \in Sockets PROVE Counting(sock1, mb, pend1, found, u)
    <2>1. Counting(sock, mb, pend, found, u)
      BY DEF Holds
    <2>2. CASE u # s
      <3>1. u \in pend1 => u \in pend
        BY <2>2
      <3> HIDE DEF pend1
      <3> QED BY <2>1, <2>2, <3>1, <1>1, <1>3 DEF Counting
    <2>3. CASE u = s
      <3> DEFINE c == Cardinality(Owed(mb, pend, found, s))
                 c1 == Cardinality(Owed(mb, pend1, found, s))
      <3>1. c1 = c + 1 /\ c \in Nat
        BY <1>2, <1>4
      <3>2. sock[s].sent = sock[s].processed + c
        BY <2>1, <2>3 DEF Counting
      <3> HIDE DEF c, c1
      <3>3. w.sent = w.processed + c1
        BY <3>1, <3>2, <1>1
      <3> HIDE DEF pend1
      <3> QED BY <2>1, <2>3, <3>3, <1>1, <1>5 DEF Counting, c1
    <2> QED BY <2>2, <2>3
  <1>7. \A u \in Sockets :
              /\ sock1[u].stage = sock[u].stage /\ sock1[u].pipes = sock[u].pipes
              /\ sock1[u].only = sock[u].only /\ sock1[u].terminating = sock[u].terminating
              /\ sock1[u].stage = "gone" => sock1[u].destroyed
    <2> TAKE u \in Sockets
    <2>1. sock[u].stage = "gone" => sock[u].destroyed
      BY DEF Holds, Members
    <2>2. CASE u = s
      BY <2>1, <2>2, <1>1
    <2>3. CASE u # s
      BY <2>1, <2>3, <1>1
    <2> QED BY <2>2, <2>3
  <1>8. Owner(pipe, mb, pend1, e)
    <2>1. \A u \in Sockets : ~At(mb, u, Bind(e))
      BY DEF Sent
    <2>2. Once(mb, Bind(e))
      BY Unsent
    <2> QED BY <2>1, <2>2, <1>0 DEF Owner
  <1>9. ASSUME NEW f \in Ends \ Y
        PROVE  \/ f \notin X /\ (f[1] \in pend1 <=> f[1] \in pend)
               \/ Owner(pipe, mb, pend1, f)
    <2>1. CASE f = e
      BY <2>1, <1>8
    <2>2. CASE f # e /\ f[1] # s
      BY <2>2
    <2>3. CASE f # e /\ f[1] = s
      <3>1. f[2] = "connect" /\ f \notin X
        BY <2>3, EndFacts
      <3>2. Owner(pipe, mb, pend, f)
        BY <3>1 DEF Holds
      <3> QED BY <3>1, <3>2 DEF Owner
    <2> QED BY <2>1, <2>2, <2>3
  <1> HIDE DEF pend1, O, Y
  <1>10. Holds(pipe, sock1, endpoints, mb, pend1, found, Y)
    BY <1>1, <1>6, <1>7, <1>9, PendChange
  <1> QED BY <1>10 DEF sock1, pend1, Y

\* A connection is taken from the pending ones.
LEMMA UnpendStep ==
    ASSUME NEW pipe, NEW sock, NEW endpoints, NEW mb, NEW pend, NEW found, NEW X,
           Holds(pipe, sock, endpoints, mb, pend, found, X),
           NEW s \in Connectors, NEW e \in Ends, e = <<s, "bind">>, s \in pend
    PROVE  Holds(pipe, sock, endpoints, mb, pend \ {s}, found \cup {<<s, s>>}, X \cup {e})
PROOF
  <1> DEFINE pend1 == pend \ {s}
             found1 == found \cup {<<s, s>>}
             Y == X \cup {e}
  <1>0. sock \in SocketTable /\ s \in Sockets /\ e[1] = s /\ e[2] = "bind"
    BY SocketFacts DEF Holds
  <1>1. ~At(mb, s, Joined)
    BY <1>0 DEF Holds, Counting
  <1>2. \A u \in Sockets : Owed(mb, pend1, found1, u) = Owed(mb, pend, found, u)
    BY DEF Owed
  <1>3. ASSUME NEW u \in Sockets PROVE Counting(sock, mb, pend1, found1, u)
    <2>1. Counting(sock, mb, pend, found, u)
      BY DEF Holds
    <2>2. u # s => (<<u, u>> \in found1 => <<u, u>> \in found)
      OBVIOUS
    <2>3. u \in pend1 => u \in pend
      OBVIOUS
    <2>4. u = s => ~At(mb, u, Joined)
      BY <1>1
    <2>5. Owed(mb, pend1, found1, u) = Owed(mb, pend, found, u)
      BY <1>2
    <2> HIDE DEF pend1, found1
    <2> QED BY <2>1, <2>2, <2>3, <2>4, <2>5 DEF Counting
  <1>4. ASSUME NEW f \in Ends \ Y
        PROVE  \/ f \notin X /\ (f[1] \in pend1 <=> f[1] \in pend)
               \/ Owner(pipe, mb, pend1, f)
    <2>2. CASE f[1] # s
      BY <2>2
    <2>3. CASE f[1] = s
      <3>1. f[2] = "connect" /\ f \notin X
        BY <2>3, EndFacts
      <3>2. Owner(pipe, mb, pend, f)
        BY <3>1 DEF Holds
      <3> QED BY <3>1, <3>2 DEF Owner
    <2> QED BY <2>2, <2>3
  <1>5. \A u \in Sockets : sock[u].stage = "gone" => sock[u].destroyed
    BY DEF Holds, Members
  <1> HIDE DEF pend1, found1, Y
  <1>6. Holds(pipe, sock, endpoints, mb, pend1, found1, Y)
    BY <1>0, <1>3, <1>4, <1>5, PendChange
  <1> QED BY <1>6 DEF pend1, found1, Y

\* The end of a pending connection gets a new owner.
LEMMA RetargetStep ==
    ASSUME NEW pipe, NEW sock, NEW endpoints, NEW mb, NEW pend, NEW found, NEW X,
           Holds(pipe, sock, endpoints, mb, pend, found, X),
           NEW e \in Ends, e \in X, NEW r \in PipeType,
           pipe[e].sink = None, pipe[e].state \in {"active", "waiting_for_delimiter"},
           pipe[e].tid = pipe[Peer(e)].tid,
           r.sink = None, r.state = pipe[e].state, r.out = pipe[e].out,
           "delimiter" \in ToSet(r.in) => "delimiter" \in ToSet(pipe[e].in)
    PROVE  Holds([pipe EXCEPT ![e] = r], sock, endpoints, mb, pend, found, X)
PROOF
  <1> DEFINE p == Peer(e)
             pipe1 == [pipe EXCEPT ![e] = r]
  <1>0. pipe \in PipeTable /\ mb \in Boxes /\ p \in Ends /\ Peer(p) = e /\ p # e
    BY EndFacts DEF Holds
  <1>1. /\ pipe1 \in PipeTable /\ pipe1[e] = r /\ pipe1[p] = pipe[p]
        /\ \A f \in Ends : f # e => pipe1[f] = pipe[f]
    BY <1>0 DEF PipeTable
  <1>2. Handshake(pipe, mb, e) /\ Handshake(pipe, mb, p) /\ Order(pipe, mb, e) /\ Order(pipe, mb, p)
    BY <1>0 DEF Holds
  <1> HIDE DEF p, pipe1
  <1>3. /\ ~Sent(mb, Ask(p)) /\ ~Sent(mb, Ack(e))
        /\ Sent(mb, Ask(e)) => pipe[p].state = "term_req_sent1"
    BY <1>0, <1>2 DEF Handshake, Acked, Asking, p
  <1>4. \A u \in Sockets : ~At(mb, u, Wake(e)) /\ ~At(mb, u, Ack(e)) /\ ~At(mb, u, Ask(p))
    BY <1>2, <1>3 DEF Order, Sent
  <1>5. Before(mb, Ask(e), Ask(p))
    BY <1>3, Unsent
  <1>8. Handshake(pipe1, mb, e) /\ Handshake(pipe1, mb, p)
    BY <1>0, <1>1, <1>2 DEF Handshake, Acked, Asking, p
  <1>9. Order(pipe1, mb, e)
    <2>1. \A u \in Sockets : At(mb, u, Ask(e)) => u = pipe[p].tid /\ pipe[p].state = "term_req_sent1"
      BY <1>2, <1>3 DEF Order, Sent, p
    <2> QED BY <2>1, <1>0, <1>1, <1>2, <1>4, <1>5 DEF Order, p
  <1>90. Order(pipe1, mb, p)
    BY <1>0, <1>1, <1>2, <1>4 DEF Order
  <1>11. p \notin X => Owner(pipe1, mb, pend, p)
    <2>1. p \notin X => Owner(pipe, mb, pend, p)
      BY <1>0 DEF Holds
    <2> QED BY <2>1, <1>1 DEF Owner
  <1>12. Content(pipe1, sock, e) /\ Content(pipe1, sock, p)
    <2>1. Content(pipe, sock, p) /\ Content(pipe, sock, e)
      BY <1>0 DEF Holds
    <2>2. Content(pipe1, sock, p)
      BY <2>1, <1>0, <1>1 DEF Content
    <2>3. Content(pipe1, sock, e)
      BY <2>1, <1>0, <1>1 DEF Content, p
    <2> QED BY <2>2, <2>3
  <1>13. SameBut(mb, mb, {}) /\ {} \in SUBSET Near(e)
    BY <1>0, SameButItself
  <1>14. \A f \in {e, p} :
            /\ Handshake(pipe1, mb, f) /\ Order(pipe1, mb, f) /\ Content(pipe1, sock, f)
            /\ f \notin X => Owner(pipe1, mb, pend, f)
            /\ pipe1[f].sink = pipe[f].sink
            /\ pipe1[f].state = "deleted" <=> pipe[f].state = "deleted"
    BY <1>1, <1>8, <1>9, <1>90, <1>11, <1>12
  <1>15. Holds(pipe1, sock, endpoints, mb, pend, found, X)
    BY <1>1, <1>13, <1>14, PipeChange DEF p
  <1> QED BY <1>15 DEF p, pipe1

-----------------------------------------------------------------------------
(* Sockets open, close, terminate and go.                                    *)

\* A socket takes a new record w that keeps its pipes and counters.
StageChange(v, w) ==
    /\ w.pipes = v.pipes /\ w.only = v.only /\ w.term_acks = v.term_acks
    /\ w.sent = v.sent /\ w.processed = v.processed /\ w.terminating = v.terminating
    /\ \/ w.destroyed = v.destroyed
       \/ w.destroyed /\ w.terminating /\ w.term_acks = 0 /\ w.processed = w.sent
    /\ w.stage \in {"none", "open"} => v.stage \in {"none", "open"}
    /\ w.stage \in {"reaping", "gone"} <=> v.stage \in {"reaping", "gone"}
    /\ w.stage = "gone" => w.destroyed

\* A socket is opened, closed or deleted.
LEMMA StageStep ==
    ASSUME NEW pipe, NEW sock, NEW endpoints, NEW mb, NEW pend, NEW found, NEW X,
           Holds(pipe, sock, endpoints, mb, pend, found, X),
           NEW t \in Sockets, NEW w \in SocketType, StageChange(sock[t], w)
    PROVE  Holds(pipe, [sock EXCEPT ![t] = w], endpoints, mb, pend, found, X)
PROOF
  <1> USE DEF StageChange
  <1> DEFINE sock1 == [sock EXCEPT ![t] = w]
  <1>0. sock \in SocketTable
    BY DEF Holds
  <1>1. /\ sock1 \in SocketTable /\ sock1[t] = w
        /\ \A u \in Sockets : u # t => sock1[u] = sock[u]
        /\ \A u \in Sockets : sock1[u].terminating = sock[u].terminating
    BY <1>0 DEF SocketTable
  <1> HIDE DEF sock1
  <1>2. ASSUME NEW f \in Ends PROVE Content(pipe, sock1, f)
    <2>1. Content(pipe, sock, f) /\ pipe[f].sink \in Sockets \cup {None}
      BY DEF Holds, PipeTable, PipeType
    <2>2. pipe[f].sink # None /\ sock1[pipe[f].sink].stage \in {"none", "open"} =>
             sock[pipe[f].sink].stage \in {"none", "open"}
      <3>1. CASE pipe[f].sink = t
        BY <3>1, <1>1
      <3>2. CASE pipe[f].sink # t
        BY <3>2, <2>1, <1>1
      <3> QED BY <3>1, <3>2
    <2> QED BY <2>1, <2>2 DEF Content
  <1>3. ASSUME NEW u \in Sockets PROVE Members(sock1, pipe, u)
    <2>1. Members(sock, pipe, u)
      BY DEF Holds
    <2>2. CASE u = t
      BY <2>1, <2>2, <1>1 DEF Members
    <2>3. CASE u # t
      BY <2>1, <2>3, <1>1 DEF Members
    <2> QED BY <2>2, <2>3
  <1>4. ASSUME NEW u \in Sockets PROVE Counting(sock1, mb, pend, found, u)
    <2>1. Counting(sock, mb, pend, found, u)
      BY DEF Holds
    <2>2. CASE u = t
      BY <2>1, <2>2, <1>1 DEF Counting
    <2>3. CASE u # t
      BY <2>1, <2>3, <1>1 DEF Counting
    <2> QED BY <2>2, <2>3
  <1>5. Bound(endpoints, sock1)
    <2>1. Bound(endpoints, sock) /\ endpoints \in EndpointTable
      BY DEF Holds
    <2> QED BY <2>1, <1>1 DEF Bound, EndpointTable
  <1>6. Holds(pipe, sock1, endpoints, mb, pend, found, X)
    BY <1>1, <1>2, <1>3, <1>4, <1>5 DEF Holds
  <1> QED BY <1>6 DEF sock1

\* The reaper begins to end a socket: it is no endpoint any more, and waits for
\* an acknowledgement on each of its pipes.
LEMMA TermStep ==
    ASSUME NEW pipe, NEW sock, NEW endpoints, NEW mb, NEW pend, NEW found, NEW X,
           Holds(pipe, sock, endpoints, mb, pend, found, X),
           NEW t \in Sockets, NEW w \in SocketType, NEW endpoints1 \in EndpointTable,
           sock[t].stage = "closed",
           w.pipes = sock[t].pipes, w.only = sock[t].only,
           w.term_acks = Cardinality(sock[t].pipes),
           w.sent = sock[t].sent, w.processed = sock[t].processed,
           w.terminating, w.stage = "reaping", w.destroyed = sock[t].destroyed,
           \A a \in ToSet(Bus) :
              endpoints1[a] = IF endpoints[a] = t THEN None ELSE endpoints[a]
    PROVE  Holds(pipe, [sock EXCEPT ![t] = w], endpoints1, mb, pend, found, X)
PROOF
  <1> DEFINE sock1 == [sock EXCEPT ![t] = w]
  <1>0. sock \in SocketTable /\ t # None
    BY ContextNoneAssumption DEF Holds
  <1>1. /\ sock1 \in SocketTable /\ sock1[t] = w
        /\ \A u \in Sockets : u # t => sock1[u] = sock[u]
    BY <1>0 DEF SocketTable
  <1>10. ~sock[t].terminating /\ ~sock[t].destroyed
    BY DEF Holds, Members, Counting
  <1> HIDE DEF sock1
  <1>2. ASSUME NEW f \in Ends PROVE Content(pipe, sock1, f)
    <2>1. Content(pipe, sock, f) /\ pipe[f].sink \in Sockets \cup {None}
      BY DEF Holds, PipeTable, PipeType
    <2>2. pipe[f].sink # None /\ sock1[pipe[f].sink].stage \in {"none", "open"} =>
             sock[pipe[f].sink].stage \in {"none", "open"}
      <3>1. CASE pipe[f].sink = t
        BY <3>1, <1>1
      <3>2. CASE pipe[f].sink # t
        BY <3>2, <2>1, <1>1
      <3> QED BY <3>1, <3>2
    <2> QED BY <2>1, <2>2 DEF Content
  <1>3. ASSUME NEW u \in Sockets PROVE Members(sock1, pipe, u)
    <2>1. Members(sock, pipe, u)
      BY DEF Holds
    <2>2. CASE u = t
      BY <2>1, <2>2, <1>1 DEF Members
    <2>3. CASE u # t
      BY <2>1, <2>3, <1>1 DEF Members
    <2> QED BY <2>2, <2>3
  <1>4. ASSUME NEW u \in Sockets PROVE Counting(sock1, mb, pend, found, u)
    <2>1. Counting(sock, mb, pend, found, u)
      BY DEF Holds
    <2>2. CASE u = t
      BY <2>1, <2>2, <1>1, <1>10 DEF Counting
    <2>3. CASE u # t
      BY <2>1, <2>3, <1>1 DEF Counting
    <2> QED BY <2>2, <2>3
  <1>5. Bound(endpoints1, sock1)
    <2>1. Bound(endpoints, sock) /\ endpoints \in EndpointTable
      BY DEF Holds
    <2> SUFFICES ASSUME NEW a \in ToSet(Bus), endpoints1[a] # None
                 PROVE  endpoints1[a] \in Hosts /\ ~sock1[endpoints1[a]].terminating
      BY DEF Bound
    <2>2. endpoints1[a] = endpoints[a] /\ endpoints[a] # t /\ endpoints[a] \in Sockets
      BY <2>1 DEF EndpointTable
    <2> QED BY <2>1, <2>2, <1>1 DEF Bound
  <1>6. Holds(pipe, sock1, endpoints1, mb, pend, found, X)
    BY <1>1, <1>2, <1>3, <1>4, <1>5 DEF Holds
  <1> QED BY <1>6 DEF sock1

-----------------------------------------------------------------------------
(* The operators of the library.  Socket s has taken commands out of its     *)
(* mailbox and has those of h still to handle.                               *)

Virtual(mbox, s, h) == [mbox EXCEPT ![s] = h \o @]

Good(q, sock, s, h, pend, found, X) ==
    /\ q \in Library /\ q.ok
    /\ Holds(q.pipe, sock, q.endpoints, Virtual(q.mbox, s, h), pend, found, X)

\* What an operator leaves as it was, for those who are not concerned.
Kept(q, q1) ==
    /\ q1.endpoints = q.endpoints /\ q1.pending = q.pending
    /\ \A f \in Ends : q1.pipe[f].state = "none" <=> q.pipe[f].state = "none"
    /\ \A u \in Sockets : /\ q1.sock[u].stage = q.sock[u].stage
                          /\ q1.sock[u].sent = q.sock[u].sent

\* A command that is sent while others are being handled comes after them.
LEMMA VirtualPut ==
    ASSUME NEW mbox \in Boxes, NEW s \in Sockets, NEW h \in Seq(Commands),
           NEW t \in Sockets, NEW m \in Commands
    PROVE  /\ Virtual(mbox, s, h) \in Boxes
           /\ Virtual(Put(mbox, t, m), s, h) = Put(Virtual(mbox, s, h), t, m)
PROOF
  <1>1. mbox[s] \in Seq(Commands)
    BY DEF Boxes
  <1>2. h \o mbox[s] \in Seq(Commands)
    BY <1>1, ConcatProperties
  <1>3. Virtual(mbox, s, h) \in Boxes
    BY <1>2 DEF Virtual, Boxes
  <1>4. h \o Append(mbox[s], m) = Append(h \o mbox[s], m)
    <2>1. /\ Append(mbox[s], m) = mbox[s] \o <<m>>
          /\ Append(h \o mbox[s], m) = (h \o mbox[s]) \o <<m>>
      BY <1>1, <1>2, AppendIsConcat
    <2> DEFINE a == mbox[s]
               b == <<m>>
    <2>2. b \in Seq(Commands) /\ a \in Seq(Commands)
      BY <1>1
    <2> HIDE DEF a, b
    <2>3. (h \o a) \o b = h \o (a \o b)
      BY ONLY h \in Seq(Commands), <2>2, ConcatAssociative, SMTT(30)
    <2> QED BY <2>1, <2>3 DEF a, b
  <1>5. Put(mbox, t, m) \in Boxes
    BY PutPlaces
  <1>6. Put(mbox, t, m) = [u \in Sockets |-> IF u = t THEN Append(mbox[t], m) ELSE mbox[u]]
    BY DEF Put, Boxes
  <1>7. Virtual(mbox, s, h) = [u \in Sockets |-> IF u = s THEN h \o mbox[s] ELSE mbox[u]]
    BY DEF Virtual, Boxes
  <1>8. Virtual(Put(mbox, t, m), s, h)
          = [u \in Sockets |-> IF u = s THEN h \o Put(mbox, t, m)[s] ELSE Put(mbox, t, m)[u]]
    BY <1>5 DEF Virtual, Boxes
  <1>9. Put(Virtual(mbox, s, h), t, m)
          = [u \in Sockets |-> IF u = t THEN Append(Virtual(mbox, s, h)[t], m)
                               ELSE Virtual(mbox, s, h)[u]]
    BY <1>3 DEF Put, Boxes
  <1>10. ASSUME NEW u \in Sockets
         PROVE  Virtual(Put(mbox, t, m), s, h)[u] = Put(Virtual(mbox, s, h), t, m)[u]
    <2>3. /\ \A v \in Sockets : Put(mbox, t, m)[v] = IF v = t THEN Append(mbox[t], m) ELSE mbox[v]
          /\ \A v \in Sockets : Virtual(mbox, s, h)[v] = IF v = s THEN h \o mbox[s] ELSE mbox[v]
      BY <1>6, <1>7
    <2>4. /\ Virtual(Put(mbox, t, m), s, h)[u]
               = IF u = s THEN h \o Put(mbox, t, m)[s] ELSE Put(mbox, t, m)[u]
          /\ Put(Virtual(mbox, s, h), t, m)[u]
               = IF u = t THEN Append(Virtual(mbox, s, h)[t], m) ELSE Virtual(mbox, s, h)[u]
      BY <1>8, <1>9
    <2>5. Put(mbox, t, m)[s] = IF s = t THEN Append(mbox[t], m) ELSE mbox[s]
      BY <2>3
    <2>6. Virtual(mbox, s, h)[t] = IF t = s THEN h \o mbox[s] ELSE mbox[t]
      BY <2>3
    <2>1. CASE t = s
      <3>1. CASE u = s
        BY <2>1, <3>1, <2>4, <2>5, <2>6, <1>4
      <3>2. CASE u # s
        BY <2>1, <3>2, <2>3, <2>4
      <3> QED BY <3>1, <3>2
    <2>2. CASE t # s
      <3>1. CASE u = s
        BY <2>2, <3>1, <2>3, <2>4, <2>5
      <3>2. CASE u # s
        BY <2>2, <3>2, <2>3, <2>4, <2>6
      <3> QED BY <3>1, <3>2
    <2> QED BY <2>1, <2>2
  <1> QED BY <1>3, <1>8, <1>9, <1>10

\* The next command to handle is the first one of the mailbox together with
\* those taken out.
LEMMA VirtualDrop ==
    ASSUME NEW mbox \in Boxes, NEW s \in Sockets, NEW h \in Seq(Commands), h # << >>
    PROVE  /\ Virtual(mbox, s, h) \in Boxes
           /\ Virtual(mbox, s, h)[s] # << >>
           /\ Head(Virtual(mbox, s, h)[s]) = Head(h) /\ Head(h) \in Commands
           /\ Drop(Virtual(mbox, s, h), s) = Virtual(mbox, s, Tail(h))
           /\ Tail(h) \in Seq(Commands)
PROOF
  <1>1. mbox[s] \in Seq(Commands)
    BY DEF Boxes
  <1> DEFINE c == h \o mbox[s]
  <1>2. /\ c \in Seq(Commands) /\ Len(c) = Len(h) + Len(mbox[s])
        /\ \A i \in 1 .. Len(h) + Len(mbox[s]) :
              c[i] = IF i <= Len(h) THEN h[i] ELSE mbox[s][i - Len(h)]
    BY <1>1, ConcatProperties
  <1>3. /\ Head(h) \in Commands /\ Tail(h) \in Seq(Commands) /\ Len(h) \in Nat /\ Len(h) # 0
        /\ Len(Tail(h)) = Len(h) - 1 /\ Head(h) = h[1]
        /\ \A i \in 1 .. Len(Tail(h)) : Tail(h)[i] = h[i + 1]
    BY HeadTailProperties, LenProperties, EmptySeq
  <1>4. Len(mbox[s]) \in Nat
    BY <1>1, LenProperties
  <1> HIDE DEF c
  <1>5. c # << >> /\ Head(c) = c[1] /\ Tail(c) \in Seq(Commands) /\ Len(Tail(c)) = Len(c) - 1
        /\ \A i \in 1 .. Len(Tail(c)) : Tail(c)[i] = c[i + 1]
    <2>1. Len(c) # 0
      BY <1>2, <1>3, <1>4
    <2>2. c # << >>
      BY <2>1
    <2> QED BY <2>2, <1>2, HeadTailProperties
  <1>6. Head(c) = Head(h)
    BY <1>2, <1>3, <1>4, <1>5
  <1> DEFINE d == Tail(h) \o mbox[s]
  <1>7. /\ d \in Seq(Commands) /\ Len(d) = Len(Tail(h)) + Len(mbox[s])
        /\ \A i \in 1 .. Len(Tail(h)) + Len(mbox[s]) :
              d[i] = IF i <= Len(Tail(h)) THEN Tail(h)[i] ELSE mbox[s][i - Len(Tail(h))]
    BY <1>1, <1>3, ConcatProperties
  <1> HIDE DEF d
  <1>8. Tail(c) = d
    <2>1. Len(Tail(c)) = Len(d) /\ Len(d) = Len(h) - 1 + Len(mbox[s])
      BY <1>2, <1>3, <1>4, <1>5, <1>7
    <2>2. ASSUME NEW i \in 1 .. Len(d) PROVE Tail(c)[i] = d[i]
      <3>1. i + 1 \in 1 .. Len(c) /\ Tail(c)[i] = c[i + 1]
        BY <2>1, <1>2, <1>3, <1>4, <1>5
      <3>2. CASE i <= Len(h) - 1
        <4>1. c[i + 1] = h[i + 1] /\ d[i] = Tail(h)[i] /\ i \in 1 .. Len(Tail(h))
          BY <3>1, <3>2, <2>1, <1>2, <1>3, <1>4, <1>7
        <4> QED BY <4>1, <3>1, <1>3
      <3>3. CASE ~(i <= Len(h) - 1)
        <4>1. c[i + 1] = mbox[s][(i + 1) - Len(h)] /\ d[i] = mbox[s][i - (Len(h) - 1)]
          BY <3>1, <3>3, <2>1, <1>2, <1>3, <1>4, <1>7
        <4>2. (i + 1) - Len(h) = i - (Len(h) - 1)
          BY <2>1, <1>3, <1>4
        <4> QED BY <4>1, <4>2, <3>1
      <3> QED BY <3>2, <3>3
    <2> QED BY <2>1, <2>2, <1>5, <1>7, SeqEqual
  <1>9. Virtual(mbox, s, h) = [u \in Sockets |-> IF u = s THEN c ELSE mbox[u]]
    BY DEF Virtual, Boxes, c
  <1>10. Virtual(mbox, s, Tail(h)) = [u \in Sockets |-> IF u = s THEN d ELSE mbox[u]]
    BY DEF Virtual, Boxes, d
  <1>11. Virtual(mbox, s, h) \in Boxes
    BY <1>2, <1>9 DEF Boxes
  <1>12. Drop(Virtual(mbox, s, h), s) = Virtual(mbox, s, Tail(h))
    BY <1>8, <1>9, <1>10 DEF Drop
  <1> QED BY <1>3, <1>5, <1>6, <1>9, <1>11, <1>12

\* When all that were taken out are handled, the mailboxes are what they are.
LEMMA VirtualNone ==
    ASSUME NEW mbox \in Boxes, NEW s \in Sockets
    PROVE  Virtual(mbox, s, << >>) = mbox
PROOF
  <1>1. mbox[s] \in Seq(Commands)
    BY DEF Boxes
  <1>2. << >> \o mbox[s] = mbox[s]
    BY <1>1, ConcatEmptySeq
  <1> QED BY <1>2 DEF Virtual, Boxes

\* A library that did not change.
LEMMA KeptItself == \A q : Kept(q, q)
  BY DEF Kept

\* Two steps, one after the other.
LEMMA KeptTrans ==
    ASSUME NEW q, NEW q1, NEW q2, Kept(q, q1), Kept(q1, q2)
    PROVE  Kept(q, q2)
  BY DEF Kept

\* Only the record of one pipe end is changed.
LEMMA PipeKept ==
    ASSUME NEW q \in Library, NEW q1 \in Library, NEW e \in Ends, NEW r,
           q1.pipe = [q.pipe EXCEPT ![e] = r], q1.sock = q.sock,
           q1.endpoints = q.endpoints, q1.pending = q.pending,
           r.state = "none" <=> q.pipe[e].state = "none"
    PROVE  Kept(q, q1)
PROOF
  <1>1. \A f \in Ends : q1.pipe[f] = IF f = e THEN r ELSE q.pipe[f]
    BY DEF Library, PipeTable
  <1> QED BY <1>1 DEF Kept

\* The types of the parts of the library.
LEMMA LibraryTypes ==
    ASSUME NEW q \in Library
    PROVE  /\ q.pipe \in PipeTable /\ q.sock \in SocketTable /\ q.mbox \in Boxes
           /\ q.endpoints \in EndpointTable /\ q.pending \in PendingTable
           /\ q.ok \in BOOLEAN
           /\ \A e \in Ends : /\ q.pipe[e] \in PipeType /\ q.pipe[e].tid \in Sockets
                              /\ q.pipe[e].sink \in Sockets \cup {None}
                              /\ q.pipe[e].in \in Seq({"id", "msg", "delimiter"})
           /\ \A t \in Sockets : q.sock[t] \in SocketType
  BY DEF Library, PipeTable, PipeType, SocketTable

\* send_command changes one mailbox.
LEMMA SendFacts ==
    ASSUME NEW q \in Library, NEW t \in Sockets, NEW m \in Commands
    PROVE  /\ SendTo(q, t, m) \in Library
           /\ SendTo(q, t, m).mbox = Put(q.mbox, t, m)
           /\ SendTo(q, t, m).pipe = q.pipe /\ SendTo(q, t, m).sock = q.sock
           /\ SendTo(q, t, m).endpoints = q.endpoints
           /\ SendTo(q, t, m).pending = q.pending /\ SendTo(q, t, m).ok = q.ok
           /\ \A s \in Sockets, h \in Seq(Commands) :
                 Virtual(SendTo(q, t, m).mbox, s, h) = Put(Virtual(q.mbox, s, h), t, m)
PROOF
  <1>1. q.mbox \in Boxes
    BY DEF Library
  <1>2. Put(q.mbox, t, m) \in Boxes
    BY <1>1, PutPlaces
  <1>3. /\ SendTo(q, t, m).mbox = Put(q.mbox, t, m)
        /\ SendTo(q, t, m).pipe = q.pipe /\ SendTo(q, t, m).sock = q.sock
        /\ SendTo(q, t, m).endpoints = q.endpoints
        /\ SendTo(q, t, m).pending = q.pending /\ SendTo(q, t, m).ok = q.ok
        /\ SendTo(q, t, m) = [q EXCEPT !.mbox = Put(q.mbox, t, m)]
    BY DEF SendTo, Put, Library
  <1>4. SendTo(q, t, m) \in Library
    <2> HIDE DEF Put
    <2> QED BY <1>2, <1>3 DEF Library
  <1>5. \A s \in Sockets, h \in Seq(Commands) :
           Virtual(Put(q.mbox, t, m), s, h) = Put(Virtual(q.mbox, s, h), t, m)
    BY <1>1, VirtualPut
  <1> QED BY <1>3, <1>4, <1>5

\* What waits in the pipe of an end is changed.
Filled(q, p, m) == [q EXCEPT !.pipe[p].in = Append(@, m), !.pipe[p].asleep = FALSE]
FilledEnd(q, p, m) == [q.pipe[p] EXCEPT !.in = Append(q.pipe[p].in, m), !.asleep = FALSE]

IsFilled(q, p, m, q1, r) ==
    /\ r \in PipeType
    /\ q1 \in Library /\ q1.pipe = [q.pipe EXCEPT ![p] = r] /\ q1.sock = q.sock
    /\ q1.mbox = q.mbox /\ q1.endpoints = q.endpoints /\ q1.pending = q.pending
    /\ q1.ok = q.ok
    /\ r.state = q.pipe[p].state /\ r.out = q.pipe[p].out
    /\ r.sink = q.pipe[p].sink /\ r.tid = q.pipe[p].tid /\ r.asleep = FALSE
    /\ r.in_active = q.pipe[p].in_active /\ r.delay = q.pipe[p].delay
    /\ r.in = Append(q.pipe[p].in, m)
    /\ ToSet(r.in) = ToSet(q.pipe[p].in) \cup {m}
    /\ r.in # << >>
    /\ q.pipe[p].in # << >> => Head(r.in) = Head(q.pipe[p].in)

\* A message is put into the queue of an end.
LEMMA AppendInput ==
    ASSUME NEW q \in Library, NEW p \in Ends, NEW m \in {"id", "msg", "delimiter"}, NEW q1,
           q1 = Filled(q, p, m), NEW r, r = FilledEnd(q, p, m)
    PROVE  IsFilled(q, p, m, q1, r)
PROOF
  <1> DEFINE in == q.pipe[p].in
             S == {"id", "msg", "delimiter"}
  <1>1. in \in Seq(S) /\ q.pipe[p] \in PipeType /\ q.pipe \in PipeTable
    BY LibraryTypes
  <1>2. /\ Append(in, m) \in Seq(S) /\ Len(Append(in, m)) = Len(in) + 1
        /\ \A i \in 1 .. Len(in) : Append(in, m)[i] = in[i]
        /\ Append(in, m)[Len(in) + 1] = m
    <2> HIDE DEF in, S
    <2> QED BY <1>1, AppendProperties DEF S
  <1>3. Len(in) \in Nat /\ (in # << >> => Len(in) # 0)
    <2> HIDE DEF in, S
    <2> QED BY <1>1, LenProperties, EmptySeq
  <1>4. r \in PipeType
    BY <1>1, <1>2 DEF PipeType, FilledEnd
  <1>5. /\ r.state = q.pipe[p].state /\ r.out = q.pipe[p].out
        /\ r.sink = q.pipe[p].sink /\ r.tid = q.pipe[p].tid /\ r.asleep = FALSE
        /\ r.in_active = q.pipe[p].in_active /\ r.delay = q.pipe[p].delay
        /\ r.in = Append(in, m)
    BY <1>1 DEF PipeType, FilledEnd
  <1>6. /\ q1.pipe = [q.pipe EXCEPT ![p] = r] /\ q1.sock = q.sock
        /\ q1.mbox = q.mbox /\ q1.endpoints = q.endpoints /\ q1.pending = q.pending
        /\ q1.ok = q.ok /\ q1 = [q EXCEPT !.pipe = [q.pipe EXCEPT ![p] = r]]
    BY DEF Library, PipeTable, PipeType, Filled, FilledEnd
  <1>7. q1 \in Library
    <2>1. [q.pipe EXCEPT ![p] = r] \in PipeTable
      BY <1>1, <1>4 DEF PipeTable
    <2> QED BY <1>6, <2>1 DEF Library
  <1>8. ToSet(Append(in, m)) = ToSet(in) \cup {m}
    <2> HIDE DEF in
    <2>1. ToSet(in) = {in[i] : i \in 1 .. Len(in)}
      BY <1>1, LenProperties DEF ToSet
    <2>2. ToSet(Append(in, m)) = {Append(in, m)[i] : i \in 1 .. Len(in) + 1}
      BY <1>2, LenProperties DEF ToSet
    <2>3. \A i : i \in 1 .. Len(in) + 1 <=> i \in 1 .. Len(in) \/ i = Len(in) + 1
      BY <1>3
    <2> QED BY <2>1, <2>2, <2>3, <1>2
  <1>9. Append(in, m) # << >> /\ (in # << >> => Head(Append(in, m)) = Head(in))
    <2> HIDE DEF in, S
    <2>1. Append(in, m) # << >> /\ Head(Append(in, m)) = Append(in, m)[1]
      BY <1>2, <1>3, HeadTailProperties
    <2>2. in # << >> => Head(in) = in[1] /\ 1 \in 1 .. Len(in)
      BY <1>1, <1>3, HeadTailProperties
    <2> QED BY <2>1, <2>2, <1>2
  <1>10. /\ ToSet(r.in) = ToSet(in) \cup {m} /\ r.in # << >>
         /\ in # << >> => Head(r.in) = Head(in)
    BY <1>5, <1>8, <1>9
  <1> QED BY <1>4, <1>5, <1>6, <1>7, <1>10 DEF IsFilled

\* What a step of the library comes to that changes no socket.
After(q, q1, sock, s, h, pend, found, X) ==
    Good(q1, sock, s, h, pend, found, X) /\ Kept(q, q1) /\ q1.sock = q.sock

Written(q, q1, e, m) ==
    /\ ~q.pipe[Peer(e)].asleep => q1.mbox = q.mbox
    /\ \A f \in Ends \ {Peer(e)} : q1.pipe[f] = q.pipe[f]
    /\ q1.pipe[Peer(e)] = FilledEnd(q, Peer(e), m)

\* pipe_t::write and flush keep the invariant.
LEMMA WriteGood ==
    ASSUME NEW q, NEW sock, NEW s \in Sockets, NEW h \in Seq(Commands), NEW pend, NEW found, NEW X,
           Good(q, sock, s, h, pend, found, X),
           NEW e \in Ends, NEW m \in {"id", "msg", "delimiter"},
           q.pipe[e].state \notin Acked \cup {"none"},
           m = "delimiter" => q.pipe[e].state # "active",
           m = "msg" => q.pipe[e].state = "active",
           Peer(e) \in X => /\ q.pipe[Peer(e)].in_active /\ ~q.pipe[Peer(e)].asleep
                            /\ q.pipe[Peer(e)].delay /\ Peer(e)[1] \notin pend
    PROVE  /\ After(q, Write(q, e, m), sock, s, h, pend, found, X)
           /\ Written(q, Write(q, e, m), e, m)
PROOF
  <1> DEFINE p == Peer(e)
             q1 == Filled(q, p, m)
             r == FilledEnd(q, p, m)
             mb == Virtual(q.mbox, s, h)
  <1>0. q \in Library /\ q.ok /\ Holds(q.pipe, sock, q.endpoints, mb, pend, found, X)
        /\ p \in Ends /\ p # e /\ Peer(p) = e
    BY EndFacts DEF Good
  <1> HIDE DEF mb, p, Holds
  <1>1.       /\ r \in PipeType
              /\ q1 \in Library /\ q1.pipe = [q.pipe EXCEPT ![p] = r] /\ q1.sock = q.sock
              /\ q1.mbox = q.mbox /\ q1.endpoints = q.endpoints /\ q1.pending = q.pending
              /\ q1.ok = q.ok
              /\ r.state = q.pipe[p].state /\ r.out = q.pipe[p].out
              /\ r.sink = q.pipe[p].sink /\ r.tid = q.pipe[p].tid /\ r.asleep = FALSE
              /\ r.in_active = q.pipe[p].in_active /\ r.delay = q.pipe[p].delay
              /\ r.in = Append(q.pipe[p].in, m)
              /\ ToSet(r.in) = ToSet(q.pipe[p].in) \cup {m}
              /\ r.in # << >>
              /\ q.pipe[p].in # << >> => Head(r.in) = Head(q.pipe[p].in)
    <2>1. q1 = Filled(q, p, m) /\ r = FilledEnd(q, p, m) /\ q \in Library /\ p \in Ends
      BY <1>0
    <2> HIDE DEF q1, r
    <2>2. IsFilled(q, p, m, q1, r)
      BY ONLY <2>1, m \in {"id", "msg", "delimiter"}, AppendInput
    <2> QED BY ONLY <2>2 DEF IsFilled
  <1> HIDE DEF q1, r
  <1>2. /\ q1.pipe[p] = r /\ q1.pipe[e] = q.pipe[e]
        /\ \A f \in Ends \ {p} : q1.pipe[f] = q.pipe[f]
    BY <1>0, <1>1, LibraryTypes DEF PipeTable
  <1>3. p \notin X => Owner(q.pipe, mb, pend, p)
    BY <1>0 DEF Holds
  <1>4. r.asleep \/ ~r.in_active => r.sink # None
    BY <1>1, <1>3 DEF Owner, p
  <1>5. p[2] = "bind" /\ r.sink = None /\ r.state # "none" => r.delay
    BY <1>1, <1>3 DEF Owner, p
  <1>6. p[2] = "bind" /\ p[1] \in pend => r.in # << >> /\ Head(r.in) = "id"
    BY <1>1, <1>3 DEF Owner, p
  <1>7. Content(q1.pipe, sock, p)
    <2>1. Content(q.pipe, sock, p)
      BY <1>0 DEF Holds
    <2> QED BY <2>1, <1>0, <1>1, <1>2 DEF Content
  <1>8. Holds(q1.pipe, sock, q.endpoints, mb, pend, found, X)
    <2>1. /\ r \in PipeType /\ q1.pipe = [q.pipe EXCEPT ![p] = r]
          /\ r.state = q.pipe[p].state /\ r.out = q.pipe[p].out
          /\ r.sink = q.pipe[p].sink /\ r.tid = q.pipe[p].tid
      BY <1>1
    <2> HIDE <1>1
    <2>2. Holds([q.pipe EXCEPT ![p] = r], sock, q.endpoints, mb, pend, found, X)
      BY <2>1, <1>0, <1>4, <1>5, <1>6, <1>7, PipeQuiet
    <2> QED BY <2>1, <2>2
  <1>9. Kept(q, q1)
    BY <1>0, <1>1, PipeKept
  <1>10. CASE ~q.pipe[p].asleep
    <2>1. Write(q, e, m) = q1
      BY <1>10 DEF Write, Filled, p, q1
    <2> QED BY <2>1, <1>0, <1>1, <1>2, <1>8, <1>9, <1>10 DEF Good, mb, p, r, After, Written
  <1>11. CASE q.pipe[p].asleep
    <2> DEFINE t == q1.pipe[p].tid
               q2 == SendTo(q1, t, Wake(p))
    <2>1. Write(q, e, m) = q2
      BY <1>11 DEF Write, Tell, Wake, Filled, p, q1
    <2>2. t \in Sockets /\ Wake(p) \in Commands
      BY <1>0, <1>1, <1>2, LibraryTypes, CommandFacts
    <2>3. /\ q2 \in Library /\ q2.mbox = Put(q1.mbox, t, Wake(p)) /\ q2.pipe = q1.pipe
          /\ q2.sock = q1.sock /\ q2.endpoints = q1.endpoints /\ q2.pending = q1.pending
          /\ q2.ok = q1.ok /\ Virtual(q2.mbox, s, h) = Put(Virtual(q1.mbox, s, h), t, Wake(p))
      <3>1. q1 \in Library
        BY <1>1
      <3> HIDE DEF t
      <3> QED BY ONLY <3>1, <2>2, s \in Sockets, h \in Seq(Commands), SendFacts
    <2>4. /\ q1.pipe[p].sink # None /\ q1.pipe[p].state \notin {"none", "deleted"}
          /\ q1.pipe[Peer(p)].state \notin Acked
      <3>1. q.pipe[p].sink # None
        BY <1>3, <1>11 DEF Owner, p
      <3>2. q.pipe[p].state \notin {"none", "deleted"}
        <4>1. Handshake(q.pipe, mb, e) /\ Handshake(q.pipe, mb, p)
          BY <1>0 DEF Holds
        <4> QED BY <4>1, <1>0 DEF Handshake, p
      <3> QED BY <3>1, <3>2, <1>0, <1>1, <1>2
    <2> HIDE DEF q2, t
    <2>5. Holds(q1.pipe, sock, q.endpoints, Put(mb, q1.pipe[p].tid, Wake(p)), pend, found, X)
      BY <2>4, <1>0, <1>8, PutWake
    <2>6. Virtual(q2.mbox, s, h) = Put(mb, q1.pipe[p].tid, Wake(p))
      BY <2>3, <1>1 DEF mb, t
    <2>7. Good(q2, sock, s, h, pend, found, X)
      BY <2>3, <2>5, <2>6, <1>0, <1>1 DEF Good
    <2>8. Kept(q, q2)
      BY <2>3, <1>9 DEF Kept
    <2> QED BY <2>1, <2>3, <2>7, <2>8, <1>1, <1>2, <1>11 DEF p, r, After, Written
  <1> QED BY <1>10, <1>11
\* The record of one pipe end is replaced.
WithEnd(q, e, r) == [q EXCEPT !.pipe = [q.pipe EXCEPT ![e] = r]]

InState(p, x) == [p EXCEPT !.state = x]
Released(p, x) == [p EXCEPT !.state = x, !.out = FALSE]
Delayed(p, d) == [p EXCEPT !.delay = d]
Emptied(p) == [p EXCEPT !.in = << >>]
Lulled(p) == [p EXCEPT !.in_active = FALSE, !.asleep = TRUE]
Roused(p) == [p EXCEPT !.in_active = TRUE]
Ended(p) == [p EXCEPT !.state = "deleted", !.in = << >>, !.out = FALSE]

\* q1 is q with r for the record of end e.
IsWith(q, e, r, q1) ==
    /\ q1 \in Library /\ q1.pipe = [q.pipe EXCEPT ![e] = r]
    /\ q1.sock = q.sock /\ q1.mbox = q.mbox /\ q1.endpoints = q.endpoints
    /\ q1.pending = q.pending /\ q1.ok = q.ok
    /\ q1.pipe[e] = r /\ \A f \in Ends : f # e => q1.pipe[f] = q.pipe[f]
    /\ (r.state = "none" <=> q.pipe[e].state = "none") => Kept(q, q1)

\* Replacing an end by another value.
LEMMA WithEndFacts ==
    ASSUME NEW q \in Library, NEW e \in Ends, NEW r \in PipeType
    PROVE  IsWith(q, e, r, WithEnd(q, e, r))
PROOF
  <1>1. q.pipe \in PipeTable
    BY LibraryTypes
  <1>2. [q.pipe EXCEPT ![e] = r] \in PipeTable
    BY <1>1 DEF PipeTable
  <1>3. /\ WithEnd(q, e, r) \in Library
        /\ WithEnd(q, e, r).pipe = [q.pipe EXCEPT ![e] = r]
        /\ WithEnd(q, e, r).sock = q.sock /\ WithEnd(q, e, r).mbox = q.mbox
        /\ WithEnd(q, e, r).endpoints = q.endpoints
        /\ WithEnd(q, e, r).pending = q.pending /\ WithEnd(q, e, r).ok = q.ok
    BY <1>2 DEF WithEnd, Library
  <1>4. /\ WithEnd(q, e, r).pipe[e] = r
        /\ \A f \in Ends : f # e => WithEnd(q, e, r).pipe[f] = q.pipe[f]
    BY <1>1, <1>3 DEF PipeTable
  <1>5. (r.state = "none" <=> q.pipe[e].state = "none") => Kept(q, WithEnd(q, e, r))
    BY <1>3, <1>4 DEF Kept
  <1> QED BY <1>3, <1>4, <1>5 DEF IsWith

\* The values that the operations give to an end are well typed.
LEMMA EndTypes ==
    ASSUME NEW p \in PipeType
    PROVE  /\ \A x \in PipeStates : /\ InState(p, x) \in PipeType /\ Released(p, x) \in PipeType
                                    /\ InState(p, x).state = x /\ Released(p, x).state = x
           /\ \A d \in BOOLEAN : Delayed(p, d) \in PipeType
           /\ Emptied(p) \in PipeType /\ Lulled(p) \in PipeType /\ Roused(p) \in PipeType
           /\ Ended(p) \in PipeType
PROOF
  <1>1. << >> \in Seq({"id", "msg", "delimiter"})
    OBVIOUS
  <1>2. \A x \in PipeStates : /\ InState(p, x) \in PipeType /\ Released(p, x) \in PipeType
                              /\ InState(p, x).state = x /\ Released(p, x).state = x
    BY DEF PipeType, InState, Released
  <1>3. \A d \in BOOLEAN : Delayed(p, d) \in PipeType
    BY DEF PipeType, Delayed
  <1>4. Emptied(p) \in PipeType
    BY <1>1 DEF PipeType, Emptied
  <1>5. Lulled(p) \in PipeType
    BY DEF PipeType, Lulled
  <1>6. Roused(p) \in PipeType
    BY DEF PipeType, Roused
  <1>7. Ended(p) \in PipeType
    BY <1>1 DEF PipeType, PipeStates, Ended
  <1> QED BY <1>2, <1>3, <1>4, <1>5, <1>6, <1>7

\* The edits of the library's functions, in that form.
EditState(q, e, x) == [q EXCEPT !.pipe[e].state = x]
EditReleased(q, e, x) == [q EXCEPT !.pipe[e].state = x, !.pipe[e].out = FALSE]
EditDelay(q, e, d) == [q EXCEPT !.pipe[e].delay = d]
EditEmptied(q, e) == [q EXCEPT !.pipe[e].in = << >>]
EditLulled(q, e) == [q EXCEPT !.pipe[e].in_active = FALSE, !.pipe[e].asleep = TRUE]
EditRoused(q, e) == [q EXCEPT !.pipe[e].in_active = TRUE]
EditEnded(q, e) ==
    [q EXCEPT !.pipe[e].state = "deleted", !.pipe[e].in = << >>, !.pipe[e].out = FALSE]

\* The updates of the model, written as a replaced end.
LEMMA EndEdits ==
    ASSUME NEW q \in Library, NEW e \in Ends, NEW x, NEW d
    PROVE  /\ EditState(q, e, x) = WithEnd(q, e, InState(q.pipe[e], x))
           /\ EditReleased(q, e, x) = WithEnd(q, e, Released(q.pipe[e], x))
           /\ EditDelay(q, e, d) = WithEnd(q, e, Delayed(q.pipe[e], d))
           /\ EditEmptied(q, e) = WithEnd(q, e, Emptied(q.pipe[e]))
           /\ EditLulled(q, e) = WithEnd(q, e, Lulled(q.pipe[e]))
           /\ EditRoused(q, e) = WithEnd(q, e, Roused(q.pipe[e]))
           /\ EditEnded(q, e) = WithEnd(q, e, Ended(q.pipe[e]))
PROOF
  <1>0. q.pipe \in PipeTable /\ q.pipe[e] \in PipeType
    BY LibraryTypes
  <1>1. EditState(q, e, x) = WithEnd(q, e, InState(q.pipe[e], x))
    BY DEF WithEnd, InState, EditState
  <1>2. EditReleased(q, e, x) = WithEnd(q, e, Released(q.pipe[e], x))
    BY <1>0 DEF WithEnd, Released, EditReleased, Library, PipeTable, PipeType
  <1>3. EditDelay(q, e, d) = WithEnd(q, e, Delayed(q.pipe[e], d))
    BY DEF WithEnd, Delayed, EditDelay
  <1>4. EditEmptied(q, e) = WithEnd(q, e, Emptied(q.pipe[e]))
    BY DEF WithEnd, Emptied, EditEmptied
  <1>5. EditLulled(q, e) = WithEnd(q, e, Lulled(q.pipe[e]))
    BY <1>0 DEF WithEnd, Lulled, EditLulled, Library, PipeTable, PipeType
  <1>6. EditRoused(q, e) = WithEnd(q, e, Roused(q.pipe[e]))
    BY DEF WithEnd, Roused, EditRoused
  <1>7. EditEnded(q, e) = WithEnd(q, e, Ended(q.pipe[e]))
    BY <1>0 DEF WithEnd, Ended, EditEnded, Library, PipeTable, PipeType
  <1> QED BY <1>1, <1>2, <1>3, <1>4, <1>5, <1>6, <1>7

\* q1 is q with command m sent to socket t.
IsSent(q, t, m, s, h, q1) ==
    /\ q1 \in Library /\ q1.mbox = Put(q.mbox, t, m) /\ q1.pipe = q.pipe
    /\ q1.sock = q.sock /\ q1.endpoints = q.endpoints /\ q1.pending = q.pending
    /\ q1.ok = q.ok /\ Virtual(q1.mbox, s, h) = Put(Virtual(q.mbox, s, h), t, m)

\* send_command while the commands h of socket s are being handled.
LEMMA SendIs ==
    ASSUME NEW q \in Library, NEW t \in Sockets, NEW m \in Commands,
           NEW s \in Sockets, NEW h \in Seq(Commands)
    PROVE  IsSent(q, t, m, s, h, SendTo(q, t, m))
  BY SendFacts DEF IsSent

\* An end changes in what its peer does not see.
LEMMA QuietGood ==
    ASSUME NEW q, NEW sock, NEW s \in Sockets, NEW h \in Seq(Commands), NEW pend, NEW found, NEW X,
           Good(q, sock, s, h, pend, found, X),
           NEW e \in Ends, NEW r \in PipeType,
           r.state = q.pipe[e].state, r.out = q.pipe[e].out, r.sink = q.pipe[e].sink,
           r.tid = q.pipe[e].tid,
           r.asleep \/ ~r.in_active => r.sink # None,
           e[2] = "bind" /\ r.sink = None /\ r.state # "none" => r.delay,
           e[2] = "bind" /\ e[1] \in pend => r.in # << >> /\ Head(r.in) = "id",
           Content([q.pipe EXCEPT ![e] = r], sock, e)
    PROVE  Good(WithEnd(q, e, r), sock, s, h, pend, found, X) /\ Kept(q, WithEnd(q, e, r))
PROOF
  <1>0. q \in Library /\ q.ok
        /\ Holds(q.pipe, sock, q.endpoints, Virtual(q.mbox, s, h), pend, found, X)
    BY DEF Good
  <1>1. Holds([q.pipe EXCEPT ![e] = r], sock, q.endpoints, Virtual(q.mbox, s, h), pend, found, X)
    BY <1>0, PipeQuiet
  <1> HIDE DEF Holds, WithEnd
  <1> QED BY <1>0, <1>1, WithEndFacts DEF Good, IsWith

\* An end asks its peer to end the pipe.
LEMMA AskGood ==
    ASSUME NEW q, NEW sock, NEW s \in Sockets, NEW h \in Seq(Commands), NEW pend, NEW found, NEW X,
           Good(q, sock, s, h, pend, found, X),
           NEW e \in Ends, q.pipe[e].state \in {"active", "delimiter_received"},
           q.pipe[e].sink # None, NEW q1,
           q1 = Tell([q EXCEPT !.pipe[e].state = "term_req_sent1"], Peer(e), "pipe_term")
    PROVE  /\ Good(q1, sock, s, h, pend, found, X) /\ Kept(q, q1) /\ q1.sock = q.sock
           /\ q1.pipe = [q.pipe EXCEPT ![e] = InState(q.pipe[e], "term_req_sent1")]
PROOF
  <1> DEFINE r == InState(q.pipe[e], "term_req_sent1")
             p == Peer(e)
             qa == WithEnd(q, e, r)
             t == q.pipe[p].tid
             mb == Virtual(q.mbox, s, h)
  <1>0. /\ q \in Library /\ q.ok /\ q.pipe[e] \in PipeType /\ q.pipe \in PipeTable
        /\ Holds(q.pipe, sock, q.endpoints, mb, pend, found, X)
        /\ p \in Ends /\ p # e /\ t \in Sockets /\ Ask(p) \in Commands
    BY EndFacts, LibraryTypes, CommandFacts DEF Good
  <1>1. r \in PipeType /\ r.state = "term_req_sent1"
    BY <1>0, EndTypes DEF PipeStates
  <1>2. Holds([q.pipe EXCEPT ![e] = r], sock, q.endpoints, Put(mb, t, Ask(p)), pend, found, X)
    <2>1. r = [q.pipe[e] EXCEPT !.state = "term_req_sent1"]
      BY DEF InState
    <2> HIDE DEF r, Holds, mb
    <2> QED BY <2>1, <1>0, <1>1, AskStep
  <1> HIDE DEF r, Holds, mb
  <1>3. /\ qa \in Library /\ qa.pipe = [q.pipe EXCEPT ![e] = r] /\ qa.sock = q.sock
        /\ qa.mbox = q.mbox /\ qa.endpoints = q.endpoints /\ qa.pending = q.pending
        /\ qa.ok = q.ok /\ qa.pipe[p] = q.pipe[p] /\ Kept(q, qa)
    <2> HIDE DEF qa
    <2>1. IsWith(q, e, r, qa)
      BY <1>0, <1>1, WithEndFacts DEF qa
    <2> QED BY <2>1, <1>0, <1>1 DEF IsWith
  <1>4. q1 = SendTo(qa, t, Ask(p))
    <2>1. EditState(q, e, "term_req_sent1") = qa
      BY <1>0, EndEdits DEF r
    <2>2. q1 = Tell(EditState(q, e, "term_req_sent1"), p, "pipe_term")
      BY DEF EditState
    <2> HIDE DEF qa
    <2> QED BY <2>1, <2>2, <1>3 DEF Tell, Ask
  <1> HIDE DEF qa
  <1>5. /\ q1 \in Library /\ q1.pipe = qa.pipe /\ q1.sock = qa.sock
        /\ q1.endpoints = qa.endpoints /\ q1.pending = qa.pending /\ q1.ok = qa.ok
        /\ Virtual(q1.mbox, s, h) = Put(Virtual(qa.mbox, s, h), t, Ask(p))
    <2>1. IsSent(qa, t, Ask(p), s, h, q1)
      BY <1>0, <1>3, <1>4, SendIs
    <2> QED BY <2>1 DEF IsSent
  <1>6. Good(q1, sock, s, h, pend, found, X)
    BY <1>0, <1>2, <1>3, <1>5 DEF Good, mb
  <1>7. Kept(q, q1)
    BY <1>3, <1>5 DEF Kept
  <1> QED BY <1>3, <1>5, <1>6, <1>7 DEF r

ContentWith(q, sock, e, r) == Content([q.pipe EXCEPT ![e] = r], sock, e)
PipeIs(q, q1, e, r) == q1.pipe = [q.pipe EXCEPT ![e] = r]

\* The mailboxes were mb, and the request for e, if there was one, is taken out.
LEMMA AckGood ==
    ASSUME NEW q \in Library, q.ok, NEW sock, NEW s \in Sockets, NEW h \in Seq(Commands),
           NEW pend, NEW found, NEW X, NEW mb,
           Holds(q.pipe, sock, q.endpoints, mb, pend, found, X),
           NEW e \in Ends, NEW x \in {"term_ack_sent", "term_req_sent2"},
           SameBut(mb, Virtual(q.mbox, s, h), {Ask(e)}), ~Sent(Virtual(q.mbox, s, h), Ask(e)),
           q.pipe[e].sink # None,
           \/ x = "term_ack_sent" /\ q.pipe[e].state = "waiting_for_delimiter"
           \/ x = "term_ack_sent" /\ q.pipe[e].state \in {"active", "delimiter_received"}
              /\ Sent(mb, Ask(e))
           \/ x = "term_req_sent2" /\ q.pipe[e].state = "term_req_sent1" /\ Sent(mb, Ask(e)),
           \A u \in Sockets : At(mb, u, Ask(Peer(e))) => u = q.pipe[Peer(e)].tid,
           ContentWith(q, sock, e, Released(q.pipe[e], x))
    PROVE  /\ After(q, Acknowledge(q, e, x), sock, s, h, pend, found, X)
           /\ PipeIs(q, Acknowledge(q, e, x), e, Released(q.pipe[e], x))
PROOF
  <1> DEFINE r == Released(q.pipe[e], x)
             p == Peer(e)
             qa == WithEnd(q, e, r)
             t == q.pipe[p].tid
             md == Virtual(q.mbox, s, h)
             q1 == Acknowledge(q, e, x)
  <1>0. /\ q.pipe[e] \in PipeType /\ q.pipe \in PipeTable
        /\ p \in Ends /\ p # e /\ t \in Sockets /\ Ack(p) \in Commands
    BY EndFacts, LibraryTypes, CommandFacts
  <1>1. r \in PipeType /\ r.state = x
    BY <1>0, EndTypes DEF PipeStates
  <1>2. Holds([q.pipe EXCEPT ![e] = r], sock, q.endpoints, Put(md, t, Ack(p)), pend, found, X)
    <2>1. r = [q.pipe[e] EXCEPT !.state = x, !.out = FALSE]
      BY DEF Released
    <2>2. Content([q.pipe EXCEPT ![e] = r], sock, e)
      BY DEF ContentWith
    <2> HIDE DEF r, Holds, md, SameBut, Content
    <2>3. SameBut(mb, md, {Ask(e)}) /\ ~Sent(md, Ask(e))
      BY DEF md
    <2> QED BY <2>1, <2>2, <2>3, <1>0, <1>1, AckStep
  <1> HIDE DEF r, Holds, md
  <1>3. /\ qa \in Library /\ qa.pipe = [q.pipe EXCEPT ![e] = r] /\ qa.sock = q.sock
        /\ qa.mbox = q.mbox /\ qa.endpoints = q.endpoints /\ qa.pending = q.pending
        /\ qa.ok = q.ok /\ qa.pipe[p] = q.pipe[p]
    <2> HIDE DEF qa
    <2>1. IsWith(q, e, r, qa)
      BY <1>0, <1>1, WithEndFacts DEF qa
    <2> QED BY <2>1, <1>0, <1>1 DEF IsWith
  <1>k. Kept(q, qa)
    <2>1. q.pipe[e].state # "none" /\ r.state # "none"
      BY <1>1
    <2> HIDE DEF qa
    <2>2. IsWith(q, e, r, qa)
      BY <1>0, <1>1, WithEndFacts DEF qa
    <2> QED BY <2>1, <2>2 DEF IsWith
  <1>4. q1 = SendTo(qa, t, Ack(p))
    <2>1. EditReleased(q, e, x) = qa
      BY <1>0, EndEdits DEF r
    <2>2. q1 = Tell(EditReleased(q, e, x), p, "pipe_term_ack")
      BY DEF EditReleased, Acknowledge
    <2> HIDE DEF qa, q1
    <2> QED BY <2>1, <2>2, <1>3 DEF Tell, Ack
  <1> HIDE DEF qa, q1
  <1>5. /\ q1 \in Library /\ q1.pipe = qa.pipe /\ q1.sock = qa.sock
        /\ q1.endpoints = qa.endpoints /\ q1.pending = qa.pending /\ q1.ok = qa.ok
        /\ Virtual(q1.mbox, s, h) = Put(Virtual(qa.mbox, s, h), t, Ack(p))
    <2>1. IsSent(qa, t, Ack(p), s, h, q1)
      BY <1>0, <1>3, <1>4, SendIs
    <2> QED BY <2>1 DEF IsSent
  <1>6. Good(q1, sock, s, h, pend, found, X)
    BY <1>0, <1>2, <1>3, <1>5 DEF Good, md
  <1>7. Kept(q, q1)
    BY <1>3, <1>5, <1>k DEF Kept
  <1> QED BY <1>3, <1>5, <1>6, <1>7 DEF r, q1, After, PipeIs

\* pipe_t::terminate, with what it may do to the library as parameters.
Delimited(qq, e) == IF qq.pipe[e].out THEN Write(qq, e, "delimiter") ELSE qq

TerminateBy(state, delay, idle, asked, agreed, wrote, failed) ==
    CASE state \in {"active", "delimiter_received"} -> asked
      [] state = "waiting_for_delimiter" /\ ~delay -> agreed
      [] state = "waiting_for_delimiter" /\ delay -> wrote
      [] state \in {"term_req_sent1", "term_req_sent2", "term_ack_sent"} -> idle
      [] OTHER -> failed

\* Terminate is that case distinction.
LEMMA TerminateIs ==
    ASSUME NEW q, NEW e, NEW delay
    PROVE  Terminate(q, e, delay) =
              TerminateBy(q.pipe[e].state, delay, EditDelay(q, e, delay),
                 Delimited(Tell(EditState(EditDelay(q, e, delay), e, "term_req_sent1"),
                                Peer(e), "pipe_term"), e),
                 Acknowledge(EditDelay(q, e, delay), e, "term_ack_sent"),
                 Delimited(EditDelay(q, e, delay), e), Require(EditDelay(q, e, delay), FALSE))
  BY ZenonT(60) DEF Terminate, TerminateBy, EditDelay, EditState, Delimited

\* pipe_t::terminate of an end that is attached to a socket
LEMMA TerminateGood ==
    ASSUME NEW q, NEW sock, NEW s \in Sockets, NEW h \in Seq(Commands), NEW pend, NEW found,
           Good(q, sock, s, h, pend, found, {}),
           NEW e \in Ends, NEW delay \in BOOLEAN,
           q.pipe[e].sink # None, q.pipe[e].state # "deleted",
           e[2] = "bind" /\ q.pipe[e].sink \notin Pairs
             /\ sock[q.pipe[e].sink].stage \in {"none", "open"} => delay
    PROVE  After(q, Terminate(q, e, delay), sock, s, h, pend, found, {})
PROOF
  <1> DEFINE r == Delayed(q.pipe[e], delay)
             q1 == WithEnd(q, e, r)
             mb == Virtual(q.mbox, s, h)
             p == Peer(e)
             x == q.pipe[e].state
  <1>0. /\ q \in Library /\ q.ok /\ q.pipe[e] \in PipeType /\ q.pipe \in PipeTable
        /\ Holds(q.pipe, sock, q.endpoints, mb, pend, found, {})
        /\ p \in Ends /\ p # e /\ Peer(p) = e
    BY EndFacts, LibraryTypes DEF Good
  <1> HIDE DEF mb, p, Holds
  <1>1. /\ Handshake(q.pipe, mb, e) /\ Handshake(q.pipe, mb, p) /\ Owner(q.pipe, mb, pend, e)
        /\ Content(q.pipe, sock, e)
    BY <1>0 DEF Holds
  <1>2. x # "none" /\ x \in PipeStates
    BY <1>0, <1>1 DEF Owner, PipeType
  <1>3. /\ r \in PipeType /\ r.state = x /\ r.out = q.pipe[e].out /\ r.sink = q.pipe[e].sink
        /\ r.tid = q.pipe[e].tid /\ r.asleep = q.pipe[e].asleep
        /\ r.in_active = q.pipe[e].in_active /\ r.in = q.pipe[e].in /\ r.delay = delay
    BY <1>0 DEF Delayed, PipeType
  <1> HIDE DEF r
  <1>4. IsWith(q, e, r, q1)
    BY <1>0, <1>3, WithEndFacts
  <1>5. q1 \in Library /\ q1.pipe[e] = r /\ q1.pipe[p] = q.pipe[p] /\ q1.sock = q.sock
        /\ q1.mbox = q.mbox /\ q1.ok = q.ok /\ q1.pipe = [q.pipe EXCEPT ![e] = r]
    BY <1>0, <1>4 DEF IsWith
  <1>6. Good(q1, sock, s, h, pend, found, {}) /\ Kept(q, q1)
    <2>1. Content([q.pipe EXCEPT ![e] = r], sock, e)
      <3> DEFINE pp == [q.pipe EXCEPT ![e] = r]
      <3>1. pp[e] = r /\ pp[Peer(e)] = q.pipe[p]
        BY <1>0 DEF PipeTable, p
      <3> HIDE DEF pp
      <3>2. Content(pp, sock, e)
        BY <3>1, <1>1, <1>3 DEF Content, p
      <3> QED BY <3>2 DEF pp
    <2>2. e[2] = "bind" /\ e[1] \in pend => FALSE
      BY <1>1 DEF Owner
    <2> QED BY <2>1, <2>2, <1>0, <1>1, <1>3, QuietGood
  <1> HIDE DEF q1
  <1>7. EditDelay(q, e, delay) = q1
    BY <1>0, EndEdits DEF q1, r
  <1>7a. LET result == Terminate(q, e, delay)
         IN  /\ x \in {"active", "delimiter_received"} =>
                   result = Delimited(Tell(EditState(q1, e, "term_req_sent1"), Peer(e), "pipe_term"), e)
             /\ x = "waiting_for_delimiter" /\ ~delay => result = Acknowledge(q1, e, "term_ack_sent")
             /\ x = "waiting_for_delimiter" /\ delay => result = Delimited(q1, e)
             /\ x \in {"term_req_sent1", "term_req_sent2", "term_ack_sent"} => result = q1
    <2> DEFINE result == Terminate(q, e, delay)
    <2>1. result = TerminateBy(x, delay, q1,
                      Delimited(Tell(EditState(q1, e, "term_req_sent1"), Peer(e), "pipe_term"), e),
                      Acknowledge(q1, e, "term_ack_sent"), Delimited(q1, e), Require(q1, FALSE))
      BY <1>7, TerminateIs
    <2> HIDE DEF result, x
    <2>2. /\ x \in {"active", "delimiter_received"} =>
                result = Delimited(Tell(EditState(q1, e, "term_req_sent1"), Peer(e), "pipe_term"), e)
          /\ x = "waiting_for_delimiter" /\ ~delay => result = Acknowledge(q1, e, "term_ack_sent")
          /\ x = "waiting_for_delimiter" /\ delay => result = Delimited(q1, e)
          /\ x \in {"term_req_sent1", "term_req_sent2", "term_ack_sent"} => result = q1
      BY ONLY delay \in BOOLEAN, <2>1 DEF TerminateBy
    <2> QED BY <2>2 DEF result
  <1>8. ASSUME NEW qq, Good(qq, sock, s, h, pend, found, {}), Kept(q, qq), qq.sock = q.sock,
               qq.pipe[e].state \in {"term_req_sent1", "waiting_for_delimiter"}
        PROVE  /\ Good(Delimited(qq, e), sock, s, h, pend, found, {})
               /\ Kept(q, Delimited(qq, e)) /\ Delimited(qq, e).sock = q.sock
    <2>1. CASE ~qq.pipe[e].out
      BY <2>1, <1>8 DEF Delimited
    <2>2. CASE qq.pipe[e].out
      <3> DEFINE q4 == Write(qq, e, "delimiter")
      <3>1. /\ Good(q4, sock, s, h, pend, found, {}) /\ Kept(qq, q4) /\ q4.sock = qq.sock
        <4>1. /\ qq.pipe[e].state \notin Acked \cup {"none"} /\ qq.pipe[e].state # "active"
          BY <1>8 DEF Acked
        <4>2. "delimiter" \in {"id", "msg", "delimiter"} /\ "delimiter" # "msg" /\ Peer(e) \notin {}
          OBVIOUS
        <4>3. Good(qq, sock, s, h, pend, found, {})
          BY <1>8
        <4> QED BY ONLY <4>1, <4>2, <4>3, s \in Sockets, h \in Seq(Commands), e \in Ends, WriteGood,
                   SMTT(30) DEF q4, After
      <3> HIDE DEF q4
      <3>2. Kept(q, q4)
        BY <3>1, <1>8, KeptTrans
      <3> QED BY <3>1, <3>2, <2>2, <1>8 DEF q4, Delimited
    <2> QED BY <2>1, <2>2
  <1>9. CASE x \in {"active", "delimiter_received"}
    <2> DEFINE q2 == Tell([q1 EXCEPT !.pipe[e].state = "term_req_sent1"], Peer(e), "pipe_term")
    <2>1. Terminate(q, e, delay) = Delimited(q2, e)
      BY <1>7a, <1>9 DEF EditState
    <2>2. /\ Good(q2, sock, s, h, pend, found, {}) /\ Kept(q1, q2) /\ q2.sock = q1.sock
          /\ q2.pipe = [q1.pipe EXCEPT ![e] = InState(q1.pipe[e], "term_req_sent1")]
      <3>1. q1.pipe[e].state \in {"active", "delimiter_received"} /\ q1.pipe[e].sink # None
        BY <1>3, <1>5, <1>9
      <3>2. \E qq : qq = q2
        OBVIOUS
      <3>3. PICK qq : qq = q2
        BY <3>2
      <3>4. qq = Tell([q1 EXCEPT !.pipe[e].state = "term_req_sent1"], Peer(e), "pipe_term")
        BY <3>3
      <3>5. /\ Good(qq, sock, s, h, pend, found, {}) /\ Kept(q1, qq) /\ qq.sock = q1.sock
            /\ qq.pipe = [q1.pipe EXCEPT ![e] = InState(q1.pipe[e], "term_req_sent1")]
        <4> HIDE DEF q2
        <4> QED BY ONLY <3>1, <3>4, <1>6, s \in Sockets, h \in Seq(Commands), e \in Ends, AskGood,
                   SMTT(30)
      <3> QED BY <3>3, <3>5
    <2> HIDE DEF q2
    <2>3. q2.pipe[e].state = "term_req_sent1"
      <3>1. q1.pipe \in PipeTable /\ q1.pipe[e] \in PipeType
        BY <1>5, LibraryTypes
      <3>2. q2.pipe[e] = InState(q1.pipe[e], "term_req_sent1")
        BY <2>2, <3>1 DEF PipeTable
      <3> QED BY <3>1, <3>2, EndTypes DEF PipeStates
    <2>4. Kept(q, q2)
      BY <2>2, <1>6, KeptTrans
    <2> QED BY <2>1, <2>2, <2>3, <2>4, <1>5, <1>8 DEF After
  <1>10. CASE x = "waiting_for_delimiter" /\ ~delay
    <2> DEFINE q2 == Acknowledge(q1, e, "term_ack_sent")
    <2>1. Terminate(q, e, delay) = q2
      BY <1>7a, <1>10
    <2>2. /\ Good(q2, sock, s, h, pend, found, {}) /\ Kept(q1, q2) /\ q2.sock = q1.sock
      <3>1. /\ ~Sent(mb, Ask(e)) /\ ~Sent(mb, Ask(p)) /\ Virtual(q1.mbox, s, h) = mb
            /\ q.pipe[p].state = "term_req_sent1"
        BY <1>0, <1>1, <1>5, <1>10 DEF Handshake, Asking, p, mb
      <3>2. /\ Holds(q1.pipe, sock, q1.endpoints, mb, pend, found, {})
            /\ mb \in Boxes
        BY <1>6, <3>1 DEF Good, Holds
      <3>3. SameBut(mb, mb, {Ask(e)})
        BY <3>2, SameButItself
      <3>4. \A u \in Sockets : ~At(mb, u, Ask(Peer(e)))
        BY <3>1 DEF Sent, p
      <3>5. ContentWith(q1, sock, e, Released(q1.pipe[e], "term_ack_sent"))
        <4> DEFINE rr == Released(q1.pipe[e], "term_ack_sent")
                   pp == [q1.pipe EXCEPT ![e] = rr]
        <4>1. rr.sink = r.sink
          BY <1>3, <1>5 DEF Released, PipeType
        <4>2. pp[e] = rr /\ pp[Peer(e)] = q.pipe[p]
          BY <1>0, <1>5, LibraryTypes DEF PipeTable, p
        <4> HIDE DEF pp, rr
        <4>3. Content(pp, sock, e)
          BY <4>1, <4>2, <3>1, <1>3, <1>10 DEF Content
        <4> QED BY <4>3 DEF pp, rr, ContentWith
      <3>6. q1.pipe[e].sink # None /\ q1.pipe[e].state = "waiting_for_delimiter"
        BY <1>3, <1>5, <1>10
      <3> HIDE DEF q2
      <3>7. "term_ack_sent" \in {"term_ack_sent", "term_req_sent2"} /\ q1 \in Library /\ q1.ok
        BY <1>0, <1>5
      <3> QED BY <3>1, <3>2, <3>3, <3>4, <3>5, <3>6, <3>7, AckGood DEF q2, After
    <2> HIDE DEF q2
    <2>4. Kept(q, q2)
      BY <2>2, <1>6, KeptTrans
    <2> QED BY <2>1, <2>2, <2>4, <1>5 DEF After
  <1>11. CASE x = "waiting_for_delimiter" /\ delay
    <2>1. Terminate(q, e, delay) = Delimited(q1, e)
      BY <1>7a, <1>11
    <2>2. q1.pipe[e].state \in {"term_req_sent1", "waiting_for_delimiter"}
      BY <1>3, <1>5, <1>11
    <2>3. q1.sock = q.sock
      BY <1>5
    <2>4. /\ Good(Delimited(q1, e), sock, s, h, pend, found, {})
          /\ Kept(q, Delimited(q1, e)) /\ Delimited(q1, e).sock = q.sock
      BY ONLY <2>2, <2>3, <1>6, <1>8
    <2> QED BY <2>1, <2>4 DEF After
  <1>12. CASE x \in {"term_req_sent1", "term_req_sent2", "term_ack_sent"}
    <2>1. Terminate(q, e, delay) = q1
      BY <1>7a, <1>12
    <2> QED BY <2>1, <1>5, <1>6 DEF After
  <1> QED BY <1>2, <1>9, <1>10, <1>11, <1>12 DEF PipeStates

\* pipe_t::read until there is nothing to read
LEMMA ReadGood ==
    ASSUME NEW q, NEW sock, NEW s \in Sockets, NEW h \in Seq(Commands), NEW pend, NEW found,
           Good(q, sock, s, h, pend, found, {}),
           NEW e \in Ends, q.pipe[e].sink # None,
           q.pipe[e].state \in {"active", "waiting_for_delimiter"}
    PROVE  After(q, ReadAll(q, e), sock, s, h, pend, found, {})
PROOF
  <1> DEFINE r == Emptied(q.pipe[e])
             q1 == WithEnd(q, e, r)
             mb == Virtual(q.mbox, s, h)
             p == Peer(e)
             x == q.pipe[e].state
  <1>0. /\ q \in Library /\ q.ok /\ q.pipe[e] \in PipeType /\ q.pipe \in PipeTable
        /\ Holds(q.pipe, sock, q.endpoints, mb, pend, found, {})
        /\ p \in Ends /\ p # e /\ Peer(p) = e
    BY EndFacts, LibraryTypes DEF Good
  <1> HIDE DEF mb, p, Holds
  <1>1. /\ Handshake(q.pipe, mb, e) /\ Handshake(q.pipe, mb, p) /\ Owner(q.pipe, mb, pend, e)
        /\ Content(q.pipe, sock, e)
    BY <1>0 DEF Holds
  <1>3. /\ r \in PipeType /\ r.state = x /\ r.out = q.pipe[e].out /\ r.sink = q.pipe[e].sink
        /\ r.tid = q.pipe[e].tid /\ r.asleep = q.pipe[e].asleep
        /\ r.in_active = q.pipe[e].in_active /\ r.delay = q.pipe[e].delay /\ r.in = << >>
    <2>1. r \in PipeType
      BY <1>0, EndTypes
    <2> QED BY <2>1, <1>0 DEF Emptied, PipeType
  <1> HIDE DEF r
  <1>4. IsWith(q, e, r, q1)
    BY <1>0, <1>3, WithEndFacts
  <1>5. q1 \in Library /\ q1.pipe[e] = r /\ q1.pipe[p] = q.pipe[p] /\ q1.sock = q.sock
        /\ q1.mbox = q.mbox /\ q1.ok = q.ok /\ q1.pipe = [q.pipe EXCEPT ![e] = r]
        /\ q1.pipe \in PipeTable
    BY <1>0, <1>4, LibraryTypes DEF IsWith
  <1>2. ToSet(r.in) = {}
    BY <1>3 DEF ToSet
  <1>6. ASSUME NEW rr \in PipeType, rr.in = << >>, rr.sink = r.sink, rr.delay = r.delay,
               rr.state \in {"term_ack_sent", "delimiter_received"} => q.pipe[p].state # "active",
               NEW qq, qq.pipe \in PipeTable, qq.pipe[p] = q.pipe[p]
        PROVE  Content([qq.pipe EXCEPT ![e] = rr], sock, e)
    <2> DEFINE pp == [qq.pipe EXCEPT ![e] = rr]
    <2>1. pp[e] = rr /\ pp[Peer(e)] = q.pipe[p]
      BY <1>6, <1>0 DEF PipeTable, p
    <2> HIDE DEF pp
    <2>2. ToSet(rr.in) = {}
      BY <1>6, <1>2, <1>3
    <2>3. Content(pp, sock, e)
      BY <2>1, <2>2, <1>1, <1>3, <1>6 DEF Content, p
    <2> QED BY <2>3 DEF pp
  <1>7. Good(q1, sock, s, h, pend, found, {}) /\ Kept(q, q1)
    <2>1. Content([q.pipe EXCEPT ![e] = r], sock, e)
      BY <1>0, <1>3, <1>6
    <2>2. e[2] = "bind" /\ e[1] \in pend => FALSE
      BY <1>1 DEF Owner
    <2> QED BY <2>1, <2>2, <1>0, <1>1, <1>3, QuietGood
  <1> HIDE DEF q1
  <1>8. EditEmptied(q, e) = q1
    BY <1>0, EndEdits DEF q1, r
  <1>9. CASE "delimiter" \notin ToSet(q.pipe[e].in)
    <2> DEFINE rr == Lulled(r)
               q2 == WithEnd(q1, e, rr)
    <2>1. ReadAll(q, e) = EditLulled(EditEmptied(q, e), e)
      BY <1>9 DEF ReadAll, EditLulled, EditEmptied
    <2>2. EditLulled(q1, e) = q2
      BY <1>5, EndEdits
    <2>3. /\ rr \in PipeType /\ rr.state = r.state /\ rr.out = r.out /\ rr.sink = r.sink
          /\ rr.tid = r.tid /\ rr.delay = r.delay /\ rr.in = << >>
      <3>1. rr \in PipeType
        BY <1>3, EndTypes
      <3> QED BY <3>1, <1>3 DEF Lulled, PipeType
    <2> HIDE DEF rr
    <2>4. Content([q1.pipe EXCEPT ![e] = rr], sock, e)
      BY <2>3, <1>3, <1>5, <1>6
    <2>5. Good(q2, sock, s, h, pend, found, {}) /\ Kept(q1, q2)
      <3>2. e[2] = "bind" /\ e[1] \in pend => FALSE
        BY <1>1 DEF Owner
      <3> QED BY <3>2, <2>3, <2>4, <1>3, <1>5, <1>7, QuietGood
    <2>6. IsWith(q1, e, rr, q2)
      BY <2>3, <1>5, WithEndFacts
    <2> HIDE DEF q2
    <2>7. Kept(q, q2)
      BY <2>5, <1>7, KeptTrans
    <2>8. q2.sock = q.sock
      BY <2>6, <1>5 DEF IsWith
    <2> QED BY <2>1, <2>2, <2>5, <2>7, <2>8, <1>8 DEF After
  <1>10. CASE "delimiter" \in ToSet(q.pipe[e].in)
    <2>1. ReadAll(q, e) = ProcessDelimiter(q1, e)
      <3>1. ReadAll(q, e) = ProcessDelimiter(EditEmptied(q, e), e)
        BY <1>10 DEF ReadAll, EditEmptied
      <3> QED BY <3>1, <1>8
    <2>2. q.pipe[p].state # "active" /\ q1.pipe[e].state = x /\ q1.pipe[e].sink # None
      BY <1>1, <1>3, <1>5, <1>10 DEF Content, p
    <2>3. Holds(q1.pipe, sock, q1.endpoints, mb, pend, found, {}) /\ Virtual(q1.mbox, s, h) = mb
      BY <1>5, <1>7 DEF Good, mb
    <2>4. CASE x = "active"
      <3> DEFINE rr == InState(r, "delimiter_received")
                 q2 == WithEnd(q1, e, rr)
      <3>1. ProcessDelimiter(q1, e) = EditState(q1, e, "delimiter_received")
        BY <2>2, <2>4 DEF ProcessDelimiter, EditState
      <3>2. EditState(q1, e, "delimiter_received") = q2
        <4>1. q1 \in Library /\ q1.pipe[e] = r
          BY <1>5
        <4> QED BY ONLY <4>1, e \in Ends, EndEdits DEF q2, rr
      <3>3. /\ rr \in PipeType /\ rr.state = "delimiter_received" /\ rr.sink = r.sink
            /\ rr.delay = r.delay /\ rr.in = << >>
        <4>1. rr \in PipeType /\ rr.state = "delimiter_received"
          BY <1>3, EndTypes DEF PipeStates
        <4> QED BY <4>1, <1>3 DEF InState, PipeType
      <3>4. rr = [q1.pipe[e] EXCEPT !.state = "delimiter_received"]
        BY <1>5 DEF InState
      <3> HIDE DEF rr
      <3>5. Content([q1.pipe EXCEPT ![e] = rr], sock, e)
        BY <2>2, <3>3, <1>5, <1>6
      <3>6. Holds([q1.pipe EXCEPT ![e] = rr], sock, q1.endpoints, mb, pend, found, {})
        <4>1. q1.pipe[e].state = "active" /\ q1.pipe[e].sink # None /\ rr \in PipeType
          BY <3>3, <2>2, <2>4
        <4> QED BY ONLY <4>1, <3>4, <3>5, <2>3, e \in Ends, DelimitStep
      <3>7. IsWith(q1, e, rr, q2)
        BY <3>3, <1>5, WithEndFacts
      <3> HIDE DEF q2
      <3>8. Good(q2, sock, s, h, pend, found, {}) /\ q2.sock = q.sock /\ Kept(q1, q2)
        BY <3>3, <3>6, <3>7, <2>2, <2>3, <2>4, <1>0, <1>5 DEF IsWith, Good
      <3>9. Kept(q, q2)
        BY <3>8, <1>7, KeptTrans
      <3> QED BY <3>1, <3>2, <3>8, <3>9, <2>1 DEF After
    <2>5. CASE x = "waiting_for_delimiter"
      <3> DEFINE q2 == Acknowledge(q1, e, "term_ack_sent")
      <3>1. ProcessDelimiter(q1, e) = q2
        BY <2>2, <2>5 DEF ProcessDelimiter
      <3>2. /\ ~Sent(mb, Ask(e)) /\ ~Sent(mb, Ask(p)) /\ mb \in Boxes
        BY <1>0, <1>1, <2>3, <2>5 DEF Handshake, Asking, p, Holds
      <3>3. SameBut(mb, mb, {Ask(e)})
        BY <3>2, SameButItself
      <3>4. \A u \in Sockets : ~At(mb, u, Ask(Peer(e)))
        BY <3>2 DEF Sent, p
      <3>5. ContentWith(q1, sock, e, Released(q1.pipe[e], "term_ack_sent"))
        <4> DEFINE rr == Released(q1.pipe[e], "term_ack_sent")
        <4>1. /\ rr \in PipeType /\ rr.sink = r.sink /\ rr.delay = r.delay /\ rr.in = << >>
          <5>1. rr \in PipeType
            BY <1>3, <1>5, EndTypes DEF PipeStates
          <5> QED BY <5>1, <1>3, <1>5 DEF Released, PipeType
        <4> HIDE DEF rr
        <4>2. Content([q1.pipe EXCEPT ![e] = rr], sock, e)
          BY <4>1, <2>2, <1>5, <1>6
        <4> QED BY <4>2 DEF rr, ContentWith
      <3> HIDE DEF q2
      <3>6. /\ Good(q2, sock, s, h, pend, found, {}) /\ Kept(q1, q2) /\ q2.sock = q1.sock
        <4>1. /\ q1 \in Library /\ q1.ok /\ Virtual(q1.mbox, s, h) = mb
              /\ q1.pipe[e].state = "waiting_for_delimiter" /\ q1.pipe[e].sink # None
          BY <2>2, <2>3, <2>5, <1>0, <1>5
        <4>2. "term_ack_sent" \in {"term_ack_sent", "term_req_sent2"}
          OBVIOUS
        <4>3. /\ Holds(q1.pipe, sock, q1.endpoints, mb, pend, found, {})
              /\ SameBut(mb, Virtual(q1.mbox, s, h), {Ask(e)})
              /\ ~Sent(Virtual(q1.mbox, s, h), Ask(e))
              /\ \A u \in Sockets : At(mb, u, Ask(Peer(e))) => u = q1.pipe[Peer(e)].tid
          BY <4>1, <3>2, <3>3, <3>4, <2>3
        <4> HIDE DEF x
        <4> QED BY ONLY <4>1, <4>2, <4>3, <3>5, e \in Ends, s \in Sockets, h \in Seq(Commands),
                        AckGood DEF q2, After
      <3>7. Kept(q, q2)
        BY <3>6, <1>7, KeptTrans
      <3> QED BY <3>1, <3>6, <3>7, <2>1, <1>5 DEF After
    <2> QED BY <2>4, <2>5
  <1> QED BY <1>9, <1>10

\* A command is taken out of the mailbox of s.
LEMMA HeadFacts ==
    ASSUME NEW q, NEW sock, NEW s \in Sockets, NEW h \in Seq(Commands), NEW pend, NEW found, NEW X,
           Good(q, sock, s, h, pend, found, X), h # << >>, NEW mb, NEW md,
           mb = Virtual(q.mbox, s, h), md = Virtual(q.mbox, s, Tail(h))
    PROVE  /\ q \in Library /\ q.ok /\ mb \in Boxes /\ md \in Boxes /\ md = Drop(mb, s)
           /\ Holds(q.pipe, sock, q.endpoints, mb, pend, found, X)
           /\ mb[s] # << >> /\ Head(mb[s]) = Head(h) /\ Head(h) \in Commands
           /\ At(mb, s, Head(h)) /\ Sent(mb, Head(h)) /\ Tail(h) \in Seq(Commands)
PROOF
  <1>1. /\ q \in Library /\ q.ok /\ q.mbox \in Boxes
        /\ Holds(q.pipe, sock, q.endpoints, mb, pend, found, X)
    BY LibraryTypes DEF Good
  <1>2. /\ mb \in Boxes /\ mb[s] # << >> /\ Head(mb[s]) = Head(h) /\ Head(h) \in Commands
        /\ md = Drop(mb, s) /\ Tail(h) \in Seq(Commands)
    BY <1>1, VirtualDrop
  <1>3. md \in Boxes
    BY <1>2, DropPlaces
  <1>4. At(mb, s, Head(h))
    BY <1>2, DropAt
  <1> QED BY <1>1, <1>2, <1>3, <1>4 DEF Sent

\* pipe_t::process_pipe_term
LEMMA PipeTermGood ==
    ASSUME NEW q, NEW sock, NEW s \in Sockets, NEW h \in Seq(Commands), NEW pend, NEW found,
           Good(q, sock, s, h, pend, found, {}), h # << >>, NEW e \in Ends, Head(h) = Ask(e)
    PROVE  After(q, ProcessPipeTerm(q, e), sock, s, Tail(h), pend, found, {})
PROOF
  <1> DEFINE mb == Virtual(q.mbox, s, h)
             md == Virtual(q.mbox, s, Tail(h))
             p == Peer(e)
             x == q.pipe[e].state
  <1>0. /\ q \in Library /\ q.ok /\ mb \in Boxes /\ md \in Boxes /\ md = Drop(mb, s)
        /\ Holds(q.pipe, sock, q.endpoints, mb, pend, found, {})
        /\ mb[s] # << >> /\ Head(mb[s]) = Ask(e) /\ Ask(e) \in Commands
        /\ Sent(mb, Ask(e)) /\ Tail(h) \in Seq(Commands)
    BY HeadFacts
  <1> HIDE DEF mb, md, Holds
  <1>1. /\ q.pipe[e] \in PipeType /\ q.pipe \in PipeTable
        /\ p \in Ends /\ p # e /\ Peer(p) = e /\ Ask(p) \in Commands
    BY <1>0, EndFacts, LibraryTypes, CommandFacts
  <1>2. /\ Handshake(q.pipe, mb, e) /\ Handshake(q.pipe, mb, p) /\ Owner(q.pipe, mb, pend, e)
        /\ Content(q.pipe, sock, e) /\ Order(q.pipe, mb, e) /\ Order(q.pipe, mb, p)
    BY <1>0, <1>1 DEF Holds
  <1>3. x \in {"active", "delimiter_received", "term_req_sent1"} /\ q.pipe[p].state \in Asking
    BY <1>0, <1>2 DEF Handshake, p
  <1>4. SameBut(mb, md, {Ask(e)}) /\ ~Sent(md, Ask(e))
    <2>1. Once(mb, Ask(e))
      BY <1>2 DEF Order
    <2>2. SameBut(mb, md, {Ask(e)})
      BY <1>0, DropFacts
    <2>3. ~Sent(md, Ask(e))
      BY <2>1, <1>0, DropOnce
    <2> QED BY <2>2, <2>3
  <1>5. \A u \in Sockets : At(mb, u, Ask(Peer(e))) => u = q.pipe[Peer(e)].tid
    <2> SUFFICES ASSUME NEW u \in Sockets, At(mb, u, Ask(p)), u # q.pipe[p].tid
                 PROVE  FALSE
      BY DEF p
    <2>1. Before(mb, Ask(p), Ask(e))
      BY <1>1, <1>2 DEF Order
    <2>2. ~Sent(mb, Ask(p))
      BY <2>1, <1>0, <1>1, DropBefore
    <2> QED BY <2>2 DEF Sent
  <1>6. (x = "active" /\ q.pipe[e].delay) \/ q.pipe[e].sink # None
    <2>1. e[2] \in {"connect", "bind"} /\ e[1] \in Sockets /\ None \notin Sockets
      BY EndFacts, ContextNoneAssumption
    <2>2. CASE e[2] = "connect"
      BY <2>1, <2>2, <1>2, <1>3 DEF Owner
    <2>3. CASE e[2] = "bind"
      BY <2>1, <2>3, <1>2, <1>3 DEF Owner
    <2> QED BY <2>1, <2>2, <2>3
  <1>7. CASE x = "active" /\ q.pipe[e].delay
    <2> DEFINE rr == InState(q.pipe[e], "waiting_for_delimiter")
               q2 == WithEnd(q, e, rr)
    <2>1. ProcessPipeTerm(q, e) = EditState(q, e, "waiting_for_delimiter")
      BY <1>7 DEF ProcessPipeTerm, EditState
    <2>2. EditState(q, e, "waiting_for_delimiter") = q2
      BY ONLY <1>0, e \in Ends, EndEdits DEF q2, rr
    <2>3. rr \in PipeType /\ rr.state = "waiting_for_delimiter"
      BY <1>1, EndTypes DEF PipeStates
    <2>4. rr = [q.pipe[e] EXCEPT !.state = "waiting_for_delimiter"]
      BY DEF InState
    <2> HIDE DEF rr
    <2>5. Holds([q.pipe EXCEPT ![e] = rr], sock, q.endpoints, md, pend, found, {})
      BY <2>3, <2>4, <1>0, <1>4, <1>7, WaitStep
    <2>6. IsWith(q, e, rr, q2)
      BY <2>3, <1>0, WithEndFacts
    <2> HIDE DEF q2
    <2>7. Good(q2, sock, s, Tail(h), pend, found, {}) /\ Kept(q, q2) /\ q2.sock = q.sock
      BY <2>3, <2>5, <2>6, <1>0, <1>7 DEF IsWith, Good, md
    <2> QED BY <2>1, <2>2, <2>7 DEF After
  <1>8. ASSUME NEW y \in {"term_ack_sent", "term_req_sent2"},
               ProcessPipeTerm(q, e) = Acknowledge(q, e, y), q.pipe[e].sink # None,
               \/ y = "term_ack_sent" /\ x = "active" /\ ~q.pipe[e].delay
               \/ y = "term_ack_sent" /\ x = "delimiter_received"
               \/ y = "term_req_sent2" /\ x = "term_req_sent1"
        PROVE  After(q, ProcessPipeTerm(q, e), sock, s, Tail(h), pend, found, {})
    <2>1. ContentWith(q, sock, e, Released(q.pipe[e], y))
      <3> DEFINE rr == Released(q.pipe[e], y)
                 pp == [q.pipe EXCEPT ![e] = rr]
      <3>1. /\ rr.sink = q.pipe[e].sink /\ rr.delay = q.pipe[e].delay /\ rr.in = q.pipe[e].in
            /\ rr.state = y
        BY <1>1 DEF Released, PipeType
      <3>2. pp[e] = rr /\ pp[Peer(e)] = q.pipe[p]
        BY <1>1 DEF PipeTable, p
      <3> HIDE DEF rr, pp
      <3>3. Content(pp, sock, e)
        BY <3>1, <3>2, <1>2, <1>8 DEF Content, p
      <3> QED BY <3>3 DEF rr, pp, ContentWith
    <2>2. /\ q \in Library /\ q.ok /\ Tail(h) \in Seq(Commands)
          /\ Holds(q.pipe, sock, q.endpoints, mb, pend, found, {})
          /\ SameBut(mb, Virtual(q.mbox, s, Tail(h)), {Ask(e)})
          /\ ~Sent(Virtual(q.mbox, s, Tail(h)), Ask(e))
          /\ \/ y = "term_ack_sent" /\ q.pipe[e].state = "waiting_for_delimiter"
             \/ y = "term_ack_sent" /\ q.pipe[e].state \in {"active", "delimiter_received"}
                /\ Sent(mb, Ask(e))
             \/ y = "term_req_sent2" /\ q.pipe[e].state = "term_req_sent1" /\ Sent(mb, Ask(e))
      BY <1>0, <1>4, <1>8 DEF md
    <2>3. After(q, Acknowledge(q, e, y), sock, s, Tail(h), pend, found, {})
      BY ONLY <2>1, <2>2, <1>5, <1>8, s \in Sockets, e \in Ends, AckGood
    <2> QED BY <2>3, <1>8
  <1>9. CASE x = "active" /\ ~q.pipe[e].delay
    BY <1>6, <1>8, <1>9 DEF ProcessPipeTerm
  <1>10. CASE x = "delimiter_received"
    BY <1>6, <1>8, <1>10 DEF ProcessPipeTerm
  <1>11. CASE x = "term_req_sent1"
    BY <1>6, <1>8, <1>11 DEF ProcessPipeTerm
  <1> QED BY <1>3, <1>7, <1>9, <1>10, <1>11

\* The record of one socket is replaced.
WithSock(q, s, w) == [q EXCEPT !.sock = [q.sock EXCEPT ![s] = w]]

IsWithSock(q, s, w, q1) ==
    /\ q1 \in Library /\ q1.sock = [q.sock EXCEPT ![s] = w]
    /\ q1.pipe = q.pipe /\ q1.mbox = q.mbox /\ q1.endpoints = q.endpoints
    /\ q1.pending = q.pending /\ q1.ok = q.ok
    /\ q1.sock[s] = w /\ \A u \in Sockets : u # s => q1.sock[u] = q.sock[u]
    /\ w.stage = q.sock[s].stage /\ w.sent = q.sock[s].sent => Kept(q, q1)

\* Replacing a socket by another value.
LEMMA WithSockFacts ==
    ASSUME NEW q \in Library, NEW s \in Sockets, NEW w \in SocketType
    PROVE  IsWithSock(q, s, w, WithSock(q, s, w))
PROOF
  <1> DEFINE q1 == WithSock(q, s, w)
  <1>1. q.sock \in SocketTable
    BY LibraryTypes
  <1>2. [q.sock EXCEPT ![s] = w] \in SocketTable
    BY <1>1 DEF SocketTable
  <1>3. /\ q1 \in Library /\ q1.sock = [q.sock EXCEPT ![s] = w]
        /\ q1.pipe = q.pipe /\ q1.mbox = q.mbox /\ q1.endpoints = q.endpoints
        /\ q1.pending = q.pending /\ q1.ok = q.ok
    BY <1>2 DEF WithSock, Library
  <1>4. q1.sock[s] = w /\ \A u \in Sockets : u # s => q1.sock[u] = q.sock[u]
    BY <1>1, <1>3 DEF SocketTable
  <1> HIDE DEF q1
  <1>5. w.stage = q.sock[s].stage /\ w.sent = q.sock[s].sent => Kept(q, q1)
    BY <1>3, <1>4 DEF Kept
  <1> QED BY <1>3, <1>4, <1>5 DEF IsWithSock, q1

\* The later of two replacements counts.
LEMMA WithSockTwice ==
    ASSUME NEW q \in Library, NEW s \in Sockets, NEW w \in SocketType, NEW v
    PROVE  /\ WithSock(WithSock(q, s, w), s, v) = WithSock(q, s, v)
           /\ WithSock(q, s, q.sock[s]) = q
PROOF
  <1>1. q.sock \in SocketTable
    BY LibraryTypes
  <1>2. [[q.sock EXCEPT ![s] = w] EXCEPT ![s] = v] = [q.sock EXCEPT ![s] = v]
    BY <1>1 DEF SocketTable
  <1>3. WithSock(WithSock(q, s, w), s, v) = WithSock(q, s, v)
    BY <1>2 DEF WithSock, Library
  <1>4. [q.sock EXCEPT ![s] = q.sock[s]] = q.sock
    BY <1>1 DEF SocketTable
  <1>5. WithSock(q, s, q.sock[s]) = q
    BY <1>4 DEF WithSock, Library
  <1> QED BY <1>3, <1>5

Parted(w, e) == [w EXCEPT !.pipes = @ \ {e}, !.only = IF @ = e THEN None ELSE @]
Relieved(w) == [w EXCEPT !.term_acks = @ - 1]
Heard(w) == [w EXCEPT !.processed = @ + 1]
Counted1(w) == [w EXCEPT !.sent = @ + 1]
Told(w) == [w EXCEPT !.ctx_terminated = TRUE]
Doom(w) == [w EXCEPT !.destroyed = TRUE]
Ripe(w) == w.terminating /\ w.processed = w.sent /\ w.term_acks = 0
Checked(w) == IF Ripe(w) THEN Doom(w) ELSE w

\* The values that the operations give to a socket are well typed.
LEMMA SockTypes ==
    ASSUME NEW w \in SocketType
    PROVE  /\ \A e \in Ends : Parted(w, e) \in SocketType
           /\ w.term_acks # 0 => Relieved(w) \in SocketType
           /\ Heard(w) \in SocketType /\ Counted1(w) \in SocketType /\ Told(w) \in SocketType
           /\ Doom(w) \in SocketType /\ Checked(w) \in SocketType
PROOF
  <1>1. ASSUME NEW e \in Ends PROVE Parted(w, e) \in SocketType
    BY DEF SocketType, Parted
  <1>2. ASSUME w.term_acks # 0 PROVE Relieved(w) \in SocketType
    <2>1. w.term_acks - 1 \in Nat
      BY <1>2 DEF SocketType
    <2> QED BY <2>1 DEF SocketType, Relieved
  <1>3. Heard(w) \in SocketType
    BY DEF SocketType, Heard
  <1>4. Counted1(w) \in SocketType
    BY DEF SocketType, Counted1
  <1>5. Told(w) \in SocketType
    BY DEF SocketType, Told
  <1>6. Doom(w) \in SocketType
    BY DEF SocketType, Doom
  <1>7. Checked(w) \in SocketType
    BY <1>6 DEF Checked
  <1> QED BY <1>1, <1>2, <1>3, <1>4, <1>5, <1>6, <1>7

\* The fields of a checked record.
LEMMA CheckedFields ==
    ASSUME NEW w \in SocketType
    PROVE  /\ Checked(w).stage = w.stage /\ Checked(w).pipes = w.pipes /\ Checked(w).only = w.only
           /\ Checked(w).term_acks = w.term_acks /\ Checked(w).sent = w.sent
           /\ Checked(w).processed = w.processed /\ Checked(w).terminating = w.terminating
           /\ Checked(w).ctx_terminated = w.ctx_terminated
           /\ w.destroyed => Checked(w).destroyed
           /\ Checked(w).destroyed => w.destroyed \/ Ripe(w)
  BY DEF Checked, Doom, SocketType

EditParted(q, s, e) == [q EXCEPT !.sock[s].pipes = @ \ {e},
                                 !.sock[s].only = IF @ = e THEN None ELSE @]
EditRelieved(q, s) == [q EXCEPT !.sock[s].term_acks = @ - 1]
EditHeard(q, s) == [q EXCEPT !.sock[s].processed = @ + 1]
EditTold(q, s) == [q EXCEPT !.sock[s].ctx_terminated = TRUE]
EditDoom(q, s) == [q EXCEPT !.sock[s].destroyed = TRUE]

\* The updates of the model, written as a replaced socket.
LEMMA SockEdits ==
    ASSUME NEW q \in Library, NEW s \in Sockets, NEW e
    PROVE  /\ EditParted(q, s, e) = WithSock(q, s, Parted(q.sock[s], e))
           /\ EditRelieved(q, s) = WithSock(q, s, Relieved(q.sock[s]))
           /\ EditHeard(q, s) = WithSock(q, s, Heard(q.sock[s]))
           /\ IncSeqnum(q, s) = WithSock(q, s, Counted1(q.sock[s]))
           /\ EditTold(q, s) = WithSock(q, s, Told(q.sock[s]))
           /\ EditDoom(q, s) = WithSock(q, s, Doom(q.sock[s]))
           /\ CheckTermAcks(q, s) = WithSock(q, s, Checked(q.sock[s]))
PROOF
  <1>0. q.sock \in SocketTable /\ q.sock[s] \in SocketType
    BY LibraryTypes
  <1>1. EditParted(q, s, e) = WithSock(q, s, Parted(q.sock[s], e))
    BY <1>0 DEF WithSock, Parted, EditParted, Library, SocketTable, SocketType
  <1>2. EditRelieved(q, s) = WithSock(q, s, Relieved(q.sock[s]))
    BY DEF WithSock, Relieved, EditRelieved
  <1>3. EditHeard(q, s) = WithSock(q, s, Heard(q.sock[s]))
    BY DEF WithSock, Heard, EditHeard
  <1>4. IncSeqnum(q, s) = WithSock(q, s, Counted1(q.sock[s]))
    BY DEF WithSock, Counted1, IncSeqnum
  <1>5. EditTold(q, s) = WithSock(q, s, Told(q.sock[s]))
    BY DEF WithSock, Told, EditTold
  <1>6. EditDoom(q, s) = WithSock(q, s, Doom(q.sock[s]))
    BY DEF WithSock, Doom, EditDoom
  <1>7. CheckTermAcks(q, s) = WithSock(q, s, Checked(q.sock[s]))
    <2>1. CheckTermAcks(q, s) = IF Ripe(q.sock[s]) THEN EditDoom(q, s) ELSE q
      BY DEF CheckTermAcks, Ripe, EditDoom
    <2>2. WithSock(q, s, q.sock[s]) = q
      BY <1>0, WithSockTwice
    <2> QED BY <2>1, <2>2, <1>6 DEF Checked
  <1> QED BY <1>1, <1>2, <1>3, <1>4, <1>5, <1>6, <1>7

\* pipe_t::process_activate_read
LEMMA ActivateReadGood ==
    ASSUME NEW q, NEW sock, NEW s \in Sockets, NEW h \in Seq(Commands), NEW pend, NEW found,
           Good(q, sock, s, h, pend, found, {}), h # << >>, NEW e \in Ends, Head(h) = Wake(e)
    PROVE  After(q, ProcessActivateRead(q, e), sock, s, Tail(h), pend, found, {})
PROOF
  <1> DEFINE mb == Virtual(q.mbox, s, h)
             md == Virtual(q.mbox, s, Tail(h))
             r == Roused(q.pipe[e])
             q1 == WithEnd(q, e, r)
  <1>0. /\ q \in Library /\ q.ok /\ mb \in Boxes /\ md \in Boxes /\ md = Drop(mb, s)
        /\ Holds(q.pipe, sock, q.endpoints, mb, pend, found, {})
        /\ mb[s] # << >> /\ Head(mb[s]) = Wake(e) /\ At(mb, s, Wake(e))
        /\ Tail(h) \in Seq(Commands)
    BY HeadFacts
  <1> HIDE DEF mb, md, Holds
  <1>1. /\ q.pipe[e] \in PipeType /\ q.pipe \in PipeTable /\ Peer(e) \in Ends /\ Peer(e) # e
    BY <1>0, EndFacts, LibraryTypes
  <1>2. /\ Owner(q.pipe, mb, pend, e) /\ Content(q.pipe, sock, e) /\ Order(q.pipe, mb, e)
    BY <1>0 DEF Holds
  <1>3. q.pipe[e].sink # None
    BY <1>0, <1>2 DEF Order
  <1>4. Good(q, sock, s, Tail(h), pend, found, {})
    <2>1. Holds(q.pipe, sock, q.endpoints, Drop(mb, s), pend, found, {})
      BY <1>0, DropWake
    <2> QED BY <2>1, <1>0 DEF Good, md
  <1>5. CASE ~(~q.pipe[e].in_active /\ q.pipe[e].state \in {"active", "waiting_for_delimiter"})
    <2>1. ProcessActivateRead(q, e) = q
      BY <1>5 DEF ProcessActivateRead
    <2> QED BY <2>1, <1>4, KeptItself DEF After
  <1>6. CASE ~q.pipe[e].in_active /\ q.pipe[e].state \in {"active", "waiting_for_delimiter"}
    <2>1. ProcessActivateRead(q, e) = EditRoused(q, e)
      BY <1>3, <1>6 DEF ProcessActivateRead, Require, EditRoused
    <2>2. EditRoused(q, e) = q1
      BY ONLY <1>0, e \in Ends, EndEdits DEF q1, r
    <2>3. /\ r \in PipeType /\ r.state = q.pipe[e].state /\ r.out = q.pipe[e].out
          /\ r.sink = q.pipe[e].sink /\ r.tid = q.pipe[e].tid /\ r.delay = q.pipe[e].delay
          /\ r.in = q.pipe[e].in
      <3>1. r \in PipeType
        BY <1>1, EndTypes
      <3> QED BY <3>1, <1>1 DEF Roused, PipeType
    <2> HIDE DEF r
    <2>4. Content([q.pipe EXCEPT ![e] = r], sock, e)
      <3> DEFINE pp == [q.pipe EXCEPT ![e] = r]
      <3>1. pp[e] = r /\ pp[Peer(e)] = q.pipe[Peer(e)]
        BY <1>1 DEF PipeTable
      <3> HIDE DEF pp
      <3>2. Content(pp, sock, e)
        BY <3>1, <2>3, <1>2 DEF Content
      <3> QED BY <3>2 DEF pp
    <2>5. e[2] = "bind" /\ e[1] \in pend => FALSE
      BY <1>2, <1>3 DEF Owner
    <2>6. Good(q1, sock, s, Tail(h), pend, found, {}) /\ Kept(q, q1)
      BY <2>3, <2>4, <2>5, <1>0, <1>3, <1>4, QuietGood
    <2>7. IsWith(q, e, r, q1)
      BY <2>3, <1>0, WithEndFacts
    <2> HIDE DEF q1
    <2> QED BY <2>1, <2>2, <2>6, <2>7 DEF After, IsWith
  <1> QED BY <1>5, <1>6

\* socket_base_t::process_stop
LEMMA StopGood ==
    ASSUME NEW q, NEW s \in Sockets, NEW h \in Seq(Commands), NEW pend, NEW found,
           Good(q, q.sock, s, h, pend, found, {}), h # << >>, Head(h) = Stopped,
           NEW q1, q1 = EditTold(q, s)
    PROVE  Good(q1, q1.sock, s, Tail(h), pend, found, {}) /\ Kept(q, q1)
PROOF
  <1> DEFINE mb == Virtual(q.mbox, s, h)
             md == Virtual(q.mbox, s, Tail(h))
             w == Told(q.sock[s])
  <1>0. /\ q \in Library /\ q.ok /\ mb \in Boxes /\ md \in Boxes /\ md = Drop(mb, s)
        /\ Holds(q.pipe, q.sock, q.endpoints, mb, pend, found, {})
        /\ mb[s] # << >> /\ Head(mb[s]) = Stopped /\ Stopped \in Commands
        /\ Tail(h) \in Seq(Commands)
    BY HeadFacts
  <1> HIDE DEF mb, md, Holds
  <1>1. q.sock[s] \in SocketType
    BY <1>0, LibraryTypes
  <1>2. /\ w \in SocketType /\ w.pipes = q.sock[s].pipes /\ w.only = q.sock[s].only
        /\ w.term_acks = q.sock[s].term_acks /\ w.sent = q.sock[s].sent
        /\ w.processed = q.sock[s].processed /\ w.terminating = q.sock[s].terminating
        /\ w.destroyed = q.sock[s].destroyed /\ w.stage = q.sock[s].stage
    <2>1. w \in SocketType
      BY <1>1, SockTypes
    <2> QED BY <2>1, <1>1 DEF Told, SocketType
  <1>3. q1 = WithSock(q, s, w)
    BY <1>0, SockEdits
  <1> HIDE DEF w
  <1>4. IsWithSock(q, s, w, q1)
    BY <1>0, <1>2, <1>3, WithSockFacts
  <1>5. SameBut(mb, md, {Stopped})
    BY <1>0, DropFacts
  <1>6. Holds(q.pipe, q.sock, q.endpoints, md, pend, found, {})
    BY <1>0, <1>5, StopStep
  <1>7. w.stage = "gone" => w.destroyed
    BY <1>0, <1>2 DEF Holds, Members
  <1>8. Holds(q.pipe, [q.sock EXCEPT ![s] = w], q.endpoints, md, pend, found, {})
    <2>1. StageChange(q.sock[s], w)
      BY <1>2, <1>7 DEF StageChange
    <2> QED BY <2>1, <1>2, <1>6, StageStep
  <1> QED BY <1>0, <1>2, <1>4, <1>8 DEF Good, IsWithSock, md

\* pipe_t::process_pipe_term_ack, with socket_base_t::pipe_terminated
LEMMA PipeTermAckGood ==
    ASSUME NEW q, NEW s \in Sockets, NEW h \in Seq(Commands), NEW pend, NEW found,
           Good(q, q.sock, s, h, pend, found, {}), h # << >>, NEW e \in Ends, Head(h) = Ack(e),
           NEW q3, q3 = ProcessPipeTermAck(q, e)
    PROVE  Good(q3, q3.sock, s, Tail(h), pend, found, {}) /\ Kept(q, q3)
PROOF
  <1> DEFINE mb == Virtual(q.mbox, s, h)
             md == Virtual(q.mbox, s, Tail(h))
             x == q.pipe[e].state
             p == Peer(e)
             t == q.pipe[p].tid
             w0 == q.sock[s]
             w1 == Parted(w0, e)
             w == IF w0.terminating THEN Checked(Relieved(w1)) ELSE w1
             q1 == WithSock(q, s, w)
             ra == Released(q.pipe[e], "term_req_sent1")
             q2 == IF x = "term_req_sent1" THEN SendTo(WithEnd(q1, e, ra), t, Ack(p)) ELSE q1
             r == Ended(q.pipe[e])
             mc == IF x = "term_req_sent1" THEN Put(md, t, Ack(p)) ELSE md
  <1>0. /\ q \in Library /\ q.ok /\ mb \in Boxes /\ md \in Boxes /\ md = Drop(mb, s)
        /\ Holds(q.pipe, q.sock, q.endpoints, mb, pend, found, {})
        /\ mb[s] # << >> /\ Head(mb[s]) = Ack(e)
        /\ Tail(h) \in Seq(Commands)
    BY HeadFacts
  <1> HIDE DEF mb, md, Holds
  <1>1. /\ q.pipe[e] \in PipeType /\ q.pipe \in PipeTable /\ w0 \in SocketType
        /\ p \in Ends /\ p # e /\ Ack(p) \in Commands /\ t \in Sockets
    BY <1>0, EndFacts, LibraryTypes, CommandFacts
  <1>2. /\ q.pipe[e].sink = s
        /\ x \in {"term_req_sent1", "term_ack_sent", "term_req_sent2"}
        /\ w0.terminating => w0.term_acks # 0
        /\ ~w0.destroyed
    BY <1>0, AckFacts
  <1>3. /\ w1 \in SocketType /\ w1.pipes = w0.pipes \ {e}
        /\ w1.only = IF w0.only = e THEN None ELSE w0.only
        /\ w1.term_acks = w0.term_acks /\ w1.stage = w0.stage /\ w1.sent = w0.sent
        /\ w1.processed = w0.processed /\ w1.terminating = w0.terminating
        /\ w1.destroyed = w0.destroyed
    <2>1. w1 \in SocketType
      BY <1>1, SockTypes
    <2> QED BY <2>1, <1>1 DEF Parted, SocketType
  <1> HIDE DEF w0, w1
  <1>4. w0.terminating =>
           LET v == Relieved(w1)
           IN  /\ v \in SocketType /\ v.pipes = w1.pipes /\ v.only = w1.only
               /\ v.term_acks = w1.term_acks - 1 /\ v.stage = w1.stage /\ v.sent = w1.sent
               /\ v.processed = w1.processed /\ v.terminating = w1.terminating
               /\ v.destroyed = w1.destroyed
    <2> SUFFICES ASSUME w0.terminating
                 PROVE  LET v == Relieved(w1)
                        IN  /\ v \in SocketType /\ v.pipes = w1.pipes /\ v.only = w1.only
                            /\ v.term_acks = w1.term_acks - 1 /\ v.stage = w1.stage
                            /\ v.sent = w1.sent
                            /\ v.processed = w1.processed /\ v.terminating = w1.terminating
                            /\ v.destroyed = w1.destroyed
      OBVIOUS
    <2>1. Relieved(w1) \in SocketType
      BY <1>2, <1>3, SockTypes
    <2> QED BY <2>1, <1>3 DEF Relieved, SocketType
  <1>5. /\ w \in SocketType /\ w.pipes = w0.pipes \ {e}
        /\ w.only = IF w0.only = e THEN None ELSE w0.only
        /\ w.term_acks = IF w0.terminating THEN w0.term_acks - 1 ELSE w0.term_acks
        /\ w.stage = w0.stage /\ w.sent = w0.sent
        /\ w.processed = w0.processed /\ w.terminating = w0.terminating
        /\ w.destroyed => w.terminating /\ w.term_acks = 0 /\ w.processed = w.sent
    <2>1. CASE ~w0.terminating
      BY <2>1, <1>2, <1>3
    <2>2. CASE w0.terminating
      <3> DEFINE v == Relieved(w1)
      <3>1. /\ v \in SocketType /\ v.pipes = w1.pipes /\ v.only = w1.only
            /\ v.term_acks = w1.term_acks - 1 /\ v.stage = w1.stage /\ v.sent = w1.sent
            /\ v.processed = w1.processed /\ v.terminating = w1.terminating
            /\ v.destroyed = w1.destroyed
        BY <2>2, <1>4
      <3> HIDE DEF v
      <3>2. w = Checked(v)
        BY <2>2 DEF v
      <3> HIDE DEF w
      <3>3. w \in SocketType
        BY <3>1, <3>2, SockTypes
      <3>4. /\ w.stage = v.stage /\ w.pipes = v.pipes /\ w.only = v.only
            /\ w.term_acks = v.term_acks /\ w.sent = v.sent
            /\ w.processed = v.processed /\ w.terminating = v.terminating
            /\ w.destroyed => v.destroyed \/ Ripe(v)
        BY <3>1, <3>2, CheckedFields
      <3> QED BY <3>1, <3>3, <3>4, <2>2, <1>2, <1>3 DEF Ripe
    <2> QED BY <2>1, <2>2
  <1>6. PipeTerminated(q, s, e) = q1
    <2>1. IsWithSock(q, s, w1, WithSock(q, s, w1)) /\ EditParted(q, s, e) = WithSock(q, s, w1)
      BY <1>0, <1>3, WithSockFacts, SockEdits DEF w1, w0
    <2>2. CASE ~w0.terminating
      BY <2>1, <2>2 DEF PipeTerminated, EditParted, w0
    <2>3. CASE w0.terminating
      <3> DEFINE qa == WithSock(q, s, w1)
                 v == Relieved(w1)
                 qb == WithSock(qa, s, v)
      <3>1. PipeTerminated(q, s, e) = CheckTermAcks(EditRelieved(EditParted(q, s, e), s), s)
        BY <2>3, <1>2 DEF PipeTerminated, EditParted, EditRelieved, w0
      <3>2. qa \in Library /\ qa.sock[s] = w1
        BY <2>1 DEF IsWithSock
      <3>3. EditRelieved(qa, s) = qb
        BY <3>2, SockEdits
      <3>4. v \in SocketType
        BY <2>3, <1>4
      <3>5. IsWithSock(qa, s, v, qb)
        BY <3>2, <3>4, WithSockFacts
      <3>6. qb \in Library /\ qb.sock[s] = v
        BY <3>5 DEF IsWithSock
      <3>7. CheckTermAcks(qb, s) = WithSock(qb, s, w)
        <4> HIDE DEF qb, v
        <4>1. w = Checked(v)
          BY <2>3 DEF v
        <4> QED BY <4>1, <3>6, SockEdits
      <3>8. WithSock(qb, s, w) = q1
        <4>1. qb = WithSock(q, s, v)
          BY <1>0, <1>3, WithSockTwice
        <4> HIDE DEF qb, v, w
        <4> QED BY <4>1, <3>4, <1>0, WithSockTwice
      <3> HIDE DEF qa, qb
      <3> QED BY <2>1, <3>1, <3>3, <3>7, <3>8 DEF qa
    <2> QED BY <2>2, <2>3
  <1> HIDE DEF w
  <1>7. IsWithSock(q, s, w, q1)
    BY <1>0, <1>5, WithSockFacts
  <1> HIDE DEF q1
  <1>8. /\ q1 \in Library /\ q1.pipe = q.pipe /\ q1.mbox = q.mbox /\ q1.ok = q.ok
        /\ q1.endpoints = q.endpoints /\ q1.pending = q.pending
        /\ q1.sock = [q.sock EXCEPT ![s] = w] /\ Kept(q, q1)
    BY <1>5, <1>7 DEF IsWithSock, w0
  <1>9. ra \in PipeType /\ ra.state # "none" /\ r \in PipeType /\ r.state = "deleted" /\ Ended(ra) = r
    <2>1. ra \in PipeType /\ ra.state = "term_req_sent1" /\ r \in PipeType
      BY <1>1, EndTypes DEF PipeStates
    <2>2. Ended(ra) = r /\ r.state = "deleted"
      BY <1>1 DEF Released, Ended, PipeType
    <2> QED BY <2>1, <2>2
  <1> HIDE DEF ra, r
  <1>10. /\ q2 \in Library /\ q2.sock = q1.sock /\ q2.endpoints = q.endpoints /\ q2.ok
         /\ q2.pending = q.pending /\ Virtual(q2.mbox, s, Tail(h)) = mc /\ Kept(q, q2)
         /\ Ended(q2.pipe[e]) = r /\ \A f \in Ends : f # e => q2.pipe[f] = q.pipe[f]
         /\ q2.pipe[e].state # "none"
    <2>1. CASE x # "term_req_sent1"
      BY <2>1, <1>0, <1>2, <1>8 DEF r, md
    <2>2. CASE x = "term_req_sent1"
      <3> DEFINE qa == WithEnd(q1, e, ra)
      <3>1. IsWith(q1, e, ra, qa)
        BY <1>8, <1>9, WithEndFacts
      <3> HIDE DEF qa
      <3>2. q2 = SendTo(qa, t, Ack(p))
        BY <2>2 DEF qa
      <3> HIDE DEF q2
      <3>3. /\ qa \in Library /\ qa.mbox = q.mbox /\ qa.sock = q1.sock
            /\ qa.endpoints = q.endpoints /\ qa.pending = q.pending /\ qa.ok
            /\ qa.pipe[e] = ra /\ \A f \in Ends : f # e => qa.pipe[f] = q.pipe[f]
            /\ Kept(q1, qa)
        BY <3>1, <2>2, <1>0, <1>8, <1>9 DEF IsWith
      <3>4. IsSent(qa, t, Ack(p), s, Tail(h), q2)
        BY <3>2, <3>3, <1>0, <1>1, SendIs
      <3>5. /\ q2 \in Library /\ q2.sock = q1.sock /\ q2.endpoints = q.endpoints /\ q2.ok
            /\ q2.pending = q.pending /\ Virtual(q2.mbox, s, Tail(h)) = Put(md, t, Ack(p))
            /\ q2.pipe = qa.pipe
        BY <3>3, <3>4 DEF IsSent, md
      <3>6. Kept(q, q2)
        BY <3>3, <3>5, <1>8 DEF Kept
      <3> QED BY <3>3, <3>5, <3>6, <2>2, <1>9
    <2> QED BY <2>1, <2>2
  <1>11. q3 = WithEnd(q2, e, r)
    <2>1. q3 = EditEnded(q2, e)
      <3>1. CASE x # "term_req_sent1"
        <4>1. Require(PipeTerminated(q, s, e), x \in {"term_ack_sent", "term_req_sent2"}) = q2
          BY <3>1, <1>2, <1>6 DEF Require
        <4> HIDE DEF q2
        <4> QED BY <4>1, <3>1, <1>2, ContextNoneAssumption DEF ProcessPipeTermAck, EditEnded
      <3>2. CASE x = "term_req_sent1"
        <4>1. Acknowledge(q1, e, "term_req_sent1") = q2
          <5> DEFINE qa == WithEnd(q1, e, ra)
          <5>1. EditReleased(q1, e, "term_req_sent1") = qa
            BY <1>8, EndEdits DEF ra
          <5>2. Acknowledge(q1, e, "term_req_sent1")
                  = Tell(EditReleased(q1, e, "term_req_sent1"), p, "pipe_term_ack")
            BY DEF Acknowledge, EditReleased
          <5>3. IsWith(q1, e, ra, qa)
            BY <1>8, <1>9, WithEndFacts
          <5>4. q2 = SendTo(qa, t, Ack(p))
            BY <3>2
          <5> HIDE DEF qa, q2
          <5>5. qa.pipe[p].tid = t
            BY <5>3, <1>1, <1>8 DEF IsWith
          <5> QED BY <5>1, <5>2, <5>4, <5>5 DEF Tell, Ack
        <4> HIDE DEF q2
        <4>2. q3 = EditEnded(Acknowledge(PipeTerminated(q, s, e), e, "term_req_sent1"), e)
          BY <3>2, <1>2, ContextNoneAssumption DEF ProcessPipeTermAck, EditEnded
        <4> QED BY <4>1, <4>2, <1>6
      <3> QED BY <3>1, <3>2
    <2> HIDE DEF q2
    <2> QED BY <2>1, <1>10, EndEdits
  <1> HIDE DEF q2
  <1>12. IsWith(q2, e, r, q3)
    BY <1>9, <1>10, <1>11, WithEndFacts
  <1>13. /\ q3 \in Library /\ q3.ok /\ q3.sock = [q.sock EXCEPT ![s] = w] /\ q3.endpoints = q.endpoints
         /\ Virtual(q3.mbox, s, Tail(h)) = mc /\ Kept(q2, q3)
         /\ q3.pipe[e] = r /\ \A f \in Ends : f # e => q3.pipe[f] = q.pipe[f]
    BY <1>8, <1>9, <1>10, <1>12 DEF IsWith
  <1>14. Kept(q, q3)
    BY <1>10, <1>13, KeptTrans
  <1>15. q3.pipe = [q.pipe EXCEPT ![e] = r]
    <2>1. q3.pipe \in PipeTable
      BY <1>13, LibraryTypes
    <2> QED BY <2>1, <1>1, <1>13 DEF PipeTable
  <1>16. Holds([q.pipe EXCEPT ![e] = r], [q.sock EXCEPT ![s] = w], q.endpoints, mc, pend, found, {})
    <2>1. r = [q.pipe[e] EXCEPT !.state = "deleted", !.in = << >>, !.out = FALSE]
      BY DEF r, Ended
    <2>2. mc = IF q.pipe[e].state = "term_req_sent1"
               THEN Put(Drop(mb, s), q.pipe[Peer(e)].tid, Ack(Peer(e))) ELSE Drop(mb, s)
      BY <1>0
    <2> HIDE DEF mc
    <2> QED BY <2>1, <2>2, <1>0, <1>5, <1>9, AckHandled DEF w0
  <1> QED BY <1>13, <1>14, <1>15, <1>16 DEF Good

\* The invariant is about the sockets that are given, so those of the library
\* may differ for a while.
LEMMA GoodSock ==
    ASSUME NEW q, NEW sock, NEW s, NEW h, NEW pend, NEW found, NEW X,
           Good(q, sock, s, h, pend, found, X), NEW t \in Sockets, NEW v \in SocketType
    PROVE  Good(WithSock(q, t, v), sock, s, h, pend, found, X)
PROOF
  <1>1. q \in Library
    BY DEF Good
  <1>2. IsWithSock(q, t, v, WithSock(q, t, v))
    BY <1>1, WithSockFacts
  <1> QED BY <1>2 DEF IsWithSock, Good

Attached(p, t) == [p EXCEPT !.sink = t, !.delay = @ /\ ~(t \in Connectors /\ t[2] = "pub")]
Joining(w, e) == [w EXCEPT !.pipes = @ \cup {e}]
Holding(w, e) == [w EXCEPT !.only = e]
Burdened(w) == [w EXCEPT !.term_acks = @ + 1]
EditAttach(q, t, e) ==
    [q EXCEPT !.pipe[e].sink = t, !.sock[t].pipes = @ \cup {e},
              !.pipe[e].delay = @ /\ ~(t \in Connectors /\ t[2] = "pub")]
EditHolding(q, t, e) == [q EXCEPT !.sock[t].only = e]
EditBurdened(q, t) == [q EXCEPT !.sock[t].term_acks = @ + 1]

\* The updates of attach_pipe, written as a replaced end and socket.
LEMMA AttachEdits ==
    ASSUME NEW q \in Library, NEW t \in Sockets, NEW e \in Ends
    PROVE  /\ EditAttach(q, t, e)
                = WithSock(WithEnd(q, e, Attached(q.pipe[e], t)), t, Joining(q.sock[t], e))
           /\ EditHolding(q, t, e) = WithSock(q, t, Holding(q.sock[t], e))
           /\ EditBurdened(q, t) = WithSock(q, t, Burdened(q.sock[t]))
PROOF
  <1>0. q.pipe \in PipeTable /\ q.pipe[e] \in PipeType /\ q.sock \in SocketTable
        /\ q.sock[t] \in SocketType
    BY LibraryTypes
  <1>1. EditAttach(q, t, e)
          = WithSock(WithEnd(q, e, Attached(q.pipe[e], t)), t, Joining(q.sock[t], e))
    BY <1>0, ZenonT(60) DEF EditAttach, WithSock, WithEnd, Attached, Joining
  <1>2. EditHolding(q, t, e) = WithSock(q, t, Holding(q.sock[t], e))
    BY DEF EditHolding, WithSock, Holding
  <1>3. EditBurdened(q, t) = WithSock(q, t, Burdened(q.sock[t]))
    BY DEF EditBurdened, WithSock, Burdened
  <1> QED BY <1>1, <1>2, <1>3

\* The values that attach_pipe gives are well typed.
LEMMA AttachTypes ==
    ASSUME NEW w \in SocketType, NEW e \in Ends, NEW p \in PipeType, NEW t \in Sockets
    PROVE  /\ Attached(p, t) \in PipeType /\ Joining(w, e) \in SocketType
           /\ Holding(w, e) \in SocketType /\ Burdened(w) \in SocketType
PROOF
  <1>1. Attached(p, t) \in PipeType
    BY DEF Attached, PipeType
  <1>2. Joining(w, e) \in SocketType
    BY DEF Joining, SocketType
  <1>3. Holding(w, e) \in SocketType
    BY DEF Holding, SocketType
  <1>4. Burdened(w) \in SocketType
    BY DEF Burdened, SocketType
  <1> QED BY <1>1, <1>2, <1>3, <1>4

\* socket_base_t::attach_pipe
LEMMA AttachGood ==
    ASSUME NEW q, NEW s \in Sockets, NEW h \in Seq(Commands), NEW pend, NEW found,
           NEW e \in Ends, Good(q, q.sock, s, h, pend, found, {e}),
           NEW t \in Sockets, Attachable(q.pipe[e], e, t, pend), q.pipe[e].delay,
           ~Sent(Virtual(q.mbox, s, h), Bind(e)), ~q.sock[t].destroyed,
           NEW qc, qc = AttachPipe(q, t, e)
    PROVE  Good(qc, qc.sock, s, h, pend, found, {}) /\ Kept(q, qc)
           /\ ~qc.sock[t].destroyed /\ e \in qc.sock[t].pipes
PROOF
  <1> DEFINE mb == Virtual(q.mbox, s, h)
             r == Attached(q.pipe[e], t)
             w0 == q.sock[t]
             w1 == Joining(w0, e)
             w2 == IF t \in Pairs /\ w0.only = None THEN Holding(w1, e) ELSE w1
             w == IF w0.terminating THEN Burdened(w2) ELSE w2
             sock1 == [q.sock EXCEPT ![t] = w]
             q0 == WithEnd(q, e, r)
             qa == WithSock(q0, t, w1)
             qb == IF t \notin Pairs THEN qa
                   ELSE IF w0.only = None THEN WithSock(qa, t, w2) ELSE Terminate(qa, e, FALSE)
             qd == IF w0.terminating THEN WithSock(qb, t, w) ELSE qb
  <1>0. /\ q \in Library /\ q.ok /\ q.pipe[e] \in PipeType /\ q.pipe \in PipeTable
        /\ w0 \in SocketType /\ q.sock \in SocketTable
        /\ Holds(q.pipe, q.sock, q.endpoints, mb, pend, found, {e})
    BY LibraryTypes DEF Good
  <1> HIDE DEF mb, Holds
  <1>1. /\ r \in PipeType /\ AttachEnd(q.pipe[e], r, t) /\ r.state = q.pipe[e].state
        /\ e[2] = "bind" => r.delay
    <2>1. r \in PipeType
      BY <1>0, AttachTypes
    <2>2. AttachEnd(q.pipe[e], r, t) /\ r.state = q.pipe[e].state
      BY <1>0 DEF Attached, PipeType, AttachEnd, Attachable
    <2>3. e[2] = "bind" => t \notin Connectors
      BY SocketFacts DEF Attachable
    <2>4. r.delay = (q.pipe[e].delay /\ ~(t \in Connectors /\ t[2] = "pub"))
      BY <1>0 DEF Attached, PipeType
    <2> QED BY <2>1, <2>2, <2>3, <2>4
  <1>2. /\ w1 \in SocketType /\ w1.pipes = w0.pipes \cup {e} /\ w1.only = w0.only
        /\ w1.term_acks = w0.term_acks /\ w1.stage = w0.stage /\ w1.sent = w0.sent
        /\ w1.processed = w0.processed /\ w1.terminating = w0.terminating
        /\ w1.destroyed = w0.destroyed
    <2>1. w1 \in SocketType
      BY <1>0, AttachTypes
    <2> QED BY <2>1, <1>0 DEF Joining, SocketType
  <1> HIDE DEF r, w0, w1
  <1>3. /\ w2 \in SocketType /\ w2.pipes = w1.pipes /\ w2.only \in {w0.only, e}
        /\ w2.term_acks = w1.term_acks /\ w2.stage = w1.stage /\ w2.sent = w1.sent
        /\ w2.processed = w1.processed /\ w2.terminating = w1.terminating
        /\ w2.destroyed = w1.destroyed
    <2>1. Holding(w1, e) \in SocketType
      BY <1>2, AttachTypes, <1>0
    <2>2. CASE t \in Pairs /\ w0.only = None
      BY <2>1, <2>2, <1>2 DEF Holding, SocketType
    <2>3. CASE ~(t \in Pairs /\ w0.only = None)
      BY <2>3, <1>2
    <2> QED BY <2>2, <2>3
  <1> HIDE DEF w2
  <1>4. /\ w \in SocketType /\ w.pipes = w2.pipes /\ w.only = w2.only
        /\ w.term_acks = IF w0.terminating THEN w2.term_acks + 1 ELSE w2.term_acks
        /\ w.stage = w2.stage /\ w.sent = w2.sent
        /\ w.processed = w2.processed /\ w.terminating = w2.terminating
        /\ w.destroyed = w2.destroyed
    <2>1. Burdened(w2) \in SocketType
      BY <1>3, AttachTypes, <1>0
    <2>2. CASE w0.terminating
      BY <2>1, <2>2, <1>3 DEF Burdened, SocketType
    <2>3. CASE ~w0.terminating
      BY <2>3, <1>3
    <2> QED BY <2>2, <2>3
  <1>5. AttachSock(w0, w, e)
    <2>1. ~w.destroyed
      BY <1>2, <1>3, <1>4 DEF w0
    <2> HIDE DEF w
    <2>2. /\ w.pipes = w0.pipes \cup {e} /\ w.only \in {w0.only, e}
          /\ w.term_acks = IF w0.terminating THEN w0.term_acks + 1 ELSE w0.term_acks
          /\ w.stage = w0.stage /\ w.sent = w0.sent /\ w.processed = w0.processed
      BY <1>2, <1>3, <1>4
    <2>3. w.terminating = w0.terminating
      BY <1>2, <1>3, <1>4
    <2> QED BY <2>1, <2>2, <2>3 DEF AttachSock
  <1> HIDE DEF w
  <1>6. Holds([q.pipe EXCEPT ![e] = r], sock1, q.endpoints, mb, pend, found, {})
    <2>1. {e} \ {e} = {}
      OBVIOUS
    <2>2. /\ AttachSock(q.sock[t], w, e) /\ w \in SocketType /\ ~Sent(mb, Bind(e))
          /\ e[2] = "bind" /\ t \notin Pairs /\ q.sock[t].stage \in {"none", "open"} => r.delay
      BY <1>1, <1>4, <1>5 DEF w0, mb
    <2>3. Holds([q.pipe EXCEPT ![e] = r], [q.sock EXCEPT ![t] = w], q.endpoints, mb, pend, found,
                {e} \ {e})
      BY <2>2, <1>0, <1>1, AttachStep
    <2> QED BY <2>1, <2>3
  <1>7. IsWith(q, e, r, q0)
    BY <1>0, <1>1, WithEndFacts
  <1> HIDE DEF q0
  <1>8. q0 \in Library
    BY <1>7 DEF IsWith
  <1>9. IsWithSock(q0, t, w1, qa)
    BY <1>2, <1>8, WithSockFacts
  <1>10. sock1[t] = w /\ sock1 \in SocketTable
    BY <1>0, <1>4 DEF SocketTable
  <1> HIDE DEF sock1
  <1>11. Good(qa, sock1, s, h, pend, found, {}) /\ Kept(q, qa) /\ qa.sock[t] = w1
         /\ qa.sock = [q.sock EXCEPT ![t] = w1] /\ qa \in Library
    <2>1. Good(q0, sock1, s, h, pend, found, {})
      BY <1>0, <1>6, <1>7 DEF Good, IsWith, mb
    <2>2. Good(qa, sock1, s, h, pend, found, {})
      BY <2>1, <1>2, GoodSock
    <2>3. qa.sock[t] = w1 /\ qa.sock = [q.sock EXCEPT ![t] = w1] /\ qa \in Library
      BY <1>7, <1>9 DEF IsWith, IsWithSock
    <2>4. Kept(q, q0)
      BY <1>1, <1>7 DEF IsWith
    <2>5. q0.sock[t] = w0
      BY <1>7 DEF IsWith, w0
    <2>6. Kept(q0, qa)
      BY <2>5, <1>2, <1>9 DEF IsWithSock
    <2>7. Kept(q, qa)
      BY <2>4, <2>6, KeptTrans
    <2> QED BY <2>2, <2>3, <2>7
  <1> HIDE DEF qa
  <1>12. ASSUME NEW qq, Good(qq, sock1, s, h, pend, found, {}),
                t \in Pairs \/ w0.terminating
         PROVE  After(qq, Terminate(qq, e, FALSE), sock1, s, h, pend, found, {})
    <2>1. Members(sock1, qq.pipe, t)
      BY <1>12 DEF Good, Holds
    <2>2. e \in sock1[t].pipes
      BY <1>2, <1>3, <1>4, <1>10
    <2>3. qq.pipe[e].sink = t /\ qq.pipe[e].state # "deleted" /\ t # None
      BY <2>1, <2>2, ContextNoneAssumption DEF Members
    <2>4. w0.terminating => sock1[t].stage \notin {"none", "open"}
      BY <2>1, <1>2, <1>3, <1>4, <1>10 DEF Members
    <2>5. e[2] = "bind" /\ qq.pipe[e].sink \notin Pairs
             /\ sock1[qq.pipe[e].sink].stage \in {"none", "open"} => FALSE
      BY <2>3, <2>4, <1>12
    <2> QED BY <2>3, <2>5, <1>12, TerminateGood
  <1>13. Good(qb, sock1, s, h, pend, found, {}) /\ Kept(q, qb)
         /\ qb.sock = [q.sock EXCEPT ![t] = w2]
    <2>1. CASE t \notin Pairs
      <3>1. w2 = w1 /\ qb = qa
        BY <2>1 DEF w2
      <3> QED BY <3>1, <1>11
    <2>2. CASE t \in Pairs /\ w0.only = None
      <3> DEFINE qq == WithSock(qa, t, w2)
      <3>1. qb = qq
        BY <2>2
      <3>2. Good(qq, sock1, s, h, pend, found, {})
        BY <1>3, <1>11, GoodSock
      <3>3. IsWithSock(qa, t, w2, qq)
        BY <1>3, <1>11, WithSockFacts
      <3> HIDE DEF qq
      <3>4. Kept(qa, qq)
        BY <3>3, <1>3, <1>11 DEF IsWithSock
      <3>5. Kept(q, qq)
        BY <3>4, <1>11, KeptTrans
      <3>6. qq.sock = [q.sock EXCEPT ![t] = w2]
        <4>1. qq.sock = [[q.sock EXCEPT ![t] = w1] EXCEPT ![t] = w2]
          BY <3>3, <1>11 DEF IsWithSock
        <4> QED BY <4>1, <1>0 DEF SocketTable
      <3> QED BY <3>1, <3>2, <3>5, <3>6
    <2>3. CASE t \in Pairs /\ w0.only # None
      <3> DEFINE qq == Terminate(qa, e, FALSE)
      <3>1. qb = qq /\ w2 = w1
        BY <2>3 DEF w2
      <3>2. After(qa, qq, sock1, s, h, pend, found, {})
        BY <2>3, <1>11, <1>12
      <3> HIDE DEF qq
      <3>3. Good(qq, sock1, s, h, pend, found, {}) /\ Kept(qa, qq) /\ qq.sock = qa.sock
        BY <3>2 DEF After
      <3>4. Kept(q, qq)
        BY <3>3, <1>11, KeptTrans
      <3> QED BY <3>1, <3>3, <3>4, <1>11
    <2> QED BY <2>1, <2>2, <2>3
  <1>14. AttachPipe(q, t, e) = IF w0.terminating THEN Terminate(EditBurdened(qb, t), e, FALSE) ELSE qb
    <2>1. EditAttach(q, t, e) = qa
      BY <1>0, AttachEdits DEF qa, q0, r, w1, w0
    <2>2. t \in Pairs /\ w0.only = None => EditHolding(qa, t, e) = WithSock(qa, t, w2)
      BY <1>11, AttachEdits DEF w2
    <2>3. AttachPipe(q, t, e)
            = LET q2 == IF t \notin Pairs THEN EditAttach(q, t, e)
                        ELSE IF q.sock[t].only = None THEN EditHolding(EditAttach(q, t, e), t, e)
                        ELSE Terminate(EditAttach(q, t, e), e, FALSE)
              IN  IF q.sock[t].terminating THEN Terminate(EditBurdened(q2, t), e, FALSE) ELSE q2
      BY DEF AttachPipe, EditAttach, EditHolding, EditBurdened
    <2> QED BY <2>1, <2>2, <2>3 DEF w0
  <1> HIDE DEF qb
  <1>15. CASE ~w0.terminating
    <2>1. w = w2 /\ qc = qb
      BY <1>14, <1>15 DEF w
    <2>2. qc.sock = sock1
      BY <2>1, <1>13 DEF sock1
    <2> QED BY <2>1, <2>2, <1>5, <1>10, <1>13 DEF AttachSock
  <1>16. CASE w0.terminating
    <2>1. qb \in Library /\ qb.sock[t] = w2
      BY <1>0, <1>13 DEF Good, SocketTable
    <2>2. EditBurdened(qb, t) = WithSock(qb, t, w)
      BY <2>1, <1>16, AttachEdits DEF w
    <2> DEFINE qe == WithSock(qb, t, w)
    <2>3. IsWithSock(qb, t, w, qe) /\ Good(qe, sock1, s, h, pend, found, {})
      BY <2>1, <1>4, <1>13, WithSockFacts, GoodSock
    <2>4. qc = Terminate(qe, e, FALSE)
      BY <2>2, <1>14, <1>16
    <2> HIDE DEF qe
    <2>5. After(qe, qc, sock1, s, h, pend, found, {})
      BY <2>3, <2>4, <1>12, <1>16
    <2>6. Kept(qb, qe)
      BY <2>1, <2>3, <1>4 DEF IsWithSock
    <2>7. qe.sock = sock1
      <3>1. qe.sock = [[q.sock EXCEPT ![t] = w2] EXCEPT ![t] = w]
        BY <2>3, <1>13 DEF IsWithSock
      <3> QED BY <3>1, <1>0 DEF SocketTable, sock1
    <2>8. Kept(qe, qc) /\ qc.sock = sock1 /\ Good(qc, sock1, s, h, pend, found, {})
      BY <2>5, <2>7 DEF After
    <2>9. Kept(q, qc)
      <3>1. Kept(q, qe)
        BY <2>6, <1>13, KeptTrans
      <3> QED BY <3>1, <2>8, KeptTrans
    <2> QED BY <2>8, <2>9, <1>5, <1>10 DEF AttachSock
  <1> QED BY <1>15, <1>16

\* own_t::process_seqnum
LEMMA SeqnumGood ==
    ASSUME NEW q, NEW s \in Sockets, NEW h \in Seq(Commands), NEW pend, NEW found, NEW X,
           Good(q, q.sock, s, h, pend, found, X),
           NEW t \in Sockets, NEW x \in Connectors, <<x, t>> \in found,
           ~At(Virtual(q.mbox, s, h), t, Bind(<<x, "bind">>)), x = t => x \notin pend,
           NEW q1, q1 = ProcessSeqnum(q, t)
    PROVE  Good(q1, q1.sock, s, h, pend, found \ {<<x, t>>}, X) /\ Kept(q, q1)
PROOF
  <1> DEFINE mb == Virtual(q.mbox, s, h)
             w0 == q.sock[t]
             v == Heard(w0)
             w == Checked(v)
             qa == WithSock(q, t, v)
  <1>0. /\ q \in Library /\ q.ok /\ w0 \in SocketType /\ q.sock \in SocketTable
        /\ Holds(q.pipe, q.sock, q.endpoints, mb, pend, found, X)
    BY LibraryTypes DEF Good
  <1> HIDE DEF mb, Holds
  <1>1. ~w0.destroyed
    <2>1. Counting(q.sock, mb, pend, found, t) /\ x \in Owed(mb, pend, found, t)
      BY <1>0 DEF Holds, Owed
    <2> QED BY <2>1, <1>0, OwedAlive
  <1>2. /\ v \in SocketType /\ v.pipes = w0.pipes /\ v.only = w0.only
        /\ v.term_acks = w0.term_acks /\ v.stage = w0.stage /\ v.sent = w0.sent
        /\ v.processed = w0.processed + 1 /\ v.terminating = w0.terminating
        /\ v.destroyed = w0.destroyed
    <2>1. v \in SocketType
      BY <1>0, SockTypes
    <2> QED BY <2>1, <1>0 DEF Heard, SocketType
  <1>3. IsWithSock(q, t, v, qa) /\ EditHeard(q, t) = qa
    <2>1. EditHeard(q, t) = qa
      BY <1>0, SockEdits
    <2> HIDE DEF v
    <2> QED BY <2>1, <1>0, <1>2, WithSockFacts
  <1> HIDE DEF v, w0
  <1>4. /\ w \in SocketType /\ w.pipes = w0.pipes /\ w.only = w0.only
        /\ w.term_acks = w0.term_acks /\ w.stage = w0.stage /\ w.sent = w0.sent
        /\ w.processed = w0.processed + 1 /\ w.terminating = w0.terminating
        /\ w.destroyed => w.terminating /\ w.term_acks = 0 /\ w.processed = w.sent
    <2>1. w \in SocketType
      BY <1>2, SockTypes
    <2>2. /\ w.stage = v.stage /\ w.pipes = v.pipes /\ w.only = v.only
          /\ w.term_acks = v.term_acks /\ w.sent = v.sent
          /\ w.processed = v.processed /\ w.terminating = v.terminating
          /\ w.destroyed => v.destroyed \/ Ripe(v)
      BY <1>2, CheckedFields
    <2> HIDE DEF w
    <2>3. w.terminating = w0.terminating
      BY <2>2, <1>2
    <2> QED BY <2>1, <2>2, <2>3, <1>1, <1>2 DEF Ripe
  <1>5. q1 = WithSock(q, t, w)
    <2>1. q1 = CheckTermAcks(EditHeard(q, t), t)
      BY DEF ProcessSeqnum, EditHeard
    <2>2. qa \in Library /\ qa.sock[t] = v
      BY <1>3 DEF IsWithSock
    <2>3. CheckTermAcks(qa, t) = WithSock(qa, t, w)
      <3> HIDE DEF qa
      <3> QED BY <2>2, SockEdits
    <2>4. WithSock(qa, t, w) = WithSock(q, t, w)
      <3> HIDE DEF w
      <3> QED BY <1>0, <1>2, WithSockTwice
    <2> QED BY <2>1, <2>3, <2>4, <1>3
  <1> HIDE DEF w
  <1>6. Holds(q.pipe, [q.sock EXCEPT ![t] = w], q.endpoints, mb, pend, found \ {<<x, t>>}, X)
    <2>1. ~At(mb, t, Bind(<<x, "bind">>))
      BY DEF mb
    <2> QED BY <2>1, <1>0, <1>4, CountDown DEF w0
  <1>7. IsWithSock(q, t, w, q1)
    BY <1>0, <1>4, <1>5, WithSockFacts
  <1> QED BY <1>0, <1>4, <1>6, <1>7 DEF Good, IsWithSock, mb, w0

\* The bind command: the end is attached.
LEMMA BindGood ==
    ASSUME NEW q, NEW s \in Sockets, NEW h \in Seq(Commands), NEW pend, NEW found,
           Good(q, q.sock, s, h, pend, found, {}), h # << >>, NEW e \in Ends, Head(h) = Bind(e),
           <<e[1], s>> \notin found, NEW q2, q2 = ProcessSeqnum(AttachPipe(q, s, e), s)
    PROVE  Good(q2, q2.sock, s, Tail(h), pend, found, {}) /\ Kept(q, q2)
PROOF
  <1> DEFINE mb == Virtual(q.mbox, s, h)
             md == Virtual(q.mbox, s, Tail(h))
             x == e[1]
             found1 == found \cup {<<x, s>>}
             q1 == AttachPipe(q, s, e)
  <1>0. /\ q \in Library /\ q.ok /\ mb \in Boxes /\ md \in Boxes /\ md = Drop(mb, s)
        /\ Holds(q.pipe, q.sock, q.endpoints, mb, pend, found, {})
        /\ mb[s] # << >> /\ Head(mb[s]) = Bind(e)
        /\ Tail(h) \in Seq(Commands) /\ x \in Connectors
    BY HeadFacts, EndFacts
  <1> HIDE DEF mb, md, Holds
  <1>1. /\ Holds(q.pipe, q.sock, q.endpoints, md, pend, found1, {e})
        /\ e[2] = "bind" /\ e = <<x, "bind">>
        /\ q.pipe[e].sink = None /\ q.pipe[e].tid = s /\ s \in Hosts /\ q.pipe[e].delay
        /\ q.pipe[e].state \in {"active", "waiting_for_delimiter"}
        /\ ~Sent(md, Bind(e)) /\ x \notin pend
    <2>1. e \in Ends \ {} /\ {} \cup {e} = {e}
      OBVIOUS
    <2>2. /\ Holds(q.pipe, q.sock, q.endpoints, Drop(mb, s), pend, found \cup {<<e[1], s>>}, {} \cup {e})
          /\ BindTaken(q.pipe, Drop(mb, s), pend, s, e)
      BY ONLY <2>1, <1>0, s \in Sockets, DropBind
    <2>3. e = <<x, "bind">>
      BY <2>2, EndFacts DEF BindTaken
    <2> QED BY <2>1, <2>2, <2>3, <1>0 DEF BindTaken
  <1> HIDE DEF x
  <1>2. Good(q, q.sock, s, Tail(h), pend, found1, {e})
    BY <1>0, <1>1 DEF Good, md
  <1>3. ~q.sock[s].destroyed
    <2>1. Counting(q.sock, md, pend, found1, s) /\ x \in Owed(md, pend, found1, s)
      BY <1>0, <1>1 DEF Holds, Owed
    <2>2. q.sock \in SocketTable
      BY <1>0, LibraryTypes
    <2> QED BY <2>1, <2>2, OwedAlive
  <1>4. Attachable(q.pipe[e], e, s, pend) /\ q.pipe[e].delay
    BY <1>1 DEF Attachable, x
  <1>5. Good(q1, q1.sock, s, Tail(h), pend, found1, {}) /\ Kept(q, q1) /\ e \in q1.sock[s].pipes
    <2>1. ~Sent(Virtual(q.mbox, s, Tail(h)), Bind(e))
      BY <1>1 DEF md
    <2> HIDE DEF found1
    <2> QED BY <2>1, <1>0, <1>2, <1>3, <1>4, AttachGood
  <1>7. q2 = ProcessSeqnum(q1, s)
    OBVIOUS
  <1> HIDE DEF q1
  <1>6. ~At(Virtual(q1.mbox, s, Tail(h)), s, Bind(<<x, "bind">>))
    <2>1. /\ Owner(q1.pipe, Virtual(q1.mbox, s, Tail(h)), pend, e)
          /\ Members(q1.sock, q1.pipe, s)
      BY <1>5 DEF Good, Holds
    <2>2. q1.pipe[e].sink # None
      BY <2>1, <1>5, ContextNoneAssumption DEF Members
    <2>3. ~At(Virtual(q1.mbox, s, Tail(h)), s, Bind(e))
      BY <2>1, <2>2, <1>1 DEF Owner
    <2> QED BY <2>3, <1>1
  <1>8. Good(q2, q2.sock, s, Tail(h), pend, found1 \ {<<x, s>>}, {}) /\ Kept(q1, q2)
    <2>1. <<x, s>> \in found1
      OBVIOUS
    <2> HIDE DEF found1
    <2>2. x = s => x \notin pend
      BY <1>1
    <2>3. Good(q1, q1.sock, s, Tail(h), pend, found1, {}) /\ Tail(h) \in Seq(Commands)
          /\ x \in Connectors
      BY <1>0, <1>5
    <2> QED BY ONLY <2>1, <2>2, <2>3, <1>6, <1>7, s \in Sockets, SeqnumGood
  <1>9. found1 \ {<<x, s>>} = found
    BY DEF x
  <1>10. Kept(q, q2)
    BY <1>5, <1>8, KeptTrans
  <1> QED BY <1>8, <1>9, <1>10

\* The inproc_connected command.
LEMMA JoinedGood ==
    ASSUME NEW q, NEW s \in Sockets, NEW h \in Seq(Commands), NEW pend, NEW found,
           Good(q, q.sock, s, h, pend, found, {}), h # << >>, Head(h) = Joined,
           NEW q2, q2 = ProcessSeqnum(q, s)
    PROVE  Good(q2, q2.sock, s, Tail(h), pend, found, {}) /\ Kept(q, q2)
PROOF
  <1> DEFINE mb == Virtual(q.mbox, s, h)
             md == Virtual(q.mbox, s, Tail(h))
             found1 == found \cup {<<s, s>>}
  <1>0. /\ q \in Library /\ q.ok /\ mb \in Boxes /\ md \in Boxes /\ md = Drop(mb, s)
        /\ Holds(q.pipe, q.sock, q.endpoints, mb, pend, found, {})
        /\ mb[s] # << >> /\ Head(mb[s]) = Joined /\ At(mb, s, Joined)
        /\ Tail(h) \in Seq(Commands)
    BY HeadFacts
  <1> HIDE DEF mb, md, Holds
  <1>1. /\ Holds(q.pipe, q.sock, q.endpoints, md, pend, found1, {})
        /\ s \in Connectors /\ s \notin pend
    BY <1>0, DropJoined
  <1>2. Good(q, q.sock, s, Tail(h), pend, found1, {})
    BY <1>0, <1>1 DEF Good, md
  <1>3. <<s, s>> \notin found
    BY <1>0 DEF Holds, Counting
  <1>4. ~At(md, s, Bind(<<s, "bind">>))
    <2>1. <<s, "bind">> \in Ends /\ <<s, "bind">>[2] = "bind"
      BY <1>1, EndFacts
    <2>2. Owner(q.pipe, md, pend, <<s, "bind">>)
      BY <2>1, <1>1 DEF Holds
    <2>3. s \notin Hosts
      BY <1>1, SocketFacts
    <2> QED BY <2>1, <2>2, <2>3 DEF Owner
  <1>5. Good(q2, q2.sock, s, Tail(h), pend, found1 \ {<<s, s>>}, {}) /\ Kept(q, q2)
    <2>1. <<s, s>> \in found1 /\ ~At(Virtual(q.mbox, s, Tail(h)), s, Bind(<<s, "bind">>))
      BY <1>4 DEF md
    <2> HIDE DEF found1
    <2> QED BY <2>1, <1>0, <1>1, <1>2, SeqnumGood
  <1>6. found1 \ {<<s, s>>} = found
    BY <1>3
  <1> QED BY <1>5, <1>6

\* Whoever is about to send a bind command has no pipe yet.
FoundNew(pipe, found) ==
    \A x \in Connectors, t \in Sockets : <<x, t>> \in found => pipe[<<x, "connect">>].state = "none"

\* A connection that is about to be made has no pipe yet, and gets none.
LEMMA FoundKept ==
    ASSUME NEW q, NEW q1, NEW found, Kept(q, q1), FoundNew(q.pipe, found)
    PROVE  FoundNew(q1.pipe, found)
PROOF
  <1>1. \A x \in Connectors : <<x, "connect">> \in Ends
    BY EndFacts
  <1> QED BY <1>1 DEF Kept, FoundNew

\* object_t::process_command
LEMMA CommandGood ==
    ASSUME NEW q, NEW s \in Sockets, NEW h \in Seq(Commands), NEW pend, NEW found,
           Good(q, q.sock, s, h, pend, found, {}), FoundNew(q.pipe, found), h # << >>,
           NEW q1, q1 = ProcessCommand(q, s, Head(h))
    PROVE  Good(q1, q1.sock, s, Tail(h), pend, found, {}) /\ Kept(q, q1)
PROOF
  <1> DEFINE m == Head(h)
             mb == Virtual(q.mbox, s, h)
  <1>0. m \in Commands /\ q \in Library /\ At(mb, s, m) /\ Tail(h) \in Seq(Commands)
        /\ Holds(q.pipe, q.sock, q.endpoints, mb, pend, found, {})
    BY HeadFacts
  <1> HIDE DEF m, mb
  <1>1. ASSUME NEW e \in Ends, m = Wake(e)
        PROVE  Good(q1, q1.sock, s, Tail(h), pend, found, {}) /\ Kept(q, q1)
    <2>1. m.type = "activate_read" /\ m.end = e
      BY <1>1 DEF Wake, Command
    <2>2. q1 = ProcessActivateRead(q, e)
      BY <2>1 DEF ProcessCommand, m
    <2>3. After(q, q1, q.sock, s, Tail(h), pend, found, {})
      BY <2>2, <1>1, ActivateReadGood DEF m
    <2> QED BY <2>3 DEF After
  <1>2. ASSUME NEW e \in Ends, m = Ask(e)
        PROVE  Good(q1, q1.sock, s, Tail(h), pend, found, {}) /\ Kept(q, q1)
    <2>1. m.type = "pipe_term" /\ m.end = e
      BY <1>2 DEF Ask, Command
    <2>2. q1 = ProcessPipeTerm(q, e)
      BY <2>1 DEF ProcessCommand, m
    <2>3. After(q, q1, q.sock, s, Tail(h), pend, found, {})
      BY <2>2, <1>2, PipeTermGood DEF m
    <2> QED BY <2>3 DEF After
  <1>3. ASSUME NEW e \in Ends, m = Ack(e)
        PROVE  Good(q1, q1.sock, s, Tail(h), pend, found, {}) /\ Kept(q, q1)
    <2>1. m.type = "pipe_term_ack" /\ m.end = e
      BY <1>3 DEF Ack, Command
    <2>2. q1 = ProcessPipeTermAck(q, e)
      BY <2>1 DEF ProcessCommand, m
    <2> QED BY <2>2, <1>3, PipeTermAckGood DEF m
  <1>4. ASSUME NEW e \in Ends, m = Bind(e)
        PROVE  Good(q1, q1.sock, s, Tail(h), pend, found, {}) /\ Kept(q, q1)
    <2>1. m.type = "bind" /\ m.end = e
      BY <1>4 DEF Bind, Command
    <2>2. q1 = ProcessSeqnum(AttachPipe(q, s, e), s)
      BY <2>1 DEF ProcessCommand, m
    <2>3. <<e[1], s>> \notin found
      <3>1. /\ e[1] \in Connectors /\ <<e[1], "connect">> \in Ends
            /\ \/ e[2] = "connect"
               \/ e[2] = "bind" /\ Peer(e) = <<e[1], "connect">>
        <4>1. e[1] \in Connectors /\ <<e[1], "connect">> \in Ends /\ e[2] \in {"connect", "bind"}
          BY EndFacts
        <4>2. e[2] = "bind" => Peer(e) = <<e[1], "connect">>
          BY DEF Peer
        <4> QED BY <4>1, <4>2
      <3>2. Owner(q.pipe, mb, pend, e) /\ Handshake(q.pipe, mb, e)
        BY <1>0 DEF Holds
      <3>3. e[2] = "bind" /\ q.pipe[e].state # "none"
        BY <3>1, <3>2, <1>0, <1>4 DEF Owner, Sent
      <3>4. q.pipe[<<e[1], "connect">>].state # "none"
        BY <3>1, <3>2, <3>3 DEF Handshake
      <3> QED BY <3>1, <3>4 DEF FoundNew
    <2> QED BY <2>2, <2>3, <1>4, BindGood DEF m
  <1>5. CASE m = Joined
    <2>1. m.type = "inproc_connected"
      BY <1>5 DEF Joined, Command
    <2>2. q1 = ProcessSeqnum(q, s)
      BY <2>1 DEF ProcessCommand, m
    <2> QED BY <2>2, <1>5, JoinedGood DEF m
  <1>6. CASE m = Stopped
    <2>1. m.type = "stop"
      BY <1>6 DEF Stopped, Command
    <2>2. q1 = EditTold(q, s)
      BY <2>1 DEF ProcessCommand, m, EditTold
    <2> QED BY <2>2, <1>6, StopGood DEF m
  <1> QED BY <1>0, <1>1, <1>2, <1>3, <1>4, <1>5, <1>6, CommandCases

-----------------------------------------------------------------------------
(* Folds.                                                                    *)

\* A set of naturals has a least element.
LEMMA NatLeast ==
    ASSUME NEW T \in SUBSET Nat, T # {}
    PROVE  \E x \in T : \A y \in T : x <= y
PROOF
  <1> DEFINE R == OpToRel(<, Nat)
  <1>1. IsWellFoundedOn(R, Nat)
    BY NatLessThanWellFounded
  <1>2. PICK x \in T : \A y \in T : ~(<<y, x>> \in R)
    BY <1>1, WFMin
  <1>3. \A y \in T : x <= y
    <2> SUFFICES ASSUME NEW y \in T, ~(x <= y) PROVE FALSE
      OBVIOUS
    <2>1. y < x /\ x \in Nat /\ y \in Nat
      OBVIOUS
    <2>2. <<y, x>> \in R
      BY <2>1 DEF OpToRel
    <2> QED BY <2>2, <1>2
  <1> QED BY <1>3

\* Induction, for a set of naturals.
LEMMA NatSetInduction ==
    ASSUME NEW T \in SUBSET Nat, 0 \in T, \A n \in T : n + 1 \in T
    PROVE  T = Nat
PROOF
  <1> SUFFICES ASSUME Nat \ T # {} PROVE FALSE
    OBVIOUS
  <1>1. PICK x \in Nat \ T : \A y \in Nat \ T : x <= y
    BY NatLeast
  <1>2. x # 0 /\ x - 1 \in Nat
    OBVIOUS
  <1>3. x - 1 \in T
    BY <1>1, <1>2
  <1>4. (x - 1) + 1 \in T
    BY <1>3
  <1> QED BY <1>2, <1>4

\* Recursion over the subsets of a finite set, which loses an element at each step.
Smaller(S, n) == {t \in SUBSET S : Cardinality(t) < n}

\* The subsets with fewer than n elements; every subset is one for some n.
LEMMA SmallerFacts ==
    ASSUME NEW S, IsFiniteSet(S)
    PROVE  /\ Smaller(S, 0) = {}
           /\ \A n \in Nat : Smaller(S, n) \subseteq Smaller(S, n + 1)
           /\ \A n \in Nat : \A t \in Smaller(S, n + 1) : \A x \in t : t \ {x} \in Smaller(S, n)
           /\ \A n \in Nat : \A t \in Smaller(S, n) : \A x \in t : t \ {x} \in Smaller(S, n)
           /\ Cardinality(S) + 1 \in Nat /\ Smaller(S, Cardinality(S) + 1) = SUBSET S
PROOF
  <1>1. \A t \in SUBSET S : IsFiniteSet(t) /\ Cardinality(t) \in Nat /\ Cardinality(t) <= Cardinality(S)
    BY FS_Subset, FS_CardinalityType
  <1>2. \A t \in SUBSET S : \A x \in t : Cardinality(t \ {x}) = Cardinality(t) - 1
    BY <1>1, FS_RemoveElement
  <1>3. Cardinality(S) \in Nat
    BY FS_CardinalityType
  <1>4. Smaller(S, 0) = {}
    BY <1>1 DEF Smaller
  <1>5. \A n \in Nat : Smaller(S, n) \subseteq Smaller(S, n + 1)
    BY <1>1 DEF Smaller
  <1>6. ASSUME NEW n \in Nat, NEW t \in Smaller(S, n + 1), NEW x \in t
        PROVE  t \ {x} \in Smaller(S, n)
    <2>1. t \in SUBSET S /\ Cardinality(t) < n + 1
      BY <1>6 DEF Smaller
    <2>2. Cardinality(t \ {x}) = Cardinality(t) - 1 /\ Cardinality(t) \in Nat
      BY <2>1, <1>1, <1>2
    <2>3. t \ {x} \in SUBSET S /\ Cardinality(t \ {x}) < n
      BY <2>1, <2>2
    <2> QED BY <2>3 DEF Smaller
  <1>7. \A n \in Nat : \A t \in Smaller(S, n) : \A x \in t : t \ {x} \in Smaller(S, n)
    BY <1>5, <1>6
  <1>8. Smaller(S, Cardinality(S) + 1) = SUBSET S
    BY <1>1, <1>3 DEF Smaller
  <1> QED BY <1>3, <1>4, <1>5, <1>6, <1>7, <1>8

\* The greatest element of an interval.
LEMMA MaxIn ==
    ASSUME NEW n \in Nat
    PROVE  /\ \A t \in SUBSET (1 .. n) : t # {} => Max(t) \in t
           /\ \A i \in 1 .. n : Max(1 .. i) = i /\ (1 .. i) \ {i} = 1 .. i - 1
PROOF
  <1>1. ASSUME NEW t \in SUBSET (1 .. n), t # {} PROVE Max(t) \in t
    <2> DEFINE T == {n - x : x \in t}
    <2>1. T \in SUBSET Nat /\ T # {}
      <3>1. \A x \in t : n - x \in Nat
        BY <1>1
      <3> QED BY <3>1, <1>1
    <2>2. PICK y \in T : \A u \in T : y <= u
      BY <2>1, NatLeast
    <2>3. PICK x \in t : y = n - x
      OBVIOUS
    <2>4. \A u \in t : x >= u
      BY <2>2, <2>3
    <2> QED BY <2>4 DEF Max
  <1>2. ASSUME NEW i \in 1 .. n PROVE Max(1 .. i) = i /\ (1 .. i) \ {i} = 1 .. i - 1
    <2>1. i \in 1 .. i /\ \A y \in 1 .. i : i >= y
      OBVIOUS
    <2>2. \A x \in 1 .. i : (\A y \in 1 .. i : x >= y) => x = i
      OBVIOUS
    <2>3. Max(1 .. i) = i
      BY <2>1, <2>2 DEF Max
    <2> QED BY <2>3
  <1> QED BY <1>1, <1>2


\* socket_base_t::process_commands, along the commands one after the other.
Iterates(iter, q, s) ==
    iter = [t \in SUBSET (DOMAIN q.mbox[s]) |->
              IF t = {} THEN [q EXCEPT !.mbox[s] = << >>]
              ELSE ProcessCommand(iter[t \ {Max(t)}], s, q.mbox[s][Max(t)])]

\* process_commands, as the fold over the mailbox is defined.
LEMMA CommandsUnfold ==
    ASSUME NEW q, NEW s
    PROVE  ProcessCommands(q, s) = (CHOOSE iter : Iterates(iter, q, s))[DOMAIN q.mbox[s]]
  BY Zenon DEF ProcessCommands, FoldLeft, MapThenFoldSet, Iterates

Handles(g, D, q, s) ==
    g = [t \in D |-> IF t = {} THEN [q EXCEPT !.mbox[s] = << >>]
                     ELSE ProcessCommand(g[t \ {Max(t)}], s, q.mbox[s][Max(t)])]

\* There is a function that satisfies the recursion of the fold.
LEMMA HandlesSome ==
    ASSUME NEW q, NEW s, NEW n \in Nat, DOMAIN q.mbox[s] = 1 .. n
    PROVE  \E g : Handles(g, SUBSET (1 .. n), q, s)
PROOF
  <1> DEFINE S == 1 .. n
             T == {k \in Nat : \E g : Handles(g, Smaller(S, k), q, s)}
  <1>0. IsFiniteSet(S) /\ \A t \in SUBSET S : t # {} => Max(t) \in t
    <2>1. 1 \in Int /\ n \in Int
      OBVIOUS
    <2>2. IsFiniteSet(1 .. n)
      BY <2>1, FS_Interval
    <2>3. \A t \in SUBSET (1 .. n) : t # {} => Max(t) \in t
      BY MaxIn
    <2> QED BY <2>2, <2>3
  <1> HIDE DEF S
  <1>1. 0 \in T
    <2>1. Smaller(S, 0) = {}
      BY <1>0, SmallerFacts
    <2>2. Handles([t \in {} |-> 0], {}, q, s)
      BY DEF Handles
    <2> QED BY <2>1, <2>2
  <1>2. ASSUME NEW k \in T PROVE k + 1 \in T
    <2>0. k \in Nat
      OBVIOUS
    <2>1. PICK g : Handles(g, Smaller(S, k), q, s)
      OBVIOUS
    <2> DEFINE Step(t) == IF t = {} THEN [q EXCEPT !.mbox[s] = << >>]
                          ELSE ProcessCommand(g[t \ {Max(t)}], s, q.mbox[s][Max(t)])
               D == Smaller(S, k)
               E == Smaller(S, k + 1)
               g1 == [t \in E |-> Step(t)]
    <2>2. \A t \in D : g[t] = Step(t)
      BY <2>1 DEF Handles
    <2>3. \A t \in E : t # {} => t \ {Max(t)} \in D /\ t \ {Max(t)} \in E
      <3>1. \A t \in E : t \in SUBSET S
        BY DEF Smaller
      <3> QED BY <3>1, <2>0, <1>0, SmallerFacts
    <2> HIDE DEF D, E
    <2>4. \A t \in E : t # {} => g1[t \ {Max(t)}] = g[t \ {Max(t)}]
      BY <2>2, <2>3
    <2> DEFINE Next1(t) == IF t = {} THEN [q EXCEPT !.mbox[s] = << >>]
                           ELSE ProcessCommand(g1[t \ {Max(t)}], s, q.mbox[s][Max(t)])
    <2>5. \A t \in E : Step(t) = Next1(t)
      BY <2>4
    <2>6. g1 = [t \in E |-> Next1(t)]
      <3> HIDE DEF Step, Next1
      <3> QED BY <2>5
    <2>7. Handles(g1, E, q, s)
      BY <2>6 DEF Handles
    <2> QED BY <2>0, <2>7 DEF E
  <1>3. T = Nat
    <2> HIDE DEF T
    <2>1. T \in SUBSET Nat
      BY DEF T
    <2> QED BY <2>1, <1>1, <1>2, NatSetInduction
  <1>4. Cardinality(S) + 1 \in T /\ Smaller(S, Cardinality(S) + 1) = SUBSET S
    BY <1>0, <1>3, SmallerFacts
  <1> QED BY <1>4 DEF S

\* What has been handled of a mailbox after i commands.
Along(f, q, s, n) ==
    /\ f[0] = [q EXCEPT !.mbox[s] = << >>]
    /\ \A i \in 1 .. n : f[i] = ProcessCommand(f[i - 1], s, q.mbox[s][i])
    /\ f[n] = ProcessCommands(q, s)

\* process_commands goes along the mailbox, command by command.
LEMMA CommandsAlong ==
    ASSUME NEW q, NEW s, NEW n \in Nat, DOMAIN q.mbox[s] = 1 .. n
    PROVE  \E f : Along(f, q, s, n)
PROOF
  <1> DEFINE iter == CHOOSE g : Iterates(g, q, s)
  <1>1. Iterates(iter, q, s)
    <2>1. \E g : Iterates(g, q, s)
      <3>1. PICK g : Handles(g, SUBSET (1 .. n), q, s)
        BY HandlesSome
      <3>2. Iterates(g, q, s)
        BY <3>1, Zenon DEF Handles, Iterates
      <3> QED BY <3>2
    <2> QED BY <2>1
  <1>2. ProcessCommands(q, s) = iter[1 .. n]
    BY CommandsUnfold
  <1> HIDE DEF iter
  <1> DEFINE f == [i \in 0 .. n |-> iter[1 .. i]]
  <1>3. ASSUME NEW t \in SUBSET (1 .. n)
        PROVE  iter[t] = IF t = {} THEN [q EXCEPT !.mbox[s] = << >>]
                         ELSE ProcessCommand(iter[t \ {Max(t)}], s, q.mbox[s][Max(t)])
    BY <1>1 DEF Iterates
  <1>4. f[0] = [q EXCEPT !.mbox[s] = << >>]
    <2>1. 1 .. 0 = {} /\ f[0] = iter[1 .. 0]
      OBVIOUS
    <2> QED BY <2>1, <1>3
  <1>5. ASSUME NEW i \in 1 .. n PROVE f[i] = ProcessCommand(f[i - 1], s, q.mbox[s][i])
    <2>1. /\ Max(1 .. i) = i /\ (1 .. i) \ {i} = 1 .. i - 1 /\ 1 .. i # {}
          /\ 1 .. i \in SUBSET (1 .. n)
      <3>1. Max(1 .. i) = i /\ (1 .. i) \ {i} = 1 .. i - 1
        BY MaxIn
      <3>2. 1 .. i # {} /\ 1 .. i \in SUBSET (1 .. n)
        OBVIOUS
      <3> QED BY <3>1, <3>2
    <2>2. iter[1 .. i] = ProcessCommand(iter[1 .. i - 1], s, q.mbox[s][i])
      BY <2>1, <1>3
    <2>3. f[i] = iter[1 .. i] /\ f[i - 1] = iter[1 .. i - 1]
      OBVIOUS
    <2> QED BY <2>2, <2>3
  <1>6. f[n] = ProcessCommands(q, s)
    BY <1>2
  <1> HIDE DEF f
  <1>7. Along(f, q, s, n)
    BY <1>4, <1>5, <1>6 DEF Along
  <1> QED BY <1>7

\* The library when no socket is handling commands.
Sound(q, pend, found, X) ==
    /\ q \in Library /\ q.ok
    /\ Holds(q.pipe, q.sock, q.endpoints, q.mbox, pend, found, X)

\* Between commands, the invariant of the library is that of one of its
\* sockets with nothing taken out.
LEMMA SoundGood ==
    ASSUME NEW q \in Library, NEW s \in Sockets, NEW pend, NEW found, NEW X
    PROVE  Sound(q, pend, found, X) <=> Good(q, q.sock, s, << >>, pend, found, X)
PROOF
  <1>1. Virtual(q.mbox, s, << >>) = q.mbox
    BY LibraryTypes, VirtualNone
  <1> QED BY <1>1 DEF Sound, Good

\* Taking all the commands out of a mailbox changes nothing of what is under
\* way.
LEMMA TakeOut ==
    ASSUME NEW q, NEW s \in Sockets, NEW pend, NEW found, NEW X, Sound(q, pend, found, X),
           NEW q0, q0 = [q EXCEPT !.mbox[s] = << >>]
    PROVE  Good(q0, q0.sock, s, q.mbox[s], pend, found, X) /\ Kept(q, q0)
PROOF
  <1>0. q \in Library /\ q.ok /\ q.mbox \in Boxes
    BY LibraryTypes DEF Sound
  <1> DEFINE mb == [q.mbox EXCEPT ![s] = << >>]
  <1>1. mb \in Boxes
    <2>1. << >> \in Seq(Commands)
      OBVIOUS
    <2> QED BY <2>1, <1>0 DEF Boxes
  <1>2. Virtual(mb, s, q.mbox[s]) = q.mbox
    <2>1. q.mbox[s] \in Seq(Commands)
      BY <1>0 DEF Boxes
    <2>2. q.mbox[s] \o << >> = q.mbox[s]
      BY <2>1, ConcatEmptySeq
    <2>3. mb[s] = << >>
      BY <1>0 DEF Boxes
    <2>4. Virtual(mb, s, q.mbox[s]) = [mb EXCEPT ![s] = q.mbox[s]]
      BY <2>2, <2>3 DEF Virtual
    <2> QED BY <2>4, <1>0 DEF Boxes
  <1>3. q0 = [q EXCEPT !.mbox = mb]
    BY <1>0 DEF Library
  <1> HIDE DEF mb
  <1>4. /\ q0 \in Library /\ q0.mbox = mb /\ q0.pipe = q.pipe /\ q0.sock = q.sock
        /\ q0.endpoints = q.endpoints /\ q0.pending = q.pending /\ q0.ok = q.ok
    BY <1>0, <1>1, <1>3 DEF Library
  <1>5. Good(q0, q0.sock, s, q.mbox[s], pend, found, X)
    BY <1>0, <1>2, <1>4 DEF Good, Sound
  <1> QED BY <1>4, <1>5 DEF Kept

\* socket_base_t::process_commands
LEMMA CommandsGood ==
    ASSUME NEW q, NEW s \in Sockets, NEW pend, NEW found, Sound(q, pend, found, {}),
           FoundNew(q.pipe, found), NEW q1, q1 = ProcessCommands(q, s)
    PROVE  Sound(q1, pend, found, {}) /\ Kept(q, q1)
PROOF
  <1> DEFINE h == q.mbox[s]
             n == Len(h)
             q0 == [q EXCEPT !.mbox[s] = << >>]
  <1>0. h \in Seq(Commands) /\ n \in Nat /\ DOMAIN h = 1 .. n
    BY LibraryTypes DEF Sound, Boxes
  <1>1. PICK f : /\ f[0] = q0
                 /\ \A i \in 1 .. n : f[i] = ProcessCommand(f[i - 1], s, h[i])
                 /\ f[n] = q1
    <2>1. PICK f : Along(f, q, s, n)
      <3> HIDE DEF n
      <3> QED BY <1>0, CommandsAlong
    <2> QED BY <2>1 DEF Along
  <1>2. Good(q0, q0.sock, s, h, pend, found, {}) /\ Kept(q, q0)
    BY TakeOut
  <1> HIDE DEF h, n, q0
  <1> DEFINE R(i) == SubSeq(h, i + 1, n)
             P(i) == Good(f[i], f[i].sock, s, R(i), pend, found, {}) /\ Kept(q, f[i])
             T == {i \in Nat : i <= n => P(i)}
  <1>3. 0 \in T
    <2>1. R(0) = h
      BY <1>0, SubSeqFull DEF n
    <2>2. P(0)
      BY <2>1, <1>1, <1>2
    <2> HIDE DEF P
    <2> QED BY <2>2
  <1>4. ASSUME NEW i \in T PROVE i + 1 \in T
    <2>0. i \in Nat
      OBVIOUS
    <2> SUFFICES ASSUME i + 1 <= n PROVE P(i + 1)
      <3> HIDE DEF P
      <3> QED BY <2>0
    <2>1. P(i)
      <3> HIDE DEF P
      <3> QED BY <2>0, <1>0
    <2>2. R(i) \in Seq(Commands) /\ R(i) # << >>
      <3>1. i + 1 \in Int /\ n \in Int /\ \A j \in i + 1 .. n : h[j] \in Commands
        BY <2>0, <1>0 DEF n
      <3>2. R(i) \in Seq(Commands) /\ Len(R(i)) = IF i + 1 <= n THEN n - (i + 1) + 1 ELSE 0
        BY <3>1, SubSeqProperties
      <3>3. Len(R(i)) # 0
        BY <3>2, <2>0, <1>0
      <3> QED BY <3>2, <3>3
    <2>3. Head(R(i)) = h[i + 1] /\ Tail(R(i)) = R(i + 1)
      <3>1. i + 1 \in 1 .. Len(h) /\ n \in i + 1 .. Len(h)
        BY <2>0, <1>0 DEF n
      <3> QED BY <3>1, <1>0, HeadTailOfSubSeq
    <2>4. f[i + 1] = ProcessCommand(f[i], s, Head(R(i)))
      <3>1. i + 1 \in 1 .. n /\ (i + 1) - 1 = i
        BY <2>0, <1>0
      <3> QED BY <3>1, <2>3, <1>1
    <2> HIDE DEF R
    <2>5. FoundNew(f[i].pipe, found)
      BY <2>1, FoundKept
    <2>6. Good(f[i + 1], f[i + 1].sock, s, Tail(R(i)), pend, found, {}) /\ Kept(f[i], f[i + 1])
      BY <2>1, <2>2, <2>4, <2>5, CommandGood
    <2> QED BY <2>1, <2>3, <2>6, KeptTrans
  <1>5. n \in T
    <2> HIDE DEF T
    <2>1. T \in SUBSET Nat
      BY DEF T
    <2> QED BY <2>1, <1>0, <1>3, <1>4, NatSetInduction
  <1>6. P(n)
    <2> HIDE DEF P
    <2> QED BY <1>0, <1>5
  <1>7. R(n) = << >>
    <2>1. n + 1 \in Int /\ n \in Int /\ n < n + 1
      BY <1>0
    <2> QED BY <2>1, SubSeqEmpty
  <1>8. Good(q1, q1.sock, s, << >>, pend, found, {}) /\ Kept(q, q1)
    BY <1>1, <1>6, <1>7
  <1>9. q1 \in Library
    BY <1>8 DEF Good
  <1> QED BY <1>8, <1>9, SoundGood

-----------------------------------------------------------------------------
(* A socket terminates.                                                      *)

Chosen(t) == CHOOSE x \in t : TRUE

\* The pipe ends of t have been terminated, starting from q.
Stops(g, q, D) ==
    g = [t \in D |-> IF t = {} THEN q ELSE Terminate(g[t \ {Chosen(t)}], Chosen(t), FALSE)]

\* There is a function that satisfies the recursion of the fold over the
\* pipes.
LEMMA StopsSome ==
    ASSUME NEW q, NEW S, IsFiniteSet(S)
    PROVE  \E g : Stops(g, q, SUBSET S)
PROOF
  <1> DEFINE T == {k \in Nat : \E g : Stops(g, q, Smaller(S, k))}
  <1>0. \A t \in SUBSET S : t # {} => Chosen(t) \in t
    BY DEF Chosen
  <1>1. 0 \in T
    <2>1. Smaller(S, 0) = {}
      BY SmallerFacts
    <2>2. Stops([t \in {} |-> 0], q, {})
      BY DEF Stops
    <2> QED BY <2>1, <2>2
  <1>2. ASSUME NEW k \in T PROVE k + 1 \in T
    <2>0. k \in Nat
      OBVIOUS
    <2>1. PICK g : Stops(g, q, Smaller(S, k))
      OBVIOUS
    <2> DEFINE Step(t) == IF t = {} THEN q ELSE Terminate(g[t \ {Chosen(t)}], Chosen(t), FALSE)
               D == Smaller(S, k)
               E == Smaller(S, k + 1)
               g1 == [t \in E |-> Step(t)]
    <2>2. \A t \in D : g[t] = Step(t)
      BY <2>1 DEF Stops
    <2>3. \A t \in E : t # {} => t \ {Chosen(t)} \in D /\ t \ {Chosen(t)} \in E
      <3>1. \A t \in E : t \in SUBSET S
        BY DEF Smaller
      <3> QED BY <3>1, <2>0, <1>0, SmallerFacts
    <2> HIDE DEF D, E
    <2>4. \A t \in E : t # {} => g1[t \ {Chosen(t)}] = g[t \ {Chosen(t)}]
      BY <2>2, <2>3
    <2> DEFINE Next1(t) == IF t = {} THEN q ELSE Terminate(g1[t \ {Chosen(t)}], Chosen(t), FALSE)
    <2>5. \A t \in E : Step(t) = Next1(t)
      BY <2>4
    <2>6. g1 = [t \in E |-> Next1(t)]
      <3> HIDE DEF Step, Next1
      <3> QED BY <2>5
    <2>7. Stops(g1, q, E)
      BY <2>6 DEF Stops
    <2> QED BY <2>0, <2>7 DEF E
  <1>3. T = Nat
    <2> HIDE DEF T
    <2>1. T \in SUBSET Nat
      BY DEF T
    <2> QED BY <2>1, <1>1, <1>2, NatSetInduction
  <1>4. Cardinality(S) + 1 \in T /\ Smaller(S, Cardinality(S) + 1) = SUBSET S
    BY <1>3, SmallerFacts
  <1> QED BY <1>4

EditUnbind(q, s) ==
    [q EXCEPT !.endpoints = [a \in DOMAIN @ |-> IF @[a] = s THEN None ELSE @[a]]]
EditTerm(q, s, n) == [q EXCEPT !.sock[s].term_acks = @ + n, !.sock[s].terminating = TRUE]

TermAlong(g, q, s, S) ==
    /\ Stops(g, EditUnbind(q, s), SUBSET S)
    /\ ProcessTerm(q, s)
         = CheckTermAcks(EditTerm(Require(g[S], ~q.sock[s].terminating), s, Cardinality(S)), s)

\* process_term goes along the pipes of the socket, pipe by pipe.
LEMMA TermUnfold ==
    ASSUME NEW q, NEW s, NEW S, S = q.sock[s].pipes, IsFiniteSet(S)
    PROVE  \E g : TermAlong(g, q, s, S)
PROOF
  <1> DEFINE g == CHOOSE g : Stops(g, EditUnbind(q, s), SUBSET S)
  <1>1. Stops(g, EditUnbind(q, s), SUBSET S)
    BY StopsSome
  <1>2. FoldSet(LAMBDA e, acc : Terminate(acc, e, FALSE), EditUnbind(q, s), S) = g[S]
    BY Zenon DEF FoldSet, MapThenFoldSet, Stops, Chosen
  <1> HIDE DEF g
  <1>3. ProcessTerm(q, s)
          = CheckTermAcks(EditTerm(Require(g[S], ~q.sock[s].terminating), s, Cardinality(S)), s)
    BY <1>2, Zenon DEF ProcessTerm, EditTerm, EditUnbind
  <1> QED BY <1>1, <1>3 DEF TermAlong

\* process_term: ending all the pipes of a socket keeps the invariant.
LEMMA StopsGood ==
    ASSUME NEW q, NEW sock, NEW s \in Sockets, NEW pend, NEW found,
           Good(q, sock, s, << >>, pend, found, {}),
           NEW S, S = sock[s].pipes, sock[s].stage = "reaping",
           NEW g, Stops(g, q, SUBSET S)
    PROVE  After(q, g[S], sock, s, << >>, pend, found, {})
PROOF
  <1> DEFINE P(t) == After(q, g[t], sock, s, << >>, pend, found, {})
             T == {k \in Nat : \A t \in Smaller(S, k) : P(t)}
  <1>0. /\ S \in SUBSET Ends /\ IsFiniteSet(S) /\ << >> \in Seq(Commands)
        /\ s # None /\ sock \in SocketTable
    <2>1. sock \in SocketTable
      BY DEF Good, Holds
    <2>2. S \in SUBSET Ends
      BY <2>1 DEF SocketTable, SocketType
    <2>3. IsFiniteSet(S)
      BY <2>2, PipesFinite
    <2>4. << >> \in Seq(Commands) /\ s # None
      BY ContextNoneAssumption
    <2> QED BY <2>1, <2>2, <2>3, <2>4
  <1>1. \A t \in SUBSET S : g[t] = IF t = {} THEN q ELSE Terminate(g[t \ {Chosen(t)}], Chosen(t), FALSE)
    BY DEF Stops
  <1>2. ASSUME NEW k \in T PROVE k + 1 \in T
    <2>0. k \in Nat /\ \A t \in Smaller(S, k) : P(t)
      <3> HIDE DEF P
      <3> QED OBVIOUS
    <2> SUFFICES ASSUME NEW t \in Smaller(S, k + 1) PROVE P(t)
      <3> HIDE DEF P
      <3> QED BY <2>0
    <2>1. t \in SUBSET S
      BY DEF Smaller
    <2>2. CASE t = {}
      <3>1. g[t] = q
        BY <2>1, <2>2, <1>1
      <3> QED BY <3>1, KeptItself DEF After
    <2>3. CASE t # {}
      <3> DEFINE e == Chosen(t)
                 q1 == g[t \ {e}]
      <3>1. e \in t /\ e \in S /\ e \in Ends
        BY <2>1, <2>3, <1>0 DEF Chosen
      <3>2. P(t \ {e})
        <4>1. t \ {e} \in Smaller(S, k)
          BY <3>1, <2>0, <1>0, SmallerFacts
        <4> HIDE DEF P
        <4> QED BY <4>1, <2>0
      <3>3. g[t] = Terminate(q1, e, FALSE)
        BY <2>1, <2>3, <1>1
      <3> HIDE DEF e, q1
      <3>4. Good(q1, sock, s, << >>, pend, found, {}) /\ Kept(q, q1) /\ q1.sock = q.sock
        BY <3>2 DEF After, q1
      <3>5. q1.pipe[e].sink = s /\ q1.pipe[e].state # "deleted"
        <4>1. Members(sock, q1.pipe, s)
          BY <3>4 DEF Good, Holds
        <4> QED BY <4>1, <3>1 DEF Members
      <3>6. After(q1, g[t], sock, s, << >>, pend, found, {})
        <4>1. FALSE \in BOOLEAN /\ sock[q1.pipe[e].sink].stage \notin {"none", "open"}
          BY <3>5
        <4> QED BY <4>1, <3>1, <3>3, <3>4, <3>5, <1>0, TerminateGood, ZenonT(60)
      <3> QED BY <3>4, <3>6, KeptTrans DEF After
    <2> QED BY <2>2, <2>3
  <1>3. 0 \in T
    <2>1. Smaller(S, 0) = {}
      BY <1>0, SmallerFacts
    <2> HIDE DEF P
    <2> QED BY <2>1
  <1>4. T = Nat
    <2> HIDE DEF T
    <2>1. T \in SUBSET Nat
      BY DEF T
    <2> QED BY <2>1, <1>2, <1>3, NatSetInduction
  <1>5. Cardinality(S) + 1 \in T /\ S \in Smaller(S, Cardinality(S) + 1)
    BY <1>0, <1>4, SmallerFacts
  <1> HIDE DEF P
  <1>6. P(S)
    BY <1>5
  <1> QED BY <1>6 DEF P

Reaping(v) == [v EXCEPT !.stage = "reaping"]
Terminated(v, n) == [v EXCEPT !.term_acks = @ + n, !.terminating = TRUE]
EditReaping(q, s) == [q EXCEPT !.sock[s].stage = "reaping"]

\* The updates of process_term, written as a replaced socket.
LEMMA TermEdits ==
    ASSUME NEW q \in Library, NEW s \in Sockets, NEW n \in Nat
    PROVE  /\ EditReaping(q, s) = WithSock(q, s, Reaping(q.sock[s]))
           /\ EditTerm(q, s, n) = WithSock(q, s, Terminated(q.sock[s], n))
           /\ Reaping(q.sock[s]) \in SocketType /\ Terminated(q.sock[s], n) \in SocketType
PROOF
  <1>0. q.sock \in SocketTable /\ q.sock[s] \in SocketType
    BY LibraryTypes
  <1>1. EditReaping(q, s) = WithSock(q, s, Reaping(q.sock[s]))
    BY DEF WithSock, Reaping, EditReaping
  <1>2. EditTerm(q, s, n) = WithSock(q, s, Terminated(q.sock[s], n))
    BY <1>0 DEF WithSock, Terminated, EditTerm, Library, SocketTable, SocketType
  <1>3. "reaping" \in Stages
    BY DEF Stages
  <1>4. Reaping(q.sock[s]) \in SocketType
    BY <1>0, <1>3 DEF Reaping, SocketType
  <1>5. Terminated(q.sock[s], n) \in SocketType
    <2>1. q.sock[s].term_acks + n \in Nat /\ TRUE \in BOOLEAN
      BY <1>0 DEF SocketType
    <2> QED BY <2>1, <1>0 DEF Terminated, SocketType
  <1> QED BY <1>1, <1>2, <1>4, <1>5

\* unregister_endpoints: the socket is no endpoint then.
LEMMA UnbindFacts ==
    ASSUME NEW q \in Library, NEW s, NEW q1, q1 = EditUnbind(q, s)
    PROVE  /\ q1 \in Library /\ q1.sock = q.sock /\ q1.pipe = q.pipe /\ q1.mbox = q.mbox
           /\ q1.pending = q.pending /\ q1.ok = q.ok /\ q1.endpoints \in EndpointTable
           /\ \A a \in ToSet(Bus) :
                 q1.endpoints[a] = IF q.endpoints[a] = s THEN None ELSE q.endpoints[a]
PROOF
  <1>0. q.endpoints \in EndpointTable
    BY LibraryTypes
  <1> DEFINE en == [a \in ToSet(Bus) |-> IF q.endpoints[a] = s THEN None ELSE q.endpoints[a]]
  <1>1. q1 = [q EXCEPT !.endpoints = en]
    <2>1. DOMAIN q.endpoints = ToSet(Bus)
      BY <1>0 DEF EndpointTable
    <2> QED BY <2>1 DEF EditUnbind, Library
  <1>2. en \in EndpointTable
    BY <1>0 DEF EndpointTable
  <1>3. \A a \in ToSet(Bus) : en[a] = IF q.endpoints[a] = s THEN None ELSE q.endpoints[a]
    OBVIOUS
  <1> HIDE DEF en
  <1>4. q1 \in Library /\ q1.endpoints = en /\ q1.sock = q.sock /\ q1.pipe = q.pipe
        /\ q1.mbox = q.mbox /\ q1.pending = q.pending /\ q1.ok = q.ok
    BY <1>1, <1>2 DEF Library
  <1> QED BY <1>2, <1>3, <1>4

\* What a socket that terminates leaves as it was.
Reaped(q, s, q1) ==
    /\ q1.pending = q.pending
    /\ \A a \in ToSet(Bus) : q1.endpoints[a] = IF q.endpoints[a] = s THEN None ELSE q.endpoints[a]
    /\ \A f \in Ends : q1.pipe[f].state = "none" <=> q.pipe[f].state = "none"
    /\ \A u \in Sockets : /\ q1.sock[u].sent = q.sock[u].sent
                          /\ q1.sock[u].stage = IF u = s THEN "reaping" ELSE q.sock[u].stage

\* socket_base_t::start_reaping, process_term and own_t::process_term
LEMMA ProcessTermGood ==
    ASSUME NEW q, NEW s \in Sockets, NEW pend, NEW found, Sound(q, pend, found, {}),
           q.sock[s].stage = "closed",
           NEW q1, q1 = ProcessTerm(EditReaping(q, s), s)
    PROVE  Sound(q1, pend, found, {}) /\ Reaped(q, s, q1)
PROOF
  <1> DEFINE v == q.sock[s]
             S == v.pipes
             n == Cardinality(S)
             v1 == Reaping(v)
             w == Terminated(v1, n)
             qa == WithSock(q, s, v1)
             qb == EditUnbind(qa, s)
             sock1 == [q.sock EXCEPT ![s] = w]
  <1>0. /\ q \in Library /\ q.ok /\ v \in SocketType /\ q.sock \in SocketTable
        /\ S \in SUBSET Ends /\ IsFiniteSet(S) /\ n \in Nat
        /\ Holds(q.pipe, q.sock, q.endpoints, q.mbox, pend, found, {})
        /\ << >> \in Seq(Commands)
    <2>1. q \in Library /\ q.ok /\ v \in SocketType /\ q.sock \in SocketTable
          /\ Holds(q.pipe, q.sock, q.endpoints, q.mbox, pend, found, {})
      BY LibraryTypes DEF Sound
    <2>2. S \in SUBSET Ends
      BY <2>1 DEF SocketType
    <2> QED BY <2>1, <2>2, PipesFinite
  <1>1. ~v.terminating /\ v.term_acks = 0 /\ v.stage = "closed"
    <2>1. Members(q.sock, q.pipe, s) /\ Counting(q.sock, q.mbox, pend, found, s)
      BY <1>0 DEF Holds
    <2> QED BY <2>1 DEF Members, Counting
  <1> HIDE DEF n, S, v
  <1>2. /\ v1 \in SocketType /\ v1.stage = "reaping" /\ v1.pipes = S /\ v1.only = v.only
        /\ v1.sent = v.sent /\ v1.processed = v.processed /\ v1.term_acks = 0
        /\ ~v1.terminating /\ v1.destroyed = v.destroyed
    <2>1. v1 \in SocketType
      BY <1>0, TermEdits DEF v
    <2> QED BY <2>1, <1>0, <1>1 DEF Reaping, SocketType, S
  <1>3. IsWithSock(q, s, v1, qa) /\ qa = EditReaping(q, s)
    <2>1. qa = EditReaping(q, s)
      BY <1>0, TermEdits DEF v
    <2> HIDE DEF v1
    <2> QED BY <2>1, <1>0, <1>2, WithSockFacts
  <1>4. qa \in Library /\ qa.sock[s] = v1
    BY <1>3 DEF IsWithSock
  <1> HIDE DEF v1, qa
  <1>5. /\ qb \in Library /\ qb.sock = qa.sock /\ qb.pipe = q.pipe /\ qb.mbox = q.mbox
        /\ qb.pending = q.pending /\ qb.ok /\ qb.endpoints \in EndpointTable
        /\ \A a \in ToSet(Bus) :
              qb.endpoints[a] = IF q.endpoints[a] = s THEN None ELSE q.endpoints[a]
    <2>1. /\ qa.pipe = q.pipe /\ qa.mbox = q.mbox /\ qa.endpoints = q.endpoints
          /\ qa.pending = q.pending /\ qa.ok
      BY <1>0, <1>3 DEF IsWithSock
    <2>2. /\ qb \in Library /\ qb.sock = qa.sock /\ qb.pipe = qa.pipe /\ qb.mbox = qa.mbox
          /\ qb.pending = qa.pending /\ qb.ok = qa.ok /\ qb.endpoints \in EndpointTable
          /\ \A a \in ToSet(Bus) :
                qb.endpoints[a] = IF qa.endpoints[a] = s THEN None ELSE qa.endpoints[a]
      <3> HIDE DEF qb
      <3>1. qb = EditUnbind(qa, s)
        BY DEF qb
      <3> QED BY ONLY <3>1, <1>4, UnbindFacts
    <2> QED BY <2>1, <2>2
  <1>6. /\ w \in SocketType /\ w.pipes = S /\ w.only = v.only /\ w.term_acks = n
        /\ w.sent = v.sent /\ w.processed = v.processed /\ w.terminating /\ w.stage = "reaping"
        /\ w.destroyed = v.destroyed
    <2>1. w \in SocketType
      BY <1>0, <1>4, TermEdits
    <2>2. w.term_acks = 0 + n
      BY <1>2 DEF Terminated, SocketType
    <2>3. /\ w.pipes = S /\ w.only = v.only
          /\ w.sent = v.sent /\ w.processed = v.processed /\ w.terminating /\ w.stage = "reaping"
          /\ w.destroyed = v.destroyed
      BY <1>2 DEF Terminated, SocketType
    <2> QED BY <2>1, <2>2, <2>3, <1>0
  <1> HIDE DEF qb, w
  <1>7. Holds(q.pipe, sock1, qb.endpoints, q.mbox, pend, found, {})
    <2>1. /\ w.pipes = q.sock[s].pipes /\ w.only = q.sock[s].only
          /\ w.term_acks = Cardinality(q.sock[s].pipes)
          /\ w.sent = q.sock[s].sent /\ w.processed = q.sock[s].processed
          /\ w.destroyed = q.sock[s].destroyed
      BY <1>6 DEF v, S, n
    <2>2. \A a \in ToSet(Bus) :
             qb.endpoints[a] = IF q.endpoints[a] = s THEN None ELSE q.endpoints[a]
      BY <1>5
    <2>3. /\ w \in SocketType /\ qb.endpoints \in EndpointTable /\ s \in Sockets
          /\ Holds(q.pipe, q.sock, q.endpoints, q.mbox, pend, found, {})
          /\ w.terminating /\ w.stage = "reaping" /\ q.sock[s].stage = "closed"
      BY <1>0, <1>5, <1>6
    <2> QED BY ONLY <2>1, <2>2, <2>3, TermStep
  <1>8. sock1[s] = w
    BY <1>0 DEF SocketTable
  <1>9. Good(qb, sock1, s, << >>, pend, found, {})
    <2>1. Virtual(qb.mbox, s, << >>) = q.mbox
      BY <1>5, LibraryTypes, VirtualNone
    <2> HIDE DEF sock1
    <2> QED BY <2>1, <1>5, <1>7 DEF Good
  <1>10. PICK g : /\ Stops(g, qb, SUBSET S)
                  /\ q1 = CheckTermAcks(EditTerm(Require(g[S], ~qa.sock[s].terminating), s, n), s)
    <2>1. S = qa.sock[s].pipes /\ q1 = ProcessTerm(qa, s)
      BY <1>2, <1>3, <1>4
    <2>2. PICK g : TermAlong(g, qa, s, S)
      BY <2>1, <1>0, TermUnfold
    <2> QED BY <2>1, <2>2 DEF TermAlong, qb, n
  <1> DEFINE q2 == g[S]
  <1>11. After(qb, q2, sock1, s, << >>, pend, found, {})
    <2> HIDE DEF sock1
    <2> QED BY <1>6, <1>8, <1>9, <1>10, StopsGood
  <1>12. q1 = CheckTermAcks(EditTerm(q2, s, n), s)
    BY <1>2, <1>4, <1>10 DEF Require
  <1> HIDE DEF q2
  <1> DEFINE q3 == WithSock(q2, s, w)
             u == Checked(w)
  <1>13. /\ q2 \in Library /\ q2.sock = qa.sock /\ Kept(qb, q2)
         /\ Good(q2, sock1, s, << >>, pend, found, {})
    BY <1>11, <1>5 DEF After, Good
  <1>14. q3 = EditTerm(q2, s, n)
    BY <1>0, <1>4, <1>13, TermEdits DEF w
  <1>15. IsWithSock(q2, s, w, q3)
    BY <1>6, <1>13, WithSockFacts
  <1>16. q3 \in Library /\ q3.sock[s] = w
    BY <1>15 DEF IsWithSock
  <1> HIDE DEF q3
  <1>17. q1 = WithSock(q3, s, u)
    BY <1>12, <1>14, <1>16, SockEdits
  <1>18. /\ u \in SocketType /\ u.stage = "reaping" /\ u.sent = v.sent /\ StageChange(w, u)
    <2>1. u \in SocketType
      BY <1>6, SockTypes
    <2>2. /\ u.stage = w.stage /\ u.pipes = w.pipes /\ u.only = w.only
          /\ u.term_acks = w.term_acks /\ u.sent = w.sent
          /\ u.processed = w.processed /\ u.terminating = w.terminating
          /\ w.destroyed => u.destroyed
          /\ u.destroyed => w.destroyed \/ Ripe(w)
      BY <1>6, CheckedFields
    <2> HIDE DEF u
    <2>3. StageChange(w, u)
      <3>1. u.stage \notin {"none", "open", "gone"}
        BY <2>2, <1>6
      <3>2. \/ u.destroyed = w.destroyed
            \/ u.destroyed /\ u.terminating /\ u.term_acks = 0 /\ u.processed = u.sent
        <4>1. u.destroyed \in BOOLEAN /\ w.destroyed \in BOOLEAN
          BY <2>1, <1>6 DEF SocketType
        <4> QED BY <4>1, <2>2 DEF Ripe
      <3> QED BY <3>1, <3>2, <2>2 DEF StageChange
    <2> QED BY <2>1, <2>2, <2>3, <1>6
  <1> HIDE DEF u
  <1>19. IsWithSock(q3, s, u, q1)
    BY <1>16, <1>17, <1>18, WithSockFacts
  <1>20. q3.sock = sock1
    <2>1. q3.sock = [qa.sock EXCEPT ![s] = w]
      BY <1>13, <1>15 DEF IsWithSock
    <2>2. qa.sock = [q.sock EXCEPT ![s] = v1]
      BY <1>3 DEF IsWithSock
    <2> QED BY <2>1, <2>2, <1>0 DEF SocketTable
  <1>21. Sound(q3, pend, found, {})
    <2>1. Virtual(q2.mbox, s, << >>) = q2.mbox
      BY <1>13, LibraryTypes, VirtualNone
    <2>2. q3.pipe = q2.pipe /\ q3.mbox = q2.mbox /\ q3.endpoints = q2.endpoints /\ q3.ok = q2.ok
      BY <1>15 DEF IsWithSock
    <2> HIDE DEF sock1
    <2> QED BY <2>1, <2>2, <1>13, <1>16, <1>20 DEF Good, Sound
  <1>22. Sound(q1, pend, found, {})
    <2>1. Holds(q3.pipe, [q3.sock EXCEPT ![s] = u], q3.endpoints, q3.mbox, pend, found, {})
      BY <1>16, <1>18, <1>21, StageStep DEF Sound
    <2> QED BY <2>1, <1>19, <1>21 DEF Sound, IsWithSock
  <1>23. Reaped(q, s, q1)
    <2>1. q1.pending = q.pending /\ q1.endpoints = qb.endpoints
      BY <1>5, <1>13, <1>15, <1>19 DEF IsWithSock, Kept
    <2>2. \A f \in Ends : q1.pipe[f].state = "none" <=> q.pipe[f].state = "none"
      <3>1. q1.pipe = q2.pipe /\ qb.pipe = q.pipe
        BY <1>5, <1>15, <1>19 DEF IsWithSock
      <3>2. \A f \in Ends : q2.pipe[f].state = "none" <=> qb.pipe[f].state = "none"
        BY <1>13 DEF Kept
      <3> QED BY <3>1, <3>2
    <2>3. \A x \in Sockets : x # s => q1.sock[x] = q.sock[x]
      <3>1. \A x \in Sockets : x # s => qa.sock[x] = q.sock[x]
        BY <1>3 DEF IsWithSock
      <3>2. \A x \in Sockets : x # s => q3.sock[x] = q2.sock[x]
        BY <1>15 DEF IsWithSock
      <3>3. \A x \in Sockets : x # s => q1.sock[x] = q3.sock[x]
        BY <1>19 DEF IsWithSock
      <3>4. q2.sock = qa.sock
        BY <1>13
      <3> QED BY <3>1, <3>2, <3>3, <3>4
    <2>4. q1.sock[s] = u
      BY <1>19 DEF IsWithSock
    <2> QED BY <2>1, <2>2, <2>3, <2>4, <1>5, <1>18 DEF Reaped, v
  <1> QED BY <1>22, <1>23

-----------------------------------------------------------------------------
(* Connections are made.                                                     *)

\* What is kept when a connection is made to socket b.
KeptBut(q, q1, b) ==
    /\ q1.endpoints = q.endpoints /\ q1.pending = q.pending
    /\ \A f \in Ends : q1.pipe[f].state = "none" <=> q.pipe[f].state = "none"
    /\ \A u \in Sockets : q1.sock[u].stage = q.sock[u].stage
    /\ \A u \in Sockets \ {b} : q1.sock[u].sent = q.sock[u].sent

\* Steps that change what only socket b sees, one after the other.
LEMMA KeptButMore ==
    /\ \A q, q1, b : Kept(q, q1) => KeptBut(q, q1, b)
    /\ \A q, b : KeptBut(q, q, b)
    /\ \A q, q1, q2, b : KeptBut(q, q1, b) /\ KeptBut(q1, q2, b) => KeptBut(q, q2, b)
  BY DEF Kept, KeptBut

Retargeted(p, b) == [p EXCEPT !.tid = b]
Shortened(p) == [p EXCEPT !.in = Tail(@)]
Handed(p, b) == Shortened(Retargeted(p, b))
EditRetargeted(q, e, b) == [q EXCEPT !.pipe[e].tid = b]
EditShortened(q, e) == [q EXCEPT !.pipe[e].in = Tail(@)]

\* An end that is handed over to the socket that binds.
LEMMA HandedFacts ==
    ASSUME NEW p \in PipeType, NEW b \in Sockets, p.in # << >>, NEW r, r = Handed(p, b)
    PROVE  /\ Retargeted(p, b) \in PipeType /\ r \in PipeType
           /\ Retargeted(p, b).in = p.in /\ Retargeted(p, b).state = p.state
           /\ Retargeted(p, b).in_active = p.in_active
           /\ r.sink = p.sink /\ r.state = p.state /\ r.out = p.out /\ r.tid = b
           /\ r.delay = p.delay /\ r.asleep = p.asleep /\ r.in_active = p.in_active
           /\ "delimiter" \in ToSet(r.in) => "delimiter" \in ToSet(p.in)
PROOF
  <1> DEFINE M == {"id", "msg", "delimiter"}
             p1 == Retargeted(p, b)
  <1>1. /\ p1 \in PipeType /\ p1.in = p.in /\ p1.state = p.state /\ p1.in_active = p.in_active
        /\ p1.sink = p.sink /\ p1.out = p.out /\ p1.tid = b /\ p1.delay = p.delay
        /\ p1.asleep = p.asleep
    BY DEF Retargeted, PipeType
  <1>2. p.in \in Seq(M)
    BY DEF PipeType
  <1>3. /\ Tail(p.in) \in Seq(M) /\ Len(p.in) \in Nat /\ Len(Tail(p.in)) = Len(p.in) - 1
        /\ \A i \in 1 .. Len(Tail(p.in)) : Tail(p.in)[i] = p.in[i + 1]
    <2> HIDE DEF M
    <2> QED BY <1>2, HeadTailProperties
  <1>4. ToSet(Tail(p.in)) \subseteq ToSet(p.in)
    BY <1>2, <1>3 DEF ToSet
  <1> HIDE DEF p1
  <1>5. /\ r \in PipeType /\ r.in = Tail(p.in) /\ r.state = p.state /\ r.in_active = p.in_active
        /\ r.sink = p.sink /\ r.out = p.out /\ r.tid = b /\ r.delay = p.delay
        /\ r.asleep = p.asleep
    <2>1. r = [p1 EXCEPT !.in = Tail(@)]
      BY DEF Handed, Shortened, p1
    <2> QED BY <2>1, <1>1, <1>3 DEF PipeType
  <1> QED BY <1>1, <1>4, <1>5 DEF p1

\* The end that a connection hands over to the socket it is made to.
Adoptable(pipe, e) ==
    LET p == pipe[e]
    IN  /\ p.sink = None /\ p.state \in {"active", "waiting_for_delimiter"} /\ p.delay
        /\ p.in_active /\ ~p.asleep /\ p.tid = pipe[Peer(e)].tid
        /\ p.in # << >> /\ Head(p.in) = "id"

Adopted(q, q1, e, b) ==
    /\ q1.pipe = [q.pipe EXCEPT ![e] = Handed(q.pipe[e], b)]
    /\ q1.sock = [q.sock EXCEPT ![b] = Counted1(q.sock[b])]
    /\ q1.mbox = q.mbox

\* connect_inproc_sockets, the part before the sides differ.
LEMMA AdoptGood ==
    ASSUME NEW q, NEW pend, NEW found, NEW X, Sound(q, pend, found, X),
           NEW s \in Connectors, NEW b \in Hosts, NEW e \in X, e \in Ends, e = <<s, "bind">>,
           Adoptable(q.pipe, e), s \notin Owed(q.mbox, pend, found, b), ~q.sock[b].destroyed,
           NEW q1, q1 = Adopt(q, b, s)
    PROVE  Sound(q1, pend, found \cup {<<s, b>>}, X) /\ Adopted(q, q1, e, b) /\ KeptBut(q, q1, b)
PROOF
  <1> DEFINE w == Counted1(q.sock[b])
             p == q.pipe[e]
             p1 == Retargeted(p, b)
             r == Handed(p, b)
             qa == WithSock(q, b, w)
             qb == WithEnd(qa, e, p1)
             qc == WithEnd(qb, e, r)
  <1>0. /\ q \in Library /\ q.ok /\ b \in Sockets /\ q.sock[b] \in SocketType /\ w \in SocketType
        /\ p \in PipeType /\ q.pipe \in PipeTable
        /\ Holds(q.pipe, q.sock, q.endpoints, q.mbox, pend, found, X)
    <2>1. q \in Library /\ q.ok /\ b \in Sockets
          /\ Holds(q.pipe, q.sock, q.endpoints, q.mbox, pend, found, X)
      BY SocketFacts DEF Sound
    <2>2. q.sock[b] \in SocketType /\ p \in PipeType /\ q.pipe \in PipeTable
      BY <2>1, LibraryTypes
    <2> QED BY <2>1, <2>2, SockTypes
  <1>1. IsWithSock(q, b, w, qa) /\ qa = IncSeqnum(q, b)
    <2>1. qa = IncSeqnum(q, b)
      BY <1>0, SockEdits
    <2> HIDE DEF w
    <2> QED BY <2>1, <1>0, WithSockFacts
  <1>2. /\ p.sink = None /\ p.state \in {"active", "waiting_for_delimiter"}
        /\ p.in_active /\ p.tid = q.pipe[Peer(e)].tid
        /\ p.in # << >> /\ Head(p.in) = "id"
    BY DEF Adoptable
  <1> HIDE DEF p
  <1>3. /\ p1 \in PipeType /\ p1.in = p.in /\ p1.state = p.state /\ p1.in_active = p.in_active
        /\ r \in PipeType /\ r.sink = None /\ r.state = p.state /\ r.out = p.out
        /\ "delimiter" \in ToSet(r.in) => "delimiter" \in ToSet(p.in)
    <2> HIDE DEF r
    <2>1. r = Handed(p, b) /\ p \in PipeType /\ b \in Sockets /\ p.in # << >>
      BY <1>0, <1>2 DEF r
    <2>2. /\ Retargeted(p, b) \in PipeType /\ r \in PipeType
          /\ Retargeted(p, b).in = p.in /\ Retargeted(p, b).state = p.state
          /\ Retargeted(p, b).in_active = p.in_active
          /\ r.sink = p.sink /\ r.state = p.state /\ r.out = p.out
          /\ "delimiter" \in ToSet(r.in) => "delimiter" \in ToSet(p.in)
      BY ONLY <2>1, HandedFacts
    <2> QED BY <2>2, <1>2
  <1>4. /\ qa \in Library /\ qa.pipe = q.pipe /\ qa.pipe[e] = p
        /\ qa.sock = [q.sock EXCEPT ![b] = w] /\ qa.mbox = q.mbox /\ qa.endpoints = q.endpoints
        /\ qa.pending = q.pending /\ qa.ok
    BY <1>0, <1>1 DEF IsWithSock, p
  <1> HIDE DEF qa, p1, r, w
  <1>5. qb = EditRetargeted(qa, e, b)
    BY <1>4 DEF WithEnd, p1, Retargeted, EditRetargeted
  <1>6. IsWith(qa, e, p1, qb)
    BY <1>3, <1>4, WithEndFacts
  <1>7. qb \in Library /\ qb.pipe[e] = p1
    BY <1>6 DEF IsWith
  <1> HIDE DEF qb
  <1>8. qc = EditShortened(qb, e)
    BY <1>7 DEF WithEnd, r, p1, Handed, Shortened, EditShortened
  <1>9. IsWith(qb, e, r, qc)
    BY <1>3, <1>7, WithEndFacts
  <1>10. q1 = qc
    <2>1. CanRead(qb, e) /\ qb.pipe[e].in # << >> /\ Head(qb.pipe[e].in) = "id"
      BY <1>2, <1>3, <1>7 DEF CanRead
    <2>2. [IncSeqnum(q, b) EXCEPT !.pipe[<<s, "bind">>].tid = b] = qb
      BY <1>1, <1>5 DEF EditRetargeted
    <2> QED BY <2>1, <2>2, <1>8 DEF Adopt, EditShortened
  <1> HIDE DEF qc
  <1>11. /\ q1 \in Library /\ q1.ok /\ q1.pipe = [q.pipe EXCEPT ![e] = r]
         /\ q1.sock = [q.sock EXCEPT ![b] = w]
         /\ q1.mbox = q.mbox /\ q1.endpoints = q.endpoints /\ q1.pending = q.pending
    <2>1. /\ q1 \in Library /\ q1.ok /\ q1.pipe = [qb.pipe EXCEPT ![e] = r]
          /\ q1.sock = qa.sock
          /\ q1.mbox = qa.mbox /\ q1.endpoints = qa.endpoints /\ q1.pending = qa.pending
      BY <1>4, <1>6, <1>9, <1>10 DEF IsWith
    <2>2. qb.pipe = [qa.pipe EXCEPT ![e] = p1]
      BY <1>6 DEF IsWith
    <2>3. q1.pipe = [q.pipe EXCEPT ![e] = r]
      BY <2>1, <2>2, <1>0, <1>4 DEF PipeTable
    <2> QED BY <2>1, <2>3, <1>4
  <1>12. Holds(q.pipe, q1.sock, q.endpoints, q.mbox, pend, found \cup {<<s, b>>}, X)
    <2>1. w = [q.sock[b] EXCEPT !.sent = @ + 1]
      BY DEF w, Counted1
    <2> QED BY <2>1, <1>0, <1>11, CountUp
  <1>13. Holds(q1.pipe, q1.sock, q.endpoints, q.mbox, pend, found \cup {<<s, b>>}, X)
    <2>1. /\ q.pipe[e].sink = None /\ q.pipe[e].state \in {"active", "waiting_for_delimiter"}
          /\ q.pipe[e].tid = q.pipe[Peer(e)].tid
          /\ r.sink = None /\ r.state = q.pipe[e].state /\ r.out = q.pipe[e].out
          /\ "delimiter" \in ToSet(r.in) => "delimiter" \in ToSet(q.pipe[e].in)
          /\ r \in PipeType /\ q1.pipe = [q.pipe EXCEPT ![e] = r]
      BY <1>2, <1>3, <1>11 DEF p
    <2> QED BY ONLY <2>1, <1>12, RetargetStep, e \in X, e \in Ends
  <1>14. Sound(q1, pend, found \cup {<<s, b>>}, X)
    BY <1>11, <1>13 DEF Sound
  <1>15. Adopted(q, q1, e, b)
    BY <1>11 DEF Adopted, r, p, w
  <1>16. KeptBut(q, q1, b)
    <2>1. q1.pipe[e].state = p.state /\ \A f \in Ends : f # e => q1.pipe[f] = q.pipe[f]
      BY <1>0, <1>3, <1>11 DEF PipeTable
    <2>2. \A f \in Ends : q1.pipe[f].state = "none" <=> q.pipe[f].state = "none"
      BY <2>1 DEF p
    <2>3. w.stage = q.sock[b].stage
      BY <1>0 DEF w, Counted1, SocketType
    <2>4. q1.sock[b] = w /\ \A u \in Sockets : u # b => q1.sock[u] = q.sock[u]
      BY <1>0, <1>11, LibraryTypes DEF SocketTable
    <2> QED BY <2>2, <2>3, <2>4, <1>11 DEF KeptBut
  <1> QED BY <1>14, <1>15, <1>16

\* What is so of a connection that is pending.
LEMMA PendingFacts ==
    ASSUME NEW q, NEW pend, NEW found, Sound(q, pend, found, {}), FoundNew(q.pipe, found),
           NEW s \in Connectors, s \in pend, NEW e, e = <<s, "bind">>
    PROVE  /\ e \in Ends /\ Adoptable(q.pipe, e) /\ ~Sent(q.mbox, Bind(e))
           /\ \A t \in Sockets : <<s, t>> \notin found
PROOF
  <1>0. /\ e \in Ends /\ e[1] = s /\ e[2] = "bind" /\ Peer(e) = <<s, "connect">>
        /\ Peer(e) \in Ends /\ Peer(e)[1] = s /\ Peer(e)[2] = "connect"
        /\ s \in Sockets /\ s \notin Hosts
    <2>1. e \in Ends /\ Peer(e) = <<s, "connect">> /\ Peer(e) \in Ends
      BY EndFacts
    <2>2. s \in Sockets /\ s \notin Hosts
      BY SocketFacts
    <2> QED BY <2>1, <2>2
  <1>1. /\ Owner(q.pipe, q.mbox, pend, e) /\ Owner(q.pipe, q.mbox, pend, Peer(e))
        /\ Handshake(q.pipe, q.mbox, e)
    BY <1>0 DEF Sound, Holds
  <1>2. /\ q.pipe[e].sink = None /\ q.pipe[e].state # "none" /\ q.pipe[e].tid = s
        /\ q.pipe[e].in # << >> /\ Head(q.pipe[e].in) = "id"
        /\ q.pipe[e].state \in {"active", "waiting_for_delimiter"} /\ q.pipe[e].delay
        /\ ~q.pipe[e].asleep /\ q.pipe[e].in_active
    BY <1>0, <1>1 DEF Owner
  <1>3. q.pipe[Peer(e)].state # "none"
    BY <1>1, <1>2 DEF Handshake
  <1>4. q.pipe[Peer(e)].tid = s
    BY <1>0, <1>1, <1>3 DEF Owner
  <1>5. Adoptable(q.pipe, e)
    BY <1>2, <1>4 DEF Adoptable
  <1>6. ~Sent(q.mbox, Bind(e))
    <2>1. \A t \in Sockets : At(q.mbox, t, Bind(e)) => t = q.pipe[e].tid /\ t \in Hosts
      BY <1>0, <1>1 DEF Owner
    <2> QED BY <2>1, <1>0, <1>2 DEF Sent
  <1>7. \A t \in Sockets : <<s, t>> \notin found
    BY <1>0, <1>3 DEF FoundNew
  <1> QED BY <1>0, <1>5, <1>6, <1>7

\* connect_inproc_sockets on the binding side
LEMMA BindSideGood ==
    ASSUME NEW q, NEW pend, NEW found, Sound(q, pend, found, {}), FoundNew(q.pipe, found),
           NEW s \in Connectors, s \in pend, NEW b \in Hosts, q.sock[b].stage = "open",
           NEW q4, q4 = ConnectBindSide(q, b, s)
    PROVE  Sound(q4, pend \ {s}, found, {}) /\ KeptBut(q, q4, b)
PROOF
  <1> DEFINE e == <<s, "bind">>
             pend1 == pend \ {s}
             found1 == found \cup {<<s, s>>}
             found2 == found1 \cup {<<s, b>>}
             q1 == Adopt(q, b, s)
             q2 == AttachPipe(q1, b, e)
             q3 == ProcessSeqnum(q2, b)
  <1>0. /\ e \in Ends /\ Adoptable(q.pipe, e) /\ ~Sent(q.mbox, Bind(e))
        /\ \A t \in Sockets : <<s, t>> \notin found
    BY PendingFacts
  <1>1. /\ b \in Sockets /\ s \in Sockets /\ s # b /\ e[1] = s /\ e[2] = "bind"
        /\ <<s, s>> \notin found /\ <<s, b>> \notin found1 /\ << >> \in Seq(Commands)
    <2>1. b \in Sockets /\ s \in Sockets /\ s # b
      BY SocketFacts
    <2> QED BY <2>1, <1>0
  <1>2. ~q.sock[b].destroyed /\ q \in Library
    <2>1. Members(q.sock, q.pipe, b) /\ Counting(q.sock, q.mbox, pend, found, b)
      BY <1>1 DEF Sound, Holds
    <2> QED BY <2>1 DEF Members, Counting, Sound
  <1> HIDE DEF e
  <1>3. Sound(q, pend1, found1, {e})
    <2>1. Holds(q.pipe, q.sock, q.endpoints, q.mbox, pend1, found1, {} \cup {e})
      BY <1>0, UnpendStep DEF Sound, e
    <2> QED BY <2>1 DEF Sound
  <1>4. s \notin Owed(q.mbox, pend1, found1, b)
    <2>1. ~At(q.mbox, b, Bind(<<s, "bind">>))
      BY <1>0, <1>1 DEF Sent, e
    <2> QED BY <2>1, <1>1 DEF Owed
  <1> HIDE DEF pend1, found1, q1
  <1>5. Sound(q1, pend1, found2, {e}) /\ Adopted(q, q1, e, b) /\ KeptBut(q, q1, b)
    <2>1. e = <<s, "bind">> /\ e \in {e} /\ q1 = Adopt(q, b, s)
      BY DEF e, q1
    <2> QED BY <2>1, <1>0, <1>2, <1>3, <1>4, AdoptGood
  <1>6. /\ Attachable(q1.pipe[e], e, b, pend1) /\ q1.pipe[e].delay
        /\ ~Sent(q1.mbox, Bind(e)) /\ ~q1.sock[b].destroyed /\ q1 \in Library
    <2>1. q.pipe \in PipeTable /\ q.pipe[e] \in PipeType /\ q.sock \in SocketTable
          /\ q.sock[b] \in SocketType
      BY <1>0, <1>1, <1>2, LibraryTypes
    <2>2. q1.pipe[e] = Handed(q.pipe[e], b) /\ q1.sock[b] = Counted1(q.sock[b]) /\ q1.mbox = q.mbox
      BY <2>1, <1>0, <1>1, <1>5 DEF Adopted, PipeTable, SocketTable
    <2>3. /\ q.pipe[e].in # << >> /\ q.pipe[e].sink = None /\ q.pipe[e].delay
          /\ q.pipe[e].state \in {"active", "waiting_for_delimiter"}
      BY <1>0 DEF Adoptable
    <2>4. /\ q1.pipe[e].sink = q.pipe[e].sink /\ q1.pipe[e].state = q.pipe[e].state
          /\ q1.pipe[e].tid = b /\ q1.pipe[e].delay = q.pipe[e].delay
      <3> DEFINE p == q.pipe[e]
                 r == q1.pipe[e]
      <3>1. p \in PipeType /\ b \in Sockets /\ p.in # << >> /\ r = Handed(p, b)
        BY <2>1, <2>2, <2>3, <1>1
      <3> HIDE DEF p, r
      <3>2. r.sink = p.sink /\ r.state = p.state /\ r.tid = b /\ r.delay = p.delay
        BY ONLY <3>1, HandedFacts
      <3> QED BY <3>2 DEF p, r
    <2>5. ~q1.sock[b].destroyed
      BY <2>1, <2>2, <1>2 DEF Counted1, SocketType
    <2>6. Attachable(q1.pipe[e], e, b, pend1)
      BY <2>3, <2>4, <1>1 DEF Attachable, pend1
    <2> QED BY <2>2, <2>3, <2>4, <2>5, <2>6, <1>0, <1>5 DEF Sound
  <1>7. /\ Good(q2, q2.sock, b, << >>, pend1, found2, {}) /\ Kept(q1, q2)
        /\ e \in q2.sock[b].pipes
    <2>1. Good(q1, q1.sock, b, << >>, pend1, found2, {e})
      BY <1>1, <1>5, <1>6, SoundGood
    <2>2. Virtual(q1.mbox, b, << >>) = q1.mbox
      BY <1>1, <1>6, LibraryTypes, VirtualNone
    <2> HIDE DEF q2, found2
    <2>3. q2 = AttachPipe(q1, b, e)
      BY DEF q2
    <2>4. ~Sent(Virtual(q1.mbox, b, << >>), Bind(e))
      BY <2>2, <1>6
    <2> QED BY ONLY <2>1, <2>3, <2>4, <1>0, <1>1, <1>6, AttachGood
  <1> HIDE DEF q2
  <1>8. /\ Good(q3, q3.sock, b, << >>, pend1, found2 \ {<<s, b>>}, {}) /\ Kept(q2, q3)
    <2> DEFINE mb == Virtual(q2.mbox, b, << >>)
    <2>1. Members(q2.sock, q2.pipe, b) /\ Owner(q2.pipe, mb, pend1, e)
      BY <1>0, <1>1, <1>7 DEF Good, Holds
    <2>2. q2.pipe[e].sink = b
      BY <2>1, <1>0, <1>7 DEF Members
    <2>3. ~At(mb, b, Bind(<<s, "bind">>))
      <3>1. b # None
        BY <1>1, ContextNoneAssumption
      <3> QED BY <3>1, <2>1, <2>2, <1>1 DEF Owner, e
    <2>4. <<s, b>> \in found2 /\ s # b
      BY <1>1
    <2> HIDE DEF found2
    <2> QED BY <2>3, <2>4, <1>1, <1>7, SeqnumGood
  <1> HIDE DEF q3
  <1>9. Sound(q3, pend1, found1, {})
    <2>1. found2 \ {<<s, b>>} = found1
      BY <1>1
    <2>2. q3 \in Library
      BY <1>8 DEF Good
    <2> QED BY <2>1, <2>2, <1>1, <1>8, SoundGood
  <1>10. q4 = SendTo(q3, s, Joined)
    BY DEF ConnectBindSide, Joined, q3, q2, q1, e
  <1>11. q4 \in Library /\ q4.mbox = Put(q3.mbox, s, Joined) /\ q4.pipe = q3.pipe
         /\ q4.sock = q3.sock /\ q4.endpoints = q3.endpoints /\ q4.pending = q3.pending
         /\ q4.ok = q3.ok
    <2>1. Joined \in Commands /\ q3 \in Library
      BY CommandFacts, <1>9 DEF Sound
    <2> QED BY <2>1, <1>1, <1>10, SendFacts
  <1>12. Sound(q4, pend1, found, {})
    <2>1. Holds(q3.pipe, q3.sock, q3.endpoints, Put(q3.mbox, s, Joined), pend1, found1 \ {<<s, s>>}, {})
      <3>1. <<s, s>> \in found1 /\ s \notin pend1
        BY DEF found1, pend1
      <3> QED BY <3>1, <1>9, PutJoined DEF Sound
    <2>2. found1 \ {<<s, s>>} = found
      BY <1>1 DEF found1
    <2> QED BY <2>1, <2>2, <1>9, <1>11 DEF Sound
  <1>13. KeptBut(q, q4, b)
    <2>1. KeptBut(q, q3, b)
      BY <1>5, <1>7, <1>8, KeptButMore
    <2> QED BY <2>1, <1>11 DEF KeptBut
  <1> QED BY <1>12, <1>13 DEF pend1

\* The connections of p are made to socket b, starting from q.
Joins(g, D, q, b, p) ==
    g = [t \in D |-> IF t = {} THEN q ELSE ConnectBindSide(g[t \ {Max(t)}], b, p[Max(t)])]

\* There is a function that satisfies the recursion of the fold over pending
\* connections.
LEMMA JoinsSome ==
    ASSUME NEW q, NEW b, NEW p, NEW n \in Nat
    PROVE  \E g : Joins(g, SUBSET (1 .. n), q, b, p)
PROOF
  <1> DEFINE S == 1 .. n
             T == {k \in Nat : \E g : Joins(g, Smaller(S, k), q, b, p)}
  <1>0. IsFiniteSet(S) /\ \A t \in SUBSET S : t # {} => Max(t) \in t
    <2>1. 1 \in Int /\ n \in Int
      OBVIOUS
    <2>2. IsFiniteSet(1 .. n)
      BY <2>1, FS_Interval
    <2>3. \A t \in SUBSET (1 .. n) : t # {} => Max(t) \in t
      BY MaxIn
    <2> QED BY <2>2, <2>3
  <1> HIDE DEF S
  <1>1. 0 \in T
    <2>1. Smaller(S, 0) = {}
      BY <1>0, SmallerFacts
    <2>2. Joins([t \in {} |-> 0], {}, q, b, p)
      BY DEF Joins
    <2> QED BY <2>1, <2>2
  <1>2. ASSUME NEW k \in T PROVE k + 1 \in T
    <2>0. k \in Nat
      OBVIOUS
    <2>1. PICK g : Joins(g, Smaller(S, k), q, b, p)
      OBVIOUS
    <2> DEFINE Step(t) == IF t = {} THEN q ELSE ConnectBindSide(g[t \ {Max(t)}], b, p[Max(t)])
               D == Smaller(S, k)
               E == Smaller(S, k + 1)
               g1 == [t \in E |-> Step(t)]
    <2>2. \A t \in D : g[t] = Step(t)
      BY <2>1 DEF Joins
    <2>3. \A t \in E : t # {} => t \ {Max(t)} \in D /\ t \ {Max(t)} \in E
      <3>1. \A t \in E : t \in SUBSET S
        BY DEF Smaller
      <3> QED BY <3>1, <2>0, <1>0, SmallerFacts
    <2> HIDE DEF D, E
    <2>4. \A t \in E : t # {} => g1[t \ {Max(t)}] = g[t \ {Max(t)}]
      BY <2>2, <2>3
    <2> DEFINE Next1(t) == IF t = {} THEN q
                           ELSE ConnectBindSide(g1[t \ {Max(t)}], b, p[Max(t)])
    <2>5. \A t \in E : Step(t) = Next1(t)
      BY <2>4
    <2>6. g1 = [t \in E |-> Next1(t)]
      <3> HIDE DEF Step, Next1
      <3> QED BY <2>5
    <2>7. Joins(g1, E, q, b, p)
      BY <2>6 DEF Joins
    <2> QED BY <2>0, <2>7 DEF E
  <1>3. T = Nat
    <2> HIDE DEF T
    <2>1. T \in SUBSET Nat
      BY DEF T
    <2> QED BY <2>1, <1>1, <1>2, NatSetInduction
  <1>4. Cardinality(S) + 1 \in T /\ Smaller(S, Cardinality(S) + 1) = SUBSET S
    BY <1>0, <1>3, SmallerFacts
  <1> QED BY <1>4 DEF S

\* What has been done of the pending connections after i of them.
JoinedAlong(f, q, b, a, p, n) ==
    /\ f[0] = q
    /\ \A i \in 1 .. n : f[i] = ConnectBindSide(f[i - 1], b, p[i])
    /\ ConnectPending(q, b, a) = [f[n] EXCEPT !.pending[a] = << >>]

\* connect_pending goes along the pending connections of its endpoint.
LEMMA JoinsAlong ==
    ASSUME NEW q, NEW b, NEW a, NEW p, p = q.pending[a], NEW n \in Nat, DOMAIN p = 1 .. n
    PROVE  \E f : JoinedAlong(f, q, b, a, p, n)
PROOF
  <1> DEFINE iter == CHOOSE g : Joins(g, SUBSET (1 .. n), q, b, p)
  <1>1. Joins(iter, SUBSET (1 .. n), q, b, p)
    BY JoinsSome
  <1>2. FoldLeft(LAMBDA acc, s : ConnectBindSide(acc, b, s), q, p) = iter[1 .. n]
    BY Zenon DEF FoldLeft, MapThenFoldSet, Joins
  <1> HIDE DEF iter
  <1>6. ConnectPending(q, b, a) = [iter[1 .. n] EXCEPT !.pending[a] = << >>]
    BY <1>2, Zenon DEF ConnectPending
  <1> DEFINE f == [i \in 0 .. n |-> iter[1 .. i]]
  <1>3. ASSUME NEW t \in SUBSET (1 .. n)
        PROVE  iter[t] = IF t = {} THEN q ELSE ConnectBindSide(iter[t \ {Max(t)}], b, p[Max(t)])
    BY <1>1 DEF Joins
  <1>4. f[0] = q
    <2>1. 1 .. 0 = {} /\ f[0] = iter[1 .. 0]
      OBVIOUS
    <2> QED BY <2>1, <1>3
  <1>5. ASSUME NEW i \in 1 .. n PROVE f[i] = ConnectBindSide(f[i - 1], b, p[i])
    <2>1. /\ Max(1 .. i) = i /\ (1 .. i) \ {i} = 1 .. i - 1 /\ 1 .. i # {}
          /\ 1 .. i \in SUBSET (1 .. n)
      <3>1. Max(1 .. i) = i /\ (1 .. i) \ {i} = 1 .. i - 1
        BY MaxIn
      <3>2. 1 .. i # {} /\ 1 .. i \in SUBSET (1 .. n)
        BY ONLY n \in Nat, i \in 1 .. n
      <3> QED BY <3>1, <3>2
    <2>2. iter[1 .. i] = ConnectBindSide(iter[1 .. i - 1], b, p[i])
      BY <2>1, <1>3
    <2>3. f[i] = iter[1 .. i] /\ f[i - 1] = iter[1 .. i - 1]
      OBVIOUS
    <2> QED BY <2>2, <2>3
  <1>7. f[n] = iter[1 .. n]
    OBVIOUS
  <1> HIDE DEF f
  <1>8. JoinedAlong(f, q, b, a, p, n)
    BY <1>4, <1>5, <1>6, <1>7 DEF JoinedAlong
  <1> QED BY <1>8

\* A connection that is about to be made still has no pipe.
LEMMA FoundKeptBut ==
    ASSUME NEW q, NEW q1, NEW found, NEW b, KeptBut(q, q1, b), FoundNew(q.pipe, found)
    PROVE  FoundNew(q1.pipe, found)
PROOF
  <1>1. \A x \in Connectors : <<x, "connect">> \in Ends
    BY EndFacts
  <1> QED BY <1>1 DEF KeptBut, FoundNew

\* connect_pending, but for the connections it takes off the list.
LEMMA JoinsGood ==
    ASSUME NEW q, NEW pend, NEW found, Sound(q, pend, found, {}), FoundNew(q.pipe, found),
           NEW b \in Hosts, q.sock[b].stage = "open",
           NEW p \in Seq(Connectors), Distinct(p), ToSet(p) \subseteq pend,
           NEW f, f[0] = q, \A i \in 1 .. Len(p) : f[i] = ConnectBindSide(f[i - 1], b, p[i])
    PROVE  Sound(f[Len(p)], pend \ ToSet(p), found, {}) /\ KeptBut(q, f[Len(p)], b)
PROOF
  <1> DEFINE n == Len(p)
             Q(i) == {p[j] : j \in 1 .. i}
             P(i) == Sound(f[i], pend \ Q(i), found, {}) /\ KeptBut(q, f[i], b)
             T == {i \in Nat : i <= n => P(i)}
  <1>0. n \in Nat /\ DOMAIN p = 1 .. n /\ \A j \in 1 .. n : p[j] \in Connectors /\ p[j] \in pend
    BY DEF ToSet
  <1>1. 0 \in T
    <2>1. pend \ Q(0) = pend
      OBVIOUS
    <2>2. P(0)
      <3> HIDE DEF Q
      <3> QED BY <2>1, KeptButMore
    <2> HIDE DEF P
    <2> QED BY <2>2
  <1>2. ASSUME NEW i \in T PROVE i + 1 \in T
    <2>0. i \in Nat
      OBVIOUS
    <2> SUFFICES ASSUME i + 1 <= n PROVE P(i + 1)
      <3> HIDE DEF P
      <3> QED BY <2>0
    <2>1. P(i)
      <3> HIDE DEF P
      <3> QED BY <2>0, <1>0
    <2>2. i + 1 \in 1 .. n /\ (i + 1) - 1 = i /\ \A j \in 1 .. i : j \in 1 .. n /\ j # i + 1
      BY <2>0, <1>0
    <2> DEFINE s == p[i + 1]
    <2>3. s \in Connectors /\ s \in pend \ Q(i)
      <3>1. \A j \in 1 .. i : p[j] # s
        BY <2>2 DEF Distinct
      <3> QED BY <3>1, <2>2, <1>0
    <2>4. (pend \ Q(i)) \ {s} = pend \ Q(i + 1)
      <3>1. 1 .. i + 1 = (1 .. i) \cup {i + 1}
        BY <2>0
      <3> QED BY <3>1
    <2>5. f[i + 1] = ConnectBindSide(f[i], b, s)
      BY <2>2
    <2> HIDE DEF s, Q
    <2>6. FoundNew(f[i].pipe, found) /\ f[i].sock[b].stage = "open"
      <3>1. b \in Sockets
        BY SocketFacts
      <3>2. FoundNew(f[i].pipe, found)
        BY <2>1, FoundKeptBut
      <3> QED BY <3>1, <3>2, <2>1 DEF KeptBut
    <2>7. Sound(f[i + 1], (pend \ Q(i)) \ {s}, found, {}) /\ KeptBut(f[i], f[i + 1], b)
      BY <2>1, <2>3, <2>5, <2>6, BindSideGood
    <2> QED BY <2>1, <2>4, <2>7, KeptButMore
  <1>3. n \in T
    <2> HIDE DEF T
    <2>1. T \in SUBSET Nat
      BY DEF T
    <2> QED BY <2>1, <1>0, <1>1, <1>2, NatSetInduction
  <1>4. P(n)
    <2> HIDE DEF P
    <2> QED BY <1>0, <1>3
  <1>5. Q(n) = ToSet(p)
    BY <1>0 DEF ToSet
  <1> HIDE DEF Q
  <1> QED BY <1>4, <1>5

PendingSet(pending) == UNION {ToSet(pending[a]) : a \in ToSet(Bus)}

\* The pending connections as a set.
LEMMA PendingSets ==
    ASSUME NEW pending \in PendingTable
    PROVE  /\ \A q : q.pending = pending => Pending(q) = PendingSet(pending)
           /\ \A a \in ToSet(Bus) : /\ pending[a] \in Seq(Connectors)
                                    /\ ToSet(pending[a]) \subseteq PendingSet(pending)
                                    /\ ToSet(pending[a]) \subseteq Connectors
           /\ PendingSet(pending) \subseteq Connectors
PROOF
  <1>1. \A a \in ToSet(Bus) : pending[a] \in Seq(Connectors)
    BY DEF PendingTable
  <1>2. \A a \in ToSet(Bus) : ToSet(pending[a]) \subseteq Connectors
    BY <1>1 DEF ToSet
  <1>3. PendingSet(pending) \subseteq Connectors
    <2> SUFFICES ASSUME NEW x \in PendingSet(pending) PROVE x \in Connectors
      OBVIOUS
    <2>1. PICK a \in ToSet(Bus) : x \in ToSet(pending[a])
      BY DEF PendingSet
    <2> QED BY <2>1, <1>2
  <1>4. \A a \in ToSet(Bus) : ToSet(pending[a]) \subseteq PendingSet(pending)
    BY DEF PendingSet
  <1>5. \A q : q.pending = pending => Pending(q) = PendingSet(pending)
    BY DEF Pending, PendingSet
  <1> QED BY <1>1, <1>2, <1>3, <1>4, <1>5

\* One endpoint's connections are taken off the list.
LEMMA PendingTaken ==
    ASSUME NEW pending \in PendingTable, PendingWell(pending), NEW a \in ToSet(Bus),
           NEW pending1, pending1 = [pending EXCEPT ![a] = << >>]
    PROVE  /\ pending1 \in PendingTable /\ PendingWell(pending1)
           /\ PendingSet(pending1) = PendingSet(pending) \ ToSet(pending[a])
PROOF
  <1>0. << >> \in Seq(Connectors) /\ ToSet(<< >>) = {} /\ Len(<< >>) = 0
    BY DEF ToSet
  <1>1. pending1 \in PendingTable
    BY <1>0 DEF PendingTable
  <1>2. pending1[a] = << >> /\ \A c \in ToSet(Bus) : c # a => pending1[c] = pending[c]
    BY DEF PendingTable
  <1>3. PendingWell(pending1)
    <2> SUFFICES ASSUME NEW c \in ToSet(Bus)
                 PROVE  /\ Distinct(pending1[c])
                        /\ \A i \in 1 .. Len(pending1[c]) : Target(pending1[c][i]) = c
      BY DEF PendingWell
    <2>1. CASE c = a
      <3>1. Len(pending1[c]) = 0
        BY <2>1, <1>0, <1>2
      <3> QED BY <3>1 DEF Distinct
    <2>2. CASE c # a
      BY <2>2, <1>2 DEF PendingWell
    <2> QED BY <2>1, <2>2
  <1>4. \A c \in ToSet(Bus) : \A x \in ToSet(pending[c]) : Target(x) = c
    <2> SUFFICES ASSUME NEW c \in ToSet(Bus), NEW x \in ToSet(pending[c]) PROVE Target(x) = c
      OBVIOUS
    <2>1. pending[c] \in Seq(Connectors)
      BY PendingSets
    <2>2. PICK i \in 1 .. Len(pending[c]) : x = pending[c][i]
      BY <2>1 DEF ToSet
    <2> QED BY <2>2 DEF PendingWell
  <1>5. ASSUME NEW x \in PendingSet(pending1) PROVE x \in PendingSet(pending) \ ToSet(pending[a])
    <2>1. PICK c \in ToSet(Bus) : x \in ToSet(pending1[c])
      BY DEF PendingSet
    <2>2. c # a
      BY <2>1, <1>0, <1>2
    <2>3. x \in ToSet(pending[c]) /\ x \in PendingSet(pending)
      BY <2>1, <2>2, <1>2 DEF PendingSet
    <2> QED BY <2>2, <2>3, <1>4
  <1>6. ASSUME NEW x \in PendingSet(pending) \ ToSet(pending[a]) PROVE x \in PendingSet(pending1)
    <2>1. PICK c \in ToSet(Bus) : x \in ToSet(pending[c])
      BY DEF PendingSet
    <2>2. x \in ToSet(pending1[c])
      BY <2>1, <1>2
    <2> QED BY <2>2 DEF PendingSet
  <1> QED BY <1>1, <1>3, <1>5, <1>6

\* What is kept when the connections that wait for an endpoint are made to b.
KeptConnecting(q, q1, b) ==
    /\ q1.endpoints = q.endpoints
    /\ \A f \in Ends : q1.pipe[f].state = "none" <=> q.pipe[f].state = "none"
    /\ \A u \in Sockets : q1.sock[u].stage = q.sock[u].stage
    /\ \A u \in Sockets \ {b} : q1.sock[u].sent = q.sock[u].sent

\* connect_pending
LEMMA ConnectPendingGood ==
    ASSUME NEW q, NEW found, Sound(q, Pending(q), found, {}), PendingWell(q.pending),
           FoundNew(q.pipe, found), NEW b \in Hosts, q.sock[b].stage = "open",
           NEW a \in ToSet(Bus), NEW q1, q1 = ConnectPending(q, b, a)
    PROVE  /\ Sound(q1, Pending(q1), found, {}) /\ PendingWell(q1.pending)
           /\ KeptConnecting(q, q1, b)
PROOF
  <1> DEFINE p == q.pending[a]
             n == Len(p)
             pend == Pending(q)
  <1>0. q \in Library /\ q.pending \in PendingTable
    BY LibraryTypes DEF Sound
  <1>1. /\ p \in Seq(Connectors) /\ n \in Nat /\ DOMAIN p = 1 .. n /\ Distinct(p)
        /\ ToSet(p) \subseteq pend /\ pend = PendingSet(q.pending)
    <2>1. p \in Seq(Connectors) /\ ToSet(p) \subseteq PendingSet(q.pending)
      BY <1>0, PendingSets
    <2>2. pend = PendingSet(q.pending)
      BY <1>0, PendingSets
    <2> QED BY <2>1, <2>2 DEF PendingWell
  <1> HIDE DEF p, pend
  <1>2. PICK f : JoinedAlong(f, q, b, a, p, n)
    <2>1. p = q.pending[a] /\ n \in Nat /\ DOMAIN p = 1 .. n
      BY <1>1 DEF p
    <2> HIDE DEF n
    <2> QED BY <2>1, JoinsAlong
  <1> DEFINE q2 == f[n]
  <1>3. Sound(q2, pend \ ToSet(p), found, {}) /\ KeptBut(q, q2, b)
    <2>1. f[0] = q /\ \A i \in 1 .. Len(p) : f[i] = ConnectBindSide(f[i - 1], b, p[i])
      BY <1>2 DEF JoinedAlong
    <2>2. Sound(q, pend, found, {})
      BY DEF pend
    <2> QED BY <2>1, <2>2, <1>1, JoinsGood
  <1>4. q1 = [q2 EXCEPT !.pending[a] = << >>]
    BY <1>2 DEF JoinedAlong
  <1> HIDE DEF n, q2
  <1>5. q2 \in Library /\ q2.pending = q.pending
    BY <1>3 DEF Sound, KeptBut
  <1> DEFINE pending1 == [q.pending EXCEPT ![a] = << >>]
  <1>6. /\ pending1 \in PendingTable /\ PendingWell(pending1)
        /\ PendingSet(pending1) = pend \ ToSet(p)
    <2> HIDE DEF pending1
    <2>1. pending1 = [q.pending EXCEPT ![a] = << >>]
      BY DEF pending1
    <2> QED BY <2>1, <1>0, <1>1, PendingTaken DEF p
  <1>7. q1 = [q2 EXCEPT !.pending = pending1]
    BY <1>4, <1>5 DEF Library
  <1> HIDE DEF pending1
  <1>8. /\ q1 \in Library /\ q1.pending = pending1 /\ q1.ok = q2.ok /\ q1.sock = q2.sock
        /\ q1.pipe = q2.pipe /\ q1.mbox = q2.mbox /\ q1.endpoints = q2.endpoints
    BY <1>5, <1>6, <1>7 DEF Library
  <1>9. Pending(q1) = pend \ ToSet(p)
    BY <1>6, <1>8, PendingSets
  <1>10. Sound(q1, Pending(q1), found, {})
    BY <1>3, <1>8, <1>9 DEF Sound
  <1>11. KeptConnecting(q, q1, b)
    BY <1>3, <1>8 DEF KeptBut, KeptConnecting
  <1> QED BY <1>6, <1>8, <1>10, <1>11

Fresh(t) == [state |-> "active", delay |-> TRUE, in_active |-> TRUE, asleep |-> FALSE,
             in |-> << >>, out |-> TRUE, sink |-> None, tid |-> t]

Paired(q, q1, s, far) ==
    /\ q1 \in Library /\ q1.ok = q.ok /\ q1.sock = q.sock /\ q1.mbox = q.mbox
    /\ q1.endpoints = q.endpoints /\ q1.pending = q.pending
    /\ q1.pipe[<<s, "connect">>] = Fresh(s) /\ q1.pipe[<<s, "bind">>] = Fresh(far)
    /\ \A g \in Ends : g # <<s, "connect">> /\ g # <<s, "bind">> => q1.pipe[g] = q.pipe[g]

\* pipepair makes two fresh ends.
LEMMA PairedFacts ==
    ASSUME NEW q \in Library, NEW s \in Connectors, NEW far \in Sockets,
           NEW q1, q1 = PipePair(q, s, far)
    PROVE  Paired(q, q1, s, far)
PROOF
  <1> DEFINE c == <<s, "connect">>
             e == <<s, "bind">>
             pipe1 == [[q.pipe EXCEPT ![c] = Fresh(s)] EXCEPT ![e] = Fresh(far)]
  <1>0. c \in Ends /\ e \in Ends /\ c # e /\ s \in Sockets /\ q.pipe \in PipeTable
    <2>1. c \in Ends /\ e \in Ends
      BY EndFacts
    <2> QED BY <2>1, SocketFacts, LibraryTypes
  <1>1. \A t \in Sockets : Fresh(t) \in PipeType
    <2>1. "active" \in PipeStates /\ << >> \in Seq({"id", "msg", "delimiter"})
      BY DEF PipeStates
    <2> QED BY <2>1 DEF Fresh, PipeType
  <1>2. q1 = [q EXCEPT !.pipe = pipe1]
    BY <1>0 DEF PipePair, Fresh, Library, PipeTable
  <1> HIDE DEF c, e
  <1>3. /\ pipe1 \in PipeTable /\ pipe1[c] = Fresh(s) /\ pipe1[e] = Fresh(far)
        /\ \A g \in Ends : g # c /\ g # e => pipe1[g] = q.pipe[g]
    <2> HIDE DEF Fresh
    <2> QED BY <1>0, <1>1 DEF PipeTable
  <1> HIDE DEF pipe1
  <1>4. /\ q1 \in Library /\ q1.pipe = pipe1 /\ q1.ok = q.ok /\ q1.sock = q.sock
        /\ q1.mbox = q.mbox /\ q1.endpoints = q.endpoints /\ q1.pending = q.pending
    BY <1>2, <1>3 DEF Library
  <1> QED BY <1>3, <1>4 DEF Paired, c, e

\* pipepair
LEMMA PairGood ==
    ASSUME NEW q, NEW pend, NEW found, Sound(q, pend, found, {}), NEW s \in Connectors,
           NEW far \in Sockets, q.pipe[<<s, "connect">>].state = "none",
           NEW q1, q1 = PipePair(q, s, far)
    PROVE  /\ Sound(q1, pend, found, {<<s, "connect">>, <<s, "bind">>}) /\ Paired(q, q1, s, far)
           /\ s \notin pend
           /\ ~Sent(q1.mbox, Bind(<<s, "connect">>)) /\ ~Sent(q1.mbox, Bind(<<s, "bind">>))
PROOF
  <1>0. q \in Library
    BY DEF Sound
  <1>1. Paired(q, q1, s, far)
    BY <1>0, PairedFacts
  <1>2. \A f \in {<<s, "connect">>, <<s, "bind">>} :
           q1.pipe[f].state = "active" /\ q1.pipe[f].in = << >> /\ q1.pipe[f].sink = None
    BY <1>1 DEF Paired, Fresh
  <1>3. /\ q1 \in Library /\ q1.ok = q.ok /\ q1.sock = q.sock /\ q1.mbox = q.mbox
        /\ q1.endpoints = q.endpoints /\ q1.pipe \in PipeTable
        /\ \A g \in Ends : g # <<s, "connect">> /\ g # <<s, "bind">> => q1.pipe[g] = q.pipe[g]
    BY <1>1, LibraryTypes DEF Paired
  <1>4. Holds(q.pipe, q.sock, q.endpoints, q.mbox, pend, found, {})
    BY DEF Sound
  <1>5. /\ Holds(q1.pipe, q.sock, q.endpoints, q.mbox, pend, found,
                 {<<s, "connect">>, <<s, "bind">>})
        /\ s \notin pend
        /\ ~Sent(q.mbox, Bind(<<s, "connect">>)) /\ ~Sent(q.mbox, Bind(<<s, "bind">>))
    <2>1. PairMade(q.pipe, q1.pipe, s)
      BY <1>2, <1>3 DEF PairMade
    <2> QED BY <2>1, <1>4, PairStep
  <1> QED BY <1>1, <1>3, <1>5 DEF Sound

\* An end that a bind command is to bring.
Bringable(p, b) ==
    /\ p.state \in {"active", "waiting_for_delimiter"} /\ p.delay
    /\ p.sink = None /\ p.tid = b /\ ~p.asleep /\ p.in_active

\* send_bind
ReadyToBind(q, pend, found, X, s, b, e) ==
    /\ Sound(q, pend, found, X) /\ e = <<s, "bind">> /\ <<s, b>> \in found /\ s \notin pend
    /\ ~Sent(q.mbox, Bind(e)) /\ Bringable(q.pipe[e], b)

BindSent(q, q1, pend, found, X, s, b, e) ==
    /\ Sound(q1, pend, found \ {<<s, b>>}, X \ {e})
    /\ q1.pipe = q.pipe /\ q1.sock = q.sock /\ q1.endpoints = q.endpoints
    /\ q1.pending = q.pending
    /\ \A f \in Ends : f # e => (Sent(q1.mbox, Bind(f)) <=> Sent(q.mbox, Bind(f)))

\* send_bind: the pipe is brought to the socket that was found.
LEMMA SendBindGood ==
    ASSUME NEW q, NEW pend, NEW found, NEW X, NEW s \in Connectors, NEW b \in Hosts,
           NEW e \in Ends, ReadyToBind(q, pend, found, X, s, b, e),
           NEW q1, q1 = SendTo(q, b, Bind(e))
    PROVE  BindSent(q, q1, pend, found, X, s, b, e)
PROOF
  <1>a. /\ Sound(q, pend, found, X) /\ e = <<s, "bind">> /\ <<s, b>> \in found /\ s \notin pend
        /\ ~Sent(q.mbox, Bind(e)) /\ Bringable(q.pipe[e], b)
    BY DEF ReadyToBind
  <1> USE <1>a
  <1>0. b \in Sockets /\ Bind(e) \in Commands /\ q \in Library /\ q.mbox \in Boxes /\ q.ok
        /\ Holds(q.pipe, q.sock, q.endpoints, q.mbox, pend, found, X)
    BY SocketFacts, CommandFacts, LibraryTypes DEF Sound
  <1>1. /\ q1 \in Library /\ q1.mbox = Put(q.mbox, b, Bind(e)) /\ q1.pipe = q.pipe
        /\ q1.sock = q.sock /\ q1.endpoints = q.endpoints /\ q1.pending = q.pending
        /\ q1.ok = q.ok
    BY <1>0, SendFacts
  <1>2. Holds(q.pipe, q.sock, q.endpoints, Put(q.mbox, b, Bind(e)), pend, found \ {<<s, b>>},
              X \ {e})
    <2>1. /\ q.pipe[e].state \in {"active", "waiting_for_delimiter"} /\ q.pipe[e].delay
          /\ q.pipe[e].sink = None /\ q.pipe[e].tid = b /\ ~q.pipe[e].asleep /\ q.pipe[e].in_active
      BY DEF Bringable
    <2> QED BY <2>1, <1>0, PutBind
  <1>3. ASSUME NEW f \in Ends, f # e PROVE Sent(q1.mbox, Bind(f)) <=> Sent(q.mbox, Bind(f))
    <2>1. Bind(f) \in Commands /\ Bind(f) # Bind(e)
      BY <1>3, CommandFacts
    <2>2. Sent(Put(q.mbox, b, Bind(e)), Bind(f)) <=> Sent(q.mbox, Bind(f)) \/ Bind(f) = Bind(e)
      BY <2>1, <1>0, PutFacts
    <2> QED BY <2>1, <2>2, <1>1
  <1> QED BY <1>0, <1>1, <1>2, <1>3 DEF Sound, BindSent

\* attach_pipe of the connecting end
LEMMA AttachOwnGood ==
    ASSUME NEW q, NEW pend, NEW found, NEW s \in Connectors, NEW c \in Ends, c = <<s, "connect">>,
           Sound(q, pend, found, {c}), q.pipe[c] = Fresh(s), ~Sent(q.mbox, Bind(c)),
           q.sock[s].stage = "open", NEW q1, q1 = AttachPipe(q, s, c)
    PROVE  Sound(q1, pend, found, {}) /\ Kept(q, q1)
PROOF
  <1>0. s \in Sockets /\ q \in Library /\ << >> \in Seq(Commands) /\ c[1] = s /\ c[2] = "connect"
    BY SocketFacts DEF Sound
  <1>1. ~q.sock[s].destroyed
    <2>1. Members(q.sock, q.pipe, s) /\ Counting(q.sock, q.mbox, pend, found, s)
      BY <1>0 DEF Sound, Holds
    <2> QED BY <2>1 DEF Members, Counting
  <1>2. Attachable(q.pipe[c], c, s, pend) /\ q.pipe[c].delay
    BY <1>0 DEF Attachable, Fresh
  <1>3. Good(q, q.sock, s, << >>, pend, found, {c}) /\ Virtual(q.mbox, s, << >>) = q.mbox
    <2>1. Good(q, q.sock, s, << >>, pend, found, {c})
      BY <1>0, SoundGood
    <2>2. q.mbox \in Boxes
      BY <1>0, LibraryTypes
    <2> QED BY <2>1, <2>2, <1>0, VirtualNone
  <1>4. ~Sent(Virtual(q.mbox, s, << >>), Bind(c))
    BY <1>3
  <1>5. Good(q1, q1.sock, s, << >>, pend, found, {}) /\ Kept(q, q1)
    BY ONLY <1>0, <1>1, <1>2, <1>3, <1>4, c \in Ends, q1 = AttachPipe(q, s, c), AttachGood
  <1>6. q1 \in Library
    BY <1>5 DEF Good
  <1> QED BY <1>0, <1>5, <1>6, SoundGood

\* The connection is put on the list.
LEMMA PendingPut ==
    ASSUME NEW pending \in PendingTable, PendingWell(pending), NEW s \in Connectors,
           s \notin PendingSet(pending), Target(s) \in ToSet(Bus),
           NEW pending1, pending1 = [pending EXCEPT ![Target(s)] = Append(@, s)]
    PROVE  /\ pending1 \in PendingTable /\ PendingWell(pending1)
           /\ PendingSet(pending1) = PendingSet(pending) \cup {s}
PROOF
  <1> DEFINE a == Target(s)
             p == pending[a]
             p1 == Append(p, s)
  <1>0. p \in Seq(Connectors) /\ s \notin ToSet(p)
    BY PendingSets
  <1>1. /\ p1 \in Seq(Connectors) /\ Len(p) \in Nat /\ Len(p1) = Len(p) + 1
        /\ p1[Len(p) + 1] = s /\ \A i \in 1 .. Len(p) : p1[i] = p[i]
    BY <1>0, AppendProperties
  <1>2. a \in ToSet(Bus) /\ pending1[a] = p1 /\ \A c \in ToSet(Bus) : c # a => pending1[c] = pending[c]
    BY DEF PendingTable
  <1>3. pending1 \in PendingTable
    BY <1>1 DEF PendingTable
  <1>4. DOMAIN p = 1 .. Len(p) /\ DOMAIN p1 = 1 .. Len(p1)
    BY <1>0, <1>1
  <1> HIDE DEF p, p1
  <1>5. ToSet(p1) = ToSet(p) \cup {s}
    <2>1. 1 .. Len(p1) = (1 .. Len(p)) \cup {Len(p) + 1}
      BY <1>1
    <2> QED BY <2>1, <1>1, <1>4 DEF ToSet
  <1>6. PendingWell(pending1)
    <2> SUFFICES ASSUME NEW c \in ToSet(Bus)
                 PROVE  /\ Distinct(pending1[c])
                        /\ \A i \in 1 .. Len(pending1[c]) : Target(pending1[c][i]) = c
      BY DEF PendingWell
    <2>0. /\ Distinct(pending[c])
          /\ \A i \in 1 .. Len(pending[c]) : Target(pending[c][i]) = c
      BY DEF PendingWell
    <2>1. CASE c = a
      <3>1. Distinct(p) /\ \A i \in 1 .. Len(p) : Target(p[i]) = a
        BY <2>0, <2>1 DEF p
      <3>2. \A i \in 1 .. Len(p) : p[i] # s
        BY <1>0, <1>4 DEF ToSet
      <3>3. Distinct(p1)
        <4> SUFFICES ASSUME NEW i \in 1 .. Len(p1), NEW j \in 1 .. Len(p1), p1[i] = p1[j]
                     PROVE  i = j
          BY DEF Distinct
        <4>1. i \in 1 .. Len(p) \/ i = Len(p) + 1
          BY <1>1
        <4>2. j \in 1 .. Len(p) \/ j = Len(p) + 1
          BY <1>1
        <4> QED BY <4>1, <4>2, <3>1, <3>2, <1>1 DEF Distinct
      <3>4. \A i \in 1 .. Len(p1) : Target(p1[i]) = a
        <4> SUFFICES ASSUME NEW i \in 1 .. Len(p1) PROVE Target(p1[i]) = a
          OBVIOUS
        <4>1. i \in 1 .. Len(p) \/ i = Len(p) + 1
          BY <1>1
        <4> QED BY <4>1, <3>1, <1>1
      <3> QED BY <3>3, <3>4, <2>1, <1>2
    <2>2. CASE c # a
      BY <2>0, <2>2, <1>2
    <2> QED BY <2>1, <2>2
  <1>7. ASSUME NEW x \in PendingSet(pending1) PROVE x \in PendingSet(pending) \cup {s}
    <2>1. PICK c \in ToSet(Bus) : x \in ToSet(pending1[c])
      BY DEF PendingSet
    <2>2. x \in ToSet(pending[c]) \cup {s}
      BY <2>1, <1>2, <1>5 DEF p
    <2> QED BY <2>2 DEF PendingSet
  <1>8. ASSUME NEW x \in PendingSet(pending) \cup {s} PROVE x \in PendingSet(pending1)
    <2>1. CASE x = s
      <3>1. x \in ToSet(pending1[a])
        BY <2>1, <1>2, <1>5
      <3> QED BY <3>1, <1>2 DEF PendingSet
    <2>2. CASE x # s
      <3>1. PICK c \in ToSet(Bus) : x \in ToSet(pending[c])
        BY <2>2 DEF PendingSet
      <3>2. x \in ToSet(pending1[c])
        BY <3>1, <1>2, <1>5 DEF p
      <3> QED BY <3>2 DEF PendingSet
    <2> QED BY <2>1, <2>2
  <1> QED BY <1>3, <1>6, <1>7, <1>8

\* A connection is to an endpoint of the bus.
LEMMA TargetBound ==
    ASSUME NEW s \in Connectors
    PROVE  Target(s) \in ToSet(Bus)
PROOF
  <1>1. PICK i \in 1 .. Len(Links) : s[2] = Links[i]
    BY LinkFacts DEF Connectors
  <1>2. i \in 1 .. Len(Bus) /\ Bus[i] = Target(s)
    BY <1>1, BusFacts DEF Target
  <1> QED BY <1>2, BusFacts

\* Nobody is to bind the pipe of a socket that has not connected yet.
LEMMA NothingOwed ==
    ASSUME NEW q, NEW pend, NEW found, NEW X, Sound(q, pend, found, X), NEW s \in Sockets,
           q.sock[s].sent = 0
    PROVE  Owed(q.mbox, pend, found, s) = {}
PROOF
  <1>1. Counting(q.sock, q.mbox, pend, found, s) /\ q.sock[s] \in SocketType
    BY LibraryTypes DEF Sound, Holds
  <1>2. q.sock[s].processed \in Nat
    BY <1>1 DEF SocketType
  <1>3. Cardinality(Owed(q.mbox, pend, found, s)) \in Nat
    BY OwedFacts
  <1>4. Cardinality(Owed(q.mbox, pend, found, s)) = 0
    BY <1>1, <1>2, <1>3 DEF Counting
  <1> QED BY <1>4, OwedFacts

EditPend(q, s, a) == [q EXCEPT !.pending[a] = Append(@, s)]

\* pend_connection when the endpoint is not bound
ReadyToPend(q, found, X, s, e) ==
    /\ Sound(q, Pending(q), found, X) /\ PendingWell(q.pending) /\ e = <<s, "bind">>
    /\ s \notin Pending(q) /\ ~Sent(q.mbox, Bind(e)) /\ Bringable(q.pipe[e], s)
    /\ q.pipe[e].state = "active" /\ q.pipe[e].in # << >> /\ Head(q.pipe[e].in) = "id"
    /\ q.sock[s].stage = "open" /\ q.sock[s].sent = 0

Pended(q, q2, found, X, s, e) ==
    /\ Sound(q2, Pending(q2), found, X \ {e}) /\ PendingWell(q2.pending)
    /\ q2.pipe = q.pipe /\ q2.mbox = q.mbox /\ q2.endpoints = q.endpoints
    /\ \A u \in Sockets : q2.sock[u].stage = q.sock[u].stage
    /\ \A u \in Sockets \ {s} : q2.sock[u] = q.sock[u]

\* pend_connection when the endpoint is not bound: the connection waits.
LEMMA PendGood ==
    ASSUME NEW q, NEW found, NEW X, NEW s \in Connectors, NEW e \in Ends,
           ReadyToPend(q, found, X, s, e), NEW q2, q2 = EditPend(IncSeqnum(q, s), s, Target(s))
    PROVE  Pended(q, q2, found, X, s, e)
PROOF
  <1>a. /\ Sound(q, Pending(q), found, X) /\ PendingWell(q.pending) /\ e = <<s, "bind">>
        /\ s \notin Pending(q) /\ ~Sent(q.mbox, Bind(e)) /\ Bringable(q.pipe[e], s)
        /\ q.pipe[e].state = "active" /\ q.pipe[e].in # << >> /\ Head(q.pipe[e].in) = "id"
        /\ q.sock[s].stage = "open" /\ q.sock[s].sent = 0
    BY DEF ReadyToPend
  <1> USE <1>a
  <1> DEFINE w == Counted1(q.sock[s])
             q1 == WithSock(q, s, w)
             pend == Pending(q)
             pending1 == [q.pending EXCEPT ![Target(s)] = Append(@, s)]
  <1>0. /\ q \in Library /\ q.ok /\ s \in Sockets /\ q.sock[s] \in SocketType /\ w \in SocketType
        /\ q.pending \in PendingTable
        /\ Holds(q.pipe, q.sock, q.endpoints, q.mbox, pend, found, X)
    <2>1. q \in Library /\ q.ok /\ s \in Sockets
          /\ Holds(q.pipe, q.sock, q.endpoints, q.mbox, pend, found, X)
      BY SocketFacts DEF Sound
    <2>2. q.sock[s] \in SocketType /\ q.pending \in PendingTable
      BY <2>1, LibraryTypes
    <2> QED BY <2>1, <2>2, SockTypes
  <1>1. IsWithSock(q, s, w, q1) /\ q1 = IncSeqnum(q, s)
    <2>1. q1 = IncSeqnum(q, s)
      BY <1>0, SockEdits
    <2> HIDE DEF w
    <2> QED BY <2>1, <1>0, WithSockFacts
  <1> HIDE DEF q1
  <1>2. /\ pending1 \in PendingTable /\ PendingWell(pending1)
        /\ PendingSet(pending1) = pend \cup {s}
    <2>1. pend = PendingSet(q.pending) /\ Target(s) \in ToSet(Bus)
      BY <1>0, PendingSets, TargetBound
    <2>2. s \notin PendingSet(q.pending)
      BY <2>1
    <2> HIDE DEF pending1, pend
    <2>3. pending1 = [q.pending EXCEPT ![Target(s)] = Append(@, s)]
      BY DEF pending1
    <2> QED BY <2>1, <2>2, <2>3, <1>0, PendingPut
  <1>3. q1 \in Library /\ q1.pending = q.pending /\ q2 = [q1 EXCEPT !.pending = pending1]
    <2>1. q1 \in Library /\ q1.pending = q.pending
      BY <1>1 DEF IsWithSock
    <2> QED BY <2>1, <1>1 DEF EditPend
  <1> HIDE DEF pending1
  <1>4. /\ q2 \in Library /\ q2.pending = pending1 /\ q2.ok = q1.ok /\ q2.sock = q1.sock
        /\ q2.pipe = q1.pipe /\ q2.mbox = q1.mbox /\ q2.endpoints = q1.endpoints
    BY <1>2, <1>3 DEF Library
  <1>5. /\ q2.ok /\ q2.sock = [q.sock EXCEPT ![s] = w] /\ q2.pipe = q.pipe /\ q2.mbox = q.mbox
        /\ q2.endpoints = q.endpoints /\ q2.sock[s] = w
        /\ \A u \in Sockets : u # s => q2.sock[u] = q.sock[u]
    <2> HIDE DEF w
    <2> QED BY ONLY <1>0, <1>1, <1>4 DEF IsWithSock
  <1>6. Pending(q2) = pend \cup {s}
    BY <1>2, <1>4, PendingSets
  <1>7. Holds(q.pipe, [q.sock EXCEPT ![s] = w], q.endpoints, q.mbox, pend \cup {s}, found, X \ {e})
    <2>1. /\ q.pipe[e].delay /\ q.pipe[e].sink = None /\ q.pipe[e].tid = s
          /\ ~q.pipe[e].asleep /\ q.pipe[e].in_active
      BY DEF Bringable
    <2>2. s \notin Owed(q.mbox, pend, found, s)
      BY <1>0, NothingOwed
    <2>3. ~q.sock[s].destroyed
      <3>1. Members(q.sock, q.pipe, s) /\ Counting(q.sock, q.mbox, pend, found, s)
        BY <1>0 DEF Holds
      <3> QED BY <3>1 DEF Members, Counting
    <2>4. w = [q.sock[s] EXCEPT !.sent = @ + 1]
      BY DEF Counted1
    <2> HIDE DEF w, pend
    <2> QED BY <2>1, <2>2, <2>3, <2>4, <1>0, PendStep
  <1>8. Sound(q2, Pending(q2), found, X \ {e})
    BY <1>4, <1>5, <1>6, <1>7 DEF Sound
  <1>9. w.stage = q.sock[s].stage
    BY <1>0 DEF Counted1, SocketType
  <1> HIDE DEF w
  <1>10. \A u \in Sockets : q2.sock[u].stage = q.sock[u].stage
    BY <1>5, <1>9
  <1> QED BY <1>2, <1>4, <1>5, <1>8, <1>10 DEF Pended

\* What has changed when socket s has a new pipe.
Made(q, q1, s) ==
    /\ q1.endpoints = q.endpoints
    /\ \A f \in Ends : f[1] # s => (q1.pipe[f].state = "none" <=> q.pipe[f].state = "none")
    /\ q1.pipe[<<s, "connect">>].state # "none"
    /\ \A u \in Sockets : q1.sock[u].stage = q.sock[u].stage
    /\ \A u \in Connectors \ {s} : q1.sock[u].sent = q.sock[u].sent

Met(q, q1, s, found, c) ==
    /\ Sound(q1, Pending(q1), found, {c}) /\ PendingWell(q1.pending)
    /\ q1.pipe[c] = Fresh(s) /\ ~Sent(q1.mbox, Bind(c)) /\ Made(q, q1, s)

\* pipepair gives its socket a pipe and changes nothing else that the threads
\* see.
LEMMA PairedMade ==
    ASSUME NEW q \in Library, NEW q1, NEW s \in Connectors, NEW far, Paired(q, q1, s, far)
    PROVE  Made(q, q1, s)
PROOF
  <1>1. \A f \in Ends : f[1] # s => f # <<s, "connect">> /\ f # <<s, "bind">>
    OBVIOUS
  <1>2. q1.pipe[<<s, "connect">>].state # "none"
    BY DEF Paired, Fresh
  <1> QED BY <1>1, <1>2 DEF Paired, Made

\* The endpoint was found, and the peer is told of the pipe.
LEMMA MeetBound ==
    ASSUME NEW q, NEW found, Sound(q, Pending(q), found, {}), PendingWell(q.pending),
           NEW s \in Connectors, NEW b \in Hosts, <<s, b>> \in found,
           q.pipe[<<s, "connect">>].state = "none",
           NEW q2, q2 = SendTo(PipePair(q, s, b), b, Bind(<<s, "bind">>))
    PROVE  Met(q, q2, s, found \ {<<s, b>>}, <<s, "connect">>)
PROOF
  <1> DEFINE c == <<s, "connect">>
             e == <<s, "bind">>
             q1 == PipePair(q, s, b)
             pend == Pending(q)
  <1>0. c \in Ends /\ e \in Ends /\ c # e /\ b \in Sockets /\ q \in Library
    <2>1. c \in Ends /\ e \in Ends
      BY EndFacts
    <2> QED BY <2>1, SocketFacts DEF Sound
  <1>1. /\ Sound(q1, pend, found, {c, e}) /\ Paired(q, q1, s, b) /\ s \notin pend
        /\ ~Sent(q1.mbox, Bind(c)) /\ ~Sent(q1.mbox, Bind(e))
    <2> HIDE DEF pend, q1
    <2>1. q1 = PipePair(q, s, b) /\ Sound(q, pend, found, {})
      BY DEF q1, pend
    <2> QED BY <2>1, <1>0, PairGood
  <1> HIDE DEF q1
  <1>2. Bringable(q1.pipe[e], b) /\ q1.pipe[c] = Fresh(s) /\ q1.pending = q.pending
        /\ q1.endpoints = q.endpoints /\ q1.sock = q.sock
    BY <1>1 DEF Paired, Bringable, Fresh
  <1> HIDE DEF pend
  <1>3. /\ Sound(q2, pend, found \ {<<s, b>>}, {c, e} \ {e})
        /\ q2.pipe = q1.pipe /\ q2.sock = q1.sock /\ q2.endpoints = q1.endpoints
        /\ q2.pending = q1.pending
        /\ \A f \in Ends : f # e => (Sent(q2.mbox, Bind(f)) <=> Sent(q1.mbox, Bind(f)))
    <2>1. q2 = SendTo(q1, b, Bind(e))
      BY DEF q1
    <2>2. ReadyToBind(q1, pend, found, {c, e}, s, b, e)
      BY <1>1, <1>2 DEF ReadyToBind
    <2> DEFINE X == {c, e}
    <2> HIDE DEF c, e, X
    <2>3. BindSent(q1, q2, pend, found, X, s, b, e)
      <3>1. ReadyToBind(q1, pend, found, X, s, b, e)
        BY <2>2 DEF X
      <3> QED BY ONLY <2>1, <3>1, <1>0, s \in Connectors, b \in Hosts, SendBindGood
    <2> QED BY <2>3 DEF BindSent, X
  <1>4. {c, e} \ {e} = {c}
    BY <1>0
  <1>5. Pending(q2) = pend /\ PendingWell(q2.pending)
    BY <1>2, <1>3 DEF Pending, pend
  <1>6. ~Sent(q2.mbox, Bind(c))
    BY <1>0, <1>1, <1>3
  <1>7. Made(q, q2, s)
    <2>1. Made(q, q1, s)
      BY <1>0, <1>1, PairedMade
    <2> QED BY <2>1, <1>3 DEF Made
  <1> QED BY <1>2, <1>3, <1>4, <1>5, <1>6, <1>7 DEF Met

IdWritten(q, q2, s, c, e, pend, found) ==
    /\ Sound(q2, pend, found, {c, e}) /\ s \notin pend
    /\ q2.sock = q.sock /\ q2.endpoints = q.endpoints /\ q2.pending = q.pending
    /\ q2.pipe[c] = Fresh(s) /\ Bringable(q2.pipe[e], s) /\ q2.pipe[e].state = "active"
    /\ q2.pipe[e].in # << >> /\ Head(q2.pipe[e].in) = "id"
    /\ ~Sent(q2.mbox, Bind(c)) /\ ~Sent(q2.mbox, Bind(e)) /\ Made(q, q2, s)

\* The endpoint was not found, and the end that is to be bound holds the routing id.
LEMMA WriteIdGood ==
    ASSUME NEW q, NEW pend, NEW found, Sound(q, pend, found, {}),
           NEW s \in Connectors, q.pipe[<<s, "connect">>].state = "none",
           NEW c, NEW e, c = <<s, "connect">>, e = <<s, "bind">>,
           NEW q2, q2 = Write(PipePair(q, s, s), c, "id")
    PROVE  IdWritten(q, q2, s, c, e, pend, found)
PROOF
  <1> DEFINE q1 == PipePair(q, s, s)
  <1>0. /\ c \in Ends /\ e \in Ends /\ c # e /\ s \in Sockets /\ q \in Library /\ Peer(c) = e
        /\ e[1] = s /\ << >> \in Seq(Commands)
    <2>1. c \in Ends /\ e \in Ends /\ Peer(c) = e
      BY EndFacts
    <2> QED BY <2>1, SocketFacts DEF Sound
  <1>1. /\ Sound(q1, pend, found, {c, e}) /\ Paired(q, q1, s, s) /\ s \notin pend
        /\ ~Sent(q1.mbox, Bind(c)) /\ ~Sent(q1.mbox, Bind(e))
    <2> HIDE DEF q1
    <2>1. q1 = PipePair(q, s, s)
      BY DEF q1
    <2> QED BY <2>1, <1>0, PairGood
  <1>2. q2 = Write(q1, c, "id")
    OBVIOUS
  <1> HIDE DEF q1
  <1>3. /\ q1.pipe[c] = Fresh(s) /\ q1.pipe[e] = Fresh(s) /\ q1 \in Library
        /\ q1.pending = q.pending /\ q1.endpoints = q.endpoints /\ q1.sock = q.sock
    BY <1>1 DEF Paired
  <1>4. /\ After(q1, q2, q1.sock, s, << >>, pend, found, {c, e}) /\ Written(q1, q2, c, "id")
    <2>1. Good(q1, q1.sock, s, << >>, pend, found, {c, e})
      BY <1>0, <1>1, <1>3, SoundGood
    <2>2. /\ q1.pipe[c].state = "active" /\ q1.pipe[Peer(c)].in_active
          /\ ~q1.pipe[Peer(c)].asleep /\ q1.pipe[Peer(c)].delay /\ Peer(c)[1] \notin pend
      BY <1>0, <1>1, <1>3 DEF Fresh
    <2>3. q1.pipe[c].state \notin Acked \cup {"none"} /\ "id" \in {"id", "msg", "delimiter"}
          /\ "id" # "delimiter" /\ "id" # "msg"
      BY <2>2 DEF Acked
    <2> QED BY ONLY <2>1, <2>2, <2>3, <1>0, <1>2, WriteGood
  <1>5. Sound(q2, pend, found, {c, e}) /\ Kept(q1, q2) /\ q2.sock = q1.sock
    <2>1. Good(q2, q1.sock, s, << >>, pend, found, {c, e}) /\ Kept(q1, q2) /\ q2.sock = q1.sock
      BY <1>4 DEF After
    <2>2. q2 \in Library
      BY <2>1 DEF Good
    <2> QED BY <2>1, <2>2, <1>0, SoundGood
  <1>6. /\ q2.mbox = q1.mbox /\ q2.pipe[c] = q1.pipe[c] /\ q2.pipe[e] = FilledEnd(q1, e, "id")
    BY <1>0, <1>3, <1>4 DEF Written, Fresh
  <1>7. /\ Bringable(q2.pipe[e], s) /\ q2.pipe[e].state = "active"
        /\ q2.pipe[e].in = Append(<< >>, "id")
    <2> DEFINE p == q1.pipe[e]
               r == q2.pipe[e]
    <2>1. p \in PipeType /\ p = Fresh(s)
      BY <1>0, <1>3, LibraryTypes
    <2>2. r = [p EXCEPT !.in = Append(p.in, "id"), !.asleep = FALSE]
      BY <1>6 DEF FilledEnd
    <2> HIDE DEF p, r
    <2>3. p.state = "active" /\ p.delay /\ p.in_active /\ p.in = << >> /\ p.sink = None /\ p.tid = s
      BY <2>1 DEF Fresh
    <2>4. /\ r.state = p.state /\ r.delay = p.delay /\ r.in_active = p.in_active
          /\ r.in = Append(p.in, "id") /\ r.sink = p.sink /\ r.tid = p.tid /\ r.asleep = FALSE
      BY <2>1, <2>2 DEF PipeType
    <2>5. Bringable(r, s) /\ r.state = "active" /\ r.in = Append(<< >>, "id")
      BY <2>3, <2>4 DEF Bringable
    <2> QED BY <2>5 DEF r
  <1>8. q2.pipe[e].in # << >> /\ Head(q2.pipe[e].in) = "id"
    BY <1>7
  <1>9. Made(q, q2, s)
    <2>1. Made(q, q1, s)
      BY <1>0, <1>1, PairedMade
    <2>2. \A f \in Ends : q2.pipe[f].state = "none" <=> q1.pipe[f].state = "none"
      BY <1>5 DEF Kept
    <2>3. q2.endpoints = q1.endpoints /\ q2.sock = q1.sock
      BY <1>5 DEF Kept
    <2> QED BY <2>1, <2>2, <2>3, <1>0 DEF Made
  <1>10. q2.pending = q.pending /\ q2.endpoints = q.endpoints
    BY <1>3, <1>5 DEF Kept
  <1>11. q2.sock = q.sock /\ q2.pipe[c] = Fresh(s) /\ ~Sent(q2.mbox, Bind(c)) /\ ~Sent(q2.mbox, Bind(e))
    BY <1>1, <1>3, <1>5, <1>6
  <1> QED BY <1>1, <1>5, <1>7, <1>8, <1>9, <1>10, <1>11 DEF IdWritten

\* zmq_connect without a peer, up to attach_pipe.
LEMMA MeetPending ==
    ASSUME NEW q, NEW found, Sound(q, Pending(q), found, {}), PendingWell(q.pending),
           NEW s \in Connectors, \A t \in Sockets : <<s, t>> \notin found,
           q.pipe[<<s, "connect">>].state = "none", q.sock[s].stage = "open", q.sock[s].sent = 0,
           NEW q2, q2 = PendConnection(Write(PipePair(q, s, s), <<s, "connect">>, "id"), s)
    PROVE  Met(q, q2, s, found, <<s, "connect">>)
PROOF
  <1> DEFINE c == <<s, "connect">>
             e == <<s, "bind">>
             q1 == Write(PipePair(q, s, s), c, "id")
             pend == Pending(q)
             b == q1.endpoints[Target(s)]
  <1>0. c \in Ends /\ e \in Ends /\ c # e /\ s \in Sockets /\ q \in Library
    <2>1. c \in Ends /\ e \in Ends
      BY EndFacts
    <2> QED BY <2>1, SocketFacts DEF Sound
  <1> HIDE DEF q1, pend, c, e
  <1>1. /\ Sound(q1, pend, found, {c, e}) /\ s \notin pend
        /\ q1.sock = q.sock /\ q1.endpoints = q.endpoints /\ q1.pending = q.pending
        /\ q1.pipe[c] = Fresh(s) /\ Bringable(q1.pipe[e], s) /\ q1.pipe[e].state = "active"
        /\ q1.pipe[e].in # << >> /\ Head(q1.pipe[e].in) = "id"
        /\ ~Sent(q1.mbox, Bind(c)) /\ ~Sent(q1.mbox, Bind(e)) /\ Made(q, q1, s)
    <2>1. /\ c = <<s, "connect">> /\ e = <<s, "bind">> /\ q1 = Write(PipePair(q, s, s), c, "id")
          /\ Sound(q, pend, found, {})
      BY DEF c, e, q1, pend
    <2>2. IdWritten(q, q1, s, c, e, pend, found)
      <3>1. q.pipe[<<s, "connect">>].state = "none"
        OBVIOUS
      <3> QED BY ONLY <3>1, <2>1, s \in Connectors, WriteIdGood
    <2> QED BY <2>2 DEF IdWritten
  <1>2. Pending(q1) = pend /\ PendingWell(q1.pending) /\ q1 \in Library
    BY <1>1 DEF Pending, pend, Sound
  <1>3. {c, e} \ {e} = {c} /\ e \in {c, e}
    BY <1>0
  <1>4. q2 = PendConnection(q1, s)
    BY DEF q1, c
  <1>5. CASE b = None
    <2>1. q2 = EditPend(IncSeqnum(q1, s), s, Target(s))
      BY <1>4, <1>5 DEF PendConnection, EditPend
    <2>2. /\ Sound(q2, Pending(q2), found, {c, e} \ {e}) /\ PendingWell(q2.pending)
          /\ q2.pipe = q1.pipe /\ q2.mbox = q1.mbox /\ q2.endpoints = q1.endpoints
          /\ \A u \in Sockets : q2.sock[u].stage = q1.sock[u].stage
          /\ \A u \in Sockets \ {s} : q2.sock[u] = q1.sock[u]
      <3>1. e = <<s, "bind">>
        BY DEF e
      <3>2. Sound(q1, Pending(q1), found, {c, e}) /\ s \notin Pending(q1)
        BY <1>1, <1>2
      <3>3. q1.sock[s].stage = "open" /\ q1.sock[s].sent = 0
        BY <1>1
      <3> DEFINE X == {c, e}
      <3>4. ReadyToPend(q1, found, X, s, e)
        BY <3>1, <3>2, <3>3, <1>1, <1>2 DEF ReadyToPend
      <3> HIDE DEF X
      <3>5. Pended(q1, q2, found, X, s, e)
        BY ONLY <3>4, <2>1, <1>0, s \in Connectors, PendGood
      <3> QED BY <3>5 DEF Pended, X
    <2>3. Made(q, q2, s)
      <3>1. \A u \in Connectors \ {s} : q2.sock[u].sent = q1.sock[u].sent
        BY <2>2, SocketFacts
      <3> QED BY <3>1, <2>2, <1>1 DEF Made
    <2> QED BY <2>2, <2>3, <1>1, <1>3 DEF Met, c
  <1>6. CASE b # None
    <2> DEFINE q3 == Adopt(q1, b, s)
               found1 == found \cup {<<s, b>>}
    <2>0. b \in Hosts /\ b \in Sockets /\ ~q1.sock[b].destroyed /\ s # b
      <3>1. Target(s) \in ToSet(Bus) /\ Bound(q1.endpoints, q1.sock)
        BY <1>1, TargetBound DEF Sound, Holds
      <3>2. b \in Hosts /\ ~q1.sock[b].terminating
        BY <3>1, <1>6 DEF Bound
      <3>3. b \in Sockets /\ s # b
        BY <3>2, SocketFacts
      <3>4. Counting(q1.sock, q1.mbox, pend, found, b)
        BY <3>3, <1>1 DEF Sound, Holds
      <3> QED BY <3>2, <3>3, <3>4 DEF Counting
    <2>1. q2 = SendTo(q3, b, Bind(e))
      BY <1>4, <1>6 DEF PendConnection, Bind, e
    <2> HIDE DEF b, q3
    <2>2. Adoptable(q1.pipe, e)
      <3>1. Peer(e) = c
        BY EndFacts DEF e, c
      <3>2. q1.pipe[c].tid = s
        BY <1>1 DEF Fresh
      <3> QED BY <3>1, <3>2, <1>1 DEF Adoptable, Bringable
    <2>3. s \notin Owed(q1.mbox, pend, found, b)
      <3>1. ~At(q1.mbox, b, Bind(<<s, "bind">>))
        BY <2>0, <1>1 DEF Sent, e
      <3> QED BY <3>1, <2>0 DEF Owed
    <2>4. Sound(q3, pend, found1, {c, e}) /\ Adopted(q1, q3, e, b) /\ KeptBut(q1, q3, b)
      <3>1. q3 = Adopt(q1, b, s) /\ e = <<s, "bind">>
        BY DEF q3, e
      <3> QED BY <3>1, <2>0, <2>2, <2>3, <1>0, <1>1, <1>3, AdoptGood
    <2>5. /\ q3.pipe[c] = Fresh(s) /\ Bringable(q3.pipe[e], b) /\ q3.mbox = q1.mbox
      <3>1. q1.pipe \in PipeTable /\ q1.pipe[e] \in PipeType
        BY <1>0, <1>2, LibraryTypes
      <3>2. q3.pipe[c] = q1.pipe[c] /\ q3.pipe[e] = Handed(q1.pipe[e], b) /\ q3.mbox = q1.mbox
        BY <3>1, <2>4, <1>0 DEF Adopted, PipeTable
      <3> DEFINE p == q1.pipe[e]
                 r == q3.pipe[e]
      <3>3. p \in PipeType /\ b \in Sockets /\ p.in # << >> /\ r = Handed(p, b)
        BY <3>1, <3>2, <2>0, <1>1
      <3>4. Bringable(p, s)
        BY <1>1
      <3> HIDE DEF p, r
      <3>5. /\ r.sink = p.sink /\ r.state = p.state /\ r.tid = b /\ r.delay = p.delay
            /\ r.asleep = p.asleep /\ r.in_active = p.in_active
        BY ONLY <3>3, HandedFacts
      <3>6. Bringable(r, b)
        BY <3>4, <3>5 DEF Bringable
      <3> QED BY <3>2, <3>6, <1>1 DEF r
    <2>6. /\ Sound(q2, pend, found1 \ {<<s, b>>}, {c, e} \ {e})
          /\ q2.pipe = q3.pipe /\ q2.sock = q3.sock /\ q2.endpoints = q3.endpoints
          /\ q2.pending = q3.pending
          /\ \A f \in Ends : f # e => (Sent(q2.mbox, Bind(f)) <=> Sent(q3.mbox, Bind(f)))
      <3>1. e = <<s, "bind">> /\ <<s, b>> \in found1 /\ ~Sent(q3.mbox, Bind(e))
        BY <2>5, <1>1 DEF e
      <3> DEFINE X == {c, e}
      <3> HIDE DEF found1, X
      <3>2. ReadyToBind(q3, pend, found1, X, s, b, e)
        BY <3>1, <2>4, <2>5, <1>1 DEF ReadyToBind, X
      <3>3. BindSent(q3, q2, pend, found1, X, s, b, e)
        BY ONLY <2>1, <3>2, <2>0, <1>0, s \in Connectors, SendBindGood
      <3> QED BY <3>3 DEF BindSent, X
    <2>7. found1 \ {<<s, b>>} = found
      BY <2>0
    <2>8. Pending(q2) = pend /\ PendingWell(q2.pending)
      BY <2>4, <2>6, <1>2 DEF KeptBut, Pending
    <2>9. ~Sent(q2.mbox, Bind(c)) /\ q2.pipe[c] = Fresh(s)
      BY <2>5, <2>6, <1>0, <1>1
    <2>10. Made(q, q2, s)
      <3>1. b \notin Connectors /\ \A u \in Connectors : u \in Sockets
        BY <2>0, SocketFacts
      <3>2. /\ q2.endpoints = q1.endpoints
            /\ \A f \in Ends : q2.pipe[f].state = "none" <=> q1.pipe[f].state = "none"
            /\ \A u \in Sockets : q2.sock[u].stage = q1.sock[u].stage
            /\ \A u \in Sockets \ {b} : q2.sock[u].sent = q1.sock[u].sent
        BY <2>4, <2>6 DEF KeptBut
      <3>3. \A u \in Connectors \ {s} : q2.sock[u].sent = q1.sock[u].sent
        BY <3>1, <3>2
      <3> QED BY <3>2, <3>3, <1>0, <1>1 DEF Made, c
    <2> QED BY <2>6, <2>7, <2>8, <2>9, <2>10, <1>3 DEF Met, c
  <1> QED BY <1>5, <1>6

Connected(q, q1, s, found) ==
    Sound(q1, Pending(q1), found, {}) /\ PendingWell(q1.pending) /\ Made(q, q1, s)

\* The last part of zmq_connect: the socket attaches its own end.
LEMMA JoinGood ==
    ASSUME NEW q, NEW q1, NEW s \in Connectors, NEW found, NEW c \in Ends, c = <<s, "connect">>,
           Met(q, q1, s, found, c), q.sock[s].stage = "open", NEW q2, q2 = AttachPipe(q1, s, c)
    PROVE  Connected(q, q2, s, found)
PROOF
  <1>1. /\ Sound(q1, Pending(q1), found, {c}) /\ PendingWell(q1.pending)
        /\ q1.pipe[c] = Fresh(s) /\ ~Sent(q1.mbox, Bind(c)) /\ Made(q, q1, s)
    BY DEF Met
  <1>2. s \in Sockets /\ q1.sock[s].stage = "open"
    BY <1>1, SocketFacts DEF Made
  <1>3. Sound(q2, Pending(q1), found, {}) /\ Kept(q1, q2)
    BY <1>1, <1>2, AttachOwnGood
  <1>4. Pending(q2) = Pending(q1) /\ q2.pending = q1.pending
    BY <1>3 DEF Kept, Pending
  <1>5. Made(q, q2, s)
    <2>1. /\ q2.endpoints = q1.endpoints
          /\ \A f \in Ends : q2.pipe[f].state = "none" <=> q1.pipe[f].state = "none"
          /\ \A u \in Sockets : q2.sock[u].stage = q1.sock[u].stage /\ q2.sock[u].sent = q1.sock[u].sent
      BY <1>3 DEF Kept
    <2>2. <<s, "connect">> \in Ends /\ \A u \in Connectors : u \in Sockets
      BY SocketFacts, EndFacts
    <2> QED BY <2>1, <2>2, <1>1 DEF Made
  <1> QED BY <1>1, <1>3, <1>4, <1>5 DEF Connected

=============================================================================

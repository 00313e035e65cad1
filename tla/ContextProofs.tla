---------------------------- MODULE ContextProofs ----------------------------
(***************************************************************************)
(* Proofs about Context, for any set of clients: no assertion of the       *)
(* library fails, and no command, endpoint, connection or pipe end names   *)
(* what has been deleted.                                                  *)
(***************************************************************************)
EXTENDS ContextLibraryProofs

-----------------------------------------------------------------------------
(* The inductive invariant: that of the library, and of the threads that     *)
(* use it.                                                                   *)

\* Socket s, the j-th of a client that is about to take step st with its i-th.
LinkAt(q, s, st, i, j) ==
    LET stage == q.sock[s].stage
        new == st \in {"create", "find", "connect"} /\ j >= i
    IN  /\ stage = "none" <=> \/ st = "create" /\ j >= i
                              \/ st \in {"find", "connect"} /\ j > i
        /\ stage = "open" <=> \/ st = "create" /\ j < i
                              \/ st \in {"find", "connect", "close"} /\ j <= i
        /\ q.pipe[<<s, "connect">>].state = "none" <=> new
        /\ new => q.sock[s].sent = 0

ClientInv(k) ==
    /\ peer[k] # None => cpc[k][1] = "connect"
    /\ \A j \in 1 .. Len(Links) : LinkAt(z, <<k, Links[j]>>, cpc[k][1], cpc[k][2], j)

\* The j-th socket of the bus, when its thread is about to take step st with the i-th.
BusAt(stage, st, i, j) ==
    /\ stage = "none" <=> \/ st = "create" /\ j >= i
                          \/ st = "bind" /\ j > i
    /\ stage = "open" <=> \/ st = "create" /\ j < i
                          \/ st = "bind" /\ j <= i
                          \/ st = "close" /\ j >= i

BusSteps == {<<"terminate", 0>>, <<"pairs", 0>>, <<"wait", 0>>, <<"dead", 0>>,
             <<"interrupted", 0>>}

BusInv ==
    /\ \/ bpc \in {"create", "bind", "close"} \X (1 .. Len(Bus))
       \/ bpc \in BusSteps
       \/ bpc \in {"pair"} \X copy /\ z.sock[PairOf(bpc[2])].stage = "open"
    /\ \A j \in 1 .. Len(Bus) : BusAt(z.sock[Bus[j]].stage, bpc[1], bpc[2], j)
    /\ copy \subseteq Connectors
    /\ bpc[1] \notin {"pairs", "pair"} => copy = {}
    /\ bpc[1] \in {"create", "bind", "close", "terminate"} =>
          \A s \in Connectors : z.sock[PairOf(s)].stage = "none"
    /\ \A s \in copy : bpc # <<"pair", s>> => z.sock[PairOf(s)].stage = "none"
    /\ terminating => bpc[1] \in {"wait", "dead", "interrupted"}

\* A socket that the reaper is to get is closed, and it gets it once.
ReapAt(q, box, i) ==
    box[i][1] = "reap" =>
       /\ q.sock[box[i][2]].stage = "closed"
       /\ \A j \in 1 .. Len(box) : box[j] = box[i] => i = j

Stopping(rp) == rp.stop \/ \E i \in 1 .. Len(rp.mbox) : rp.mbox[i][1] = "stop"

ReaperInv ==
    /\ \A i \in 1 .. Len(reaper.mbox) : ReapAt(z, reaper.mbox, i)
    /\ Stopping(reaper) => terminating /\ Live(z) = {}
    /\ reaper.done => reaper.stop

StepNames == {"create", "find", "connect", "close", "gone"}
ReaperCommands == {<<"reap", s>> : s \in Sockets} \cup {<<"reaped", None>>, <<"stop", None>>}

TypeInv ==
    /\ cpc \in [Clients -> StepNames \X (1 .. Len(Links))]
    /\ peer \in [Clients -> Hosts \cup {None}]
    /\ reaper \in [mbox : Seq(ReaperCommands), sockets : Int, stop : BOOLEAN, done : BOOLEAN]
    /\ terminating \in BOOLEAN

ContextInv ==
    LibraryInv /\ TypeInv /\ (\A k \in Clients : ClientInv(k)) /\ BusInv /\ ReaperInv

-----------------------------------------------------------------------------
(* The threads.                                                             *)

\* What the clients see of the library: how far their sockets are.
SameSocket(q, q1, s) ==
    /\ q1.sock[s].stage = "none" <=> q.sock[s].stage = "none"
    /\ q1.sock[s].stage = "open" <=> q.sock[s].stage = "open"
    /\ q1.pipe[<<s, "connect">>].state = "none" <=> q.pipe[<<s, "connect">>].state = "none"
    /\ q1.sock[s].sent = q.sock[s].sent

\* The sockets of the clients.
LEMMA ClientSockets ==
    /\ Len(Links) \in 1 .. 2
    /\ \A k \in Clients, j \in 1 .. Len(Links) : <<k, Links[j]>> \in Connectors
    /\ \A i, j \in 1 .. Len(Links) : Links[i] = Links[j] => i = j
    /\ \A s \in Connectors : \E k \in Clients, j \in 1 .. Len(Links) : s = <<k, Links[j]>>
PROOF
  <1>1. Len(Links) \in 1 .. 2
        /\ \A i, j \in 1 .. Len(Links) : Links[i] = Links[j] => i = j
    BY LinkFacts
  <1>2. ToSet(Links) = {Links[j] : j \in 1 .. Len(Links)}
    BY LinkFacts
  <1> QED BY <1>1, <1>2 DEF Connectors

\* What a client knows of a socket depends only on what it sees of it.
LEMMA LinkKept ==
    ASSUME NEW q, NEW q1, NEW s, NEW st, NEW i, NEW j, SameSocket(q, q1, s), LinkAt(q, s, st, i, j)
    PROVE  LinkAt(q1, s, st, i, j)
PROOF
  <1> DEFINE a == q.sock[s].stage = "none"
             a1 == q1.sock[s].stage = "none"
             b == q.sock[s].stage = "open"
             b1 == q1.sock[s].stage = "open"
             c == q.pipe[<<s, "connect">>].state = "none"
             c1 == q1.pipe[<<s, "connect">>].state = "none"
             new == st \in {"create", "find", "connect"} /\ j >= i
             A == (st = "create" /\ j >= i) \/ (st \in {"find", "connect"} /\ j > i)
             B == (st = "create" /\ j < i) \/ (st \in {"find", "connect", "close"} /\ j <= i)
  <1>1. (a1 <=> a) /\ (b1 <=> b) /\ (c1 <=> c) /\ q1.sock[s].sent = q.sock[s].sent
    BY DEF SameSocket
  <1>2. (a <=> A) /\ (b <=> B) /\ (c <=> new) /\ (new => q.sock[s].sent = 0)
    BY DEF LinkAt
  <1>3. (a1 <=> A) /\ (b1 <=> B) /\ (c1 <=> new) /\ (new => q1.sock[s].sent = 0)
    <2> HIDE DEF a, a1, b, b1, c, c1, new, A, B
    <2> QED BY <1>1, <1>2
  <1> QED BY <1>3 DEF LinkAt

\* A client whose sockets did not change for it.
LEMMA ClientKept ==
    ASSUME NEW k \in Clients, ClientInv(k), cpc'[k] = cpc[k], peer'[k] = peer[k],
           \A j \in 1 .. Len(Links) : SameSocket(z, z', <<k, Links[j]>>)
    PROVE  ClientInv(k)'
PROOF
  <1>1. ASSUME NEW s, NEW st, NEW i, NEW j, SameSocket(z, z', s), LinkAt(z, s, st, i, j)
        PROVE  LinkAt(z', s, st, i, j)
    BY <1>1, LinkKept
  <1>2. \A j \in 1 .. Len(Links) : LinkAt(z', <<k, Links[j]>>, cpc'[k][1], cpc'[k][2], j)
    BY <1>1 DEF ClientInv
  <1> QED BY <1>2 DEF ClientInv

SameStage(q, q1, t) ==
    /\ q1.sock[t].stage = "none" <=> q.sock[t].stage = "none"
    /\ q1.sock[t].stage = "open" <=> q.sock[t].stage = "open"

\* The connections that a thread inside zmq_connect is about to make.
LEMMA FoundIs ==
    ASSUME TypeInv, \A k \in Clients : ClientInv(k)
    PROVE  /\ FoundNew(z.pipe, Found)
           /\ \A k \in Clients : Socket(k) \in Connectors
           /\ \A k \in Clients, t \in Sockets :
                 <<Socket(k), t>> \in Found => peer[k] = t /\ peer[k] # None
           /\ \A k \in Clients : peer[k] # None => <<Socket(k), peer[k]>> \in Found
PROOF
  <1>0. \A k \in Clients : /\ cpc[k][1] \in StepNames /\ cpc[k][2] \in 1 .. Len(Links)
                           /\ Socket(k) = <<k, Links[cpc[k][2]]>> /\ Socket(k) \in Connectors
    BY ClientSockets DEF TypeInv, Socket
  <1>1. ASSUME NEW k \in Clients, peer[k] # None
        PROVE  z.pipe[<<Socket(k), "connect">>].state = "none"
    <2>1. cpc[k][1] = "connect" /\ cpc[k][2] \in 1 .. Len(Links) /\ cpc[k][2] >= cpc[k][2]
      BY <1>0, <1>1, ClientSockets DEF ClientInv
    <2>2. LinkAt(z, Socket(k), cpc[k][1], cpc[k][2], cpc[k][2])
      BY <1>0, <2>1 DEF ClientInv
    <2> QED BY <2>1, <2>2 DEF LinkAt
  <1>2. \A k, l \in Clients : Socket(k) = Socket(l) => k = l
    BY <1>0
  <1>3. \A x, t : <<x, t>> \in Found => \E k \in Clients : x = Socket(k) /\ t = peer[k] /\ peer[k] # None
    BY DEF Found
  <1>4. FoundNew(z.pipe, Found)
    BY <1>1, <1>3 DEF FoundNew
  <1>5. \A k \in Clients, t \in Sockets : <<Socket(k), t>> \in Found => peer[k] = t /\ peer[k] # None
    BY <1>2, <1>3
  <1>6. \A k \in Clients : peer[k] # None => <<Socket(k), peer[k]>> \in Found
    BY DEF Found
  <1> QED BY <1>0, <1>4, <1>5, <1>6

\* What the invariant says of the library.
LEMMA LibraryIs ==
    ASSUME ContextInv
    PROVE  /\ Sound(z, Pending(z), Found, {}) /\ PendingWell(z.pending)
           /\ FoundNew(z.pipe, Found) /\ z \in Library
PROOF
  <1>1. FoundNew(z.pipe, Found)
    BY FoundIs DEF ContextInv
  <1> QED BY <1>1 DEF ContextInv, LibraryInv, Sound

\* Clients whose sockets did not change for them.
LEMMA ClientsKept ==
    ASSUME \A k \in Clients : ClientInv(k), cpc' = cpc, peer' = peer,
           \A s \in Connectors : SameSocket(z, z', s)
    PROVE  (\A k \in Clients : ClientInv(k)') /\ Found' = Found
PROOF
  <1>1. ASSUME NEW k \in Clients PROVE ClientInv(k)'
    BY ClientKept, ClientSockets
  <1>2. \A k : Socket(k)' = Socket(k)
    BY DEF Socket
  <1> QED BY <1>1, <1>2 DEF Found

\* What the bus knows of a socket depends only on its stage.
LEMMA BusAtKept ==
    ASSUME NEW q, NEW q1, NEW t, SameStage(q, q1, t), NEW st, NEW i, NEW j,
           BusAt(q.sock[t].stage, st, i, j)
    PROVE  BusAt(q1.sock[t].stage, st, i, j)
PROOF
  <1> DEFINE a == q.sock[t].stage = "none"
             a1 == q1.sock[t].stage = "none"
             b == q.sock[t].stage = "open"
             b1 == q1.sock[t].stage = "open"
             A == \/ st = "create" /\ j >= i
                  \/ st = "bind" /\ j > i
             B == \/ st = "create" /\ j < i
                  \/ st = "bind" /\ j <= i
                  \/ st = "close" /\ j >= i
  <1>1. (a1 <=> a) /\ (b1 <=> b)
    BY DEF SameStage
  <1>2. (a <=> A) /\ (b <=> B)
    BY DEF BusAt
  <1>3. (a1 <=> A) /\ (b1 <=> B)
    <2> HIDE DEF a, a1, b, b1, A, B
    <2> QED BY <1>1, <1>2
  <1> QED BY <1>3 DEF BusAt

\* The names of the sockets of the bus.
LEMMA BusNames ==
    /\ Len(Bus) = Len(Links) /\ Len(Bus) \in Nat
    /\ \A j \in 1 .. Len(Bus) : Bus[j] \in ToSet(Bus) /\ Bus[j] \in Hosts /\ Bus[j] \in Sockets
    /\ \A a \in ToSet(Bus) : \E j \in 1 .. Len(Bus) : a = Bus[j]
    /\ \A i, j \in 1 .. Len(Bus) : Bus[i] = Bus[j] => i = j
    /\ \A j \in 1 .. Len(Bus), s \in Connectors : Bus[j] # PairOf(s)
  BY BusFacts, LinkFacts, SocketFacts

\* The thread of the bus, when its sockets stay in their stages.
LEMMA BusKept ==
    ASSUME BusInv, bpc' = bpc, copy' = copy, terminating' = terminating,
           \A t \in Hosts : SameStage(z, z', t)
    PROVE  BusInv'
PROOF
  <1>1. \A j \in 1 .. Len(Bus) : BusAt(z'.sock[Bus[j]].stage, bpc[1], bpc[2], j)
    BY BusAtKept, BusNames DEF BusInv
  <1>2. \A s \in Connectors : PairOf(s) \in Hosts /\ SameStage(z, z', PairOf(s))
    BY SocketFacts
  <1>3. \A s \in Connectors : /\ z'.sock[PairOf(s)].stage = "none" <=> z.sock[PairOf(s)].stage = "none"
                              /\ z'.sock[PairOf(s)].stage = "open" <=> z.sock[PairOf(s)].stage = "open"
    BY <1>2 DEF SameStage
  <1>4. bpc \in {"pair"} \X copy => bpc[2] \in Connectors
    BY DEF BusInv
  <1> QED BY <1>1, <1>3, <1>4 DEF BusInv

\* The reaper, when closed sockets stay closed.
LEMMA ReaperKept ==
    ASSUME TypeInv, ReaperInv, reaper' = reaper, terminating' = terminating,
           \A t \in Sockets : z.sock[t].stage = "closed" => z'.sock[t].stage = "closed",
           terminating /\ Live(z) = {} => Live(z') = {}
    PROVE  ReaperInv'
PROOF
  <1>1. \A i \in 1 .. Len(reaper.mbox) : reaper.mbox[i] \in ReaperCommands
    BY DEF TypeInv
  <1>2. \A i \in 1 .. Len(reaper.mbox) : reaper.mbox[i][1] = "reap" => reaper.mbox[i][2] \in Sockets
    BY <1>1 DEF ReaperCommands
  <1>3. \A i \in 1 .. Len(reaper.mbox) : ReapAt(z', reaper.mbox, i)
    BY <1>2 DEF ReaperInv, ReapAt
  <1> QED BY <1>3 DEF ReaperInv

\* A step of the library that leaves every socket in its stage.
LEMMA QuietParts ==
    ASSUME ContextInv, UNCHANGED <<reaper, terminating, cpc, peer>>,
           Sound(z', Pending(z'), Found, {}), PendingWell(z'.pending),
           \A t \in Sockets : z'.sock[t].stage = z.sock[t].stage,
           \A f \in Ends : z'.pipe[f].state = "none" <=> z.pipe[f].state = "none",
           \A t \in Connectors : z'.sock[t].sent = z.sock[t].sent
    PROVE  LibraryInv' /\ TypeInv' /\ (\A k \in Clients : ClientInv(k)') /\ ReaperInv'
PROOF
  <1>1. \A s \in Connectors : SameSocket(z, z', s)
    BY SocketFacts, EndFacts DEF SameSocket
  <1>3. (\A k \in Clients : ClientInv(k)') /\ Found' = Found
    BY <1>1, ClientsKept DEF ContextInv
  <1>5. Live(z') = Live(z)
    BY DEF Live
  <1>6. ReaperInv'
    BY <1>5, ReaperKept DEF ContextInv
  <1>7. TypeInv'
    BY DEF ContextInv, TypeInv
  <1>8. LibraryInv'
    BY <1>3 DEF LibraryInv, Sound
  <1> QED BY <1>3, <1>6, <1>7, <1>8

\* A step of the library that leaves every socket in its stage keeps the
\* invariant.
LEMMA QuietStep ==
    ASSUME ContextInv, UNCHANGED <<reaper, terminating, cpc, peer, bpc, copy>>,
           Sound(z', Pending(z'), Found, {}), PendingWell(z'.pending),
           \A t \in Sockets : z'.sock[t].stage = z.sock[t].stage,
           \A f \in Ends : z'.pipe[f].state = "none" <=> z.pipe[f].state = "none",
           \A t \in Connectors : z'.sock[t].sent = z.sock[t].sent
    PROVE  ContextInv'
PROOF
  <1>1. LibraryInv' /\ TypeInv' /\ (\A k \in Clients : ClientInv(k)') /\ ReaperInv'
    BY QuietParts
  <1>2. \A t \in Hosts : SameStage(z, z', t)
    BY SocketFacts DEF SameStage
  <1>3. BusInv'
    BY <1>2, BusKept DEF ContextInv
  <1> QED BY <1>1, <1>3 DEF ContextInv

\* A step that no thread sees keeps the invariant.
LEMMA KeptStep ==
    ASSUME ContextInv, UNCHANGED <<reaper, terminating, cpc, peer, bpc, copy>>,
           Sound(z', Pending(z), Found, {}), Kept(z, z')
    PROVE  ContextInv'
PROOF
  <1>1. /\ z'.pending = z.pending
        /\ \A t \in Sockets : z'.sock[t].stage = z.sock[t].stage /\ z'.sock[t].sent = z.sock[t].sent
        /\ \A f \in Ends : z'.pipe[f].state = "none" <=> z.pipe[f].state = "none"
    BY DEF Kept
  <1>2. Pending(z') = Pending(z)
    BY <1>1 DEF Pending
  <1>3. PendingWell(z'.pending)
    BY <1>1, LibraryIs
  <1> QED BY <1>1, <1>2, <1>3, SocketFacts, QuietStep

\* A socket handles its commands, in the hands of its thread or of the
\* reaper.
LEMMA CommandsStep ==
    ASSUME ContextInv, NEW s \in Sockets, SocketCommands(s) \/ ReapedSocket(s)
    PROVE  ContextInv'
PROOF
  <1>1. z' = ProcessCommands(z, s) /\ UNCHANGED <<reaper, terminating, cpc, peer, bpc, copy>>
    BY DEF SocketCommands, ReapedSocket
  <1>2. Sound(z', Pending(z), Found, {}) /\ Kept(z, z')
    <2> DEFINE pend == Pending(z)
    <2>1. Sound(z, pend, Found, {}) /\ FoundNew(z.pipe, Found)
      BY LibraryIs
    <2> HIDE DEF pend
    <2> QED BY <1>1, <2>1, CommandsGood DEF pend
  <1> QED BY <1>1, <1>2, KeptStep

\* A step on one pipe keeps the invariant.
LEMMA AfterStep ==
    ASSUME ContextInv, UNCHANGED <<reaper, terminating, cpc, peer, bpc, copy>>,
           NEW s \in Sockets, After(z, z', z.sock, s, << >>, Pending(z), Found, {})
    PROVE  ContextInv'
PROOF
  <1>1. /\ Good(z', z.sock, s, << >>, Pending(z), Found, {}) /\ Kept(z, z')
        /\ z'.sock = z.sock
    BY DEF After
  <1>2. Good(z', z'.sock, s, << >>, Pending(z), Found, {}) /\ z' \in Library
    BY <1>1 DEF Good
  <1>3. Sound(z', Pending(z), Found, {})
    BY <1>2, SoundGood
  <1> QED BY <1>1, <1>3, KeptStep

\* The invariant, with nothing taken out of the mailbox of s.
LEMMA GoodNow ==
    ASSUME ContextInv, NEW s \in Sockets
    PROVE  Good(z, z.sock, s, << >>, Pending(z), Found, {})
  BY LibraryIs, SoundGood

\* A socket reads a pipe.
LEMMA ReadStep ==
    ASSUME ContextInv, NEW e \in Ends, SocketRead(e)
    PROVE  ContextInv'
PROOF
  <1> DEFINE s == e[1]
             pend == Pending(z)
             found == Found
             sock == z.sock
             h == << >>
  <1>1. /\ z' = ReadAll(z, e) /\ UNCHANGED <<reaper, terminating, cpc, peer, bpc, copy>>
        /\ z.pipe[e].sink # None /\ z.pipe[e].state \in {"active", "waiting_for_delimiter"}
    BY DEF SocketRead, CanRead
  <1>2. s \in Sockets /\ Good(z, sock, s, h, pend, found, {}) /\ h \in Seq(Commands)
    BY EndFacts, GoodNow
  <1>3. After(z, z', sock, s, h, pend, found, {})
    <2> HIDE DEF s, pend, found, sock, h
    <2> QED BY ONLY <1>1, <1>2, e \in Ends, ReadGood
  <1> QED BY <1>1, <1>2, <1>3, AfterStep

\* A socket writes to a pipe.
LEMMA WriteStep ==
    ASSUME ContextInv, NEW e \in Ends, SocketWrite(e)
    PROVE  ContextInv'
PROOF
  <1> DEFINE s == e[1]
             pend == Pending(z)
             found == Found
             sock == z.sock
             h == << >>
             X == {}
             m == "msg"
  <1>1. /\ z' = Write(z, e, m) /\ UNCHANGED <<reaper, terminating, cpc, peer, bpc, copy>>
        /\ z.pipe[e].state = "active"
    BY DEF SocketWrite
  <1>2. s \in Sockets /\ Good(z, sock, s, h, pend, found, X) /\ h \in Seq(Commands)
        /\ m \in {"id", "msg", "delimiter"} /\ m # "delimiter" /\ Peer(e) \notin X
    BY EndFacts, GoodNow
  <1>3. z.pipe[e].state \notin Acked \cup {"none"}
    BY <1>1 DEF Acked
  <1>4. After(z, z', sock, s, h, pend, found, X)
    <2> HIDE DEF s, pend, found, sock, h, X, m
    <2> QED BY ONLY <1>1, <1>2, <1>3, e \in Ends, WriteGood
  <1> QED BY <1>1, <1>2, <1>4, AfterStep
EditStage(q, t, x) == [q EXCEPT !.sock[t].stage = x]
EditEndpoint(q, a, v) == [q EXCEPT !.endpoints[a] = v]

\* What has changed when socket t is in stage x.
Staged(q, q1, t, x) ==
    /\ q1 \in Library /\ q1.pipe = q.pipe /\ q1.mbox = q.mbox /\ q1.endpoints = q.endpoints
    /\ q1.pending = q.pending /\ q1.ok = q.ok
    /\ q1.sock[t].stage = x /\ q1.sock[t].sent = q.sock[t].sent /\ q1.sock[t].only = q.sock[t].only
    /\ q1.sock[t].terminating = q.sock[t].terminating
    /\ \A u \in Sockets : u # t => q1.sock[u] = q.sock[u]

\* A socket is opened, closed or deleted.
LEMMA StageGood ==
    ASSUME NEW q, NEW pend, NEW found, Sound(q, pend, found, {}), NEW t \in Sockets,
           NEW x \in Stages,
           \/ q.sock[t].stage \in {"none", "open"} /\ x \in {"open", "closed"}
           \/ q.sock[t].stage = "reaping" /\ q.sock[t].destroyed /\ x = "gone",
           NEW q1, q1 = EditStage(q, t, x)
    PROVE  Sound(q1, pend, found, {}) /\ Staged(q, q1, t, x)
PROOF
  <1> DEFINE v == q.sock[t]
             w == [v EXCEPT !.stage = x]
  <1>0. q \in Library /\ q.ok /\ v \in SocketType
        /\ Holds(q.pipe, q.sock, q.endpoints, q.mbox, pend, found, {})
    BY LibraryTypes DEF Sound
  <1>1. /\ w \in SocketType /\ w.stage = x /\ w.pipes = v.pipes /\ w.only = v.only
        /\ w.term_acks = v.term_acks /\ w.sent = v.sent /\ w.processed = v.processed
        /\ w.terminating = v.terminating /\ w.destroyed = v.destroyed
    <2> HIDE DEF v
    <2> QED BY <1>0 DEF SocketType
  <1>2. StageChange(v, w)
    BY <1>1 DEF StageChange
  <1>3. q1 = WithSock(q, t, w)
    BY DEF EditStage, WithSock
  <1> HIDE DEF w
  <1>4. IsWithSock(q, t, w, q1)
    BY <1>0, <1>1, <1>3, WithSockFacts
  <1>5. Holds(q.pipe, [q.sock EXCEPT ![t] = w], q.endpoints, q.mbox, pend, found, {})
    BY <1>0, <1>1, <1>2, StageStep
  <1>6. Sound(q1, pend, found, {})
    BY <1>0, <1>4, <1>5 DEF IsWithSock, Sound
  <1> QED BY <1>1, <1>4, <1>6 DEF IsWithSock, Staged

\* An endpoint is bound to a socket that does not terminate, or unbound.
LEMMA EndpointGood ==
    ASSUME NEW q, NEW pend, NEW found, Sound(q, pend, found, {}), NEW a \in ToSet(Bus),
           NEW v, v = None \/ v = q.endpoints[a] \/ (v \in Hosts /\ ~q.sock[v].terminating),
           NEW q1, q1 = EditEndpoint(q, a, v)
    PROVE  /\ Sound(q1, pend, found, {}) /\ q1 \in Library
           /\ q1.pipe = q.pipe /\ q1.mbox = q.mbox /\ q1.sock = q.sock /\ q1.pending = q.pending
           /\ q1.ok = q.ok
PROOF
  <1>0. q \in Library /\ q.ok /\ q.endpoints \in EndpointTable
        /\ Holds(q.pipe, q.sock, q.endpoints, q.mbox, pend, found, {})
    BY LibraryTypes DEF Sound
  <1> DEFINE en == [q.endpoints EXCEPT ![a] = v]
  <1>1. v \in Sockets \cup {None}
    BY <1>0, SocketFacts DEF EndpointTable
  <1>2. en \in EndpointTable /\ en[a] = v /\ \A c \in ToSet(Bus) : c # a => en[c] = q.endpoints[c]
    BY <1>0, <1>1 DEF EndpointTable
  <1>3. q1 = [q EXCEPT !.endpoints = en]
    BY DEF EditEndpoint
  <1> HIDE DEF en
  <1>4. /\ q1 \in Library /\ q1.endpoints = en /\ q1.pipe = q.pipe /\ q1.mbox = q.mbox
        /\ q1.sock = q.sock /\ q1.pending = q.pending /\ q1.ok = q.ok
    BY <1>0, <1>2, <1>3 DEF Library
  <1>5. Bound(en, q.sock)
    <2>1. Bound(q.endpoints, q.sock)
      BY <1>0 DEF Holds
    <2> QED BY <2>1, <1>2 DEF Bound
  <1>6. Holds(q.pipe, q.sock, en, q.mbox, pend, found, {})
    BY <1>0, <1>2, <1>5 DEF Holds
  <1> QED BY <1>0, <1>4, <1>6 DEF Sound

\* zmq_close: the reaper is to get socket s.
LEMMA ReapStep ==
    ASSUME TypeInv, ReaperInv, NEW s \in Sockets, Reap(s), terminating' = terminating,
           z.sock[s].stage # "closed", z'.sock[s].stage = "closed",
           \A t \in Sockets : z.sock[t].stage = "closed" => z'.sock[t].stage = "closed",
           ~(terminating /\ Live(z) = {})
    PROVE  /\ ReaperInv'
           /\ reaper' \in [mbox : Seq(ReaperCommands), sockets : Int, stop : BOOLEAN, done : BOOLEAN]
PROOF
  <1> DEFINE box == reaper.mbox
             c == <<"reap", s>>
             box1 == Append(box, c)
  <1>1. box \in Seq(ReaperCommands) /\ c \in ReaperCommands
        /\ reaper \in [mbox : Seq(ReaperCommands), sockets : Int, stop : BOOLEAN, done : BOOLEAN]
    BY DEF TypeInv, ReaperCommands
  <1>2. /\ box1 \in Seq(ReaperCommands) /\ Len(box) \in Nat /\ Len(box1) = Len(box) + 1
        /\ box1[Len(box) + 1] = c /\ \A i \in 1 .. Len(box) : box1[i] = box[i]
    BY <1>1, AppendProperties
  <1>3. reaper' = [reaper EXCEPT !.mbox = box1]
    BY DEF Reap
  <1>4. \A i \in 1 .. Len(box) : box[i][1] = "reap" => box[i][2] \in Sockets /\ ReapAt(z, box, i)
    <2>1. \A i \in 1 .. Len(box) : box[i] \in ReaperCommands
      BY <1>1
    <2> QED BY <2>1 DEF ReaperCommands, ReaperInv
  <1> HIDE DEF box, box1
  <1>5. /\ reaper'.mbox = box1 /\ reaper'.stop = reaper.stop /\ reaper'.done = reaper.done
        /\ reaper' \in [mbox : Seq(ReaperCommands), sockets : Int, stop : BOOLEAN, done : BOOLEAN]
    BY <1>1, <1>2, <1>3
  <1>6. \A i \in 1 .. Len(box) : box[i] # c
    BY <1>4 DEF ReapAt
  <1>7. ASSUME NEW i \in 1 .. Len(box1) PROVE ReapAt(z', box1, i)
    <2> SUFFICES ASSUME box1[i][1] = "reap"
                 PROVE  /\ z'.sock[box1[i][2]].stage = "closed"
                        /\ \A j \in 1 .. Len(box1) : box1[j] = box1[i] => i = j
      BY DEF ReapAt
    <2>0. \A j \in 1 .. Len(box1) : j \in 1 .. Len(box) \/ j = Len(box) + 1
      BY <1>2
    <2>1. CASE i \in 1 .. Len(box)
      <3>1. box1[i] = box[i] /\ box[i][2] \in Sockets /\ ReapAt(z, box, i)
        BY <2>1, <1>2, <1>4
      <3> QED BY <3>1, <2>0, <2>1, <1>2, <1>6 DEF ReapAt
    <2>2. CASE i = Len(box) + 1
      BY <2>0, <2>2, <1>2, <1>6
    <2> QED BY <2>0, <2>1, <2>2
  <1>8. ~Stopping(reaper) /\ ~Stopping(reaper')
    <2>1. ~Stopping(reaper)
      BY DEF ReaperInv
    <2>2. \A i \in 1 .. Len(box1) : i \in 1 .. Len(box) \/ i = Len(box) + 1
      BY <1>2
    <2> QED BY <2>1, <2>2, <1>2, <1>5 DEF Stopping, box
  <1> QED BY <1>5, <1>7, <1>8 DEF ReaperInv
\* The other parts of the invariant after a step of the bus's thread that leaves
\* the sockets of the clients alone.
LEMMA BusParts ==
    ASSUME ContextInv, cpc' = cpc, peer' = peer,
           Sound(z', Pending(z), Found, {}), z'.pending = z.pending,
           \A s \in Connectors : SameSocket(z, z', s)
    PROVE  LibraryInv' /\ (\A k \in Clients : ClientInv(k)')
PROOF
  <1>1. (\A k \in Clients : ClientInv(k)') /\ Found' = Found
    BY ClientsKept DEF ContextInv
  <1>2. Pending(z') = Pending(z) /\ PendingWell(z'.pending)
    BY LibraryIs DEF Pending
  <1> QED BY <1>1, <1>2 DEF LibraryInv, Sound

\* A host is created and bound.
LEMMA RegisterParts ==
    ASSUME ContextInv, UNCHANGED <<reaper, terminating, cpc, peer>>, ~terminating,
           NEW b \in Hosts, NEW a \in ToSet(Bus), z.sock[b].stage = "none",
           z' = EditEndpoint(EditStage(z, b, "open"), a, b)
    PROVE  /\ LibraryInv' /\ TypeInv' /\ (\A k \in Clients : ClientInv(k)') /\ ReaperInv'
           /\ z'.sock[b].stage = "open" /\ \A u \in Sockets : u # b => z'.sock[u] = z.sock[u]
PROOF
  <1> DEFINE q == EditStage(z, b, "open")
             pend == Pending(z)
  <1>0. z' = EditEndpoint(q, a, b)
    OBVIOUS
  <1>1. b \in Sockets /\ b \notin Connectors
    BY SocketFacts
  <1>3. Sound(q, pend, Found, {}) /\ Staged(z, q, b, "open")
    <2>1. Sound(z, pend, Found, {}) /\ "open" \in Stages
      BY LibraryIs DEF Stages
    <2> HIDE DEF q, pend
    <2>2. q = EditStage(z, b, "open")
      BY DEF q
    <2> QED BY <2>1, <2>2, <1>1, StageGood
  <1> HIDE DEF q
  <1>4. ~q.sock[b].terminating
    <2>1. Members(q.sock, q.pipe, b)
      BY <1>1, <1>3 DEF Sound, Holds
    <2> QED BY <2>1, <1>3 DEF Members, Staged
  <1>5. /\ Sound(z', pend, Found, {}) /\ z'.pipe = q.pipe /\ z'.sock = q.sock
        /\ z'.pending = q.pending
    <2> HIDE DEF pend
    <2> QED BY <1>0, <1>1, <1>3, <1>4, EndpointGood
  <1>6. /\ z'.pending = z.pending /\ z'.pipe = z.pipe /\ z'.sock[b].stage = "open"
        /\ \A u \in Sockets : u # b => z'.sock[u] = z.sock[u]
    BY <1>3, <1>5 DEF Staged
  <1>7. \A s \in Connectors : SameSocket(z, z', s)
    BY <1>1, <1>6, SocketFacts DEF SameSocket
  <1>8. LibraryInv' /\ (\A k \in Clients : ClientInv(k)')
    BY <1>5, <1>6, <1>7, BusParts
  <1>9. ReaperInv'
    <2>1. \A t \in Sockets : z.sock[t].stage = "closed" => z'.sock[t].stage = "closed"
      BY <1>6
    <2> QED BY <2>1, ReaperKept DEF ContextInv
  <1>10. TypeInv'
    BY DEF ContextInv, TypeInv
  <1> QED BY <1>6, <1>8, <1>9, <1>10

\* The bus creates a socket and registers its endpoint.
LEMMA BusRegisterStep ==
    ASSUME ContextInv, NEW i \in 1 .. Len(Bus), BusRegister(i)
    PROVE  ContextInv'
PROOF
  <1> DEFINE b == Bus[i]
  <1>0. /\ bpc = <<"create", i>> /\ bpc' = <<"bind", i>>
        /\ UNCHANGED <<reaper, terminating, cpc, peer, copy>>
        /\ z' = EditEndpoint(EditStage(z, b, "open"), b, b)
    BY DEF BusRegister, CreateSocket, EditStage, EditEndpoint
  <1>1. b \in Hosts /\ b \in ToSet(Bus) /\ ~terminating
    BY <1>0, BusNames DEF ContextInv, BusInv
  <1>2. z.sock[b].stage = "none"
    <2>1. BusAt(z.sock[b].stage, "create", i, i) /\ i >= i
      BY <1>0, BusNames DEF ContextInv, BusInv
    <2> QED BY <2>1 DEF BusAt
  <1> HIDE DEF b
  <1>3. /\ LibraryInv' /\ TypeInv' /\ (\A k \in Clients : ClientInv(k)') /\ ReaperInv'
        /\ z'.sock[b].stage = "open" /\ \A u \in Sockets : u # b => z'.sock[u] = z.sock[u]
    BY <1>0, <1>1, <1>2, RegisterParts
  <1>4. BusInv'
    <2>1. \A j \in 1 .. Len(Bus) : BusAt(z'.sock[Bus[j]].stage, "bind", i, j)
      <3> SUFFICES ASSUME NEW j \in 1 .. Len(Bus)
                   PROVE  BusAt(z'.sock[Bus[j]].stage, "bind", i, j)
        OBVIOUS
      <3>1. BusAt(z.sock[Bus[j]].stage, "create", i, j) /\ i \in Nat /\ j \in Nat
        BY <1>0, BusNames DEF ContextInv, BusInv
      <3>2. CASE j = i
        BY <3>2, <1>3, BusNames DEF BusAt, b
      <3>3. CASE j # i
        <4>1. Bus[j] \in Sockets /\ z'.sock[Bus[j]] = z.sock[Bus[j]]
          BY <3>3, <1>3, BusNames DEF b
        <4> QED BY <4>1, <3>1, <3>3 DEF BusAt
      <3> QED BY <3>2, <3>3
    <2>2. \A s \in Connectors : z'.sock[PairOf(s)] = z.sock[PairOf(s)]
      BY <1>3, BusNames, SocketFacts DEF b
    <2>3. bpc'[1] = "bind" /\ bpc'[2] = i /\ bpc[1] = "create"
      BY <1>0
    <2> QED BY <2>1, <2>2, <2>3, <1>0 DEF ContextInv, BusInv
  <1> QED BY <1>3, <1>4 DEF ContextInv

\* The bus connects the connections that waited for its endpoint.
LEMMA BusConnectPendingStep ==
    ASSUME ContextInv, NEW i \in 1 .. Len(Bus), BusConnectPending(i)
    PROVE  ContextInv'
PROOF
  <1> DEFINE b == Bus[i]
  <1>0. /\ bpc = <<"bind", i>> /\ bpc' = IF i < Len(Bus) THEN <<"create", i + 1>> ELSE <<"close", 1>>
        /\ UNCHANGED <<reaper, terminating, cpc, peer, copy>> /\ z' = ConnectPending(z, b, b)
    BY DEF BusConnectPending
  <1>1. b \in Sockets /\ b \in Hosts /\ b \in ToSet(Bus) /\ b \notin Connectors
    BY BusNames, SocketFacts
  <1>2. z.sock[b].stage = "open"
    <2>1. BusAt(z.sock[b].stage, "bind", i, i) /\ i <= i
      BY <1>0, BusNames DEF ContextInv, BusInv
    <2> QED BY <2>1 DEF BusAt
  <1>3. /\ Sound(z', Pending(z'), Found, {}) /\ PendingWell(z'.pending)
        /\ KeptConnecting(z, z', b)
    <2> HIDE DEF b
    <2> QED BY <1>0, <1>1, <1>2, LibraryIs, ConnectPendingGood
  <1>4. /\ \A t \in Sockets : z'.sock[t].stage = z.sock[t].stage
        /\ \A f \in Ends : z'.pipe[f].state = "none" <=> z.pipe[f].state = "none"
        /\ \A t \in Connectors : z'.sock[t].sent = z.sock[t].sent
    BY <1>1, <1>3, SocketFacts DEF KeptConnecting
  <1>5. LibraryInv' /\ TypeInv' /\ (\A k \in Clients : ClientInv(k)') /\ ReaperInv'
    BY <1>0, <1>3, <1>4, QuietParts
  <1>6. BusInv'
    <2>0. i \in Nat /\ Len(Bus) \in Nat /\ i <= Len(Bus) /\ i >= 1
      BY BusNames
    <2>1. \A j \in 1 .. Len(Bus) : BusAt(z'.sock[Bus[j]].stage, bpc'[1], bpc'[2], j)
      <3> SUFFICES ASSUME NEW j \in 1 .. Len(Bus)
                   PROVE  BusAt(z'.sock[Bus[j]].stage, bpc'[1], bpc'[2], j)
        OBVIOUS
      <3>1. BusAt(z'.sock[Bus[j]].stage, "bind", i, j) /\ j \in Nat
        BY <1>0, <1>4, BusNames DEF ContextInv, BusInv
      <3> QED BY <3>1, <2>0, <1>0 DEF BusAt
    <2>2. \A s \in Connectors : z'.sock[PairOf(s)].stage = z.sock[PairOf(s)].stage
      BY <1>4, SocketFacts
    <2>3. bpc' \in {"create", "bind", "close"} \X (1 .. Len(Bus)) /\ bpc'[1] \in {"create", "close"}
      BY <1>0, <2>0
    <2>4. bpc[1] = "bind" /\ copy = {}
      BY <1>0 DEF ContextInv, BusInv
    <2> QED BY <2>1, <2>2, <2>3, <2>4, <1>0 DEF ContextInv, BusInv
  <1> QED BY <1>5, <1>6 DEF ContextInv
\* A host is closed and handed over to the reaper.
LEMMA CloseParts ==
    ASSUME ContextInv, UNCHANGED <<terminating, cpc, peer>>, ~terminating, NEW b \in Hosts,
           NEW q, Sound(q, Pending(q), Found, {}), PendingWell(q.pending),
           \A t \in Sockets : t # b => q.sock[t].stage = z.sock[t].stage,
           \A f \in Ends : q.pipe[f].state = "none" <=> z.pipe[f].state = "none",
           \A t \in Connectors : q.sock[t].sent = z.sock[t].sent,
           q.sock[b].stage \in {"none", "open"}, z.sock[b].stage # "closed",
           z' = EditStage(q, b, "closed"), Reap(b)
    PROVE  /\ LibraryInv' /\ TypeInv' /\ (\A k \in Clients : ClientInv(k)') /\ ReaperInv'
           /\ z'.sock[b].stage = "closed"
           /\ \A t \in Sockets : t # b => z'.sock[t].stage = z.sock[t].stage
PROOF
  <1> DEFINE pend == Pending(q)
  <1>1. b \in Sockets /\ b \notin Connectors /\ "closed" \in Stages
    BY SocketFacts DEF Stages
  <1>2. Sound(z', pend, Found, {}) /\ Staged(q, z', b, "closed")
    <2>1. Sound(q, pend, Found, {})
      OBVIOUS
    <2> HIDE DEF pend
    <2> QED BY <2>1, <1>1, StageGood
  <1>3. /\ z'.pending = q.pending /\ z'.pipe = q.pipe /\ z'.sock[b].stage = "closed"
        /\ \A t \in Sockets : t # b => z'.sock[t] = q.sock[t]
    BY <1>2 DEF Staged
  <1>4. \A t \in Sockets : t # b => z'.sock[t].stage = z.sock[t].stage
    BY <1>3
  <1>5. \A s \in Connectors : SameSocket(z, z', s)
    <2> SUFFICES ASSUME NEW s \in Connectors PROVE SameSocket(z, z', s)
      OBVIOUS
    <2>1. s \in Sockets /\ s # b /\ <<s, "connect">> \in Ends
      BY <1>1, SocketFacts, EndFacts
    <2>2. z'.sock[s].stage = z.sock[s].stage /\ z'.sock[s].sent = z.sock[s].sent
      BY <2>1, <1>3, <1>4
    <2>3. z'.pipe[<<s, "connect">>].state = "none" <=> z.pipe[<<s, "connect">>].state = "none"
      BY <2>1, <1>3
    <2> QED BY <2>2, <2>3 DEF SameSocket
  <1>6. (\A k \in Clients : ClientInv(k)') /\ Found' = Found
    BY <1>5, ClientsKept DEF ContextInv
  <1>7. LibraryInv'
    <2>1. Pending(z') = pend /\ PendingWell(z'.pending)
      BY <1>3 DEF Pending
    <2> QED BY <2>1, <1>2, <1>6 DEF LibraryInv, Sound
  <1>8. \A t \in Sockets : z.sock[t].stage = "closed" => z'.sock[t].stage = "closed"
    BY <1>3, <1>4
  <1>9. /\ ReaperInv'
        /\ reaper' \in [mbox : Seq(ReaperCommands), sockets : Int, stop : BOOLEAN, done : BOOLEAN]
    BY <1>1, <1>3, <1>8, ReapStep DEF ContextInv
  <1>10. TypeInv'
    BY <1>9 DEF ContextInv, TypeInv
  <1> QED BY <1>3, <1>4, <1>6, <1>7, <1>9, <1>10

\* The bus closes a socket.
LEMMA BusCloseStep ==
    ASSUME ContextInv, NEW i \in 1 .. Len(Bus), BusClose(i)
    PROVE  ContextInv'
PROOF
  <1> DEFINE b == Bus[i]
             pend == Pending(z)
             q == ProcessCommands(z, b)
             v == IF q.endpoints[b] = b THEN None ELSE q.endpoints[b]
             q1 == EditEndpoint(q, b, v)
  <1>0. /\ bpc = <<"close", i>>
        /\ bpc' = IF i < Len(Bus) THEN <<"close", i + 1>> ELSE <<"terminate", 0>>
        /\ UNCHANGED <<terminating, cpc, peer, copy>> /\ Reap(b)
        /\ z' = EditStage(q1, b, "closed")
    BY DEF BusClose, CloseSocket, EditStage, EditEndpoint
  <1>1. b \in Hosts /\ b \in Sockets /\ b \in ToSet(Bus) /\ b \notin Connectors /\ ~terminating
    BY <1>0, BusNames, SocketFacts DEF ContextInv, BusInv
  <1>2. z.sock[b].stage = "open"
    <2>1. BusAt(z.sock[b].stage, "close", i, i) /\ i >= i
      BY <1>0, BusNames DEF ContextInv, BusInv
    <2> QED BY <2>1 DEF BusAt
  <1>3. Sound(q, pend, Found, {}) /\ Kept(z, q)
    <2>1. Sound(z, pend, Found, {}) /\ FoundNew(z.pipe, Found)
      BY LibraryIs
    <2> HIDE DEF pend, q, b
    <2>2. q = ProcessCommands(z, b)
      BY DEF q
    <2> QED BY <2>1, <2>2, <1>1, CommandsGood
  <1> HIDE DEF q, b
  <1>4. /\ Sound(q1, pend, Found, {}) /\ q1.pipe = q.pipe /\ q1.sock = q.sock
        /\ q1.pending = q.pending
    <2>1. q1 = EditEndpoint(q, b, v) /\ (v = None \/ v = q.endpoints[b])
      OBVIOUS
    <2> HIDE DEF pend, q1, v
    <2> QED BY <2>1, <1>1, <1>3, EndpointGood
  <1> HIDE DEF q1
  <1>5. /\ Sound(q1, Pending(q1), Found, {}) /\ PendingWell(q1.pending)
        /\ \A t \in Sockets : q1.sock[t].stage = z.sock[t].stage
        /\ \A f \in Ends : q1.pipe[f].state = "none" <=> z.pipe[f].state = "none"
        /\ \A t \in Connectors : q1.sock[t].sent = z.sock[t].sent
    <2>1. q1.pending = z.pending /\ PendingWell(z.pending)
      BY <1>3, <1>4, LibraryIs DEF Kept
    <2>2. Pending(q1) = pend
      BY <2>1 DEF Pending
    <2> QED BY <2>1, <2>2, <1>3, <1>4, SocketFacts DEF Kept
  <1>6. q1.sock[b].stage = "open"
    BY <1>1, <1>2, <1>5
  <1>7. /\ LibraryInv' /\ TypeInv' /\ (\A k \in Clients : ClientInv(k)') /\ ReaperInv'
        /\ z'.sock[b].stage = "closed"
        /\ \A t \in Sockets : t # b => z'.sock[t].stage = z.sock[t].stage
    BY <1>0, <1>1, <1>2, <1>5, <1>6, CloseParts
  <1>8. BusInv'
    <2>0. i \in Nat /\ Len(Bus) \in Nat /\ i <= Len(Bus) /\ i >= 1
      BY BusNames
    <2>1. \A j \in 1 .. Len(Bus) : BusAt(z'.sock[Bus[j]].stage, bpc'[1], bpc'[2], j)
      <3> SUFFICES ASSUME NEW j \in 1 .. Len(Bus)
                   PROVE  BusAt(z'.sock[Bus[j]].stage, bpc'[1], bpc'[2], j)
        OBVIOUS
      <3>1. BusAt(z.sock[Bus[j]].stage, "close", i, j) /\ j \in Nat /\ j <= Len(Bus)
        BY <1>0, BusNames DEF ContextInv, BusInv
      <3>2. CASE j = i
        <4>1. z'.sock[Bus[j]].stage = "closed"
          BY <3>2, <1>7 DEF b
        <4> QED BY <4>1, <3>1, <3>2, <2>0, <1>0 DEF BusAt
      <3>3. CASE j # i
        <4>1. z'.sock[Bus[j]].stage = z.sock[Bus[j]].stage
          BY <3>3, <1>7, BusNames DEF b
        <4> QED BY <4>1, <3>1, <3>3, <2>0, <1>0 DEF BusAt
      <3> QED BY <3>2, <3>3
    <2>2. \A s \in Connectors : z'.sock[PairOf(s)].stage = z.sock[PairOf(s)].stage
      BY <1>7, BusNames, SocketFacts DEF b
    <2>3. /\ bpc' \in {"create", "bind", "close"} \X (1 .. Len(Bus)) \/ bpc' \in BusSteps
          /\ bpc'[1] \in {"close", "terminate"}
      BY <1>0, <2>0 DEF BusSteps
    <2>4. bpc[1] = "close" /\ copy = {}
      BY <1>0 DEF ContextInv, BusInv
    <2> QED BY <2>1, <2>2, <2>3, <2>4, <1>0, <1>1 DEF ContextInv, BusInv
  <1> QED BY <1>7, <1>8 DEF ContextInv
\* After the last close the sockets of the bus are neither new nor open.
LEMMA BusLater ==
    ASSUME NEW stage, NEW st, NEW i, NEW j, st \notin {"create", "bind", "close"}
    PROVE  BusAt(stage, st, i, j) <=> stage \notin {"none", "open"}
  BY DEF BusAt

\* A step of the bus's thread that leaves the library alone.
LEMMA IdleParts ==
    ASSUME ContextInv, UNCHANGED <<z, reaper, terminating, cpc, peer>>
    PROVE  LibraryInv' /\ TypeInv' /\ (\A k \in Clients : ClientInv(k)') /\ ReaperInv'
PROOF
  <1>1. Sound(z', Pending(z'), Found, {}) /\ PendingWell(z'.pending)
    BY LibraryIs
  <1> QED BY <1>1, QuietParts

\* terminate() copies the pending connections.
LEMMA TerminateBeginStep ==
    ASSUME ContextInv, TerminateBegin
    PROVE  ContextInv'
PROOF
  <1>0. /\ bpc = <<"terminate", 0>> /\ bpc' = <<"pairs", 0>> /\ copy' = Pending(z)
        /\ UNCHANGED <<z, reaper, terminating, cpc, peer>>
    BY DEF TerminateBegin
  <1>1. LibraryInv' /\ TypeInv' /\ (\A k \in Clients : ClientInv(k)') /\ ReaperInv'
    BY <1>0, IdleParts
  <1>2. BusInv'
    <2>1. \A j \in 1 .. Len(Bus) : BusAt(z'.sock[Bus[j]].stage, bpc'[1], bpc'[2], j)
      BY <1>0, BusLater DEF ContextInv, BusInv
    <2>2. Pending(z) \subseteq Connectors
      <3>1. z.pending \in PendingTable
        BY LibraryIs, LibraryTypes
      <3>2. \A a \in ToSet(Bus) : z.pending[a] \in Seq(Connectors)
        BY <3>1 DEF PendingTable
      <3>3. \A a \in ToSet(Bus) : ToSet(z.pending[a]) \subseteq Connectors
        BY <3>2 DEF ToSet
      <3> QED BY <3>3 DEF Pending
    <2>3. bpc' \in BusSteps /\ bpc'[1] = "pairs" /\ bpc[1] = "terminate"
      BY <1>0 DEF BusSteps
    <2> QED BY <2>1, <2>2, <2>3, <1>0 DEF ContextInv, BusInv
  <1> QED BY <1>1, <1>2 DEF ContextInv

\* terminate() binds a PAIR socket.
LEMMA PairBindStep ==
    ASSUME ContextInv, PairBind
    PROVE  ContextInv'
PROOF
  <1>0. /\ bpc = <<"pairs", 0>> /\ UNCHANGED <<reaper, terminating, cpc, peer, copy>>
    BY DEF PairBind
  <1>1. PICK s \in copy :
          /\ z' = EditEndpoint(EditStage(z, PairOf(s), "open"), Target(s), PairOf(s))
          /\ bpc' = <<"pair", s>>
    BY DEF PairBind, CreateSocket, EditStage, EditEndpoint
  <1> DEFINE b == PairOf(s)
             a == Target(s)
  <1>2. /\ s \in Connectors /\ b \in Hosts /\ a \in ToSet(Bus) /\ ~terminating
        /\ z.sock[b].stage = "none"
    <2>1. s \in Connectors /\ ~terminating /\ z.sock[b].stage = "none"
      BY <1>0 DEF ContextInv, BusInv
    <2> QED BY <2>1, SocketFacts, TargetBound
  <1>3. /\ LibraryInv' /\ TypeInv' /\ (\A k \in Clients : ClientInv(k)') /\ ReaperInv'
        /\ z'.sock[b].stage = "open" /\ \A u \in Sockets : u # b => z'.sock[u] = z.sock[u]
    <2>1. z' = EditEndpoint(EditStage(z, b, "open"), a, b)
      BY <1>1
    <2> HIDE DEF a, b
    <2> QED BY <2>1, <1>0, <1>2, RegisterParts
  <1>4. BusInv'
    <2>1. \A j \in 1 .. Len(Bus) : BusAt(z'.sock[Bus[j]].stage, bpc'[1], bpc'[2], j)
      <3>1. \A j \in 1 .. Len(Bus) : z'.sock[Bus[j]] = z.sock[Bus[j]]
        BY <1>2, <1>3, BusNames
      <3>2. \A j \in 1 .. Len(Bus) : BusAt(z.sock[Bus[j]].stage, "pairs", 0, j)
        BY <1>0 DEF ContextInv, BusInv
      <3> QED BY <3>1, <3>2, <1>1, BusLater
    <2>2. \A u \in Connectors : u # s => z'.sock[PairOf(u)] = z.sock[PairOf(u)]
      BY <1>2, <1>3, SocketFacts
    <2>3. bpc' \in {"pair"} \X copy /\ bpc'[1] = "pair" /\ bpc'[2] = s /\ bpc[1] = "pairs"
      BY <1>0, <1>1
    <2>4. copy \subseteq Connectors /\ \A u \in copy : z.sock[PairOf(u)].stage = "none"
      BY <1>0 DEF ContextInv, BusInv
    <2> QED BY <2>1, <2>2, <2>3, <2>4, <1>0, <1>1, <1>2, <1>3 DEF BusInv
  <1> QED BY <1>3, <1>4 DEF ContextInv

\* The pending connections that are left when one has been dealt with.
LEMMA PairsLeft ==
    ASSUME ContextInv, bpc[1] \in {"pairs", "pair"}, NEW s \in copy, NEW b, b = PairOf(s),
           bpc = <<"pairs", 0>> \/ bpc = <<"pair", s>>,
           bpc' = <<"pairs", 0>>, copy' = copy \ {s}, ~terminating, terminating' = terminating,
           \A t \in Sockets : t # b => z'.sock[t].stage = z.sock[t].stage
    PROVE  BusInv'
PROOF
  <1>0. s \in Connectors /\ copy \subseteq Connectors
    BY DEF ContextInv, BusInv
  <1>1. \A j \in 1 .. Len(Bus) : BusAt(z'.sock[Bus[j]].stage, bpc'[1], bpc'[2], j)
    <2>1. \A j \in 1 .. Len(Bus) : z'.sock[Bus[j]].stage = z.sock[Bus[j]].stage
      BY <1>0, BusNames
    <2>2. \A j \in 1 .. Len(Bus) : BusAt(z.sock[Bus[j]].stage, bpc[1], bpc[2], j)
      BY DEF ContextInv, BusInv
    <2> QED BY <2>1, <2>2, BusLater
  <1>2. \A u \in Connectors : u # s => z'.sock[PairOf(u)].stage = z.sock[PairOf(u)].stage
    BY <1>0, SocketFacts
  <1>3. bpc' \in BusSteps /\ bpc'[1] = "pairs"
    BY DEF BusSteps
  <1>4. \A u \in copy \ {s} : z.sock[PairOf(u)].stage = "none"
    BY DEF ContextInv, BusInv
  <1>5. copy' \subseteq Connectors /\ \A u \in copy' : z'.sock[PairOf(u)].stage = "none"
    BY <1>0, <1>2, <1>4
  <1> QED BY <1>1, <1>3, <1>5 DEF BusInv

\* terminate() connects what is pending to its PAIR socket and closes it.
LEMMA PairConnectStep ==
    ASSUME ContextInv, PairConnect
    PROVE  ContextInv'
PROOF
  <1> DEFINE s == bpc[2]
             b == PairOf(s)
             a == Target(s)
             q == ConnectPending(z, b, a)
  <1>0. /\ bpc[1] = "pair" /\ bpc' = <<"pairs", 0>> /\ copy' = copy \ {s}
        /\ UNCHANGED <<terminating, cpc, peer>> /\ Reap(b) /\ z' = EditStage(q, b, "closed")
    BY DEF PairConnect, CloseSocket, EditStage
  <1>1. bpc \in {"pair"} \X copy /\ z.sock[b].stage = "open" /\ ~terminating
    BY <1>0 DEF ContextInv, BusInv, BusSteps
  <1>2. s \in copy /\ s \in Connectors /\ bpc = <<"pair", s>>
    BY <1>1 DEF ContextInv, BusInv
  <1> HIDE DEF s
  <1>3. b \in Hosts /\ b \in Sockets /\ b \notin Connectors /\ a \in ToSet(Bus)
    BY <1>2, SocketFacts, TargetBound
  <1>4. /\ Sound(q, Pending(q), Found, {}) /\ PendingWell(q.pending) /\ KeptConnecting(z, q, b)
    <2>1. q = ConnectPending(z, b, a)
      OBVIOUS
    <2> HIDE DEF q, b, a
    <2> QED BY <2>1, <1>1, <1>3, LibraryIs, ConnectPendingGood
  <1> HIDE DEF q
  <1>5. /\ \A t \in Sockets : q.sock[t].stage = z.sock[t].stage
        /\ \A f \in Ends : q.pipe[f].state = "none" <=> z.pipe[f].state = "none"
        /\ \A t \in Connectors : q.sock[t].sent = z.sock[t].sent
    BY <1>3, <1>4, SocketFacts DEF KeptConnecting
  <1>6. /\ LibraryInv' /\ TypeInv' /\ (\A k \in Clients : ClientInv(k)') /\ ReaperInv'
        /\ z'.sock[b].stage = "closed"
        /\ \A t \in Sockets : t # b => z'.sock[t].stage = z.sock[t].stage
    <2> HIDE DEF b
    <2>1. q.sock[b].stage = "open"
      BY <1>1, <1>3, <1>5
    <2> QED BY <2>1, <1>0, <1>1, <1>3, <1>4, <1>5, CloseParts
  <1>7. BusInv'
    BY <1>0, <1>1, <1>2, <1>6, PairsLeft
  <1> QED BY <1>6, <1>7 DEF ContextInv

\* terminate() finds the endpoint bound and closes its PAIR socket.
LEMMA PairBindFailsStep ==
    ASSUME ContextInv, PairBindFails
    PROVE  ContextInv'
PROOF
  <1>0. bpc = <<"pairs", 0>> /\ UNCHANGED <<terminating, cpc, peer, bpc>>
    BY DEF PairBindFails
  <1>1. PICK s \in copy :
          /\ z' = EditStage(EditStage(z, PairOf(s), "open"), PairOf(s), "closed")
          /\ Reap(PairOf(s)) /\ copy' = copy \ {s}
    BY DEF PairBindFails, CreateSocket, CloseSocket, EditStage
  <1> DEFINE b == PairOf(s)
             q == EditStage(z, b, "open")
             pend == Pending(z)
  <1>2. s \in Connectors /\ z.sock[b].stage = "none" /\ ~terminating
    BY <1>0 DEF ContextInv, BusInv
  <1>3. b \in Hosts /\ b \in Sockets /\ b \notin Connectors /\ "open" \in Stages
    BY <1>2, SocketFacts DEF Stages
  <1>4. Sound(q, pend, Found, {}) /\ Staged(z, q, b, "open")
    <2>1. Sound(z, pend, Found, {}) /\ q = EditStage(z, b, "open")
      BY LibraryIs
    <2> HIDE DEF q, b, pend
    <2> QED BY <2>1, <1>2, <1>3, StageGood
  <1>5. z' = EditStage(q, b, "closed") /\ Reap(b)
    BY <1>1
  <1> HIDE DEF q
  <1>6. /\ Sound(q, Pending(q), Found, {}) /\ PendingWell(q.pending)
        /\ \A t \in Sockets : t # b => q.sock[t].stage = z.sock[t].stage
        /\ \A f \in Ends : q.pipe[f].state = "none" <=> z.pipe[f].state = "none"
        /\ \A t \in Connectors : q.sock[t].sent = z.sock[t].sent
        /\ q.sock[b].stage = "open"
    <2>1. q.pending = z.pending /\ q.pipe = z.pipe /\ q.sock[b].stage = "open"
          /\ \A t \in Sockets : t # b => q.sock[t] = z.sock[t]
      BY <1>4 DEF Staged
    <2>2. Pending(q) = pend /\ PendingWell(q.pending)
      BY <2>1, LibraryIs DEF Pending
    <2> QED BY <2>1, <2>2, <1>3, <1>4, SocketFacts
  <1>7. /\ LibraryInv' /\ TypeInv' /\ (\A k \in Clients : ClientInv(k)') /\ ReaperInv'
        /\ z'.sock[b].stage = "closed"
        /\ \A t \in Sockets : t # b => z'.sock[t].stage = z.sock[t].stage
    <2> HIDE DEF b
    <2> QED BY <1>0, <1>2, <1>3, <1>5, <1>6, CloseParts
  <1>8. BusInv'
    BY <1>0, <1>1, <1>2, <1>7, PairsLeft
  <1> QED BY <1>7, <1>8 DEF ContextInv
\* The stop command in the mailboxes of the sockets L.
AllTold(mb, L) == [s \in Sockets |-> IF s \in L THEN Append(mb[s], Stopped) ELSE mb[s]]

\* The stop command to all sockets changes nothing else that is under way.
LEMMA AllToldFacts ==
    ASSUME NEW mb \in Boxes, NEW L
    PROVE  SameBut(mb, AllTold(mb, L), {Stopped})
PROOF
  <1> DEFINE mc == AllTold(mb, L)
  <1>1. \A u \in Sockets :
          /\ mc[u] \in Seq(Commands) /\ Len(mb[u]) \in Nat /\ Len(mc[u]) \in Nat
          /\ Len(mc[u]) \in {Len(mb[u]), Len(mb[u]) + 1}
          /\ \A i \in 1 .. Len(mb[u]) : mc[u][i] = mb[u][i]
          /\ Len(mc[u]) = Len(mb[u]) + 1 => mc[u][Len(mb[u]) + 1] = Stopped
    <2> SUFFICES ASSUME NEW u \in Sockets
                 PROVE  /\ mc[u] \in Seq(Commands) /\ Len(mb[u]) \in Nat /\ Len(mc[u]) \in Nat
                        /\ Len(mc[u]) \in {Len(mb[u]), Len(mb[u]) + 1}
                        /\ \A i \in 1 .. Len(mb[u]) : mc[u][i] = mb[u][i]
                        /\ Len(mc[u]) = Len(mb[u]) + 1 => mc[u][Len(mb[u]) + 1] = Stopped
      OBVIOUS
    <2>1. mb[u] \in Seq(Commands) /\ Stopped \in Commands
      BY CommandFacts DEF Boxes
    <2>2. mc[u] = IF u \in L THEN Append(mb[u], Stopped) ELSE mb[u]
      BY DEF AllTold
    <2> DEFINE b == mb[u]
               c == mc[u]
    <2> HIDE DEF b, c
    <2>3. /\ c \in Seq(Commands) /\ Len(b) \in Nat /\ Len(c) \in Nat
          /\ Len(c) \in {Len(b), Len(b) + 1}
          /\ \A i \in 1 .. Len(b) : c[i] = b[i]
          /\ Len(c) = Len(b) + 1 => c[Len(b) + 1] = Stopped
      <3>1. b \in Seq(Commands) /\ Stopped \in Commands /\ (c = b \/ c = Append(b, Stopped))
            /\ Len(b) \in Nat
        BY <2>1, <2>2, LenProperties DEF b, c
      <3>2. CASE c = b
        BY <3>1, <3>2
      <3>3. CASE c = Append(b, Stopped)
        BY <3>1, <3>3, AppendProperties
      <3> QED BY <3>1, <3>2, <3>3
    <2> QED BY <2>3 DEF b, c
  <1>2. mc \in Boxes
    <2>1. DOMAIN mc = Sockets /\ mc = [u \in Sockets |-> mc[u]]
      BY DEF AllTold
    <2> QED BY <2>1, <1>1 DEF Boxes
  <1> HIDE DEF mc
  <1>3. ASSUME NEW n \in Commands \ {Stopped}, NEW u \in Sockets
        PROVE  /\ \A i \in 1 .. Len(mc[u]) : mc[u][i] = n => i \in 1 .. Len(mb[u]) /\ mb[u][i] = n
               /\ \A i \in 1 .. Len(mb[u]) : mb[u][i] = n => i \in 1 .. Len(mc[u]) /\ mc[u][i] = n
    BY <1>1
  <1>4. ASSUME NEW n \in Commands \ {Stopped}
        PROVE  /\ \A u \in Sockets : /\ At(mc, u, n) <=> At(mb, u, n)
                                     /\ OnceAt(mb, u, n) => OnceAt(mc, u, n)
               /\ Sent(mc, n) <=> Sent(mb, n)
               /\ Once(mb, n) => Once(mc, n)
    <2>1. \A u \in Sockets : At(mc, u, n) <=> At(mb, u, n)
      BY <1>3 DEF At
    <2>2. \A u \in Sockets : OnceAt(mb, u, n) => OnceAt(mc, u, n)
      BY <1>3 DEF OnceAt
    <2> QED BY <2>1, <2>2 DEF Sent, Once
  <1>5. ASSUME NEW n \in Commands \ {Stopped}, NEW o \in Commands \ {Stopped}, Before(mb, n, o)
        PROVE  Before(mc, n, o)
    BY <1>3, <1>5 DEF Before
  <1> QED BY <1>2, <1>4, <1>5 DEF SameBut, mc

\* The stop command to the reaper.
LEMMA ReaperTold ==
    ASSUME TypeInv, ReaperInv, reaper' = [reaper EXCEPT !.mbox = Append(@, <<"stop", None>>)],
           \A t \in Sockets : z'.sock[t] = z.sock[t], Live(z') = {}, terminating'
    PROVE  /\ ReaperInv'
           /\ reaper' \in [mbox : Seq(ReaperCommands), sockets : Int, stop : BOOLEAN, done : BOOLEAN]
PROOF
  <1> DEFINE box == reaper.mbox
             c == <<"stop", None>>
             box1 == Append(box, c)
  <1>1. box \in Seq(ReaperCommands) /\ c \in ReaperCommands
        /\ reaper \in [mbox : Seq(ReaperCommands), sockets : Int, stop : BOOLEAN, done : BOOLEAN]
    BY DEF TypeInv, ReaperCommands
  <1>2. /\ box1 \in Seq(ReaperCommands) /\ Len(box) \in Nat /\ Len(box1) = Len(box) + 1
        /\ box1[Len(box) + 1] = c /\ \A i \in 1 .. Len(box) : box1[i] = box[i]
    BY <1>1, AppendProperties
  <1>4. \A i \in 1 .. Len(box) : box[i][1] = "reap" => box[i][2] \in Sockets /\ ReapAt(z, box, i)
    <2>1. \A i \in 1 .. Len(box) : box[i] \in ReaperCommands
      BY <1>1
    <2> QED BY <2>1 DEF ReaperCommands, ReaperInv
  <1>3. reaper' = [reaper EXCEPT !.mbox = box1]
    OBVIOUS
  <1> HIDE DEF box, box1
  <1>5. /\ reaper'.mbox = box1 /\ reaper'.stop = reaper.stop /\ reaper'.done = reaper.done
        /\ reaper' \in [mbox : Seq(ReaperCommands), sockets : Int, stop : BOOLEAN, done : BOOLEAN]
    BY <1>1, <1>2, <1>3
  <1>6. ASSUME NEW i \in 1 .. Len(box1) PROVE ReapAt(z', box1, i)
    <2> SUFFICES ASSUME box1[i][1] = "reap"
                 PROVE  /\ z'.sock[box1[i][2]].stage = "closed"
                        /\ \A j \in 1 .. Len(box1) : box1[j] = box1[i] => i = j
      BY DEF ReapAt
    <2>0. \A j \in 1 .. Len(box1) : j \in 1 .. Len(box) \/ j = Len(box) + 1
      BY <1>2
    <2>1. i \in 1 .. Len(box)
      BY <2>0, <1>2
    <2>2. box1[i] = box[i] /\ box[i][2] \in Sockets /\ ReapAt(z, box, i) /\ box[i] # c
      BY <2>1, <1>2, <1>4
    <2> QED BY <2>0, <2>1, <2>2, <1>2 DEF ReapAt
  <1> QED BY <1>5, <1>6 DEF ReaperInv

\* terminate() sends the stop commands.
LEMMA TerminateStopStep ==
    ASSUME ContextInv, TerminateStop
    PROVE  ContextInv'
PROOF
  <1> DEFINE mc == AllTold(z.mbox, Live(z))
             pend == Pending(z)
  <1>0. /\ bpc = <<"pairs", 0>> /\ bpc' = <<"wait", 0>> /\ copy = {} /\ terminating' = TRUE
        /\ UNCHANGED <<cpc, peer, copy>> /\ z' = [z EXCEPT !.mbox = mc]
        /\ reaper' = IF Live(z) = {}
                     THEN [reaper EXCEPT !.mbox = Append(@, <<"stop", None>>)] ELSE reaper
    BY DEF TerminateStop, AllTold, Stopped
  <1>1. z \in Library /\ z.mbox \in Boxes /\ Sound(z, pend, Found, {})
    BY LibraryIs, LibraryTypes
  <1>2. SameBut(z.mbox, mc, {Stopped})
    BY <1>1, AllToldFacts
  <1> HIDE DEF mc
  <1>3. mc \in Boxes
    BY <1>2 DEF SameBut
  <1>4. /\ z' \in Library /\ z'.sock = z.sock /\ z'.pipe = z.pipe /\ z'.mbox = mc
        /\ z'.endpoints = z.endpoints /\ z'.pending = z.pending /\ z'.ok = z.ok
    BY <1>0, <1>1, <1>3 DEF Library
  <1>5. Sound(z', pend, Found, {})
    <2>1. Holds(z.pipe, z.sock, z.endpoints, z.mbox, pend, Found, {}) /\ z.ok
      BY <1>1 DEF Sound
    <2> HIDE DEF pend
    <2>2. Holds(z.pipe, z.sock, z.endpoints, mc, pend, Found, {})
      BY <2>1, <1>2, StopStep
    <2> QED BY <2>1, <2>2, <1>4 DEF Sound
  <1>6. \A s \in Connectors : SameSocket(z, z', s)
    BY <1>4 DEF SameSocket
  <1>7. LibraryInv' /\ (\A k \in Clients : ClientInv(k)')
    BY <1>0, <1>4, <1>5, <1>6, BusParts
  <1>8. Live(z') = Live(z)
    BY <1>4 DEF Live
  <1>9. /\ ReaperInv'
        /\ reaper' \in [mbox : Seq(ReaperCommands), sockets : Int, stop : BOOLEAN, done : BOOLEAN]
    <2>1. CASE Live(z) = {}
      BY <2>1, <1>0, <1>4, <1>8, ReaperTold DEF ContextInv
    <2>2. CASE Live(z) # {}
      <3>1. reaper' = reaper
        BY <2>2, <1>0
      <3> QED BY <3>1, <2>2, <1>4 DEF ContextInv, ReaperInv, TypeInv, ReapAt
    <2> QED BY <2>1, <2>2
  <1>10. TypeInv'
    BY <1>0, <1>9 DEF ContextInv, TypeInv
  <1>11. BusInv'
    <2>1. \A j \in 1 .. Len(Bus) : BusAt(z'.sock[Bus[j]].stage, bpc'[1], bpc'[2], j)
      BY <1>0, <1>4, BusLater DEF ContextInv, BusInv
    <2>2. bpc' \in BusSteps /\ bpc'[1] = "wait"
      BY <1>0 DEF BusSteps
    <2> QED BY <2>1, <2>2, <1>0 DEF BusInv
  <1> QED BY <1>7, <1>9, <1>10, <1>11 DEF ContextInv

\* terminate() ends, or a signal interrupts it.
LEMMA WaitStepOver ==
    ASSUME ContextInv, TerminateEnd \/ TerminateInterrupted
    PROVE  ContextInv'
PROOF
  <1>0. /\ bpc = <<"wait", 0>> /\ bpc' \in {<<"dead", 0>>, <<"interrupted", 0>>}
        /\ UNCHANGED <<reaper, terminating, cpc, peer, copy>>
    BY DEF TerminateEnd, TerminateInterrupted
  <1>1. z' = z
    <2>1. CASE TerminateEnd
      <3>1. Live(z) = {}
        BY <2>1 DEF TerminateEnd, ContextInv, ReaperInv, Stopping
      <3> QED BY <2>1, <3>1 DEF TerminateEnd, Require
    <2> QED BY <2>1 DEF TerminateInterrupted
  <1>2. LibraryInv' /\ TypeInv' /\ (\A k \in Clients : ClientInv(k)') /\ ReaperInv'
    BY <1>0, <1>1, IdleParts
  <1>3. BusInv'
    <2>1. \A j \in 1 .. Len(Bus) : BusAt(z'.sock[Bus[j]].stage, bpc'[1], bpc'[2], j)
      BY <1>0, <1>1, BusLater DEF ContextInv, BusInv
    <2>2. bpc' \in BusSteps /\ bpc'[1] \in {"dead", "interrupted"}
      BY <1>0 DEF BusSteps
    <2>3. copy = {}
      BY <1>0 DEF ContextInv, BusInv
    <2> QED BY <2>1, <2>2, <2>3, <1>0 DEF BusInv
  <1> QED BY <1>2, <1>3 DEF ContextInv
ReaperType == [mbox : Seq(ReaperCommands), sockets : Int, stop : BOOLEAN, done : BOOLEAN]
StopIn(box) == \E i \in 1 .. Len(box) : box[i][1] = "stop"
ReapsWell(q, box) == \A i \in 1 .. Len(box) : ReapAt(q, box, i)

\* The mailbox of the reaper gets commands other than reap.
LEMMA BoxMore ==
    ASSUME NEW q, NEW box \in Seq(ReaperCommands), NEW rest \in Seq(ReaperCommands),
           \A i \in 1 .. Len(rest) : rest[i][1] # "reap", ReapsWell(q, box),
           NEW box1, box1 = box \o rest
    PROVE  /\ box1 \in Seq(ReaperCommands) /\ ReapsWell(q, box1)
           /\ StopIn(box1) => StopIn(box) \/ StopIn(rest)
PROOF
  <1>1. /\ box1 \in Seq(ReaperCommands) /\ Len(box) \in Nat /\ Len(rest) \in Nat
        /\ Len(box1) = Len(box) + Len(rest)
        /\ \A i \in 1 .. Len(box) + Len(rest) :
              box1[i] = IF i <= Len(box) THEN box[i] ELSE rest[i - Len(box)]
    BY ConcatProperties, LenProperties
  <1>2. ASSUME NEW i \in 1 .. Len(box1)
        PROVE  \/ i \in 1 .. Len(box) /\ box1[i] = box[i]
               \/ i - Len(box) \in 1 .. Len(rest) /\ box1[i] = rest[i - Len(box)]
    BY <1>1
  <1>3. ASSUME NEW i \in 1 .. Len(box1) PROVE ReapAt(q, box1, i)
    <2> SUFFICES ASSUME box1[i][1] = "reap"
                 PROVE  /\ q.sock[box1[i][2]].stage = "closed"
                        /\ \A j \in 1 .. Len(box1) : box1[j] = box1[i] => i = j
      BY DEF ReapAt
    <2>1. i \in 1 .. Len(box) /\ box1[i] = box[i]
      BY <1>2
    <2>2. /\ q.sock[box[i][2]].stage = "closed"
          /\ \A j \in 1 .. Len(box) : box[j] = box[i] => i = j
      BY <2>1 DEF ReapsWell, ReapAt
    <2>3. ASSUME NEW j \in 1 .. Len(box1), box1[j] = box1[i] PROVE i = j
      <3>1. j \in 1 .. Len(box) /\ box1[j] = box[j]
        BY <2>3, <1>2
      <3> QED BY <3>1, <2>1, <2>2, <2>3
    <2> QED BY <2>1, <2>2, <2>3
  <1>4. StopIn(box1) => StopIn(box) \/ StopIn(rest)
    BY <1>2 DEF StopIn
  <1> QED BY <1>1, <1>3, <1>4 DEF ReapsWell

\* What the invariant says of the mailbox of the reaper.
LEMMA BoxIs ==
    ASSUME TypeInv, ReaperInv
    PROVE  /\ reaper \in ReaperType /\ reaper.mbox \in Seq(ReaperCommands)
           /\ ReapsWell(z, reaper.mbox)
           /\ reaper.stop \/ StopIn(reaper.mbox) => terminating /\ Live(z) = {}
           /\ \A i \in 1 .. Len(reaper.mbox) :
                 reaper.mbox[i][1] = "reap" =>
                    /\ reaper.mbox[i] = <<"reap", reaper.mbox[i][2]>>
                    /\ reaper.mbox[i][2] \in Sockets
PROOF
  <1>1. reaper \in ReaperType /\ reaper.mbox \in Seq(ReaperCommands)
    BY DEF TypeInv, ReaperType
  <1>2. \A i \in 1 .. Len(reaper.mbox) : reaper.mbox[i] \in ReaperCommands
    BY <1>1
  <1> QED BY <1>1, <1>2 DEF ReaperInv, Stopping, StopIn, ReapsWell, ReaperCommands

\* The reaper deletes a socket.
LEMMA DestroyStep ==
    ASSUME ContextInv, DestroySocket
    PROVE  ContextInv'
PROOF
  <1>0. UNCHANGED <<terminating, cpc, peer, bpc, copy>>
    BY DEF DestroySocket
  <1>1. PICK s \in Sockets :
          /\ z.sock[s].stage = "reaping" /\ z.sock[s].destroyed
          /\ z' = Require(EditStage(z, s, "gone"), z.sock[s].only = None)
          /\ LET stop == IF terminating /\ Live(EditStage(z, s, "gone")) = {}
                         THEN <<<<"stop", None>>>> ELSE << >>
             IN  reaper' = [reaper EXCEPT !.mbox = @ \o stop \o <<<<"reaped", None>>>>]
    BY DEF DestroySocket, Doomed, EditStage
  <1> DEFINE q == EditStage(z, s, "gone")
             stop == IF terminating /\ Live(q) = {} THEN <<<<"stop", None>>>> ELSE << >>
             last == <<<<"reaped", None>>>>
             box == reaper.mbox
             box1 == box \o stop
             box2 == box1 \o last
             pend == Pending(z)
  <1>2. z.sock[s].only = None
    <2>1. Sound(z, pend, Found, {}) /\ z \in Library
      BY LibraryIs
    <2>2. Counting(z.sock, z.mbox, pend, Found, s) /\ Members(z.sock, z.pipe, s)
      BY <2>1 DEF Sound, Holds
    <2>3. z.sock[s].pipes \in SUBSET Ends
      BY <2>1, LibraryTypes DEF SocketType
    <2>4. Cardinality(z.sock[s].pipes) = 0
      BY <2>2, <1>1 DEF Counting
    <2>5. z.sock[s].pipes = {}
      BY <2>3, <2>4, PipesFinite
    <2> QED BY <2>2, <2>5 DEF Members
  <1>3. z' = q
    BY <1>1, <1>2 DEF Require
  <1>4. Sound(q, pend, Found, {}) /\ Staged(z, q, s, "gone")
    <2>1. Sound(z, pend, Found, {}) /\ q = EditStage(z, s, "gone") /\ "gone" \in Stages
      BY LibraryIs DEF Stages
    <2> HIDE DEF q, pend
    <2> QED BY <2>1, <1>1, StageGood
  <1>5. reaper' = [reaper EXCEPT !.mbox = box2]
    BY <1>1
  <1> HIDE DEF q
  <1>6. /\ z'.pending = z.pending /\ z'.pipe = z.pipe /\ z'.sock[s].stage = "gone"
        /\ z'.sock[s].sent = z.sock[s].sent
        /\ \A u \in Sockets : u # s => z'.sock[u] = z.sock[u]
    BY <1>3, <1>4 DEF Staged
  <1>7. \A t \in Connectors : SameSocket(z, z', t)
    BY <1>1, <1>6, SocketFacts DEF SameSocket
  <1>8. LibraryInv' /\ (\A k \in Clients : ClientInv(k)')
    BY <1>0, <1>3, <1>4, <1>6, <1>7, BusParts
  <1>9. BusInv'
    <2>1. \A t \in Hosts : SameStage(z, z', t)
      BY <1>1, <1>6, SocketFacts DEF SameStage
    <2> QED BY <2>1, <1>0, BusKept DEF ContextInv
  <1>10. /\ reaper \in ReaperType /\ box \in Seq(ReaperCommands) /\ ReapsWell(z, box)
         /\ ~reaper.stop /\ ~StopIn(box)
         /\ \A i \in 1 .. Len(box) : box[i][1] = "reap" => box[i][2] \in Sockets
    <2>1. s \in Live(z)
      BY <1>1 DEF Live
    <2> QED BY <2>1, BoxIs DEF ContextInv
  <1> HIDE DEF box
  <1>11. ReapsWell(z', box)
    BY <1>1, <1>6, <1>10, SMTT(30) DEF ReapsWell, ReapAt
  <1>12. /\ stop \in Seq(ReaperCommands) /\ \A i \in 1 .. Len(stop) : stop[i][1] # "reap"
         /\ StopIn(stop) => terminating /\ Live(z') = {}
    <2>1. CASE terminating /\ Live(q) = {}
      <3>1. stop = <<<<"stop", None>>>> /\ <<"stop", None>> \in ReaperCommands
        BY <2>1 DEF ReaperCommands
      <3> QED BY <3>1, <2>1, <1>3
    <2>2. CASE ~(terminating /\ Live(q) = {})
      <3>1. stop = << >>
        BY <2>2
      <3> HIDE DEF stop
      <3> QED BY <3>1 DEF StopIn
    <2> QED BY <2>1, <2>2
  <1>13. /\ last \in Seq(ReaperCommands) /\ \A i \in 1 .. Len(last) : last[i][1] # "reap"
         /\ ~StopIn(last)
    <2>1. <<"reaped", None>> \in ReaperCommands
      BY DEF ReaperCommands
    <2> QED BY <2>1 DEF StopIn
  <1> HIDE DEF stop, last
  <1>14. /\ box1 \in Seq(ReaperCommands) /\ ReapsWell(z', box1) /\ (StopIn(box1) => StopIn(stop))
    BY ONLY <1>10, <1>11, <1>12, BoxMore DEF box1
  <1> HIDE DEF box1
  <1>15. /\ box2 \in Seq(ReaperCommands) /\ ReapsWell(z', box2) /\ (StopIn(box2) => StopIn(stop))
    BY ONLY <1>13, <1>14, BoxMore DEF box2
  <1> HIDE DEF box2
  <1>16. /\ reaper' \in ReaperType /\ reaper'.mbox = box2 /\ reaper'.stop = reaper.stop
         /\ reaper'.done = reaper.done
    BY <1>5, <1>10, <1>15 DEF ReaperType
  <1>17. ReaperInv'
    <2>1. Stopping(reaper') => terminating' /\ Live(z') = {}
      BY <1>0, <1>10, <1>12, <1>15, <1>16 DEF Stopping, StopIn
    <2>2. reaper'.done => reaper'.stop
      BY <1>16 DEF ContextInv, ReaperInv
    <2> QED BY <2>1, <2>2, <1>15, <1>16 DEF ReaperInv, ReapsWell
  <1>18. TypeInv'
    BY <1>0, <1>16 DEF ContextInv, TypeInv, ReaperType
  <1> QED BY <1>8, <1>9, <1>17, <1>18 DEF ContextInv

\* The reaper handles a command.
LEMMA ReaperCommandStep ==
    ASSUME ContextInv, ReaperCommand
    PROVE  ContextInv'
PROOF
  <1> DEFINE box == reaper.mbox
             box1 == Tail(box)
             m == Head(box)
             rp == [reaper EXCEPT !.mbox = box1]
             pend == Pending(z)
  <1>0. /\ UNCHANGED <<terminating, cpc, peer, bpc, copy>> /\ box # << >>
    BY DEF ReaperCommand
  <1>1. /\ reaper \in ReaperType /\ box \in Seq(ReaperCommands) /\ ReapsWell(z, box)
        /\ reaper.stop \/ StopIn(box) => terminating /\ Live(z) = {}
        /\ \A i \in 1 .. Len(box) : box[i][1] = "reap" =>
              box[i] = <<"reap", box[i][2]>> /\ box[i][2] \in Sockets
    BY BoxIs DEF ContextInv
  <1>2. /\ box1 \in Seq(ReaperCommands) /\ Len(box) \in Nat \ {0} /\ Len(box1) = Len(box) - 1
        /\ \A i \in 1 .. Len(box1) : i + 1 \in 1 .. Len(box) /\ box1[i] = box[i + 1] /\ i + 1 # 1
        /\ m = box[1] /\ 1 \in 1 .. Len(box)
    <2> HIDE DEF box
    <2> QED BY <1>0, <1>1, HeadTailProperties, LenProperties
  <1>3. /\ rp \in ReaperType /\ rp.mbox = box1 /\ rp.stop = reaper.stop /\ rp.sockets = reaper.sockets
        /\ rp.done = reaper.done
    <2> HIDE DEF box1, box
    <2> QED BY <1>1, <1>2 DEF ReaperType
  <1>4. \/ /\ m[1] = "reap"
           /\ z' = ProcessTerm(EditReaping(z, m[2]), m[2])
           /\ reaper' = [rp EXCEPT !.sockets = @ + 1]
        \/ /\ m[1] = "reaped" /\ z' = z
           /\ LET r1 == [rp EXCEPT !.sockets = @ - 1] IN reaper' = [r1 EXCEPT !.done = Done(r1)]
        \/ /\ m[1] = "stop" /\ z' = z
           /\ LET r1 == [rp EXCEPT !.stop = TRUE] IN reaper' = [r1 EXCEPT !.done = Done(r1)]
    BY DEF ReaperCommand, EditReaping
  <1> HIDE DEF box, box1, m, rp
  <1>5. ReapsWell(z, box1) /\ (StopIn(box1) => StopIn(box))
    BY <1>1, <1>2, SMTT(30) DEF ReapsWell, ReapAt, StopIn
  <1>6. CASE /\ m[1] = "reap" /\ z' = ProcessTerm(EditReaping(z, m[2]), m[2])
             /\ reaper' = [rp EXCEPT !.sockets = @ + 1]
    <2> DEFINE s == m[2]
    <2>1. s \in Sockets /\ m = <<"reap", s>> /\ ReapAt(z, box, 1)
      BY <1>1, <1>2, <1>6 DEF ReapsWell
    <2>2. /\ z.sock[s].stage = "closed"
          /\ \A i \in 1 .. Len(box1) : box1[i] # m
      BY <2>1, <1>2 DEF ReapAt
    <2> HIDE DEF s
    <2>3. Sound(z', pend, Found, {}) /\ Reaped(z, s, z')
      <3>1. Sound(z, pend, Found, {}) /\ z' = ProcessTerm(EditReaping(z, s), s)
        BY <1>6, LibraryIs DEF s
      <3> HIDE DEF pend
      <3> QED BY <3>1, <2>1, <2>2, ProcessTermGood
    <2>4. /\ z'.pending = z.pending
          /\ \A f \in Ends : z'.pipe[f].state = "none" <=> z.pipe[f].state = "none"
          /\ \A u \in Sockets : /\ z'.sock[u].sent = z.sock[u].sent
                                /\ z'.sock[u].stage = IF u = s THEN "reaping" ELSE z.sock[u].stage
      BY <2>3 DEF Reaped
    <2>5. \A t \in Connectors : SameSocket(z, z', t)
      BY <2>2, <2>4, SocketFacts, EndFacts DEF SameSocket
    <2>6. LibraryInv' /\ (\A k \in Clients : ClientInv(k)')
      BY <1>0, <2>3, <2>4, <2>5, BusParts
    <2>7. BusInv'
      <3>1. \A t \in Hosts : SameStage(z, z', t)
        BY <2>2, <2>4, SocketFacts DEF SameStage
      <3> QED BY <3>1, <1>0, BusKept DEF ContextInv
    <2>8. Live(z') = Live(z)
      BY <2>2, <2>4 DEF Live
    <2>9. /\ reaper' \in ReaperType /\ reaper'.mbox = box1 /\ reaper'.stop = reaper.stop
          /\ reaper'.done = reaper.done
      BY <1>3, <1>6 DEF ReaperType
    <2>10. ReapsWell(z', box1)
      <3> SUFFICES ASSUME NEW i \in 1 .. Len(box1), box1[i][1] = "reap"
                   PROVE  z'.sock[box1[i][2]].stage = "closed"
        BY <1>5 DEF ReapsWell, ReapAt
      <3>1. box1[i] = <<"reap", box1[i][2]>> /\ box1[i][2] \in Sockets
        BY <1>1, <1>2
      <3>2. box1[i][2] # s
        BY <3>1, <2>1, <2>2
      <3>3. z.sock[box1[i][2]].stage = "closed"
        BY <1>5 DEF ReapsWell, ReapAt
      <3> QED BY <3>1, <3>2, <3>3, <2>4
    <2>11. ReaperInv'
      <3>1. Stopping(reaper') => terminating' /\ Live(z') = {}
        BY <1>0, <1>1, <1>5, <2>8, <2>9 DEF Stopping, StopIn
      <3>2. reaper'.done => reaper'.stop
        BY <2>9 DEF ContextInv, ReaperInv
      <3> QED BY <3>1, <3>2, <2>9, <2>10 DEF ReaperInv, ReapsWell
    <2>12. TypeInv'
      BY <1>0, <2>9 DEF ContextInv, TypeInv, ReaperType
    <2> QED BY <2>6, <2>7, <2>11, <2>12 DEF ContextInv
  <1>7. CASE /\ m[1] \in {"reaped", "stop"} /\ z' = z /\ reaper' \in ReaperType
             /\ reaper'.mbox = box1 /\ (reaper'.stop => reaper.stop \/ StopIn(box))
             /\ (reaper'.done => reaper'.stop)
    <2>1. LibraryInv' /\ (\A k \in Clients : ClientInv(k)')
      <3>1. Sound(z', pend, Found, {}) /\ \A t \in Connectors : SameSocket(z, z', t)
        BY <1>7, LibraryIs DEF SameSocket
      <3> QED BY <3>1, <1>0, <1>7, BusParts
    <2>2. BusInv'
      <3>1. \A t \in Hosts : SameStage(z, z', t)
        BY <1>7 DEF SameStage
      <3> QED BY <3>1, <1>0, BusKept DEF ContextInv
    <2>3. ReaperInv'
      BY <1>0, <1>1, <1>5, <1>7 DEF ReaperInv, ReapsWell, Stopping, StopIn
    <2>4. TypeInv'
      BY <1>0, <1>7 DEF ContextInv, TypeInv, ReaperType
    <2> QED BY <2>1, <2>2, <2>3, <2>4 DEF ContextInv
  <1>8. CASE /\ m[1] = "reaped" /\ z' = z
             /\ LET r1 == [rp EXCEPT !.sockets = @ - 1] IN reaper' = [r1 EXCEPT !.done = Done(r1)]
    <2> DEFINE r1 == [rp EXCEPT !.sockets = @ - 1]
    <2>1. r1 \in ReaperType /\ r1.mbox = box1 /\ r1.stop = reaper.stop
      BY <1>3 DEF ReaperType
    <2>2. reaper' = [r1 EXCEPT !.done = Done(r1)] /\ Done(r1) \in BOOLEAN /\ (Done(r1) => r1.stop)
      BY <1>8 DEF Done
    <2> HIDE DEF r1
    <2>3. /\ reaper' \in ReaperType /\ reaper'.mbox = box1 /\ reaper'.stop = reaper.stop
          /\ reaper'.done = Done(r1)
      BY <2>1, <2>2 DEF ReaperType
    <2> QED BY <1>7, <1>8, <2>1, <2>2, <2>3
  <1>9. CASE /\ m[1] = "stop" /\ z' = z
             /\ LET r1 == [rp EXCEPT !.stop = TRUE] IN reaper' = [r1 EXCEPT !.done = Done(r1)]
    <2> DEFINE r1 == [rp EXCEPT !.stop = TRUE]
    <2>1. r1 \in ReaperType /\ r1.mbox = box1 /\ r1.stop = TRUE
      BY <1>3 DEF ReaperType
    <2>2. reaper' = [r1 EXCEPT !.done = Done(r1)] /\ Done(r1) \in BOOLEAN
      BY <1>9 DEF Done
    <2> HIDE DEF r1
    <2>3. /\ reaper' \in ReaperType /\ reaper'.mbox = box1 /\ reaper'.stop = TRUE
      BY <2>1, <2>2 DEF ReaperType
    <2>4. StopIn(box)
      BY <1>2, <1>9 DEF StopIn
    <2> QED BY <1>7, <1>9, <2>3, <2>4
  <1> QED BY <1>4, <1>6, <1>8, <1>9
\* Client k takes a step; the others have other sockets.
LEMMA ClientMoves ==
    ASSUME ContextInv, NEW k \in Clients, NEW st \in StepNames, NEW i \in 1 .. Len(Links),
           NEW v \in Hosts \cup {None}, v # None => st = "connect",
           cpc' = [cpc EXCEPT ![k] = <<st, i>>], peer' = [peer EXCEPT ![k] = v],
           \A s \in Connectors : s[1] # k => SameSocket(z, z', s),
           \A j \in 1 .. Len(Links) : LinkAt(z', <<k, Links[j]>>, st, i, j)
    PROVE  /\ \A l \in Clients : ClientInv(l)'
           /\ cpc' \in [Clients -> StepNames \X (1 .. Len(Links))]
           /\ peer' \in [Clients -> Hosts \cup {None}]
           /\ cpc'[k] = <<st, i>> /\ peer'[k] = v
           /\ \A l \in Clients : l # k => cpc'[l] = cpc[l] /\ peer'[l] = peer[l]
PROOF
  <1>1. /\ cpc \in [Clients -> StepNames \X (1 .. Len(Links))]
        /\ peer \in [Clients -> Hosts \cup {None}]
    BY DEF ContextInv, TypeInv
  <1>2. /\ cpc' \in [Clients -> StepNames \X (1 .. Len(Links))]
        /\ peer' \in [Clients -> Hosts \cup {None}]
        /\ cpc'[k] = <<st, i>> /\ peer'[k] = v
        /\ \A l \in Clients : l # k => cpc'[l] = cpc[l] /\ peer'[l] = peer[l]
    BY <1>1
  <1>3. ASSUME NEW l \in Clients, l # k PROVE ClientInv(l)'
    <2>1. \A j \in 1 .. Len(Links) : <<l, Links[j]>> \in Connectors /\ <<l, Links[j]>>[1] # k
      BY <1>3, ClientSockets
    <2>2. \A j \in 1 .. Len(Links) : SameSocket(z, z', <<l, Links[j]>>)
      BY <2>1
    <2>3. ClientInv(l) /\ cpc'[l] = cpc[l] /\ peer'[l] = peer[l]
      BY <1>2, <1>3 DEF ContextInv
    <2> QED BY <2>2, <2>3, ClientKept
  <1>4. ClientInv(k)'
    <2>1. cpc'[k][1] = st /\ cpc'[k][2] = i
      BY <1>2
    <2> QED BY <2>1, <1>2 DEF ClientInv
  <1> QED BY <1>2, <1>3, <1>4

\* How a step of one client changes the connections about to be made.
LEMMA FoundMoves ==
    ASSUME ContextInv, NEW k \in Clients, cpc'[k] \in StepNames \X (1 .. Len(Links)),
           \A l \in Clients : l # k => cpc'[l] = cpc[l] /\ peer'[l] = peer[l]
    PROVE  /\ peer[k] = None /\ peer'[k] = None => Found' = Found
           /\ peer[k] = None /\ peer'[k] # None /\ cpc'[k][2] = cpc[k][2] =>
                 Found' = Found \cup {<<Socket(k), peer'[k]>>}
           /\ peer[k] # None /\ peer'[k] = None => Found' = Found \ {<<Socket(k), peer[k]>>}
PROOF
  <1> DEFINE Of(l) == <<Socket(l), peer[l]>>
             Rest == {Of(l) : l \in {l \in Clients \ {k} : peer[l] # None}}
  <1>1. \A l \in Clients : Socket(l) = <<l, Links[cpc[l][2]]>>
    BY DEF Socket
  <1>2. /\ peer[k] = None => Found = Rest
        /\ peer[k] # None => Found = Rest \cup {Of(k)}
    BY DEF Found
  <1>3. \A l \in Clients \ {k} : Socket(l)' = Socket(l) /\ peer'[l] = peer[l]
    BY DEF Socket
  <1>4. /\ peer'[k] = None => Found' = Rest
        /\ peer'[k] # None => Found' = Rest \cup {<<Socket(k)', peer'[k]>>}
    BY <1>3 DEF Found
  <1>5. Of(k) \notin Rest
    BY <1>1
  <1>6. cpc'[k][2] = cpc[k][2] => Socket(k)' = Socket(k)
    BY DEF Socket
  <1> HIDE DEF Of, Rest
  <1>7. peer[k] # None /\ peer'[k] = None => Found' = Found \ {Of(k)}
    BY <1>2, <1>4, <1>5
  <1> QED BY <1>2, <1>4, <1>6, <1>7 DEF Of

\* What client k knows of its sockets.
LEMMA ClientIs ==
    ASSUME ContextInv, NEW k \in Clients
    PROVE  /\ cpc[k] = <<cpc[k][1], cpc[k][2]>>
           /\ cpc[k][1] \in StepNames /\ cpc[k][2] \in 1 .. Len(Links) /\ cpc[k][2] \in Nat
           /\ Len(Links) \in Nat
           /\ Socket(k) = <<k, Links[cpc[k][2]]>> /\ Socket(k) \in Connectors
           /\ Socket(k) \in Sockets /\ Socket(k) \notin Hosts
           /\ peer[k] # None => cpc[k][1] = "connect" /\ peer[k] \in Hosts
           /\ LinkAt(z, Socket(k), cpc[k][1], cpc[k][2], cpc[k][2])
           /\ \A j \in 1 .. Len(Links) : LinkAt(z, <<k, Links[j]>>, cpc[k][1], cpc[k][2], j)
           /\ \A j \in 1 .. Len(Links) : /\ <<k, Links[j]>> \in Connectors
                                         /\ <<k, Links[j]>> = Socket(k) => j = cpc[k][2]
           /\ \A s \in Connectors : s[1] # k => s # Socket(k)
PROOF
  <1>1. /\ cpc \in [Clients -> StepNames \X (1 .. Len(Links))]
        /\ peer \in [Clients -> Hosts \cup {None}] /\ ClientInv(k)
    BY DEF ContextInv, TypeInv
  <1>2. /\ cpc[k] = <<cpc[k][1], cpc[k][2]>> /\ cpc[k][1] \in StepNames
        /\ cpc[k][2] \in 1 .. Len(Links) /\ cpc[k][2] \in Nat /\ Len(Links) \in Nat
    BY <1>1, ClientSockets
  <1>3. Socket(k) = <<k, Links[cpc[k][2]]>> /\ Socket(k) \in Connectors
    BY <1>2, ClientSockets DEF Socket
  <1>4. Socket(k) \in Sockets /\ Socket(k) \notin Hosts
    BY <1>3, SocketFacts
  <1>5. \A j \in 1 .. Len(Links) : LinkAt(z, <<k, Links[j]>>, cpc[k][1], cpc[k][2], j)
    BY <1>1 DEF ClientInv
  <1>6. LinkAt(z, Socket(k), cpc[k][1], cpc[k][2], cpc[k][2])
    BY <1>2, <1>3, <1>5
  <1>7. peer[k] # None => cpc[k][1] = "connect" /\ peer[k] \in Hosts
    BY <1>1 DEF ClientInv
  <1>8. \A j \in 1 .. Len(Links) : /\ <<k, Links[j]>> \in Connectors
                                   /\ <<k, Links[j]>> = Socket(k) => j = cpc[k][2]
    BY <1>2, <1>3, ClientSockets
  <1> QED BY <1>2, <1>3, <1>4, <1>5, <1>6, <1>7, <1>8

\* A client creates a socket.
LEMMA CreateStep ==
    ASSUME ContextInv, NEW k \in Clients, Create(k)
    PROVE  ContextInv'
PROOF
  <1> DEFINE s == Socket(k)
             i == cpc[k][2]
             pend == Pending(z)
  <1>0. cpc[k][1] = "create" /\ UNCHANGED <<reaper, terminating, peer, bpc, copy>>
    BY DEF Create
  <1>1. CASE terminating
    <2>1. z' = z /\ cpc' = cpc
      BY <1>1 DEF Create
    <2> QED BY <2>1, <1>0, LibraryIs, QuietStep
  <1>2. CASE ~terminating
    <2>0. z' = EditStage(z, s, "open") /\ cpc' = [cpc EXCEPT ![k] = <<"find", i>>]
      BY <1>2 DEF Create, CreateSocket, EditStage, Go
    <2>1. /\ s \in Connectors /\ s \in Sockets /\ s \notin Hosts /\ peer[k] = None
          /\ i \in 1 .. Len(Links) /\ i \in Nat /\ LinkAt(z, s, "create", i, i)
          /\ \A j \in 1 .. Len(Links) : LinkAt(z, <<k, Links[j]>>, "create", i, j)
          /\ \A j \in 1 .. Len(Links) : /\ <<k, Links[j]>> \in Connectors
                                        /\ <<k, Links[j]>> = s => j = i
                                        /\ j = i => <<k, Links[j]>> = s
          /\ \A t \in Connectors : t[1] # k => t # s
      BY <1>0, ClientIs
    <2> HIDE DEF s, i
    <2>2. /\ z.sock[s].stage = "none" /\ z.pipe[<<s, "connect">>].state = "none"
          /\ z.sock[s].sent = 0
      BY <2>1 DEF LinkAt
    <2>3. Sound(z', pend, Found, {}) /\ Staged(z, z', s, "open")
      <3>1. Sound(z, pend, Found, {}) /\ "open" \in Stages
        BY LibraryIs DEF Stages
      <3> HIDE DEF pend
      <3> QED BY <3>1, <2>0, <2>1, <2>2, StageGood
    <2>4. /\ z'.pending = z.pending /\ z'.pipe = z.pipe /\ z'.sock[s].stage = "open"
          /\ z'.sock[s].sent = 0 /\ \A u \in Sockets : u # s => z'.sock[u] = z.sock[u]
      BY <2>2, <2>3 DEF Staged
    <2>5. \A t \in Connectors : t # s => SameSocket(z, z', t)
      BY <2>4, SocketFacts DEF SameSocket
    <2>6. \A j \in 1 .. Len(Links) : LinkAt(z', <<k, Links[j]>>, "find", i, j)
      <3> SUFFICES ASSUME NEW j \in 1 .. Len(Links)
                   PROVE  LinkAt(z', <<k, Links[j]>>, "find", i, j)
        OBVIOUS
      <3>1. CASE j = i
        <4>1. LinkAt(z', s, "find", i, i)
          BY <2>1, <2>2, <2>4 DEF LinkAt
        <4> QED BY <4>1, <3>1, <2>1
      <3>2. CASE j # i
        <4>1. LinkAt(z', <<k, Links[j]>>, "create", i, j)
          BY <3>2, <2>1, <2>5, LinkKept
        <4> QED BY <4>1, <3>2, <2>1 DEF LinkAt
      <3> QED BY <3>1, <3>2
    <2>7. peer' = [peer EXCEPT ![k] = None] /\ "find" \in StepNames /\ None \in Hosts \cup {None}
      BY <1>0, <2>1 DEF ContextInv, TypeInv, StepNames
    <2>8. /\ \A l \in Clients : ClientInv(l)'
          /\ cpc' \in [Clients -> StepNames \X (1 .. Len(Links))]
          /\ peer' \in [Clients -> Hosts \cup {None}]
          /\ cpc'[k] = <<"find", i>> /\ peer'[k] = None
          /\ \A l \in Clients : l # k => cpc'[l] = cpc[l] /\ peer'[l] = peer[l]
      BY <2>0, <2>1, <2>5, <2>6, <2>7, ClientMoves
    <2>9. Found' = Found
      BY <2>1, <2>8, FoundMoves
    <2>10. LibraryInv'
      <3>1. Pending(z') = pend /\ PendingWell(z'.pending)
        BY <2>4, LibraryIs DEF Pending
      <3> QED BY <3>1, <2>3, <2>9 DEF LibraryInv, Sound
    <2>11. BusInv'
      <3>1. \A t \in Hosts : SameStage(z, z', t)
        BY <2>1, <2>4, SocketFacts DEF SameStage
      <3> QED BY <3>1, <1>0, BusKept DEF ContextInv
    <2>12. ReaperInv'
      <3>1. \A t \in Sockets : z.sock[t].stage = "closed" => z'.sock[t].stage = "closed"
        BY <2>2, <2>4
      <3> QED BY <3>1, <1>0, <1>2, ReaperKept DEF ContextInv
    <2>13. TypeInv'
      BY <1>0, <2>8 DEF ContextInv, TypeInv
    <2> QED BY <2>8, <2>10, <2>11, <2>12, <2>13 DEF ContextInv
  <1> QED BY <1>1, <1>2
\* A socket without a pipe is owed to nobody that it has not found.
LEMMA NotOwed ==
    ASSUME NEW q, NEW pend, NEW found, Sound(q, pend, found, {}), NEW s \in Connectors,
           NEW b \in Hosts, <<s, b>> \notin found, q.pipe[<<s, "connect">>].state = "none"
    PROVE  s \notin Owed(q.mbox, pend, found, b)
PROOF
  <1> DEFINE e == <<s, "bind">>
  <1>1. e \in Ends /\ Peer(e) = <<s, "connect">> /\ e[2] = "bind" /\ b \in Sockets /\ s # b
    BY EndFacts, SocketFacts
  <1>2. Handshake(q.pipe, q.mbox, e) /\ Owner(q.pipe, q.mbox, pend, e)
    BY <1>1 DEF Sound, Holds
  <1>3. q.pipe[e].state = "none"
    BY <1>1, <1>2 DEF Handshake
  <1>4. ~At(q.mbox, b, Bind(e))
    BY <1>1, <1>2, <1>3 DEF Owner
  <1> QED BY <1>1, <1>4 DEF Owed

\* find_endpoint of socket s, which keeps the peer it has found.
LEMMA FindGood ==
    ASSUME NEW q, NEW pend, NEW found, Sound(q, pend, found, {}), NEW s \in Connectors,
           \A t \in Hosts : <<s, t>> \notin found, q.pipe[<<s, "connect">>].state = "none",
           NEW a \in ToSet(Bus), NEW b, b = q.endpoints[a], b # None,
           NEW q1, q1 = IncSeqnum(q, b)
    PROVE  Sound(q1, pend, found \cup {<<s, b>>}, {}) /\ KeptBut(q, q1, b) /\ b \in Hosts
PROOF
  <1> DEFINE w == Counted1(q.sock[b])
  <1>0. /\ q \in Library /\ q.ok
        /\ Holds(q.pipe, q.sock, q.endpoints, q.mbox, pend, found, {})
    BY DEF Sound
  <1>1. b \in Hosts /\ b \in Sockets /\ ~q.sock[b].destroyed
    <2>1. Bound(q.endpoints, q.sock)
      BY <1>0 DEF Holds
    <2>2. b \in Hosts /\ ~q.sock[b].terminating /\ b \in Sockets
      BY <2>1, SocketFacts DEF Bound
    <2>3. Counting(q.sock, q.mbox, pend, found, b)
      BY <2>2, <1>0 DEF Holds
    <2> QED BY <2>2, <2>3 DEF Counting
  <1>2. s \notin Owed(q.mbox, pend, found, b)
    BY <1>1, NotOwed
  <1>3. q.sock[b] \in SocketType /\ w \in SocketType /\ q1 = WithSock(q, b, w)
    <2>1. q.sock[b] \in SocketType
      BY <1>0, <1>1, LibraryTypes
    <2> QED BY <2>1, <1>0, <1>1, SockTypes, SockEdits
  <1>4. w = [q.sock[b] EXCEPT !.sent = @ + 1] /\ w.stage = q.sock[b].stage
    <2>1. w = [q.sock[b] EXCEPT !.sent = @ + 1]
      BY DEF Counted1
    <2> QED BY <2>1, <1>3 DEF SocketType
  <1> HIDE DEF w
  <1>5. Holds(q.pipe, [q.sock EXCEPT ![b] = w], q.endpoints, q.mbox, pend, found \cup {<<s, b>>}, {})
    BY <1>0, <1>1, <1>2, <1>3, <1>4, CountUp
  <1>6. IsWithSock(q, b, w, q1)
    BY <1>0, <1>1, <1>3, WithSockFacts
  <1>7. Sound(q1, pend, found \cup {<<s, b>>}, {})
    BY <1>0, <1>5, <1>6 DEF Sound, IsWithSock
  <1>8. KeptBut(q, q1, b)
    BY <1>4, <1>6 DEF KeptBut, IsWithSock
  <1> QED BY <1>1, <1>7, <1>8

\* Client k goes on from the i-th socket, and every socket stays in its stage.
LEMMA ClientGoes ==
    ASSUME ContextInv, NEW k \in Clients, NEW st \in StepNames, NEW i \in 1 .. Len(Links),
           NEW v \in Hosts \cup {None}, v # None => st = "connect",
           cpc' = [cpc EXCEPT ![k] = <<st, i>>], peer' = [peer EXCEPT ![k] = v],
           \A t \in Sockets : z'.sock[t].stage = z.sock[t].stage,
           \A s \in Connectors : s[1] # k => SameSocket(z, z', s),
           \A j \in 1 .. Len(Links) : LinkAt(z', <<k, Links[j]>>, st, i, j),
           UNCHANGED <<reaper, terminating, bpc, copy>>,
           PendingWell(z'.pending), Sound(z', Pending(z'), Found', {})
    PROVE  ContextInv'
PROOF
  <1>1. /\ \A l \in Clients : ClientInv(l)'
        /\ cpc' \in [Clients -> StepNames \X (1 .. Len(Links))]
        /\ peer' \in [Clients -> Hosts \cup {None}]
    BY ClientMoves
  <1>2. TypeInv'
    BY <1>1 DEF ContextInv, TypeInv
  <1>3. LibraryInv'
    BY DEF LibraryInv, Sound
  <1>4. BusInv'
    <2>1. \A t \in Hosts : SameStage(z, z', t)
      BY SocketFacts DEF SameStage
    <2> QED BY <2>1, BusKept DEF ContextInv
  <1>5. ReaperInv'
    <2>1. Live(z') = Live(z)
      BY DEF Live
    <2> QED BY <2>1, ReaperKept DEF ContextInv
  <1> QED BY <1>1, <1>2, <1>3, <1>4, <1>5 DEF ContextInv

\* A client finds the endpoint.
LEMMA FindStep ==
    ASSUME ContextInv, NEW k \in Clients, FindEndpoint(k)
    PROVE  ContextInv'
PROOF
  <1> DEFINE s == Socket(k)
             i == cpc[k][2]
             a == Target(s)
             q == ProcessCommands(z, s)
             b == q.endpoints[a]
             pend == Pending(z)
  <1>0. cpc[k][1] = "find" /\ UNCHANGED <<reaper, terminating, bpc, copy>>
    BY DEF FindEndpoint
  <1>1. CASE q.sock[s].ctx_terminated
    <2>1. z' = z /\ cpc' = cpc /\ peer' = peer
      BY <1>1 DEF FindEndpoint
    <2> QED BY <2>1, <1>0, LibraryIs, QuietStep
  <1>2. CASE ~q.sock[s].ctx_terminated
    <2>0. /\ peer' = [peer EXCEPT ![k] = b] /\ z' = IF b = None THEN q ELSE IncSeqnum(q, b)
          /\ cpc' = [cpc EXCEPT ![k] = <<"connect", i>>]
      BY <1>2 DEF FindEndpoint, Go
    <2>1. /\ s \in Connectors /\ s \in Sockets /\ s \notin Hosts /\ peer[k] = None
          /\ i \in 1 .. Len(Links) /\ i \in Nat /\ LinkAt(z, s, "find", i, i)
          /\ \A j \in 1 .. Len(Links) : LinkAt(z, <<k, Links[j]>>, "find", i, j)
          /\ \A j \in 1 .. Len(Links) : <<k, Links[j]>> \in Connectors
      BY <1>0, ClientIs
    <2>2. \A t \in Hosts : <<s, t>> \notin Found
      BY <2>1, FoundIs, SocketFacts DEF ContextInv
    <2>3. a \in ToSet(Bus)
      BY <2>1, TargetBound
    <2>4. z.pipe[<<s, "connect">>].state = "none" /\ <<s, "connect">> \in Ends
      <3>1. s \in Connectors /\ LinkAt(z, s, "find", i, i) /\ i >= i
        BY <2>1
      <3> HIDE DEF s, i
      <3> QED BY <3>1, EndFacts DEF LinkAt
    <2>5. Sound(q, pend, Found, {}) /\ Kept(z, q)
      <3>1. Sound(z, pend, Found, {}) /\ FoundNew(z.pipe, Found) /\ q = ProcessCommands(z, s)
        BY LibraryIs
      <3> HIDE DEF pend, q, s
      <3> QED BY <3>1, <2>1, CommandsGood
    <2> HIDE DEF s, i, a, q
    <2>6. /\ q.endpoints = z.endpoints /\ q.pending = z.pending
          /\ \A f \in Ends : q.pipe[f].state = "none" <=> z.pipe[f].state = "none"
          /\ \A u \in Sockets : q.sock[u].stage = z.sock[u].stage /\ q.sock[u].sent = z.sock[u].sent
      BY <2>5 DEF Kept
    <2>7. /\ b \in Hosts \cup {None} /\ z'.pending = z.pending
          /\ Sound(z', pend, IF b = None THEN Found ELSE Found \cup {<<s, b>>}, {})
          /\ \A f \in Ends : z'.pipe[f].state = "none" <=> z.pipe[f].state = "none"
          /\ \A u \in Sockets : z'.sock[u].stage = z.sock[u].stage
          /\ \A u \in Connectors : z'.sock[u].sent = z.sock[u].sent
      <3>1. CASE b = None
        <4>1. z' = q
          BY <3>1, <2>0
        <4> QED BY <4>1, <3>1, <2>5, <2>6, SocketFacts
      <3>2. CASE b # None
        <4>1. z' = IncSeqnum(q, b) /\ b = q.endpoints[a] /\ q.pipe[<<s, "connect">>].state = "none"
          BY <3>2, <2>0, <2>4, <2>6
        <4> HIDE DEF b, pend
        <4>2. Sound(z', pend, Found \cup {<<s, b>>}, {}) /\ KeptBut(q, z', b) /\ b \in Hosts
          BY <4>1, <3>2, <2>1, <2>2, <2>3, <2>5, FindGood
        <4>3. b \notin Connectors
          BY <4>2, SocketFacts
        <4> QED BY <4>2, <4>3, <3>2, <2>6, SocketFacts DEF KeptBut
      <3> QED BY <3>1, <3>2
    <2> HIDE DEF b
    <2>8. \A t \in Connectors : SameSocket(z, z', t)
      BY <2>7, SocketFacts, EndFacts DEF SameSocket
    <2>9. \A j \in 1 .. Len(Links) : LinkAt(z', <<k, Links[j]>>, "connect", i, j)
      <3> SUFFICES ASSUME NEW j \in 1 .. Len(Links)
                   PROVE  LinkAt(z', <<k, Links[j]>>, "connect", i, j)
        OBVIOUS
      <3>1. LinkAt(z', <<k, Links[j]>>, "find", i, j)
        BY <2>1, <2>8, LinkKept
      <3> QED BY <3>1 DEF LinkAt
    <2>10. "connect" \in StepNames
      BY DEF StepNames
    <2>11. /\ cpc'[k] = <<"connect", i>> /\ peer'[k] = b
           /\ \A l \in Clients : l # k => cpc'[l] = cpc[l] /\ peer'[l] = peer[l]
      BY <2>0, <2>1, <2>7, <2>8, <2>9, <2>10, ClientMoves
    <2>12. Found' = IF b = None THEN Found ELSE Found \cup {<<s, b>>}
      <3>1. cpc'[k] \in StepNames \X (1 .. Len(Links)) /\ cpc'[k][2] = cpc[k][2]
        BY <2>1, <2>10, <2>11 DEF i
      <3> QED BY <3>1, <2>1, <2>11, FoundMoves DEF s
    <2>13. Pending(z') = pend /\ PendingWell(z'.pending)
      BY <2>7, LibraryIs DEF Pending
    <2>14. Sound(z', Pending(z'), Found', {})
      BY <2>7, <2>12, <2>13
    <2> QED BY <1>0, <2>0, <2>1, <2>7, <2>8, <2>9, <2>10, <2>13, <2>14, ClientGoes
  <1> QED BY <1>1, <1>2
\* A client connects.
LEMMA ConnectStep ==
    ASSUME ContextInv, NEW k \in Clients, Connect(k)
    PROVE  ContextInv'
PROOF
  <1> DEFINE s == Socket(k)
             i == cpc[k][2]
             b == peer[k]
             c == <<s, "connect">>
             bound == SendTo(PipePair(z, s, b), b, Bind(<<s, "bind">>))
             pended == PendConnection(Write(PipePair(z, s, s), <<s, "connect">>, "id"), s)
             q == IF b # None THEN bound ELSE pended
             found == IF b # None THEN Found \ {<<s, b>>} ELSE Found
             st == IF i < Len(Links) THEN "create" ELSE "close"
             n == IF i < Len(Links) THEN i + 1 ELSE Len(Links)
  <1>0. /\ cpc[k][1] = "connect" /\ UNCHANGED <<reaper, terminating, bpc, copy>>
        /\ z' = AttachPipe(q, s, c) /\ peer' = [peer EXCEPT ![k] = None]
        /\ cpc' = [cpc EXCEPT ![k] = <<st, n>>]
    BY DEF Connect, Bind, Go
  <1>1. /\ s \in Connectors /\ s \in Sockets /\ (b # None => b \in Hosts)
        /\ i \in 1 .. Len(Links) /\ i \in Nat /\ Len(Links) \in Nat /\ LinkAt(z, s, "connect", i, i)
        /\ \A j \in 1 .. Len(Links) : LinkAt(z, <<k, Links[j]>>, "connect", i, j)
        /\ \A j \in 1 .. Len(Links) : /\ <<k, Links[j]>> \in Connectors
                                      /\ <<k, Links[j]>> = s => j = i
                                      /\ j = i => <<k, Links[j]>> = s
        /\ \A t \in Connectors : t[1] # k => t # s
    BY <1>0, ClientIs
  <1>2. /\ b # None => <<s, b>> \in Found
        /\ b = None => \A t \in Sockets : <<s, t>> \notin Found
    BY <1>1, FoundIs DEF ContextInv
  <1>3. /\ z.sock[s].stage = "open" /\ z.pipe[<<s, "connect">>].state = "none"
        /\ z.sock[s].sent = 0 /\ c \in Ends
    <2>1. s \in Connectors /\ LinkAt(z, s, "connect", i, i) /\ i >= i /\ i <= i
      BY <1>1
    <2> HIDE DEF s, i
    <2> QED BY <2>1, EndFacts DEF LinkAt
  <1> HIDE DEF s, b
  <1>4. Met(z, q, s, found, c)
    <2>1. Sound(z, Pending(z), Found, {}) /\ PendingWell(z.pending)
      BY LibraryIs
    <2>2. CASE b # None
      <3>1. q = bound /\ found = Found \ {<<s, b>>}
        BY <2>2
      <3>2. Met(z, bound, s, Found \ {<<s, b>>}, <<s, "connect">>)
        <4>1. bound = SendTo(PipePair(z, s, b), b, Bind(<<s, "bind">>))
          OBVIOUS
        <4> HIDE DEF bound
        <4> QED BY <4>1, <2>1, <2>2, <1>1, <1>2, <1>3, MeetBound
      <3> QED BY <3>1, <3>2
    <2>3. CASE b = None
      <3>1. q = pended /\ found = Found
        BY <2>3
      <3>2. Met(z, pended, s, Found, <<s, "connect">>)
        <4>1. pended = PendConnection(Write(PipePair(z, s, s), <<s, "connect">>, "id"), s)
          OBVIOUS
        <4> HIDE DEF pended
        <4> QED BY <4>1, <2>1, <2>3, <1>1, <1>2, <1>3, MeetPending
      <3> QED BY <3>1, <3>2
    <2> QED BY <2>2, <2>3
  <1>5. Connected(z, z', s, found)
    <2>1. c = <<s, "connect">> /\ z' = AttachPipe(q, s, c)
      BY <1>0
    <2> HIDE DEF q, c, found
    <2> QED BY <2>1, <1>1, <1>3, <1>4, JoinGood
  <1> HIDE DEF q, bound, pended, found
  <1>6. /\ Sound(z', Pending(z'), found, {}) /\ PendingWell(z'.pending)
        /\ \A f \in Ends : f[1] # s => (z'.pipe[f].state = "none" <=> z.pipe[f].state = "none")
        /\ z'.pipe[<<s, "connect">>].state # "none"
        /\ \A u \in Sockets : z'.sock[u].stage = z.sock[u].stage
        /\ \A u \in Connectors \ {s} : z'.sock[u].sent = z.sock[u].sent
    BY <1>5 DEF Connected, Made
  <1>7. \A t \in Connectors : t # s => SameSocket(z, z', t)
    <2> SUFFICES ASSUME NEW t \in Connectors, t # s PROVE SameSocket(z, z', t)
      OBVIOUS
    <2>1. t \in Sockets /\ <<t, "connect">> \in Ends /\ <<t, "connect">>[1] # s
      BY SocketFacts, EndFacts
    <2> QED BY <2>1, <1>6 DEF SameSocket
  <1>8. st \in StepNames /\ n \in 1 .. Len(Links) /\ st \in {"create", "close"}
        /\ (st = "create" => n = i + 1) /\ (st = "close" => i = Len(Links) /\ n = i)
    BY <1>1 DEF StepNames
  <1> HIDE DEF st, n, i
  <1>9. \A j \in 1 .. Len(Links) : LinkAt(z', <<k, Links[j]>>, st, n, j)
    <2> SUFFICES ASSUME NEW j \in 1 .. Len(Links)
                 PROVE  LinkAt(z', <<k, Links[j]>>, st, n, j)
      OBVIOUS
    <2>0. j \in Nat /\ j <= Len(Links)
      BY <1>1
    <2>1. CASE j = i
      <3>1. z'.sock[s].stage = "open" /\ z'.pipe[<<s, "connect">>].state # "none"
        BY <1>1, <1>3, <1>6
      <3>2. LinkAt(z', s, st, n, j)
        BY <3>1, <2>0, <2>1, <1>1, <1>8 DEF LinkAt
      <3> QED BY <3>2, <2>1, <1>1
    <2>2. CASE j # i
      <3>1. LinkAt(z', <<k, Links[j]>>, "connect", i, j)
        BY <2>2, <1>1, <1>7, LinkKept
      <3> QED BY <3>1, <2>0, <2>2, <1>1, <1>8 DEF LinkAt
    <2> QED BY <2>1, <2>2
  <1>10. \A t \in Connectors : t[1] # k => SameSocket(z, z', t)
    BY <1>1, <1>7
  <1>11. /\ cpc'[k] = <<st, n>> /\ peer'[k] = None
         /\ \A l \in Clients : l # k => cpc'[l] = cpc[l] /\ peer'[l] = peer[l]
    BY <1>0, <1>8, <1>9, <1>10, ClientMoves
  <1>12. Found' = found
    <2>1. cpc'[k] \in StepNames \X (1 .. Len(Links))
      BY <1>8, <1>11
    <2> QED BY <2>1, <1>11, FoundMoves DEF found, s, b
  <1>13. Sound(z', Pending(z'), Found', {})
    BY <1>6, <1>12
  <1> QED BY <1>0, <1>6, <1>8, <1>9, <1>10, <1>13, ClientGoes

\* A client disconnects and closes a socket.
LEMMA CloseStep ==
    ASSUME ContextInv, NEW k \in Clients, Close(k)
    PROVE  ContextInv'
PROOF
  <1> DEFINE s == Socket(k)
             i == cpc[k][2]
             e == <<s, "connect">>
             pend == Pending(z)
             q == ProcessCommands(z, s)
             kept == q.sock[s].ctx_terminated \/ s[2] = "pub" \/ e \notin q.sock[s].pipes
             q1 == IF kept THEN q ELSE Terminate(q, e, TRUE)
             st == IF i > 1 THEN "close" ELSE "gone"
             n == IF i > 1 THEN i - 1 ELSE 1
  <1>0. /\ cpc[k][1] = "close" /\ UNCHANGED <<terminating, peer, bpc, copy>>
        /\ z' = EditStage(q1, s, "closed") /\ Reap(s)
        /\ cpc' = [cpc EXCEPT ![k] = <<st, n>>]
    BY DEF Close, CloseSocket, EditStage, Go
  <1>1. /\ s \in Connectors /\ s \in Sockets /\ s \notin Hosts /\ peer[k] = None
        /\ i \in 1 .. Len(Links) /\ i \in Nat /\ Len(Links) \in Nat /\ LinkAt(z, s, "close", i, i)
        /\ \A j \in 1 .. Len(Links) : LinkAt(z, <<k, Links[j]>>, "close", i, j)
        /\ \A j \in 1 .. Len(Links) : /\ <<k, Links[j]>> \in Connectors
                                      /\ <<k, Links[j]>> = s => j = i
                                      /\ j = i => <<k, Links[j]>> = s
        /\ \A t \in Connectors : t[1] # k => t # s
    BY <1>0, ClientIs
  <1>2. /\ z.sock[s].stage = "open" /\ e \in Ends /\ e[2] = "connect"
        /\ z.pipe[<<s, "connect">>].state # "none"
    <2>1. s \in Connectors /\ LinkAt(z, s, "close", i, i) /\ i >= i /\ i <= i
      BY <1>1
    <2> HIDE DEF s, i
    <2> QED BY <2>1, EndFacts DEF LinkAt
  <1>3. Sound(q, pend, Found, {}) /\ Kept(z, q)
    <2>1. Sound(z, pend, Found, {}) /\ FoundNew(z.pipe, Found) /\ q = ProcessCommands(z, s)
      BY LibraryIs
    <2> HIDE DEF pend, q, s
    <2> QED BY <2>1, <1>1, CommandsGood
  <1> HIDE DEF q, s
  <1>4. Sound(q1, pend, Found, {}) /\ Kept(q, q1)
    <2>1. CASE kept
      <3>1. q1 = q /\ q \in Library
        BY <2>1, <1>3 DEF Sound
      <3> QED BY <3>1, <1>3, KeptItself
    <2>2. CASE ~kept
      <3> DEFINE sock == q.sock
                 h == << >>
                 found == Found
                 delay == TRUE
      <3>1. q1 = Terminate(q, e, delay) /\ e \in q.sock[s].pipes
        BY <2>2
      <3>2. q \in Library /\ q.pipe[e].sink = s /\ q.pipe[e].state # "deleted" /\ s # None
        <4>1. Members(q.sock, q.pipe, s) /\ q \in Library
          BY <1>1, <1>3 DEF Sound, Holds
        <4>2. s # None
          BY <1>1, ContextNoneAssumption
        <4> QED BY <4>1, <4>2, <3>1, <1>2 DEF Members
      <3>3. Good(q, sock, s, h, pend, found, {}) /\ h \in Seq(Commands) /\ delay \in BOOLEAN
            /\ delay
        BY <1>1, <1>3, <3>2, SoundGood
      <3>4. After(q, q1, sock, s, h, pend, found, {})
        <4> HIDE DEF e, sock, h, found, delay, pend, q1
        <4> QED BY ONLY <3>1, <3>2, <3>3, <1>1, <1>2, TerminateGood
      <3>5. Good(q1, q1.sock, s, << >>, pend, Found, {}) /\ Kept(q, q1) /\ q1 \in Library
        BY <3>4 DEF After, Good
      <3> QED BY <3>5, <1>1, SoundGood
    <2> QED BY <2>1, <2>2
  <1> HIDE DEF q1
  <1>5. Kept(z, q1) /\ q1.sock[s].stage = "open"
    <2>1. Kept(z, q1)
      BY <1>3, <1>4, KeptTrans
    <2> QED BY <2>1, <1>1, <1>2 DEF Kept
  <1>6. Sound(z', pend, Found, {}) /\ Staged(q1, z', s, "closed")
    <2>1. "closed" \in Stages
      BY DEF Stages
    <2> HIDE DEF pend
    <2> QED BY <2>1, <1>0, <1>1, <1>4, <1>5, StageGood
  <1>7. /\ z'.pending = z.pending /\ z'.sock[s].stage = "closed" /\ z'.sock[s].sent = z.sock[s].sent
        /\ \A f \in Ends : z'.pipe[f].state = "none" <=> z.pipe[f].state = "none"
        /\ \A u \in Sockets : u # s => /\ z'.sock[u].stage = z.sock[u].stage
                                       /\ z'.sock[u].sent = z.sock[u].sent
    BY <1>1, <1>5, <1>6 DEF Kept, Staged
  <1>8. \A t \in Connectors : t # s => SameSocket(z, z', t)
    BY <1>7, SocketFacts, EndFacts DEF SameSocket
  <1>9. st \in StepNames /\ n \in 1 .. Len(Links) /\ n \in Nat /\ st \in {"close", "gone"}
        /\ (st = "close" => n = i - 1) /\ (st = "gone" => i = 1)
    BY <1>1 DEF StepNames
  <1> HIDE DEF st, n, i
  <1>10. \A j \in 1 .. Len(Links) : LinkAt(z', <<k, Links[j]>>, st, n, j)
    <2> SUFFICES ASSUME NEW j \in 1 .. Len(Links)
                 PROVE  LinkAt(z', <<k, Links[j]>>, st, n, j)
      OBVIOUS
    <2>0. j \in Nat /\ j >= 1
      BY <1>1
    <2>1. CASE j = i
      <3>1. z'.sock[s].stage = "closed" /\ z'.pipe[<<s, "connect">>].state # "none"
        BY <1>2, <1>7 DEF e
      <3>2. LinkAt(z', s, st, n, j)
        BY <3>1, <2>0, <2>1, <1>1, <1>9 DEF LinkAt
      <3> QED BY <3>2, <2>1, <1>1
    <2>2. CASE j # i
      <3>1. LinkAt(z', <<k, Links[j]>>, "close", i, j)
        BY <2>2, <1>1, <1>8, LinkKept
      <3> QED BY <3>1, <2>0, <2>2, <1>1, <1>9 DEF LinkAt
    <2> QED BY <2>1, <2>2
  <1>11. \A t \in Connectors : t[1] # k => SameSocket(z, z', t)
    BY <1>1, <1>8
  <1>12. peer' = [peer EXCEPT ![k] = None] /\ None \in Hosts \cup {None}
    BY <1>0, <1>1 DEF ContextInv, TypeInv
  <1>13. /\ \A l \in Clients : ClientInv(l)'
         /\ cpc' \in [Clients -> StepNames \X (1 .. Len(Links))]
         /\ peer' \in [Clients -> Hosts \cup {None}]
         /\ cpc'[k] = <<st, n>> /\ peer'[k] = None
         /\ \A l \in Clients : l # k => cpc'[l] = cpc[l] /\ peer'[l] = peer[l]
    BY <1>0, <1>9, <1>10, <1>11, <1>12, ClientMoves
  <1>14. Found' = Found
    <2>1. cpc'[k] \in StepNames \X (1 .. Len(Links))
      BY <1>9, <1>13
    <2> QED BY <2>1, <1>1, <1>13, FoundMoves
  <1>15. LibraryInv'
    <2>1. Pending(z') = pend /\ PendingWell(z'.pending)
      BY <1>7, LibraryIs DEF Pending
    <2> QED BY <2>1, <1>6, <1>14 DEF LibraryInv, Sound
  <1>16. BusInv'
    <2>1. \A t \in Hosts : SameStage(z, z', t)
      BY <1>1, <1>7, SocketFacts DEF SameStage
    <2> QED BY <2>1, <1>0, BusKept DEF ContextInv
  <1>17. ReaperInv' /\ reaper' \in [mbox : Seq(ReaperCommands), sockets : Int, stop : BOOLEAN, done : BOOLEAN]
    <2>1. s \in Live(z)
      BY <1>1, <1>2 DEF Live
    <2>2. \A t \in Sockets : z.sock[t].stage = "closed" => z'.sock[t].stage = "closed"
      BY <1>2, <1>7
    <2> QED BY <2>1, <2>2, <1>0, <1>1, <1>2, <1>7, ReapStep DEF ContextInv
  <1>18. TypeInv'
    BY <1>0, <1>13, <1>17 DEF ContextInv, TypeInv
  <1> QED BY <1>13, <1>15, <1>16, <1>17, <1>18 DEF ContextInv

-----------------------------------------------------------------------------
(* The invariant holds.                                                      *)

\* The library in the initial state.
LEMMA InitLibrary ==
    ASSUME Init
    PROVE  /\ z \in Library /\ z.ok /\ Pending(z) = {} /\ PendingWell(z.pending)
           /\ \A t \in Sockets :
                 /\ z.mbox[t] = << >> /\ z.sock[t].stage = "none" /\ z.sock[t].pipes = {}
                 /\ z.sock[t].only = None /\ z.sock[t].term_acks = 0 /\ z.sock[t].sent = 0
                 /\ z.sock[t].processed = 0 /\ ~z.sock[t].terminating /\ ~z.sock[t].destroyed
           /\ \A e \in Ends :
                 /\ z.pipe[e].state = "none" /\ z.pipe[e].in_active /\ ~z.pipe[e].asleep
                 /\ z.pipe[e].in = << >> /\ z.pipe[e].sink = None
           /\ \A a \in ToSet(Bus) : z.endpoints[a] = None
PROOF
  <1> DEFINE so == [stage |-> "none", pipes |-> {}, only |-> None, term_acks |-> 0,
                    sent |-> 0, processed |-> 0, terminating |-> FALSE,
                    destroyed |-> FALSE, ctx_terminated |-> FALSE]
             pi(e) == [state |-> "none", delay |-> TRUE, in_active |-> TRUE,
                       asleep |-> FALSE, in |-> << >>, out |-> FALSE,
                       sink |-> None, tid |-> e[1]]
             socks == [s \in Sockets |-> so]
             pipes == [e \in Ends |-> pi(e)]
             boxes == [s \in Sockets |-> << >>]
             names == [a \in ToSet(Bus) |-> None]
             lists == [a \in ToSet(Bus) |-> << >>]
  <1>1. z = [sock |-> socks, pipe |-> pipes, mbox |-> boxes, endpoints |-> names,
             pending |-> lists, ok |-> TRUE]
    BY DEF Init
  <1>2. /\ so \in SocketType /\ so.stage = "none" /\ so.pipes = {} /\ so.only = None
        /\ so.term_acks = 0 /\ so.sent = 0 /\ so.processed = 0 /\ ~so.terminating
        /\ ~so.destroyed
    BY DEF SocketType, Stages
  <1>3. \A e \in Ends : e[1] \in Sockets
    BY EndFacts
  <1>4. \A e \in Ends : /\ pi(e) \in PipeType /\ pi(e).state = "none" /\ pi(e).in_active
                        /\ ~pi(e).asleep /\ pi(e).in = << >> /\ pi(e).sink = None
    BY <1>3 DEF PipeType, PipeStates
  <1> HIDE DEF so, pi
  <1>5. /\ socks \in SocketTable /\ pipes \in PipeTable /\ boxes \in Boxes
        /\ names \in EndpointTable /\ lists \in PendingTable
    BY <1>2, <1>4 DEF SocketTable, PipeTable, Boxes, EndpointTable, PendingTable
  <1>6. /\ \A t \in Sockets : socks[t] = so /\ boxes[t] = << >>
        /\ \A e \in Ends : pipes[e] = pi(e)
        /\ \A a \in ToSet(Bus) : names[a] = None /\ lists[a] = << >>
    OBVIOUS
  <1> HIDE DEF socks, pipes, boxes, names, lists
  <1>7. /\ z \in Library /\ z.ok /\ z.sock = socks /\ z.pipe = pipes /\ z.mbox = boxes
        /\ z.endpoints = names /\ z.pending = lists
    BY <1>1, <1>5 DEF Library
  <1>8. Pending(z) = {}
    <2>1. ToSet(<< >>) = {}
      BY DEF ToSet
    <2> QED BY <2>1, <1>6, <1>7 DEF Pending
  <1>9. PendingWell(z.pending)
    BY <1>6, <1>7 DEF PendingWell, Distinct
  <1> QED BY <1>2, <1>4, <1>6, <1>7, <1>8, <1>9

\* The threads in the initial state.
LEMMA InitThreads ==
    ASSUME Init
    PROVE  /\ reaper = [mbox |-> << >>, sockets |-> 0, stop |-> FALSE, done |-> FALSE]
           /\ terminating = FALSE /\ copy = {} /\ bpc = <<"create", 1>>
           /\ \A k \in Clients : cpc[k] = <<"create", 1>> /\ peer[k] = None
           /\ Found = {} /\ TypeInv
PROOF
  <1>1. /\ reaper = [mbox |-> << >>, sockets |-> 0, stop |-> FALSE, done |-> FALSE]
        /\ terminating = FALSE /\ copy = {} /\ bpc = <<"create", 1>>
        /\ cpc = [k \in Clients |-> <<"create", 1>>] /\ peer = [k \in Clients |-> None]
    BY DEF Init
  <1>2. Found = {}
    BY <1>1 DEF Found
  <1>3. 1 \in 1 .. Len(Links)
    BY LinkFacts
  <1>4. cpc \in [Clients -> StepNames \X (1 .. Len(Links))] /\ peer \in [Clients -> Hosts \cup {None}]
    BY <1>1, <1>3 DEF StepNames
  <1>5. reaper \in [mbox : Seq(ReaperCommands), sockets : Int, stop : BOOLEAN, done : BOOLEAN]
    BY <1>1
  <1>6. TypeInv
    BY <1>1, <1>4, <1>5 DEF TypeInv
  <1> QED BY <1>1, <1>2, <1>6

\* The invariant of the library in the initial state: nothing is under way.
LEMMA InitHolds ==
    ASSUME Init
    PROVE  Holds(z.pipe, z.sock, z.endpoints, z.mbox, {}, {}, {})
PROOF
  <1>0. /\ \A t \in Sockets :
              /\ z.mbox[t] = << >> /\ z.sock[t].stage = "none" /\ z.sock[t].pipes = {}
              /\ z.sock[t].only = None /\ z.sock[t].term_acks = 0 /\ z.sock[t].sent = 0
              /\ z.sock[t].processed = 0 /\ ~z.sock[t].terminating /\ ~z.sock[t].destroyed
        /\ \A e \in Ends :
              /\ z.pipe[e].state = "none" /\ z.pipe[e].in_active /\ ~z.pipe[e].asleep
              /\ z.pipe[e].in = << >> /\ z.pipe[e].sink = None
        /\ \A a \in ToSet(Bus) : z.endpoints[a] = None
    BY InitLibrary
  <1>1. \A t \in Sockets : \A m : ~At(z.mbox, t, m) /\ OnceAt(z.mbox, t, m)
    BY <1>0 DEF At, OnceAt
  <1>2. /\ \A m : ~Sent(z.mbox, m) /\ Once(z.mbox, m)
        /\ \A m, n : Before(z.mbox, m, n)
    <2>1. \A m : ~Sent(z.mbox, m) /\ Once(z.mbox, m)
      BY <1>1 DEF Sent, Once
    <2>2. \A t \in Sockets : Len(z.mbox[t]) = 0
      BY <1>0
    <2> QED BY <2>1, <2>2 DEF Before
  <1>3. \A e \in Ends : Peer(e) \in Ends
    BY EndFacts
  <1>4. ASSUME NEW e \in Ends PROVE Handshake(z.pipe, z.mbox, e)
    BY <1>0, <1>2, <1>3 DEF Handshake, Acked, Asking
  <1>5. ASSUME NEW e \in Ends PROVE Order(z.pipe, z.mbox, e)
    BY <1>1, <1>2 DEF Order
  <1>6. ASSUME NEW e \in Ends PROVE Owner(z.pipe, z.mbox, {}, e)
    BY <1>0, <1>1, <1>2 DEF Owner
  <1>7. ASSUME NEW e \in Ends PROVE Content(z.pipe, z.sock, e)
    <2>1. "delimiter" \notin ToSet(z.pipe[e].in)
      BY <1>0 DEF ToSet
    <2> QED BY <2>1, <1>0 DEF Content
  <1>8. ASSUME NEW t \in Sockets PROVE Counting(z.sock, z.mbox, {}, {}, t)
    <2>1. Owed(z.mbox, {}, {}, t) = {}
      BY <1>1 DEF Owed
    <2>2. Cardinality(Owed(z.mbox, {}, {}, t)) = 0
      BY <2>1, FS_EmptySet
    <2>3. z.sock[t].sent = z.sock[t].processed + Cardinality(Owed(z.mbox, {}, {}, t))
      BY <2>2, <1>0
    <2> QED BY <2>3, <1>0, <1>1 DEF Counting
  <1>9. ASSUME NEW t \in Sockets PROVE Members(z.sock, z.pipe, t)
    <2>1. t # None
      BY ContextNoneAssumption
    <2> QED BY <2>1, <1>0 DEF Members
  <1>10. Bound(z.endpoints, z.sock)
    BY <1>0 DEF Bound
  <1>11. /\ z.pipe \in PipeTable /\ z.sock \in SocketTable /\ z.mbox \in Boxes
         /\ z.endpoints \in EndpointTable
    BY InitLibrary, LibraryTypes DEF Library
  <1> QED BY <1>4, <1>5, <1>6, <1>7, <1>8, <1>9, <1>10, <1>11 DEF Holds

\* The invariant holds in the initial state.
LEMMA InitInv ==
    ASSUME Init
    PROVE  ContextInv
PROOF
  <1>1. /\ \A t \in Sockets : z.sock[t].stage = "none" /\ z.sock[t].sent = 0
        /\ \A e \in Ends : z.pipe[e].state = "none"
    BY InitLibrary
  <1>2. LibraryInv
    BY InitLibrary, InitThreads, InitHolds DEF LibraryInv
  <1>3. ASSUME NEW k \in Clients PROVE ClientInv(k)
    <2>1. cpc[k] = <<"create", 1>> /\ peer[k] = None
      BY InitThreads
    <2>2. ASSUME NEW j \in 1 .. Len(Links)
          PROVE  LinkAt(z, <<k, Links[j]>>, "create", 1, j)
      <3> DEFINE s == <<k, Links[j]>>
      <3>1. s \in Connectors /\ s \in Sockets /\ <<s, "connect">> \in Ends
        BY ClientSockets, SocketFacts, EndFacts
      <3>2. j >= 1 /\ ~(j < 1)
        BY LinkFacts
      <3> HIDE DEF s
      <3>3. LinkAt(z, s, "create", 1, j)
        BY <1>1, <3>1, <3>2 DEF LinkAt
      <3> QED BY <3>3 DEF s
    <2> QED BY <2>1, <2>2 DEF ClientInv
  <1>4. BusInv
    <2>1. \A j \in 1 .. Len(Bus) : z.sock[Bus[j]].stage = "none" /\ j >= 1 /\ ~(j < 1)
      BY <1>1, BusNames
    <2>2. \A j \in 1 .. Len(Bus) : BusAt(z.sock[Bus[j]].stage, "create", 1, j)
      BY <2>1 DEF BusAt
    <2>3. \A s \in Connectors : z.sock[PairOf(s)].stage = "none"
      BY <1>1, SocketFacts
    <2>4. 1 \in 1 .. Len(Bus)
      BY BusNames, LinkFacts
    <2> QED BY <2>2, <2>3, <2>4, InitThreads DEF BusInv
  <1>5. ReaperInv
    BY InitThreads DEF ReaperInv, Stopping
  <1> QED BY <1>2, <1>3, <1>4, <1>5, InitThreads DEF ContextInv

\* The inductive invariant holds: the handshake that ends a pipe, the counters of
\* the sockets, the mailboxes, the pending connections and the threads agree in
\* every state, whatever the number of clients.
THEOREM ContextInvariant == Spec => []ContextInv
PROOF
  <1>1. Init => ContextInv
    BY InitInv
  <1>2. ContextInv /\ [Next]_vars => ContextInv'
    <2> SUFFICES ASSUME ContextInv, [Next]_vars
                 PROVE  ContextInv'
      OBVIOUS
    <2>1. ASSUME NEW k \in Clients, ClientThread(k) PROVE ContextInv'
      BY <2>1, CreateStep, FindStep, ConnectStep, CloseStep DEF ClientThread
    <2>2. ASSUME NEW s \in Sockets, SocketCommands(s) PROVE ContextInv'
      BY <2>2, CommandsStep
    <2>3. ASSUME NEW e \in Ends, SocketRead(e) \/ SocketWrite(e) PROVE ContextInv'
      BY <2>3, ReadStep, WriteStep
    <2>4. CASE BusThread
      BY <2>4, BusRegisterStep, BusConnectPendingStep, BusCloseStep, TerminateBeginStep,
         PairBindStep, PairConnectStep, PairBindFailsStep, TerminateStopStep, WaitStepOver
         DEF BusThread
    <2>5. CASE TerminateInterrupted
      BY <2>5, WaitStepOver
    <2>6. CASE Reaper
      BY <2>6, DestroyStep, ReaperCommandStep, CommandsStep DEF Reaper
    <2>7. CASE UNCHANGED vars
      <3>1. UNCHANGED <<z, reaper, terminating, cpc, peer, bpc, copy>>
        BY <2>7 DEF vars
      <3>2. Sound(z', Pending(z'), Found, {}) /\ PendingWell(z'.pending)
        BY <3>1, LibraryIs
      <3> QED BY <3>1, <3>2, QuietStep
    <2> QED BY <2>1, <2>2, <2>3, <2>4, <2>5, <2>6, <2>7 DEF Next
  <1> QED BY <1>1, <1>2, PTL DEF Spec

-----------------------------------------------------------------------------
(* What follows from the invariant.                                          *)

\* A socket that was deleted has no pipe left, and no connection is under way to it.
LEMMA GoneFacts ==
    ASSUME ContextInv, NEW s \in Sockets, z.sock[s].stage = "gone"
    PROVE  /\ \A e \in Ends : z.pipe[e].sink = s => z.pipe[e].state = "deleted"
           /\ \A x : x \notin Owed(z.mbox, Pending(z), Found, s)
           /\ z.sock[s].terminating
PROOF
  <1>1. /\ Counting(z.sock, z.mbox, Pending(z), Found, s) /\ Members(z.sock, z.pipe, s)
        /\ z.sock \in SocketTable
    BY DEF ContextInv, LibraryInv, Holds
  <1>2. z.sock[s].destroyed
    BY <1>1 DEF Members
  <1>3. z.sock[s].terminating /\ Cardinality(z.sock[s].pipes) = 0
    BY <1>1, <1>2 DEF Counting
  <1>4. z.sock[s].pipes = {}
    <2>1. z.sock[s].pipes \in SUBSET Ends
      BY <1>1 DEF SocketTable, SocketType
    <2>2. IsFiniteSet(z.sock[s].pipes)
      BY <2>1, EndsFinite, FS_Subset
    <2> QED BY <2>2, <1>3, FS_EmptySet
  <1>5. \A e \in Ends : z.pipe[e].sink = s => z.pipe[e].state = "deleted"
    BY <1>1, <1>4 DEF Members
  <1>6. \A x : x \notin Owed(z.mbox, Pending(z), Found, s)
    BY <1>1, <1>2, OwedAlive
  <1> QED BY <1>3, <1>5, <1>6

\* What the invariant says of a pipe end.
LEMMA EndsHold ==
    ASSUME ContextInv, NEW e \in Ends
    PROVE  /\ Handshake(z.pipe, z.mbox, e) /\ Order(z.pipe, z.mbox, e)
           /\ Owner(z.pipe, z.mbox, Pending(z), e) /\ Content(z.pipe, z.sock, e)
  BY DEF ContextInv, LibraryInv, Holds

\* The socket whose thread has a pipe end in use still keeps it, or waits for it.
LEMMA InUse ==
    ASSUME ContextInv, NEW e \in Ends, NEW s \in Sockets, z.pipe[e].tid = s,
           z.pipe[e].state \notin {"none", "deleted"}
    PROVE  z.sock[s].stage # "gone"
PROOF
  <1> SUFFICES ASSUME z.sock[s].stage = "gone" PROVE FALSE
    OBVIOUS
  <1>1. Owner(z.pipe, z.mbox, Pending(z), e)
    BY EndsHold
  <1>2. z.pipe[e].sink # s
    BY GoneFacts
  <1>3. e[2] = "bind" /\ z.pipe[e].sink = None
    BY <1>1, <1>2, EndFacts DEF Owner
  <1>4. e[1] \in Pending(z) \/ At(z.mbox, s, Bind(e))
    BY <1>1, <1>3 DEF Owner
  <1>5. e[1] \in Pending(z) => e[1] = s
    BY <1>1, <1>3 DEF Owner
  <1>6. e[1] \in Connectors /\ e = <<e[1], "bind">>
    BY <1>3, EndFacts
  <1>7. e[1] \in Owed(z.mbox, Pending(z), Found, s)
    BY <1>4, <1>5, <1>6 DEF Owed
  <1> QED BY <1>7, GoneFacts

\* A command for a pipe end finds the end, and the socket it was sent to.
LEMMA EndCommandsLive ==
    ASSUME ContextInv, NEW e \in Ends, NEW s \in Sockets, NEW m \in {Ask(e), Ack(e), Wake(e), Bind(e)},
           At(z.mbox, s, m)
    PROVE  z.pipe[e].state # "deleted" /\ z.sock[s].stage # "gone"
PROOF
  <1>0. /\ Handshake(z.pipe, z.mbox, e) /\ Order(z.pipe, z.mbox, e)
        /\ Owner(z.pipe, z.mbox, Pending(z), e)
    BY EndsHold
  <1>1. Sent(z.mbox, m)
    BY DEF Sent
  <1>2. CASE m = Ask(e)
    <2>1. z.pipe[e].state \in {"active", "delimiter_received", "term_req_sent1"}
      BY <1>0, <1>1, <1>2 DEF Handshake
    <2>2. \/ s = z.pipe[e].tid
          \/ s = z.pipe[Peer(e)].tid /\ z.pipe[Peer(e)].state = "term_req_sent1"
      BY <1>0, <1>2 DEF Order
    <2> QED BY <2>1, <2>2, InUse, EndFacts
  <1>3. CASE m = Ack(e)
    <2>1. z.pipe[e].state \in {"term_req_sent1", "term_ack_sent", "term_req_sent2"}
      BY <1>0, <1>1, <1>3 DEF Handshake
    <2>2. s = z.pipe[e].tid
      BY <1>0, <1>3 DEF Order
    <2> QED BY <2>1, <2>2, InUse
  <1>4. CASE m = Wake(e)
    <2>1. s = z.pipe[e].tid /\ z.pipe[e].state \notin {"none", "deleted"}
      BY <1>0, <1>4 DEF Order
    <2> QED BY <2>1, InUse
  <1>5. CASE m = Bind(e)
    <2>1. e[2] = "bind"
      BY <1>0, <1>1, <1>5, EndFacts DEF Owner
    <2>2. s = z.pipe[e].tid /\ z.pipe[e].sink = None /\ z.pipe[e].state # "none"
      BY <1>0, <1>5, <2>1 DEF Owner
    <2>3. z.pipe[e].state \in {"active", "waiting_for_delimiter"}
      BY <1>0, <2>1, <2>2 DEF Owner
    <2> QED BY <2>2, <2>3, InUse
  <1> QED BY <1>2, <1>3, <1>4, <1>5

\* No zmq_assert on the way down fails: z.ok is never reset by pipe_t::terminate,
\* process_delimiter, process_pipe_term, process_pipe_term_ack, by
\* unregister_term_ack, by a second process_term, or by a context that ends with
\* sockets left.
THEOREM AssertionsHoldAlways == Spec => []AssertionsHold
PROOF
  <1>1. ContextInv => AssertionsHold
    BY DEF ContextInv, LibraryInv, AssertionsHold
  <1> QED BY <1>1, ContextInvariant, PTL

\* The reaper deletes a socket only when no command but stop is left in its
\* mailbox or sent to it later, and a pipe end deletes itself only when no
\* command for it is left: no command is handled on freed memory.
THEOREM NoCommandToTheDeadHolds == Spec => []NoCommandToTheDead
PROOF
  <1>1. ContextInv => NoCommandToTheDead
    <2> SUFFICES ASSUME ContextInv, NEW s \in Sockets, NEW m \in ToSet(z.mbox[s])
                 PROVE  /\ z.sock[s].stage = "gone" => m.type = "stop"
                        /\ m.end # None => z.pipe[m.end].state # "deleted"
      BY DEF NoCommandToTheDead
    <2>1. z.mbox[s] \in Seq(Commands)
      BY DEF ContextInv, LibraryInv, Holds, Boxes
    <2>2. At(z.mbox, s, m) /\ m \in Commands
      BY <2>1 DEF ToSet, At
    <2>3. CASE m = Stopped
      BY <2>3 DEF Stopped, Command
    <2>4. CASE m = Joined
      <3>1. m.end = None
        BY <2>4 DEF Joined, Command
      <3>2. Counting(z.sock, z.mbox, Pending(z), Found, s)
        BY DEF ContextInv, LibraryInv, Holds
      <3>3. s \in Owed(z.mbox, Pending(z), Found, s)
        BY <3>2, <2>2, <2>4 DEF Counting, Owed
      <3> QED BY <3>1, <3>3, GoneFacts
    <2>5. ASSUME NEW e \in Ends, m \in {Ask(e), Ack(e), Wake(e), Bind(e)}, m.end = e
          PROVE  z.sock[s].stage # "gone" /\ z.pipe[m.end].state # "deleted"
      BY <2>2, <2>5, EndCommandsLive
    <2> QED BY <2>2, <2>3, <2>4, <2>5, CommandCases
  <1> QED BY <1>1, ContextInvariant, PTL

\* When the reaper deletes a socket, the table of endpoints, the threads inside
\* zmq_connect, the pending connections and the pipe ends have forgotten it.
THEOREM NothingNamesTheDeadHolds == Spec => []NothingNamesTheDead
PROOF
  <1>1. ContextInv => NothingNamesTheDead
    <2> SUFFICES ASSUME ContextInv, NEW s \in Sockets, z.sock[s].stage = "gone"
                 PROVE  /\ \A a \in DOMAIN z.endpoints : z.endpoints[a] # s
                        /\ \A k \in Clients : peer[k] # s
                        /\ s \notin Pending(z)
                        /\ \A e \in Ends : z.pipe[e].sink = s => z.pipe[e].state = "deleted"
      BY DEF NothingNamesTheDead
    <2>0. s # None
      BY ContextNoneAssumption
    <2>1. ASSUME NEW a \in DOMAIN z.endpoints PROVE z.endpoints[a] # s
      <3>1. Bound(z.endpoints, z.sock) /\ z.endpoints \in EndpointTable
        BY DEF ContextInv, LibraryInv, Holds
      <3>2. a \in ToSet(Bus)
        BY <3>1 DEF EndpointTable
      <3> QED BY <3>1, <3>2, <2>0, GoneFacts DEF Bound
    <2>2. ASSUME NEW k \in Clients, peer[k] = s PROVE FALSE
      <3>1. <<Socket(k), s>> \in Found /\ Socket(k) \in Connectors
        BY <2>0, <2>2, FoundIs DEF ContextInv
      <3>2. Socket(k) \in Owed(z.mbox, Pending(z), Found, s)
        BY <3>1 DEF Owed
      <3> QED BY <3>2, GoneFacts
    <2>3. ASSUME s \in Pending(z) PROVE FALSE
      <3>1. z.pending \in PendingTable
        BY LibraryIs, LibraryTypes
      <3>2. s \in Connectors
        BY <2>3, <3>1 DEF Pending, PendingTable, ToSet
      <3>3. s \in Owed(z.mbox, Pending(z), Found, s)
        BY <3>2, <2>3 DEF Owed
      <3> QED BY <3>3, GoneFacts
    <2> QED BY <2>1, <2>2, <2>3, GoneFacts
  <1> QED BY <1>1, ContextInvariant, PTL

\* A pipe end has let go of the queue it writes to, in send_pipe_term_ack, before
\* its peer's process_pipe_term_ack deletes that queue.
THEOREM OutpipeLiveHolds == Spec => []OutpipeLive
PROOF
  <1>1. ContextInv => OutpipeLive
    <2> SUFFICES ASSUME ContextInv, NEW e \in Ends, z.pipe[e].out
                 PROVE  z.pipe[Peer(e)].state # "deleted"
      BY DEF OutpipeLive
    <2> QED BY EndsHold DEF Handshake
  <1> QED BY <1>1, ContextInvariant, PTL

\* While the bus has its socket open, its end of a client's pipe acknowledges the
\* end of the connection only after it has read every event in the pipe.
THEOREM ReadBeforeGoneHolds == Spec => []ReadBeforeGone
PROOF
  <1>1. ContextInv => ReadBeforeGone
    <2> SUFFICES ASSUME ContextInv, NEW s \in Connectors, NEW p, p = z.pipe[<<s, "bind">>],
                        p.sink # None, p.sink \notin Pairs, z.sock[p.sink].stage = "open",
                        p.state \in {"term_ack_sent", "delimiter_received"}
                 PROVE  "msg" \notin ToSet(p.in)
      BY DEF ReadBeforeGone
    <2>1. <<s, "bind">> \in Ends
      BY EndFacts
    <2>2. Content(z.pipe, z.sock, <<s, "bind">>)
      BY <2>1, EndsHold
    <2> QED BY <2>2 DEF Content
  <1> QED BY <1>1, ContextInvariant, PTL
=============================================================================

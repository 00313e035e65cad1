--------------------------- MODULE EventBusProofs ---------------------------
(* Proofs about EventBus for every set of clients and types, every prefix    *)
(* relation and every high-water mark: bounds and order, then the order of   *)
(* one publisher, that no event is lost between the acceptance by a PUB and  *)
(* the hand-over to a client other than by a full pipe, and the refinement.  *)
EXTENDS EventBus, SequenceTheorems, FiniteSetTheorems, TLAPS

-----------------------------------------------------------------------------
(* Arithmetic of the acknowledgements.                                       *)

\* Rounding down to a multiple of L.
LEMMA Rounding ==
    ASSUME NEW r \in Nat, NEW L \in Nat \ {0}
    PROVE  /\ r \div L \in Nat
           /\ (r \div L) * L \in Nat
           /\ (r \div L) * L <= r
           /\ r < (r \div L) * L + L
  BY Z3

\* A product grows with its first factor.
LEMMA ProductMonotone ==
    ASSUME NEW a \in Nat, NEW b \in Nat, NEW L \in Nat, a <= b
    PROVE  a * L <= b * L
  BY Z3

\* Rounding down is monotone.
LEMMA RoundingMonotone ==
    ASSUME NEW r \in Nat, NEW s \in Nat, NEW L \in Nat \ {0}, r <= s
    PROVE  (r \div L) * L <= (s \div L) * L
PROOF
  <1> DEFINE a == r \div L
             b == s \div L
  <1>1. a \in Nat /\ b \in Nat /\ a * L <= r /\ s < b * L + L
        /\ a * L \in Nat /\ b * L \in Nat
    BY Rounding
  <1> HIDE DEF a, b
  <1>2. CASE a <= b
    BY <1>2, <1>1, ProductMonotone DEF a, b
  <1>3. CASE b + 1 <= a
    <2>1. (b + 1) * L <= a * L
      BY <1>1, <1>3, ProductMonotone
    <2>2. (b + 1) * L = b * L + L
      BY <1>1
    <2> QED BY <1>1, <2>1, <2>2
  <1> QED BY <1>1, <1>2, <1>3

\* The low-water mark is positive and at most the high-water mark.
LEMMA LwmType == Lwm \in Nat \ {0} /\ Lwm <= Hwm
  BY HwmAssumption DEF Lwm

-----------------------------------------------------------------------------
(* Every operation keeps a pipe in order.                                    *)

\* What the writer's counters always say of the queue.
PipeOK(p) ==
    /\ Len(p.q) <= p.written
    /\ p.acked <= AckSent(p)
    /\ p.written - p.acked <= Hwm

\* The counters of a pipe that is in order.
LEMMA Counters ==
    ASSUME NEW S, NEW p \in Pipe(S), PipeOK(p)
    PROVE  /\ MsgsRead(p) \in Nat /\ AckSent(p) \in Nat
           /\ AckSent(p) <= MsgsRead(p) /\ MsgsRead(p) < AckSent(p) + Lwm
           /\ Len(p.q) \in Nat /\ p.written \in Nat /\ p.acked \in Nat
           /\ p.written = MsgsRead(p) + Len(p.q)
PROOF
  <1>1. Len(p.q) \in Nat /\ p.written \in Nat /\ p.acked \in Nat
    BY DEF Pipe
  <1>2. MsgsRead(p) \in Nat /\ p.written = MsgsRead(p) + Len(p.q)
    BY <1>1 DEF MsgsRead, PipeOK
  <1>3. AckSent(p) \in Nat /\ AckSent(p) <= MsgsRead(p)
        /\ MsgsRead(p) < AckSent(p) + Lwm
    BY <1>2, LwmType, Rounding DEF AckSent
  <1> QED BY <1>1, <1>2, <1>3

\* A pipe that is in order is bounded.
LEMMA PipeBounded ==
    ASSUME NEW S, NEW p \in Pipe(S), PipeOK(p)
    PROVE  Bounded(p)
PROOF
  <1>1. p.acked <= AckSent(p) /\ p.written - p.acked <= Hwm /\ Hwm \in Nat
    BY HwmAssumption DEF PipeOK
  <1>2. /\ MsgsRead(p) \in Nat /\ AckSent(p) \in Nat /\ AckSent(p) <= MsgsRead(p)
        /\ Len(p.q) \in Nat /\ p.written \in Nat /\ p.acked \in Nat
        /\ p.written = MsgsRead(p) + Len(p.q)
    BY Counters
  <1>3. p.acked <= MsgsRead(p) /\ Len(p.q) <= Hwm
    BY <1>1, <1>2
  <1> QED BY <1>3 DEF Bounded

\* A new pipe.
LEMMA NewPipeOK ==
    ASSUME NEW S
    PROVE  NewPipe \in Pipe(S) /\ PipeOK(NewPipe)
PROOF
  <1>1. NewPipe \in Pipe(S)
    BY DEF NewPipe, Pipe
  <1>2. MsgsRead(NewPipe) = 0 /\ AckSent(NewPipe) \in Nat
    BY LwmType, Rounding DEF MsgsRead, NewPipe, AckSent
  <1> QED BY <1>1, <1>2, HwmAssumption DEF PipeOK, NewPipe

\* The writer processes its commands.
LEMMA SyncOK ==
    ASSUME NEW S, NEW p \in Pipe(S), PipeOK(p)
    PROVE  /\ Sync(p) \in Pipe(S) /\ PipeOK(Sync(p))
           /\ Sync(p).q = p.q /\ Sync(p).written = p.written
PROOF
  <1>1. /\ Sync(p).q = p.q /\ Sync(p).written = p.written
        /\ Sync(p).acked = AckSent(p)
    BY DEF Sync
  <1>2. Sync(p) \in Pipe(S)
    BY Counters DEF Sync, Pipe
  <1>3. AckSent(Sync(p)) = AckSent(p)
    BY <1>1 DEF AckSent, MsgsRead
  <1>4. PipeOK(Sync(p))
    <2> DEFINE w == Sync(p)
    <2>1. Len(w.q) <= w.written
      BY <1>1 DEF PipeOK
    <2>2. w.acked <= AckSent(w)
      BY <1>1, <1>3, Counters
    <2>3. w.written - w.acked <= Hwm
      BY <1>1, Counters, HwmAssumption DEF PipeOK
    <2> QED BY <2>1, <2>2, <2>3 DEF PipeOK
  <1> QED BY <1>1, <1>2, <1>4

\* A write, into a full pipe or not.
LEMMA WriteOK ==
    ASSUME NEW S, NEW p \in Pipe(S), PipeOK(p), NEW m \in S
    PROVE  /\ Write(p, m) \in Pipe(S) /\ PipeOK(Write(p, m))
           /\ Write(p, m).q = IF Full(p) THEN p.q ELSE Append(p.q, m)
PROOF
  <1>1. CASE Full(p)
    BY <1>1 DEF Write
  <1>2. CASE ~Full(p)
    <2> DEFINE w == Write(p, m)
    <2>1. /\ w.q = Append(p.q, m) /\ w.written = p.written + 1
          /\ w.acked = p.acked
      BY <1>2 DEF Write
    <2>2. w \in Pipe(S)
      BY <1>2 DEF Write, Pipe
    <2>3. Len(w.q) = Len(p.q) + 1
      BY <2>1 DEF Pipe
    <2> HIDE DEF w
    <2>4. AckSent(w) = AckSent(p)
      <3>1. MsgsRead(w) = MsgsRead(p)
        BY <2>1, <2>3, Counters DEF MsgsRead
      <3> QED BY <3>1 DEF AckSent
    <2>5. PipeOK(w)
      <3>1. /\ Len(p.q) \in Nat /\ p.written \in Nat /\ p.acked \in Nat
            /\ Hwm \in Nat
        BY Counters, HwmAssumption
      <3>2. p.written - p.acked < Hwm
        BY <1>2, <3>1 DEF Full
      <3>3. Len(p.q) <= p.written /\ p.acked <= AckSent(p)
        BY DEF PipeOK
      <3>4. Len(w.q) <= w.written /\ w.acked <= AckSent(w)
        BY <2>1, <2>3, <2>4, <3>1, <3>3
      <3>5. w.written - w.acked <= Hwm
        BY <2>1, <3>1, <3>2
      <3> QED BY <3>4, <3>5 DEF PipeOK
    <2> QED BY <1>2, <2>1, <2>2, <2>5 DEF w
  <1> QED BY <1>1, <1>2

\* The reader takes messages: q is what it leaves.
LEMMA ReadSome ==
    ASSUME NEW S, NEW p \in Pipe(S), PipeOK(p), NEW q \in Seq(S),
           Len(q) <= Len(p.q),
           NEW r, r = [q |-> q, written |-> p.written, acked |-> p.acked]
    PROVE  r \in Pipe(S) /\ PipeOK(r)
PROOF
  <1>1. r \in Pipe(S)
    BY DEF Pipe
  <1>2. r.q = q /\ r.written = p.written /\ r.acked = p.acked
    OBVIOUS
  <1>3. Len(q) \in Nat
    OBVIOUS
  <1>4. MsgsRead(r) \in Nat /\ MsgsRead(p) <= MsgsRead(r)
    BY <1>2, <1>3, Counters, SMTT(40) DEF MsgsRead, PipeOK
  <1>5. AckSent(p) <= AckSent(r) /\ AckSent(r) \in Nat
    BY <1>4, Counters, LwmType, RoundingMonotone, Rounding DEF AckSent
  <1> QED BY <1>1, <1>2, <1>3, <1>5, Counters DEF PipeOK

\* Reading one message, and reading all.
LEMMA ReadOK ==
    ASSUME NEW S, NEW p \in Pipe(S), PipeOK(p)
    PROVE  /\ p.q # << >> => /\ Read(p) \in Pipe(S) /\ PipeOK(Read(p))
                             /\ Read(p).q = Tail(p.q)
           /\ ReadAll(p) \in Pipe(S) /\ PipeOK(ReadAll(p))
           /\ ReadAll(p).q = << >>
PROOF
  <1>1. p.q \in Seq(S)
    BY DEF Pipe
  <1>2. p.q # << >> => Tail(p.q) \in Seq(S) /\ Len(Tail(p.q)) <= Len(p.q)
    BY <1>1
  <1>3. << >> \in Seq(S) /\ Len(<< >>) <= Len(p.q)
    BY <1>1
  <1>4. p.q # << >> => Read(p) \in Pipe(S) /\ PipeOK(Read(p))
    BY <1>2, ReadSome DEF Read
  <1>5. ReadAll(p) \in Pipe(S) /\ PipeOK(ReadAll(p))
    BY <1>3, ReadSome DEF ReadAll
  <1> QED BY <1>4, <1>5 DEF Read, ReadAll

\* A pipe never holds more than Hwm messages, and a writer that has processed
\* its commands finds it full only when more than Hwm - Lwm are waiting, and
\* only if it looked full before.
LEMMA FullMeansBehind ==
    ASSUME NEW S, NEW p \in Pipe(S), PipeOK(p)
    PROVE  /\ Len(p.q) <= Hwm
           /\ Full(Sync(p)) => Len(p.q) > Hwm - Lwm
           /\ Full(Sync(p)) => Full(p)
PROOF
  <1>1. Hwm \in Nat /\ Lwm \in Nat
    BY HwmAssumption, LwmType
  <1>2. Len(p.q) <= Hwm
    BY <1>1, Counters DEF PipeOK
  <1>3. Full(Sync(p)) => p.written - AckSent(p) >= Hwm
    BY DEF Full, Sync
  <1>4. Full(Sync(p)) => Full(p)
    <2>1. p.acked <= AckSent(p) /\ Sync(p).written = p.written
          /\ Sync(p).acked = AckSent(p)
      BY DEF PipeOK, Sync
    <2> QED BY <1>1, <2>1, Counters DEF Full
  <1> QED BY <1>1, <1>2, <1>3, <1>4, Counters

\* What a socket of the bus knows of its pipes: they are in order, hold the
\* same messages and look full only if they did before.
LEMMA KnownOK ==
    ASSUME NEW S, NEW f \in [Clients -> Pipe(S)],
           \A c \in Clients : PipeOK(f[c]), NEW late \in SUBSET Clients
    PROVE  /\ Known(f, late) \in [Clients -> Pipe(S)]
           /\ \A c \in Clients :
                 /\ PipeOK(Known(f, late)[c])
                 /\ Known(f, late)[c].q = f[c].q
                 /\ Known(f, late)[c] \in {f[c], Sync(f[c])}
                 /\ Full(Known(f, late)[c]) => Full(f[c])
PROOF
  <1>1. \A c \in Clients : /\ Sync(f[c]) \in Pipe(S) /\ PipeOK(Sync(f[c]))
                           /\ Sync(f[c]).q = f[c].q
                           /\ Full(Sync(f[c])) => Full(f[c])
    <2>1. ASSUME NEW c \in Clients
          PROVE  /\ Sync(f[c]) \in Pipe(S) /\ PipeOK(Sync(f[c]))
                 /\ Full(Sync(f[c])) => Full(f[c])
      BY SyncOK, FullMeansBehind
    <2>2. \A c \in Clients : Sync(f[c]).q = f[c].q
      BY DEF Sync
    <2> QED BY <2>1, <2>2
  <1> DEFINE g(c) == IF c \in late THEN f[c] ELSE Sync(f[c])
  <1>2. \A c \in Clients : /\ g(c) \in Pipe(S) /\ PipeOK(g(c))
                           /\ g(c).q = f[c].q /\ g(c) \in {f[c], Sync(f[c])}
                           /\ Full(g(c)) => Full(f[c])
    BY <1>1
  <1>3. Known(f, late) = [c \in Clients |-> g(c)]
    BY DEF Known
  <1> HIDE DEF g
  <1> QED BY <1>2, <1>3

-----------------------------------------------------------------------------
(* Types and queue bounds.                                                   *)

\* The proxy is about to forward a notification only when there is one.
TurnOK == turn \in {"both", "note"} => pending # << >>

\* The counters of every pipe fit its queue.
PipesInv ==
    \A c \in Clients :
        /\ PipeOK(subs[c]) /\ PipeOK(ctl[c])
        /\ PipeOK(up[c]) /\ PipeOK(down[c])

TInv == TypeOK /\ PipesInv /\ TurnOK

\* Replacing one pipe by one that is in order.
LEMMA ReplacePipe ==
    ASSUME NEW S, NEW f \in [Clients -> Pipe(S)],
           \A d \in Clients : PipeOK(f[d]),
           NEW c \in Clients, NEW p \in Pipe(S), PipeOK(p)
    PROVE  /\ [f EXCEPT ![c] = p] \in [Clients -> Pipe(S)]
           /\ \A d \in Clients : PipeOK([f EXCEPT ![c] = p][d])
PROOF
  <1>1. \A d \in Clients : [f EXCEPT ![c] = p][d] = IF d = c THEN p ELSE f[d]
    OBVIOUS
  <1> QED BY <1>1

\* The pipes of a state that satisfies TInv.
LEMMA PipesOK ==
    ASSUME TInv
    PROVE  /\ subs \in [Clients -> Pipe(Op)]
           /\ ctl \in [Clients -> Pipe(Op)]
           /\ up \in [Clients -> Pipe(Event)]
           /\ down \in [Clients -> Pipe(Nat)]
           /\ \A c \in Clients : PipeOK(subs[c]) /\ PipeOK(ctl[c])
                                 /\ PipeOK(up[c]) /\ PipeOK(down[c])
  BY DEF TInv, TypeOK, PipesInv

\* The operation at the head of a queue.
LEMMA HeadOp ==
    ASSUME NEW q \in Seq(Op), q # << >>
    PROVE  Head(q) \in Op /\ Head(q).type \in Types /\ Tail(q) \in Seq(Op)
PROOF
  <1>1. Head(q) \in Op /\ Tail(q) \in Seq(Op)
    BY HeadTailProperties
  <1> QED BY <1>1 DEF Op

\* zmq_setsockopt writes into the pipe to XPUB.
LEMMA SetSockOptType ==
    ASSUME TInv, NEW c \in Clients, NEW t \in Types, NEW on \in BOOLEAN,
           SetSockOpt(c, t, on)
    PROVE  /\ subs' \in [Clients -> Pipe(Op)]
           /\ \A d \in Clients : PipeOK(subs'[d])
           /\ ops' \in Nat /\ lost' \in SUBSET Clients
PROOF
  <1>1. [on |-> on, type |-> t] \in Op
    BY DEF Op
  <1>2. /\ Write(subs[c], [on |-> on, type |-> t]) \in Pipe(Op)
        /\ PipeOK(Write(subs[c], [on |-> on, type |-> t]))
    BY <1>1, PipesOK, WriteOK
  <1>3. subs' = [subs EXCEPT ![c] = Write(subs[c], [on |-> on, type |-> t])]
    BY DEF SetSockOpt
  <1>4. ops' \in Nat /\ lost' \in SUBSET Clients
    BY DEF SetSockOpt, TInv, TypeOK
  <1> QED BY <1>2, <1>3, <1>4, PipesOK, ReplacePipe

\* publish_event keeps the types.
LEMMA PublishType ==
    ASSUME TInv, NEW c \in Clients, NEW t \in Types, PublishEvent(c, t)
    PROVE  TInv'
PROOF
  <1>1. PICK busy \in BOOLEAN :
        LET known == IF busy THEN filter[c]
                     ELSE {u \in Types :
                              Settled(ctl[c].q, u, u \in filter[c])}
            pipe  == IF busy THEN up[c] ELSE Sync(up[c])
            e     == [pub |-> c, num |-> sent + 1, type |-> t]
        IN  /\ filter' = [filter EXCEPT ![c] = known]
            /\ ctl' = IF busy THEN ctl ELSE [ctl EXCEPT ![c] = ReadAll(@)]
            /\ IF Match(known, t) /\ ~Full(pipe)
               THEN /\ up' = [up EXCEPT ![c] = Write(pipe, e)]
                    /\ owed' = owed \cup
                         {<<e, d>> : d \in {d \in open :
                            \E u \in Prefixes[t] : /\ u \in table[d]
                                                   /\ d \in xpub[u]
                                                   /\ Quiet(subs[d].q, u)}}
               ELSE /\ up' = [up EXCEPT ![c] = pipe]
                    /\ UNCHANGED owed
    BY DEF PublishEvent
  <1> DEFINE known == IF busy THEN filter[c]
                      ELSE {u \in Types :
                               Settled(ctl[c].q, u, u \in filter[c])}
             pipe  == IF busy THEN up[c] ELSE Sync(up[c])
             e     == [pub |-> c, num |-> sent + 1, type |-> t]
  <1>2. e \in Event
    BY DEF Event, TInv, TypeOK
  <1>3. known \in SUBSET Types
    BY DEF TInv, TypeOK
  <1>4. pipe \in Pipe(Event) /\ PipeOK(pipe)
    BY PipesOK, SyncOK
  <1>5. filter' \in [Clients -> SUBSET Types]
    <2>1. filter' = [filter EXCEPT ![c] = known]
      BY <1>1
    <2> HIDE DEF known
    <2> QED BY <1>3, <2>1 DEF TInv, TypeOK
  <1>6. ctl' \in [Clients -> Pipe(Op)] /\ \A d \in Clients : PipeOK(ctl'[d])
    <2>1. ReadAll(ctl[c]) \in Pipe(Op) /\ PipeOK(ReadAll(ctl[c]))
      BY PipesOK, ReadOK
    <2>2. ctl' = ctl \/ ctl' = [ctl EXCEPT ![c] = ReadAll(ctl[c])]
      BY <1>1
    <2> QED BY <2>1, <2>2, PipesOK, ReplacePipe, ZenonT(40)
  <1>7. up' \in [Clients -> Pipe(Event)] /\ \A d \in Clients : PipeOK(up'[d])
    <2>1. up' = [up EXCEPT ![c] = Write(pipe, e)] \/ up' = [up EXCEPT ![c] = pipe]
      BY <1>1
    <2> HIDE DEF pipe, e
    <2>2. Write(pipe, e) \in Pipe(Event) /\ PipeOK(Write(pipe, e))
      BY <1>2, <1>4, WriteOK
    <2> QED BY <1>4, <2>1, <2>2, PipesOK, ReplacePipe, ZenonT(40)
  <1>8. owed' \in SUBSET (Event \X Clients)
    <2>1. \/ owed' = owed
          \/ owed' = owed \cup
                {<<e, d>> : d \in {d \in open :
                            \E u \in Prefixes[t] : /\ u \in table[d]
                                                   /\ d \in xpub[u]
                                                   /\ Quiet(subs[d].q, u)}}
      BY <1>1
    <2> HIDE DEF e
    <2> QED BY <1>2, <2>1 DEF TInv, TypeOK
  <1>9. sent' \in Nat
    BY DEF PublishEvent, TInv, TypeOK
  <1>10. UNCHANGED <<running, clientVars, subs, xpub, pending, xsub, attached,
                     turn, log, down, got, ops, lost, deaf, behind>>
    BY DEF PublishEvent, lossVars
  <1> QED BY <1>5, <1>6, <1>7, <1>8, <1>9, <1>10
      DEF TInv, TypeOK, PipesInv, TurnOK, clientVars

\* handle_event keeps the types.
LEMMA HandleType ==
    ASSUME TInv, NEW c \in Clients, HandleEvent(c) \/ HandleTimeout(c)
    PROVE  TInv'
PROOF
  <1>1. subs' \in [Clients -> Pipe(Op)] /\ \A d \in Clients : PipeOK(subs'[d])
    <2>1. Sync(subs[c]) \in Pipe(Op) /\ PipeOK(Sync(subs[c]))
      BY PipesOK, SyncOK
    <2>2. subs' = subs \/ subs' = [subs EXCEPT ![c] = Sync(subs[c])]
      BY DEF HandleEvent, HandleTimeout
    <2>3. CASE subs' = subs
      BY <2>3, PipesOK
    <2>4. CASE subs' = [subs EXCEPT ![c] = Sync(subs[c])]
      BY <2>1, <2>4, PipesOK, ReplacePipe
    <2> QED BY <2>2, <2>3, <2>4
  <1>2. CASE HandleEvent(c)
    <2>1. /\ down' \in [Clients -> Pipe(Nat)]
          /\ \A d \in Clients : PipeOK(down'[d])
      <3>1. down[c].q # << >> /\ down' = [down EXCEPT ![c] = Read(down[c])]
        BY <1>2 DEF HandleEvent
      <3>2. Read(down[c]) \in Pipe(Nat) /\ PipeOK(Read(down[c]))
        BY <3>1, PipesOK, ReadOK
      <3> QED BY <3>1, <3>2, PipesOK, ReplacePipe
    <2>2. got' \in [Clients -> Seq(Nat)]
      <3>1. Head(down[c].q) \in Nat
        BY <1>2, PipesOK, SMTT(40) DEF HandleEvent, Pipe
      <3>2. Append(got[c], Head(down[c].q)) \in Seq(Nat)
        BY <3>1 DEF TInv, TypeOK
      <3>3. got' = got \/ got' = [got EXCEPT ![c] =
                                     Append(got[c], Head(down[c].q))]
        BY <1>2 DEF HandleEvent
      <3> QED BY <3>2, <3>3 DEF TInv, TypeOK
    <2>3. owed' \in SUBSET (Event \X Clients)
      BY <1>2 DEF HandleEvent, TInv, TypeOK
    <2> QED BY <1>1, <1>2, <2>1, <2>2, <2>3
        DEF HandleEvent, TInv, TypeOK, PipesInv, TurnOK, clientVars,
            counters, lossVars
  <1>3. CASE HandleTimeout(c)
    BY <1>1, <1>3 DEF HandleTimeout, TInv, TypeOK, PipesInv, TurnOK,
       clientVars, eventVars, counters, lossVars
  <1> QED BY <1>2, <1>3

\* What XSUB writes to a new PUB, and what XPUB notes for a client that left.
LEMMA WritingsType ==
    ASSUME NEW S \in SUBSET Types, NEW on \in BOOLEAN,
           NEW s \in Writings(S, on)
    PROVE  /\ s \in Seq(Op)
           /\ Len(s) \in Nat /\ Len(s) <= Hwm
           /\ \A i \in 1 .. Len(s) : s[i].on = on /\ s[i].type \in S
           /\ \A i, j \in 1 .. Len(s) : s[i].type = s[j].type => i = j
           /\ \A t \in S : \E i \in 1 .. Len(s) : s[i].type = t
PROOF
  <1> DEFINE R == [on : {on}, type : S]
  <1>1. /\ Cardinality(S) \in Nat
        /\ Cardinality(S) <= Cardinality(Types) /\ Cardinality(Types) \in Nat
    BY BusTypesAssumption, FS_Subset, FS_CardinalityType
  <1>2. /\ s \in [1 .. Cardinality(S) -> R]
        /\ \A i, j \in 1 .. Cardinality(S) : s[i] = s[j] => i = j
        /\ \A r \in R : \E i \in 1 .. Cardinality(S) : s[i] = r
    <2>1. s \in Bijection(1 .. Cardinality(S), R)
      BY DEF Writings
    <2> HIDE DEF R
    <2> QED BY <2>1 DEF Bijection, Injection, Surjection, IsInjective
  <1>3. s \in [1 .. Cardinality(S) -> Op]
    BY <1>2 DEF Op
  <1>4. s \in Seq(Op) /\ Len(s) = Cardinality(S)
    BY <1>1, <1>3
  <1>5. \A i \in 1 .. Len(s) :
            s[i] = [on |-> on, type |-> s[i].type] /\ s[i].type \in S
    BY <1>2, <1>4
  <1>6. \A t \in S : \E i \in 1 .. Len(s) : s[i].type = t
    <2>1. SUFFICES ASSUME NEW t \in S
                   PROVE  \E i \in 1 .. Len(s) : s[i].type = t
      OBVIOUS
    <2>2. PICK i \in 1 .. Cardinality(S) : s[i] = [on |-> on, type |-> t]
      BY <1>2
    <2> QED BY <1>4, <2>2
  <1>7. Len(s) <= Hwm
    BY <1>1, <1>4, BusTypesAssumption, HwmAssumption
  <1>8. \A i, j \in 1 .. Len(s) : s[i].type = s[j].type => i = j
    BY <1>2, <1>4, <1>5
  <1> QED BY <1>1, <1>4, <1>5, <1>6, <1>7, <1>8

\* The pipe that XSUB fills for a new PUB.
LEMMA AttachPipe ==
    ASSUME NEW S \in SUBSET Types, NEW s \in Writings(S, TRUE),
           NEW p, p = [q |-> s, written |-> Len(s), acked |-> 0]
    PROVE  p \in Pipe(Op) /\ PipeOK(p) /\ p.q = s
PROOF
  <1>1. s \in Seq(Op) /\ Len(s) \in Nat /\ Len(s) <= Hwm
    BY WritingsType
  <1>2. p \in Pipe(Op) /\ p.q = s /\ p.written = Len(s) /\ p.acked = 0
    BY <1>1 DEF Pipe
  <1>3. MsgsRead(p) = 0
    BY <1>1, <1>2 DEF MsgsRead
  <1>4. AckSent(p) \in Nat
    BY <1>3, LwmType, Rounding DEF AckSent
  <1> QED BY <1>1, <1>2, <1>4, HwmAssumption DEF PipeOK

\* The destructor of a client keeps the types.
LEMMA CloseType ==
    ASSUME TInv, NEW c \in Clients, Close(c)
    PROVE  TInv'
PROOF
  <1>1. down' \in [Clients -> Pipe(Nat)] /\ \A d \in Clients : PipeOK(down'[d])
    <2>1. NewPipe \in Pipe(Nat) /\ PipeOK(NewPipe)
      BY NewPipeOK
    <2>2. down' = [down EXCEPT ![c] = NewPipe]
      BY DEF Close
    <2> QED BY <2>1, <2>2, PipesOK, ReplacePipe
  <1>2. /\ open' \in SUBSET Clients /\ gone' \in SUBSET Clients
        /\ attached' \in SUBSET Clients
        /\ owed' \in SUBSET (Event \X Clients)
        /\ table' \in [Clients -> SUBSET Types]
    BY DEF Close, TInv, TypeOK
  <1> QED BY <1>1, <1>2 DEF Close, TInv, TypeOK, PipesInv, TurnOK,
             counters, lossVars

\* Attaching a PUB keeps the types.
LEMMA AttachType ==
    ASSUME TInv, NEW c \in Clients, AttachPub(c)
    PROVE  TInv'
PROOF
  <1> DEFINE S == {t \in Types : xsub[t] > 0}
  <1>1. PICK s \in Writings(S, TRUE) :
            ctl' = [ctl EXCEPT ![c] =
                       [q |-> s, written |-> Len(s), acked |-> 0]]
    BY DEF AttachPub
  <1>2. ctl' \in [Clients -> Pipe(Op)] /\ \A d \in Clients : PipeOK(ctl'[d])
    BY <1>1, AttachPipe, PipesOK, ReplacePipe
  <1>3. attached' \in SUBSET Clients
    BY DEF AttachPub, TInv, TypeOK
  <1> QED BY <1>2, <1>3 DEF AttachPub, TInv, TypeOK, PipesInv, TurnOK,
             clientVars, eventVars, counters, lossVars

\* XPUB's reading of a subscription keeps the types.
LEMMA ReadSubscriptionType ==
    ASSUME TInv, NEW c \in Clients, ReadSubscription(c)
    PROVE  TInv'
PROOF
  <1> DEFINE op == Head(subs[c].q)
  <1>1. op \in Op /\ op.type \in Types
    <2>1. subs[c].q \in Seq(Op) /\ subs[c].q # << >>
      BY PipesOK DEF ReadSubscription, Pipe
    <2> QED BY <2>1, HeadOp
  <1>2. subs' \in [Clients -> Pipe(Op)] /\ \A d \in Clients : PipeOK(subs'[d])
    <2>1. subs[c].q # << >> /\ subs' = [subs EXCEPT ![c] = Read(subs[c])]
      BY DEF ReadSubscription
    <2>2. Read(subs[c]) \in Pipe(Op) /\ PipeOK(Read(subs[c]))
      BY <2>1, PipesOK, ReadOK
    <2> QED BY <2>1, <2>2, PipesOK, ReplacePipe
  <1>3. xpub' \in [Types -> SUBSET Clients]
    <2>1. \/ xpub' = [xpub EXCEPT ![op.type] = xpub[op.type] \cup {c}]
          \/ xpub' = [xpub EXCEPT ![op.type] = xpub[op.type] \ {c}]
      BY DEF ReadSubscription
    <2>2. xpub \in [Types -> SUBSET Clients]
      BY DEF TInv, TypeOK
    <2> HIDE DEF op
    <2> QED BY <1>1, <2>1, <2>2
  <1>4. pending' \in Seq(Op) /\ (pending # << >> => pending' # << >>)
    <2>1. pending' = pending \/ pending' = Append(pending, op)
      BY DEF ReadSubscription
    <2>2. pending \in Seq(Op)
      BY DEF TInv, TypeOK
    <2> HIDE DEF op
    <2> QED BY <1>1, <2>1, <2>2, AppendProperties
  <1> QED BY <1>2, <1>3, <1>4 DEF ReadSubscription, TInv, TypeOK,
             PipesInv, TurnOK, clientVars, eventVars, counters, lossVars

\* XPUB's detaching of a client keeps the types.
LEMMA DetachType ==
    ASSUME TInv, NEW c \in Clients, DetachSub(c)
    PROVE  TInv'
PROOF
  <1> DEFINE S == {t \in Types : xpub[t] = {c}}
  <1>1. PICK s \in Writings(S, FALSE) : pending' = pending \o s
    BY DEF DetachSub
  <1>2. s \in Seq(Op) /\ pending \in Seq(Op)
    BY WritingsType DEF TInv, TypeOK
  <1>3. pending' \in Seq(Op) /\ (pending # << >> => pending' # << >>)
    BY <1>1, <1>2
  <1>4. xpub' \in [Types -> SUBSET Clients]
    BY DEF DetachSub, TInv, TypeOK
  <1> QED BY <1>3, <1>4 DEF DetachSub, TInv, TypeOK,
             PipesInv, TurnOK, clientVars, eventVars, counters, lossVars

\* What a poll of the proxy changes.
LEMMA PollSteps ==
    ASSUME Poll
    PROVE  /\ \E late \in SUBSET Clients : /\ down' = Known(down, late)
                                    /\ behind' = MayLookFull(late)
           /\ \E late \in SUBSET Clients : ctl' = Known(ctl, late)
           /\ turn' \in {"both", "event"} => EventsWait
           /\ turn' \in {"both", "note"} => pending # << >>
           /\ turn' \in {"both", "event", "note"}
           /\ turn = "poll"
           /\ UNCHANGED <<running, clientVars, subs, xpub, pending, xsub,
                          attached, filter, up, log, got, owed, counters, lost,
                          deaf>>
PROOF
  <1>1. PICK xpubLate, xsubLate \in SUBSET Clients : PollSockets(xpubLate, xsubLate)
    BY DEF Poll
  <1>2. /\ \E late \in SUBSET Clients : /\ down' = Known(down, late)
                                 /\ behind' = MayLookFull(late)
        /\ \E late \in SUBSET Clients : ctl' = Known(ctl, late)
    BY <1>1 DEF PollSockets
  <1>3. UNCHANGED <<running, clientVars, subs, xpub, pending, xsub, attached,
                    filter, up, log, got, owed, counters, lost, deaf>>
    BY <1>1 DEF PollSockets, clientVars, counters
  <1>4. /\ turn' \in {"both", "event"} => EventsWait
        /\ turn' \in {"both", "note"} => pending # << >>
        /\ turn' \in {"both", "event", "note"}
        /\ turn = "poll"
    BY DEF Poll
  <1> QED BY <1>2, <1>3, <1>4

\* A poll keeps the types.
LEMMA PollType ==
    ASSUME TInv, Poll
    PROVE  TInv'
PROOF
  <1>1. down' \in [Clients -> Pipe(Nat)] /\ \A d \in Clients : PipeOK(down'[d])
    BY PollSteps, PipesOK, KnownOK
  <1>2. ctl' \in [Clients -> Pipe(Op)] /\ \A d \in Clients : PipeOK(ctl'[d])
    BY PollSteps, PipesOK, KnownOK
  <1>3. behind' \in SUBSET Clients
    BY PollSteps DEF MayLookFull
  <1>4. TurnOK' /\ turn' \in {"poll", "both", "event", "note"}
    BY PollSteps DEF TurnOK
  <1>5. UNCHANGED <<running, clientVars, subs, xpub, pending, xsub, attached,
                    filter, up, log, got, owed, counters, lost, deaf>>
    BY PollSteps
  <1> QED BY <1>1, <1>2, <1>3, <1>4, <1>5
      DEF TInv, TypeOK, PipesInv, clientVars, counters

\* Forwarding an event keeps the types.
LEMMA ForwardEventType ==
    ASSUME TInv, ForwardEvent
    PROVE  TInv'
PROOF
  <1>1. PICK c \in Clients, late \in SUBSET Clients :
        /\ up[c].q # << >>
        /\ up' = [up EXCEPT ![c] = Read(@)]
        /\ LET e == Head(up[c].q)
               pipes == Known(down, late)
               to == {d \in open : Match(XpubTypes(d), e.type)}
               full == {d \in to : Full(pipes[d])}
           IN  /\ log' = Append(log, e)
               /\ down' = [d \in Clients |->
                             IF d \in to THEN Write(pipes[d], Len(log) + 1)
                                         ELSE pipes[d]]
               /\ owed' = owed \ {<<e, d>> : d \in full}
    BY DEF ForwardEvent
  <1>2. up' \in [Clients -> Pipe(Event)] /\ \A d \in Clients : PipeOK(up'[d])
    <2>1. Read(up[c]) \in Pipe(Event) /\ PipeOK(Read(up[c]))
      BY <1>1, PipesOK, ReadOK
    <2> QED BY <1>1, <2>1, PipesOK, ReplacePipe
  <1>3. log' \in Seq(Event)
    <2>1. Head(up[c].q) \in Event
      BY <1>1, PipesOK DEF Pipe
    <2> QED BY <1>1, <2>1 DEF TInv, TypeOK
  <1>4. down' \in [Clients -> Pipe(Nat)] /\ \A d \in Clients : PipeOK(down'[d])
    <2> DEFINE pipes == Known(down, late)
               w(d) == Write(pipes[d], Len(log) + 1)
    <2>1. Len(log) + 1 \in Nat
      BY DEF TInv, TypeOK
    <2>2. pipes \in [Clients -> Pipe(Nat)] /\ \A d \in Clients : PipeOK(pipes[d])
      BY PipesOK, KnownOK
    <2>3. down' = [d \in Clients |->
                     IF d \in {d1 \in open :
                                 Match(XpubTypes(d1), Head(up[c].q).type)}
                     THEN w(d) ELSE pipes[d]]
      BY <1>1
    <2> HIDE DEF pipes
    <2>4. \A d \in Clients : w(d) \in Pipe(Nat) /\ PipeOK(w(d))
      BY <2>1, <2>2, WriteOK
    <2> HIDE DEF w
    <2> QED BY <2>2, <2>3, <2>4
  <1>5. owed' \in SUBSET (Event \X Clients)
    BY <1>1 DEF TInv, TypeOK
  <1>6. turn' \in {"poll", "both", "event", "note"}
        /\ (turn' \in {"both", "note"} => turn \in {"both", "note"})
        /\ behind' \in SUBSET Clients
    BY DEF ForwardEvent
  <1> QED BY <1>2, <1>3, <1>4, <1>5, <1>6 DEF ForwardEvent, TInv, TypeOK,
             PipesInv, TurnOK, clientVars, ctlVars, counters, lossVars

\* Forwarding a notification keeps the types.
LEMMA ForwardNoteType ==
    ASSUME TInv, ForwardNote
    PROVE  TInv'
PROOF
  <1> DEFINE op == Head(pending)
             pass == op.on \/ xsub[op.type] = 1
  <1>1. op \in Op /\ op.type \in Types /\ Tail(pending) \in Seq(Op)
    <2>1. pending \in Seq(Op) /\ pending # << >>
      BY DEF ForwardNote, TInv, TypeOK, TurnOK
    <2> QED BY <2>1, HeadOp
  <1>2. ctl' \in [Clients -> Pipe(Op)] /\ \A d \in Clients : PipeOK(ctl'[d])
    <2>1. PICK late \in SUBSET Clients :
             ctl' = [d \in Clients |->
                       IF d \in (IF pass THEN attached ELSE {})
                       THEN Write(Known(ctl, late)[d], op)
                       ELSE Known(ctl, late)[d]]
      BY DEF ForwardNote
    <2> DEFINE pipes == Known(ctl, late)
               w(d) == Write(pipes[d], op)
    <2>2. pipes \in [Clients -> Pipe(Op)] /\ \A d \in Clients : PipeOK(pipes[d])
      BY PipesOK, KnownOK
    <2>3. ctl' = [d \in Clients |-> IF d \in (IF pass THEN attached ELSE {})
                                    THEN w(d) ELSE pipes[d]]
      BY <2>1
    <2> HIDE DEF pipes, op, pass
    <2>4. \A d \in Clients : w(d) \in Pipe(Op) /\ PipeOK(w(d))
      BY <1>1, <2>2, WriteOK
    <2> HIDE DEF w
    <2> QED BY <2>2, <2>3, <2>4
  <1>3. xsub' \in [Types -> Nat]
    <2>1. xsub' = [xsub EXCEPT ![op.type] =
                     IF op.on THEN xsub[op.type] + 1
                     ELSE IF xsub[op.type] = 0 THEN 0 ELSE xsub[op.type] - 1]
      BY DEF ForwardNote
    <2> HIDE DEF op
    <2> QED BY <1>1, <2>1 DEF TInv, TypeOK
  <1>4. deaf' \in SUBSET Clients /\ pending' \in Seq(Op) /\ turn' = "poll"
    BY <1>1 DEF ForwardNote, TInv, TypeOK
  <1> QED BY <1>2, <1>3, <1>4 DEF ForwardNote, TInv, TypeOK,
             PipesInv, TurnOK, clientVars, eventVars

\* Any step keeps the types.
LEMMA TypeStep == TInv /\ [Next]_vars => TInv'
PROOF
  <1> SUFFICES ASSUME TInv, [Next]_vars PROVE TInv'
    OBVIOUS
  <1> USE DEF TInv, TypeOK, PipesInv, TurnOK, clientVars, ctlVars,
              eventVars, counters, lossVars
  <1>1. CASE UNCHANGED vars
    BY <1>1 DEF vars
  <1>2. ASSUME NEW c \in Clients, Connect(c) PROVE TInv'
    BY <1>2 DEF Connect
  <1>3. ASSUME NEW c \in Clients, NEW t \in Types, Subscribe(c, t)
        PROVE  TInv'
    <2>1. table' \in [Clients -> SUBSET Types]
      BY <1>3 DEF Subscribe
    <2> QED BY <1>3, <2>1, SetSockOptType DEF Subscribe
  <1>4. ASSUME NEW c \in Clients, NEW t \in Types, Unsubscribe(c, t)
        PROVE  TInv'
    <2>1. table' \in [Clients -> SUBSET Types]
          /\ owed' \in SUBSET (Event \X Clients)
      BY <1>4 DEF Unsubscribe
    <2> QED BY <1>4, <2>1, SetSockOptType DEF Unsubscribe
  <1>5. ASSUME NEW c \in Clients, NEW t \in Types, PublishEvent(c, t)
        PROVE  TInv'
    BY <1>5, PublishType
  <1>6. ASSUME NEW c \in Clients, HandleEvent(c) \/ HandleTimeout(c)
        PROVE  TInv'
    BY <1>6, HandleType
  <1>7. ASSUME NEW c \in Clients, Close(c) PROVE TInv'
    BY <1>7, CloseType
  <1>8. ASSUME NEW c \in Clients, AttachPub(c) PROVE TInv'
    BY <1>8, AttachType
  <1>9. ASSUME NEW c \in Clients, ReadSubscription(c) PROVE TInv'
    BY <1>9, ReadSubscriptionType
  <1>10. ASSUME NEW c \in Clients, DetachSub(c) PROVE TInv'
    BY <1>10, DetachType
  <1>11. CASE Begin
    BY <1>11 DEF Begin
  <1>12. CASE Poll
    BY <1>12, PollType
  <1>13. CASE ForwardEvent
    BY <1>13, ForwardEventType
  <1>14. CASE ForwardNote
    BY <1>14, ForwardNoteType
  <1> QED BY <1>1, <1>2, <1>3, <1>4, <1>5, <1>6, <1>7, <1>8, <1>9, <1>10,
             <1>11, <1>12, <1>13, <1>14 DEF Next

\* The empty bus has the right types.
LEMMA TypeInit == Init => TInv
PROOF
  <1> SUFFICES ASSUME Init PROVE TInv
    OBVIOUS
  <1>1. /\ NewPipe \in Pipe(Op) /\ NewPipe \in Pipe(Event)
        /\ NewPipe \in Pipe(Nat) /\ PipeOK(NewPipe)
    BY NewPipeOK
  <1>2. TypeOK
    <2>1. /\ subs \in [Clients -> Pipe(Op)] /\ ctl \in [Clients -> Pipe(Op)]
          /\ up \in [Clients -> Pipe(Event)] /\ down \in [Clients -> Pipe(Nat)]
      BY <1>1 DEF Init
    <2>2. /\ pending \in Seq(Op) /\ log \in Seq(Event)
          /\ got \in [Clients -> Seq(Nat)]
      BY EmptySeq DEF Init
    <2>3. /\ table \in [Clients -> SUBSET Types]
          /\ filter \in [Clients -> SUBSET Types]
          /\ xpub \in [Types -> SUBSET Clients] /\ xsub \in [Types -> Nat]
      BY DEF Init
    <2> QED BY <2>1, <2>2, <2>3 DEF Init, TypeOK
  <1>3. PipesInv
    BY <1>1 DEF Init, PipesInv
  <1> QED BY <1>2, <1>3 DEF Init, TInv, TurnOK

\* Every variable of the bus keeps its type.
THEOREM BusTypeCorrect == Spec => []TypeOK
PROOF
  <1>1. TInv => TypeOK
    BY DEF TInv
  <1> QED BY <1>1, TypeInit, TypeStep, PTL DEF Spec

\* No queue of the bus grows beyond the high-water mark.
THEOREM QueuesBoundedHolds == Spec => []QueuesBounded
PROOF
  <1>1. ASSUME TInv, NEW c \in Clients
        PROVE  /\ Bounded(subs[c]) /\ Bounded(ctl[c])
               /\ Bounded(up[c]) /\ Bounded(down[c])
    <2>1. /\ subs[c] \in Pipe(Op) /\ PipeOK(subs[c])
          /\ ctl[c] \in Pipe(Op) /\ PipeOK(ctl[c])
          /\ up[c] \in Pipe(Event) /\ PipeOK(up[c])
          /\ down[c] \in Pipe(Nat) /\ PipeOK(down[c])
      BY <1>1 DEF TInv, TypeOK, PipesInv
    <2> QED BY <2>1, PipeBounded
  <1>2. TInv => QueuesBounded
    BY <1>1 DEF QueuesBounded
  <1> QED BY <1>2, TypeInit, TypeStep, PTL DEF Spec

-----------------------------------------------------------------------------
(* The order in which events arrive.                                         *)

\* g was handed out and q is waiting: together they increase up to n.
OrderOK(g, q, n) ==
    /\ \A i, j \in 1 .. Len(g) : i < j => g[i] < g[j]
    /\ \A i, j \in 1 .. Len(q) : i < j => q[i] < q[j]
    /\ \A i \in 1 .. Len(g), j \in 1 .. Len(q) : g[i] < q[j]
    /\ \A i \in 1 .. Len(g) : g[i] <= n
    /\ \A i \in 1 .. Len(q) : q[i] <= n

OrderInv == \A c \in Clients : OrderOK(got[c], down[c].q, Len(log))

\* The order survives reading, with and without handing out what is read.
LEMMA OrderRead ==
    ASSUME NEW g \in Seq(Nat), NEW q \in Seq(Nat), NEW n \in Nat,
           q # << >>, OrderOK(g, q, n)
    PROVE  /\ OrderOK(g, Tail(q), n)
           /\ OrderOK(Append(g, Head(q)), Tail(q), n)
PROOF
  <1>1. /\ Len(q) \in Nat \ {0} /\ Len(Tail(q)) = Len(q) - 1
        /\ \A i \in 1 .. Len(Tail(q)) : Tail(q)[i] = q[i + 1]
        /\ Head(q) = q[1] /\ Head(q) \in Nat
    BY HeadTailProperties, EmptySeq
  <1>2. /\ Len(g) \in Nat
        /\ Len(Append(g, Head(q))) = Len(g) + 1
        /\ \A i \in 1 .. Len(g) : Append(g, Head(q))[i] = g[i]
        /\ Append(g, Head(q))[Len(g) + 1] = Head(q)
    BY <1>1, AppendProperties
  <1>3. /\ \A i \in 1 .. Len(g) : g[i] \in Nat
        /\ \A i \in 1 .. Len(q) : q[i] \in Nat
    BY ElementOfSeq
  <1> DEFINE r == Tail(q)
             a == Append(g, Head(q))
  <1>4. /\ Len(r) = Len(q) - 1 /\ Len(r) \in Nat
        /\ \A i \in 1 .. Len(r) : r[i] = q[i + 1] /\ i + 1 \in 1 .. Len(q)
        /\ Len(a) = Len(g) + 1 /\ 1 \in 1 .. Len(q)
        /\ \A i \in 1 .. Len(a) : \/ i \in 1 .. Len(g) /\ a[i] = g[i]
                                  \/ i = Len(g) + 1 /\ a[i] = q[1]
    BY <1>1, <1>2
  <1> HIDE DEF r, a
  <1>5. OrderOK(g, r, n)
    BY <1>1, <1>2, <1>3, <1>4, SMTT(40) DEF OrderOK
  <1>6. OrderOK(a, r, n)
    <2>0. Len(g) \in Nat /\ Len(q) \in Nat /\ Len(r) \in Nat
      BY <1>1, <1>2, <1>4
    <2>1. ASSUME NEW i \in 1 .. Len(a), NEW j \in 1 .. Len(a), i < j
          PROVE  a[i] < a[j]
      <3>1. i \in 1 .. Len(g) /\ a[i] = g[i]
        <4>1. i # Len(g) + 1
          <5>1. Len(a) = Len(g) + 1
            BY <1>4
          <5> QED BY <2>0, <2>1, <5>1
        <4> QED BY <1>4, <4>1
      <3>2. \/ j \in 1 .. Len(g) /\ a[j] = g[j]
            \/ j = Len(g) + 1 /\ a[j] = q[1]
        BY <1>4
      <3> QED BY <1>4, <2>1, <3>1, <3>2 DEF OrderOK
    <2>2. ASSUME NEW i \in 1 .. Len(a), NEW j \in 1 .. Len(r)
          PROVE  a[i] < r[j]
      <3>1. r[j] = q[j + 1] /\ j + 1 \in 1 .. Len(q) /\ 1 < j + 1
        BY <1>4, <2>0
      <3>2. \/ i \in 1 .. Len(g) /\ a[i] = g[i]
            \/ i = Len(g) + 1 /\ a[i] = q[1]
        BY <1>4
      <3> QED BY <1>4, <3>1, <3>2 DEF OrderOK
    <2>3. \A i \in 1 .. Len(a) : a[i] <= n
      BY <1>1, <1>2, <1>3, <1>4 DEF OrderOK
    <2> QED BY <1>5, <2>1, <2>2, <2>3 DEF OrderOK
  <1> QED BY <1>5, <1>6 DEF r, a

\* The order survives the forwarding of the next event, whoever it is for.
LEMMA OrderForward ==
    ASSUME NEW g \in Seq(Nat), NEW q \in Seq(Nat), NEW n \in Nat,
           OrderOK(g, q, n)
    PROVE  OrderOK(g, q, n + 1) /\ OrderOK(g, Append(q, n + 1), n + 1)
PROOF
  <1> DEFINE a == Append(q, n + 1)
  <1>1. /\ Len(g) \in Nat /\ Len(q) \in Nat /\ Len(a) = Len(q) + 1
        /\ \A i \in 1 .. Len(a) : \/ i \in 1 .. Len(q) /\ a[i] = q[i]
                                  \/ i = Len(q) + 1 /\ a[i] = n + 1
    BY AppendProperties, SMTT(40)
  <1>2. /\ \A i \in 1 .. Len(g) : g[i] \in Nat
        /\ \A i \in 1 .. Len(q) : q[i] \in Nat
    BY ElementOfSeq
  <1> HIDE DEF a
  <1>3. OrderOK(g, q, n + 1)
    BY <1>1, <1>2, SMTT(40) DEF OrderOK
  <1>4. OrderOK(g, a, n + 1)
    <2>1. ASSUME NEW i \in 1 .. Len(a), NEW j \in 1 .. Len(a), i < j
          PROVE  a[i] < a[j]
      <3>1. i \in 1 .. Len(q) /\ a[i] = q[i] /\ q[i] \in Nat /\ q[i] <= n
        BY <1>1, <1>2, <2>1 DEF OrderOK
      <3>2. CASE j \in 1 .. Len(q) /\ a[j] = q[j]
        BY <2>1, <3>1, <3>2 DEF OrderOK
      <3>3. CASE j = Len(q) + 1 /\ a[j] = n + 1
        BY <3>1, <3>3
      <3> QED BY <1>1, <3>2, <3>3
    <2>2. ASSUME NEW i \in 1 .. Len(g), NEW j \in 1 .. Len(a)
          PROVE  g[i] < a[j]
      <3>1. g[i] \in Nat /\ g[i] <= n
        BY <1>2 DEF OrderOK
      <3>2. CASE j \in 1 .. Len(q) /\ a[j] = q[j]
        BY <3>2 DEF OrderOK
      <3>3. CASE j = Len(q) + 1 /\ a[j] = n + 1
        BY <3>1, <3>3
      <3> QED BY <1>1, <3>2, <3>3
    <2>3. ASSUME NEW i \in 1 .. Len(a) PROVE a[i] <= n + 1
      <3>1. CASE i \in 1 .. Len(q) /\ a[i] = q[i]
        BY <1>2, <3>1 DEF OrderOK
      <3>2. CASE i = Len(q) + 1 /\ a[i] = n + 1
        BY <3>2
      <3> QED BY <1>1, <3>1, <3>2
    <2> QED BY <1>3, <2>1, <2>2, <2>3 DEF OrderOK
  <1> QED BY <1>3, <1>4 DEF a

\* An ordered pair of sequences is one ordered sequence.
LEMMA OrderConcat ==
    ASSUME NEW g \in Seq(Nat), NEW q \in Seq(Nat), NEW n, OrderOK(g, q, n),
           NEW i \in 1 .. Len(g \o q), NEW j \in 1 .. Len(g \o q), i < j
    PROVE  (g \o q)[i] < (g \o q)[j]
PROOF
  <1>1. /\ Len(g) \in Nat /\ Len(q) \in Nat
        /\ Len(g \o q) = Len(g) + Len(q)
        /\ \A k \in 1 .. Len(g) + Len(q) :
              (g \o q)[k] = IF k <= Len(g) THEN g[k] ELSE q[k - Len(g)]
    BY ConcatProperties
  <1>2. CASE j <= Len(g)
    BY <1>1, <1>2 DEF OrderOK
  <1>3. CASE i <= Len(g) /\ ~(j <= Len(g))
    <2>1. i \in 1 .. Len(g) /\ j - Len(g) \in 1 .. Len(q)
      BY <1>1, <1>3
    <2> QED BY <1>1, <1>3, <2>1 DEF OrderOK
  <1>4. CASE ~(i <= Len(g))
    <2>1. /\ i - Len(g) \in 1 .. Len(q) /\ j - Len(g) \in 1 .. Len(q)
          /\ i - Len(g) < j - Len(g) /\ ~(j <= Len(g))
      BY <1>1, <1>4
    <2> QED BY <1>1, <1>4, <2>1 DEF OrderOK
  <1> QED BY <1>1, <1>2, <1>3, <1>4

\* Any step keeps the order.
LEMMA OrderStep == TInv /\ OrderInv /\ [Next]_vars => OrderInv'
PROOF
  <1> SUFFICES ASSUME TInv, OrderInv, [Next]_vars PROVE OrderInv'
    OBVIOUS
  <1>0. /\ Len(log) \in Nat
        /\ \A c \in Clients : got[c] \in Seq(Nat) /\ down[c].q \in Seq(Nat)
    BY DEF TInv, TypeOK, Pipe
  <1>1. CASE UNCHANGED <<got, down, log>>
    BY <1>1 DEF OrderInv
  <1>2. ASSUME NEW c \in Clients, HandleEvent(c) PROVE OrderInv'
    <2>1. /\ down[c].q # << >> /\ log' = log
          /\ down' = [down EXCEPT ![c] = Read(down[c])]
          /\ \/ got' = got
             \/ got' = [got EXCEPT ![c] = Append(got[c], Head(down[c].q))]
      BY <1>2 DEF HandleEvent
    <2>2. SUFFICES ASSUME NEW d \in Clients
                   PROVE  OrderOK(got[d], down[d].q, Len(log))'
      BY DEF OrderInv
    <2>3. OrderOK(got[d], down[d].q, Len(log))
      BY DEF OrderInv
    <2>4. CASE d # c
      <3>1. got'[d] = got[d] /\ down'[d] = down[d]
        BY <2>1, <2>4 DEF TInv, TypeOK
      <3> QED BY <2>1, <2>3, <3>1
    <2>5. CASE d = c
      <3>1. /\ down'[d].q = Tail(down[d].q)
            /\ got'[d] = got[d] \/ got'[d] = Append(got[d], Head(down[d].q))
        BY <2>1, <2>5 DEF TInv, TypeOK, Read
      <3> QED BY <1>0, <2>1, <2>3, <2>5, <3>1, OrderRead, ZenonT(40)
    <2> QED BY <2>4, <2>5
  <1>3. ASSUME NEW c \in Clients, Close(c) PROVE OrderInv'
    <2>1. /\ got' = got /\ log' = log
          /\ \A d \in Clients :
                down'[d].q = down[d].q \/ down'[d].q = << >>
      BY <1>3 DEF Close, NewPipe, TInv, TypeOK
    <2> QED BY <2>1, SMTT(40) DEF OrderInv, OrderOK
  <1>4. CASE ForwardEvent
    <2>1. PICK e : log' = Append(log, e)
      BY <1>4 DEF ForwardEvent
    <2>2. got' = got /\ Len(log') = Len(log) + 1
      BY <1>4, <2>1 DEF ForwardEvent, TInv, TypeOK
    <2>3. PICK late \in SUBSET Clients : \A d \in Clients :
             \/ down'[d] = Known(down, late)[d]
             \/ down'[d] = Write(Known(down, late)[d], Len(log) + 1)
      BY <1>4 DEF ForwardEvent
    <2>4. \A d \in Clients : \/ down'[d].q = down[d].q
                             \/ down'[d].q = Append(down[d].q, Len(log) + 1)
      <3> DEFINE pipes == Known(down, late)
      <3>1. \A d \in Clients : pipes[d].q = down[d].q
        BY PipesOK, KnownOK
      <3> HIDE DEF pipes
      <3>2. ASSUME NEW d \in Clients, NEW m
            PROVE  \/ Write(pipes[d], m).q = down[d].q
                   \/ Write(pipes[d], m).q = Append(down[d].q, m)
        BY <3>1 DEF Write
      <3> QED BY <2>3, <3>1, <3>2 DEF pipes
    <2> QED BY <1>0, <2>2, <2>4, OrderForward DEF OrderInv
  <1>5. CASE UNCHANGED vars
    BY <1>1, <1>5 DEF vars, eventVars
  <1>6. CASE Poll
    <2>1. /\ UNCHANGED <<got, log>>
          /\ \A d \in Clients : down'[d].q = down[d].q
      BY <1>6, PollSteps, PipesOK, KnownOK
    <2> QED BY <2>1 DEF OrderInv
  <1> QED BY <1>1, <1>2, <1>3, <1>4, <1>5, <1>6, ZenonT(40)
      DEF Next, Connect, Subscribe, Unsubscribe, PublishEvent, HandleTimeout,
          AttachPub, ReadSubscription, DetachSub, Begin, ForwardNote,
          eventVars

\* All clients receive events in the order of the proxy, none of them twice.
THEOREM AgreedOrderHolds == Spec => []AgreedOrder
PROOF
  <1>1. Init => OrderInv
    BY DEF Init, OrderInv, OrderOK, NewPipe
  <1>2. TInv /\ OrderInv => AgreedOrder
    <2> SUFFICES ASSUME TInv, OrderInv, NEW c \in Clients,
                        NEW i \in 1 .. Len(got[c] \o down[c].q),
                        NEW j \in 1 .. Len(got[c] \o down[c].q), i < j
                 PROVE  (got[c] \o down[c].q)[i] < (got[c] \o down[c].q)[j]
      BY DEF AgreedOrder
    <2>1. got[c] \in Seq(Nat) /\ down[c].q \in Seq(Nat)
      BY DEF TInv, TypeOK, Pipe
    <2>2. OrderOK(got[c], down[c].q, Len(log))
      BY DEF OrderInv
    <2> QED BY <2>1, <2>2, OrderConcat
  <1> QED BY <1>1, <1>2, TypeInit, TypeStep, OrderStep, PTL DEF Spec

-----------------------------------------------------------------------------
(* Losses.                                                                   *)

\* While the proxy has an event to forward, only the pipes of the clients it
\* found behind when it polled can look full.
BehindInv ==
    turn \in {"both", "event"} =>
        \A d \in Clients \ behind : ~Full(down[d])

\* Any step keeps it: a poll syncs the pipes but for those it misses, and from
\* then on clients only read.
LEMMA BehindStep == TInv /\ BehindInv /\ [Next]_vars => BehindInv'
PROOF
  <1> SUFFICES ASSUME TInv, BehindInv, [Next]_vars PROVE BehindInv'
    OBVIOUS
  <1>1. CASE UNCHANGED <<turn, behind, down>>
    BY <1>1 DEF BehindInv
  <1>2. ASSUME NEW c \in Clients, HandleEvent(c) PROVE BehindInv'
    <2>1. UNCHANGED <<turn, behind>> /\ down' = [down EXCEPT ![c] = Read(down[c])]
      BY <1>2 DEF HandleEvent, lossVars
    <2>2. Full(Read(down[c])) <=> Full(down[c])
      BY DEF Read, Full
    <2>3. \A d \in Clients : Full(down'[d]) <=> Full(down[d])
      BY <2>1, <2>2, PipesOK
    <2> QED BY <2>1, <2>3 DEF BehindInv
  <1>3. ASSUME NEW c \in Clients, Close(c) PROVE BehindInv'
    <2>1. UNCHANGED <<turn, behind>> /\ down' = [down EXCEPT ![c] = NewPipe]
      BY <1>3 DEF Close, lossVars
    <2>2. ~Full(NewPipe)
      BY HwmAssumption DEF NewPipe, Full
    <2>3. \A d \in Clients : Full(down'[d]) => Full(down[d])
      BY <2>1, <2>2, PipesOK
    <2> QED BY <2>1, <2>3 DEF BehindInv
  <1>4. CASE Poll
    <2>1. SUFFICES ASSUME turn' \in {"both", "event"}, NEW d \in Clients,
                          d \notin behind'
                   PROVE  ~Full(down'[d])
      BY DEF BehindInv
    <2>2. EventsWait
      BY <1>4, <2>1, PollSteps
    <2>3. PICK late \in SUBSET Clients : /\ down' = Known(down, late)
                                  /\ behind' = MayLookFull(late)
      BY <1>4, PollSteps
    <2>4. /\ ~(Len(down[d].q) > Hwm - Lwm)
          /\ d \in late => Sync(down[d]) = down[d]
      BY <2>1, <2>2, <2>3 DEF MayLookFull
    <2>5. down'[d] = Sync(down[d])
      BY <2>3, <2>4 DEF Known
    <2> QED BY <2>4, <2>5, PipesOK, FullMeansBehind
  <1>5. CASE ForwardEvent \/ ForwardNote
    BY <1>5 DEF ForwardEvent, ForwardNote, BehindInv
  <1>6. CASE UNCHANGED vars
    BY <1>1, <1>6 DEF vars, eventVars, lossVars
  <1> QED BY <1>1, <1>2, <1>3, <1>4, <1>5, <1>6, ZenonT(40)
      DEF Next, Connect, Subscribe, Unsubscribe, PublishEvent, HandleTimeout,
          AttachPub, ReadSubscription, DetachSub, Begin, eventVars, lossVars

\* A step that takes an event off the account of a client delivers it, is the
\* client's own waiver or drops it for a client that had more than Hwm - Lwm
\* events waiting when the proxy polled, or of whose acknowledgements that poll
\* missed one; what zmq_send knows does not matter.
THEOREM DropsHolds == Spec => DropsOnlyWhenBehind
PROOF
  <1> DEFINE Drop(o) == \/ o[2] \notin open' \/ table'[o[2]] # table[o[2]]
                        \/ Len(got'[o[2]]) > Len(got[o[2]])
                        \/ o[2] \in behind
  <1>1. ASSUME TInv, BehindInv, Next, NEW o \in owed \ owed' PROVE Drop(o)
    <2>0. owed' # owed /\ o[2] \in Clients
      BY <1>1 DEF TInv, TypeOK
    <2>1. ASSUME NEW c \in Clients, NEW t \in Types, Unsubscribe(c, t)
          PROVE  Drop(o)
      <3>1. o[2] = c
        BY <1>1, <2>1 DEF Unsubscribe
      <3>2. t \in table[c] /\ t \notin table'[c]
        BY <1>1, <2>1 DEF Unsubscribe, TInv, TypeOK
      <3> QED BY <3>1, <3>2
    <2>2. ASSUME NEW c \in Clients, NEW t \in Types, PublishEvent(c, t)
          PROVE  Drop(o)
      <3>1. owed \subseteq owed'
        BY <2>2 DEF PublishEvent
      <3> QED BY <1>1, <3>1
    <2>3. ASSUME NEW c \in Clients, HandleEvent(c) PROVE Drop(o)
      <3>1. /\ got' = [got EXCEPT ![c] = Append(got[c], Head(down[c].q))]
            /\ o[2] = c
        BY <1>1, <2>3 DEF HandleEvent
      <3>2. got[c] \in Seq(Nat) /\ got \in [Clients -> Seq(Nat)]
        BY <1>1 DEF TInv, TypeOK
      <3>3. Head(down[c].q) \in Nat
        BY <1>1, <2>3, PipesOK, HeadTailProperties DEF HandleEvent, Pipe
      <3>4. Len(Append(got[c], Head(down[c].q))) = Len(got[c]) + 1
            /\ Len(got[c]) \in Nat
        BY <3>2, <3>3, AppendProperties
      <3> QED BY <3>1, <3>2, <3>4
    <2>4. ASSUME NEW c \in Clients, Close(c) PROVE Drop(o)
      BY <1>1, <2>4 DEF Close
    <2>5. CASE ForwardEvent
      <3>1. PICK late \in SUBSET Clients : Full(Known(down, late)[o[2]])
        BY <1>1, <2>5 DEF ForwardEvent
      <3>2. Full(down[o[2]])
        BY <1>1, <2>0, <3>1, PipesOK, KnownOK
      <3>3. turn \in {"both", "event"}
        BY <2>5 DEF ForwardEvent
      <3> QED BY <1>1, <2>0, <3>2, <3>3 DEF BehindInv
    <2>6. CASE UNCHANGED owed
      BY <2>0, <2>6
    <2>7. CASE Poll
      BY <2>0, <2>7, PollSteps
    <2> HIDE DEF Drop
    <2> QED BY <1>1, <2>1, <2>2, <2>3, <2>4, <2>5, <2>6, <2>7
        DEF Next, Connect, Subscribe, HandleTimeout, AttachPub,
            ReadSubscription, DetachSub, Begin, ForwardNote, eventVars
  <1>2. TInv /\ BehindInv /\ [Next]_vars
           => [\A o \in owed \ owed' : Drop(o)]_vars
    BY <1>1
  <1>3. Init => BehindInv
    BY DEF Init, BehindInv
  <1> QED BY <1>2, <1>3, TypeInit, TypeStep, BehindStep, PTL
      DEF Spec, DropsOnlyWhenBehind

-----------------------------------------------------------------------------
(* The order of one publisher.                                               *)

\* Of the publisher c: l was forwarded, q is waiting, n is the last number
\* given to any event.
PubOK(l, q, c, n) ==
    /\ \A i, j \in 1 .. Len(l) :
          i < j /\ l[i].pub = c /\ l[j].pub = c => l[i].num < l[j].num
    /\ \A i, j \in 1 .. Len(q) : i < j => q[i].num < q[j].num
    /\ \A i \in 1 .. Len(l), j \in 1 .. Len(q) :
          l[i].pub = c => l[i].num < q[j].num
    /\ \A i \in 1 .. Len(l) : l[i].num <= n
    /\ \A i \in 1 .. Len(q) : q[i].pub = c /\ q[i].num <= n

PubInv == \A c \in Clients : PubOK(log, up[c].q, c, sent)

\* The elements of a sequence of events.
LEMMA EventFields ==
    ASSUME NEW q \in Seq(Event)
    PROVE  /\ Len(q) \in Nat
           /\ \A i \in 1 .. Len(q) : q[i].num \in Nat /\ q[i].pub \in Clients
                                     /\ q[i] \in Event
PROOF
  <1>1. \A i \in 1 .. Len(q) : q[i] \in Event
    BY ElementOfSeq
  <1> QED BY <1>1 DEF Event

\* A publication, by c or by another client.
LEMMA PubPublish ==
    ASSUME NEW l \in Seq(Event), NEW q \in Seq(Event), NEW c \in Clients,
           NEW n \in Nat, PubOK(l, q, c, n), NEW e \in Event
    PROVE  /\ PubOK(l, q, c, n + 1)
           /\ e.pub = c /\ e.num = n + 1 => PubOK(l, Append(q, e), c, n + 1)
PROOF
  <1>1. /\ Len(l) \in Nat /\ Len(q) \in Nat
        /\ \A i \in 1 .. Len(l) : l[i].num \in Nat
        /\ \A i \in 1 .. Len(q) : q[i].num \in Nat
    BY EventFields
  <1>2. PubOK(l, q, c, n + 1)
    BY <1>1 DEF PubOK
  <1>3. ASSUME e.pub = c, e.num = n + 1 PROVE PubOK(l, Append(q, e), c, n + 1)
    <2> DEFINE a == Append(q, e)
    <2>1. /\ Len(a) = Len(q) + 1
          /\ \A i \in 1 .. Len(a) : \/ i \in 1 .. Len(q) /\ a[i] = q[i]
                                    \/ i = Len(q) + 1 /\ a[i] = e
      BY AppendProperties
    <2> HIDE DEF a
    <2>2. ASSUME NEW i \in 1 .. Len(a), NEW j \in 1 .. Len(a), i < j
          PROVE  a[i].num < a[j].num
      <3>1. i # Len(q) + 1
        BY <1>1, <2>1, <2>2
      <3>2. i \in 1 .. Len(q) /\ a[i] = q[i]
        BY <2>1, <3>1
      <3>3. CASE j \in 1 .. Len(q) /\ a[j] = q[j]
        BY <2>2, <3>2, <3>3 DEF PubOK
      <3>4. CASE j = Len(q) + 1 /\ a[j] = e
        BY <1>1, <1>3, <3>2, <3>4 DEF PubOK
      <3> QED BY <2>1, <3>3, <3>4
    <2>3. ASSUME NEW i \in 1 .. Len(l), NEW j \in 1 .. Len(a), l[i].pub = c
          PROVE  l[i].num < a[j].num
      <3>1. CASE j \in 1 .. Len(q) /\ a[j] = q[j]
        BY <2>3, <3>1 DEF PubOK
      <3>2. CASE j = Len(q) + 1 /\ a[j] = e
        BY <1>1, <1>3, <3>2 DEF PubOK
      <3> QED BY <2>1, <3>1, <3>2
    <2>4. ASSUME NEW i \in 1 .. Len(a)
          PROVE  a[i].pub = c /\ a[i].num <= n + 1
      <3>1. CASE i \in 1 .. Len(q) /\ a[i] = q[i]
        BY <1>2, <3>1 DEF PubOK
      <3>2. CASE i = Len(q) + 1 /\ a[i] = e
        BY <1>3, <3>2
      <3> QED BY <2>1, <3>1, <3>2
    <2> QED BY <1>2, <2>2, <2>3, <2>4 DEF PubOK, a
  <1> QED BY <1>2, <1>3

\* The proxy forwards the next event of c, or one of another client.
LEMMA PubForward ==
    ASSUME NEW l \in Seq(Event), NEW q \in Seq(Event), NEW c \in Clients,
           NEW n \in Nat, PubOK(l, q, c, n), NEW e \in Event, e.num <= n
    PROVE  /\ e.pub # c => PubOK(Append(l, e), q, c, n)
           /\ q # << >> /\ e = Head(q) => PubOK(Append(l, e), Tail(q), c, n)
PROOF
  <1> DEFINE a == Append(l, e)
  <1>1. /\ Len(l) \in Nat /\ Len(q) \in Nat
        /\ \A i \in 1 .. Len(l) : l[i].num \in Nat
        /\ \A i \in 1 .. Len(q) : q[i].num \in Nat
    BY EventFields
  <1>2. /\ Len(a) = Len(l) + 1
        /\ \A i \in 1 .. Len(a) : \/ i \in 1 .. Len(l) /\ a[i] = l[i]
                                  \/ i = Len(l) + 1 /\ a[i] = e
    BY AppendProperties
  <1> HIDE DEF a
  <1>3. \A i \in 1 .. Len(a) : a[i].num <= n
    BY <1>2 DEF PubOK
  <1>4. ASSUME e.pub # c PROVE PubOK(a, q, c, n)
    <2>1. ASSUME NEW i \in 1 .. Len(a), a[i].pub = c
          PROVE  i \in 1 .. Len(l) /\ a[i] = l[i]
      BY <1>2, <1>4, <2>1
    <2>2. \A i, j \in 1 .. Len(a) :
             i < j /\ a[i].pub = c /\ a[j].pub = c => a[i].num < a[j].num
      BY <2>1 DEF PubOK
    <2>3. \A i \in 1 .. Len(a), j \in 1 .. Len(q) :
             a[i].pub = c => a[i].num < q[j].num
      BY <2>1 DEF PubOK
    <2> QED BY <1>3, <2>2, <2>3 DEF PubOK
  <1>5. ASSUME q # << >>, e = Head(q) PROVE PubOK(a, Tail(q), c, n)
    <2> DEFINE r == Tail(q)
    <2>1. /\ Len(r) = Len(q) - 1 /\ e = q[1] /\ Len(q) \in Nat \ {0}
          /\ \A i \in 1 .. Len(r) : r[i] = q[i + 1]
      BY <1>5, HeadTailProperties, EmptySeq
    <2>2. /\ \A i \in 1 .. Len(r) : /\ r[i] = q[i + 1]
                                    /\ i + 1 \in 1 .. Len(q) /\ 1 < i + 1
          /\ 1 \in 1 .. Len(q) /\ Len(r) \in Nat
      BY <2>1
    <2> HIDE DEF r
    <2>3. ASSUME NEW i \in 1 .. Len(a), NEW j \in 1 .. Len(a), i < j,
                 a[i].pub = c, a[j].pub = c
          PROVE  a[i].num < a[j].num
      <3>1. i # Len(l) + 1
        BY <1>1, <1>2, <2>3
      <3>2. i \in 1 .. Len(l) /\ a[i] = l[i]
        BY <1>2, <3>1
      <3>3. CASE j \in 1 .. Len(l) /\ a[j] = l[j]
        BY <2>3, <3>2, <3>3 DEF PubOK
      <3>4. CASE j = Len(l) + 1 /\ a[j] = e
        BY <2>1, <2>2, <2>3, <3>2, <3>4 DEF PubOK
      <3> QED BY <1>2, <3>3, <3>4
    <2>4. ASSUME NEW i \in 1 .. Len(a), NEW j \in 1 .. Len(r), a[i].pub = c
          PROVE  a[i].num < r[j].num
      <3>1. CASE i \in 1 .. Len(l) /\ a[i] = l[i]
        BY <2>2, <2>4, <3>1 DEF PubOK
      <3>2. CASE i = Len(l) + 1 /\ a[i] = e
        BY <2>1, <2>2, <3>2 DEF PubOK
      <3> QED BY <1>2, <3>1, <3>2
    <2>5. /\ \A i, j \in 1 .. Len(r) : i < j => r[i].num < r[j].num
          /\ \A i \in 1 .. Len(r) : r[i].pub = c /\ r[i].num <= n
      <3>1. \A i, j \in 1 .. Len(r) : i < j => i + 1 < j + 1
        BY <2>2
      <3> QED BY <2>2, <3>1 DEF PubOK
    <2> QED BY <1>3, <2>3, <2>4, <2>5 DEF PubOK, r
  <1> QED BY <1>4, <1>5 DEF a

\* What publish_event does to the pipe of events.
LEMMA PublishUp ==
    ASSUME NEW c \in Clients, NEW t \in Types, PublishEvent(c, t), TInv
    PROVE  LET e == [pub |-> c, num |-> sent + 1, type |-> t]
           IN  /\ \A d \in Clients \ {c} : up'[d] = up[d]
               /\ \/ up'[c].q = up[c].q /\ owed' = owed
                  \/ /\ up'[c].q = Append(up[c].q, e)
                     /\ owed' = owed \cup
                          {<<e, d>> : d \in {d \in open :
                             \E u \in Prefixes[t] : /\ u \in table[d]
                                                    /\ d \in xpub[u]
                                                    /\ Quiet(subs[d].q, u)}}
PROOF
  <1> DEFINE e == [pub |-> c, num |-> sent + 1, type |-> t]
             more == owed \cup {<<e, d>> : d \in {d \in open :
                             \E u \in Prefixes[t] : /\ u \in table[d]
                                                    /\ d \in xpub[u]
                                                    /\ Quiet(subs[d].q, u)}}
  <1>1. \E p : /\ p = up[c] \/ p = Sync(up[c])
               /\ \/ up' = [up EXCEPT ![c] = p] /\ owed' = owed
                  \/ /\ ~Full(p)
                     /\ up' = [up EXCEPT ![c] = Write(p, e)] /\ owed' = more
    BY DEF PublishEvent
  <1> HIDE DEF e, more
  <1>2. PICK p : /\ p = up[c] \/ p = Sync(up[c])
                 /\ \/ up' = [up EXCEPT ![c] = p] /\ owed' = owed
                    \/ /\ ~Full(p)
                       /\ up' = [up EXCEPT ![c] = Write(p, e)] /\ owed' = more
    BY <1>1
  <1>3. p.q = up[c].q
    BY <1>2 DEF Sync
  <1>4. ~Full(p) => Write(p, e).q = Append(up[c].q, e)
    BY <1>3 DEF Write
  <1>5. up \in [Clients -> Pipe(Event)]
    BY DEF TInv, TypeOK
  <1>6. \A d \in Clients \ {c} : up'[d] = up[d]
    BY <1>2, <1>5
  <1>7. \/ up'[c].q = up[c].q /\ owed' = owed
        \/ up'[c].q = Append(up[c].q, e) /\ owed' = more
    BY <1>2, <1>3, <1>4, <1>5
  <1> QED BY <1>6, <1>7 DEF e, more

\* What the forwarding of an event does.
LEMMA ForwardUp ==
    ASSUME ForwardEvent, TInv
    PROVE  \E c \in Clients :
              LET e == Head(up[c].q)
              IN  /\ up[c].q # << >>
                  /\ up'[c].q = Tail(up[c].q)
                  /\ \A d \in Clients \ {c} : up'[d] = up[d]
                  /\ e \in Event
                  /\ log' = Append(log, e)
PROOF
  <1>1. PICK c \in Clients : /\ up[c].q # << >>
                             /\ up' = [up EXCEPT ![c] = Read(up[c])]
                             /\ log' = Append(log, Head(up[c].q))
    BY DEF ForwardEvent
  <1>2. up \in [Clients -> Pipe(Event)] /\ up[c].q \in Seq(Event)
    BY DEF TInv, TypeOK, Pipe
  <1>3. Head(up[c].q) \in Event
    BY <1>1, <1>2, HeadTailProperties
  <1>4. up'[c].q = Tail(up[c].q)
    BY <1>1, <1>2 DEF Read
  <1> QED BY <1>1, <1>2, <1>3, <1>4

\* Any step keeps the order of every publisher.
LEMMA PubStep == TInv /\ PubInv /\ [Next]_vars => PubInv'
PROOF
  <1> SUFFICES ASSUME TInv, PubInv, [Next]_vars PROVE PubInv'
    OBVIOUS
  <1>0. /\ log \in Seq(Event) /\ sent \in Nat
        /\ \A c \in Clients : up[c].q \in Seq(Event)
    BY DEF TInv, TypeOK, Pipe
  <1>1. CASE UNCHANGED <<up, log, sent>>
    BY <1>1 DEF PubInv
  <1>2. ASSUME NEW c \in Clients, NEW t \in Types, PublishEvent(c, t)
        PROVE  PubInv'
    <2> DEFINE e == [pub |-> c, num |-> sent + 1, type |-> t]
    <2>1. e \in Event /\ e.pub = c /\ e.num = sent + 1
      BY <1>0 DEF Event
    <2>2. /\ log' = log /\ sent' = sent + 1
          /\ \A d \in Clients \ {c} : up'[d].q = up[d].q
          /\ up'[c].q = up[c].q \/ up'[c].q = Append(up[c].q, e)
      BY <1>2, PublishUp DEF PublishEvent
    <2> HIDE DEF e
    <2>3. SUFFICES ASSUME NEW d \in Clients
                   PROVE  PubOK(log, up'[d].q, d, sent + 1)
      BY <2>2 DEF PubInv
    <2>4. PubOK(log, up[d].q, d, sent)
      BY DEF PubInv
    <2>5. /\ PubOK(log, up[d].q, d, sent + 1)
          /\ d = c => PubOK(log, Append(up[d].q, e), d, sent + 1)
      BY <1>0, <2>1, <2>4, PubPublish
    <2> QED BY <2>2, <2>5
  <1>3. CASE ForwardEvent
    <2>1. PICK c \in Clients :
              /\ up[c].q # << >>
              /\ up'[c].q = Tail(up[c].q)
              /\ \A d \in Clients \ {c} : up'[d] = up[d]
              /\ Head(up[c].q) \in Event
              /\ log' = Append(log, Head(up[c].q))
      BY <1>3, ForwardUp
    <2> DEFINE e == Head(up[c].q)
    <2>2. e.pub = c /\ e.num <= sent
      <3>1. 1 \in 1 .. Len(up[c].q) /\ e = up[c].q[1]
        BY <1>0, <2>1, EmptySeq
      <3>2. PubOK(log, up[c].q, c, sent)
        BY DEF PubInv
      <3> QED BY <3>1, <3>2 DEF PubOK
    <2>3. sent' = sent
      BY <1>3 DEF ForwardEvent, counters
    <2>4. SUFFICES ASSUME NEW d \in Clients
                   PROVE  PubOK(log', up'[d].q, d, sent)
      BY <2>3 DEF PubInv
    <2>5. PubOK(log, up[d].q, d, sent)
      BY DEF PubInv
    <2> QED BY <1>0, <2>1, <2>2, <2>5, PubForward
  <1>4. CASE UNCHANGED vars
    BY <1>1, <1>4 DEF vars, eventVars, counters
  <1>5. CASE Poll
    BY <1>1, <1>5, PollSteps DEF counters
  <1> QED BY <1>1, <1>2, <1>3, <1>4, <1>5, ZenonT(40)
      DEF Next, Connect, Subscribe, Unsubscribe, HandleEvent, HandleTimeout,
          Close, AttachPub, ReadSubscription, DetachSub, Begin,
          ForwardNote, eventVars, counters

\* The bus starts without events.
LEMMA PubInit == Init => PubInv
  BY DEF Init, PubInv, PubOK, NewPipe

\* The proxy forwards the events of one publisher in the order in which it
\* published them, and none of them twice.
THEOREM PublisherOrderHolds == Spec => []PublisherOrder
PROOF
  <1>1. TInv /\ PubInv => PublisherOrder
    <2> SUFFICES ASSUME TInv, PubInv PROVE PublisherOrder
      OBVIOUS
    <2>1. \A i \in 1 .. Len(log) : log[i].pub \in Clients
      BY EventFields DEF TInv, TypeOK
    <2> QED BY <2>1 DEF PublisherOrder, PubInv, PubOK
  <1> QED BY <1>1, TypeInit, TypeStep, PubInit, PubStep, PTL DEF Spec

-----------------------------------------------------------------------------
(* No event is lost on its way.                                              *)

\* The subscription by which the client of the pair o is owed its event is
\* still in force, with no change of it under way.
InForce(o) ==
    \E u \in Prefixes[o[1].type] :
        u \in table[o[2]] /\ o[2] \in xpub[u] /\ Quiet(subs[o[2]].q, u)

InUp(o) == \E i \in 1 .. Len(up[o[1].pub].q) : up[o[1].pub].q[i] = o[1]
InDown(o) == \E i \in 1 .. Len(down[o[2]].q) : log[down[o[2]].q[i]] = o[1]

\* The places in the pipes to the clients are places in the log.
Places ==
    \A c \in Clients : \A i \in 1 .. Len(down[c].q) :
        down[c].q[i] \in 1 .. Len(log)

AccInv ==
    /\ open \cap gone = {}
    /\ Places
    /\ \A o \in owed : o[2] \in open /\ InForce(o) /\ (InUp(o) \/ InDown(o))

\* The end and the head of a sequence.
LEMMA AppendElement ==
    ASSUME NEW S, NEW q \in Seq(S), NEW e \in S
    PROVE  /\ Len(q) \in Nat /\ Len(Append(q, e)) = Len(q) + 1
           /\ \A i \in 1 .. Len(q) : /\ i \in 1 .. Len(Append(q, e))
                                     /\ Append(q, e)[i] = q[i]
           /\ Len(q) + 1 \in 1 .. Len(Append(q, e))
           /\ Append(q, e)[Len(q) + 1] = e
           /\ \A i \in 1 .. Len(Append(q, e)) :
                 i \in 1 .. Len(q) \/ i = Len(q) + 1
  BY AppendProperties

\* The elements of a sequence and of its tail.
LEMMA TailElement ==
    ASSUME NEW S, NEW q \in Seq(S), q # << >>
    PROVE  /\ 1 \in 1 .. Len(q) /\ Head(q) = q[1]
           /\ \A i \in 1 .. Len(q) :
                 i = 1 \/ (i - 1 \in 1 .. Len(Tail(q)) /\ Tail(q)[i - 1] = q[i])
           /\ \A i \in 1 .. Len(Tail(q)) :
                 i + 1 \in 1 .. Len(q) /\ Tail(q)[i] = q[i + 1]
PROOF
  <1>1. /\ Len(q) \in Nat \ {0} /\ Len(Tail(q)) = Len(q) - 1
        /\ \A i \in 1 .. Len(Tail(q)) : Tail(q)[i] = q[i + 1]
    BY HeadTailProperties, EmptySeq
  <1>2. \A i \in 1 .. Len(q) : i = 1 \/ i - 1 \in 1 .. Len(Tail(q))
    BY <1>1
  <1>3. \A i \in 1 .. Len(q) : i - 1 + 1 = i
    BY <1>1
  <1> QED BY <1>1, <1>2, <1>3

\* Nothing changes for a pair whose client keeps its subscription.
LEMMA InForceKept ==
    ASSUME NEW o, InForce(o), TInv, o[1].type \in Types,
           \A u \in Types :
              u \in table[o[2]] /\ o[2] \in xpub[u] /\ Quiet(subs[o[2]].q, u)
              /\ u \in Prefixes[o[1].type]
              => /\ u \in table'[o[2]] /\ o[2] \in xpub'[u]
                 /\ Quiet(subs'[o[2]].q, u)
    PROVE  InForce(o)'
PROOF
  <1>1. Prefixes[o[1].type] \subseteq Types
    BY BusTypesAssumption
  <1> QED BY <1>1 DEF InForce

\* A client changes a subscription.
LEMMA AccSetSockOpt ==
    ASSUME TInv, AccInv, NEW c \in Clients, NEW t \in Types,
           Subscribe(c, t) \/ Unsubscribe(c, t)
    PROVE  AccInv'
PROOF
  <1>1. PICK on \in BOOLEAN : SetSockOpt(c, t, on)
    BY DEF Subscribe, Unsubscribe
  <1>2. /\ open' = open /\ gone' = gone /\ log' = log /\ down' = down
        /\ up' = up /\ xpub' = xpub /\ owed' \subseteq owed
        /\ \A u \in Types \ {t} : \A d \in Clients :
              u \in table'[d] <=> u \in table[d]
        /\ \A d \in Clients \ {c} : table'[d] = table[d]
    BY ZenonT(40) DEF Subscribe, Unsubscribe, eventVars, TInv, TypeOK
  <1>3. \A d \in Clients \ {c} : subs'[d] = subs[d]
    BY <1>1 DEF SetSockOpt, TInv, TypeOK
  <1>4. ASSUME NEW u \in Types \ {t}, Quiet(subs[c].q, u)
        PROVE  Quiet(subs'[c].q, u)
    <2> DEFINE op == [on |-> on, type |-> t]
    <2>1. subs[c].q \in Seq(Op) /\ op \in Op /\ op.type = t
      BY PipesOK DEF Pipe, Op
    <2>2. subs'[c] = Write(subs[c], op)
      BY <1>1 DEF SetSockOpt, TInv, TypeOK
    <2> HIDE DEF op
    <2>3. subs'[c].q = subs[c].q \/ subs'[c].q = Append(subs[c].q, op)
      BY <2>2 DEF Write
    <2>4. \A i \in 1 .. Len(Append(subs[c].q, op)) :
             \/ i \in 1 .. Len(subs[c].q) /\ Append(subs[c].q, op)[i] = subs[c].q[i]
             \/ Append(subs[c].q, op)[i] = op
      BY <2>1, AppendElement
    <2> QED BY <1>4, <2>1, <2>3, <2>4 DEF Quiet
  <1>5. ASSUME NEW o \in owed' PROVE InForce(o)'
    <2>1. o \in owed /\ o[2] \in Clients /\ o[1] \in Event /\ o[1].type \in Types
      BY <1>2, <1>5 DEF TInv, TypeOK, Event
    <2>2. InForce(o)
      BY <2>1 DEF AccInv
    <2>3. CASE o[2] # c
      BY <1>2, <1>3, <2>1, <2>2, <2>3, InForceKept
    <2>4. CASE o[2] = c /\ Unsubscribe(c, t)
      <3>1. t \notin Prefixes[o[1].type]
        BY <1>5, <2>4 DEF Unsubscribe
      <3> QED BY <1>2, <1>4, <2>1, <2>2, <2>4, <3>1, InForceKept
    <2>5. CASE o[2] = c /\ Subscribe(c, t)
      <3>1. t \notin table[c]
        BY <2>5 DEF Subscribe
      <3> QED BY <1>2, <1>4, <2>1, <2>2, <2>5, <3>1, InForceKept
    <2> QED BY <2>3, <2>4, <2>5
  <1>6. \A o \in owed' : (InUp(o) \/ InDown(o))' /\ o[2] \in open'
    BY <1>2 DEF AccInv, InUp, InDown
  <1> QED BY <1>2, <1>5, <1>6 DEF AccInv, Places

\* A client publishes an event.
LEMMA AccPublish ==
    ASSUME TInv, AccInv, NEW c \in Clients, NEW t \in Types,
           PublishEvent(c, t)
    PROVE  AccInv'
PROOF
  <1> DEFINE e == [pub |-> c, num |-> sent + 1, type |-> t]
  <1>1. UNCHANGED <<open, gone, table, xpub, subs, down, log>>
    BY DEF PublishEvent, clientVars
  <1>2. e \in Event /\ e.pub = c /\ e.type = t /\ up[c].q \in Seq(Event)
    <2>1. sent + 1 \in Nat /\ up[c].q \in Seq(Event)
      BY DEF TInv, TypeOK, Pipe
    <2> QED BY <2>1 DEF Event
  <1>3. /\ \A d \in Clients \ {c} : up'[d] = up[d]
        /\ \/ up'[c].q = up[c].q /\ owed' = owed
           \/ /\ up'[c].q = Append(up[c].q, e)
              /\ owed' = owed \cup
                   {<<e, d>> : d \in {d \in open :
                      \E u \in Prefixes[t] : /\ u \in table[d]
                                             /\ d \in xpub[u]
                                             /\ Quiet(subs[d].q, u)}}
    BY PublishUp
  <1> HIDE DEF e
  <1>4. ASSUME NEW o \in owed' PROVE (o[2] \in open /\ InForce(o))'
    <2>1. o \in owed \/ (o[2] \in open /\ o[1] = e /\ InForce(o))
      BY <1>2, <1>3, <1>4 DEF InForce
    <2>2. o[2] \in open /\ InForce(o)
      BY <2>1 DEF AccInv
    <2> QED BY <1>1, <2>2 DEF InForce
  <1>5. ASSUME NEW o \in owed' PROVE (InUp(o) \/ InDown(o))'
    <2>1. CASE o \in owed
      <3>1. o[1].pub \in Clients
        BY <2>1 DEF TInv, TypeOK, Event
      <3>2. InUp(o) => InUp(o)'
        <4>1. \A i \in 1 .. Len(up[c].q) :
                 /\ i \in 1 .. Len(Append(up[c].q, e))
                 /\ Append(up[c].q, e)[i] = up[c].q[i]
          BY <1>2, AppendElement
        <4>2. CASE o[1].pub = c
          BY <1>3, <4>1, <4>2 DEF InUp
        <4>3. CASE o[1].pub # c
          BY <1>3, <3>1, <4>3 DEF InUp
        <4> QED BY <4>2, <4>3
      <3>3. InDown(o) => InDown(o)'
        BY <1>1 DEF InDown
      <3> QED BY <2>1, <3>2, <3>3 DEF AccInv
    <2>2. CASE o \notin owed
      <3>1. o[1] = e /\ up'[c].q = Append(up[c].q, e)
        BY <1>3, <1>5, <2>2
      <3> QED BY <1>2, <3>1, AppendElement, SMTT(40) DEF InUp
    <2> QED BY <2>1, <2>2
  <1> QED BY <1>1, <1>4, <1>5 DEF AccInv, Places

\* A client handles an event: what it reads and is owed, it gets.
LEMMA AccHandle ==
    ASSUME TInv, AccInv, NEW c \in Clients, HandleEvent(c)
    PROVE  AccInv'
PROOF
  <1> DEFINE pos == Head(down[c].q)
  <1>1. UNCHANGED <<open, gone, table, xpub, up, log>>
    BY DEF HandleEvent, clientVars
  <1>2. /\ down[c].q \in Seq(Nat) /\ down[c].q # << >>
        /\ down'[c].q = Tail(down[c].q)
        /\ \A d \in Clients \ {c} : down'[d] = down[d]
    BY PipesOK DEF HandleEvent, Read, Pipe
  <1>0. \A d \in Clients : subs'[d].q = subs[d].q
    BY PipesOK DEF HandleEvent, Sync
  <1>3. \/ owed' = owed \ {<<log[pos], c>>}
        \/ owed' = owed /\ ~Match(table[c], log[pos].type)
    BY DEF HandleEvent
  <1>4. /\ 1 \in 1 .. Len(down[c].q) /\ pos = down[c].q[1]
        /\ \A i \in 1 .. Len(down[c].q) :
              i = 1 \/ (i - 1 \in 1 .. Len(down'[c].q)
                        /\ down'[c].q[i - 1] = down[c].q[i])
        /\ \A i \in 1 .. Len(down'[c].q) :
              i + 1 \in 1 .. Len(down[c].q) /\ down'[c].q[i] = down[c].q[i + 1]
    BY <1>2, TailElement
  <1> HIDE DEF pos
  <1>5. Places'
    <2>1. SUFFICES ASSUME NEW d \in Clients, NEW i \in 1 .. Len(down'[d].q)
                   PROVE  down'[d].q[i] \in 1 .. Len(log)
      BY <1>1 DEF Places
    <2>2. \A j \in 1 .. Len(down[d].q) : down[d].q[j] \in 1 .. Len(log)
      BY DEF AccInv, Places
    <2>3. CASE d = c
      <3>1. i + 1 \in 1 .. Len(down[c].q) /\ down'[c].q[i] = down[c].q[i + 1]
        BY <1>4, <2>3
      <3> QED BY <2>2, <2>3, <3>1
    <2>4. CASE d # c
      BY <1>2, <2>2, <2>4
    <2> QED BY <2>3, <2>4
  <1>6. ASSUME NEW o \in owed' PROVE (o[2] \in open /\ InForce(o))'
    <2>1. o \in owed /\ o[2] \in Clients
      BY <1>3, <1>6 DEF TInv, TypeOK
    <2> QED BY <1>0, <1>1, <2>1 DEF AccInv, InForce
  <1>7. ASSUME NEW o \in owed' PROVE (InUp(o) \/ InDown(o))'
    <2>1. o \in owed /\ o \in Event \X Clients
      BY <1>3, <1>7 DEF TInv, TypeOK
    <2>2. InUp(o) \/ InDown(o)
      BY <2>1 DEF AccInv
    <2>3. InUp(o) => InUp(o)'
      BY <1>1 DEF InUp
    <2>4. CASE InDown(o) /\ o[2] # c
      BY <1>1, <1>2, <2>1, <2>4 DEF InDown
    <2>5. CASE InDown(o) /\ o[2] = c
      <3>1. PICK i \in 1 .. Len(down[c].q) : log[down[c].q[i]] = o[1]
        BY <2>5 DEF InDown
      <3>2. i # 1
        <4>1. SUFFICES ASSUME i = 1 PROVE FALSE
          OBVIOUS
        <4>2. o[1] = log[pos] /\ o = <<log[pos], c>>
          BY <1>4, <2>1, <2>5, <3>1, <4>1
        <4>3. ~Match(table[c], o[1].type)
          BY <1>3, <1>7, <4>2
        <4>4. InForce(o)
          BY <2>1 DEF AccInv
        <4> QED BY <2>5, <4>3, <4>4 DEF InForce, Match
      <3>3. i - 1 \in 1 .. Len(down'[c].q) /\ down'[c].q[i - 1] = down[c].q[i]
        BY <1>4, <3>2
      <3>4. log'[down'[o[2]].q[i - 1]] = o[1] /\ i - 1 \in 1 .. Len(down'[o[2]].q)
        BY <1>1, <2>5, <3>1, <3>3
      <3> QED BY <3>4 DEF InDown
    <2> QED BY <2>2, <2>3, <2>4, <2>5
  <1> QED BY <1>1, <1>5, <1>6, <1>7 DEF AccInv

\* XPUB applies a subscription.
LEMMA AccRead ==
    ASSUME TInv, AccInv, NEW c \in Clients, ReadSubscription(c)
    PROVE  AccInv'
PROOF
  <1> DEFINE op == Head(subs[c].q)
  <1>1. UNCHANGED <<open, gone, table, up, log, down, owed>>
    BY DEF ReadSubscription, clientVars, eventVars
  <1>2. /\ subs[c].q \in Seq(Op) /\ subs[c].q # << >>
        /\ subs'[c].q = Tail(subs[c].q)
        /\ \A d \in Clients \ {c} : subs'[d] = subs[d]
    BY PipesOK DEF ReadSubscription, Read, Pipe
  <1>3. /\ \A u \in Types \ {op.type} : xpub'[u] = xpub[u]
        /\ \A u \in Types : \A d \in Clients \ {c} :
              d \in xpub'[u] <=> d \in xpub[u]
    BY DEF ReadSubscription, TInv, TypeOK
  <1>4. ASSUME NEW u \in Types, Quiet(subs[c].q, u)
        PROVE  u # op.type /\ Quiet(subs'[c].q, u)
    BY <1>2, <1>4, TailElement DEF Quiet
  <1> HIDE DEF op
  <1>5. ASSUME NEW o \in owed PROVE InForce(o)'
    <2>1. o[2] \in Clients /\ o[1].type \in Types /\ InForce(o)
      BY DEF TInv, TypeOK, Event, AccInv
    <2> QED BY <1>1, <1>2, <1>3, <1>4, <2>1, InForceKept
  <1> QED BY <1>1, <1>5 DEF AccInv, Places, InUp, InDown

\* The proxy forwards an event: whoever it is owed to is among those XPUB
\* sends it to.
LEMMA AccForward ==
    ASSUME TInv, AccInv, ForwardEvent
    PROVE  AccInv'
PROOF
  <1>1. PICK c \in Clients, late \in SUBSET Clients :
        /\ up[c].q # << >>
        /\ up' = [up EXCEPT ![c] = Read(@)]
        /\ LET e == Head(up[c].q)
               pipes == Known(down, late)
               to == {d \in open : Match(XpubTypes(d), e.type)}
               full == {d \in to : Full(pipes[d])}
           IN  /\ log' = Append(log, e)
               /\ down' = [d \in Clients |->
                             IF d \in to THEN Write(pipes[d], Len(log) + 1)
                                         ELSE pipes[d]]
               /\ owed' = owed \ {<<e, d>> : d \in full}
    BY DEF ForwardEvent
  <1> DEFINE e == Head(up[c].q)
             pipes == Known(down, late)
             to(d) == d \in open /\ Match(XpubTypes(d), e.type)
  <1>2. UNCHANGED <<open, gone, table, xpub, subs>>
    BY DEF ForwardEvent, clientVars, ctlVars
  <1>3. /\ up[c].q \in Seq(Event) /\ e \in Event
        /\ up'[c].q = Tail(up[c].q)
        /\ \A d \in Clients \ {c} : up'[d] = up[d]
    BY <1>1, PipesOK, HeadTailProperties DEF Read, Pipe
  <1>4. /\ log \in Seq(Event) /\ Len(log) \in Nat /\ Len(log') = Len(log) + 1
        /\ log'[Len(log) + 1] = e
        /\ \A i \in 1 .. Len(log) : log'[i] = log[i]
    BY <1>1, <1>3, AppendElement DEF TInv, TypeOK
  <1>5. owed' \subseteq owed
        /\ \A d \in Clients : to(d) /\ Full(pipes[d]) => <<e, d>> \notin owed'
    BY <1>1
  <1>6. ASSUME NEW d \in Clients
        PROVE  /\ down[d].q \in Seq(Nat)
               /\ \/ down'[d].q = down[d].q
                  \/ down'[d].q = Append(down[d].q, Len(log) + 1)
               /\ to(d) /\ ~Full(pipes[d])
                     => down'[d].q = Append(down[d].q, Len(log) + 1)
    <2>1. down[d].q \in Seq(Nat)
      BY PipesOK DEF Pipe
    <2>2. down'[d] = IF to(d) THEN Write(pipes[d], Len(log) + 1)
                              ELSE pipes[d]
      BY <1>1
    <2>3. pipes[d].q = down[d].q
      BY PipesOK, KnownOK
    <2> HIDE DEF to, pipes
    <2>4. Write(pipes[d], Len(log) + 1).q =
             IF Full(pipes[d]) THEN down[d].q
             ELSE Append(down[d].q, Len(log) + 1)
      BY <2>3 DEF Write
    <2> QED BY <2>1, <2>2, <2>3, <2>4
  <1>7. Len(log) + 1 \in Nat
    BY <1>4
  <1>8. \A d \in Clients : \A i \in 1 .. Len(down'[d].q) :
           \/ i \in 1 .. Len(down[d].q) /\ down'[d].q[i] = down[d].q[i]
           \/ down'[d].q[i] = Len(log) + 1
    <2>1. SUFFICES ASSUME NEW d \in Clients, NEW i \in 1 .. Len(down'[d].q)
                   PROVE  \/ /\ i \in 1 .. Len(down[d].q)
                             /\ down'[d].q[i] = down[d].q[i]
                          \/ down'[d].q[i] = Len(log) + 1
      OBVIOUS
    <2>2. down[d].q \in Seq(Nat)
      BY <1>6
    <2>3. CASE down'[d].q = Append(down[d].q, Len(log) + 1)
      BY <1>7, <2>2, <2>3, AppendElement
    <2> QED BY <1>6, <2>3
  <1>9. Places'
    <2>1. SUFFICES ASSUME NEW d \in Clients, NEW i \in 1 .. Len(down'[d].q)
                   PROVE  down'[d].q[i] \in 1 .. Len(log) + 1
      BY <1>4 DEF Places
    <2>2. \A j \in 1 .. Len(down[d].q) : down[d].q[j] \in 1 .. Len(log)
      BY DEF AccInv, Places
    <2>3. CASE i \in 1 .. Len(down[d].q) /\ down'[d].q[i] = down[d].q[i]
      <3>1. down'[d].q[i] \in 1 .. Len(log)
        BY <2>2, <2>3
      <3> QED BY <1>4, <3>1
    <2>4. CASE down'[d].q[i] = Len(log) + 1
      BY <1>4, <2>4
    <2> QED BY <1>8, <2>3, <2>4
  <1>10. ASSUME NEW o \in owed' PROVE (o[2] \in open /\ InForce(o))'
    BY <1>2, <1>5, <1>10 DEF AccInv, InForce
  <1>11. ASSUME NEW o \in owed' PROVE (InUp(o) \/ InDown(o))'
    <2>1. /\ o \in owed /\ o \in Event \X Clients
          /\ o[1].pub \in Clients /\ o[1].type \in Types
      BY <1>5, <1>11 DEF TInv, TypeOK, Event
    <2>2. CASE InDown(o)
      <3>1. PICK i \in 1 .. Len(down[o[2]].q) : log[down[o[2]].q[i]] = o[1]
        BY <2>2 DEF InDown
      <3>2. down[o[2]].q[i] \in 1 .. Len(log)
        BY <2>1 DEF AccInv, Places
      <3>3. i \in 1 .. Len(down'[o[2]].q) /\ down'[o[2]].q[i] = down[o[2]].q[i]
        <4>1. o[2] \in Clients /\ down[o[2]].q \in Seq(Nat)
          BY <1>6, <2>1
        <4>2. CASE down'[o[2]].q = Append(down[o[2]].q, Len(log) + 1)
          BY <1>7, <4>1, <4>2, AppendElement
        <4> QED BY <1>6, <4>1, <4>2
      <3> QED BY <1>4, <3>1, <3>2, <3>3 DEF InDown
    <2>3. CASE InUp(o)
      <3>1. PICK i \in 1 .. Len(up[o[1].pub].q) : up[o[1].pub].q[i] = o[1]
        BY <2>3 DEF InUp
      <3>2. CASE o[1].pub # c
        BY <1>3, <2>1, <3>1, <3>2 DEF InUp
      <3>3. CASE o[1].pub = c /\ i # 1
        <4>1. /\ i - 1 \in 1 .. Len(Tail(up[c].q))
              /\ Tail(up[c].q)[i - 1] = up[c].q[i]
          BY <1>1, <1>3, <3>1, <3>3, TailElement
        <4>2. /\ i - 1 \in 1 .. Len(up'[o[1].pub].q)
              /\ up'[o[1].pub].q[i - 1] = o[1]
          BY <1>3, <3>1, <3>3, <4>1
        <4> QED BY <4>2 DEF InUp
      <3>4. CASE o[1].pub = c /\ i = 1
        <4>1. o[1] = e /\ o = <<e, o[2]>>
          BY <1>1, <1>3, <2>1, <3>1, <3>4, TailElement
        <4>2. to(o[2])
          <5>1. o[2] \in open /\ InForce(o)
            BY <2>1 DEF AccInv
          <5>2. PICK u \in Prefixes[o[1].type] : o[2] \in xpub[u]
            BY <5>1 DEF InForce
          <5>3. u \in Types
            BY <2>1, BusTypesAssumption
          <5> QED BY <4>1, <5>1, <5>2, <5>3 DEF Match, XpubTypes
        <4> HIDE DEF to, e, pipes
        <4>3. ~Full(pipes[o[2]])
          BY <1>5, <1>11, <2>1, <4>1, <4>2
        <4>4. down'[o[2]].q = Append(down[o[2]].q, Len(log) + 1)
              /\ down[o[2]].q \in Seq(Nat)
          BY <1>6, <2>1, <4>2, <4>3
        <4>5. \E j \in 1 .. Len(down'[o[2]].q) : down'[o[2]].q[j] = Len(log) + 1
          <5> DEFINE a == Append(down[o[2]].q, Len(log) + 1)
          <5>1. /\ Len(down[o[2]].q) + 1 \in 1 .. Len(a)
                /\ a[Len(down[o[2]].q) + 1] = Len(log) + 1
            BY <1>7, <4>4, AppendElement, SMTT(40)
          <5> HIDE DEF a
          <5>2. \E j \in 1 .. Len(a) : a[j] = Len(log) + 1
            BY <5>1
          <5> QED BY <4>4, <5>2 DEF a
        <4> QED BY <1>4, <4>1, <4>5 DEF InDown
      <3> QED BY <3>2, <3>3, <3>4
    <2> QED BY <2>1, <2>2, <2>3 DEF AccInv
  <1> QED BY <1>2, <1>9, <1>10, <1>11 DEF AccInv

\* Any step keeps the account.
LEMMA AccStep == TInv /\ AccInv /\ [Next]_vars => AccInv'
PROOF
  <1> SUFFICES ASSUME TInv, AccInv, [Next]_vars PROVE AccInv'
    OBVIOUS
  <1>1. ASSUME UNCHANGED <<table, xpub, up, log, down, owed>>,
               open \subseteq open', (open \cap gone = {})',
               \A d \in Clients : subs'[d].q = subs[d].q
        PROVE  AccInv'
    <2>1. \A o \in owed : o[2] \in Clients
      BY DEF TInv, TypeOK
    <2> QED BY <1>1, <2>1 DEF AccInv, Places, InForce, InUp, InDown
  <1>2. CASE UNCHANGED vars
    BY <1>2 DEF vars, clientVars, ctlVars, eventVars, AccInv, Places, InForce,
       InUp, InDown
  <1>3. ASSUME NEW c \in Clients, Connect(c) PROVE AccInv'
    BY <1>1, <1>3 DEF Connect, AccInv, ctlVars, eventVars
  <1>4. ASSUME NEW c \in Clients, HandleTimeout(c) PROVE AccInv'
    <2>1. \A d \in Clients : subs'[d].q = subs[d].q
      BY <1>4, PipesOK DEF HandleTimeout, Sync
    <2> QED BY <1>1, <1>4, <2>1 DEF HandleTimeout, AccInv, clientVars,
               eventVars
  <1>5. ASSUME NEW c \in Clients, Close(c) PROVE AccInv'
    <2>1. /\ UNCHANGED <<xpub, up, log, subs>>
          /\ owed' = {o \in owed : o[2] # c}
          /\ \A d \in Clients \ {c} : down'[d] = down[d] /\ table'[d] = table[d]
          /\ down'[c].q = << >>
          /\ open' = open \ {c} /\ gone' = gone \cup {c}
      BY <1>5, PipesOK DEF Close, NewPipe, TInv, TypeOK
    <2>2. Places'
      BY <2>1 DEF AccInv, Places
    <2>3. \A o \in owed : o[2] \in Clients
      BY DEF TInv, TypeOK
    <2> QED BY <2>1, <2>2, <2>3, SMTT(40) DEF AccInv, InForce, InUp, InDown
  <1>6. ASSUME NEW c \in Clients, DetachSub(c) PROVE AccInv'
    <2>1. /\ UNCHANGED <<open, gone, table, subs, up, log, down, owed>>
          /\ \A u \in Types : \A d \in Clients \ {c} :
                d \in xpub[u] => d \in xpub'[u]
          /\ c \in gone
      BY <1>6 DEF DetachSub, clientVars, eventVars
    <2>2. ASSUME NEW o \in owed PROVE InForce(o)'
      <3>1. o[2] \in Clients \ {c} /\ o[1].type \in Types /\ InForce(o)
        BY <2>1 DEF TInv, TypeOK, Event, AccInv
      <3> QED BY <2>1, <3>1, InForceKept
    <2> QED BY <2>1, <2>2 DEF AccInv, Places, InUp, InDown
  <1>7. ASSUME NEW c \in Clients, AttachPub(c) PROVE AccInv'
    BY <1>1, <1>7 DEF AttachPub, AccInv, clientVars, eventVars
  <1>8. CASE Begin \/ ForwardNote
    BY <1>1, <1>8 DEF Begin, ForwardNote, AccInv, clientVars, ctlVars,
       eventVars
  <1>9. CASE Poll
    <2>1. /\ UNCHANGED <<open, gone, table, xpub, subs, up, log, owed>>
          /\ \A d \in Clients : down'[d].q = down[d].q
      BY <1>9, PollSteps, PipesOK, KnownOK DEF clientVars
    <2>2. ASSUME NEW o \in owed PROVE InForce(o)' = InForce(o)
      BY <2>1 DEF InForce
    <2>3. ASSUME NEW o \in owed PROVE InUp(o)' = InUp(o) /\ InDown(o)' = InDown(o)
      <3>1. o[2] \in Clients
        BY <2>3 DEF TInv, TypeOK
      <3> QED BY <2>1, <3>1 DEF InUp, InDown
    <2>4. Places'
      BY <2>1 DEF AccInv, Places
    <2> QED BY <2>1, <2>2, <2>3, <2>4 DEF AccInv
  <1> QED BY <1>2, <1>3, <1>4, <1>5, <1>6, <1>7, <1>8, <1>9, AccSetSockOpt,
             AccPublish, AccHandle, AccRead, AccForward DEF Next

\* Every accepted event a client is owed is in one of the pipes on the way to
\* it until it is handed over, waived or dropped by a full pipe.
THEOREM AccountedHolds == Spec => []Accounted
PROOF
  <1>1. Init => AccInv
    BY DEF Init, AccInv, Places, NewPipe
  <1>2. AccInv => Accounted
    BY DEF AccInv, Accounted, InUp, InDown
  <1> QED BY <1>1, <1>2, TypeInit, TypeStep, AccStep, PTL DEF Spec

-----------------------------------------------------------------------------
(* The bus implements Broadcast.                                             *)

\* What the senders' pipes hold, as Broadcast sees it.
Waiting == [d \in Clients |-> up[d].q]

\* Broadcast's view of an event that is being sent, put into order or received.
LEMMA PromiseSend ==
    ASSUME TInv, NEW c \in Clients, NEW t \in Types, PublishEvent(c, t)
    PROVE  [Promise!Next]_(Promise!vars)
PROOF
  <1> DEFINE e == [pub |-> c, num |-> sent + 1, type |-> t]
  <1>1. /\ \A d \in Clients \ {c} : up'[d] = up[d]
        /\ up'[c].q = up[c].q \/ up'[c].q = Append(up[c].q, e)
        /\ log' = log /\ got' = got
    BY PublishUp DEF PublishEvent
  <1>2. e \in [pub : Clients, num : 1 .. MaxPublish, type : Types]
    BY BusBoundsAssumption DEF PublishEvent, TInv, TypeOK
  <1> HIDE DEF e
  <1>3. CASE up'[c].q = up[c].q
    <2>1. Waiting' = Waiting
      BY <1>1, <1>3 DEF Waiting
    <2> QED BY <1>1, <2>1 DEF Waiting, Promise!vars
  <1>4. CASE up'[c].q = Append(up[c].q, e)
    <2>1. Waiting' = [Waiting EXCEPT ![c] = Append(@, e)]
      BY <1>1, <1>4 DEF Waiting
    <2>2. Promise!Send(c)
      BY <1>1, <1>2, <2>1 DEF Waiting, Promise!Send
    <2> QED BY <2>2 DEF Promise!Next
  <1> QED BY <1>1, <1>3, <1>4

\* When the proxy takes an event it gets its place in the agreed order.
LEMMA PromiseOrder ==
    ASSUME TInv, ForwardEvent
    PROVE  [Promise!Next]_(Promise!vars)
PROOF
  <1>1. PICK c \in Clients : /\ up[c].q # << >>
                             /\ up'[c].q = Tail(up[c].q)
                             /\ \A d \in Clients \ {c} : up'[d] = up[d]
                             /\ log' = Append(log, Head(up[c].q))
    BY ForwardUp
  <1>2. got' = got
    BY DEF ForwardEvent
  <1>3. Waiting' = [Waiting EXCEPT ![c] = Tail(@)]
    BY <1>1 DEF Waiting
  <1>4. Promise!Order(c)
    BY <1>1, <1>2, <1>3 DEF Waiting, Promise!Order
  <1> QED BY <1>4 DEF Promise!Next

\* When a client takes an event it gets the next place, or passes over it.
LEMMA PromiseDeliver ==
    ASSUME TInv, OrderInv, Places, NEW c \in Clients, HandleEvent(c)
    PROVE  [Promise!Next]_(Promise!vars)
PROOF
  <1> DEFINE pos == Head(down[c].q)
  <1>1. /\ up' = up /\ log' = log
        /\ got' = got \/ got' = [got EXCEPT ![c] = Append(@, pos)]
        /\ down[c].q # << >>
    BY DEF HandleEvent
  <1>2. Waiting' = Waiting
    BY <1>1 DEF Waiting
  <1>3. down[c].q \in Seq(Nat)
    BY DEF TInv, TypeOK, Pipe
  <1>4. pos = down[c].q[1] /\ 1 \in 1 .. Len(down[c].q)
    BY <1>1, <1>3, HeadTailProperties, EmptySeq
  <1>5. pos \in 1 .. Len(log)
    BY <1>4 DEF Places
  <1>6. \A j \in 1 .. Len(got[c]) : got[c][j] < pos
    BY <1>4 DEF OrderInv, OrderOK
  <1> HIDE DEF pos
  <1>7. CASE got' = got
    BY <1>1, <1>2, <1>7 DEF Waiting, Promise!vars
  <1>8. CASE got' = [got EXCEPT ![c] = Append(@, pos)]
    <2>1. \E i \in 1 .. Len(log) :
             /\ \A j \in 1 .. Len(got[c]) : got[c][j] < i
             /\ got' = [got EXCEPT ![c] = Append(@, i)]
      BY <1>5, <1>6, <1>8, Zenon
    <2>2. UNCHANGED <<Waiting, log>>
      BY <1>1, <1>2
    <2>3. Promise!Deliver(c)
      BY <2>1, <2>2, Zenon DEF Waiting, Promise!Deliver
    <2> QED BY <2>3, Zenon DEF Promise!Next
  <1> QED BY <1>1, <1>7, <1>8

\* The event bus, with its four kinds of pipes, three copies of the subscriptions
\* and the proxy, is a broadcast for its clients: every step of EventBus sends an
\* event, puts one into the common order, hands one out, or is none of their
\* concern.
THEOREM BroadcastHolds == Spec => ImplementsBroadcast
PROOF
  <1>1. Init => Promise!Init
    BY DEF Init, Promise!Init, NewPipe
  <1>2. TInv /\ OrderInv /\ AccInv /\ [Next]_vars => [Promise!Next]_(Promise!vars)
    <2> SUFFICES ASSUME TInv, OrderInv, AccInv, [Next]_vars
                 PROVE  [Promise!Next]_(Promise!vars)
      OBVIOUS
    <2>1. Places
      BY DEF AccInv
    <2>2. CASE UNCHANGED <<up, log, got>>
      BY <2>2 DEF Promise!vars
    <2>3. CASE UNCHANGED vars
      BY <2>2, <2>3 DEF vars, eventVars
    <2>4. ASSUME NEW c \in Clients, Connect(c) \/ HandleTimeout(c) \/ Close(c)
          PROVE  UNCHANGED <<up, log, got>>
      BY <2>4 DEF Connect, HandleTimeout, Close, eventVars
    <2>5. ASSUME NEW c \in Clients, NEW t \in Types,
                 Subscribe(c, t) \/ Unsubscribe(c, t)
          PROVE  UNCHANGED <<up, log, got>>
      BY <2>5 DEF Subscribe, Unsubscribe, eventVars
    <2>6. ASSUME NEW c \in Clients,
                 AttachPub(c) \/ ReadSubscription(c) \/ DetachSub(c)
          PROVE  UNCHANGED <<up, log, got>>
      BY <2>6 DEF AttachPub, ReadSubscription, DetachSub, eventVars
    <2>7. ASSUME Begin \/ Poll \/ ForwardNote
          PROVE  UNCHANGED <<up, log, got>>
      BY <2>7, PollSteps DEF Begin, ForwardNote, eventVars
    <2> QED BY <2>1, <2>2, <2>3, <2>4, <2>5, <2>6, <2>7, PromiseSend,
               PromiseOrder, PromiseDeliver DEF Next
  <1>3. Init => OrderInv
    BY DEF Init, OrderInv, OrderOK, NewPipe
  <1>4. Init => AccInv
    BY DEF Init, AccInv, Places, NewPipe
  <1> QED BY <1>1, <1>2, <1>3, <1>4, TypeInit, TypeStep, OrderStep, AccStep, PTL
      DEF Spec, ImplementsBroadcast, Promise!Spec
=============================================================================

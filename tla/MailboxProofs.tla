---------------------------- MODULE MailboxProofs ----------------------------
(* The mailbox is a queue that loses no wake-up, for any number of senders,    *)
(* any size of chunk and any number of commands.                               *)
EXTENDS Mailbox, SequenceTheorems, TLAPS

-----------------------------------------------------------------------------
(* Places in a sequence of chunks.                                             *)

\* Place and Back, of a given queue.
PlaceOf(ch, i) == <<ch[i \div N + 1], i % N>>
BackOf(ch, e) == (Len(ch) - 1) * N + e - 1

\* No chunk is in the queue twice.
Distinct(ch) == \A i, j \in 1 .. Len(ch) : ch[i] = ch[j] => i = j

\* Chunks hold more than one command.
LEMMA NType == N \in Nat /\ N > 1
  BY GranularityAssumption

\* Multiplication by the length of a chunk.
LEMMA Times ==
    ASSUME NEW a \in Nat, NEW b \in Nat, a < b
    PROVE  a * N + N <= b * N /\ a * N \in Nat /\ b * N \in Nat
PROOF
  <1>1. PICK d \in Nat : b = a + 1 + d
    <2>1. b - a - 1 \in Nat /\ b = a + 1 + (b - a - 1)
      OBVIOUS
    <2> QED BY <2>1
  <1>2. b * N = a * N + N + d * N
    BY <1>1, NType, Z3
  <1>3. d * N \in Nat /\ a * N \in Nat
    BY <1>1, NType, Z3
  <1> QED BY <1>2, <1>3, NType

\* Quotient and remainder by the length of a chunk.
LEMMA Division ==
    ASSUME NEW i \in Nat
    PROVE  /\ i \div N \in Nat /\ i % N \in 0 .. N - 1
           /\ i = (i \div N) * N + (i % N) /\ (i \div N) * N \in Nat
  BY NType, Z3

\* Quotient and remainder are unique.
LEMMA DivisionUnique ==
    ASSUME NEW q \in Nat, NEW x \in 0 .. N - 1, NEW p \in Nat, NEW y \in 0 .. N - 1,
           q * N + x = p * N + y
    PROVE  q = p /\ x = y
PROOF
  <1>1. q * N \in Nat /\ p * N \in Nat /\ x \in Nat /\ y \in Nat /\ x < N /\ y < N
    BY NType, Z3
  <1>2. CASE q < p
    BY <1>1, <1>2, Times, NType
  <1>3. CASE p < q
    BY <1>1, <1>3, Times, NType
  <1>4. CASE q = p
    BY <1>1, <1>4
  <1> QED BY <1>2, <1>3, <1>4

\* One chunk further down.
LEMMA DivisionShift ==
    ASSUME NEW i \in Nat, i >= N
    PROVE  /\ i - N \in Nat /\ i \div N >= 1
           /\ (i - N) \div N = i \div N - 1 /\ (i - N) % N = i % N
PROOF
  <1> DEFINE q == i \div N
             x == i % N
             p == (i - N) \div N
             y == (i - N) % N
  <1>1. i - N \in Nat
    BY NType
  <1>2. q \in Nat /\ x \in 0 .. N - 1 /\ i = q * N + x /\ q * N \in Nat
    BY Division
  <1>3. p \in Nat /\ y \in 0 .. N - 1 /\ i - N = p * N + y /\ p * N \in Nat
    BY <1>1, Division
  <1> HIDE DEF q, x, p, y
  <1>4. (p + 1) * N = p * N + N
    BY <1>3, NType, Z3
  <1>5. q * N + x = (p + 1) * N + y
    BY <1>2, <1>3, <1>4, NType
  <1>6. q = p + 1 /\ x = y
    BY <1>2, <1>3, <1>5, DivisionUnique
  <1> QED BY <1>1, <1>2, <1>3, <1>6 DEF q, x, p, y

\* A slot below the end of l chunks is in one of them.
LEMMA DivisionBound ==
    ASSUME NEW i \in Nat, NEW l \in Nat, i < l * N
    PROVE  i \div N + 1 \in 1 .. l
PROOF
  <1> DEFINE q == i \div N
             x == i % N
  <1>1. q \in Nat /\ x \in 0 .. N - 1 /\ i = q * N + x /\ q * N \in Nat
    BY Division
  <1> HIDE DEF q, x
  <1>2. l * N \in Nat
    BY NType, Z3
  <1>3. CASE q >= l
    <2>1. l * N <= q * N
      <3>1. CASE q = l
        BY <3>1, <1>1
      <3>2. CASE l < q
        BY <3>2, <1>1, Times, NType
      <3> QED BY <1>1, <1>3, <3>1, <3>2
    <2> QED BY <1>1, <1>2, <2>1
  <1>4. CASE q < l
    BY <1>1, <1>4 DEF q
  <1> QED BY <1>1, <1>3, <1>4

\* A slot of the queue has an address, in one of its chunks.
LEMMA PlaceIn ==
    ASSUME NEW ch \in Seq(Chunks), NEW i \in Nat, i < Len(ch) * N
    PROVE  /\ i \div N + 1 \in 1 .. Len(ch)
           /\ PlaceOf(ch, i) \in Addr
           /\ PlaceOf(ch, i) # None
           /\ PlaceOf(ch, i)[1] \in {ch[k] : k \in 1 .. Len(ch)}
PROOF
  <1>1. i \div N + 1 \in 1 .. Len(ch) /\ i % N \in 0 .. N - 1
    BY DivisionBound, Division, LenProperties
  <1>2. ch[i \div N + 1] \in Chunks
    BY <1>1, ElementOfSeq
  <1>3. PlaceOf(ch, i) \in Chunks \X (0 .. N - 1)
    BY <1>1, <1>2 DEF PlaceOf
  <1> QED BY <1>1, <1>2, <1>3, MailboxNoneAssumption DEF PlaceOf, Addr

\* Different slots have different addresses, since no chunk is there twice.
LEMMA PlaceInjective ==
    ASSUME NEW ch \in Seq(Chunks), Distinct(ch),
           NEW i \in Nat, i < Len(ch) * N, NEW j \in Nat, j < Len(ch) * N,
           PlaceOf(ch, i) = PlaceOf(ch, j)
    PROVE  i = j
PROOF
  <1>1. i \div N + 1 \in 1 .. Len(ch) /\ j \div N + 1 \in 1 .. Len(ch)
    BY PlaceIn
  <1>2. ch[i \div N + 1] = ch[j \div N + 1] /\ i % N = j % N
    BY DEF PlaceOf
  <1>3. i \div N + 1 = j \div N + 1
    BY <1>1, <1>2 DEF Distinct
  <1>4. i \div N \in Nat /\ j \div N \in Nat
    BY Division
  <1>5. i \div N = j \div N
    BY <1>3, <1>4
  <1> QED BY <1>2, <1>5, Division

\* Addresses stay what they are when pop frees the first chunk.
LEMMA PlaceTail ==
    ASSUME NEW ch \in Seq(Chunks), NEW i \in Nat, i >= N, i < Len(ch) * N
    PROVE  PlaceOf(Tail(ch), i - N) = PlaceOf(ch, i)
PROOF
  <1>1. i \div N + 1 \in 1 .. Len(ch)
    BY PlaceIn
  <1>2. /\ i \div N \in Nat /\ i \div N >= 1
        /\ (i - N) \div N = i \div N - 1 /\ (i - N) % N = i % N
    BY DivisionShift, Division
  <1> DEFINE q == i \div N
  <1>3. ch # << >> /\ q \in 1 .. Len(ch) - 1
    BY <1>1, <1>2, EmptySeq
  <1>4. Tail(ch)[q] = ch[q + 1]
    BY <1>3, HeadTailProperties
  <1>5. (i - N) \div N + 1 = q
    BY <1>2
  <1> QED BY <1>2, <1>4, <1>5 DEF PlaceOf

\* Addresses stay what they are when push adds a chunk.
LEMMA PlaceAppend ==
    ASSUME NEW ch \in Seq(Chunks), NEW k \in Chunks, NEW i \in Nat, i < Len(ch) * N
    PROVE  PlaceOf(Append(ch, k), i) = PlaceOf(ch, i)
PROOF
  <1>1. i \div N + 1 \in 1 .. Len(ch)
    BY PlaceIn
  <1>2. Append(ch, k)[i \div N + 1] = ch[i \div N + 1]
    BY <1>1, AppendProperties
  <1> QED BY <1>2 DEF PlaceOf

-----------------------------------------------------------------------------
(* The end of the queue.                                                       *)

\* The slot at the back is in the last chunk.
LEMMA BackType ==
    ASSUME NEW ch \in Seq(Chunks), Len(ch) > 0, NEW e \in 0 .. N - 1
    PROVE  BackOf(ch, e) \in Int /\ BackOf(ch, e) < Len(ch) * N
PROOF
  <1> DEFINE l == Len(ch) - 1
  <1>1. l \in Nat /\ l < Len(ch) /\ Len(ch) \in Nat
    BY LenProperties
  <1>2. l * N + N <= Len(ch) * N /\ l * N \in Nat /\ Len(ch) * N \in Nat
    BY <1>1, Times
  <1> HIDE DEF l
  <1>3. BackOf(ch, e) = l * N + e - 1
    BY DEF BackOf, l
  <1> QED BY <1>2, <1>3, NType

\* push moves the back by one slot, into a new chunk when the last one is
\* full.
LEMMA BackGrows ==
    ASSUME NEW ch \in Seq(Chunks), Len(ch) > 0, NEW e \in 0 .. N - 1
    PROVE  /\ BackOf(ch, e + 1) = BackOf(ch, e) + 1
           /\ e + 1 = N => \A k \in Chunks : BackOf(Append(ch, k), 0) = BackOf(ch, e) + 1
PROOF
  <1> DEFINE l == Len(ch) - 1
  <1>1. l \in Nat /\ l * N \in Nat
    BY LenProperties, Times, NType
  <1>2. BackOf(ch, e + 1) = l * N + (e + 1) - 1 /\ BackOf(ch, e) = l * N + e - 1
    BY DEF BackOf
  <1>3. ASSUME e + 1 = N, NEW k \in Chunks
        PROVE  BackOf(Append(ch, k), 0) = BackOf(ch, e) + 1
    <2>1. Len(Append(ch, k)) - 1 = l + 1
      BY AppendProperties, LenProperties
    <2>2. (l + 1) * N = l * N + N
      BY <1>1, NType, Z3
    <2>3. BackOf(Append(ch, k), 0) = (l + 1) * N + 0 - 1
      BY <2>1 DEF BackOf
    <2> HIDE DEF l
    <2> QED BY <1>1, <1>2, <1>3, <2>2, <2>3, NType
  <1> HIDE DEF l
  <1> QED BY <1>1, <1>2, <1>3

\* When the first chunk goes, the back is that many slots less.
LEMMA BackTail ==
    ASSUME NEW ch \in Seq(Chunks), Len(ch) > 1, NEW e \in 0 .. N - 1
    PROVE  BackOf(Tail(ch), e) = BackOf(ch, e) - N
PROOF
  <1> DEFINE l == Len(ch) - 2
  <1>1. l \in Nat /\ l * N \in Nat
    BY LenProperties, NType, Z3
  <1>2. Len(Tail(ch)) - 1 = l /\ Len(ch) - 1 = l + 1
    BY HeadTailProperties, EmptySeq, LenProperties
  <1>3. (l + 1) * N = l * N + N
    BY <1>1, NType, Z3
  <1>4. BackOf(Tail(ch), e) = l * N + e - 1 /\ BackOf(ch, e) = (l + 1) * N + e - 1
    BY <1>2 DEF BackOf
  <1> HIDE DEF l
  <1> QED BY <1>1, <1>3, <1>4, NType

-----------------------------------------------------------------------------
(* The inductive invariant.                                                    *)

TypeInv ==
    /\ chunks \in Seq(Chunks) /\ Len(chunks) > 0
    /\ spare \in Chunks \cup {None}
    /\ begin_pos \in 0 .. N - 1 /\ end_pos \in 0 .. N - 1
    /\ mem \in [Addr -> Nat]
    /\ sync \in Senders \cup {None}
    /\ pc \in [Senders -> {"idle", "write", "flush", "set", "unlock", "signal"}]
    /\ ok \in [Senders -> BOOLEAN]
    /\ signals \in Nat
    /\ active \in BOOLEAN
    /\ rpc \in {"ready", "pop", "signalled", "took", "failed"}
    /\ sent \in Nat
    /\ got \in Seq(Nat)
    /\ alive \in BOOLEAN

\* A command was written that has not been flushed.
Unflushed == sync # None /\ pc[sync] \in {"flush", "set"}

\* How far the queue has been flushed.
Flushed == IF Unflushed THEN BackOf(chunks, end_pos) - 1 ELSE BackOf(chunks, end_pos)

\* Senders that have seen the receiver sleep and have not signalled yet.
Waking == {s \in Senders : pc[s] = "signal" \/ (pc[s] = "unlock" /\ ~ok[s])}

MutexInv ==
    \A s \in Senders : pc[s] \in {"write", "flush", "set", "unlock"} <=> sync = s

ChunksInv ==
    /\ Distinct(chunks)
    /\ \A k \in 1 .. Len(chunks) : chunks[k] # spare

\* Front <= r <= w <= f, in the order of the queue; c is w, or NULL.
PointerInv ==
    /\ f = PlaceOf(chunks, BackOf(chunks, end_pos))
    /\ begin_pos <= Flushed
    /\ w = PlaceOf(chunks, Flushed)
    /\ c \in {None, w}
    /\ \E i \in begin_pos .. Flushed : r = PlaceOf(chunks, i)
    /\ rpc = "pop" => r # PlaceOf(chunks, begin_pos)

\* Who knows that the receiver sleeps.
WakeInv ==
    /\ rpc # "failed"
    /\ \A s \in Senders : pc[s] = "set" => c = None
    /\ c = None => ~active /\ rpc = "ready" /\ signals = 0 /\ Flushed = begin_pos
    /\ c = None \/ active => Waking = {}
    /\ active => signals = 0 /\ rpc # "signalled"
    /\ ~active => rpc \in {"ready", "signalled"}
    /\ rpc = "signalled" => signals > 0
    /\ ~active /\ c # None => /\ begin_pos < Flushed
                              /\ \/ signals = 1 /\ Waking = {}
                                 \/ signals = 0 /\ Waking # {}
    /\ \A s, t \in Waking : s = t
    /\ rpc = "took" => begin_pos < Flushed

\* What is in the queue: the commands that follow those received.
ContentInv ==
    /\ sent = Len(got) + BackOf(chunks, end_pos) - begin_pos
    /\ sent <= MaxSends
    /\ \A s \in Senders : pc[s] = "write" => sent < MaxSends
    /\ \A i \in begin_pos .. BackOf(chunks, end_pos) - 1 :
          mem[PlaceOf(chunks, i)] = Len(got) + (i - begin_pos) + 1
    /\ \A i \in 1 .. Len(got) : got[i] = i

DestroyInv ==
    ~alive => sent = MaxSends /\ \A s \in Senders : pc[s] = "idle"

IInv == TypeInv /\ MutexInv /\ ChunksInv /\ PointerInv /\ WakeInv
        /\ ContentInv /\ DestroyInv

-----------------------------------------------------------------------------
(* Consequences of the invariant.                                              *)

\* The numbers of the slots, and their addresses.
LEMMA Basics ==
    ASSUME TypeInv, ChunksInv, PointerInv
    PROVE  /\ begin_pos \in Nat /\ begin_pos <= Flushed
           /\ Flushed \in Nat /\ BackOf(chunks, end_pos) \in Nat
           /\ Flushed <= BackOf(chunks, end_pos)
           /\ BackOf(chunks, end_pos) < Len(chunks) * N
           /\ \A i \in 0 .. BackOf(chunks, end_pos) :
                 /\ PlaceOf(chunks, i) \in Addr /\ PlaceOf(chunks, i) # None
                 /\ PlaceOf(chunks, i)[1] \in InUse
           /\ \A i, j \in 0 .. BackOf(chunks, end_pos) :
                 PlaceOf(chunks, i) = PlaceOf(chunks, j) => i = j
PROOF
  <1> DEFINE b == BackOf(chunks, end_pos)
  <1>1. b \in Int /\ b < Len(chunks) * N
    BY BackType DEF TypeInv
  <1>2. begin_pos \in Nat
    BY NType DEF TypeInv
  <1>3. begin_pos <= Flushed /\ Flushed \in Int /\ Flushed <= b
    BY <1>1 DEF PointerInv, Flushed
  <1>4. Len(chunks) * N \in Nat
    BY NType, LenProperties, Z3 DEF TypeInv
  <1>5. \A i \in 0 .. b : i \in Nat /\ i < Len(chunks) * N
    BY <1>1, <1>4
  <1> HIDE DEF b
  <1>6. \A i \in 0 .. b : /\ PlaceOf(chunks, i) \in Addr /\ PlaceOf(chunks, i) # None
                          /\ PlaceOf(chunks, i)[1] \in InUse
    BY <1>5, PlaceIn DEF TypeInv, InUse
  <1>7. \A i, j \in 0 .. b : PlaceOf(chunks, i) = PlaceOf(chunks, j) => i = j
    BY <1>5, PlaceInjective DEF TypeInv, ChunksInv
  <1> QED BY <1>1, <1>2, <1>3, <1>6, <1>7 DEF b

\* What the steps test: whether a pointer is at the front.
LEMMA AtFront ==
    ASSUME TypeInv, ChunksInv, PointerInv
    PROVE  /\ w # None /\ r # None /\ f # None
           /\ Place(Front) = PlaceOf(chunks, begin_pos)
           /\ Place(Back) = PlaceOf(chunks, BackOf(chunks, end_pos))
           /\ w = Place(Front) <=> Flushed = begin_pos
           /\ r # Place(Front) => begin_pos < Flushed
PROOF
  <1>1. Place(Front) = PlaceOf(chunks, begin_pos)
    BY DEF Place, Front, PlaceOf
  <1>2. Place(Back) = PlaceOf(chunks, BackOf(chunks, end_pos))
    BY DEF Place, Back, PlaceOf, BackOf
  <1>3. PICK i \in begin_pos .. Flushed : r = PlaceOf(chunks, i)
    BY DEF PointerInv
  <1>4. /\ begin_pos \in 0 .. BackOf(chunks, end_pos)
        /\ Flushed \in 0 .. BackOf(chunks, end_pos)
        /\ BackOf(chunks, end_pos) \in 0 .. BackOf(chunks, end_pos)
        /\ i \in 0 .. BackOf(chunks, end_pos)
        /\ i > begin_pos => begin_pos < Flushed
    BY <1>3, Basics
  <1>5. w = PlaceOf(chunks, Flushed) /\ f = PlaceOf(chunks, BackOf(chunks, end_pos))
    BY DEF PointerInv
  <1>6. w # None /\ r # None /\ f # None
    BY <1>3, <1>4, <1>5, Basics
  <1>7. w = Place(Front) <=> Flushed = begin_pos
    BY <1>1, <1>4, <1>5, Basics
  <1>8. r # Place(Front) => i # begin_pos
    BY <1>1, <1>3
  <1> QED BY <1>1, <1>2, <1>3, <1>4, <1>6, <1>7, <1>8, Basics

-----------------------------------------------------------------------------
\* The invariant holds for a new mailbox.
LEMMA InitInv == Init => IInv
PROOF
  <1> SUFFICES ASSUME Init PROVE IInv
    OBVIOUS
  <1>1. PICK k \in Chunks : chunks = <<k>> /\ w = <<k, 0>> /\ f = <<k, 0>> /\ r = <<k, 0>>
    BY DEF Init
  <1>2. chunks \in Seq(Chunks) /\ Len(chunks) = 1 /\ chunks[1] = k
    BY <1>1
  <1>3. 0 \div N = 0 /\ 0 % N = 0 /\ 0 * N = 0
    BY NType, Z3
  <1>4. BackOf(chunks, end_pos) = 0
    BY <1>2, <1>3 DEF BackOf, Init
  <1>5. PlaceOf(chunks, 0) = <<k, 0>>
    BY <1>2, <1>3 DEF PlaceOf
  <1>6. Flushed = 0
    BY <1>4 DEF Flushed, Unflushed, Init
  <1>7. TypeInv
    <2>1. begin_pos \in 0 .. N - 1 /\ end_pos \in 0 .. N - 1
      BY NType DEF Init
    <2>2. mem \in [Addr -> Nat] /\ got \in Seq(Nat) /\ signals \in Nat /\ sent \in Nat
      BY DEF Init
    <2>3. /\ pc \in [Senders -> {"idle", "write", "flush", "set", "unlock", "signal"}]
          /\ ok \in [Senders -> BOOLEAN]
      BY DEF Init
    <2>4. active \in BOOLEAN /\ alive \in BOOLEAN
      BY DEF Init
    <2>5. /\ spare \in Chunks \cup {None} /\ sync \in Senders \cup {None}
          /\ rpc \in {"ready", "pop", "signalled", "took", "failed"}
      BY DEF Init
    <2> QED BY <1>2, <2>1, <2>2, <2>3, <2>4, <2>5 DEF TypeInv
  <1>8. MutexInv
    BY MailboxNoneAssumption DEF MutexInv, Init
  <1>9. ChunksInv
    BY <1>2, MailboxNoneAssumption DEF ChunksInv, Distinct, Init
  <1>10. PointerInv
    BY <1>1, <1>4, <1>5, <1>6 DEF PointerInv, Init
  <1>11. Waking = {}
    BY DEF Waking, Init
  <1>12. WakeInv
    BY <1>6, <1>11 DEF WakeInv, Init
  <1>13. ContentInv
    BY <1>4, MaxSendsAssumption DEF ContentInv, Init
  <1>14. DestroyInv
    BY DEF DestroyInv, Init
  <1> QED BY <1>7, <1>8, <1>9, <1>10, <1>12, <1>13, <1>14 DEF IInv

-----------------------------------------------------------------------------
(* The steps of a sender that leave the queue alone.                           *)

\* mailbox_t::send takes the mutex.
LEMMA LockStep ==
    ASSUME IInv, NEW s \in Senders, Lock(s)
    PROVE  IInv' /\ Flushed' = Flushed
PROOF
  <1>0. s # None
    BY MailboxNoneAssumption
  <1>1. TypeInv'
    BY DEF IInv, TypeInv, Lock, queueVars, receiverVars
  <1>2. ~Unflushed /\ ~Unflushed' /\ Flushed' = Flushed
    BY <1>0 DEF IInv, TypeInv, Lock, queueVars, Unflushed, Flushed
  <1>3. Waking' = Waking
    BY DEF IInv, TypeInv, Lock, Waking
  <1>4. MutexInv'
    <2> SUFFICES ASSUME NEW t \in Senders
                 PROVE  pc'[t] \in {"write", "flush", "set", "unlock"} <=> sync' = t
      BY DEF MutexInv
    <2>1. sync = None /\ sync' = s /\ pc'[t] = IF t = s THEN "write" ELSE pc[t]
      BY DEF IInv, TypeInv, Lock
    <2>2. pc[t] \in {"write", "flush", "set", "unlock"} <=> sync = t
      BY DEF IInv, MutexInv
    <2>3. t # None
      BY MailboxNoneAssumption
    <2> QED BY <2>1, <2>2, <2>3
  <1>5. ChunksInv' /\ PointerInv'
    BY <1>2 DEF IInv, ChunksInv, PointerInv, Lock, queueVars, receiverVars
  <1>6. WakeInv'
    BY <1>2, <1>3 DEF IInv, TypeInv, WakeInv, Lock, queueVars, receiverVars
  <1>7. ContentInv' /\ DestroyInv'
    BY DEF IInv, TypeInv, ContentInv, DestroyInv, Lock, queueVars, receiverVars
  <1> QED BY <1>1, <1>2, <1>4, <1>5, <1>6, <1>7 DEF IInv

\* The step moves s on, inside the mutex.
LEMMA StaysInside ==
    ASSUME TypeInv, MutexInv, NEW s \in Senders, sync = s, sync' = s,
           NEW l \in {"flush", "set", "unlock"}, pc' = [pc EXCEPT ![s] = l]
    PROVE  MutexInv'
PROOF
  <1> SUFFICES ASSUME NEW t \in Senders
               PROVE  pc'[t] \in {"write", "flush", "set", "unlock"} <=> sync' = t
    BY DEF MutexInv
  <1>1. pc'[t] = IF t = s THEN l ELSE pc[t]
    BY DEF TypeInv
  <1>2. pc[t] \in {"write", "flush", "set", "unlock"} <=> sync = t
    BY DEF MutexInv
  <1> QED BY <1>1, <1>2

\* While s flushes, the last command is the only one that was not flushed.
LEMMA FlushFacts ==
    ASSUME IInv, NEW s \in Senders, pc[s] \in {"flush", "set"}
    PROVE  /\ s # None /\ sync = s
           /\ Unflushed /\ Flushed = BackOf(chunks, end_pos) - 1
           /\ begin_pos < BackOf(chunks, end_pos)
           /\ BackOf(chunks, end_pos) \in Nat /\ begin_pos \in Nat
           /\ \A t \in Senders : pc[t] = "set" => t = s
PROOF
  <1>1. s # None /\ sync = s /\ \A t \in Senders : pc[t] = "set" => sync = t
    BY MailboxNoneAssumption DEF IInv, MutexInv
  <1>2. Unflushed /\ Flushed = BackOf(chunks, end_pos) - 1
    BY <1>1 DEF Unflushed, Flushed
  <1>3. /\ begin_pos \in Nat /\ begin_pos <= Flushed
        /\ BackOf(chunks, end_pos) \in Nat
    BY Basics DEF IInv
  <1> QED BY <1>1, <1>2, <1>3

\* A flush, whether it finds the receiver awake or asleep.
LEMMA FlushStep ==
    ASSUME IInv, NEW s \in Senders, pc[s] \in {"flush", "set"},
           c' = f, w' = f, pc' = [pc EXCEPT ![s] = "unlock"],
           ok' = [ok EXCEPT ![s] = c # None],
           UNCHANGED <<queueVars, f, r, sync, sent, signals, receiverVars>>
    PROVE  IInv' /\ Flushed' = Flushed + 1
PROOF
  <1> DEFINE b == BackOf(chunks, end_pos)
  <1>0. /\ s # None /\ sync = s /\ sync' = s
        /\ Flushed = b - 1 /\ begin_pos < b /\ b \in Nat /\ begin_pos \in Nat
        /\ \A t \in Senders : pc[t] = "set" => t = s
    BY FlushFacts
  <1>1. b' = b /\ begin_pos' = begin_pos /\ chunks' = chunks
    BY DEF queueVars
  <1>2. ~Unflushed' /\ Flushed' = b
    BY <1>0, <1>1 DEF Unflushed, Flushed, IInv, TypeInv
  <1>3. f # None
    BY AtFront DEF IInv
  <1>4. TypeInv'
    <2>1. ok' \in [Senders -> BOOLEAN]
      BY DEF IInv, TypeInv
    <2> QED BY <2>1 DEF IInv, TypeInv, queueVars, receiverVars
  <1>5. MutexInv'
    BY <1>0, StaysInside DEF IInv
  <1>6. ChunksInv'
    BY DEF IInv, ChunksInv, queueVars
  <1>7. \A t \in Senders : pc'[t] = (IF t = s THEN "unlock" ELSE pc[t])
                           /\ ok'[t] = (IF t = s THEN c # None ELSE ok[t])
    BY DEF IInv, TypeInv
  <1>8. PointerInv'
    <2>1. PICK i \in begin_pos .. Flushed : r = PlaceOf(chunks, i)
      BY DEF IInv, PointerInv
    <2>2. i \in begin_pos .. b
      BY <1>0, <2>1
    <2>3. f = PlaceOf(chunks, b) /\ (rpc = "pop" => r # PlaceOf(chunks, begin_pos))
      BY DEF IInv, PointerInv
    <2>4. f' = f /\ r' = r /\ rpc' = rpc
      BY DEF receiverVars
    <2> HIDE DEF b
    <2>5. b = BackOf(chunks', end_pos')
      BY <1>1 DEF b
    <2> QED BY <1>0, <1>1, <1>2, <2>1, <2>2, <2>3, <2>4, <2>5 DEF PointerInv
  <1>9. Waking' = IF c = None THEN Waking \cup {s} ELSE Waking
    <2>1. CASE c = None
      <3>1. \A t \in Senders : t \in Waking' <=> t \in Waking \/ t = s
        BY <1>7, <2>1 DEF Waking
      <3> QED BY <2>1, <3>1 DEF Waking
    <2>2. CASE c # None
      <3>1. ok'[s] /\ pc'[s] = "unlock"
        BY <1>7, <2>2
      <3>2. s \notin Waking' /\ s \notin Waking
        BY <3>1 DEF Waking
      <3>3. \A t \in Senders \ {s} : pc'[t] = pc[t] /\ (ok'[t] <=> ok[t])
        BY <1>7
      <3>4. \A t \in Senders : t \in Waking' <=> t \in Waking
        BY <3>2, <3>3 DEF Waking
      <3> QED BY <2>2, <3>4 DEF Waking
    <2> QED BY <2>1, <2>2
  <1>10. WakeInv'
    <2> HIDE DEF b
    <2>1. /\ active' = active /\ rpc' = rpc /\ signals' = signals
          /\ c' # None /\ begin_pos' < Flushed'
      BY <1>0, <1>1, <1>2, <1>3 DEF receiverVars
    <2>2. \A t \in Senders : pc'[t] # "set"
      BY <1>0, <1>7
    <2>3. CASE c = None
      <3>1. Waking' = {s} /\ ~active /\ signals = 0 /\ rpc = "ready"
        BY <1>9, <2>3 DEF IInv, WakeInv
      <3> QED BY <2>1, <2>2, <3>1 DEF WakeInv
    <2>4. CASE c # None
      <3>1. Waking' = Waking
        BY <1>9, <2>4
      <3> QED BY <2>1, <2>2, <2>4, <3>1 DEF IInv, WakeInv
    <2> QED BY <2>3, <2>4
  <1>11. ContentInv' /\ DestroyInv'
    <2>1. \A t \in Senders : pc'[t] = "write" => pc[t] = "write"
      BY <1>7
    <2>2. ~alive => FALSE
      BY DEF IInv, DestroyInv
    <2> QED BY <1>1, <2>1, <2>2
            DEF IInv, ContentInv, DestroyInv, queueVars, receiverVars
  <1> HIDE DEF b
  <1> QED BY <1>0, <1>2, <1>4, <1>5, <1>6, <1>8, <1>10, <1>11 DEF IInv

\* ypipe_t::flush: the compare-and-swap of c.
LEMMA FlushStep1 ==
    ASSUME IInv, NEW s \in Senders, Flush(s)
    PROVE  /\ IInv'
           /\ \/ Flushed' = Flushed + 1 /\ w' = f
              \/ Flushed' = Flushed /\ w' = w
PROOF
  <1>1. CASE c = w
    <2>1. c # None
      BY <1>1, AtFront DEF IInv
    <2>2. ok' = [ok EXCEPT ![s] = c # None]
      BY <1>1, <2>1 DEF Flush
    <2> QED BY <1>1, <2>2, FlushStep DEF Flush
  <1>2. CASE c # w
    <2>1. c = None /\ pc[s] = "flush" /\ pc' = [pc EXCEPT ![s] = "set"]
      BY <1>2 DEF Flush, IInv, PointerInv
    <2>2. UNCHANGED <<queueVars, w, f, r, c, sync, ok, sent, signals, receiverVars>>
      BY <1>2 DEF Flush
    <2>3. s # None /\ sync = s /\ sync' = s /\ Unflushed
      BY <2>1, <2>2, FlushFacts
    <2>4. \A t \in Senders : pc'[t] = IF t = s THEN "set" ELSE pc[t]
      BY <2>1 DEF IInv, TypeInv
    <2>5. Unflushed' /\ Flushed' = Flushed
      BY <2>2, <2>3, <2>4 DEF Unflushed, Flushed, queueVars
    <2>6. Waking' = Waking
      BY <2>1, <2>2, <2>4 DEF Waking
    <2>7. TypeInv'
      BY <2>1, <2>2 DEF IInv, TypeInv, queueVars, receiverVars
    <2>8. MutexInv'
      BY <2>1, <2>3, StaysInside DEF IInv
    <2>9. ChunksInv' /\ PointerInv'
      BY <2>2, <2>5 DEF IInv, ChunksInv, PointerInv, queueVars, receiverVars
    <2>10. WakeInv'
      BY <2>1, <2>2, <2>5, <2>6 DEF IInv, WakeInv, queueVars, receiverVars
    <2>11. \A t \in Senders : pc'[t] = "write" => pc[t] = "write"
      BY <2>4
    <2>12. alive
      BY <2>1 DEF IInv, DestroyInv
    <2>13. ContentInv' /\ DestroyInv'
      BY <2>2, <2>11, <2>12
         DEF IInv, ContentInv, DestroyInv, queueVars, receiverVars
    <2> QED BY <2>2, <2>5, <2>7, <2>8, <2>9, <2>10, <2>13 DEF IInv
  <1> QED BY <1>1, <1>2

\* ypipe_t::flush: c is set after the receiver was found asleep.
LEMMA FlushSetStep ==
    ASSUME IInv, NEW s \in Senders, FlushSet(s)
    PROVE  IInv' /\ Flushed' = Flushed + 1 /\ w' = f
PROOF
  <1>1. c = None /\ ok' = [ok EXCEPT ![s] = c # None]
    BY DEF FlushSet, IInv, WakeInv
  <1> QED BY <1>1, FlushStep DEF FlushSet

\* mailbox_t::send gives the mutex back.
LEMMA UnlockStep ==
    ASSUME IInv, NEW s \in Senders, Unlock(s)
    PROVE  IInv' /\ Flushed' = Flushed
PROOF
  <1>0. pc[s] = "unlock" /\ sync' = None
        /\ UNCHANGED <<queueVars, w, f, r, c, ok, sent, signals, receiverVars>>
    BY DEF Unlock
  <1>1. sync = s
    BY <1>0 DEF IInv, MutexInv
  <1>2. \A t \in Senders : pc'[t] = IF t = s THEN (IF ok[s] THEN "idle" ELSE "signal")
                                              ELSE pc[t]
    BY DEF Unlock, IInv, TypeInv
  <1>3. ~Unflushed /\ ~Unflushed' /\ Flushed' = Flushed
    BY <1>0, <1>1 DEF Unflushed, Flushed, queueVars
  <1>4. TypeInv'
    BY <1>0 DEF IInv, TypeInv, Unlock, queueVars, receiverVars
  <1>5. MutexInv'
    <2> SUFFICES ASSUME NEW t \in Senders
                 PROVE  pc'[t] \in {"write", "flush", "set", "unlock"} <=> sync' = t
      BY DEF MutexInv
    <2>1. t # None /\ (pc[t] \in {"write", "flush", "set", "unlock"} <=> sync = t)
      BY MailboxNoneAssumption DEF IInv, MutexInv
    <2> QED BY <1>0, <1>1, <1>2, <2>1
  <1>6. ChunksInv' /\ PointerInv'
    BY <1>0, <1>3 DEF IInv, ChunksInv, PointerInv, queueVars, receiverVars
  <1>7. \A t \in Senders : t \in Waking' <=> t \in Waking
    BY <1>0, <1>2 DEF Waking
  <1>8. Waking' = Waking
    BY <1>7 DEF Waking
  <1>9. \A t \in Senders : /\ pc'[t] = "set" => pc[t] = "set"
                           /\ pc'[t] = "write" => pc[t] = "write"
    BY <1>2
  <1>10. WakeInv'
    BY <1>0, <1>3, <1>8, <1>9 DEF IInv, WakeInv, queueVars, receiverVars
  <1>11. alive
    BY <1>0 DEF IInv, DestroyInv
  <1>12. ContentInv' /\ DestroyInv'
    BY <1>0, <1>9, <1>11 DEF IInv, ContentInv, DestroyInv, queueVars, receiverVars
  <1> QED BY <1>3, <1>4, <1>5, <1>6, <1>10, <1>12 DEF IInv

\* mailbox_t::send signals.
LEMMA SignalStep ==
    ASSUME IInv, NEW s \in Senders, Signal(s)
    PROVE  IInv' /\ Flushed' = Flushed
PROOF
  <1>0. pc[s] = "signal" /\ signals' = signals + 1
        /\ UNCHANGED <<queueVars, w, f, r, c, sync, ok, sent, receiverVars>>
    BY DEF Signal
  <1>1. \A t \in Senders : pc'[t] = IF t = s THEN "idle" ELSE pc[t]
    BY DEF Signal, IInv, TypeInv
  <1>2. sync # s
    BY <1>0 DEF IInv, MutexInv
  <1>3. (Unflushed' <=> Unflushed) /\ Flushed' = Flushed
    BY <1>0, <1>1, <1>2 DEF IInv, TypeInv, Unflushed, Flushed, queueVars
  <1>4. TypeInv'
    BY <1>0 DEF IInv, TypeInv, Signal, queueVars, receiverVars
  <1>5. MutexInv'
    <2> SUFFICES ASSUME NEW t \in Senders
                 PROVE  pc'[t] \in {"write", "flush", "set", "unlock"} <=> sync' = t
      BY DEF MutexInv
    <2>1. pc[t] \in {"write", "flush", "set", "unlock"} <=> sync = t
      BY DEF IInv, MutexInv
    <2> QED BY <1>0, <1>1, <1>2, <2>1
  <1>6. ChunksInv' /\ PointerInv'
    BY <1>0, <1>3 DEF IInv, ChunksInv, PointerInv, queueVars, receiverVars
  <1>7. s \in Waking /\ \A t \in Waking : t = s
    <2>1. s \in Waking
      BY <1>0 DEF Waking
    <2> QED BY <2>1 DEF IInv, WakeInv
  <1>8. Waking' = {}
    <2>1. \A t \in Senders : t \in Waking' => t \in Waking /\ t # s
      BY <1>0, <1>1 DEF Waking
    <2> QED BY <1>7, <2>1 DEF Waking
  <1>9. ~active /\ c # None /\ signals = 0 /\ begin_pos < Flushed /\ rpc = "ready"
    BY <1>7 DEF IInv, WakeInv
  <1>10. \A t \in Senders : /\ pc'[t] = "set" => pc[t] = "set"
                            /\ pc'[t] = "write" => pc[t] = "write"
    BY <1>1
  <1>11. WakeInv'
    BY <1>0, <1>3, <1>8, <1>9, <1>10 DEF IInv, WakeInv, queueVars, receiverVars
  <1>12. alive
    BY <1>0 DEF IInv, DestroyInv
  <1>13. ContentInv' /\ DestroyInv'
    BY <1>0, <1>10, <1>12 DEF IInv, ContentInv, DestroyInv, queueVars, receiverVars
  <1> QED BY <1>3, <1>4, <1>5, <1>6, <1>11, <1>13 DEF IInv

-----------------------------------------------------------------------------
(* The steps of the receiver that leave the queue alone.                       *)

\* Nothing that a sender uses changes.
LEMMA SendersAlone ==
    ASSUME UNCHANGED <<queueVars, senderVars>>
    PROVE  /\ UNCHANGED <<chunks, spare, begin_pos, end_pos, mem, sync, pc, ok, sent>>
           /\ (Unflushed' <=> Unflushed) /\ Flushed' = Flushed /\ Waking' = Waking
  BY DEF queueVars, senderVars, Unflushed, Flushed, Waking

\* ypipe_t::check_read: what has been flushed may be read, or the receiver
\* goes to sleep.
LEMMA CheckReadStep ==
    ASSUME IInv, CheckRead
    PROVE  IInv' /\ Flushed' = Flushed
PROOF
  <1>0. /\ alive /\ alive' = alive /\ got' = got /\ w' = w /\ f' = f /\ signals' = signals
        /\ UNCHANGED <<queueVars, senderVars>>
    BY DEF CheckRead
  <1>1. /\ UNCHANGED <<chunks, spare, begin_pos, end_pos, mem, sync, pc, ok, sent>>
        /\ (Unflushed' <=> Unflushed) /\ Flushed' = Flushed /\ Waking' = Waking
    BY <1>0, SendersAlone
  <1> DEFINE front == PlaceOf(chunks, begin_pos)
  <1>2. /\ w # None /\ r # None
        /\ Place(Front) = front
        /\ w = front <=> Flushed = begin_pos
        /\ r # front => begin_pos < Flushed
        /\ begin_pos \in Nat /\ Flushed \in Nat /\ begin_pos <= Flushed
    BY AtFront, Basics DEF IInv
  <1>3. active /\ rpc \in {"ready", "took"} /\ c # None /\ c = w
        /\ signals = 0 /\ Waking = {}
    BY DEF CheckRead, IInv, WakeInv, PointerInv
  <1>4. \A s \in Senders : pc[s] # "set"
    BY <1>3 DEF IInv, WakeInv
  <1>5. MutexInv' /\ ChunksInv' /\ ContentInv' /\ DestroyInv'
    BY <1>0, <1>1 DEF IInv, MutexInv, ChunksInv, ContentInv, DestroyInv
  <1>6. PICK i \in begin_pos .. Flushed : r = PlaceOf(chunks, i)
    BY DEF IInv, PointerInv
  <1>7. f = PlaceOf(chunks, BackOf(chunks, end_pos)) /\ w = PlaceOf(chunks, Flushed)
    BY DEF IInv, PointerInv
  <1> HIDE DEF front
  <1>8. CASE r # front
    <2>1. rpc' = "pop" /\ r' = r /\ c' = c /\ active' = active
      BY <1>2, <1>8 DEF CheckRead
    <2>2. TypeInv'
      BY <1>0, <1>1, <2>1 DEF IInv, TypeInv
    <2>3. PointerInv'
      BY <1>0, <1>1, <1>2, <1>3, <1>6, <1>7, <1>8, <2>1 DEF PointerInv, front
    <2>4. WakeInv'
      BY <1>0, <1>1, <1>3, <1>4, <2>1 DEF WakeInv
    <2> QED BY <1>1, <1>5, <2>2, <2>3, <2>4 DEF IInv
  <1>9. CASE r = front /\ w # front
    <2>1. rpc' = "pop" /\ r' = c /\ c' = c /\ active' = active
      BY <1>2, <1>3, <1>9 DEF CheckRead
    <2>2. TypeInv'
      BY <1>0, <1>1, <2>1 DEF IInv, TypeInv
    <2>3. Flushed \in begin_pos .. Flushed
      BY <1>2
    <2>4. PointerInv'
      BY <1>0, <1>1, <1>2, <1>3, <1>7, <1>9, <2>1, <2>3 DEF PointerInv, front
    <2>5. WakeInv'
      BY <1>0, <1>1, <1>3, <1>4, <2>1 DEF WakeInv
    <2> QED BY <1>1, <1>5, <2>2, <2>4, <2>5 DEF IInv
  <1>10. CASE r = front /\ w = front
    <2>1. rpc = "ready"
      BY <1>2, <1>3, <1>10 DEF IInv, WakeInv
    <2>2. rpc' = "ready" /\ r' = c /\ c' = None /\ active' = FALSE
      BY <1>2, <1>3, <1>10, <2>1 DEF CheckRead
    <2>3. TypeInv'
      BY <1>0, <1>1, <2>2 DEF IInv, TypeInv
    <2>4. Flushed \in begin_pos .. Flushed
      BY <1>2
    <2>5. PointerInv'
      BY <1>0, <1>1, <1>2, <1>3, <1>7, <1>10, <2>2, <2>4 DEF PointerInv
    <2>6. WakeInv'
      BY <1>0, <1>1, <1>2, <1>3, <1>4, <1>10, <2>2 DEF WakeInv
    <2> QED BY <1>1, <1>5, <2>3, <2>5, <2>6 DEF IInv
  <1> QED BY <1>8, <1>9, <1>10

\* signaler_t::wait returns.
LEMMA WaitStep ==
    ASSUME IInv, Wait
    PROVE  IInv' /\ Flushed' = Flushed
PROOF
  <1>0. /\ UNCHANGED <<w, f, r, c, signals, active, got, alive, queueVars, senderVars>>
        /\ rpc' = "signalled" /\ ~active /\ signals > 0
    BY DEF Wait
  <1>1. /\ UNCHANGED <<chunks, spare, begin_pos, end_pos, mem, sync, pc, ok, sent>>
        /\ Flushed' = Flushed /\ Waking' = Waking
    BY <1>0, SendersAlone
  <1>2. TypeInv'
    BY <1>0, <1>1 DEF IInv, TypeInv
  <1>3. MutexInv' /\ ChunksInv' /\ PointerInv' /\ ContentInv' /\ DestroyInv'
    BY <1>0, <1>1 DEF IInv, MutexInv, ChunksInv, PointerInv, ContentInv, DestroyInv
  <1>4. WakeInv'
    BY <1>0, <1>1 DEF IInv, TypeInv, WakeInv
  <1> QED BY <1>1, <1>2, <1>3, <1>4 DEF IInv

\* signaler_t::recv takes the signal.
LEMMA RecvSignalStep ==
    ASSUME IInv, RecvSignal
    PROVE  IInv' /\ Flushed' = Flushed
PROOF
  <1>0. /\ UNCHANGED <<w, f, r, c, got, alive, queueVars, senderVars>>
        /\ rpc = "signalled" /\ rpc' = "took" /\ active' = TRUE /\ signals' = signals - 1
    BY DEF RecvSignal
  <1>1. /\ UNCHANGED <<chunks, spare, begin_pos, end_pos, mem, sync, pc, ok, sent>>
        /\ Flushed' = Flushed /\ Waking' = Waking
    BY <1>0, SendersAlone
  <1>2. /\ signals = 1 /\ Waking = {} /\ c # None /\ begin_pos < Flushed
        /\ \A s \in Senders : pc[s] # "set"
    BY <1>0 DEF IInv, TypeInv, WakeInv
  <1>3. TypeInv'
    BY <1>0, <1>1, <1>2 DEF IInv, TypeInv
  <1>4. MutexInv' /\ ChunksInv' /\ PointerInv' /\ ContentInv' /\ DestroyInv'
    BY <1>0, <1>1 DEF IInv, MutexInv, ChunksInv, PointerInv, ContentInv, DestroyInv
  <1>5. WakeInv'
    BY <1>0, <1>1, <1>2 DEF WakeInv
  <1> QED BY <1>1, <1>3, <1>4, <1>5 DEF IInv

\* When the owner has got every command, no sender is left to wake it up.
LEMMA DestroyStep ==
    ASSUME IInv, Destroy
    PROVE  IInv' /\ Flushed' = Flushed
PROOF
  <1>0. /\ UNCHANGED <<w, f, r, c, signals, active, rpc, got, queueVars, senderVars>>
        /\ alive' = FALSE /\ Len(got) = MaxSends /\ sync = None
    BY DEF Destroy
  <1>1. /\ UNCHANGED <<chunks, spare, begin_pos, end_pos, mem, sync, pc, ok, sent>>
        /\ Flushed' = Flushed /\ Waking' = Waking
    BY <1>0, SendersAlone
  <1>2. /\ begin_pos \in Nat /\ Flushed \in Nat /\ BackOf(chunks, end_pos) \in Nat
        /\ begin_pos <= Flushed /\ Flushed <= BackOf(chunks, end_pos)
        /\ Len(got) \in Nat
    BY Basics, LenProperties DEF IInv, TypeInv
  <1>3. sent = MaxSends /\ Flushed = begin_pos
    BY <1>0, <1>2, MaxSendsAssumption DEF IInv, TypeInv, ContentInv
  <1>4. Waking = {}
    BY <1>2, <1>3 DEF IInv, TypeInv, WakeInv
  <1>5. \A s \in Senders : pc[s] = "idle"
    <2> SUFFICES ASSUME NEW s \in Senders PROVE pc[s] = "idle"
      OBVIOUS
    <2>1. pc[s] \notin {"write", "flush", "set", "unlock"}
      BY <1>0, MailboxNoneAssumption DEF IInv, MutexInv
    <2>2. pc[s] # "signal"
      BY <1>4 DEF Waking
    <2> QED BY <2>1, <2>2 DEF IInv, TypeInv
  <1>6. TypeInv'
    BY <1>0, <1>1 DEF IInv, TypeInv
  <1>7. MutexInv' /\ ChunksInv' /\ PointerInv' /\ ContentInv' /\ WakeInv'
    BY <1>0, <1>1 DEF IInv, MutexInv, ChunksInv, PointerInv, ContentInv, WakeInv
  <1>8. DestroyInv'
    BY <1>1, <1>3, <1>5 DEF DestroyInv
  <1> QED BY <1>1, <1>6, <1>7, <1>8 DEF IInv

-----------------------------------------------------------------------------
(* The steps that change the queue.                                            *)

\* A place is added at the end, and every other one stays where it is.
LEMMA PushFacts ==
    ASSUME TypeInv, ChunksInv, PointerInv, Push
    PROVE  /\ chunks' \in Seq(Chunks) /\ Len(chunks') > 0
           /\ spare' \in Chunks \cup {None} /\ end_pos' \in 0 .. N - 1
           /\ ChunksInv'
           /\ BackOf(chunks', end_pos') = BackOf(chunks, end_pos) + 1
           /\ \A i \in 0 .. BackOf(chunks, end_pos) :
                 PlaceOf(chunks', i) = PlaceOf(chunks, i)
PROOF
  <1>0. /\ chunks \in Seq(Chunks) /\ Len(chunks) > 0 /\ end_pos \in 0 .. N - 1
        /\ spare \in Chunks \cup {None}
    BY DEF TypeInv
  <1>1. CASE end_pos + 1 < N
    <2>1. end_pos' = end_pos + 1 /\ chunks' = chunks /\ spare' = spare
      BY <1>1 DEF Push
    <2>2. end_pos' \in 0 .. N - 1
      BY <1>0, <1>1, <2>1, NType
    <2>3. ChunksInv'
      BY <2>1 DEF ChunksInv
    <2>4. BackOf(chunks', end_pos') = BackOf(chunks, end_pos) + 1
      BY <1>0, <2>1, BackGrows
    <2> QED BY <1>0, <2>1, <2>2, <2>3, <2>4
  <1>2. CASE ~(end_pos + 1 < N)
    <2>1. end_pos + 1 = N
      BY <1>0, <1>2, NType
    <2>2. PICK k \in IF spare # None THEN {spare} ELSE Chunks \ InUse :
             chunks' = Append(chunks, k)
      BY <1>2 DEF Push
    <2>3. end_pos' = 0 /\ spare' = None
      BY <1>2 DEF Push
    <2>4. k \in Chunks
      BY <1>0, <2>2
    <2>5. \A i \in 1 .. Len(chunks) : chunks[i] # k
      BY <2>2 DEF ChunksInv, InUse
    <2>6. /\ chunks' \in Seq(Chunks) /\ Len(chunks') = Len(chunks) + 1
          /\ \A i \in 1 .. Len(chunks) : chunks'[i] = chunks[i]
          /\ chunks'[Len(chunks) + 1] = k /\ Len(chunks) \in Nat
      BY <1>0, <2>2, <2>4, AppendProperties, LenProperties
    <2>7. Distinct(chunks')
      <3> SUFFICES ASSUME NEW i \in 1 .. Len(chunks'), NEW j \in 1 .. Len(chunks'),
                          chunks'[i] = chunks'[j]
                   PROVE  i = j
        BY DEF Distinct
      <3>1. CASE i \in 1 .. Len(chunks) /\ j \in 1 .. Len(chunks)
        BY <2>6, <3>1 DEF ChunksInv, Distinct
      <3>2. CASE i = Len(chunks) + 1 /\ j \in 1 .. Len(chunks)
        BY <2>5, <2>6, <3>2
      <3>3. CASE j = Len(chunks) + 1 /\ i \in 1 .. Len(chunks)
        BY <2>5, <2>6, <3>3
      <3> QED BY <2>6, <3>1, <3>2, <3>3
    <2>8. \A i \in 1 .. Len(chunks') : chunks'[i] # spare'
      <3>1. \A i \in 1 .. Len(chunks') : chunks'[i] \in Chunks
        BY <2>6, ElementOfSeq
      <3> QED BY <2>3, <3>1, MailboxNoneAssumption
    <2>9. BackOf(chunks', end_pos') = BackOf(chunks, end_pos) + 1
      BY <1>0, <2>1, <2>2, <2>3, <2>4, BackGrows
    <2>10. \A i \in 0 .. BackOf(chunks, end_pos) : i \in Nat /\ i < Len(chunks) * N
      <3>1. Len(chunks) * N \in Nat
        BY <2>6, NType, Z3
      <3> QED BY <3>1, Basics
    <2>11. \A i \in 0 .. BackOf(chunks, end_pos) :
              PlaceOf(chunks', i) = PlaceOf(chunks, i)
      BY <1>0, <2>2, <2>4, <2>10, PlaceAppend
    <2>12. Len(chunks') > 0 /\ end_pos' \in 0 .. N - 1
      BY <2>3, <2>6, NType
    <2> QED BY <2>3, <2>6, <2>7, <2>8, <2>9, <2>11, <2>12 DEF ChunksInv
  <1> QED BY <1>1, <1>2

\* The front is taken away, and every other place keeps its address; when a
\* chunk has been read out the places are counted from the next one.
LEMMA PopFacts ==
    ASSUME TypeInv, ChunksInv, PointerInv, Pop, end_pos' = end_pos,
           begin_pos < Flushed
    PROVE  /\ chunks' \in Seq(Chunks) /\ Len(chunks') > 0
           /\ spare' \in Chunks \cup {None} /\ begin_pos' \in 0 .. N - 1
           /\ ChunksInv'
           /\ \E d \in Nat :
                 /\ begin_pos' = begin_pos + 1 - d
                 /\ BackOf(chunks', end_pos') = BackOf(chunks, end_pos) - d
                 /\ \A i \in begin_pos + 1 .. BackOf(chunks, end_pos) :
                       i - d \in Nat /\ PlaceOf(chunks', i - d) = PlaceOf(chunks, i)
PROOF
  <1>0. /\ chunks \in Seq(Chunks) /\ Len(chunks) > 0 /\ end_pos \in 0 .. N - 1
        /\ spare \in Chunks \cup {None} /\ begin_pos \in 0 .. N - 1
        /\ Len(chunks) \in Nat
    BY LenProperties DEF TypeInv
  <1>1. /\ begin_pos \in Nat /\ begin_pos < BackOf(chunks, end_pos)
        /\ BackOf(chunks, end_pos) \in Nat /\ BackOf(chunks, end_pos) < Len(chunks) * N
    BY Basics
  <1>2. CASE begin_pos + 1 < N
    <2>1. begin_pos' = begin_pos + 1 /\ chunks' = chunks /\ spare' = spare
      BY <1>2 DEF Pop
    <2>2. ChunksInv'
      BY <2>1 DEF ChunksInv
    <2>3. begin_pos' \in 0 .. N - 1 /\ begin_pos' = begin_pos + 1 - 0
      BY <1>0, <1>2, <2>1, NType
    <2>4. BackOf(chunks', end_pos') = BackOf(chunks, end_pos) - 0
      BY <1>1, <2>1
    <2>5. \A i \in begin_pos + 1 .. BackOf(chunks, end_pos) :
             i - 0 \in Nat /\ PlaceOf(chunks', i - 0) = PlaceOf(chunks, i)
      BY <1>1, <2>1
    <2> QED BY <1>0, <2>1, <2>2, <2>3, <2>4, <2>5
  <1>3. CASE ~(begin_pos + 1 < N)
    <2>1. begin_pos' = 0 /\ chunks' = Tail(chunks) /\ spare' = Head(chunks)
      BY <1>3 DEF Pop
    <2>2. begin_pos + 1 = N
      BY <1>0, <1>3, NType
    <2>3. Len(chunks) > 1
      <3>1. ASSUME Len(chunks) = 1 PROVE FALSE
        <4>1. BackOf(chunks, end_pos) < 1 * N
          BY <1>1, <3>1
        <4>2. BackOf(chunks, end_pos) < N
          BY <4>1, NType
        <4> QED BY <1>1, <2>2, <4>2, NType
      <3>2. Len(chunks) # 1
        BY <3>1
      <3> DEFINE n == Len(chunks)
      <3>3. n \in Nat /\ n > 0 /\ n # 1
        BY <1>0, <3>2
      <3> HIDE DEF n
      <3>4. n > 1
        BY <3>3
      <3> QED BY <3>4 DEF n
    <2>4. /\ chunks' \in Seq(Chunks) /\ Len(chunks') = Len(chunks) - 1
          /\ \A i \in 1 .. Len(chunks) - 1 : chunks'[i] = chunks[i + 1]
          /\ spare' = chunks[1] /\ spare' \in Chunks
      BY <1>0, <2>1, <2>3, HeadTailProperties, EmptySeq, ElementOfSeq
    <2>5. Distinct(chunks')
      <3> SUFFICES ASSUME NEW i \in 1 .. Len(chunks'), NEW j \in 1 .. Len(chunks'),
                          chunks'[i] = chunks'[j]
                   PROVE  i = j
        BY DEF Distinct
      <3>0. Len(chunks) \in Nat /\ i \in 1 .. Len(chunks) - 1 /\ j \in 1 .. Len(chunks) - 1
        BY <1>0, <2>4
      <3>1. i + 1 \in 1 .. Len(chunks) /\ j + 1 \in 1 .. Len(chunks)
        BY <3>0
      <3>2. chunks[i + 1] = chunks[j + 1]
        BY <3>0, <2>4
      <3>3. i + 1 = j + 1
        BY <3>1, <3>2 DEF ChunksInv, Distinct
      <3> QED BY <3>0, <3>3
    <2>6. \A i \in 1 .. Len(chunks') : chunks'[i] # spare'
      <3> SUFFICES ASSUME NEW i \in 1 .. Len(chunks'), chunks'[i] = spare'
                   PROVE  FALSE
        OBVIOUS
      <3>1. i + 1 \in 1 .. Len(chunks) /\ 1 \in 1 .. Len(chunks)
            /\ chunks[i + 1] = chunks[1]
        BY <1>0, <2>4
      <3>2. i + 1 = 1
        BY <3>1 DEF ChunksInv, Distinct
      <3> QED BY <3>2
    <2>7. BackOf(chunks', end_pos') = BackOf(chunks, end_pos) - N
      BY <1>0, <2>1, <2>3, BackTail
    <2>8. \A i \in begin_pos + 1 .. BackOf(chunks, end_pos) :
             i - N \in Nat /\ PlaceOf(chunks', i - N) = PlaceOf(chunks, i)
      <3> SUFFICES ASSUME NEW i \in begin_pos + 1 .. BackOf(chunks, end_pos)
                   PROVE  i - N \in Nat /\ PlaceOf(chunks', i - N) = PlaceOf(chunks, i)
        OBVIOUS
      <3>1. Len(chunks) * N \in Nat
        BY <1>0, NType, Z3
      <3>2. i \in Nat /\ i >= N /\ i < Len(chunks) * N /\ i - N \in Nat
        BY <1>1, <2>2, <3>1, NType
      <3> QED BY <1>0, <2>1, <3>2, PlaceTail
    <2>9. begin_pos' = begin_pos + 1 - N /\ begin_pos' \in 0 .. N - 1
      BY <1>0, <2>1, <2>2, NType
    <2>10. ChunksInv'
      BY <2>5, <2>6 DEF ChunksInv
    <2>11. Len(chunks') > 0
      BY <1>0, <2>3, <2>4
    <2> QED BY <2>4, <2>7, <2>8, <2>9, <2>10, <2>11, NType
  <1> QED BY <1>2, <1>3

\* ypipe_t::write: a command is written into the slot at the back.
LEMMA WriteCommandStep ==
    ASSUME IInv, NEW s \in Senders, WriteCommand(s)
    PROVE  IInv' /\ Flushed' = Flushed
PROOF
  <1> DEFINE b == BackOf(chunks, end_pos)
  <1>0. /\ pc[s] = "write" /\ sent' = sent + 1 /\ pc' = [pc EXCEPT ![s] = "flush"]
        /\ Push /\ f' = PlaceOf(chunks', BackOf(chunks', end_pos'))
        /\ UNCHANGED <<begin_pos, w, r, c, sync, ok, signals, active, rpc, got, alive>>
    BY DEF WriteCommand, Place, Back, PlaceOf, BackOf, receiverVars
  <1>1. mem' = [mem EXCEPT ![PlaceOf(chunks, b)] = sent + 1]
    BY AtFront DEF WriteCommand, IInv
  <1>2. s # None /\ sync = s /\ sync' = s
    BY <1>0, MailboxNoneAssumption DEF IInv, MutexInv
  <1>3. \A t \in Senders : pc'[t] = IF t = s THEN "flush" ELSE pc[t]
    BY <1>0 DEF IInv, TypeInv
  <1>4. /\ chunks' \in Seq(Chunks) /\ Len(chunks') > 0
        /\ spare' \in Chunks \cup {None} /\ end_pos' \in 0 .. N - 1
        /\ ChunksInv'
        /\ BackOf(chunks', end_pos') = b + 1
        /\ \A i \in 0 .. b : PlaceOf(chunks', i) = PlaceOf(chunks, i)
    BY <1>0, PushFacts DEF IInv
  <1>5. /\ begin_pos \in Nat /\ b \in Nat /\ begin_pos <= b
        /\ \A i \in 0 .. b : PlaceOf(chunks, i) \in Addr
        /\ \A i, j \in 0 .. b : PlaceOf(chunks, i) = PlaceOf(chunks, j) => i = j
    BY Basics DEF IInv
  <1>6. ~Unflushed /\ Flushed = b
    BY <1>0, <1>2 DEF Unflushed, Flushed
  <1> HIDE DEF b
  <1>7. Unflushed' /\ Flushed' = b
    <2>1. Unflushed'
      BY <1>2, <1>3 DEF Unflushed
    <2>2. Flushed' = BackOf(chunks', end_pos') - 1
      BY <2>1 DEF Flushed
    <2> QED BY <1>4, <1>5, <2>1, <2>2
  <1>8. \A i \in begin_pos .. b - 1 :
           /\ i \in 0 .. b
           /\ PlaceOf(chunks', i) = PlaceOf(chunks, i)
           /\ mem'[PlaceOf(chunks, i)] = mem[PlaceOf(chunks, i)]
    <2> SUFFICES ASSUME NEW i \in begin_pos .. b - 1
                 PROVE  /\ i \in 0 .. b
                        /\ PlaceOf(chunks', i) = PlaceOf(chunks, i)
                        /\ mem'[PlaceOf(chunks, i)] = mem[PlaceOf(chunks, i)]
      OBVIOUS
    <2>1. i \in 0 .. b /\ b \in 0 .. b /\ i # b
      BY <1>5
    <2>2. PlaceOf(chunks, i) # PlaceOf(chunks, b) /\ PlaceOf(chunks, i) \in Addr
      BY <1>5, <2>1
    <2> QED BY <1>1, <1>4, <2>1, <2>2 DEF IInv, TypeInv
  <1>9. mem'[PlaceOf(chunks', b)] = sent + 1
    <2>1. PlaceOf(chunks', b) = PlaceOf(chunks, b) /\ PlaceOf(chunks, b) \in Addr
      BY <1>4, <1>5
    <2> QED BY <1>1, <2>1 DEF IInv, TypeInv
  <1>10. TypeInv'
    <2>1. sent + 1 \in Nat /\ mem \in [Addr -> Nat]
      BY DEF IInv, TypeInv
    <2>3. mem' \in [Addr -> Nat]
      BY <1>1, <2>1
    <2>2. pc' \in [Senders -> {"idle", "write", "flush", "set", "unlock", "signal"}]
      BY <1>0 DEF IInv, TypeInv
    <2> QED BY <1>0, <1>4, <2>1, <2>2, <2>3 DEF IInv, TypeInv
  <1>11. MutexInv'
    BY <1>0, <1>2, StaysInside DEF IInv
  <1>12. PointerInv'
    <2>1. w = PlaceOf(chunks, b) /\ c \in {None, w}
          /\ (rpc = "pop" => r # PlaceOf(chunks, begin_pos))
      BY <1>6 DEF IInv, PointerInv
    <2>2. PICK i \in begin_pos .. b : r = PlaceOf(chunks, i)
      BY <1>6 DEF IInv, PointerInv
    <2>3. i \in 0 .. b /\ b \in 0 .. b /\ begin_pos \in 0 .. b
      BY <1>5
    <2>4. r' = PlaceOf(chunks', i) /\ w' = PlaceOf(chunks', b)
          /\ PlaceOf(chunks', begin_pos') = PlaceOf(chunks, begin_pos)
      BY <1>0, <1>4, <2>1, <2>2, <2>3
    <2> QED BY <1>0, <1>5, <1>7, <2>1, <2>2, <2>4 DEF PointerInv
  <1>13. Waking' = Waking
    <2>1. \A t \in Senders : t \in Waking' <=> t \in Waking
      BY <1>0, <1>3 DEF Waking
    <2> QED BY <2>1 DEF Waking
  <1>14. \A t \in Senders : /\ pc'[t] = "set" => pc[t] = "set"
                            /\ pc'[t] # "write"
    BY <1>2, <1>3 DEF IInv, MutexInv
  <1>15. WakeInv'
    BY <1>0, <1>6, <1>7, <1>13, <1>14 DEF IInv, WakeInv
  <1>16. ContentInv'
    <2>1. /\ sent = Len(got) + b - begin_pos /\ sent < MaxSends
          /\ \A i \in 1 .. Len(got) : got[i] = i
          /\ sent \in Nat /\ Len(got) \in Nat
      BY <1>0, LenProperties DEF IInv, TypeInv, ContentInv, b
    <2>2. sent' = Len(got') + BackOf(chunks', end_pos') - begin_pos' /\ sent' <= MaxSends
      BY <1>0, <1>4, <1>5, <2>1, MaxSendsAssumption
    <2>3. ASSUME NEW i \in begin_pos' .. BackOf(chunks', end_pos') - 1
          PROVE  mem'[PlaceOf(chunks', i)] = Len(got') + (i - begin_pos') + 1
      <3>1. CASE i = b
        BY <1>0, <1>5, <1>9, <2>1, <3>1
      <3>2. CASE i \in begin_pos .. b - 1
        <4>1. mem'[PlaceOf(chunks', i)] = mem[PlaceOf(chunks, i)]
          BY <1>8, <3>2
        <4>2. mem[PlaceOf(chunks, i)] = Len(got) + (i - begin_pos) + 1
          BY <3>2 DEF IInv, ContentInv, b
        <4> QED BY <1>0, <4>1, <4>2
      <3>3. i = b \/ i \in begin_pos .. b - 1
        BY <1>0, <1>4, <1>5
      <3> QED BY <3>1, <3>2, <3>3
    <2> QED BY <1>0, <1>14, <2>1, <2>2, <2>3 DEF ContentInv
  <1>17. DestroyInv'
    BY <1>0 DEF IInv, DestroyInv
  <1> QED BY <1>4, <1>6, <1>7, <1>10, <1>11, <1>12, <1>15, <1>16, <1>17 DEF IInv

\* ypipe_t::read: a command is taken out, and the chunk with it if it was its
\* last.
LEMMA ReadCommandStep ==
    ASSUME IInv, ReadCommand
    PROVE  /\ IInv'
           /\ begin_pos < Flushed
           /\ Flushed' - begin_pos' = Flushed - begin_pos - 1
           /\ got' = Append(got, Len(got) + 1)
PROOF
  <1> DEFINE b == BackOf(chunks, end_pos)
  <1>0. /\ rpc = "pop" /\ rpc' = "ready" /\ Pop
        /\ got' = Append(got, mem[PlaceOf(chunks, begin_pos)])
        /\ UNCHANGED <<end_pos, mem, w, f, r, c, sync, pc, ok, sent, signals, active, alive>>
    BY DEF ReadCommand, Place, Front, PlaceOf, senderVars
  <1>1. /\ begin_pos \in Nat /\ b \in Nat /\ Flushed \in Nat /\ Flushed <= b
        /\ \A i \in 0 .. b : PlaceOf(chunks, i) \in Addr
        /\ \A i, j \in 0 .. b : PlaceOf(chunks, i) = PlaceOf(chunks, j) => i = j
    BY Basics DEF IInv
  <1>2. begin_pos < Flushed
    BY <1>0, AtFront DEF IInv, PointerInv
  <1>3. /\ chunks' \in Seq(Chunks) /\ Len(chunks') > 0
        /\ spare' \in Chunks \cup {None} /\ begin_pos' \in 0 .. N - 1
        /\ ChunksInv'
    BY <1>0, <1>2, PopFacts DEF IInv
  <1>4. PICK d \in Nat :
           /\ begin_pos' = begin_pos + 1 - d
           /\ BackOf(chunks', end_pos') = b - d
           /\ \A i \in begin_pos + 1 .. b :
                 i - d \in Nat /\ PlaceOf(chunks', i - d) = PlaceOf(chunks, i)
    BY <1>0, <1>2, PopFacts DEF IInv
  <1>5. /\ Unflushed' <=> Unflushed
        /\ Flushed = IF Unflushed THEN b - 1 ELSE b
        /\ Flushed' = IF Unflushed' THEN BackOf(chunks', end_pos') - 1
                                    ELSE BackOf(chunks', end_pos')
        /\ Waking' = Waking
    BY <1>0 DEF Unflushed, Flushed, Waking
  <1> HIDE DEF b
  <1>6. Flushed' = Flushed - d
    BY <1>1, <1>4, <1>5
  <1>7. active /\ signals = 0 /\ Waking = {} /\ c # None /\ c = w
    BY <1>0 DEF IInv, WakeInv, PointerInv
  <1>8. /\ begin_pos \in begin_pos .. b - 1 /\ begin_pos \in 0 .. b
        /\ Flushed \in begin_pos + 1 .. b /\ b \in begin_pos + 1 .. b
    BY <1>1, <1>2
  <1>9. mem[PlaceOf(chunks, begin_pos)] = Len(got) + 1
    <2>1. mem[PlaceOf(chunks, begin_pos)] = Len(got) + (begin_pos - begin_pos) + 1
      BY <1>8 DEF IInv, ContentInv, b
    <2> QED BY <1>1, <2>1, LenProperties DEF IInv, TypeInv
  <1>10. /\ got' \in Seq(Nat) /\ Len(got') = Len(got) + 1 /\ Len(got) \in Nat
         /\ \A i \in 1 .. Len(got) : got'[i] = got[i]
         /\ got'[Len(got) + 1] = Len(got) + 1
    <2>1. got \in Seq(Nat) /\ Len(got) + 1 \in Nat
      BY LenProperties DEF IInv, TypeInv
    <2> QED BY <1>0, <1>9, <2>1, AppendProperties, LenProperties
  <1>11. TypeInv'
    BY <1>0, <1>3, <1>10 DEF IInv, TypeInv
  <1>12. MutexInv' /\ DestroyInv'
    BY <1>0 DEF IInv, MutexInv, DestroyInv
  <1>13. PointerInv'
    <2>1. /\ f' = PlaceOf(chunks', BackOf(chunks', end_pos'))
          /\ w' = PlaceOf(chunks', Flushed')
      BY <1>0, <1>4, <1>6, <1>8 DEF IInv, PointerInv, b
    <2>2. PICK i \in begin_pos .. Flushed : r = PlaceOf(chunks, i)
      BY DEF IInv, PointerInv
    <2>3. i # begin_pos
      BY <1>0, <2>2 DEF IInv, PointerInv
    <2>4. i \in begin_pos + 1 .. b /\ i - d \in begin_pos' .. Flushed'
      BY <1>1, <1>4, <1>6, <2>2, <2>3
    <2>5. r' = PlaceOf(chunks', i - d)
      BY <1>0, <1>4, <2>2, <2>4
    <2>6. begin_pos' <= Flushed'
      BY <1>1, <1>2, <1>4, <1>6
    <2>7. \E j \in begin_pos' .. Flushed' : r' = PlaceOf(chunks', j)
      BY <2>4, <2>5
    <2> QED BY <1>0, <1>7, <2>1, <2>6, <2>7 DEF PointerInv
  <1>14. WakeInv'
    BY <1>0, <1>5, <1>7 DEF IInv, WakeInv
  <1>15. ContentInv'
    <2>1. /\ sent = Len(got) + b - begin_pos /\ sent <= MaxSends /\ sent \in Nat
          /\ \A t \in Senders : pc[t] = "write" => sent < MaxSends
          /\ \A i \in 1 .. Len(got) : got[i] = i
      BY DEF IInv, TypeInv, ContentInv, b
    <2>2. sent' = Len(got') + BackOf(chunks', end_pos') - begin_pos'
      BY <1>0, <1>1, <1>4, <1>10, <2>1
    <2>3. ASSUME NEW i \in begin_pos' .. BackOf(chunks', end_pos') - 1
          PROVE  mem'[PlaceOf(chunks', i)] = Len(got') + (i - begin_pos') + 1
      <3> DEFINE j == i + d
      <3>1. j \in begin_pos + 1 .. b /\ j \in begin_pos .. b - 1 /\ i = j - d /\ j \in Nat
        BY <1>1, <1>4
      <3> HIDE DEF j
      <3>2. PlaceOf(chunks', i) = PlaceOf(chunks, j)
        BY <1>4, <3>1
      <3>3. mem[PlaceOf(chunks, j)] = Len(got) + (j - begin_pos) + 1
        BY <3>1 DEF IInv, ContentInv, b
      <3>4. Len(got) + (j - begin_pos) + 1 = Len(got') + (i - begin_pos') + 1
        BY <1>1, <1>4, <1>10, <3>1
      <3> QED BY <1>0, <3>2, <3>3, <3>4
    <2>4. \A i \in 1 .. Len(got') : got'[i] = i
      <3> SUFFICES ASSUME NEW i \in 1 .. Len(got') PROVE got'[i] = i
        OBVIOUS
      <3>1. i \in 1 .. Len(got) \/ i = Len(got) + 1
        BY <1>10
      <3> QED BY <1>10, <2>1, <3>1
    <2> QED BY <1>0, <2>1, <2>2, <2>3, <2>4 DEF ContentInv
  <1>16. Flushed' - begin_pos' = Flushed - begin_pos - 1
    BY <1>1, <1>4, <1>6
  <1>17. IInv'
    BY <1>3, <1>11, <1>12, <1>13, <1>14, <1>15 DEF IInv
  <1> QED BY <1>0, <1>2, <1>9, <1>16, <1>17

-----------------------------------------------------------------------------
\* A step that changes nothing.
LEMMA StutterStep ==
    ASSUME IInv, UNCHANGED vars
    PROVE  IInv' /\ Flushed' = Flushed
PROOF
  <1>1. /\ UNCHANGED <<chunks, spare, begin_pos, end_pos, mem, sync, pc, ok, sent>>
        /\ UNCHANGED <<w, f, r, c, signals, active, rpc, got, alive>>
        /\ Flushed' = Flushed /\ Waking' = Waking
    BY SendersAlone DEF vars, queueVars, senderVars, receiverVars
  <1>2. TypeInv'
    BY <1>1 DEF IInv, TypeInv
  <1>3. MutexInv' /\ ChunksInv' /\ PointerInv'
    BY <1>1 DEF IInv, MutexInv, ChunksInv, PointerInv
  <1>4. WakeInv' /\ ContentInv' /\ DestroyInv'
    BY <1>1 DEF IInv, WakeInv, ContentInv, DestroyInv
  <1> QED BY <1>1, <1>2, <1>3, <1>4 DEF IInv

\* Every step keeps the invariant.
LEMMA StepInv == IInv /\ [Next]_vars => IInv'
  BY LockStep, WriteCommandStep, FlushStep1, FlushSetStep, UnlockStep, SignalStep,
     CheckReadStep, ReadCommandStep, WaitStep, RecvSignalStep, DestroyStep, StutterStep
     DEF Next, Send, Recv

\* The inductive invariant holds, for any number of senders and commands and any
\* size of chunk.
THEOREM MailboxInvariant == Spec => []IInv
  BY InitInv, StepInv, PTL DEF Spec

\* mailbox_t::recv finds a command after every signal: its last assertion holds.
THEOREM SignalMeansCommandHolds == Spec => []SignalMeansCommand
PROOF
  <1>1. IInv => SignalMeansCommand
    BY DEF IInv, WakeInv, SignalMeansCommand
  <1> QED BY <1>1, MailboxInvariant, PTL

\* No wake-up is lost and none is sent twice.
THEOREM OneWakeupHolds == Spec => []OneWakeup
PROOF
  <1>1. IInv => OneWakeup
    <2> SUFFICES ASSUME IInv PROVE OneWakeup
      OBVIOUS
    <2>1. /\ w = Place(Front) <=> Flushed = begin_pos
          /\ begin_pos \in Nat /\ Flushed \in Nat /\ begin_pos <= Flushed
      BY AtFront, Basics DEF IInv
    <2>2. \A s, t \in Waking : s = t
      BY DEF IInv, WakeInv
    <2>3. ASSUME ~active, w # Place(Front)
          PROVE  (signals = 1 /\ Waking = {}) \/ (signals = 0 /\ Waking # {})
      BY <2>1, <2>3 DEF IInv, WakeInv
    <2>4. ASSUME active \/ w = Place(Front)
          PROVE  signals = 0 /\ Waking = {}
      BY <2>1, <2>4 DEF IInv, WakeInv
    <2> QED BY <2>2, <2>3, <2>4 DEF OneWakeup, Waking
  <1> QED BY <1>1, MailboxInvariant, PTL

\* No pointer of ypipe_t points into a chunk that yqueue_t has given back.
THEOREM PointersLiveHolds == Spec => []PointersLive
PROOF
  <1>1. IInv => PointersLive
    <2> SUFFICES ASSUME IInv PROVE PointersLive
      OBVIOUS
    <2>1. /\ Flushed \in 0 .. BackOf(chunks, end_pos)
          /\ BackOf(chunks, end_pos) \in 0 .. BackOf(chunks, end_pos)
      BY Basics DEF IInv
    <2>2. PlaceOf(chunks, Flushed)[1] \in InUse
          /\ PlaceOf(chunks, BackOf(chunks, end_pos))[1] \in InUse
      BY <2>1, Basics DEF IInv
    <2>3. w[1] \in InUse /\ f[1] \in InUse /\ (c # None => c[1] \in InUse)
      BY <2>2 DEF IInv, PointerInv
    <2>4. spare \notin InUse
      BY DEF IInv, ChunksInv, InUse
    <2>5. \A i, j \in 1 .. Len(chunks) : chunks[i] = chunks[j] => i = j
      BY DEF IInv, ChunksInv, Distinct
    <2>6. r[1] \in InUse
      <3>1. PICK i \in begin_pos .. Flushed : r = PlaceOf(chunks, i)
        BY DEF IInv, PointerInv
      <3>2. i \in 0 .. BackOf(chunks, end_pos)
        BY <2>1, Basics DEF IInv
      <3> QED BY <3>1, <3>2, Basics DEF IInv
    <2> QED BY <2>3, <2>4, <2>5, <2>6 DEF PointersLive
  <1> QED BY <1>1, MailboxInvariant, PTL

\* The destructor leaves no sender inside: the mutex keeps it waiting for those
\* that have the lock, and the last command comes after the last signal.
THEOREM NoUseAfterDestroyHolds == Spec => []NoUseAfterDestroy
PROOF
  <1>1. IInv => NoUseAfterDestroy
    BY DEF IInv, DestroyInv, NoUseAfterDestroy
  <1> QED BY <1>1, MailboxInvariant, PTL

-----------------------------------------------------------------------------
(* The mailbox implements a queue.                                             *)

\* The k commands that follow the n-th.
After(n, k) == [i \in 1 .. k |-> n + i]

\* The k numbers that follow n, as a sequence.
LEMMA AfterIsSeq ==
    ASSUME NEW n \in Nat, NEW k \in Nat
    PROVE  /\ After(n, k) \in Seq(Nat) /\ Len(After(n, k)) = k
           /\ \A i \in 1 .. k : After(n, k)[i] = n + i
PROOF
  <1>1. After(n, k) \in [1 .. k -> Nat]
    BY DEF After
  <1>2. After(n, k) \in Seq(Nat)
    BY <1>1, SeqDef
  <1>3. DOMAIN After(n, k) = 1 .. Len(After(n, k)) /\ Len(After(n, k)) \in Nat
    BY <1>2, LenProperties
  <1>4. DOMAIN After(n, k) = 1 .. k
    BY DEF After
  <1> QED BY <1>2, <1>3, <1>4 DEF After

\* The numbers that follow n, with one more at the end.
LEMMA AfterAppend ==
    ASSUME NEW n \in Nat, NEW k \in Nat
    PROVE  After(n, k + 1) = Append(After(n, k), n + k + 1)
PROOF
  <1> DEFINE s == After(n, k + 1)
             t == Append(After(n, k), n + k + 1)
  <1>1. s \in Seq(Nat) /\ Len(s) = k + 1 /\ \A i \in 1 .. k + 1 : s[i] = n + i
    BY AfterIsSeq
  <1>2. /\ After(n, k) \in Seq(Nat) /\ Len(After(n, k)) = k
        /\ \A i \in 1 .. k : After(n, k)[i] = n + i
    BY AfterIsSeq
  <1>3. /\ t \in Seq(Nat) /\ Len(t) = k + 1 /\ t[k + 1] = n + k + 1
        /\ \A i \in 1 .. k : t[i] = n + i
    BY <1>2, AppendProperties
  <1> HIDE DEF s, t
  <1>4. \A i \in 1 .. k + 1 : s[i] = t[i]
    <2> SUFFICES ASSUME NEW i \in 1 .. k + 1 PROVE s[i] = t[i]
      OBVIOUS
    <2>1. CASE i = k + 1
      BY <1>1, <1>3, <2>1
    <2>2. CASE i \in 1 .. k
      BY <1>1, <1>3, <2>2
    <2> QED BY <2>1, <2>2
  <1>5. s = t
    BY <1>1, <1>3, <1>4, SeqEqual
  <1> QED BY <1>5 DEF s, t

\* The numbers that follow n, without the first.
LEMMA AfterTail ==
    ASSUME NEW n \in Nat, NEW k \in Nat, k > 0
    PROVE  /\ After(n, k) # << >> /\ Head(After(n, k)) = n + 1
           /\ Tail(After(n, k)) = After(n + 1, k - 1)
PROOF
  <1> DEFINE a == After(n, k)
             s == After(n + 1, k - 1)
  <1>1. a \in Seq(Nat) /\ Len(a) = k /\ \A i \in 1 .. k : a[i] = n + i
    BY AfterIsSeq
  <1>2. /\ s \in Seq(Nat) /\ Len(s) = k - 1
        /\ \A i \in 1 .. k - 1 : s[i] = (n + 1) + i
    <2>1. n + 1 \in Nat /\ k - 1 \in Nat
      OBVIOUS
    <2> QED BY <2>1, AfterIsSeq
  <1> HIDE DEF a, s
  <1>3. a # << >> /\ Head(a) = n + 1
    BY <1>1
  <1>4. /\ Tail(a) \in Seq(Nat) /\ Len(Tail(a)) = k - 1
        /\ \A i \in 1 .. k - 1 : Tail(a)[i] = a[i + 1]
    BY <1>1, <1>3, HeadTailProperties
  <1>5. \A i \in 1 .. k - 1 : Tail(a)[i] = s[i]
    BY <1>1, <1>2, <1>4
  <1>6. Tail(a) = s
    BY <1>2, <1>4, <1>5, SeqEqual
  <1> QED BY <1>3, <1>6 DEF a, s

\* The abstract queue: what was flushed and not yet received.
LEMMA UptoIs ==
    ASSUME IInv
    PROVE  Upto(w) = After(Len(got), Flushed - begin_pos)
PROOF
  <1> DEFINE n == CHOOSE i \in 0 .. Back : Place(i) = w
  <1>1. \A i : Place(i) = PlaceOf(chunks, i)
    BY DEF Place, PlaceOf
  <1>2. Back = BackOf(chunks, end_pos)
    BY DEF Back, BackOf
  <1>3. /\ begin_pos \in Nat /\ Flushed \in 0 .. Back /\ begin_pos <= Flushed
        /\ Back \in Nat
        /\ \A i, j \in 0 .. Back : PlaceOf(chunks, i) = PlaceOf(chunks, j) => i = j
    BY <1>2, Basics DEF IInv
  <1>4. Place(Flushed) = w
    BY <1>1 DEF IInv, PointerInv
  <1>5. n \in 0 .. Back /\ Place(n) = w
    <2>1. \E i \in 0 .. Back : Place(i) = w
      BY <1>3, <1>4
    <2> QED BY <2>1, Zenon
  <1>6. n = Flushed
    BY <1>1, <1>3, <1>4, <1>5
  <1> HIDE DEF n
  <1>7. Upto(w) = [i \in 1 .. n - begin_pos |-> mem[Place(begin_pos + i - 1)]]
    BY DEF Upto, Front, n
  <1>8. ASSUME NEW i \in 1 .. n - begin_pos
        PROVE  mem[Place(begin_pos + i - 1)] = Len(got) + i
    <2>1. begin_pos + i - 1 \in begin_pos .. BackOf(chunks, end_pos) - 1
          /\ (begin_pos + i - 1) - begin_pos = i - 1
      BY <1>2, <1>3, <1>6
    <2>2. mem[PlaceOf(chunks, begin_pos + i - 1)] =
             Len(got) + ((begin_pos + i - 1) - begin_pos) + 1
      BY <2>1 DEF IInv, ContentInv
    <2>3. Len(got) \in Nat
      BY LenProperties DEF IInv, TypeInv
    <2> QED BY <1>1, <2>1, <2>2, <2>3
  <1> QED BY <1>6, <1>7, <1>8 DEF After

\* A flush puts the next command.
LEMMA PutStep ==
    ASSUME IInv, IInv', Flushed' = Flushed + 1, begin_pos' = begin_pos, got' = got,
           Upto(w)' = After(Len(got'), Flushed' - begin_pos'),
           BackOf(chunks, end_pos) > Flushed
    PROVE  Commands!Put
PROOF
  <1> DEFINE k == Flushed - begin_pos
             n == Len(got)
  <1>0. /\ begin_pos \in Nat /\ Flushed \in Nat /\ begin_pos <= Flushed
        /\ BackOf(chunks, end_pos) \in Nat
    BY Basics DEF IInv
  <1>1. k \in Nat /\ n \in Nat
    BY <1>0, LenProperties DEF IInv, TypeInv
  <1>2. Upto(w) = After(n, k)
    BY UptoIs
  <1>3. Flushed' - begin_pos' = k + 1
    BY <1>0
  <1>4. Upto(w)' = After(n, k + 1)
    BY <1>3
  <1>5. n + k + 1 \in 1 .. MaxSends
    <2>1. n + BackOf(chunks, end_pos) - begin_pos <= MaxSends
      BY DEF IInv, ContentInv
    <2> QED BY <1>0, <1>1, <2>1, MaxSendsAssumption
  <1> HIDE DEF n, k
  <1>6. Upto(w)' = Append(Upto(w), n + k + 1)
    BY <1>1, <1>2, <1>4, AfterAppend
  <1> QED BY <1>5, <1>6 DEF Commands!Put

\* A read takes the first command.
LEMMA GetStep ==
    ASSUME IInv, IInv', begin_pos < Flushed, got' = Append(got, Len(got) + 1),
           Flushed' - begin_pos' = Flushed - begin_pos - 1,
           Upto(w)' = After(Len(got'), Flushed' - begin_pos')
    PROVE  Commands!Get
PROOF
  <1> DEFINE k == Flushed - begin_pos
             n == Len(got)
  <1>0. begin_pos \in Nat /\ Flushed \in Nat
    BY Basics DEF IInv
  <1>1. k \in Nat /\ k > 0 /\ n \in Nat /\ got \in Seq(Nat)
    BY <1>0, LenProperties DEF IInv, TypeInv
  <1>2. Upto(w) = After(n, k)
    BY UptoIs
  <1>3. Len(got') = n + 1
    BY <1>1, AppendProperties
  <1>4. Upto(w)' = After(n + 1, k - 1)
    BY <1>3
  <1> HIDE DEF k
  <1>5. Upto(w) # << >> /\ Head(Upto(w)) = n + 1 /\ Upto(w)' = Tail(Upto(w))
    BY <1>1, <1>2, <1>4, AfterTail
  <1> QED BY <1>5 DEF Commands!Get

\* The mailbox, with its lock-free queue and reused memory, is a queue: a command
\* is put by the flush that publishes it and taken by the recv that returns it.
THEOREM FifoHolds == Spec => ImplementsFifo
PROOF
  <1>1. Init => Commands!Init
    <2> SUFFICES ASSUME Init PROVE Commands!Init
      OBVIOUS
    <2>1. IInv
      BY InitInv
    <2>2. got = << >> /\ begin_pos = 0 /\ sent = 0
      BY DEF Init
    <2>3. Flushed - begin_pos = 0
      BY <2>1, <2>2, Basics DEF IInv, ContentInv
    <2>4. After(Len(got), 0) = << >>
      BY <2>2, AfterIsSeq, EmptySeq
    <2>5. Upto(w) = << >>
      BY <2>1, <2>3, <2>4, UptoIs
    <2> QED BY <2>2, <2>5 DEF Commands!Init
  <1>2. IInv' => Upto(w)' = After(Len(got'), Flushed' - begin_pos')
    <2>1. IInv => Upto(w) = After(Len(got), Flushed - begin_pos)
      BY UptoIs
    <2>2. (IInv => Upto(w) = After(Len(got), Flushed - begin_pos))'
      BY <2>1, PTL
    <2> QED BY <2>2
  <1>3. IInv /\ IInv' /\ [Next]_vars => [Commands!Next]_(Commands!vars)
    <2> SUFFICES ASSUME IInv, IInv', [Next]_vars
                 PROVE  [Commands!Next]_(Commands!vars)
      OBVIOUS
    <2>1. ASSUME Flushed' = Flushed, begin_pos' = begin_pos, got' = got
          PROVE  UNCHANGED Commands!vars
      BY <1>2, <2>1, UptoIs DEF Commands!vars
    <2>2. ASSUME Flushed' = Flushed + 1, begin_pos' = begin_pos, got' = got,
                 BackOf(chunks, end_pos) > Flushed
          PROVE  Commands!Next
      BY <1>2, <2>2, PutStep DEF Commands!Next
    <2>3. ASSUME NEW s \in Senders, Lock(s) \/ Unlock(s) \/ Signal(s)
          PROVE  UNCHANGED Commands!vars
      <3>1. Flushed' = Flushed
        BY <2>3, LockStep, UnlockStep, SignalStep
      <3> QED BY <2>1, <2>3, <3>1 DEF Lock, Unlock, Signal, queueVars, receiverVars
    <2>4. ASSUME NEW s \in Senders, WriteCommand(s)
          PROVE  UNCHANGED Commands!vars
      BY <2>1, <2>4, WriteCommandStep DEF WriteCommand, receiverVars
    <2>5. ASSUME NEW s \in Senders, Flush(s) \/ FlushSet(s)
          PROVE  [Commands!Next]_(Commands!vars)
      <3>1. Flushed' = Flushed \/ Flushed' = Flushed + 1
        BY <2>5, FlushStep1, FlushSetStep
      <3>2. begin_pos' = begin_pos /\ got' = got /\ pc[s] \in {"flush", "set"}
        BY <2>5 DEF Flush, FlushSet, queueVars, receiverVars
      <3>3. BackOf(chunks, end_pos) > Flushed
        BY <3>2, FlushFacts
      <3> QED BY <2>1, <2>2, <3>1, <3>2, <3>3
    <2>6. ASSUME CheckRead \/ Wait \/ RecvSignal \/ Destroy
          PROVE  UNCHANGED Commands!vars
      <3>1. Flushed' = Flushed
        BY <2>6, CheckReadStep, WaitStep, RecvSignalStep, DestroyStep
      <3> QED BY <2>1, <2>6, <3>1 DEF CheckRead, Wait, RecvSignal, Destroy, queueVars
    <2>7. ASSUME ReadCommand
          PROVE  Commands!Next
      BY <1>2, <2>7, ReadCommandStep, GetStep DEF Commands!Next
    <2>8. CASE UNCHANGED vars
      BY <2>1, <2>8, StutterStep DEF vars, queueVars, receiverVars
    <2> QED BY <2>3, <2>4, <2>5, <2>6, <2>7, <2>8 DEF Next, Send, Recv
  <1> QED BY <1>1, <1>3, MailboxInvariant, PTL DEF Spec, ImplementsFifo, Commands!Spec
=============================================================================

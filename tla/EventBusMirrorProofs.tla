------------------------ MODULE EventBusMirrorProofs ------------------------
(* Proofs about EventBus: the copies of the subscriptions follow each other  *)
(* along SUB -> XPUB -> XSUB -> PUB.                                         *)
EXTENDS EventBusProofs

-----------------------------------------------------------------------------
(* Queues of operations, seen by one type.                                   *)

On(op, t) == op = [on |-> TRUE, type |-> t]
Off(op, t) == op = [on |-> FALSE, type |-> t]

\* There is an operation on t in q; the last one is a subscription.
Touched(q, t) == \E i \in 1 .. Len(q) : q[i].type = t
LastOn(q, t) ==
    \E i \in 1 .. Len(q) : /\ On(q[i], t)
                           /\ \A j \in i + 1 .. Len(q) : q[j].type # t

\* The operations on t alternate.
AltSeq(q, t) ==
    \A i, j \in 1 .. Len(q) :
        /\ i < j /\ q[i].type = t /\ q[j].type = t
        /\ \A k \in 1 .. Len(q) : i < k /\ k < j => q[k].type # t
        => (On(q[i], t) <=> Off(q[j], t))

\* The first operation on t, if there is one, is a subscription; is not.
FirstOn(q, t) ==
    \A i \in 1 .. Len(q) :
        q[i].type = t /\ (\A k \in 1 .. Len(q) : k < i => q[k].type # t)
        => On(q[i], t)
FirstOff(q, t) ==
    \A i \in 1 .. Len(q) :
        q[i].type = t /\ (\A k \in 1 .. Len(q) : k < i => q[k].type # t)
        => Off(q[i], t)

\* An operation on t is a subscription or an unsubscription.
LEMMA OpCases ==
    ASSUME NEW op \in Op
    PROVE  /\ op.type \in Types
           /\ \A t : On(op, t) <=> op.type = t /\ op.on
           /\ \A t : Off(op, t) <=> op.type = t /\ ~op.on
  BY DEF Op, On, Off

\* The elements of a queue with one more operation at its end.
LEMMA AppendIndex ==
    ASSUME NEW q \in Seq(Op), NEW op \in Op, NEW a, a = Append(q, op)
    PROVE  /\ Len(q) \in Nat /\ Len(a) = Len(q) + 1
           /\ \A i \in 1 .. Len(q) : i \in 1 .. Len(a) /\ a[i] = q[i]
           /\ Len(q) + 1 \in 1 .. Len(a) /\ a[Len(q) + 1] = op
           /\ \A i \in 1 .. Len(a) :
                 (i \in 1 .. Len(q) /\ a[i] = q[i]) \/ i = Len(q) + 1
           /\ \A i \in 1 .. Len(q) : q[i] \in Op
PROOF
  <1>1. \A i \in 1 .. Len(q) : q[i] \in Op
    BY ElementOfSeq
  <1> QED BY <1>1, AppendProperties

\* What another operation at the end of the queue means for t.
LEMMA AppendTouched ==
    ASSUME NEW q \in Seq(Op), NEW op \in Op, NEW t, NEW a, a = Append(q, op)
    PROVE  /\ Touched(a, t) <=> (op.type = t \/ Touched(q, t))
           /\ op.type = t => (LastOn(a, t) <=> op.on)
           /\ op.type # t => (LastOn(a, t) <=> LastOn(q, t))
PROOF
  <1>1. Touched(a, t) <=> (op.type = t \/ Touched(q, t))
    BY AppendIndex DEF Touched
  <1>2. ASSUME op.type = t PROVE LastOn(a, t) <=> op.on
    <2>1. ASSUME op.on PROVE LastOn(a, t)
      <3>1. On(a[Len(q) + 1], t)
        BY <1>2, <2>1, AppendIndex, OpCases
      <3>2. \A j \in Len(q) + 1 + 1 .. Len(a) : FALSE
        BY AppendIndex
      <3> QED BY <3>1, <3>2, AppendIndex DEF LastOn
    <2>2. ASSUME LastOn(a, t) PROVE op.on
      <3>1. PICK i \in 1 .. Len(a) : /\ On(a[i], t)
                                     /\ \A j \in i + 1 .. Len(a) : a[j].type # t
        BY <2>2 DEF LastOn
      <3>2. i = Len(q) + 1
        <4>1. CASE i \in 1 .. Len(q)
          <5>1. Len(q) + 1 \in i + 1 .. Len(a) /\ a[Len(q) + 1].type = t
            BY <1>2, <4>1, AppendIndex
          <5> QED BY <3>1, <5>1
        <4> QED BY <4>1, AppendIndex
      <3> QED BY <3>1, <3>2, AppendIndex, OpCases
    <2> QED BY <2>1, <2>2
  <1>3. ASSUME op.type # t PROVE LastOn(a, t) <=> LastOn(q, t)
    <2>1. ASSUME LastOn(q, t) PROVE LastOn(a, t)
      <3>1. PICK i \in 1 .. Len(q) : /\ On(q[i], t)
                                     /\ \A j \in i + 1 .. Len(q) : q[j].type # t
        BY <2>1 DEF LastOn
      <3>2. ASSUME NEW j \in i + 1 .. Len(a) PROVE a[j].type # t
        <4>1. j \in 1 .. Len(a) /\ (j \in 1 .. Len(q) => j \in i + 1 .. Len(q))
          BY AppendIndex
        <4> QED BY <1>3, <3>1, <4>1, AppendIndex
      <3> QED BY <3>1, <3>2, AppendIndex DEF LastOn
    <2>2. ASSUME LastOn(a, t) PROVE LastOn(q, t)
      <3>1. PICK i \in 1 .. Len(a) : /\ On(a[i], t)
                                     /\ \A j \in i + 1 .. Len(a) : a[j].type # t
        BY <2>2 DEF LastOn
      <3>2. i # Len(q) + 1
        BY <1>3, <3>1, AppendIndex, OpCases
      <3>3. i \in 1 .. Len(q) /\ a[i] = q[i]
        BY <3>2, AppendIndex
      <3>4. ASSUME NEW j \in i + 1 .. Len(q) PROVE q[j].type # t
        <4>1. j \in i + 1 .. Len(a) /\ j \in 1 .. Len(q)
          BY <3>3, AppendIndex
        <4> QED BY <3>1, <4>1, AppendIndex
      <3> QED BY <3>1, <3>3, <3>4 DEF LastOn
    <2> QED BY <2>1, <2>2
  <1> QED BY <1>1, <1>2, <1>3

\* Another operation on t that changes what the last one left keeps the
\* alternation; so does an operation on another type.
LEMMA AppendAlt ==
    ASSUME NEW q \in Seq(Op), NEW op \in Op, NEW t, NEW a, a = Append(q, op),
           AltSeq(q, t),
           op.type = t /\ Touched(q, t) => (LastOn(q, t) <=> ~op.on)
    PROVE  /\ AltSeq(a, t)
           /\ FirstOn(q, t) /\ (op.type = t /\ ~Touched(q, t) => op.on)
                 => FirstOn(a, t)
           /\ FirstOff(q, t) /\ (op.type = t /\ ~Touched(q, t) => ~op.on)
                 => FirstOff(a, t)
PROOF
  <1>1. AltSeq(a, t)
    <2> SUFFICES ASSUME NEW i \in 1 .. Len(a), NEW j \in 1 .. Len(a),
                        i < j, a[i].type = t, a[j].type = t,
                        \A k \in 1 .. Len(a) : i < k /\ k < j => a[k].type # t
                 PROVE  On(a[i], t) <=> Off(a[j], t)
      BY DEF AltSeq
    <2>1. i \in 1 .. Len(q) /\ a[i] = q[i]
      BY AppendIndex
    <2>2. CASE j \in 1 .. Len(q) /\ a[j] = q[j]
      <3>1. \A k \in 1 .. Len(q) : i < k /\ k < j => q[k].type # t
        BY AppendIndex
      <3> QED BY <2>1, <2>2, <3>1 DEF AltSeq
    <2>3. CASE j = Len(q) + 1
      <3>1. a[j] = op /\ op.type = t /\ Touched(q, t)
        BY <2>1, <2>3, AppendIndex DEF Touched
      <3>2. ASSUME NEW k \in i + 1 .. Len(q) PROVE q[k].type # t
        <4>1. k \in 1 .. Len(q) /\ i < k /\ k < j
          BY <2>1, <2>3, AppendIndex
        <4> QED BY <4>1, AppendIndex
      <3>3. On(q[i], t) <=> LastOn(q, t)
        <4>1. On(q[i], t) => LastOn(q, t)
          BY <2>1, <3>2 DEF LastOn
        <4>2. ASSUME LastOn(q, t) PROVE On(q[i], t)
          <5>1. PICK m \in 1 .. Len(q) :
                    On(q[m], t) /\ \A k \in m + 1 .. Len(q) : q[k].type # t
            BY <4>2 DEF LastOn
          <5>2. q[m].type = t /\ q[i].type = t
            BY <2>1, <5>1, AppendIndex, OpCases
          <5>3. ~(i \in m + 1 .. Len(q)) /\ ~(m \in i + 1 .. Len(q))
            BY <3>2, <5>1, <5>2
          <5>4. i = m
            BY <2>1, <5>3, AppendIndex
          <5> QED BY <5>1, <5>4
        <4> QED BY <4>1, <4>2
      <3> QED BY <2>1, <3>1, <3>3, OpCases
    <2> QED BY <2>2, <2>3, AppendIndex
  <1>2. ASSUME NEW i \in 1 .. Len(a), a[i].type = t,
               \A k \in 1 .. Len(a) : k < i => a[k].type # t
        PROVE  \/ /\ i \in 1 .. Len(q) /\ a[i] = q[i]
                  /\ \A k \in 1 .. Len(q) : k < i => q[k].type # t
               \/ a[i] = op /\ op.type = t /\ ~Touched(q, t)
    <2>1. CASE i \in 1 .. Len(q) /\ a[i] = q[i]
      BY <1>2, <2>1, AppendIndex
    <2>2. CASE i = Len(q) + 1
      <3>1. \A k \in 1 .. Len(q) : k < i /\ k \in 1 .. Len(a) /\ a[k] = q[k]
        BY <2>2, AppendIndex
      <3> QED BY <1>2, <2>2, <3>1, AppendIndex DEF Touched
    <2> QED BY <2>1, <2>2, AppendIndex
  <1>3. op.type = t => (op.on => On(op, t)) /\ (~op.on => Off(op, t))
    BY OpCases
  <1>4. FirstOn(q, t) /\ (op.type = t /\ ~Touched(q, t) => op.on)
           => FirstOn(a, t)
    BY <1>2, <1>3 DEF FirstOn
  <1>5. FirstOff(q, t) /\ (op.type = t /\ ~Touched(q, t) => ~op.on)
           => FirstOff(a, t)
    BY <1>2, <1>3 DEF FirstOff
  <1> QED BY <1>1, <1>4, <1>5

\* The elements of a queue without its head.
LEMMA TailIndex ==
    ASSUME NEW q \in Seq(Op), q # << >>, NEW r, r = Tail(q)
    PROVE  /\ Len(q) \in Nat \ {0} /\ Len(r) = Len(q) - 1
           /\ r \in Seq(Op) /\ Head(q) = q[1] /\ Head(q) \in Op
           /\ \A i \in 1 .. Len(r) : i + 1 \in 1 .. Len(q) /\ r[i] = q[i + 1]
           /\ \A i \in 1 .. Len(q) : \/ i = 1
                                     \/ i - 1 \in 1 .. Len(r) /\ r[i - 1] = q[i]
           /\ \A i \in 1 .. Len(q) : q[i] \in Op
PROOF
  <1>1. /\ Len(q) \in Nat \ {0} /\ Len(r) = Len(q) - 1
        /\ r \in Seq(Op) /\ Head(q) = q[1] /\ Head(q) \in Op
        /\ \A i \in 1 .. Len(r) : r[i] = q[i + 1]
    BY HeadTailProperties, EmptySeq
  <1>2. \A i \in 1 .. Len(q) : i = 1 \/ i - 1 \in 1 .. Len(r)
    BY <1>1
  <1>3. \A i \in 1 .. Len(q) : i - 1 + 1 = i
    BY <1>1
  <1>4. \A i \in 1 .. Len(q) : q[i] \in Op
    BY ElementOfSeq
  <1> QED BY <1>1, <1>2, <1>3, <1>4

\* What the reading of the first operation means for t.
LEMMA TailTouched ==
    ASSUME NEW q \in Seq(Op), q # << >>, NEW t, NEW r, r = Tail(q)
    PROVE  /\ Touched(q, t) <=> (Head(q).type = t \/ Touched(r, t))
           /\ Touched(r, t) => (LastOn(r, t) <=> LastOn(q, t))
           /\ ~Touched(r, t) /\ Head(q).type = t => (LastOn(q, t) <=> Head(q).on)
PROOF
  <1>0. 1 \in 1 .. Len(q)
    BY TailIndex
  <1>1. Touched(q, t) <=> (Head(q).type = t \/ Touched(r, t))
    BY <1>0, TailIndex DEF Touched
  <1>2. ASSUME Touched(r, t) PROVE LastOn(r, t) <=> LastOn(q, t)
    <2>1. ASSUME LastOn(r, t) PROVE LastOn(q, t)
      <3>1. PICK i \in 1 .. Len(r) : /\ On(r[i], t)
                                     /\ \A j \in i + 1 .. Len(r) : r[j].type # t
        BY <2>1 DEF LastOn
      <3>2. i + 1 \in 1 .. Len(q) /\ On(q[i + 1], t)
        BY <3>1, TailIndex
      <3>3. ASSUME NEW j \in i + 1 + 1 .. Len(q) PROVE q[j].type # t
        <4>1. j \in 1 .. Len(q) /\ j # 1 /\ j - 1 \in i + 1 .. Len(r)
          BY TailIndex
        <4>2. r[j - 1] = q[j]
          BY <4>1, TailIndex
        <4> QED BY <3>1, <4>1, <4>2
      <3> QED BY <3>2, <3>3 DEF LastOn
    <2>2. ASSUME LastOn(q, t) PROVE LastOn(r, t)
      <3>1. PICK i \in 1 .. Len(q) : /\ On(q[i], t)
                                     /\ \A j \in i + 1 .. Len(q) : q[j].type # t
        BY <2>2 DEF LastOn
      <3>2. PICK m \in 1 .. Len(r) : r[m].type = t
        BY <1>2 DEF Touched
      <3>3. i # 1
        <4>1. m + 1 \in 1 + 1 .. Len(q) /\ q[m + 1].type = t
          BY <3>2, TailIndex
        <4> QED BY <3>1, <4>1
      <3>4. i - 1 \in 1 .. Len(r) /\ On(r[i - 1], t)
        BY <3>1, <3>3, TailIndex
      <3>5. ASSUME NEW j \in i - 1 + 1 .. Len(r) PROVE r[j].type # t
        <4>1. j \in 1 .. Len(r) /\ j + 1 \in i + 1 .. Len(q)
          BY TailIndex
        <4> QED BY <3>1, <4>1, TailIndex
      <3> QED BY <3>4, <3>5 DEF LastOn
    <2> QED BY <2>1, <2>2
  <1>3. ASSUME ~Touched(r, t), Head(q).type = t
        PROVE  LastOn(q, t) <=> Head(q).on
    <2>1. \A j \in 1 .. Len(q) : j = 1 \/ q[j].type # t
      <3>1. SUFFICES ASSUME NEW j \in 1 .. Len(q), j # 1 PROVE q[j].type # t
        OBVIOUS
      <3>2. j - 1 \in 1 .. Len(r) /\ r[j - 1] = q[j]
        BY <3>1, TailIndex
      <3> QED BY <1>3, <3>2 DEF Touched
    <2>2. LastOn(q, t) => Head(q).on
      <3>1. SUFFICES ASSUME LastOn(q, t) PROVE Head(q).on
        OBVIOUS
      <3>2. PICK i \in 1 .. Len(q) : On(q[i], t)
        BY <3>1 DEF LastOn
      <3>3. i = 1
        BY <2>1, <3>2, TailIndex, OpCases
      <3> QED BY <3>2, <3>3, TailIndex, OpCases
    <2>3. Head(q).on => LastOn(q, t)
      <3>1. SUFFICES ASSUME Head(q).on PROVE LastOn(q, t)
        OBVIOUS
      <3>2. On(q[1], t)
        BY <1>3, <3>1, TailIndex, OpCases
      <3>3. \A j \in 1 + 1 .. Len(q) : j \in 1 .. Len(q) /\ j # 1
        BY TailIndex
      <3> QED BY <1>0, <2>1, <3>2, <3>3 DEF LastOn
    <2> QED BY <2>2, <2>3
  <1> QED BY <1>1, <1>2, <1>3

\* What the reading of the first operation means for the alternation.
LEMMA TailAlt ==
    ASSUME NEW q \in Seq(Op), q # << >>, NEW t, NEW r, r = Tail(q),
           AltSeq(q, t)
    PROVE  /\ AltSeq(r, t)
           /\ Head(q).type # t => /\ FirstOn(q, t) => FirstOn(r, t)
                                  /\ FirstOff(q, t) => FirstOff(r, t)
           /\ Head(q).type = t => /\ FirstOn(q, t) => Head(q).on
                                  /\ FirstOff(q, t) => ~Head(q).on
                                  /\ Head(q).on => FirstOff(r, t)
                                  /\ ~Head(q).on => FirstOn(r, t)
PROOF
  <1>0. 1 \in 1 .. Len(q) /\ q[1] \in Op /\ Head(q) = q[1]
    BY TailIndex
  <1>1. AltSeq(r, t)
    <2> SUFFICES ASSUME NEW i \in 1 .. Len(r), NEW j \in 1 .. Len(r),
                        i < j, r[i].type = t, r[j].type = t,
                        \A k \in 1 .. Len(r) : i < k /\ k < j => r[k].type # t
                 PROVE  On(r[i], t) <=> Off(r[j], t)
      BY DEF AltSeq
    <2>1. /\ i + 1 \in 1 .. Len(q) /\ r[i] = q[i + 1]
          /\ j + 1 \in 1 .. Len(q) /\ r[j] = q[j + 1] /\ i + 1 < j + 1
      BY TailIndex
    <2>2. ASSUME NEW k \in 1 .. Len(q), i + 1 < k, k < j + 1
          PROVE  q[k].type # t
      <3>1. k # 1 /\ i < k - 1 /\ k - 1 < j
        BY <2>2, TailIndex
      <3>2. k - 1 \in 1 .. Len(r) /\ r[k - 1] = q[k]
        BY <3>1, TailIndex
      <3> QED BY <3>1, <3>2
    <2> QED BY <2>1, <2>2 DEF AltSeq
  <1>2. ASSUME NEW i \in 1 .. Len(r), r[i].type = t,
               \A k \in 1 .. Len(r) : k < i => r[k].type # t
        PROVE  /\ i + 1 \in 1 .. Len(q) /\ r[i] = q[i + 1] /\ 1 < i + 1
               /\ \A k \in 1 .. Len(q) : k < i + 1 => k = 1 \/ q[k].type # t
    <2>1. i + 1 \in 1 .. Len(q) /\ r[i] = q[i + 1] /\ 1 < i + 1
      BY TailIndex
    <2>2. ASSUME NEW k \in 1 .. Len(q), k < i + 1, k # 1
          PROVE  q[k].type # t
      <3>1. k - 1 \in 1 .. Len(r) /\ r[k - 1] = q[k] /\ k - 1 < i
        BY <2>2, TailIndex
      <3> QED BY <1>2, <3>1
    <2> QED BY <2>1, <2>2
  <1>3. ASSUME Head(q).type # t
        PROVE  /\ FirstOn(q, t) => FirstOn(r, t)
               /\ FirstOff(q, t) => FirstOff(r, t)
    <2>1. q[1].type # t
      BY <1>0, <1>3
    <2> QED BY <1>2, <2>1 DEF FirstOn, FirstOff
  <1>4. ASSUME Head(q).type = t
        PROVE  /\ FirstOn(q, t) => Head(q).on
               /\ FirstOff(q, t) => ~Head(q).on
    <2>1. \A k \in 1 .. Len(q) : ~(k < 1)
      BY TailIndex
    <2>2. /\ FirstOn(q, t) => On(q[1], t)
          /\ FirstOff(q, t) => Off(q[1], t)
      BY <1>0, <1>4, <2>1 DEF FirstOn, FirstOff
    <2> QED BY <1>0, <2>2, OpCases
  <1>5. ASSUME Head(q).type = t
        PROVE  /\ Head(q).on => FirstOff(r, t)
               /\ ~Head(q).on => FirstOn(r, t)
    <2>1. ASSUME NEW i \in 1 .. Len(r), r[i].type = t,
                 \A k \in 1 .. Len(r) : k < i => r[k].type # t
          PROVE  On(q[1], t) <=> Off(r[i], t)
      <3>1. /\ i + 1 \in 1 .. Len(q) /\ r[i] = q[i + 1] /\ 1 < i + 1
            /\ \A k \in 1 .. Len(q) : k < i + 1 => k = 1 \/ q[k].type # t
        BY <1>2, <2>1
      <3>2. \A k \in 1 .. Len(q) : 1 < k /\ k < i + 1 => q[k].type # t
        BY <3>1
      <3> QED BY <1>0, <1>5, <2>1, <3>1, <3>2 DEF AltSeq
    <2>2. /\ On(q[1], t) <=> Head(q).on
          /\ \A i \in 1 .. Len(r) : r[i].type = t =>
                                       (On(r[i], t) <=> ~Off(r[i], t))
      <3>1. \A i \in 1 .. Len(r) : r[i] \in Op
        BY TailIndex
      <3> QED BY <1>0, <1>5, <3>1, OpCases
    <2> QED BY <2>1, <2>2 DEF FirstOn, FirstOff
  <1> QED BY <1>1, <1>3, <1>4, <1>5

\* An operation on t with none after it decides.
LEMMA LastIs ==
    ASSUME NEW q \in Seq(Op), NEW t, NEW i \in 1 .. Len(q), q[i].type = t,
           \A k \in i + 1 .. Len(q) : q[k].type # t
    PROVE  Touched(q, t) /\ (On(q[i], t) <=> LastOn(q, t))
PROOF
  <1>0. Len(q) \in Nat /\ \A k \in 1 .. Len(q) : q[k] \in Op
    BY ElementOfSeq
  <1>1. On(q[i], t) => LastOn(q, t)
    BY DEF LastOn
  <1>2. ASSUME LastOn(q, t) PROVE On(q[i], t)
    <2>1. PICK m \in 1 .. Len(q) :
              On(q[m], t) /\ \A k \in m + 1 .. Len(q) : q[k].type # t
      BY <1>2 DEF LastOn
    <2>2. q[m].type = t
      BY <1>0, <2>1, OpCases
    <2>3. ~(i \in m + 1 .. Len(q)) /\ ~(m \in i + 1 .. Len(q))
      BY <2>1, <2>2
    <2>4. i = m
      BY <1>0, <2>3
    <2> QED BY <2>1, <2>4
  <1> QED BY <1>1, <1>2 DEF Touched

-----------------------------------------------------------------------------
(* Several operations at once: what XSUB tells a new PUB, and what XPUB      *)
(* notes for a client that left.                                             *)

\* A table that is sent touches exactly its types, and leaves them
\* subscribed.
LEMMA WritingsTouched ==
    ASSUME NEW S \in SUBSET Types, NEW s \in Writings(S, TRUE), NEW t
    PROVE  /\ Touched(s, t) <=> t \in S
           /\ t \in S => LastOn(s, t)
PROOF
  <1>1. /\ s \in Seq(Op) /\ Len(s) \in Nat
        /\ \A i \in 1 .. Len(s) : s[i].on = TRUE /\ s[i].type \in S
        /\ \A i, j \in 1 .. Len(s) : s[i].type = s[j].type => i = j
        /\ \A u \in S : \E i \in 1 .. Len(s) : s[i].type = u
    BY WritingsType
  <1>2. Touched(s, t) <=> t \in S
    BY <1>1 DEF Touched
  <1>3. ASSUME t \in S PROVE LastOn(s, t)
    <2>1. PICK i \in 1 .. Len(s) : s[i].type = t
      BY <1>1, <1>3
    <2>2. s[i] \in Op /\ s[i].on
      BY <1>1, ElementOfSeq
    <2>3. \A j \in i + 1 .. Len(s) : j \in 1 .. Len(s) /\ j # i
      BY <1>1
    <2>4. On(s[i], t)
      BY <2>1, <2>2, OpCases
    <2> QED BY <1>1, <2>1, <2>3, <2>4 DEF LastOn
  <1> QED BY <1>2, <1>3

\* The elements of a queue with such operations at its end.
LEMMA ConcatIndex ==
    ASSUME NEW q \in Seq(Op), NEW S \in SUBSET Types,
           NEW s \in Writings(S, FALSE), NEW a, a = q \o s
    PROVE  /\ Len(q) \in Nat /\ Len(a) \in Nat /\ Len(q) <= Len(a)
           /\ \A i \in 1 .. Len(q) : i \in 1 .. Len(a) /\ a[i] = q[i]
           /\ \A i \in 1 .. Len(a) :
                 \/ i \in 1 .. Len(q) /\ a[i] = q[i]
                 \/ /\ i \in Len(q) + 1 .. Len(a)
                    /\ Off(a[i], a[i].type) /\ a[i].type \in S
           /\ \A i \in 1 .. Len(a) : a[i] \in Op
PROOF
  <1>1. /\ s \in Seq(Op) /\ Len(s) \in Nat
        /\ \A i \in 1 .. Len(s) : s[i].on = FALSE /\ s[i].type \in S
        /\ \A i, j \in 1 .. Len(s) : s[i].type = s[j].type => i = j
        /\ \A u \in S : \E i \in 1 .. Len(s) : s[i].type = u
    BY WritingsType
  <1>2. /\ Len(q) \in Nat /\ Len(a) = Len(q) + Len(s) /\ a \in Seq(Op)
        /\ \A i \in 1 .. Len(q) + Len(s) :
              a[i] = IF i <= Len(q) THEN q[i] ELSE s[i - Len(q)]
    BY <1>1, ConcatProperties
  <1>3. /\ Len(a) \in Nat /\ Len(q) <= Len(a)
        /\ \A i \in 1 .. Len(q) : i \in 1 .. Len(a) /\ a[i] = q[i]
    BY <1>1, <1>2
  <1>4. \A i \in 1 .. Len(a) : a[i] \in Op
    BY <1>2, ElementOfSeq
  <1>5. \A i \in Len(q) + 1 .. Len(a) :
            i \in 1 .. Len(a) /\ i - Len(q) \in 1 .. Len(s)
            /\ a[i] = s[i - Len(q)]
    BY <1>1, <1>2
  <1>6. \A i \in Len(q) + 1 .. Len(a) :
            Off(a[i], a[i].type) /\ a[i].type \in S
    <2>1. SUFFICES ASSUME NEW i \in Len(q) + 1 .. Len(a)
                   PROVE  Off(a[i], a[i].type) /\ a[i].type \in S
      OBVIOUS
    <2>2. a[i] \in Op /\ a[i].on = FALSE /\ a[i].type \in S
      BY <1>1, <1>4, <1>5
    <2> QED BY <2>2, OpCases
  <1>9. \A i \in 1 .. Len(a) : i \in 1 .. Len(q) \/ i \in Len(q) + 1 .. Len(a)
    BY <1>1, <1>2
  <1> QED BY <1>2, <1>3, <1>4, <1>6, <1>9

\* Exactly one operation on t comes after the first m of a.
Once(a, m, t) ==
    \E n \in m + 1 .. Len(a) :
        /\ a[n].type = t
        /\ \A k \in m + 1 .. Len(a) : a[k].type = t => k = n

\* Each of their types occurs there exactly once.
LEMMA ConcatOnce ==
    ASSUME NEW q \in Seq(Op), NEW S \in SUBSET Types,
           NEW s \in Writings(S, FALSE), NEW a, a = q \o s, NEW t \in S
    PROVE  Once(a, Len(q), t)
PROOF
  <1>1. /\ s \in Seq(Op) /\ Len(s) \in Nat
        /\ \A i, j \in 1 .. Len(s) : s[i].type = s[j].type => i = j
        /\ \A u \in S : \E i \in 1 .. Len(s) : s[i].type = u
    BY WritingsType
  <1>2. /\ Len(q) \in Nat /\ Len(a) = Len(q) + Len(s)
        /\ \A i \in 1 .. Len(q) + Len(s) :
              a[i] = IF i <= Len(q) THEN q[i] ELSE s[i - Len(q)]
    BY <1>1, ConcatProperties
  <1>3. \A i \in Len(q) + 1 .. Len(a) :
            i - Len(q) \in 1 .. Len(s) /\ a[i] = s[i - Len(q)]
    BY <1>1, <1>2
  <1>4. PICK m \in 1 .. Len(s) : s[m].type = t
    BY <1>1
  <1>5. /\ Len(q) + m \in Len(q) + 1 .. Len(a)
        /\ Len(q) + m - Len(q) = m
    BY <1>1, <1>2
  <1>6. a[Len(q) + m].type = t
    BY <1>3, <1>4, <1>5
  <1>7. ASSUME NEW k \in Len(q) + 1 .. Len(a), a[k].type = t
        PROVE  k = Len(q) + m
    <2>1. k - Len(q) \in 1 .. Len(s) /\ s[k - Len(q)].type = s[m].type
      BY <1>3, <1>4, <1>7
    <2>2. k - Len(q) = m
      BY <1>1, <2>1
    <2> QED BY <1>2, <2>2
  <1> QED BY <1>5, <1>6, <1>7 DEF Once

\* What they mean for a type that is among them.
LEMMA ConcatIn ==
    ASSUME NEW q \in Seq(Op), NEW S \in SUBSET Types,
           NEW s \in Writings(S, FALSE), NEW a, a = q \o s, NEW t \in S
    PROVE  /\ Touched(a, t) /\ ~LastOn(a, t)
           /\ AltSeq(q, t) /\ (Touched(q, t) => LastOn(q, t)) => AltSeq(a, t)
           /\ FirstOff(q, t) => FirstOff(a, t)
           /\ FirstOn(q, t) /\ Touched(q, t) => FirstOn(a, t)
PROOF
  <1>a. Once(a, Len(q), t)
    BY ConcatOnce
  <1>0. PICK n \in Len(q) + 1 .. Len(a) :
            /\ a[n].type = t
            /\ \A k \in Len(q) + 1 .. Len(a) : a[k].type = t => k = n
    BY <1>a DEF Once
  <1>1. n \in 1 .. Len(a)
    BY ConcatIndex
  <1>2. Touched(a, t)
    BY <1>0, <1>1 DEF Touched
  <1>3. \A k \in n + 1 .. Len(a) : a[k].type # t
    <2>1. \A k \in n + 1 .. Len(a) : k \in Len(q) + 1 .. Len(a) /\ k # n
      BY ConcatIndex
    <2> QED BY <1>0, <2>1
  <1>4. ~LastOn(a, t)
    <2>1. SUFFICES ASSUME LastOn(a, t) PROVE FALSE
      OBVIOUS
    <2>2. PICK m \in 1 .. Len(a) :
              On(a[m], t) /\ \A k \in m + 1 .. Len(a) : a[k].type # t
      BY <2>1 DEF LastOn
    <2>3. a[m].type = t /\ ~Off(a[m], t)
      BY <2>2, ConcatIndex, OpCases
    <2>4. m \in 1 .. Len(q)
      BY <2>3, ConcatIndex, ZenonT(40)
    <2>5. n \in m + 1 .. Len(a)
      BY <2>4, ConcatIndex
    <2> QED BY <1>0, <2>2, <2>5
  <1>5. ASSUME AltSeq(q, t), Touched(q, t) => LastOn(q, t) PROVE AltSeq(a, t)
    <2> SUFFICES ASSUME NEW i \in 1 .. Len(a), NEW j \in 1 .. Len(a),
                        i < j, a[i].type = t, a[j].type = t,
                        \A k \in 1 .. Len(a) : i < k /\ k < j => a[k].type # t
                 PROVE  On(a[i], t) <=> Off(a[j], t)
      BY DEF AltSeq
    <2>1. i \in 1 .. Len(q) /\ a[i] = q[i]
      <3>1. SUFFICES ASSUME i \in Len(q) + 1 .. Len(a) PROVE FALSE
        BY ConcatIndex
      <3>2. j \in Len(q) + 1 .. Len(a)
        BY <3>1, ConcatIndex
      <3>3. i = j
        BY <1>0, <3>1, <3>2
      <3> QED BY <3>3, ConcatIndex
    <2>2. CASE j \in 1 .. Len(q) /\ a[j] = q[j]
      <3>1. \A k \in 1 .. Len(q) : i < k /\ k < j => q[k].type # t
        BY ConcatIndex
      <3> QED BY <1>5, <2>1, <2>2, <3>1 DEF AltSeq
    <2>3. CASE j \in Len(q) + 1 .. Len(a) /\ Off(a[j], a[j].type)
      <3>1. ASSUME NEW k \in i + 1 .. Len(q) PROVE q[k].type # t
        <4>1. k \in 1 .. Len(q) /\ i < k /\ k < j
          BY <2>1, <2>3, ConcatIndex
        <4> QED BY <4>1, ConcatIndex
      <3>2. On(q[i], t)
        BY <1>5, <2>1, <3>1, LastIs
      <3> QED BY <2>1, <2>3, <3>2
    <2> QED BY <2>2, <2>3, ConcatIndex
  <1>6. ASSUME NEW i \in 1 .. Len(a), a[i].type = t,
               \A k \in 1 .. Len(a) : k < i => a[k].type # t
        PROVE  \/ /\ i \in 1 .. Len(q) /\ a[i] = q[i]
                  /\ \A k \in 1 .. Len(q) : k < i => q[k].type # t
               \/ Off(a[i], t) /\ ~Touched(q, t)
    <2>1. CASE i \in 1 .. Len(q) /\ a[i] = q[i]
      BY <1>6, <2>1, ConcatIndex
    <2>2. CASE i \in Len(q) + 1 .. Len(a) /\ Off(a[i], a[i].type)
      <3>1. \A k \in 1 .. Len(q) : k < i /\ k \in 1 .. Len(a) /\ a[k] = q[k]
        BY <2>2, ConcatIndex
      <3> QED BY <1>6, <2>2, <3>1 DEF Touched
    <2> QED BY <2>1, <2>2, ConcatIndex
  <1>7. FirstOff(q, t) => FirstOff(a, t)
    BY <1>6 DEF FirstOff
  <1>8. FirstOn(q, t) /\ Touched(q, t) => FirstOn(a, t)
    BY <1>6 DEF FirstOn
  <1> QED BY <1>2, <1>4, <1>5, <1>7, <1>8

\* What they mean for another type.
LEMMA ConcatOut ==
    ASSUME NEW q \in Seq(Op), NEW S \in SUBSET Types,
           NEW s \in Writings(S, FALSE), NEW a, a = q \o s,
           NEW t, t \notin S
    PROVE  /\ Touched(a, t) <=> Touched(q, t)
           /\ LastOn(a, t) <=> LastOn(q, t)
           /\ AltSeq(q, t) => AltSeq(a, t)
           /\ FirstOff(q, t) => FirstOff(a, t)
           /\ FirstOn(q, t) => FirstOn(a, t)
PROOF
  <1>0. /\ \A i \in 1 .. Len(a) :
              \/ i \in 1 .. Len(q) /\ a[i] = q[i]
              \/ /\ i \in Len(q) + 1 .. Len(a)
                 /\ Off(a[i], a[i].type) /\ a[i].type \in S
        /\ \A i \in 1 .. Len(a) : a[i] \in Op
    BY ConcatIndex
  <1>1. \A i \in 1 .. Len(a) : a[i].type = t => i \in 1 .. Len(q)
    BY <1>0
  <1>2. \A i \in 1 .. Len(q) : i \in 1 .. Len(a) /\ a[i] = q[i]
    BY ConcatIndex
  <1>3. Touched(a, t) <=> Touched(q, t)
    BY <1>1, <1>2 DEF Touched
  <1>4. LastOn(a, t) => LastOn(q, t)
    <2>1. SUFFICES ASSUME LastOn(a, t) PROVE LastOn(q, t)
      OBVIOUS
    <2>2. PICK i \in 1 .. Len(a) :
              On(a[i], t) /\ \A k \in i + 1 .. Len(a) : a[k].type # t
      BY <2>1 DEF LastOn
    <2>3. i \in 1 .. Len(q)
      BY <1>0, <1>1, <2>2, OpCases
    <2>4. \A k \in i + 1 .. Len(q) : k \in i + 1 .. Len(a) /\ k \in 1 .. Len(q)
      BY <2>3, ConcatIndex
    <2> QED BY <1>2, <2>2, <2>3, <2>4 DEF LastOn
  <1>5. LastOn(q, t) => LastOn(a, t)
    <2>1. SUFFICES ASSUME LastOn(q, t) PROVE LastOn(a, t)
      OBVIOUS
    <2>2. PICK i \in 1 .. Len(q) :
              On(q[i], t) /\ \A k \in i + 1 .. Len(q) : q[k].type # t
      BY <2>1 DEF LastOn
    <2>3. ASSUME NEW k \in i + 1 .. Len(a) PROVE a[k].type # t
      <3>1. k \in 1 .. Len(a) /\ (k \in 1 .. Len(q) => k \in i + 1 .. Len(q))
        BY ConcatIndex
      <3> QED BY <1>1, <1>2, <2>2, <3>1
    <2> QED BY <1>2, <2>2, <2>3 DEF LastOn
  <1>6. AltSeq(q, t) => AltSeq(a, t)
    BY <1>1, <1>2 DEF AltSeq
  <1>7. FirstOff(q, t) => FirstOff(a, t)
    BY <1>1, <1>2 DEF FirstOff
  <1>8. FirstOn(q, t) => FirstOn(a, t)
    BY <1>1, <1>2 DEF FirstOn
  <1> QED BY <1>3, <1>4, <1>5, <1>6, <1>7, <1>8

-----------------------------------------------------------------------------
(* From the SUB sockets to XPUB.                                             *)

MirrorSub(c, t) ==
    (IF Touched(subs[c].q, t) THEN LastOn(subs[c].q, t) ELSE c \in xpub[t])
        <=> t \in table[c]

AltSub(c, t) ==
    /\ AltSeq(subs[c].q, t)
    /\ c \in xpub[t] => FirstOff(subs[c].q, t)
    /\ c \notin xpub[t] => FirstOn(subs[c].q, t)

SubInv ==
    /\ open \cap gone = {}
    /\ \A c \in Clients \ (gone \cup lost), t \in Types : MirrorSub(c, t)
    /\ \A c \in Clients \ lost, t \in Types : AltSub(c, t)

\* zmq_setsockopt: an operation that is written changes what the queue says.
LEMMA SubSetSockOpt ==
    ASSUME TInv, SubInv, NEW c \in Clients, NEW t \in Types,
           Subscribe(c, t) \/ Unsubscribe(c, t)
    PROVE  SubInv'
PROOF
  <1> DEFINE on == t \notin table[c]
             op == [on |-> on, type |-> t]
  <1>1. /\ UNCHANGED <<open, gone, xpub>> /\ c \in open
        /\ subs' = [subs EXCEPT ![c] = Write(subs[c], op)]
        /\ lost' = IF Full(subs[c]) THEN lost \cup {c} ELSE lost
    BY DEF Subscribe, Unsubscribe, SetSockOpt
  <1>2. \A u \in Types : u \in table'[c] <=> IF u = t THEN on ELSE u \in table[c]
    <2>1. table \in [Clients -> SUBSET Types]
      BY DEF TInv, TypeOK
    <2>2. CASE Subscribe(c, t)
      <3>1. on /\ table' = [table EXCEPT ![c] = table[c] \cup {t}]
        BY <2>2 DEF Subscribe
      <3> QED BY <2>1, <3>1
    <2>3. CASE Unsubscribe(c, t)
      <3>1. ~on /\ table' = [table EXCEPT ![c] = table[c] \ {t}]
        BY <2>3 DEF Unsubscribe
      <3> QED BY <2>1, <3>1
    <2> QED BY <2>2, <2>3
  <1>3. \A d \in Clients \ {c} : table'[d] = table[d] /\ subs'[d] = subs[d]
    BY <1>1 DEF Subscribe, Unsubscribe, TInv, TypeOK
  <1>4. op \in Op /\ op.type = t /\ (op.on <=> on)
    BY DEF Op
  <1>5. subs[c].q \in Seq(Op) /\ ~Full(subs[c]) => subs'[c].q = Append(subs[c].q, op)
    BY <1>1, PipesOK DEF Write, Pipe
  <1>6. subs[c].q \in Seq(Op)
    BY PipesOK DEF Pipe
  <1> HIDE DEF op, on
  <1>7. ASSUME NEW d \in Clients, d \notin lost', NEW u \in Types
        PROVE  (d \notin gone => MirrorSub(d, u)') /\ AltSub(d, u)'
    <2>1. d \notin lost /\ AltSub(d, u) /\ (d \notin gone => MirrorSub(d, u))
      BY <1>1, <1>7 DEF SubInv
    <2>2. CASE d # c
      BY <1>1, <1>3, <2>1, <2>2 DEF MirrorSub, AltSub
    <2>3. CASE d = c
      <3>1. subs'[c].q = Append(subs[c].q, op) /\ c \notin gone /\ MirrorSub(c, u)
            /\ AltSub(c, u)
        BY <1>1, <1>5, <1>6, <1>7, <2>1, <2>3 DEF SubInv
      <3>2. /\ Touched(subs'[c].q, u) <=> (t = u \/ Touched(subs[c].q, u))
            /\ t = u => (LastOn(subs'[c].q, u) <=> on)
            /\ t # u => (LastOn(subs'[c].q, u) <=> LastOn(subs[c].q, u))
        <4> DEFINE q == subs[c].q
                   a == Append(q, op)
        <4>1. q \in Seq(Op) /\ op \in Op
          BY <1>4, <1>6
        <4> HIDE DEF q
        <4>2. /\ Touched(a, u) <=> (op.type = u \/ Touched(q, u))
              /\ op.type = u => (LastOn(a, u) <=> op.on)
              /\ op.type # u => (LastOn(a, u) <=> LastOn(q, u))
          BY <4>1, AppendTouched
        <4> HIDE DEF a
        <4>3. subs'[c].q = a
          BY <3>1 DEF a, q
        <4> QED BY <1>4, <4>2, <4>3 DEF q
      <3>3. MirrorSub(c, u)'
        BY <1>1, <1>2, <3>1, <3>2 DEF MirrorSub
      <3>4. t = u => (Touched(subs[c].q, u) => (LastOn(subs[c].q, u) <=> ~on))
                     /\ (~Touched(subs[c].q, u) => (c \in xpub[u] <=> ~on))
        BY <3>1 DEF MirrorSub, on
      <3>5. /\ AltSeq(subs'[c].q, u)
            /\ FirstOn(subs[c].q, u) /\ (t = u /\ ~Touched(subs[c].q, u) => on)
                  => FirstOn(subs'[c].q, u)
            /\ FirstOff(subs[c].q, u) /\ (t = u /\ ~Touched(subs[c].q, u) => ~on)
                  => FirstOff(subs'[c].q, u)
        BY <1>4, <1>6, <3>1, <3>4, AppendAlt, ZenonT(40) DEF AltSub
      <3>6. AltSub(c, u)'
        BY <1>1, <3>1, <3>4, <3>5 DEF AltSub
      <3> QED BY <2>3, <3>3, <3>6
    <2> QED BY <2>2, <2>3
  <1> QED BY <1>1, <1>7 DEF SubInv

\* XPUB reads an operation: it is one that changes XPUB's table.
LEMMA SubRead ==
    ASSUME TInv, SubInv, NEW c \in Clients, ReadSubscription(c)
    PROVE  SubInv'
PROOF
  <1> DEFINE op == Head(subs[c].q)
  <1>1. UNCHANGED <<open, gone, table, lost>>
    BY DEF ReadSubscription, clientVars, lossVars
  <1>2. /\ subs[c].q \in Seq(Op) /\ subs[c].q # << >>
        /\ subs'[c].q = Tail(subs[c].q)
        /\ \A d \in Clients \ {c} : subs'[d] = subs[d]
    BY PipesOK DEF ReadSubscription, Read, Pipe
  <1>3. op \in Op /\ op.type \in Types
    BY <1>2, HeadOp
  <1>4. /\ \A u \in Types \ {op.type} : xpub'[u] = xpub[u]
        /\ c \in xpub'[op.type] <=> op.on
        /\ \A u \in Types, d \in Clients \ {c} : d \in xpub'[u] <=> d \in xpub[u]
    BY <1>3 DEF ReadSubscription, TInv, TypeOK
  <1>5. ASSUME NEW d \in Clients, d \notin lost, NEW u \in Types
        PROVE  (d \notin gone => MirrorSub(d, u)') /\ AltSub(d, u)'
    <2>1. AltSub(d, u) /\ (d \notin gone => MirrorSub(d, u))
      BY <1>5 DEF SubInv
    <2>2. CASE d # c
      BY <1>1, <1>2, <1>4, <2>1, <2>2 DEF MirrorSub, AltSub
    <2>3. CASE d = c
      <3> HIDE DEF op
      <3>1. /\ Touched(subs[c].q, u) <=> (op.type = u \/ Touched(subs'[c].q, u))
            /\ Touched(subs'[c].q, u)
                  => (LastOn(subs'[c].q, u) <=> LastOn(subs[c].q, u))
            /\ ~Touched(subs'[c].q, u) /\ op.type = u
                  => (LastOn(subs[c].q, u) <=> op.on)
        BY <1>2, TailTouched DEF op
      <3>2. d \notin gone => MirrorSub(c, u)'
        BY <1>1, <1>4, <2>1, <2>3, <3>1 DEF MirrorSub
      <3>3. /\ AltSeq(subs'[c].q, u)
            /\ op.type # u => /\ FirstOn(subs[c].q, u) => FirstOn(subs'[c].q, u)
                              /\ FirstOff(subs[c].q, u) => FirstOff(subs'[c].q, u)
            /\ op.type = u => /\ op.on => FirstOff(subs'[c].q, u)
                              /\ ~op.on => FirstOn(subs'[c].q, u)
        <4>1. AltSeq(subs[c].q, u)
          BY <2>1, <2>3 DEF AltSub
        <4> DEFINE q == subs[c].q
        <4>2. q \in Seq(Op) /\ q # << >> /\ AltSeq(q, u)
          BY <1>2, <4>1
        <4> HIDE DEF q
        <4>3. /\ AltSeq(Tail(q), u)
              /\ Head(q).type # u => /\ FirstOn(q, u) => FirstOn(Tail(q), u)
                                     /\ FirstOff(q, u) => FirstOff(Tail(q), u)
              /\ Head(q).type = u => /\ Head(q).on => FirstOff(Tail(q), u)
                                     /\ ~Head(q).on => FirstOn(Tail(q), u)
          BY <4>2, TailAlt
        <4> QED BY <1>2, <4>3 DEF op, q
      <3>4. AltSub(c, u)'
        BY <1>4, <2>1, <2>3, <3>3 DEF AltSub
      <3> QED BY <2>3, <3>2, <3>4
    <2> QED BY <2>2, <2>3
  <1> QED BY <1>1, <1>5 DEF SubInv

\* Any step keeps the first part of the chain.
LEMMA SubStep == TInv /\ SubInv /\ [Next]_vars => SubInv'
PROOF
  <1> SUFFICES ASSUME TInv, SubInv, [Next]_vars PROVE SubInv'
    OBVIOUS
  <1>1. ASSUME UNCHANGED <<table, xpub, lost>>, gone \subseteq gone',
               (open \cap gone = {})',
               \A d \in Clients : subs'[d].q = subs[d].q
        PROVE  SubInv'
    BY <1>1 DEF SubInv, MirrorSub, AltSub
  <1>2. CASE UNCHANGED vars
    BY <1>1, <1>2 DEF vars, clientVars, ctlVars, lossVars, SubInv
  <1>3. ASSUME NEW c \in Clients, HandleEvent(c) \/ HandleTimeout(c)
        PROVE  SubInv'
    <2>1. \A d \in Clients : subs'[d].q = subs[d].q
      BY <1>3, PipesOK DEF HandleEvent, HandleTimeout, Sync
    <2> QED BY <1>1, <1>3, <2>1 DEF HandleEvent, HandleTimeout, SubInv,
               clientVars, lossVars
  <1>4. ASSUME NEW c \in Clients, Close(c) PROVE SubInv'
    <2>1. /\ UNCHANGED <<subs, xpub, lost>>
          /\ open' = open \ {c} /\ gone' = gone \cup {c}
          /\ \A d \in Clients \ {c} : table'[d] = table[d]
      BY <1>4 DEF Close, TInv, TypeOK, lossVars
    <2> QED BY <2>1 DEF SubInv, MirrorSub, AltSub
  <1>5. ASSUME NEW c \in Clients, DetachSub(c) PROVE SubInv'
    <2>1. /\ UNCHANGED <<open, gone, table, subs, lost>>
          /\ \A u \in Types, d \in Clients \ {c} :
                d \in xpub'[u] <=> d \in xpub[u]
          /\ c \in gone /\ subs[c].q = << >>
      BY <1>5 DEF DetachSub, clientVars, lossVars
    <2>2. \A u \in Types : AltSub(c, u)'
      BY <2>1 DEF AltSub, AltSeq, FirstOn, FirstOff
    <2>3. ASSUME NEW d \in Clients \ {c}, NEW u \in Types
          PROVE  (AltSub(d, u) => AltSub(d, u)')
                 /\ (MirrorSub(d, u) => MirrorSub(d, u)')
      BY <2>1 DEF AltSub, MirrorSub
    <2> QED BY <2>1, <2>2, <2>3 DEF SubInv
  <1>6. CASE \E c \in Clients : Connect(c)
    BY <1>1, <1>6 DEF Connect, SubInv, ctlVars, lossVars
  <1>7. CASE \E c \in Clients : \E t \in Types : PublishEvent(c, t)
    BY <1>1, <1>7 DEF PublishEvent, SubInv, clientVars, lossVars
  <1>8. CASE \E c \in Clients : AttachPub(c)
    BY <1>1, <1>8 DEF AttachPub, SubInv, clientVars, lossVars
  <1>9. CASE Begin \/ ForwardEvent \/ ForwardNote
    BY <1>1, <1>9 DEF Begin, ForwardEvent, ForwardNote, SubInv,
       clientVars, ctlVars, lossVars
  <1>10. CASE Poll
    BY <1>1, <1>10, PollSteps DEF SubInv, clientVars
  <1> QED BY <1>2, <1>3, <1>4, <1>5, <1>6, <1>7, <1>8, <1>9, <1>10, SubSetSockOpt,
             SubRead DEF Next

-----------------------------------------------------------------------------
(* From XPUB to XSUB, as long as no SUB dropped a subscription.              *)

MirrorPending(t) ==
    (IF Touched(pending, t) THEN LastOn(pending, t) ELSE xsub[t] > 0)
        <=> xpub[t] # {}

AltPending(t) ==
    /\ xsub[t] \in {0, 1}
    /\ AltSeq(pending, t)
    /\ xsub[t] = 1 => FirstOff(pending, t)
    /\ xsub[t] = 0 => FirstOn(pending, t)

PendInv == lost = {} => \A t \in Types : MirrorPending(t) /\ AltPending(t)

\* XPUB reads an operation and notes it when its table gains or loses t.
LEMMA PendRead ==
    ASSUME TInv, SubInv, PendInv, NEW c \in Clients, ReadSubscription(c),
           lost = {}, NEW t \in Types
    PROVE  (MirrorPending(t) /\ AltPending(t))'
PROOF
  <1> DEFINE q == subs[c].q
             op == Head(q)
             u == op.type
             now == IF op.on THEN xpub[u] \cup {c} ELSE xpub[u] \ {c}
             notify == IF op.on THEN xpub[u] = {}
                       ELSE now = {} \/ c \notin xpub[u]
  <1>1. /\ q \in Seq(Op) /\ q # << >> /\ pending \in Seq(Op)
        /\ xpub \in [Types -> SUBSET Clients]
    BY PipesOK DEF ReadSubscription, Pipe, TInv, TypeOK
  <1>2. op \in Op /\ u \in Types
    BY <1>1, HeadOp
  <1>3. /\ xpub' = [xpub EXCEPT ![u] = now]
        /\ pending' = IF notify THEN Append(pending, op) ELSE pending
        /\ xsub' = xsub
    BY DEF ReadSubscription
  <1>4. op.on <=> c \notin xpub[u]
    <2>1. AltSub(c, u)
      BY <1>2 DEF SubInv
    <2>2. AltSeq(q, u)
      BY <2>1 DEF AltSub
    <2>3. (FirstOn(q, u) => op.on) /\ (FirstOff(q, u) => ~op.on)
      <3> HIDE DEF q
      <3>1. \A v : AltSeq(q, v) /\ Head(q).type = v
                     => /\ FirstOn(q, v) => Head(q).on
                        /\ FirstOff(q, v) => ~Head(q).on
        BY <1>1, TailAlt
      <3> QED BY <2>2, <3>1
    <2> QED BY <2>1, <2>3 DEF AltSub
  <1>5. MirrorPending(t) /\ AltPending(t) /\ MirrorPending(u) /\ AltPending(u)
    BY <1>2 DEF PendInv
  <1>6. /\ xpub'[u] = now
        /\ t # u => xpub'[t] = xpub[t]
    BY <1>1, <1>2, <1>3
  <1>7. CASE ~notify
    <2>1. pending' = pending
      BY <1>3, <1>7
    <2>2. xpub'[u] # {} <=> xpub[u] # {}
      BY <1>4, <1>6, <1>7
    <2> QED BY <1>3, <1>5, <1>6, <2>1, <2>2 DEF MirrorPending, AltPending
  <1>8. CASE notify
    <2> DEFINE a == Append(pending, op)
    <2>1. pending' = a
      BY <1>3, <1>8
    <2>2. (xpub[u] # {} <=> ~op.on) /\ (xpub'[u] # {} <=> op.on)
      BY <1>4, <1>6, <1>8
    <2> HIDE DEF op, u, now, notify
    <2>3. /\ Touched(a, t) <=> (op.type = t \/ Touched(pending, t))
          /\ op.type = t => (LastOn(a, t) <=> op.on)
          /\ op.type # t => (LastOn(a, t) <=> LastOn(pending, t))
      BY <1>1, <1>2, AppendTouched
    <2>4. AltSeq(pending, t)
      BY <1>5 DEF AltPending
    <2>5. op.type = t =>
             /\ Touched(pending, t) => (LastOn(pending, t) <=> ~op.on)
             /\ ~Touched(pending, t) => (xsub[t] > 0 <=> ~op.on)
      BY <1>5, <2>2 DEF MirrorPending, u
    <2>6. /\ AltSeq(a, t)
          /\ FirstOn(pending, t)
             /\ (op.type = t /\ ~Touched(pending, t) => op.on) => FirstOn(a, t)
          /\ FirstOff(pending, t)
             /\ (op.type = t /\ ~Touched(pending, t) => ~op.on) => FirstOff(a, t)
      BY <1>1, <1>2, <2>4, <2>5, AppendAlt
    <2> HIDE DEF a
    <2>7. MirrorPending(t)'
      BY <1>3, <1>5, <1>6, <2>1, <2>2, <2>3 DEF MirrorPending, u
    <2>8. AltPending(t)'
      <3>1. xsub'[t] = xsub[t] /\ xsub[t] \in {0, 1} /\ AltSeq(pending', t)
        BY <1>3, <1>5, <2>1, <2>6 DEF AltPending
      <3>2. ASSUME xsub[t] = 1 PROVE FirstOff(pending', t)
        <4>1. FirstOff(pending, t) /\ xsub[t] > 0
          BY <1>5, <3>2 DEF AltPending
        <4> QED BY <2>1, <2>5, <2>6, <4>1
      <3>3. ASSUME xsub[t] = 0 PROVE FirstOn(pending', t)
        <4>1. FirstOn(pending, t) /\ ~(xsub[t] > 0)
          BY <1>5, <3>3 DEF AltPending
        <4> QED BY <2>1, <2>5, <2>6, <4>1
      <3> QED BY <3>1, <3>2, <3>3 DEF AltPending
    <2> QED BY <2>7, <2>8
  <1> QED BY <1>7, <1>8

\* XPUB forgets a client that left and notes the types only it held.
LEMMA PendDetach ==
    ASSUME TInv, PendInv, NEW c \in Clients, DetachSub(c), lost = {},
           NEW t \in Types
    PROVE  (MirrorPending(t) /\ AltPending(t))'
PROOF
  <1> DEFINE S == {u \in Types : xpub[u] = {c}}
  <1>1. PICK s \in Writings(S, FALSE) : pending' = pending \o s
    BY DEF DetachSub
  <1>2. xsub' = xsub /\ xpub'[t] = xpub[t] \ {c}
    BY DEF DetachSub
  <1>3. pending \in Seq(Op) /\ S \in SUBSET Types
    BY DEF TInv, TypeOK
  <1>4. MirrorPending(t) /\ AltPending(t)
    BY DEF PendInv
  <1>5. /\ t \in S => xpub[t] # {} /\ xpub'[t] = {}
        /\ t \notin S => (xpub'[t] # {} <=> xpub[t] # {})
    BY <1>2
  <1> HIDE DEF S
  <1>6. CASE t \in S
    <2>1. /\ Touched(pending', t) /\ ~LastOn(pending', t)
          /\ AltSeq(pending, t) /\ (Touched(pending, t) => LastOn(pending, t))
                => AltSeq(pending', t)
          /\ FirstOff(pending, t) => FirstOff(pending', t)
          /\ FirstOn(pending, t) /\ Touched(pending, t) => FirstOn(pending', t)
      BY <1>1, <1>3, <1>6, ConcatIn
    <2>2. MirrorPending(t)'
      BY <1>5, <1>6, <2>1 DEF MirrorPending
    <2>3. /\ Touched(pending, t) => LastOn(pending, t)
          /\ ~Touched(pending, t) => xsub[t] > 0
      BY <1>4, <1>5, <1>6 DEF MirrorPending
    <2>4. AltPending(t)'
      BY <1>2, <1>4, <2>1, <2>3 DEF AltPending
    <2> QED BY <2>2, <2>4
  <1>7. CASE t \notin S
    <2>1. /\ Touched(pending', t) <=> Touched(pending, t)
          /\ LastOn(pending', t) <=> LastOn(pending, t)
          /\ AltSeq(pending, t) => AltSeq(pending', t)
          /\ FirstOff(pending, t) => FirstOff(pending', t)
          /\ FirstOn(pending, t) => FirstOn(pending', t)
      BY <1>1, <1>3, <1>7, ConcatOut
    <2>2. MirrorPending(t)'
      BY <1>2, <1>4, <1>5, <1>7, <2>1 DEF MirrorPending
    <2>3. AltPending(t)'
      BY <1>2, <1>4, <2>1 DEF AltPending
    <2> QED BY <2>2, <2>3
  <1> QED BY <1>6, <1>7

\* The proxy passes a note to XSUB: it is one that changes XSUB's table.
LEMMA PendForward ==
    ASSUME TInv, PendInv, ForwardNote, lost = {}, NEW t \in Types
    PROVE  (MirrorPending(t) /\ AltPending(t))'
PROOF
  <1> DEFINE op == Head(pending)
             r == Tail(pending)
  <1>1. pending \in Seq(Op) /\ pending # << >> /\ xsub \in [Types -> Nat]
    BY DEF ForwardNote, TInv, TypeOK, TurnOK
  <1>2. op \in Op /\ op.type \in Types
    BY <1>1, HeadOp
  <1>3. MirrorPending(t) /\ AltPending(t) /\ AltSeq(pending, t)
    BY DEF PendInv, AltPending
  <1>4. /\ Touched(pending, t) <=> (op.type = t \/ Touched(r, t))
        /\ Touched(r, t) => (LastOn(r, t) <=> LastOn(pending, t))
        /\ ~Touched(r, t) /\ op.type = t => (LastOn(pending, t) <=> op.on)
    BY <1>1, TailTouched
  <1>5. /\ AltSeq(r, t)
        /\ op.type # t => /\ FirstOn(pending, t) => FirstOn(r, t)
                          /\ FirstOff(pending, t) => FirstOff(r, t)
        /\ op.type = t => /\ FirstOn(pending, t) => op.on
                          /\ FirstOff(pending, t) => ~op.on
                          /\ op.on => FirstOff(r, t)
                          /\ ~op.on => FirstOn(r, t)
    BY <1>1, <1>3, TailAlt
  <1>6. /\ pending' = r /\ xpub' = xpub
        /\ xsub' = [xsub EXCEPT ![op.type] =
                      IF op.on THEN xsub[op.type] + 1
                      ELSE IF xsub[op.type] = 0 THEN 0 ELSE xsub[op.type] - 1]
    BY DEF ForwardNote
  <1> HIDE DEF op, r
  <1>7. /\ op.type # t => xsub'[t] = xsub[t]
        /\ op.type = t /\ op.on => xsub[t] = 0 /\ xsub'[t] = 1
        /\ op.type = t /\ ~op.on => xsub[t] = 1 /\ xsub'[t] = 0
    <2>1. xsub[t] \in {0, 1}
      BY <1>3 DEF AltPending
    <2>2. op.type = t => (op.on <=> xsub[t] = 0)
      BY <1>3, <1>5, <2>1 DEF AltPending
    <2> QED BY <1>1, <1>2, <1>6, <2>1, <2>2
  <1>8. MirrorPending(t)'
    <2>1. CASE op.type # t
      BY <1>3, <1>4, <1>6, <1>7, <2>1 DEF MirrorPending
    <2>2. CASE op.type = t
      BY <1>3, <1>4, <1>6, <1>7, <2>2 DEF MirrorPending
    <2> QED BY <2>1, <2>2
  <1>9. AltPending(t)'
    <2>1. CASE op.type # t
      BY <1>3, <1>5, <1>6, <1>7, <2>1 DEF AltPending
    <2>2. CASE op.type = t
      BY <1>5, <1>6, <1>7, <2>2 DEF AltPending
    <2> QED BY <2>1, <2>2
  <1> QED BY <1>8, <1>9

\* Any step keeps the second part of the chain.
LEMMA PendStep == TInv /\ SubInv /\ PendInv /\ [Next]_vars => PendInv'
PROOF
  <1> SUFFICES ASSUME TInv, SubInv, PendInv, [Next]_vars PROVE PendInv'
    OBVIOUS
  <1>1. ASSUME UNCHANGED <<pending, xpub, xsub>>, lost \subseteq lost'
        PROVE  PendInv'
    BY <1>1 DEF PendInv, MirrorPending, AltPending
  <1>2. CASE UNCHANGED vars
    BY <1>1, <1>2 DEF vars, ctlVars, lossVars
  <1>3. ASSUME NEW c \in Clients, NEW t \in Types,
               Subscribe(c, t) \/ Unsubscribe(c, t) \/ PublishEvent(c, t)
        PROVE  PendInv'
    <2>1. UNCHANGED <<pending, xpub, xsub>> /\ lost \subseteq lost'
      BY <1>3 DEF Subscribe, Unsubscribe, SetSockOpt, PublishEvent, lossVars
    <2> QED BY <1>1, <2>1
  <1>4. ASSUME NEW c \in Clients,
               Connect(c) \/ HandleEvent(c) \/ HandleTimeout(c) \/ Close(c)
               \/ AttachPub(c)
        PROVE  PendInv'
    BY <1>1, <1>4 DEF Connect, HandleEvent, HandleTimeout, Close, AttachPub,
       ctlVars, lossVars
  <1>5. ASSUME NEW c \in Clients, ReadSubscription(c) PROVE PendInv'
    <2>1. lost' = lost
      BY <1>5 DEF ReadSubscription, lossVars
    <2> QED BY <1>5, <2>1, PendRead DEF PendInv
  <1>6. ASSUME NEW c \in Clients, DetachSub(c) PROVE PendInv'
    <2>1. lost' = lost
      BY <1>6 DEF DetachSub, lossVars
    <2> QED BY <1>6, <2>1, PendDetach DEF PendInv
  <1>7. CASE ForwardNote
    <2>1. lost' = lost
      BY <1>7 DEF ForwardNote
    <2> QED BY <1>7, <2>1, PendForward DEF PendInv
  <1>8. CASE Begin \/ ForwardEvent
    BY <1>1, <1>8 DEF Begin, ForwardEvent, ctlVars, lossVars
  <1>9. CASE Poll
    BY <1>1, <1>9, PollSteps
  <1> QED BY <1>2, <1>3, <1>4, <1>5, <1>6, <1>7, <1>8, <1>9 DEF Next

-----------------------------------------------------------------------------
(* From XSUB to the PUB sockets.                                             *)

MirrorPub(c, t) ==
    (IF Touched(ctl[c].q, t) THEN LastOn(ctl[c].q, t) ELSE t \in filter[c])
        <=> xsub[t] > 0

FiltInv ==
    /\ attached \cap gone = {}
    /\ \A c \in attached \ deaf, t \in Types : MirrorPub(c, t)
    /\ \A c \in Clients \ (attached \cup gone) :
          filter[c] = {} /\ ctl[c].q = << >>

\* publish_event applies what is in the pipe of the PUB, or nothing of it.
LEMMA FiltPublish ==
    ASSUME TInv, FiltInv, NEW c \in Clients, NEW t \in Types,
           PublishEvent(c, t)
    PROVE  FiltInv'
PROOF
  <1> DEFINE known == {u \in Types : Settled(ctl[c].q, u, u \in filter[c])}
  <1>1. UNCHANGED <<attached, gone, deaf, xsub>>
    BY DEF PublishEvent, clientVars, lossVars
  <1>2. \/ /\ filter' = [filter EXCEPT ![c] = filter[c]]
           /\ ctl' = ctl
        \/ /\ filter' = [filter EXCEPT ![c] = known]
           /\ ctl' = [ctl EXCEPT ![c] = ReadAll(ctl[c])]
    BY DEF PublishEvent
  <1>3. filter \in [Clients -> SUBSET Types] /\ ctl \in [Clients -> Pipe(Op)]
    BY DEF TInv, TypeOK
  <1>4. \A u \in Types : u \in known <=>
            IF Touched(ctl[c].q, u) THEN LastOn(ctl[c].q, u) ELSE u \in filter[c]
    BY DEF Settled, Touched, LastOn, On
  <1>5. known \subseteq Types
    OBVIOUS
  <1> HIDE DEF known
  <1>6. CASE filter' = filter /\ ctl' = ctl
    BY <1>1, <1>6 DEF FiltInv, MirrorPub
  <1>7. CASE /\ filter' = [filter EXCEPT ![c] = known]
             /\ ctl' = [ctl EXCEPT ![c] = ReadAll(ctl[c])]
    <2>1. /\ filter'[c] = known /\ ctl'[c].q = << >>
          /\ \A d \in Clients \ {c} : filter'[d] = filter[d] /\ ctl'[d] = ctl[d]
      BY <1>3, <1>7 DEF ReadAll
    <2>2. \A u \in Types : ~Touched(ctl'[c].q, u)
      BY <2>1 DEF Touched
    <2>3. ASSUME NEW u \in Types, MirrorPub(c, u) PROVE MirrorPub(c, u)'
      BY <1>1, <1>4, <2>1, <2>2, <2>3 DEF MirrorPub
    <2>4. ASSUME NEW d \in Clients \ {c}, NEW u \in Types, MirrorPub(d, u)
          PROVE  MirrorPub(d, u)'
      BY <1>1, <2>1, <2>4 DEF MirrorPub
    <2>5. ASSUME filter[c] = {}, ctl[c].q = << >> PROVE filter'[c] = {}
      <3>1. \A u \in Types : ~Touched(ctl[c].q, u)
        BY <2>5 DEF Touched
      <3> QED BY <1>4, <1>5, <2>1, <2>5, <3>1
    <2>6. \A d \in attached' \ deaf', u \in Types : MirrorPub(d, u)'
      <3>1. attached \subseteq Clients
        BY DEF TInv, TypeOK
      <3> QED BY <1>1, <2>3, <2>4, <3>1 DEF FiltInv
    <2> QED BY <1>1, <2>1, <2>5, <2>6 DEF FiltInv
  <1>8. [filter EXCEPT ![c] = filter[c]] = filter
    BY <1>3
  <1> QED BY <1>2, <1>6, <1>7, <1>8

\* XSUB tells a new PUB what it holds.
LEMMA FiltAttach ==
    ASSUME TInv, SubInv, FiltInv, NEW c \in Clients, AttachPub(c)
    PROVE  FiltInv'
PROOF
  <1> DEFINE S == {u \in Types : xsub[u] > 0}
  <1>1. PICK s \in Writings(S, TRUE) :
            ctl' = [ctl EXCEPT ![c] =
                       [q |-> s, written |-> Len(s), acked |-> 0]]
    BY DEF AttachPub
  <1>2. /\ UNCHANGED <<gone, deaf, xsub, filter>>
        /\ attached' = attached \cup {c} /\ c \in open /\ c \notin attached
    BY DEF AttachPub, clientVars, lossVars
  <1>3. c \notin gone /\ filter[c] = {}
    BY <1>2 DEF SubInv, FiltInv
  <1>4. ctl'[c].q = s /\ \A d \in Clients \ {c} : ctl'[d] = ctl[d]
    BY <1>1 DEF TInv, TypeOK
  <1>5. S \in SUBSET Types
    OBVIOUS
  <1>6. \A u \in Types : u \in S <=> xsub[u] > 0
    OBVIOUS
  <1> HIDE DEF S
  <1>7. \A u \in Types : /\ Touched(s, u) <=> u \in S
                         /\ u \in S => LastOn(s, u)
    BY <1>5, WritingsTouched
  <1>8. ASSUME NEW u \in Types PROVE MirrorPub(c, u)'
    BY <1>2, <1>3, <1>4, <1>6, <1>7 DEF MirrorPub
  <1>9. ASSUME NEW d \in attached \ deaf, NEW u \in Types
        PROVE  MirrorPub(d, u)'
    <2>1. d \in Clients \ {c} /\ MirrorPub(d, u)
      BY <1>2 DEF FiltInv, TInv, TypeOK
    <2> QED BY <1>2, <1>4, <2>1 DEF MirrorPub
  <1> QED BY <1>2, <1>3, <1>4, <1>8, <1>9 DEF FiltInv

\* XSUB passes on what changes its table to every PUB.
LEMMA FiltForward ==
    ASSUME TInv, FiltInv, ForwardNote
    PROVE  FiltInv'
PROOF
  <1> DEFINE op == Head(pending)
             pass == op.on \/ xsub[op.type] = 1
  <1>1. pending \in Seq(Op) /\ pending # << >> /\ xsub \in [Types -> Nat]
        /\ attached \in SUBSET Clients
    BY DEF ForwardNote, TInv, TypeOK, TurnOK
  <1>2. op \in Op /\ op.type \in Types
    BY <1>1, HeadOp
  <1>3. PICK late \in SUBSET Clients :
        /\ UNCHANGED <<attached, gone, filter>>
        /\ xsub' = [xsub EXCEPT ![op.type] =
                      IF op.on THEN xsub[op.type] + 1
                      ELSE IF xsub[op.type] = 0 THEN 0 ELSE xsub[op.type] - 1]
        /\ ctl' = [d \in Clients |->
                     IF d \in (IF pass THEN attached ELSE {})
                     THEN Write(Known(ctl, late)[d], op)
                     ELSE Known(ctl, late)[d]]
        /\ deaf' = deaf \cup {d \in (IF pass THEN attached ELSE {}) :
                                Full(Known(ctl, late)[d])}
    BY DEF ForwardNote, clientVars
  <1> DEFINE pipes == Known(ctl, late)
  <1>0. \A d \in Clients : pipes[d].q = ctl[d].q
    BY PipesOK, KnownOK
  <1>7. /\ ctl' = [d \in Clients |-> IF d \in (IF pass THEN attached ELSE {})
                                     THEN Write(pipes[d], op) ELSE pipes[d]]
        /\ deaf' = deaf \cup {d \in (IF pass THEN attached ELSE {}) :
                                Full(pipes[d])}
    BY <1>3
  <1> HIDE DEF op, pipes
  <1>4. \A u \in Types :
           /\ u # op.type => xsub'[u] = xsub[u]
           /\ u = op.type /\ pass => (xsub'[u] > 0 <=> op.on)
           /\ u = op.type /\ ~pass => (xsub'[u] > 0 <=> xsub[u] > 0)
    BY <1>1, <1>2, <1>3
  <1>5. ASSUME NEW d \in attached', d \notin deaf', NEW u \in Types
        PROVE  MirrorPub(d, u)'
    <2>1. /\ d \in Clients /\ d \in attached /\ d \notin deaf
          /\ pass => ~Full(pipes[d])
          /\ MirrorPub(d, u) /\ ctl[d].q \in Seq(Op)
      BY <1>1, <1>3, <1>5, <1>7, PipesOK DEF FiltInv, Pipe
    <2>2. CASE ~pass
      <3>1. ctl'[d].q = ctl[d].q
        BY <1>0, <1>7, <2>1, <2>2
      <3> QED BY <1>3, <1>4, <2>1, <2>2, <3>1 DEF MirrorPub
    <2>3. CASE pass
      <3>1. ctl'[d].q = Append(ctl[d].q, op)
        <4>1. ctl'[d] = Write(pipes[d], op)
          BY <1>7, <2>1, <2>3
        <4> QED BY <1>0, <2>1, <2>3, <4>1 DEF Write
      <3> DEFINE a == Append(ctl[d].q, op)
      <3>2. /\ Touched(a, u) <=> (op.type = u \/ Touched(ctl[d].q, u))
            /\ op.type = u => (LastOn(a, u) <=> op.on)
            /\ op.type # u => (LastOn(a, u) <=> LastOn(ctl[d].q, u))
        BY <1>2, <2>1, AppendTouched, ZenonT(40)
      <3> HIDE DEF a
      <3>3. ctl'[d].q = a
        BY <3>1 DEF a
      <3> QED BY <1>3, <1>4, <2>1, <2>3, <3>2, <3>3 DEF MirrorPub
    <2> QED BY <2>2, <2>3
  <1>6. \A d \in Clients \ (attached \cup gone) : ctl'[d].q = ctl[d].q
    BY <1>0, <1>7
  <1> QED BY <1>3, <1>5, <1>6 DEF FiltInv

\* Any step keeps the third part of the chain.
LEMMA FiltStep == TInv /\ SubInv /\ FiltInv /\ [Next]_vars => FiltInv'
PROOF
  <1> SUFFICES ASSUME TInv, SubInv, FiltInv, [Next]_vars PROVE FiltInv'
    OBVIOUS
  <1>1. ASSUME UNCHANGED <<attached, gone, deaf, ctl, filter, xsub>>
        PROVE  FiltInv'
    BY <1>1 DEF FiltInv, MirrorPub
  <1>2. CASE UNCHANGED vars
    BY <1>1, <1>2 DEF vars, clientVars, ctlVars, lossVars
  <1>3. ASSUME NEW c \in Clients, NEW t \in Types,
               Subscribe(c, t) \/ Unsubscribe(c, t)
        PROVE  FiltInv'
    BY <1>1, <1>3 DEF Subscribe, Unsubscribe
  <1>4. ASSUME NEW c \in Clients,
               Connect(c) \/ HandleEvent(c) \/ HandleTimeout(c)
               \/ ReadSubscription(c) \/ DetachSub(c)
        PROVE  FiltInv'
    BY <1>1, <1>4 DEF Connect, HandleEvent, HandleTimeout, ReadSubscription,
       DetachSub, clientVars, ctlVars, lossVars
  <1>5. ASSUME NEW c \in Clients, Close(c) PROVE FiltInv'
    <2>1. /\ UNCHANGED <<deaf, ctl, filter, xsub>>
          /\ attached' = attached \ {c} /\ gone' = gone \cup {c}
      BY <1>5 DEF Close, lossVars
    <2> QED BY <2>1 DEF FiltInv, MirrorPub
  <1>6. CASE Begin \/ ForwardEvent
    BY <1>1, <1>6 DEF Begin, ForwardEvent, clientVars, ctlVars, lossVars
  <1>7. CASE Poll
    <2>1. /\ UNCHANGED <<attached, gone, deaf, filter, xsub>>
          /\ \A d \in Clients : ctl'[d].q = ctl[d].q
      BY <1>7, PollSteps, PipesOK, KnownOK DEF clientVars
    <2>2. attached \subseteq Clients
      BY DEF TInv, TypeOK
    <2>3. \A d \in Clients, t \in Types : MirrorPub(d, t)' = MirrorPub(d, t)
      BY <2>1 DEF MirrorPub
    <2> QED BY <2>1, <2>2, <2>3 DEF FiltInv
  <1> QED BY <1>2, <1>3, <1>4, <1>5, <1>6, <1>7, FiltPublish, FiltAttach,
             FiltForward DEF Next

-----------------------------------------------------------------------------
\* Each copy of a subscription becomes what the previous one is once the
\* operations under way are applied, unless a pipe overflowed.
THEOREM MirrorChainHolds == Spec => []MirrorChain
PROOF
  <1>1. Init => SubInv /\ PendInv /\ FiltInv
    <2> SUFFICES ASSUME Init PROVE SubInv /\ PendInv /\ FiltInv
      OBVIOUS
    <2>1. \A t : /\ ~Touched(<< >>, t) /\ AltSeq(<< >>, t)
                 /\ FirstOn(<< >>, t) /\ FirstOff(<< >>, t)
      BY DEF Touched, AltSeq, FirstOn, FirstOff
    <2>2. \A c \in Clients : subs[c].q = << >> /\ ctl[c].q = << >>
      BY DEF Init, NewPipe
    <2>3. SubInv
      BY <2>1, <2>2 DEF Init, SubInv, MirrorSub, AltSub
    <2>4. PendInv
      BY <2>1 DEF Init, PendInv, MirrorPending, AltPending
    <2>5. FiltInv
      BY <2>2 DEF Init, FiltInv
    <2> QED BY <2>3, <2>4, <2>5
  <1>2. TInv /\ SubInv /\ PendInv /\ FiltInv => MirrorChain
    <2> SUFFICES ASSUME TInv, SubInv, PendInv, FiltInv, NEW t \in Types
                 PROVE  /\ \A c \in open \ lost :
                              Settled(subs[c].q, t, c \in xpub[t])
                                 <=> t \in table[c]
                        /\ lost = {} =>
                              (Settled(pending, t, xsub[t] > 0)
                                 <=> xpub[t] # {})
                        /\ \A c \in attached \ deaf :
                              Settled(ctl[c].q, t, t \in filter[c])
                                 <=> xsub[t] > 0
      BY DEF MirrorChain
    <2>1. ASSUME NEW c \in open \ lost
          PROVE  Settled(subs[c].q, t, c \in xpub[t]) <=> t \in table[c]
      <3>1. c \in Clients \ (gone \cup lost)
        BY DEF SubInv, TInv, TypeOK
      <3>2. MirrorSub(c, t)
        BY <3>1 DEF SubInv
      <3> QED BY <3>2 DEF MirrorSub, Settled, Touched, LastOn, On
    <2>2. ASSUME lost = {}
          PROVE  Settled(pending, t, xsub[t] > 0) <=> xpub[t] # {}
      <3>1. MirrorPending(t)
        BY <2>2 DEF PendInv
      <3> QED BY <3>1 DEF MirrorPending, Settled, Touched, LastOn, On
    <2>3. ASSUME NEW c \in attached \ deaf
          PROVE  Settled(ctl[c].q, t, t \in filter[c]) <=> xsub[t] > 0
      <3>1. MirrorPub(c, t)
        BY DEF FiltInv
      <3> QED BY <3>1 DEF MirrorPub, Settled, Touched, LastOn, On
    <2> QED BY <2>1, <2>2, <2>3
  <1> QED BY <1>1, <1>2, TypeInit, TypeStep, SubStep, PendStep, FiltStep, PTL
      DEF Spec
=============================================================================

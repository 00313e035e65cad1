----------------------------- MODULE MZmqProofs -----------------------------
(* The framing invariants of MZmq, for any number of calls.                  *)
EXTENDS MZmq, SequenceTheorems, TLAPS

\* The variables have their types, and unfinished frames come from calls made.
MType ==
    /\ calls \in Nat
    /\ partial \in Seq(Frame)
    /\ queue \in Seq(Frame)
    /\ \A i \in 1 .. Len(partial) : partial[i].call <= calls

\* Continues, with the failed calls as a parameter.
Joins(C, f, g) ==
    \/ g.call = f.call /\ g.part = f.part + 1
    \/ g.call # f.call /\ g.part = 1 /\ f.call \in C

\* The unfinished message is the beginning of a whole one, and the call that
\* left it is a failed one.
PartialInv ==
    /\ partial # << >> => partial[1].part = 1 /\ partial[Len(partial)].call \in cut
    /\ \A i \in 1 .. Len(partial) :
          ~partial[i].last /\ partial[i].call \in disturbed
    /\ \A i \in 1 .. Len(partial) - 1 : Joins(cut, partial[i], partial[i + 1])

\* The frame at i is the title of its call: it begins a message, and what
\* follows, if anything, is the content of the same call.
IsTitle(q, i) ==
    /\ q[i].part = 1
    /\ i # 1 => q[i - 1].last
    /\ ~q[i].last => /\ i # Len(q)
                     /\ q[i + 1].call = q[i].call
                     /\ q[i + 1].part = 2
                     /\ q[i + 1].last

\* The frame at i is the content that ends the message of its call.
IsContent(q, i) ==
    /\ q[i].part = 2 /\ q[i].last
    /\ i # 1
    /\ q[i - 1].call = q[i].call /\ q[i - 1].part = 1 /\ ~q[i - 1].last

\* A frame of a call outside D is the title or the content of its message.
Apart(D, q) ==
    \A i \in 1 .. Len(q) : q[i].call \notin D => IsTitle(q, i) \/ IsContent(q, i)

StepInv == Apart(disturbed, queue)

IInv == MType /\ PartialInv /\ WholeMessages /\ StepInv /\ MixedOnlyAfterFailure
        /\ InStep

-----------------------------------------------------------------------------
\* More failed calls only allow more.
LEMMA JoinsMore ==
    ASSUME NEW C, NEW D, C \subseteq D, NEW f, NEW g, Joins(C, f, g)
    PROVE  Joins(D, f, g)
  BY DEF Joins

\* A sequence of frames that is a queue of whole messages.
Whole(C, q) ==
    /\ q # << >> => q[Len(q)].last
    /\ \A i \in 1 .. Len(q) - 1 : IF q[i].last THEN q[i + 1].part = 1
                                  ELSE Joins(C, q[i], q[i + 1])

\* WholeMessages in terms of Whole.
LEMMA WholeQueue == WholeMessages <=> Whole(cut, queue)
  BY DEF WholeMessages, Whole, Continues, Joins

\* What a call that gets j of its p frames through makes of the message.
LEMMA MessageGrows ==
    ASSUME MType, NEW p \in 1 .. 3, NEW j \in 0 .. p
    PROVE  LET m == partial \o Frames(calls + 1, p, j)
               n == Len(partial)
           IN  /\ n \in Nat
               /\ m \in Seq(Frame)
               /\ Len(m) = n + j
               /\ \A i \in 1 .. n : m[i] = partial[i]
               /\ \A i \in n + 1 .. n + j : /\ m[i].call = calls + 1
                                            /\ m[i].part = i - n
                                            /\ m[i].last <=> i - n = p
PROOF
  <1> DEFINE g == Frames(calls + 1, p, j)
  <1>1. g \in Seq(Frame)
    <2>1. \A i \in 1 .. j : [call |-> calls + 1, part |-> i, last |-> i = p] \in Frame
      BY DEF MType, Frame
    <2> QED BY <2>1 DEF Frames
  <1>2. Len(g) = j /\ \A i \in 1 .. j :
           g[i] = [call |-> calls + 1, part |-> i, last |-> i = p]
    BY DEF Frames
  <1>3. \A i \in 1 .. j : /\ g[i].call = calls + 1
                          /\ g[i].part = i
                          /\ g[i].last <=> i = p
    <2> SUFFICES ASSUME NEW i \in 1 .. j
                 PROVE  /\ g[i].call = calls + 1 /\ g[i].part = i
                        /\ g[i].last = (i = p)
      OBVIOUS
    <2>1. g[i] = [call |-> calls + 1, part |-> i, last |-> i = p]
      BY <1>2
    <2> DEFINE b == i = p
    <2>2. g[i] = [call |-> calls + 1, part |-> i, last |-> b]
      BY <2>1
    <2> HIDE DEF b, g
    <2>3. g[i].call = calls + 1 /\ g[i].part = i /\ g[i].last = b
      BY <2>2
    <2> QED BY <2>3 DEF b
  <1> HIDE DEF g
  <1>4. /\ partial \o g \in Seq(Frame)
        /\ Len(partial \o g) = Len(partial) + Len(g)
        /\ \A i \in 1 .. Len(partial) + Len(g) : (partial \o g)[i] =
              IF i <= Len(partial) THEN partial[i] ELSE g[i - Len(partial)]
    BY <1>1, ConcatProperties DEF MType
  <1>5. Len(partial) \in Nat
    BY LenProperties DEF MType
  <1> DEFINE m == partial \o g
             n == Len(partial)
  <1>6. \A i \in 1 .. n : m[i] = partial[i]
    BY <1>2, <1>4, <1>5
  <1>7. \A i \in n + 1 .. n + j : m[i] = g[i - n] /\ i - n \in 1 .. j
    BY <1>2, <1>4, <1>5
  <1> HIDE DEF m, n
  <1>8. \A i \in n + 1 .. n + j : /\ m[i].call = calls + 1
                                  /\ m[i].part = i - n
                                  /\ m[i].last <=> i - n = p
    BY <1>3, <1>7
  <1> QED BY <1>2, <1>4, <1>5, <1>6, <1>8 DEF g, m, n

\* The frames of the unfinished message go well with those of the call.
LEMMA MessageOK ==
    ASSUME MType, PartialInv, NEW p \in 1 .. 3, NEW j \in 0 .. p
    PROVE  LET m == partial \o Frames(calls + 1, p, j)
           IN  /\ Len(m) > 0 => m[1].part = 1
               /\ \A i \in 1 .. Len(m) - 1 : ~m[i].last /\ Joins(cut, m[i], m[i + 1])
               /\ j = p => Len(m) > 0 /\ m[Len(m)].last
               /\ j < p => \A i \in 1 .. Len(m) : ~m[i].last
               /\ \A i \in 1 .. Len(m) : m[i].call <= calls + 1
PROOF
  <1> DEFINE m == partial \o Frames(calls + 1, p, j)
  <1> DEFINE n == Len(partial)
  <1>1. n \in Nat /\ (n > 0 => partial # << >>) /\ calls \in Nat
    BY LenProperties, EmptySeq DEF MType
  <1>2. \A i \in 1 .. n : partial[i].call \in Nat /\ partial[i].call <= calls
    <2>1. \A i \in 1 .. n : partial[i] \in Frame
      BY ElementOfSeq DEF MType
    <2> QED BY <2>1 DEF MType, Frame
  <1>3. \A i \in 1 .. n : ~partial[i].last
    BY DEF PartialInv
  <1>4. n > 0 => partial[1].part = 1 /\ partial[n].call \in cut
    BY <1>1 DEF PartialInv
  <1>5. \A i \in 1 .. n - 1 : Joins(cut, partial[i], partial[i + 1])
    BY DEF PartialInv
  <1>6. /\ n \in Nat
        /\ m \in Seq(Frame)
        /\ Len(m) = n + j
        /\ \A i \in 1 .. n : m[i] = partial[i]
        /\ \A i \in n + 1 .. n + j : /\ m[i].call = calls + 1
                                     /\ m[i].part = i - n
                                     /\ m[i].last <=> i - n = p
    BY MessageGrows
  <1> HIDE DEF m, n
  <1>7. Len(m) > 0 => m[1].part = 1
    BY <1>1, <1>4, <1>6
  <1>8. ASSUME NEW i \in 1 .. Len(m) - 1
        PROVE  ~m[i].last /\ Joins(cut, m[i], m[i + 1])
    <2>1. CASE i < n
      <3>1. m[i] = partial[i] /\ m[i + 1] = partial[i + 1] /\ i \in 1 .. n - 1
            /\ i \in 1 .. n
        BY <1>1, <1>6, <2>1
      <3> QED BY <1>3, <1>5, <3>1
    <2>2. CASE i = n
      <3>1. m[i] = partial[n] /\ m[i + 1].call = calls + 1 /\ m[i + 1].part = 1
            /\ n > 0 /\ n \in 1 .. n
        <4>1. /\ n > 0 /\ n \in 1 .. n
              /\ n + 1 \in n + 1 .. n + j /\ (n + 1) - n = 1
          BY <1>1, <1>6, <2>2
        <4>2. m[n] = partial[n]
          BY <1>6, <4>1
        <4>3. m[n + 1].call = calls + 1 /\ m[n + 1].part = (n + 1) - n
          BY <1>6, <4>1
        <4> QED BY <2>2, <4>1, <4>2, <4>3
      <3>2. m[i].call # calls + 1 /\ m[i].call \in cut
        BY <1>1, <1>2, <1>4, <3>1
      <3> QED BY <1>3, <3>1, <3>2 DEF Joins
    <2>3. CASE i > n
      <3>1. i \in n + 1 .. n + j /\ i + 1 \in n + 1 .. n + j /\ i - n # p
        BY <1>1, <1>6, <2>3
      <3>2. ~m[i].last
        BY <1>6, <3>1
      <3>3. /\ m[i].call = calls + 1 /\ m[i + 1].call = calls + 1
            /\ m[i].part = i - n /\ m[i + 1].part = (i + 1) - n
        BY <1>6, <3>1
      <3>4. m[i + 1].part = m[i].part + 1
        BY <1>1, <3>1, <3>3
      <3> QED BY <3>2, <3>3, <3>4 DEF Joins
    <2> QED BY <1>1, <1>6, <2>1, <2>2, <2>3
  <1>9. j = p => Len(m) > 0 /\ m[Len(m)].last
    <2> SUFFICES ASSUME j = p PROVE Len(m) > 0 /\ m[Len(m)].last
      OBVIOUS
    <2>1. Len(m) > 0 /\ Len(m) \in n + 1 .. n + j /\ Len(m) - n = p
      BY <1>1, <1>6
    <2> QED BY <1>6, <2>1
  <1>10. j < p => \A i \in 1 .. Len(m) : ~m[i].last
    <2> SUFFICES ASSUME j < p, NEW i \in 1 .. Len(m) PROVE ~m[i].last
      OBVIOUS
    <2>1. i \in 1 .. n \/ (i \in n + 1 .. n + j /\ i - n # p)
      BY <1>1, <1>6
    <2> QED BY <1>3, <1>6, <2>1
  <1>11. \A i \in 1 .. Len(m) : m[i].call <= calls + 1
    BY <1>1, <1>2, <1>6
  <1> QED BY <1>7, <1>8, <1>9, <1>10, <1>11 DEF m

\* A whole message behind whole messages.
LEMMA WholeAppended ==
    ASSUME NEW D, NEW q \in Seq(Frame), NEW m \in Seq(Frame), Whole(D, q),
           Len(m) > 0, m[1].part = 1, m[Len(m)].last,
           \A i \in 1 .. Len(m) - 1 : ~m[i].last /\ Joins(D, m[i], m[i + 1])
    PROVE  Whole(D, q \o m)
PROOF
  <1> DEFINE l == Len(q)
             k == Len(m)
             s == q \o m
  <1>1. /\ l \in Nat /\ k \in Nat
        /\ Len(s) = l + k
        /\ \A i \in 1 .. l + k : s[i] = IF i <= l THEN q[i] ELSE m[i - l]
    BY ConcatProperties, LenProperties
  <1>2. l > 0 => q[l].last
    BY EmptySeq DEF Whole
  <1>3. \A i \in 1 .. l - 1 : IF q[i].last THEN q[i + 1].part = 1
                              ELSE Joins(D, q[i], q[i + 1])
    BY DEF Whole
  <1>4. \A i \in 1 .. k - 1 : ~m[i].last /\ Joins(D, m[i], m[i + 1])
    OBVIOUS
  <1>5. k > 0 /\ m[1].part = 1 /\ m[k].last
    OBVIOUS
  <1> HIDE DEF l, k, s
  <1>6. s[Len(s)].last
    <2>1. s[Len(s)] = m[k]
      BY <1>1, <1>5
    <2> QED BY <1>5, <2>1
  <1>7. ASSUME NEW i \in 1 .. Len(s) - 1
        PROVE  IF s[i].last THEN s[i + 1].part = 1 ELSE Joins(D, s[i], s[i + 1])
    <2>1. CASE i < l
      <3>1. s[i] = q[i] /\ s[i + 1] = q[i + 1] /\ i \in 1 .. l - 1
        BY <1>1, <2>1, SMTT(40)
      <3> QED BY <1>3, <3>1
    <2>2. CASE i = l
      <3>1. s[i] = q[l] /\ s[i + 1] = m[1] /\ l > 0
        BY <1>1, <1>5, <2>2
      <3> QED BY <1>2, <1>5, <3>1
    <2>3. CASE i > l
      <3>1. s[i] = m[i - l] /\ s[i + 1] = m[(i - l) + 1] /\ i - l \in 1 .. k - 1
        <4>1. i \in 1 .. l + k /\ i + 1 \in 1 .. l + k /\ ~(i <= l) /\ ~(i + 1 <= l)
              /\ (i + 1) - l = (i - l) + 1 /\ i - l \in 1 .. k - 1
          BY <1>1, <2>3
        <4> QED BY <1>1, <4>1
      <3> QED BY <1>4, <3>1
    <2> QED BY <1>1, <2>1, <2>2, <2>3
  <1> QED BY <1>6, <1>7 DEF Whole, s

\* Titles and contents stay what they are when a message comes behind a queue
\* that ends with a last frame.
LEMMA ApartAppended ==
    ASSUME NEW D, NEW q \in Seq(Frame), NEW m \in Seq(Frame),
           Apart(D, q), Apart(D, m), q # << >> => q[Len(q)].last
    PROVE  Apart(D, q \o m)
PROOF
  <1> DEFINE l == Len(q)
             k == Len(m)
             s == q \o m
  <1>1. /\ l \in Nat /\ k \in Nat
        /\ Len(s) = l + k
        /\ \A i \in 1 .. l + k : s[i] = IF i <= l THEN q[i] ELSE m[i - l]
    BY ConcatProperties, LenProperties
  <1>2. l > 0 => q[l].last
    BY EmptySeq
  <1>3. /\ \A i \in 1 .. l : q[i].call \notin D => IsTitle(q, i) \/ IsContent(q, i)
        /\ \A i \in 1 .. k : m[i].call \notin D => IsTitle(m, i) \/ IsContent(m, i)
    BY DEF Apart
  <1> HIDE DEF l, k, s
  <1>4. \A i \in 1 .. l : i \in 1 .. l + k /\ s[i] = q[i]
    BY <1>1
  <1>5. \A i \in 1 .. k : l + i \in 1 .. l + k /\ s[l + i] = m[i]
    <2> TAKE i \in 1 .. k
    <2>1. l + i \in 1 .. l + k /\ ~(l + i <= l) /\ (l + i) - l = i
      BY <1>1
    <2> QED BY <1>1, <2>1
  <1>6. ASSUME NEW i \in 1 .. l, q[i].call \notin D
        PROVE  IsTitle(s, i) \/ IsContent(s, i)
    <2>1. CASE IsTitle(q, i)
      <3>1. s[i] = q[i]
        BY <1>4
      <3>2. i # 1 => s[i - 1].last
        BY <1>1, <1>4, <2>1 DEF IsTitle
      <3>3. ~q[i].last => i + 1 \in 1 .. l /\ i # l + k
        BY <1>1, <2>1 DEF IsTitle, l
      <3> QED BY <1>1, <1>4, <2>1, <3>1, <3>2, <3>3 DEF IsTitle
    <2>2. CASE IsContent(q, i)
      <3>1. i # 1 /\ i - 1 \in 1 .. l
        BY <1>1, <2>2 DEF IsContent
      <3> QED BY <1>4, <2>2, <3>1 DEF IsContent
    <2> QED BY <1>3, <1>6, <2>1, <2>2
  <1>7. ASSUME NEW i \in 1 .. k, m[i].call \notin D
        PROVE  IsTitle(s, l + i) \/ IsContent(s, l + i)
    <2>1. s[l + i] = m[i]
      BY <1>5
    <2>2. CASE IsTitle(m, i)
      <3>1. l + i # 1 => s[(l + i) - 1].last
        <4>1. CASE i = 1
          <5>1. l > 0 => l \in 1 .. l
            BY <1>1
          <5> QED BY <1>1, <1>2, <1>4, <4>1, <5>1
        <4>2. CASE i # 1
          <5>1. i - 1 \in 1 .. k /\ l + (i - 1) = (l + i) - 1
            BY <1>1, <4>2
          <5> QED BY <1>5, <2>2, <4>2, <5>1 DEF IsTitle
        <4> QED BY <4>1, <4>2
      <3>2. ~m[i].last => i + 1 \in 1 .. k /\ l + (i + 1) = (l + i) + 1
                          /\ l + i # l + k
        BY <1>1, <2>2 DEF IsTitle, k
      <3> QED BY <1>1, <1>5, <2>1, <2>2, <3>1, <3>2 DEF IsTitle
    <2>3. CASE IsContent(m, i)
      <3>1. i - 1 \in 1 .. k /\ l + (i - 1) = (l + i) - 1 /\ l + i # 1
        BY <1>1, <2>3 DEF IsContent
      <3> QED BY <1>5, <2>1, <2>3, <3>1 DEF IsContent
    <2> QED BY <1>3, <1>7, <2>2, <2>3
  <1>8. ASSUME NEW i \in 1 .. Len(s), s[i].call \notin D
        PROVE  IsTitle(s, i) \/ IsContent(s, i)
    <2>1. CASE i \in 1 .. l
      BY <1>4, <1>6, <1>8, <2>1
    <2>2. CASE i > l
      <3>1. i - l \in 1 .. k /\ l + (i - l) = i
        BY <1>1, <2>2
      <3> QED BY <1>5, <1>7, <1>8, <3>1
    <2> QED BY <1>1, <2>1, <2>2
  <1> QED BY <1>8 DEF Apart, s

\* A call that sends p frames keeps the invariant.
LEMMA SendKeeps ==
    ASSUME IInv, NEW p \in 1 .. 3, Send(p)
    PROVE  IInv'
PROOF
  <1>1. PICK j \in 0 .. p, take \in BOOLEAN :
          LET m  == partial \o Frames(calls + 1, p, j)
              to == IF partial = << >> THEN take ELSE taken
          IN  /\ partial' = IF j = p THEN << >> ELSE m
              /\ queue' = IF j = p /\ to /\ open THEN queue \o m ELSE queue
              /\ cut' = IF j \in 1 .. p - 1 THEN cut \cup {calls + 1} ELSE cut
              /\ disturbed' = IF p = 3 \/ partial # << >> \/ j \in 1 .. p - 1
                              THEN disturbed \cup {calls + 1} ELSE disturbed
    BY Zenon DEF Send
  <1> DEFINE m == partial \o Frames(calls + 1, p, j)
             n == Len(partial)
  <1>2. /\ calls' = calls + 1 /\ given' = given
    BY DEF Send
  <1>3. /\ partial' = IF j = p THEN << >> ELSE m
        /\ queue' = queue \/ (queue' = queue \o m /\ j = p)
        /\ cut' = IF j \in 1 .. p - 1 THEN cut \cup {calls + 1} ELSE cut
        /\ disturbed' = IF p = 3 \/ partial # << >> \/ j \in 1 .. p - 1
                        THEN disturbed \cup {calls + 1} ELSE disturbed
    BY <1>1, Zenon
  <1>4. /\ partial \in Seq(Frame) /\ queue \in Seq(Frame)
        /\ calls \in Nat /\ calls + 1 \in Nat
    BY DEF IInv, MType
  <1>5. /\ n \in Nat
        /\ m \in Seq(Frame)
        /\ Len(m) = n + j
        /\ \A i \in 1 .. n : m[i] = partial[i]
        /\ \A i \in n + 1 .. n + j : /\ m[i].call = calls + 1
                                     /\ m[i].part = i - n
                                     /\ m[i].last <=> i - n = p
    BY MessageGrows DEF IInv
  <1>6. /\ Len(m) > 0 => m[1].part = 1
        /\ \A i \in 1 .. Len(m) - 1 : ~m[i].last /\ Joins(cut, m[i], m[i + 1])
        /\ j = p => Len(m) > 0 /\ m[Len(m)].last
        /\ j < p => \A i \in 1 .. Len(m) : ~m[i].last
        /\ \A i \in 1 .. Len(m) : m[i].call <= calls + 1
    BY MessageOK DEF IInv
  <1> HIDE DEF m
  <1>7. cut \subseteq cut' /\ disturbed \subseteq disturbed'
    BY <1>3
  <1>8. /\ Len(m) > 0 => m[1].part = 1
        /\ \A i \in 1 .. Len(m) - 1 : ~m[i].last /\ Joins(cut', m[i], m[i + 1])
        /\ j = p => Len(m) > 0 /\ m[Len(m)].last
        /\ j < p => \A i \in 1 .. Len(m) : ~m[i].last
        /\ \A i \in 1 .. Len(m) : m[i].call <= calls + 1
    <2>1. ASSUME NEW i \in 1 .. Len(m) - 1
          PROVE  ~m[i].last /\ Joins(cut', m[i], m[i + 1])
      <3>1. ~m[i].last /\ Joins(cut, m[i], m[i + 1])
        BY <1>6, Zenon
      <3> QED BY <1>7, <3>1, Zenon DEF Joins
    <2> QED BY <1>6, <2>1, Zenon
  <1>9. /\ n = 0 <=> partial = << >>
        /\ \A i \in 1 .. n : partial[i].call \in disturbed
    BY <1>4, EmptySeq DEF IInv, PartialInv
  <1>10. n > 0 => partial[n].call \in cut
    BY <1>9 DEF IInv, PartialInv
  <1> HIDE DEF n
  <1>11. MType'
    <2>1. partial' \in Seq(Frame)
      BY <1>3, <1>5, EmptySeq
    <2>2. queue' \in Seq(Frame)
      BY <1>3, <1>4, <1>5, ConcatProperties
    <2>3. \A i \in 1 .. Len(partial') : partial'[i].call <= calls + 1
      BY <1>3, <1>8
    <2> QED BY <1>2, <1>4, <2>1, <2>2, <2>3 DEF MType
  <1>12. PartialInv'
    <2>1. CASE j = p
      <3>1. partial' = << >> /\ Len(partial') = 0
        BY <1>3, <2>1
      <3> QED BY <3>1 DEF PartialInv
    <2>2. CASE j < p
      <3>1. partial' = m
        BY <1>3, <2>2
      <3>2. m # << >> => Len(m) > 0
        BY <1>5, EmptySeq
      <3>3. Len(m) > 0 => m[Len(m)].call \in cut'
        <4>1. CASE j = 0
          BY <1>5, <1>7, <1>10, <4>1
        <4>2. CASE j > 0
          <5>1. Len(m) \in n + 1 .. n + j
            BY <1>5, <4>2
          <5>2. m[Len(m)].call = calls + 1
            BY <1>5, <5>1
          <5> QED BY <1>3, <2>2, <4>2, <5>2
        <4> QED BY <4>1, <4>2
      <3>4. ASSUME NEW i \in 1 .. Len(m) PROVE m[i].call \in disturbed'
        <4>1. CASE i \in 1 .. n
          <5>1. m[i].call \in disturbed
            BY <1>5, <1>9, <4>1
          <5> QED BY <1>7, <5>1
        <4>2. CASE i \in n + 1 .. n + j
          <5>1. m[i].call = calls + 1 /\ (n # 0 \/ j \in 1 .. p - 1 \/ j = 0)
            BY <1>5, <2>2, <4>2
          <5>2. j # 0
            BY <1>5, <4>2
          <5> QED BY <1>3, <1>9, <5>1, <5>2
        <4> QED BY <1>5, <4>1, <4>2
      <3> QED BY <1>8, <2>2, <3>1, <3>2, <3>3, <3>4 DEF PartialInv
    <2> QED BY <2>1, <2>2
  <1>13. Whole(cut', queue)
    BY <1>7, JoinsMore, WholeQueue DEF IInv, Whole
  <1>14. WholeMessages'
    <2>1. Whole(cut', queue')
      <3>1. CASE queue' = queue
        BY <1>13, <3>1
      <3>2. CASE queue' = queue \o m /\ j = p
        BY <1>4, <1>5, <1>8, <1>13, <3>2, WholeAppended
      <3> QED BY <1>3, <3>1, <3>2
    <2> QED BY <2>1 DEF WholeMessages, Whole, Continues, Joins
  <1>15. StepInv'
    <2>1. Apart(disturbed', queue)
      BY <1>7 DEF IInv, StepInv, Apart
    <2>2. CASE queue' = queue
      BY <2>1, <2>2 DEF StepInv
    <2>3. CASE queue' = queue \o m /\ j = p
      <3>1. Apart(disturbed', m)
        <4>1. SUFFICES ASSUME NEW i \in 1 .. Len(m), m[i].call \notin disturbed'
                       PROVE  IsTitle(m, i) \/ IsContent(m, i)
          BY DEF Apart
        <4>2. i \in n + 1 .. n + j
          <5>1. i \in 1 .. n => m[i].call \in disturbed
            BY <1>5, <1>9
          <5>2. i \in 1 .. n \/ i \in n + 1 .. n + j
            BY <1>5
          <5> QED BY <1>7, <4>1, <5>1, <5>2
        <4>3. m[i].call = calls + 1
          BY <1>5, <4>2
        <4>4. p # 3 /\ n = 0
          BY <1>3, <1>9, <4>1, <4>3
        <4>5. Len(m) = p /\ 1 \in 1 .. p /\ (p = 1 \/ p = 2)
          BY <1>5, <2>3, <4>4
        <4>6. ASSUME NEW k \in 1 .. p
              PROVE  /\ m[k].call = calls + 1
                     /\ m[k].part = k
                     /\ m[k].last <=> k = p
          <5>1. k \in n + 1 .. n + j /\ k - n = k
            BY <2>3, <4>4
          <5> QED BY <1>5, <5>1
        <4>7. /\ m[1].call = calls + 1 /\ m[1].part = 1
              /\ m[1].last <=> 1 = p
          BY <4>5, <4>6
        <4>8. ASSUME p = 2
               PROVE  m[2].call = calls + 1 /\ m[2].part = 2 /\ m[2].last
          <5>1. 2 \in 1 .. p
            BY <4>8
          <5>2. m[2].call = calls + 1 /\ m[2].part = 2 /\ (m[2].last <=> 2 = p)
            BY <4>6, <5>1
          <5> QED BY <4>8, <5>2
        <4>9. CASE i = 1
          <5>1. m[1].part = 1 /\ m[1].call = calls + 1
            BY <4>7
          <5>2. ~m[1].last => p = 2
            BY <4>5, <4>7
          <5>3. p = 2 => m[2].call = calls + 1 /\ m[2].part = 2 /\ m[2].last
            BY <4>8
          <5>4. 1 + 1 = 2
            OBVIOUS
          <5>5. IsTitle(m, 1)
            BY <4>5, <5>1, <5>2, <5>3, <5>4 DEF IsTitle
          <5> QED BY <4>9, <5>5
        <4>10. CASE i = 2
          <5>1. p = 2 /\ 2 - 1 = 1
            BY <4>5, <4>10
          <5>2. /\ m[2].part = 2 /\ m[2].last /\ m[2].call = calls + 1
                /\ m[1].part = 1 /\ ~m[1].last /\ m[1].call = calls + 1
            BY <4>7, <4>8, <5>1
          <5>3. IsContent(m, 2)
            BY <5>1, <5>2 DEF IsContent
          <5> QED BY <4>10, <5>3
        <4> QED BY <4>5, <4>9, <4>10
      <3>2. Apart(disturbed', queue \o m)
        BY <1>4, <1>5, <2>1, <3>1, ApartAppended DEF IInv, WholeMessages
      <3> QED BY <2>3, <3>2 DEF StepInv
    <2> QED BY <1>3, <2>2, <2>3
  <1>16. MixedOnlyAfterFailure'
    BY <1>2, <1>7 DEF IInv, MixedOnlyAfterFailure
  <1>17. InStep'
    BY <1>2, <1>7 DEF IInv, InStep
  <1> QED BY <1>11, <1>12, <1>14, <1>15, <1>16, <1>17 DEF IInv

\* What is left of whole messages when the first k frames were read.
LEMMA RestWhole ==
    ASSUME MType, WholeMessages, NEW k \in 1 .. 2, k <= Len(queue), queue' = Rest(k),
           cut' = cut
    PROVE  /\ queue' \in Seq(Frame)
           /\ Len(queue') = Len(queue) - k
           /\ \A i \in 1 .. Len(queue') : queue'[i] = queue[i + k]
           /\ WholeMessages'
           /\ queue' # << >> => Len(queue) > k
PROOF
  <1> DEFINE l == Len(queue)
  <1>1. l \in Nat /\ \A i \in k + 1 .. l : queue[i] \in Frame
    BY LenProperties, ElementOfSeq DEF MType
  <1>2. /\ queue' \in Seq(Frame)
        /\ Len(queue') = IF k + 1 <= l THEN l - (k + 1) + 1 ELSE 0
        /\ \A i \in 1 .. l - (k + 1) + 1 : queue'[i] = queue[k + 1 + i - 1]
    BY <1>1, SubSeqProperties DEF Rest
  <1>3. /\ Len(queue') = l - k
        /\ \A i \in 1 .. l - k : queue'[i] = queue[i + k]
    BY <1>1, <1>2
  <1>4. queue' # << >> => l > k
    BY <1>1, <1>2, <1>3, EmptySeq
  <1>5. Whole(cut, queue)
    BY WholeQueue
  <1>6. Whole(cut, queue')
    <2>1. queue' # << >> => queue'[Len(queue')].last
      <3> SUFFICES ASSUME queue' # << >> PROVE queue'[Len(queue')].last
        OBVIOUS
      <3>1. l > k /\ l - k \in 1 .. l - k /\ (l - k) + k = l
        BY <1>1, <1>4
      <3>2. queue'[Len(queue')] = queue[l]
        BY <1>3, <3>1
      <3>3. queue # << >>
        BY <1>1, <3>1, EmptySeq
      <3> QED BY <1>5, <3>2, <3>3 DEF Whole
    <2>2. ASSUME NEW i \in 1 .. Len(queue') - 1
          PROVE  IF queue'[i].last THEN queue'[i + 1].part = 1
                 ELSE Joins(cut, queue'[i], queue'[i + 1])
      <3>1. i + k \in 1 .. l - 1 /\ i \in 1 .. l - k /\ i + 1 \in 1 .. l - k
            /\ (i + 1) + k = (i + k) + 1
        BY <1>1, <1>3
      <3>2. queue'[i] = queue[i + k] /\ queue'[i + 1] = queue[(i + k) + 1]
        BY <1>3, <3>1
      <3> QED BY <1>5, <3>1, <3>2 DEF Whole
    <2> QED BY <2>1, <2>2 DEF Whole
  <1>7. WholeMessages'
    BY <1>6 DEF WholeMessages, Whole, Continues, Joins
  <1> QED BY <1>2, <1>3, <1>4, <1>7

\* Steps of the receiver that take the first k frames off the queue.
LEMMA ReadKeeps ==
    ASSUME IInv, NEW k \in 1 .. 2, k <= Len(queue), queue' = Rest(k),
           UNCHANGED <<calls, partial, cut>>,
           disturbed \subseteq disturbed',
           \/ k = 1 /\ (queue[1].last \/ queue[1].call \in disturbed')
           \/ k = 2 /\ ~queue[1].last
    PROVE  MType' /\ PartialInv' /\ WholeMessages' /\ StepInv'
PROOF
  <1>1. /\ queue' \in Seq(Frame)
        /\ Len(queue') = Len(queue) - k
        /\ \A i \in 1 .. Len(queue') : queue'[i] = queue[i + k]
        /\ WholeMessages'
        /\ queue' # << >> => Len(queue) > k
    BY RestWhole DEF IInv
  <1>2. MType'
    BY <1>1 DEF IInv, MType
  <1>3. PartialInv'
    <2>1. \A i \in 1 .. Len(partial) : partial[i].call \in disturbed'
      BY DEF IInv, PartialInv
    <2> QED BY <2>1 DEF IInv, PartialInv
  <1>4. StepInv'
    <2> SUFFICES ASSUME NEW i \in 1 .. Len(queue'), queue'[i].call \notin disturbed'
                 PROVE  IsTitle(queue', i) \/ IsContent(queue', i)
      BY DEF StepInv, Apart
    <2> DEFINE l == Len(queue)
    <2>1. l \in Nat
      BY LenProperties DEF IInv, MType
    <2>2. /\ Len(queue') = l - k
          /\ \A n \in 1 .. l - k : queue'[n] = queue[n + k]
      BY <1>1
    <2>3. \A n \in 1 .. l : queue[n].call \notin disturbed
                              => IsTitle(queue, n) \/ IsContent(queue, n)
      BY DEF IInv, StepInv, Apart
    <2> HIDE DEF l
    <2>4. /\ i + k \in 1 .. l /\ i + k # 1 /\ i \in 1 .. l - k
          /\ queue'[i] = queue[i + k] /\ queue[i + k].call \notin disturbed
      BY <2>1, <2>2
    <2>5. CASE IsTitle(queue, i + k)
      <3>1. i # 1 => /\ i - 1 \in 1 .. l - k
                     /\ (i - 1) + k = (i + k) - 1
        BY <2>1, <2>4
      <3>2. i # 1 => queue'[i - 1].last
        BY <2>2, <2>4, <2>5, <3>1 DEF IsTitle
      <3>3. ~queue[i + k].last =>
               /\ i + 1 \in 1 .. l - k /\ i # l - k
               /\ (i + 1) + k = (i + k) + 1
        BY <2>1, <2>4, <2>5 DEF IsTitle, l
      <3>4. IsTitle(queue', i)
        BY <2>2, <2>4, <2>5, <3>2, <3>3 DEF IsTitle
      <3> QED BY <3>4
    <2>6. CASE IsContent(queue, i + k)
      <3>1. i # 1
        <4>1. SUFFICES ASSUME i = 1 PROVE FALSE
          OBVIOUS
        <4>2. (i + k) - 1 = k /\ k \in 1 .. l
          BY <2>1, <2>4, <4>1
        <4>3. /\ queue[k].call = queue[1 + k].call /\ queue[k].part = 1
              /\ ~queue[k].last
          BY <2>6, <4>1, <4>2 DEF IsContent
        <4>4. queue[k].call \notin disturbed' /\ queue[k].call \notin disturbed
          BY <2>4, <4>1, <4>3
        <4>5. k = 2 /\ ~queue[1].last
          BY <4>3, <4>4
        <4>6. IsTitle(queue, k) \/ IsContent(queue, k)
          BY <2>3, <4>2, <4>4
        <4>7. ~IsContent(queue, k)
          BY <4>3 DEF IsContent
        <4>8. queue[1].last
          BY <4>5, <4>6, <4>7 DEF IsTitle
        <4> QED BY <4>5, <4>8
      <3>2. i - 1 \in 1 .. l - k /\ (i - 1) + k = (i + k) - 1
        BY <2>1, <2>4, <3>1
      <3>3. IsContent(queue', i)
        BY <2>2, <2>4, <2>6, <3>1, <3>2 DEF IsContent
      <3> QED BY <3>3
    <2> QED BY <2>3, <2>4, <2>5, <2>6
  <1> QED BY <1>1, <1>2, <1>3, <1>4

\* Title and content of one message.
LEMMA BothKeeps ==
    ASSUME IInv, RecvBoth
    PROVE  IInv'
PROOF
  <1>1. /\ Len(queue) >= 2 /\ ~queue[1].last /\ queue' = Rest(2)
        /\ given' = given \cup {<<queue[1], queue[2]>>}
        /\ UNCHANGED <<calls, partial, cut, disturbed>>
    BY DEF RecvBoth
  <1>2. Len(queue) \in Nat /\ queue # << >> /\ 1 \in 1 .. Len(queue)
    BY <1>1, LenProperties, EmptySeq DEF IInv, MType
  <1>3. \/ queue[2].call = queue[1].call /\ queue[2].part = queue[1].part + 1
        \/ queue[1].call \in cut
    <2>1. 1 \in 1 .. Len(queue) - 1 /\ 1 + 1 = 2
      BY <1>1, <1>2
    <2> QED BY <1>1, <2>1 DEF IInv, WholeMessages, Continues
  <1>4. queue[1].call \notin disturbed =>
           /\ queue[1].part = 1
           /\ queue[2].call = queue[1].call /\ queue[2].part = 2
    BY <1>1, <1>2 DEF IInv, StepInv, Apart, IsTitle, IsContent
  <1>5. MixedOnlyAfterFailure'
    BY <1>1, <1>3 DEF IInv, MixedOnlyAfterFailure
  <1>6. InStep'
    BY <1>1, <1>4 DEF IInv, InStep
  <1>7. MType' /\ PartialInv' /\ WholeMessages' /\ StepInv'
    <2>1. 2 \in 1 .. 2 /\ 2 <= Len(queue) /\ disturbed \subseteq disturbed'
      BY <1>1, <1>2
    <2> QED BY <1>1, <2>1, ReadKeeps
  <1> QED BY <1>5, <1>6, <1>7 DEF IInv

\* Steps that hand out a title without a content.
LEMMA TitleKeeps ==
    ASSUME IInv, RecvAlone \/ RecvTitleOnly
    PROVE  IInv'
PROOF
  <1>1. /\ queue # << >> /\ queue' = Rest(1)
        /\ given' = given \/ given' = given \cup {<<queue[1], None>>}
        /\ UNCHANGED <<calls, partial, cut>>
        /\ disturbed \subseteq disturbed'
        /\ queue[1].last \/ queue[1].call \in disturbed'
    BY DEF RecvAlone, RecvTitleOnly
  <1>2. Len(queue) \in Nat /\ Len(queue) >= 1 /\ 1 \in 1 .. Len(queue)
    BY <1>1, LenProperties, EmptySeq DEF IInv, MType
  <1>3. MType' /\ PartialInv' /\ WholeMessages' /\ StepInv'
    <2>1. 1 \in 1 .. 2 /\ 1 <= Len(queue)
      BY <1>2
    <2> QED BY <1>1, <2>1, ReadKeeps, Zenon
  <1>4. MixedOnlyAfterFailure'
    BY <1>1 DEF IInv, MixedOnlyAfterFailure
  <1>5. InStep'
    <2>1. queue[1].call \notin disturbed => queue[1].part = 1
      BY <1>2 DEF IInv, StepInv, Apart, IsTitle, IsContent
    <2> QED BY <1>1, <2>1 DEF IInv, InStep
  <1> QED BY <1>3, <1>4, <1>5 DEF IInv

\* Every other step of the receiver.
LEMMA OtherKeeps ==
    ASSUME IInv,
           \/ RecvNothing \/ RecvAllMessages \/ RecvAllEnds \/ zmq_common_recv
           \/ CloseSocketQuick \/ UNCHANGED vars
    PROVE  IInv'
PROOF
  <1>1. CASE zmq_common_recv
    <2>1. /\ queue # << >> /\ queue' = Rest(1)
          /\ UNCHANGED <<calls, partial, given, cut>>
          /\ disturbed \subseteq disturbed'
          /\ queue[1].last \/ queue[1].call \in disturbed'
      BY <1>1 DEF zmq_common_recv
    <2>2. Len(queue) \in Nat /\ Len(queue) >= 1
      BY <2>1, LenProperties, EmptySeq DEF IInv, MType
    <2>3. MType' /\ PartialInv' /\ WholeMessages' /\ StepInv'
      <3>1. 1 \in 1 .. 2 /\ 1 <= Len(queue)
        BY <2>2
      <3> QED BY <2>1, <3>1, ReadKeeps, Zenon
    <2>4. MixedOnlyAfterFailure'
      BY <2>1 DEF IInv, MixedOnlyAfterFailure
    <2>5. InStep'
      BY <2>1 DEF IInv, InStep
    <2> QED BY <2>3, <2>4, <2>5 DEF IInv
  <1>2. CASE CloseSocketQuick
    <2>1. /\ queue' = << >> /\ Len(queue') = 0
          /\ UNCHANGED <<calls, partial, given, cut, disturbed>>
      BY <1>2 DEF CloseSocketQuick
    <2>2. MType' /\ PartialInv'
      BY <2>1 DEF IInv, MType, PartialInv
    <2>3. WholeMessages' /\ StepInv'
      BY <2>1 DEF WholeMessages, StepInv, Apart
    <2>4. MixedOnlyAfterFailure' /\ InStep'
      BY <2>1 DEF IInv, MixedOnlyAfterFailure, InStep
    <2> QED BY <2>2, <2>3, <2>4 DEF IInv
  <1>3. CASE UNCHANGED <<calls, partial, queue, given, cut, disturbed>>
    <2>1. MType' /\ PartialInv' /\ StepInv'
      BY <1>3 DEF IInv, MType, PartialInv, StepInv
    <2>2. WholeMessages'
      BY <1>3 DEF IInv, WholeMessages, Continues
    <2>3. MixedOnlyAfterFailure' /\ InStep'
      BY <1>3 DEF IInv, MixedOnlyAfterFailure, InStep
    <2> QED BY <2>1, <2>2, <2>3 DEF IInv
  <1> QED BY <1>1, <1>2, <1>3 DEF RecvNothing, RecvAllMessages, RecvAllEnds, vars

\* Every step keeps the invariant.
LEMMA FramingInductive == IInv /\ [Next]_vars => IInv'
PROOF
  <1> SUFFICES ASSUME IInv, [Next]_vars PROVE IInv'
    OBVIOUS
  <1>1. CASE SendEventEntity \/ SendMsgStrings \/ Send3PartStrings \/ zmq_common_send
    BY <1>1, SendKeeps
       DEF SendEventEntity, SendMsgStrings, Send3PartStrings, zmq_common_send
  <1>2. CASE RecvEntity
    BY <1>2, BothKeeps, TitleKeeps DEF RecvEntity
  <1> QED BY <1>1, <1>2, OtherKeeps DEF Next

\* The framing of MZmq's calls and of the receiver's queue, in inductive form.
THEOREM FramingInvariant == Spec => []IInv
PROOF
  <1>1. Init => IInv
    <2> SUFFICES ASSUME Init PROVE IInv
      OBVIOUS
    <2>1. MType /\ PartialInv
      <3>1. partial = << >> /\ Len(partial) = 0 /\ 1 .. Len(partial) = {}
            /\ 1 .. Len(partial) - 1 = {}
        BY DEF Init
      <3>2. calls \in Nat /\ partial \in Seq(Frame) /\ queue \in Seq(Frame)
        BY EmptySeq DEF Init
      <3> QED BY <3>1, <3>2 DEF MType, PartialInv
    <2>2. WholeMessages /\ StepInv
      <3>1. queue = << >> /\ Len(queue) = 0
        BY DEF Init
      <3>2. 1 .. Len(queue) = {} /\ 1 .. Len(queue) - 1 = {}
        BY <3>1
      <3> QED BY <3>1, <3>2 DEF WholeMessages, StepInv, Apart
    <2>3. MixedOnlyAfterFailure /\ InStep
      BY DEF Init, MixedOnlyAfterFailure, InStep
    <2> QED BY <2>1, <2>2, <2>3 DEF IInv
  <1> QED BY <1>1, FramingInductive, PTL DEF Spec

\* The queue of the receiver holds whole messages, however sends fail half-way.
THEOREM WholeMessagesHolds == Spec => []WholeMessages
PROOF
  <1>1. IInv => WholeMessages
    BY DEF IInv
  <1> QED BY <1>1, FramingInvariant, PTL

\* A title and a content of different calls come from a send that failed.
THEOREM MixedHolds == Spec => []MixedOnlyAfterFailure
PROOF
  <1>1. IInv => MixedOnlyAfterFailure
    BY DEF IInv
  <1> QED BY <1>1, FramingInvariant, PTL

\* RecvEventEntity hands out titles with their own contents, but for the calls
\* that were disturbed: every other call stays in step, whatever was left of the
\* messages before it.
THEOREM InStepHolds == Spec => []InStep
PROOF
  <1>1. IInv => InStep
    BY DEF IInv
  <1> QED BY <1>1, FramingInvariant, PTL
=============================================================================

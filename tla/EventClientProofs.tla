-------------------------- MODULE EventClientProofs --------------------------
(* Proofs about EventClient for every set of types and targets, every prefix *)
(* relation, and every number of insertions and nested dispatches.           *)
EXTENDS EventClient, SequenceTheorems, TLAPS

-----------------------------------------------------------------------------
(* The inductive invariant.                                                  *)

\* Insertion numbers identify the nodes of the table.
StampsOK ==
    /\ \A n \in nodes : n.stamp <= inserted
    /\ \A n, m \in nodes : n.stamp = m.stamp => n = m

\* One dispatch loop over a table ns after k insertions.  The loop is before
\* its end; what it called is behind it; what was due and was not called is
\* ahead of it; for handle_event, an old observer of a greater type is at the
\* end of the range or behind it.
FrameOK(f, ns, k) ==
    /\ f.born <= k
    /\ f.it.stamp <= k
    /\ f.it.type >= f.type
    /\ f.stop # End => After(f.it, f.stop)
    /\ \A n \in f.called : n = f.it \/ After(n, f.it)
    /\ \A n \in f.due :
          /\ n.type = f.type
          /\ n.stamp <= f.born
          /\ n \in ns => n \in f.called \/ After(f.it, n)
    /\ f.how = "loc" => f.stop = End
    /\ f.how = "bus" =>
          /\ f.stop # End => f.stop.type > f.type
          /\ \A n \in f.called : n.stamp <= f.born => n.type = f.type
          /\ \A n \in ns :
                n.stamp <= f.born /\ n.type > f.type =>
                    f.stop # End /\ (n = f.stop \/ After(f.stop, n))

FramesOK == \A i \in 1 .. Len(frames) : FrameOK(frames[i], nodes, inserted)

IInv ==
    /\ TypeOK
    /\ StampsOK
    /\ FramesOK
    /\ SubscriptionMirror
    /\ NoDuplicateObserver

-----------------------------------------------------------------------------
(* Facts about nodes and dispatch loops.                                     *)

\* The fields of a node that are compared are natural numbers.
LEMMA NodeFields ==
    /\ \A t \in Types : t \in Nat
    /\ \A n \in Node : n.type \in Types /\ n.type \in Nat /\ n.stamp \in Nat
  BY TypesAssumption DEF Node

\* The order of the multimap is a strict order on its nodes.
LEMMA AfterIsStrict ==
    ASSUME NEW a \in Node, NEW b \in Node, NEW c \in Node
    PROVE  /\ ~After(a, a)
           /\ After(a, b) => ~After(b, a)
           /\ After(a, b) /\ After(b, c) => After(a, c)
  BY NodeFields DEF After

\* An insertion (register_observer) keeps a running loop in order.
LEMMA FrameGrows ==
    ASSUME NEW f \in Frame, NEW ns \in SUBSET Node, NEW k \in Nat,
           NEW n \in Node, n.stamp = k + 1, FrameOK(f, ns, k)
    PROVE  FrameOK(f, ns \cup {n}, k + 1)
  BY DEF FrameOK, Frame, Node

\* An erasure (unregister_observer) keeps a running loop in order.
LEMMA FrameShrinks ==
    ASSUME NEW f \in Frame, NEW ns \in SUBSET Node, NEW k \in Nat,
           NEW ms \in SUBSET ns, FrameOK(f, ns, k)
    PROVE  FrameOK(f, ms, k)
  BY DEF FrameOK, Frame, Node

\* A loop that is entered with the bounds handle_event or publish_loc_event
\* computes is in order.
LEMMA DispatchOK ==
    ASSUME IInv, NEW how \in {"bus", "loc"}, NEW t \in Types,
           NEW first \in Iterators, NEW stop \in Iterators,
           first # stop,
           \/ how = "loc" /\ IsFind(first, t) /\ stop = End
           \/ how = "bus" /\ IsLowerBound(first, t) /\ IsUpperBound(stop, t)
    PROVE  /\ NewFrame(how, t, first, stop) \in Frame
           /\ FrameOK(NewFrame(how, t, first, stop), nodes, inserted)
PROOF
  <1> DEFINE f == NewFrame(how, t, first, stop)
  <1>0. /\ f.how = how /\ f.type = t /\ f.it = first /\ f.stop = stop
        /\ f.born = inserted /\ f.due = ObserversOf(t) /\ f.called = {first}
    BY DEF NewFrame
  <1>1. first \in nodes /\ first.type >= t
        /\ (how = "bus" => first.type = t)
        /\ \A n \in ObserversOf(t) : n = first \/ After(first, n)
    <2>1. CASE how = "loc"
      BY <2>1, TypesAssumption DEF IsFind, IsFirst, ObserversOf, Iterators,
         IInv, TypeOK, Node
    <2>2. CASE how = "bus"
      <3>1. IsLowerBound(first, t) /\ IsUpperBound(stop, t)
        BY <2>2
      <3>2. first # End
        <4> SUFFICES ASSUME first = End PROVE FALSE
          OBVIOUS
        <4>1. {n \in nodes : n.type >= t} = {}
          BY <3>1, EndAssumption DEF IsLowerBound, IsFirst, IInv, TypeOK
        <4>2. {n \in nodes : n.type > t} = {}
          BY <4>1, NodeFields DEF IInv, TypeOK
        <4>3. stop = End
          BY <3>1, <4>2 DEF IsUpperBound, IsFirst
        <4> QED BY <4>3
      <3>3. /\ first \in nodes /\ first.type >= t
            /\ \A m \in nodes : m.type >= t => m = first \/ After(first, m)
        BY <3>1, <3>2 DEF IsLowerBound, IsFirst, Iterators
      <3>4. first.type = t
        <4> SUFFICES ASSUME first.type > t PROVE FALSE
          BY <3>3, TypesAssumption DEF IInv, TypeOK, Node
        <4>1. stop \in nodes /\ stop.type > t
              /\ (first = stop \/ After(stop, first))
          BY <3>1, <3>3 DEF IsUpperBound, IsFirst
        <4>2. first = stop \/ After(first, stop)
          BY <3>3, <4>1, NodeFields DEF IInv, TypeOK
        <4> QED BY <3>3, <4>1, <4>2, AfterIsStrict DEF IInv, TypeOK
      <3> QED BY <2>2, <3>3, <3>4, TypesAssumption
            DEF ObserversOf, IInv, TypeOK, Node
    <2> QED BY <2>1, <2>2
  <1>2. stop # End => stop \in nodes /\ how = "bus" /\ stop.type > t
    BY EndAssumption DEF IsUpperBound, IsFirst, Iterators, IInv, TypeOK
  <1>3. f \in Frame
    BY <1>1 DEF NewFrame, Frame, Iterators, ObserversOf, IInv, TypeOK
  <1>4. stop # End => After(first, stop)
    BY <1>1, <1>2 DEF After, IInv, TypeOK, Node
  <1>5. how = "bus" =>
            \A n \in nodes : n.type > t =>
                stop # End /\ (n = stop \/ After(stop, n))
    BY EndAssumption DEF IsUpperBound, IsFirst, Iterators, IInv, TypeOK
  <1>6. FrameOK(f, nodes, inserted)
    <2> HIDE DEF f
    <2>1. /\ f.born <= inserted /\ f.it.stamp <= inserted
          /\ f.it.type >= f.type
      BY <1>0, <1>1 DEF IInv, TypeOK, StampsOK, Node
    <2>2. \A n \in f.due : /\ n.type = f.type
                           /\ n.stamp <= f.born
                           /\ n \in f.called \/ After(f.it, n)
      BY <1>0, <1>1 DEF ObserversOf, IInv, StampsOK
    <2> QED BY <1>0, <1>1, <1>2, <1>4, <1>5, <2>1, <2>2 DEF FrameOK
  <1> QED BY <1>3, <1>6

\* ++it in a loop whose iterator and end are still in the table: a loop that
\* goes on is in order, a loop that ends has missed nobody, and the next
\* node is a new one.
LEMMA AdvanceOK ==
    ASSUME IInv, NEW f \in Frame, FrameOK(f, nodes, inserted),
           f.it \in nodes, f.stop \in Iterators,
           NEW next \in Iterators, IsNext(next, f.it),
           NEW g, g = Advance(f, next)
    PROVE  /\ next # f.stop => /\ g \in Frame
                               /\ FrameOK(g, nodes, inserted)
                               /\ next \notin f.called
           /\ next = f.stop => f.due \cap nodes \subseteq f.called
PROOF
  <1> USE DEF IInv
  <1>1. f.stop # End => next # End /\ (next = f.stop \/ After(next, f.stop))
    <2> SUFFICES ASSUME f.stop # End
                 PROVE  next # End /\ (next = f.stop \/ After(next, f.stop))
      OBVIOUS
    <2>1. f.stop \in {m \in nodes : After(f.it, m)}
      BY DEF Iterators, FrameOK
    <2> QED BY <2>1, EndAssumption DEF IsNext, IsFirst, TypeOK
  <1>2. CASE next # f.stop
    <2>1. next \in nodes /\ After(f.it, next)
          /\ \A m \in nodes : After(f.it, m) => m = next \/ After(next, m)
      BY <1>1, <1>2 DEF IsNext, IsFirst
    <2>2. g \in Frame
      BY <2>1 DEF Frame, TypeOK, Advance
    <2>3. /\ g.how = f.how /\ g.type = f.type /\ g.it = next
          /\ g.stop = f.stop /\ g.born = f.born /\ g.due = f.due
          /\ g.called = f.called \cup {next}
      BY DEF Advance
    <2>4. next \in Node /\ f.it \in Node /\ f.called \in SUBSET Node
          /\ f.due \in SUBSET Node
      BY <2>1 DEF TypeOK, Frame
    <2>5. next \notin f.called
      BY <2>1, <2>4, AfterIsStrict DEF FrameOK
    <2>6. next.stamp <= inserted /\ next.type >= f.type
      BY <2>1, <2>4, NodeFields DEF FrameOK, After, StampsOK, Frame
    <2>7. \A n \in g.called : n = next \/ After(n, next)
      <3> SUFFICES ASSUME NEW n \in f.called PROVE n = next \/ After(n, next)
        BY <2>3
      <3>1. n = f.it \/ After(n, f.it)
        BY DEF FrameOK
      <3>2. n \in Node
        BY <2>4
      <3> QED BY <3>1, <3>2, <2>1, <2>4, AfterIsStrict
    <2>8. \A n \in f.due : n \in nodes => n \in g.called \/ After(next, n)
      BY <2>1, <2>3 DEF FrameOK
    <2>9. f.how = "bus" /\ next.stamp <= f.born => next.type = f.type
      <3> SUFFICES ASSUME f.how = "bus", next.stamp <= f.born,
                          next.type > f.type
                   PROVE  FALSE
        BY <2>6, <2>4, NodeFields DEF Frame
      <3>1. f.stop # End /\ (next = f.stop \/ After(f.stop, next))
        BY <2>1 DEF FrameOK
      <3>2. After(next, f.stop) /\ After(f.stop, next) /\ f.stop \in Node
        BY <3>1, <1>1, <1>2 DEF Frame
      <3> QED BY <3>2, <2>4, AfterIsStrict
    <2>10. FrameOK(g, nodes, inserted)
      BY <1>1, <1>2, <2>3, <2>6, <2>7, <2>8, <2>9 DEF FrameOK
    <2> QED BY <1>2, <2>2, <2>5, <2>10
  <1>3. CASE next = f.stop
    <2> SUFFICES ASSUME NEW n \in f.due, n \in nodes, n \notin f.called
                 PROVE  FALSE
      BY <1>3
    <2>1. After(f.it, n) /\ n.type = f.type
      BY DEF FrameOK
    <2>2. f.stop # End /\ (n = f.stop \/ After(f.stop, n))
      BY <1>3, <2>1, EndAssumption DEF IsNext, IsFirst, TypeOK
    <2>3. f.stop.type > f.type
      BY <2>2 DEF FrameOK, Frame
    <2> QED BY <2>1, <2>2, <2>3, NodeFields DEF After, Frame, TypeOK
  <1> QED BY <1>2, <1>3

-----------------------------------------------------------------------------
(* Every step keeps the invariant.                                           *)

\* register_observer.
LEMMA RegisterKeeps ==
    ASSUME IInv, NEW t \in Types, NEW o \in Targets, RegisterObserver(t, o)
    PROVE  IInv'
PROOF
  <1> USE DEF IInv
  <1>1. CASE Entries(t, o) # {}
    <2>1. UNCHANGED vars
      BY <1>1 DEF RegisterObserver, vars
    <2> QED BY <2>1 DEF vars, TypeOK, StampsOK, FramesOK,
               SubscriptionMirror, ObserversOf, NoDuplicateObserver
  <1>2. CASE Entries(t, o) = {}
    <2> DEFINE n == [type |-> t, target |-> o, stamp |-> inserted + 1]
    <2>1. /\ inserted' = inserted + 1
          /\ nodes' = nodes \cup {n}
          /\ IF ObserversOf(t) # {} THEN UNCHANGED subscribed
                                    ELSE SetSubscribe(t)
          /\ UNCHANGED <<frames, terminated, revents, undefined>>
      BY <1>2 DEF RegisterObserver
    <2>2. n \in Node /\ n.stamp = inserted + 1 /\ n.type = t /\ n.target = o
      BY DEF Node, TypeOK
    <2> HIDE DEF n
    <2>3. TypeOK'
      BY <2>1, <2>2 DEF TypeOK, SetSubscribe
    <2>4. StampsOK'
      <3>1. \A m \in nodes : m.stamp \in Nat /\ m.stamp <= inserted
        BY NodeFields DEF StampsOK, TypeOK
      <3> QED BY <2>1, <2>2, <3>1 DEF StampsOK, TypeOK
    <2>5. FramesOK'
      <3> SUFFICES ASSUME NEW i \in 1 .. Len(frames)
                   PROVE  FrameOK(frames[i], nodes', inserted')
        BY <2>1 DEF FramesOK
      <3>1. frames[i] \in Frame /\ FrameOK(frames[i], nodes, inserted)
        BY DEF FramesOK, TypeOK
      <3> QED BY <2>1, <2>2, <3>1, FrameGrows DEF TypeOK
    <2>6. SubscriptionMirror'
      <3>1. ObserversOf(t)' # {} /\ \A u \in Types \ {t} :
                                        ObserversOf(u)' = ObserversOf(u)
        BY <2>1, <2>2 DEF ObserversOf
      <3> QED BY <2>1, <3>1 DEF SubscriptionMirror, SetSubscribe, TypeOK
    <2>7. NoDuplicateObserver'
      BY <1>2, <2>1, <2>2 DEF NoDuplicateObserver, Entries
    <2> QED BY <2>3, <2>4, <2>5, <2>6, <2>7
  <1> QED BY <1>1, <1>2

\* unregister_observer.
LEMMA UnregisterKeeps ==
    ASSUME IInv, NEW t \in Types, NEW o \in Targets, UnregisterObserver(t, o)
    PROVE  IInv'
PROOF
  <1> USE DEF IInv
  <1>1. PICK n \in Entries(t, o) :
            /\ nodes' = nodes \ {n}
            /\ IF ObserversOf(t) = {n} THEN SetUnsubscribe(t)
                                       ELSE UNCHANGED subscribed
    BY DEF UnregisterObserver
  <1>2. n \in nodes /\ n.type = t
    BY DEF Entries
  <1>3. UNCHANGED <<inserted, frames, terminated, revents, undefined>>
    BY DEF UnregisterObserver
  <1>4. TypeOK'
    BY <1>1, <1>3 DEF TypeOK, SetUnsubscribe
  <1>5. StampsOK'
    BY <1>1, <1>3 DEF StampsOK
  <1>6. FramesOK'
    <2> SUFFICES ASSUME NEW i \in 1 .. Len(frames)
                 PROVE  FrameOK(frames[i], nodes', inserted')
      BY <1>3 DEF FramesOK
    <2>1. frames[i] \in Frame /\ FrameOK(frames[i], nodes, inserted)
      BY DEF FramesOK, TypeOK
    <2> QED BY <1>1, <1>3, <2>1, FrameShrinks DEF TypeOK
  <1>7. SubscriptionMirror'
    <2>1. ObserversOf(t)' = ObserversOf(t) \ {n}
      BY <1>1 DEF ObserversOf
    <2>2. \A u \in Types \ {t} : ObserversOf(u)' = ObserversOf(u)
      BY <1>1, <1>2 DEF ObserversOf
    <2>3. n \in ObserversOf(t)
      BY <1>2 DEF ObserversOf
    <2>4. ObserversOf(t)' = {} <=> ObserversOf(t) = {n}
      BY <2>1, <2>3
    <2>5. CASE terminated
      BY <1>3, <2>5 DEF SubscriptionMirror
    <2>6. CASE ~terminated
      <3>1. subscribed[t] = 1
        BY <2>3, <2>6 DEF SubscriptionMirror
      <3>2. subscribed'[t] = IF ObserversOf(t)' = {} THEN 0 ELSE 1
        BY <1>1, <2>4, <2>6, <3>1 DEF SetUnsubscribe, TypeOK
      <3>3. \A u \in Types \ {t} : subscribed'[u] = subscribed[u]
        BY <1>1 DEF SetUnsubscribe, TypeOK
      <3> QED BY <2>2, <2>6, <3>2, <3>3 DEF SubscriptionMirror
    <2> QED BY <2>5, <2>6
  <1>8. NoDuplicateObserver'
    BY <1>1 DEF NoDuplicateObserver
  <1> QED BY <1>4, <1>5, <1>6, <1>7, <1>8

\* The entry of a dispatch loop, which leaves the table alone.
LEMMA DispatchKeeps ==
    ASSUME IInv, NEW how \in {"bus", "loc"}, NEW t \in Types,
           NEW first \in Iterators, NEW stop \in Iterators,
           \/ how = "loc" /\ IsFind(first, t) /\ stop = End
           \/ how = "bus" /\ IsLowerBound(first, t) /\ IsUpperBound(stop, t),
           Dispatch(how, t, first, stop), UNCHANGED <<nodes, inserted>>
    PROVE  frames' \in Seq(Frame) /\ FramesOK'
PROOF
  <1>1. CASE first = stop
    BY <1>1 DEF Dispatch, IInv, TypeOK, FramesOK
  <1>2. CASE first # stop
    <2> DEFINE f == NewFrame(how, t, first, stop)
    <2>1. f \in Frame /\ FrameOK(f, nodes, inserted)
      BY <1>2, DispatchOK
    <2>2. frames' = Append(frames, f)
      BY <1>2 DEF Dispatch
    <2> HIDE DEF f
    <2>3. frames \in Seq(Frame)
      BY DEF IInv, TypeOK
    <2>4. /\ frames' \in Seq(Frame)
          /\ Len(frames') = Len(frames) + 1
          /\ \A i \in 1 .. Len(frames) : frames'[i] = frames[i]
          /\ frames'[Len(frames) + 1] = f
      BY <2>1, <2>2, <2>3
    <2>5. \A i \in 1 .. Len(frames') :
              FrameOK(frames'[i], nodes, inserted)
      <3> SUFFICES ASSUME NEW i \in 1 .. Len(frames')
                   PROVE  FrameOK(frames'[i], nodes, inserted)
        OBVIOUS
      <3>1. CASE i \in 1 .. Len(frames)
        BY <2>4, <3>1 DEF IInv, FramesOK
      <3>2. CASE i = Len(frames) + 1
        BY <2>1, <2>4, <3>2
      <3> QED BY <2>3, <2>4, <3>1, <3>2
    <2> QED BY <2>4, <2>5 DEF FramesOK
  <1> QED BY <1>1, <1>2

\* publish_loc_event.
LEMMA PublishLocKeeps ==
    ASSUME IInv, NEW t \in Types, PublishLocEvent(t)
    PROVE  IInv'
PROOF
  <1>1. PICK first \in Iterators :
            IsFind(first, t) /\ Dispatch("loc", t, first, End)
    BY DEF PublishLocEvent
  <1>2. UNCHANGED <<nodes, inserted, subscribed, terminated, revents,
                    undefined>>
    BY DEF PublishLocEvent
  <1>3. frames' \in Seq(Frame) /\ FramesOK'
    BY <1>1, <1>2, DispatchKeeps DEF Iterators
  <1> QED BY <1>2, <1>3 DEF IInv, TypeOK, StampsOK, SubscriptionMirror,
             ObserversOf, NoDuplicateObserver

\* handle_event with a title to dispatch.
LEMMA DispatchTitleKeeps ==
    ASSUME IInv, NEW t \in Types, DispatchTitle(t),
           UNCHANGED <<nodes, inserted, subscribed, undefined>>,
           terminated' \in BOOLEAN, revents' \in BOOLEAN,
           terminated => terminated'
    PROVE  IInv'
PROOF
  <1>1. PICK first, stop \in Iterators :
            /\ IsLowerBound(first, t)
            /\ IsUpperBound(stop, t)
            /\ Dispatch("bus", t, first, stop)
    BY DEF DispatchTitle
  <1>2. frames' \in Seq(Frame) /\ FramesOK'
    BY <1>1, DispatchKeeps
  <1> QED BY <1>2 DEF IInv, TypeOK, StampsOK, SubscriptionMirror,
             ObserversOf, NoDuplicateObserver

\* The return of a handler.
LEMMA ReturnKeeps ==
    ASSUME IInv, HandlerReturns
    PROVE  IInv'
PROOF
  <1>1. UNCHANGED <<nodes, inserted, subscribed, terminated, revents>>
    BY DEF HandlerReturns
  <1>2. undefined' \in BOOLEAN
    BY DEF HandlerReturns, IInv, TypeOK
  <1>3. frames \in Seq(Frame) /\ Len(frames) \in Nat /\ Len(frames) > 0
    BY DEF HandlerReturns, IInv, TypeOK
  <1>4. Top \in Frame /\ FrameOK(Top, nodes, inserted)
    BY <1>3 DEF Top, IInv, FramesOK
  <1>5. frames' \in Seq(Frame)
        /\ \A i \in 1 .. Len(frames') : FrameOK(frames'[i], nodes, inserted)
    <2>1. CASE frames' = frames
      BY <2>1 DEF IInv, TypeOK, FramesOK
    <2>2. CASE frames' = SubSeq(frames, 1, Len(frames) - 1)
      <3>1. /\ frames' \in Seq(Frame)
            /\ Len(frames') = Len(frames) - 1
            /\ \A i \in 1 .. Len(frames') : frames'[i] = frames[i]
        <4> DEFINE k == Len(frames) - 1
        <4>1. k \in Nat /\ \A i \in 1 .. k : frames[i] \in Frame
          BY <1>3
        <4>2. /\ SubSeq(frames, 1, k) \in Seq(Frame)
              /\ Len(SubSeq(frames, 1, k)) = IF 1 <= k THEN k - 1 + 1 ELSE 0
              /\ \A i \in 1 .. k - 1 + 1 :
                    SubSeq(frames, 1, k)[i] = frames[1 + i - 1]
          <5> HIDE DEF k
          <5> QED BY <4>1, SubSeqProperties
        <4>3. Len(SubSeq(frames, 1, k)) = k
          <5> HIDE DEF k
          <5> QED BY <4>1, <4>2
        <4>4. \A i \in 1 .. k : SubSeq(frames, 1, k)[i] = frames[i]
          <5> HIDE DEF k
          <5> QED BY <4>1, <4>2
        <4> QED BY <2>2, <4>2, <4>3, <4>4
      <3>2. \A i \in 1 .. Len(frames') : i \in 1 .. Len(frames)
        BY <1>3, <3>1
      <3> QED BY <3>1, <3>2 DEF IInv, FramesOK
    <2>3. ASSUME NEW next \in Iterators, IsNext(next, Top.it),
                 Top.it \in nodes, Top.stop \in Iterators, next # Top.stop,
                 frames' = [frames EXCEPT ![Len(frames)] = Advance(Top, next)]
          PROVE  frames' \in Seq(Frame)
                 /\ \A i \in 1 .. Len(frames') :
                        FrameOK(frames'[i], nodes, inserted)
      <3> DEFINE g == Advance(Top, next)
      <3>1. g \in Frame /\ FrameOK(g, nodes, inserted)
        BY <1>4, <2>3, AdvanceOK
      <3> HIDE DEF g
      <3>2. frames' = [frames EXCEPT ![Len(frames)] = g]
        BY <2>3 DEF g
      <3>3. /\ frames' \in Seq(Frame)
            /\ Len(frames') = Len(frames)
            /\ \A i \in 1 .. Len(frames) :
                  frames'[i] = IF i = Len(frames) THEN g ELSE frames[i]
        BY <1>3, <3>1, <3>2
      <3> QED BY <3>1, <3>3 DEF IInv, FramesOK
    <2> QED BY <2>1, <2>2, <2>3 DEF HandlerReturns
  <1> QED BY <1>1, <1>2, <1>5 DEF IInv, TypeOK, StampsOK, FramesOK,
             SubscriptionMirror, ObserversOf, NoDuplicateObserver

\* Any step of the client keeps the invariant.
LEMMA StepKeeps == IInv /\ [Next]_vars => IInv'
PROOF
  <1> SUFFICES ASSUME IInv, [Next]_vars PROVE IInv'
    OBVIOUS
  <1>1. CASE UNCHANGED vars
    BY <1>1 DEF vars, IInv, TypeOK, StampsOK, FramesOK, SubscriptionMirror,
       ObserversOf, NoDuplicateObserver
  <1>2. ASSUME NEW t \in Types, NEW o \in Targets,
               RegisterObserver(t, o) \/ UnregisterObserver(t, o)
        PROVE  IInv'
    BY <1>2, RegisterKeeps, UnregisterKeeps
  <1>3. ASSUME NEW t \in Types, PublishLocEvent(t) PROVE IInv'
    BY <1>3, PublishLocKeeps
  <1>4. ASSUME NEW t \in Types, HandleMessage(t) PROVE IInv'
    BY <1>4, DispatchTitleKeeps DEF HandleMessage
  <1>5. CASE HandleNothing
    BY <1>5 DEF HandleNothing, IInv, TypeOK, StampsOK, FramesOK,
       SubscriptionMirror, ObserversOf, NoDuplicateObserver
  <1>6. CASE HandleStale
    BY <1>6, DispatchTitleKeeps, TypesAssumption
       DEF HandleStale, IInv, TypeOK
  <1>7. CASE HandlerReturns
    BY <1>7, ReturnKeeps
  <1>8. CASE Crashed
    BY <1>1, <1>8 DEF Crashed
  <1> QED BY <1>1, <1>2, <1>3, <1>4, <1>5, <1>6, <1>7, <1>8 DEF Next

\* The empty table of a new client satisfies the invariant.
LEMMA InitOK == Init => IInv
  BY TypesAssumption DEF Init, IInv, TypeOK, StampsOK, FramesOK,
     SubscriptionMirror, ObserversOf, NoDuplicateObserver

-----------------------------------------------------------------------------
(* The theorems.                                                             *)

\* The inductive invariant holds in every state of every EventClient.
THEOREM Invariance == Spec => []IInv
  BY InitOK, StepKeeps, PTL DEF Spec

\* Every variable keeps its type; no dispatch loop runs past end().
THEOREM TypeCorrect == Spec => []TypeOK
PROOF
  <1>1. IInv => TypeOK
    BY DEF IInv
  <1> QED BY <1>1, Invariance, PTL

\* The socket is subscribed to exactly the types that have observers.
THEOREM MirrorHolds == Spec => []SubscriptionMirror
PROOF
  <1>1. IInv => SubscriptionMirror
    BY DEF IInv
  <1> QED BY <1>1, Invariance, PTL

\* No target observes a type twice.
THEOREM NoDuplicates == Spec => []NoDuplicateObserver
PROOF
  <1>1. IInv => NoDuplicateObserver
    BY DEF IInv
  <1> QED BY <1>1, Invariance, PTL

\* handle_event calls an observer of another type only if it was inserted
\* while the loop was running.
THEOREM OwnTypeHolds == Spec => []OldObserversOwnType
PROOF
  <1>1. IInv => OldObserversOwnType
    BY DEF IInv, TypeOK, FramesOK, FrameOK, OldObserversOwnType, Running
  <1> QED BY <1>1, Invariance, PTL

\* A dispatch loop that ends has called everybody who was due and stayed.
THEOREM NobodyMissedHolds == Spec => NobodyMissed
PROOF
  <1>1. IInv /\ [Next]_vars =>
            [Len(frames') < Len(frames) =>
                Top.due \cap nodes \subseteq Top.called]_vars
    <2> SUFFICES ASSUME IInv, Next, Len(frames') < Len(frames)
                 PROVE  Top.due \cap nodes \subseteq Top.called
      OBVIOUS
    <2>1. frames \in Seq(Frame) /\ Len(frames) \in Nat
      BY DEF IInv, TypeOK
    <2>2. frames' # frames
      BY <2>1
    <2>3. \A how, t, first, stop : ~Dispatch(how, t, first, stop)
      BY <2>1 DEF Dispatch
    <2>4. HandlerReturns
      BY <2>2, <2>3 DEF Next, RegisterObserver, UnregisterObserver,
         PublishLocEvent, HandleMessage, HandleNothing, HandleStale,
         DispatchTitle, Crashed, vars
    <2>5. Top \in Frame /\ FrameOK(Top, nodes, inserted)
      BY <2>1, <2>4 DEF HandlerReturns, Top, IInv, FramesOK
    <2>6. PICK next \in Iterators :
              /\ IsNext(next, Top.it)
              /\ Top.it \in nodes /\ Top.stop \in Iterators
              /\ frames' = IF next = Top.stop
                           THEN SubSeq(frames, 1, Len(frames) - 1)
                           ELSE [frames EXCEPT ![Len(frames)] =
                                    Advance(Top, next)]
      BY <2>2, <2>4 DEF HandlerReturns
    <2>7. next = Top.stop
      BY <2>1, <2>6
    <2> QED BY <2>5, <2>6, <2>7, AdvanceOK
  <1> QED BY <1>1, Invariance, PTL DEF Spec, NobodyMissed

\* A dispatch loop never calls a node again.
THEOREM NeverTwiceHolds == Spec => NeverTwice
PROOF
  <1>1. IInv /\ [Next]_vars =>
            [\A i \in 1 .. Len(frames) :
                /\ i <= Len(frames')
                /\ frames'[i].it # frames[i].it
                => frames'[i].it \notin frames[i].called]_vars
    <2> SUFFICES ASSUME IInv, Next, NEW i \in 1 .. Len(frames),
                        i <= Len(frames'), frames'[i].it # frames[i].it
                 PROVE  frames'[i].it \notin frames[i].called
      OBVIOUS
    <2>1. frames \in Seq(Frame) /\ Len(frames) \in Nat
      BY DEF IInv, TypeOK
    <2>2. frames'[i] # frames[i]
      OBVIOUS
    <2>3. \A how, t, first, stop : ~Dispatch(how, t, first, stop)
      BY <2>1, <2>2 DEF Dispatch
    <2>4. HandlerReturns
      BY <2>2, <2>3 DEF Next, RegisterObserver, UnregisterObserver,
         PublishLocEvent, HandleMessage, HandleNothing, HandleStale,
         DispatchTitle, Crashed, vars
    <2>5. Top \in Frame /\ FrameOK(Top, nodes, inserted)
      BY <2>1, <2>4 DEF HandlerReturns, Top, IInv, FramesOK
    <2>6. PICK next \in Iterators :
              /\ IsNext(next, Top.it)
              /\ Top.it \in nodes /\ Top.stop \in Iterators
              /\ frames' = IF next = Top.stop
                           THEN SubSeq(frames, 1, Len(frames) - 1)
                           ELSE [frames EXCEPT ![Len(frames)] =
                                    Advance(Top, next)]
      BY <2>2, <2>4 DEF HandlerReturns
    <2>7. next # Top.stop
      BY <2>1, <2>2, <2>6
    <2>8. i = Len(frames) /\ frames'[i] = Advance(Top, next)
      BY <2>1, <2>2, <2>6, <2>7
    <2> QED BY <2>5, <2>6, <2>7, <2>8, AdvanceOK DEF Top, Advance
  <1> QED BY <1>1, Invariance, PTL DEF Spec, NeverTwice
=============================================================================

----------------------------- MODULE EventClient -----------------------------
(***************************************************************************)
(* The observer table of one EventClient and the dispatch of events to it  *)
(* (EventClient.cpp).  The table is a std::multimap<EventType,             *)
(* EventTarget*>; handlers run inside the loops that walk it and may       *)
(* subscribe, unsubscribe and publish locally, so the table changes under  *)
(* the iterators of the loops that are still running.                      *)
(*                                                                         *)
(* An event type is a string; only its lexicographic position matters to   *)
(* the table and only its prefixes to the SUB socket, so types are natural *)
(* numbers in that order, 0 being the empty string.                        *)
(***************************************************************************)
EXTENDS Naturals, Sequences

CONSTANTS
    Types,       \* the event types, numbered in lexicographic order
    Targets,     \* the EventTarget objects
    Prefixes,    \* Prefixes[t]: the types that are a prefix of t
    End,         \* _event_object_map.end()
    MaxInserts,  \* bound: insertions into the map
    MaxDepth     \* bound: dispatch loops running inside one another

\* A node of the multimap.  Nodes of one key keep their insertion order, so
\* the insertion number is both the identity of a node and its place.
Node == [type : Types, target : Targets, stamp : Nat]

ASSUME TypesAssumption == Types \subseteq Nat /\ 0 \in Types
ASSUME PrefixesAssumption ==
    /\ Prefixes \in [Types -> SUBSET Types]
    /\ \A t \in Types : t \in Prefixes[t]
ASSUME EndAssumption == End \notin Node
ASSUME BoundsAssumption == MaxInserts \in Nat /\ MaxDepth \in Nat

VARIABLES
    nodes,       \* _event_object_map
    inserted,    \* how many nodes were ever inserted
    subscribed,  \* the SUB socket's own count per subscribed type
    frames,      \* the dispatch loops on the call stack, innermost last
    terminated,  \* the SUB socket knows that its context was terminated
    revents,     \* sub_items.revents & ZMQ_POLLIN
    undefined    \* undefined behaviour was reached: nothing is known any more

vars == <<nodes, inserted, subscribed, frames, terminated, revents,
          undefined>>

-----------------------------------------------------------------------------
(* The multimap and its iterators.  An iterator is a node or End; it        *)
(* dangles when its node was erased.                                        *)

\* m stands after n in the map: greater key, or the same key inserted later.
After(n, m) ==
    \/ n.type < m.type
    \/ n.type = m.type /\ n.stamp < m.stamp

\* it is the iterator to the first of the nodes S, or end() when S is empty.
IsFirst(it, S) ==
    \/ S = {} /\ it = End
    \/ it \in S /\ \A m \in S : m = it \/ After(it, m)

Iterators == nodes \cup {End}

ObserversOf(t) == {n \in nodes : n.type = t}

\* Mutant: only the entry that find returns is compared.
EntriesFirstOnly(t, o) ==
    {n \in nodes : n.type = t /\ n.target = o /\ IsFirst(n, ObserversOf(t))}

\* The entries (t, o): the duplicate check of register_observer and the
\* search of unregister_observer.
Entries(t, o) == {n \in nodes : n.type = t /\ n.target = o}

\* Mutant: find returns any of the equal elements.
IsFindAny(it, t) == IF ObserversOf(t) = {} THEN it = End
                                           ELSE it \in ObserversOf(t)

\* Mutant: the range of handle_event is open-ended.
IsUpperBoundOpen(it, t) == it = End

\* Mutant: the walk starts over after every handler.
IsNextRestart(it, n) == IsFirst(it, {m \in nodes : m.type >= n.type /\ m # n})

IsFind(it, t) == IF ObserversOf(t) = {} THEN it = End
                                        ELSE IsFirst(it, ObserversOf(t))
IsLowerBound(it, t) == IsFirst(it, {n \in nodes : n.type >= t})
IsUpperBound(it, t) == IsFirst(it, {n \in nodes : n.type > t})
IsNext(it, n) == IsFirst(it, {m \in nodes : After(n, m)})

\* One dispatch loop: the handler of it is running; the loop ends at stop.
\* born, due and called are history: the number of insertions when the loop
\* started, the observers of the type at that time, and the nodes called.
Frame == [how : {"bus", "loc"}, type : Types, it : Node,
          stop : Node \cup {End}, born : Nat,
          due : SUBSET Node, called : SUBSET Node]

NewFrame(how, t, first, stop) ==
    [how |-> how, type |-> t, it |-> first, stop |-> stop, born |-> inserted,
     due |-> ObserversOf(t), called |-> {first}]

\* The same loop with the handler of next running.
Advance(f, next) ==
    [how |-> f.how, type |-> f.type, it |-> next, stop |-> f.stop,
     born |-> f.born, due |-> f.due, called |-> f.called \cup {next}]

Top == frames[Len(frames)]

-----------------------------------------------------------------------------
(* The SUB socket, as far as the table uses it.                             *)

\* zmq_setsockopt(ZMQ_SUBSCRIBE): fails once the socket is terminated.
SetSubscribe(t) ==
    subscribed' = IF terminated THEN subscribed
                  ELSE [subscribed EXCEPT ![t] = @ + 1]

\* zmq_setsockopt(ZMQ_UNSUBSCRIBE): removing what is not there does nothing.
SetUnsubscribe(t) ==
    subscribed' = IF terminated \/ subscribed[t] = 0 THEN subscribed
                  ELSE [subscribed EXCEPT ![t] = @ - 1]

\* The filter of the SUB socket: a subscribed prefix lets a title through.
Match(t) == \E p \in Prefixes[t] : subscribed[p] > 0

-----------------------------------------------------------------------------
Init ==
    /\ nodes = {}
    /\ inserted = 0
    /\ subscribed = [t \in Types |-> 0]
    /\ frames = << >>
    /\ terminated = FALSE
    /\ revents = FALSE
    /\ undefined = FALSE

\* register_observer, called at any time by the thread that owns the client:
\* between two dispatches or from a handler.
RegisterObserver(t, o) ==
    /\ ~undefined
    /\ \/ /\ Entries(t, o) # {}
          /\ UNCHANGED <<nodes, inserted, subscribed>>
       \/ /\ Entries(t, o) = {}
          /\ inserted < MaxInserts
          /\ inserted' = inserted + 1
          /\ nodes' = nodes \cup
                {[type |-> t, target |-> o, stamp |-> inserted + 1]}
          /\ IF ObserversOf(t) # {} THEN UNCHANGED subscribed
                                    ELSE SetSubscribe(t)
    /\ UNCHANGED <<frames, terminated, revents, undefined>>

\* Mutant: the socket is told at every unregister_observer.
UnregisterObserverAlways(t, o) ==
    /\ ~undefined
    /\ \E n \in Entries(t, o) : nodes' = nodes \ {n}
    /\ SetUnsubscribe(t)
    /\ UNCHANGED <<inserted, frames, terminated, revents, undefined>>

\* unregister_observer: erases the first entry (t, o); the SUB socket is told
\* when no observer of t is left.
UnregisterObserver(t, o) ==
    /\ ~undefined
    /\ \E n \in Entries(t, o) :
          /\ IsFirst(n, Entries(t, o))
          /\ nodes' = nodes \ {n}
          /\ IF ObserversOf(t) = {n} THEN SetUnsubscribe(t)
                                     ELSE UNCHANGED subscribed
    /\ UNCHANGED <<inserted, frames, terminated, revents, undefined>>

\* Mutant: the loop runs its body before it compares with the end.
DispatchDoWhile(how, t, first, stop) ==
    /\ Len(frames) < MaxDepth
    /\ frames' = Append(frames, NewFrame(how, t, first, stop))

\* The entry of a dispatch loop over [first, stop): its first handler starts.
Dispatch(how, t, first, stop) ==
    /\ Len(frames) < MaxDepth
    /\ frames' = IF first = stop THEN frames
                 ELSE Append(frames, NewFrame(how, t, first, stop))

\* publish_loc_event walks from find(type) to end().
PublishLocEvent(t) ==
    /\ ~undefined
    /\ \E first \in Iterators : IsFind(first, t) /\ Dispatch("loc", t, first, End)
    /\ UNCHANGED <<nodes, inserted, subscribed, terminated, revents,
                   undefined>>

\* The loop of handle_event: equal_range(title), both ends taken up front.
DispatchTitle(t) ==
    \E first, stop \in Iterators :
        /\ IsLowerBound(first, t)
        /\ IsUpperBound(stop, t)
        /\ Dispatch("bus", t, first, stop)

\* handle_event with a message.  Receiving it may discover that the context
\* was terminated (every hundredth frame looks, which is a content frame):
\* the content is lost, the title is dispatched all the same.
HandleMessage(t) ==
    /\ ~undefined /\ ~terminated
    /\ Match(t)
    /\ revents' = TRUE
    /\ terminated' \in BOOLEAN
    /\ DispatchTitle(t)
    /\ UNCHANGED <<nodes, inserted, subscribed, undefined>>

\* handle_event when zmq_poll clears revents: the 20 ms pass without a
\* message, or the poll itself discovers the termination.
HandleNothing ==
    /\ ~undefined /\ ~terminated
    /\ revents' = FALSE
    /\ terminated' \in BOOLEAN
    /\ UNCHANGED <<nodes, inserted, subscribed, frames, undefined>>

\* handle_event when zmq_poll fails before it writes revents (termination
\* already known, or a signal): a stale POLLIN leads to a receive that fails
\* and leaves the title empty, and the empty title is dispatched.
HandleStale ==
    /\ ~undefined
    /\ revents
    /\ DispatchTitle(0)
    /\ UNCHANGED <<nodes, inserted, subscribed, terminated, revents,
                   undefined>>

\* The running handler returns: ++it, then the comparison with stop.  Either
\* is undefined if the node in question was erased meanwhile.
HandlerReturns ==
    /\ ~undefined
    /\ frames # << >>
    /\ IF Top.it \in nodes /\ Top.stop \in Iterators
       THEN /\ \E next \in Iterators :
                  /\ IsNext(next, Top.it)
                  /\ frames' = IF next = Top.stop
                               THEN SubSeq(frames, 1, Len(frames) - 1)
                               ELSE [frames EXCEPT ![Len(frames)] =
                                       Advance(Top, next)]
            /\ UNCHANGED undefined
       ELSE undefined' = TRUE /\ UNCHANGED frames
    /\ UNCHANGED <<nodes, inserted, subscribed, terminated, revents>>

\* After undefined behaviour the model says nothing more.
Crashed == undefined /\ UNCHANGED vars

Next ==
    \/ \E t \in Types, o \in Targets :
          RegisterObserver(t, o) \/ UnregisterObserver(t, o)
    \/ \E t \in Types : PublishLocEvent(t) \/ HandleMessage(t)
    \/ HandleNothing
    \/ HandleStale
    \/ HandlerReturns
    \/ Crashed

Spec == Init /\ [][Next]_vars

-----------------------------------------------------------------------------
(* What the table and its dispatch loops guarantee.                         *)

Running == {frames[i] : i \in 1 .. Len(frames)}

\* Every variable has its type; in particular no dispatch loop of
\* handle_event or publish_loc_event ever runs a handler past end().
TypeOK ==
    /\ nodes \in SUBSET Node
    /\ inserted \in Nat
    /\ subscribed \in [Types -> Nat]
    /\ frames \in Seq(Frame)
    /\ terminated \in BOOLEAN
    /\ revents \in BOOLEAN
    /\ undefined \in BOOLEAN

\* As long as the socket works, it is subscribed to a type exactly once when
\* the table holds observers of the type and not at all when it holds none,
\* whatever register_observer and unregister_observer did in between.
SubscriptionMirror ==
    ~terminated =>
        \A t \in Types :
            subscribed[t] = IF ObserversOf(t) = {} THEN 0 ELSE 1

\* register_observer never enters a target twice for one type, so that
\* unregister_observer, which erases one entry, ends the subscription.
NoDuplicateObserver ==
    \A n, m \in nodes :
        n.type = m.type /\ n.target = m.target => n = m

\* An observer that was in the table when handle_event took its range is
\* called by that loop only if it subscribed to the title, although handlers
\* may have changed the table in the middle of the loop.
OldObserversOwnType ==
    \A f \in Running :
        f.how = "bus" =>
            \A n \in f.called : n.stamp <= f.born => n.type = f.type

\* A dispatch loop that ends normally has called every observer of the type
\* that was in the table when it started and still is: a handler that
\* subscribes or unsubscribes others never makes the loop skip one.
NobodyMissed ==
    [][ Len(frames') < Len(frames) => Top.due \cap nodes \subseteq Top.called
      ]_vars

\* A dispatch loop never returns to a node it has already called, whatever
\* the handlers inserted and erased.
NeverTwice ==
    [][ \A i \in 1 .. Len(frames) :
            /\ i <= Len(frames')
            /\ frames'[i].it # frames[i].it
            => frames'[i].it \notin frames[i].called
      ]_vars

-----------------------------------------------------------------------------
(* What the comments promise and the code does not do.                      *)

\* "an event to be handled must be subscribed first": handle_event calls
\* subscribers of the title only.
BusCallsSubscribersOnly ==
    \A f \in Running :
        f.how = "bus" => \A n \in f.called : n.type = f.type
=============================================================================

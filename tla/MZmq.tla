-------------------------------- MODULE MZmq --------------------------------
(***************************************************************************)
(* The functions of MZmq.h send and receive messages of several frames     *)
(* with one call of ZeroMQ per frame, and any of these calls may fail.     *)
(* One sender and one receiver: a PUB socket passes a message on when its  *)
(* last frame is written, and decides with the first frame whether the     *)
(* receiver gets it (subscription, high-water mark).                       *)
(*                                                                         *)
(* The contents of frames play no part: a frame is known by the call that  *)
(* sent it and its place in that call.                                     *)
(***************************************************************************)
EXTENDS Naturals, Sequences

CONSTANTS
    None,      \* no content
    MaxCalls   \* bound: calls that send

ASSUME MaxCallsAssumption == MaxCalls \in Nat

Frame == [call : Nat, part : 1 .. 3, last : BOOLEAN]

ASSUME NoneAssumption == None \notin Frame

VARIABLES
    calls,       \* the calls that sent, so far
    partial,     \* the frames of the message the sender has not finished
    taken,       \* the pipe to the receiver took the first of them
    queue,       \* the frames that wait for the receiver
    collecting,  \* the receiver is in the loop of RecvAllMessages
    given,       \* pairs <<title, content>> handed to the receiver's program
    open,        \* the receiver has not closed its socket
    cut,         \* the calls that sent their first frame and not their last
    disturbed    \* the calls whose frames are not a message of one or two
                 \* frames that is read in one go (history)

vars == <<calls, partial, taken, queue, collecting, given, open, cut,
          disturbed>>

-----------------------------------------------------------------------------
\* Mutant: the content is sent before the title.
FramesContentFirst(n, p, j) ==
    [i \in 1 .. j |-> [call |-> n, part |-> p + 1 - i, last |-> i = p]]

\* Mutant: ZMQ_SNDMORE is forgotten.
FramesNoMore(n, p, j) ==
    [i \in 1 .. j |-> [call |-> n, part |-> i, last |-> TRUE]]

\* The first j of the p frames of call n; all but the last are ZMQ_SNDMORE.
Frames(n, p, j) == [i \in 1 .. j |-> [call |-> n, part |-> i, last |-> i = p]]

Init ==
    /\ calls = 0
    /\ partial = << >> /\ taken = FALSE
    /\ queue = << >>
    /\ collecting = FALSE
    /\ given = {}
    /\ open = TRUE
    /\ cut = {} /\ disturbed = {}

-----------------------------------------------------------------------------
(* The sender.                                                              *)

\* A call that sends p frames, of which the first j get through: a failure
\* ends the call and leaves the message of the socket unfinished.
Send(p) ==
    /\ calls < MaxCalls
    /\ calls' = calls + 1
    /\ \E j \in 0 .. p, take \in BOOLEAN :
          LET message == partial \o Frames(calls + 1, p, j)
              to == IF partial = << >> THEN take ELSE taken
          IN  /\ taken' = to
              /\ partial' = IF j = p THEN << >> ELSE message
              /\ queue' = IF j = p /\ to /\ open THEN queue \o message
                                                 ELSE queue
              /\ cut' = IF j \in 1 .. p - 1 THEN cut \cup {calls + 1} ELSE cut
              /\ disturbed' = IF p = 3 \/ partial # << >> \/ j \in 1 .. p - 1
                              THEN disturbed \cup {calls + 1} ELSE disturbed
    /\ UNCHANGED <<collecting, given, open>>

\* A title and a content, which may be empty.
SendEventEntity == Send(2)

\* The same with strings; an empty content is sent as one zero byte.
SendMsgStrings == Send(2)

\* Two titles and a content; an empty second title is left out.
Send3PartStrings == Send(2) \/ Send(3)

zmq_common_send == Send(1)

-----------------------------------------------------------------------------
(* The receiver.                                                            *)

Rest(n) == SubSeq(queue, n + 1, Len(queue))

\* A receive that fails, or finds nothing: 0 or -1, with an empty title.
RecvNothing ==
    /\ open /\ ~collecting
    /\ UNCHANGED vars

\* Mutant: the title is not asked whether more follows.
RecvAloneAfterAll ==
    /\ open
    /\ Len(queue) >= 2
    /\ queue[1].last
    /\ queue' = Rest(2)
    /\ given' = given \cup {<<queue[1], queue[2]>>}
    /\ collecting' = FALSE
    /\ UNCHANGED <<calls, partial, taken, open, cut, disturbed>>

\* A first frame that no other follows: -1, and the title is set; while
\* RecvAllMessages collects it is thrown away.
RecvAlone ==
    /\ open
    /\ queue # << >>
    /\ queue[1].last
    /\ queue' = Rest(1)
    /\ given' = IF collecting THEN given
                ELSE given \cup {<<queue[1], None>>}
    /\ collecting' = FALSE
    /\ UNCHANGED <<calls, partial, taken, open, cut, disturbed>>

\* The receive of the second frame fails: the title is set, the content empty,
\* and the second frame stays; RecvAllMessages gives up.
RecvTitleOnly ==
    /\ open
    /\ queue # << >>
    /\ ~queue[1].last
    /\ queue' = Rest(1)
    /\ given' = IF collecting THEN given
                ELSE given \cup {<<queue[1], None>>}
    /\ collecting' = FALSE
    /\ disturbed' = disturbed \cup {queue[1].call}
    /\ UNCHANGED <<calls, partial, taken, open, cut>>

\* Both frames are received; frames after the second stay.
RecvBoth ==
    /\ open
    /\ Len(queue) >= 2
    /\ ~queue[1].last
    /\ queue' = Rest(2)
    /\ given' = given \cup {<<queue[1], queue[2]>>}
    /\ UNCHANGED <<calls, partial, taken, collecting, open, cut, disturbed>>

\* RecvEventEntity and RecvMsgString, and an iteration of RecvAllMessages.
RecvEntity == RecvAlone \/ RecvTitleOnly \/ RecvBoth

\* RecvAllMessages receives until nothing is left or a receive fails.
RecvAllMessages ==
    /\ open /\ ~collecting
    /\ collecting' = TRUE
    /\ UNCHANGED <<calls, partial, taken, queue, given, open, cut, disturbed>>

RecvAllEnds ==
    /\ collecting
    /\ collecting' = FALSE
    /\ UNCHANGED <<calls, partial, taken, queue, given, open, cut, disturbed>>

\* One frame, as content.
zmq_common_recv ==
    /\ open /\ ~collecting
    /\ queue # << >>
    /\ queue' = Rest(1)
    /\ disturbed' = IF queue[1].last THEN disturbed
                                     ELSE disturbed \cup {queue[1].call}
    /\ UNCHANGED <<calls, partial, taken, collecting, given, open, cut>>

\* The socket is closed without lingering; closing it again does nothing.
CloseSocketQuick ==
    /\ ~collecting
    /\ open' = FALSE
    /\ queue' = << >>
    /\ UNCHANGED <<calls, partial, taken, collecting, given, cut, disturbed>>

Next ==
    \/ SendEventEntity \/ SendMsgStrings \/ Send3PartStrings \/ zmq_common_send
    \/ RecvNothing \/ RecvEntity \/ RecvAllMessages \/ RecvAllEnds
    \/ zmq_common_recv
    \/ CloseSocketQuick

Spec == Init /\ [][Next]_vars

-----------------------------------------------------------------------------
(* What the framing guarantees.                                             *)

\* f is followed by g in one message: the next frame of its call, or the
\* first of another when its own call failed.
Continues(f, g) ==
    \/ g.call = f.call /\ g.part = f.part + 1
    \/ g.call # f.call /\ g.part = 1 /\ f.call \in cut

\* The receiver's queue holds whole messages but for what it has read: every
\* message begins with the first frame of a call and ends with a last frame,
\* whatever was dropped and whichever send failed half-way.
WholeMessages ==
    /\ queue # << >> => queue[Len(queue)].last
    /\ \A i \in 1 .. Len(queue) - 1 :
          IF queue[i].last THEN queue[i + 1].part = 1
                           ELSE Continues(queue[i], queue[i + 1])

\* RecvEventEntity and its like never join the title of one event with the
\* content of another, unless the send of the first failed half-way.
MixedOnlyAfterFailure ==
    \A e \in given :
        e[2] # None /\ e[1].call # e[2].call => e[1].call \in cut

\* A disturbance stays with the calls it concerns.  When a send or a receive
\* stops inside a message, or a message has three frames, what is left of it is
\* taken for titles and contents; but whatever is handed out of any other call
\* begins with its title, and a content is the second frame of the same call.
InStep ==
    \A e \in given :
        e[1].call \notin disturbed =>
            /\ e[1].part = 1
            /\ e[2] # None => e[2].call = e[1].call /\ e[2].part = 2
=============================================================================

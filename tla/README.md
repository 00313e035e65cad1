# EventBus-CPP in TLA+

This directory models the event system of EventBus-CPP: the observer tables of
the threads, the publish/subscribe bus between them, the lifetimes of threads
and their clients, and the parts of the vendored libzmq on which the bus stands:
pipes, command mailboxes, the context and its shutdown. TLC checks the models on small instances
(`tlc -config X.cfg M`), TLAPS checks proofs for every value of the constants
(`tlapm M.tla`). `PROJECT.json` lists components, runs, the source lines behind
every definition, findings, hazards and theorems.

## The system

A program has one bus and one *client* per thread. Objects that handle events
are *targets*; they subscribe to event types (strings), and are called on the
thread they belong to.

| Component | State | Operations |
|---|---|---|
| `EventClient` | multimap type → target, SUB and PUB socket, poll item | `register_observer`, `unregister_observer`, `publish_event`, `publish_loc_event`, `handle_event`, construction, destruction |
| `EventTarget` | pointer to its client, found by thread id when it is built | `subscribe`, `unsubscribe`, `publish_*`, `set_client`; all forward to the client |
| `ClientCenter` | map thread id → client, behind a mutex | `register_client`, `find_client`; deletes all clients when destroyed |
| `MThread` | flags `_is_run`, `_is_exit`, client of its thread | `init` (starts a detached thread), `task_begin/stop/exit`, destructor; the thread loops over `handle_event` and `thread_run` |
| `EventBus` | XSUB and XPUB socket, bound to inproc endpoints | construction binds, `begin` starts the thread that runs `zmq_proxy`, destruction closes and destroys the context |
| `Singleton` | one instance, created on first use | `instance` |
| `MZmq` | none | sends and receives multi-frame messages |
| libzmq (vendored), sockets | pipes, subscription tries | used through its C interface |
| libzmq, mailboxes | lock-free queue of commands, mutex, signaler | `send` from any thread, `recv` by the owner |
| libzmq, context | sockets, endpoints, pending connections, reaper thread | `create_socket`, bind and connect of inproc endpoints, `zmq_close`, `zmq_ctx_term` |

How they interact: a target calls its client on its own thread. The client
changes its table and tells its SUB socket; the subscription travels SUB → XPUB
→ proxy → XSUB → every PUB, each of which keeps a copy and filters with it. An
event travels PUB → XSUB → proxy → XPUB → the SUBs with a matching
subscription, and is dispatched by the next `handle_event` of the receiving
thread. Threads share only the pipes of ZeroMQ, the pool of the `ClientCenter`
and, unprotected, the `MThread` objects and their flags.

What is hard in this system, and hard to reach with a unit test:

* handlers run inside the loop that walks the multimap and may change it, or
  start another loop over it;
* subscriptions reach publishers through four queues, each of which may be
  overtaken by a socket that opens or closes, or overflow;
* high-water marks are compared with acknowledgements that come late;
* threads are detached, thread ids are used again, and the pool of clients never
  forgets one;
* an `EventClient` has two owners;
* a mailbox is lock-free, its receiver decides to sleep while a sender publishes,
  and its memory is used again;
* both ends of a pipe, both sides of a connection and the context may be closed
  at any moment and in any order, while commands about them are under way.

What makes each part correct: the socket's subscriptions follow the table; a
dispatch loop calls every subscriber once and nobody else; all clients see
events in one order; an accepted event is not lost by a race; the copies of the
subscriptions converge; queues stay bounded; a thread works with its own client
and ends when told to; nothing deleted is used; no command is lost and no wake-up
missed; a socket that is closed goes, what a client published before it went is
still read, and the destructor of the bus returns.

## Modules

| Module | Models | Extends |
|---|---|---|
| `EventClient` | the table and the dispatch loops of one client | |
| `Pipe` | one direction of a ZeroMQ pipe | |
| `EventBus` | clients' sockets, proxy, XPUB and XSUB | `Pipe` |
| `Threads` | `MThread`, `ClientCenter`, `EventTarget`: lifetimes | |
| `MZmq` | messages of several frames, sent and received call by call | |
| `Mailbox` | the mailbox of a thread of libzmq: queue, mutex, signaler | |
| `Context` | sockets of the bus and its clients from connect to deletion; the reaper; `zmq_ctx_term` | |
| `Broadcast`, `Fifo` | abstract: what a bus and a queue promise | instantiated by `EventBus` and `Mailbox` |
| `MCEventClient`, `MCEventBus`, `MCThreads`, `MCMZmq`, `MCMailbox`, `MCContext` | instances for TLC | the above |
| `EventClientProofs`, `EventBusProofs`, `EventBusMirrorProofs`, `ThreadsProofs`, `MZmqProofs`, `MailboxProofs`, `ContextLibraryProofs`, `ContextProofs` | proofs | the module they are about |

### EventClient

`nodes` is the multimap. A node is a type, a target and an insertion number:
nodes of one key keep insertion order, so the number gives both identity and
place. Types are natural numbers in lexicographic order, 0 being the empty
string, and `Prefixes` says which are prefixes of which, because the SUB socket
matches prefixes. `frames` is the call stack of dispatch loops; the topmost
handler is running. The actions:

* `RegisterObserver`, `UnregisterObserver`: the whole functions, the call to
  `zmq_setsockopt` included. They may happen between dispatches or from a
  handler.
* `PublishLocEvent`: `find(type)` up to `end()`.
* `HandleMessage`: a received message, `equal_range(title)` taken up front;
  `HandleNothing`: poll without a message; `HandleStale`: poll fails and leaves
  `revents` from last time, the receive fails, and the empty title is
  dispatched.
* `HandlerReturns`: `++it` and the comparison with the end. If the node of
  either was erased, behaviour is undefined and the model stops (`Crashed`).

`terminated` is the socket's knowledge that its context was terminated, after
which its options fail. `born`, `due` and `called` in a frame are history for
the properties.

### Pipe and EventBus

A pipe has a queue and the writer's two counters. `Sync` is the writer
processing its commands: it learns the last acknowledgement the reader sent, a
multiple of the low-water mark. `Write` drops when full, as the sockets of this
family do.

In `EventBus` each hop of a subscription has its variable: `table` (SUB), `subs`
(pipe), `xpub` (XPUB's multi-trie), `pending` (XPUB's notifications), `xsub`
(XSUB's counting trie), `ctl` (pipe), `filter` (the PUB's own table); and each
hop of an event: `up` (pipe), `log` (what the proxy forwarded), `down` (pipe, by
place in `log`), `got`. Client actions are `Connect`, `Subscribe`,
`Unsubscribe`, `PublishEvent`, `HandleEvent`, `HandleTimeout`, `Close`; actions
of the bus thread are `Begin`, `AttachPub`, `ReadSubscription`, `DetachSub` and
the three steps of the proxy loop, `Poll`, `ForwardEvent`, `ForwardNote`.
A PUB socket that sent a moment ago does not look for commands again, so
`PublishEvent` may filter with a stale table (`busy`). The sockets of the bus may
know less than what clients have done, too (`Known`), for two reasons. `zmq_send`
calls `process_commands` with the throttle on, which does nothing if the socket
looked within the last `max_command_delay` ticks (`socket_base.cpp:1094`,
`1331-1338`), so `ForwardEvent` and `ForwardNote` may write with the counts of the
poll or of an earlier round. And `mailbox_t::send` signals after it has stored the
command (`mailbox.cpp:60-68`): while one client is between the two, the commands
stored after its own wait with it, also for the unthrottled look of `zmq_poll`. So
every step of the proxy takes any set of clients whose commands come late, and
`HandleEvent` may leave the acknowledgements of the client's subscriptions unread.
The extra look that every hundredth `zmq_recv` of a busy socket takes lets the next
send know what `Known` with nobody late already lets it know. `owed`, `lost`, `deaf` and
`behind` are history: what a client must still get, whose subscription messages
were dropped, and which clients may miss an event in this round of the proxy. An
event is one message here; its two frames are written and read together by the
pipe.

`Broadcast` says what all this is for: parties send messages, the messages are
put into one order, and every party gets some of them, each at most once and in
that order. `EventBus` implements it (`ImplementsBroadcast`): a message waits
while it is in the publisher's pipe `up`, is ordered when the proxy forwards it
(`log`) and is delivered when the client's `handle_event` returns it (`got`).

### Threads

One action per statement of `_thread_run`, interleaved with the main thread,
which builds objects, starts them, sets their flags, deletes them and returns.
A client is named after the thread that made it. `Careful` says whether the
program waits for a thread to end before it deletes its object (nothing in
`MThread` lets it know; `UnitTest/main.cpp` does not). `undefined` is set to the
reason when a step uses a null pointer, a deleted client, a deleted object, or
deletes a client again; nothing happens after that. `id` is external: the system
gives a new thread any id that no running thread has.
`MThread::handle_message` is left out: it only calls `handle_event` on the
thread's client, for a `thread_run` that loops itself, and nothing calls it.

### MZmq

One sender and one receiver over a PUB/SUB pair. A sending function makes one
call per frame and returns at the first that fails (libzmq returns `EINTR` when
a signal interrupts it, `ETERM` when the context ends), so `Send(p)` gets any
number of its `p` frames through; the socket keeps the unfinished message in
`partial` and the next send continues it. The pipe takes all frames of a message
or none (`taken`): PUB matches and meets the high-water mark with the first one.
The receiving functions read a title, ask for `ZMQ_RCVMORE`, and read a content:
`RecvAlone`, `RecvTitleOnly` and `RecvBoth` are the three outcomes, which
`RecvEventEntity`, `RecvMsgString` and the iterations of `RecvAllMessages`
(`collecting`) share; `RecvNothing` is a receive that fails at once. `cut` and
`disturbed` are history and name calls: those whose send stopped inside the
message, and those whose frames are not one message of one or two frames read in
one go.

### Mailbox

One mailbox, any number of senders, one receiver. A pointer is an address, a
chunk and a position in it, and chunks are used again (`spare`, or the
allocator), so that an address may stand for different commands. `w`, `f`, `r`
and `c` are the pointers of `ypipe_t`; `c` is the only one both sides use, and
each compare-and-swap of it is one action (`Flush`, `CheckRead`). The steps of
`mailbox_t::send` are `Lock`, `WriteCommand`, `Flush`, `FlushSet`, `Unlock`,
`Signal`; those of `recv` are `CheckRead`, `ReadCommand`, `Wait`, `RecvSignal`.
`rpc = "failed"` is the failure of the assertion at its end. `Destroy` is
`~mailbox_t`, by an owner that has got every command it waits for. The mailbox
implements `Fifo`: a command is in the abstract queue from the flush that
publishes it to the `recv` that returns it.

### Context

What libzmq keeps is one record `z`: the sockets with their sequence numbers and
outstanding acknowledgements, the pipe ends with their states, the mailboxes as
queues (this is what `Mailbox` justifies), endpoints, and the pending connections
of each endpoint in the order in which they came (the multimap of `ctx.hpp`).
Operators named after the functions of the library (`Terminate`,
`ProcessPipeTerm`, `AttachPipe`, `PendConnection`, ...) map one record to the
next, in the order of the calls; actions are the steps between which other
threads can come, which the locks `slot_sync` and `endpoints_sync` and the
mailboxes delimit. Actors: clients (`Create`, `FindEndpoint`, `Connect`,
`Close`: constructor and destructor of `EventClient`), the thread that builds
and destroys the `EventBus` (`BusRegister` to `TerminateEnd`), application
threads that use sockets (`SocketCommands`, `SocketRead`, `SocketWrite`), and
the reaper thread. `z.ok` becomes false when an assertion of the library fails.
A client has one socket per entry of `Links`; `Target` and `Close` keep what
distinguishes the two, including that `~EventClient` disconnects `_pub_socket`
from an endpoint it is not connected to, which does nothing. `aborted` is an
`assert()` of the constructor of `EventClient` that fails because the context
terminates. A read takes everything up to the delimiter at once; events only
carry the tag `"msg"`, and `SocketWrite` writes no others: the subscription
messages of a SUB, which take the same pipes the other way, are in `EventBus`.
Left out here: high-water marks (module `Pipe`) and with them the command
`activate_write`, the only one `NoCommandToTheDead` does not cover, and the
proxy thread that still uses the sockets while `~EventBus` closes them, which
`zmq_socket.txt` forbids and which has no defined outcome. `terminate()` copies
the pending connections without their lock; the copy is one step here.

## Runs

| Run | Shows |
|---|---|
| `client` | With two targets, three types that are prefixes of one another, three insertions and two nested loops: the socket is subscribed exactly to the types with observers (`SubscriptionMirror`), no target is entered twice (`NoDuplicateObserver`), and a dispatch loop misses no observer that stays (`NobodyMissed`), repeats none (`NeverTwice`) and calls an old observer only for its type (`OldObserversOwnType`) |
| `client_bus` | violated: an observer inserted before the stale end of the range is called for a type it did not subscribe to |
| `bus` | Two clients, two types, pipes of three: `AgreedOrder`, `PublisherOrder`, `Accounted`, `MirrorChain`, and the refinement `ImplementsBroadcast` |
| `bus_slow` | One type, one subscription, pipes of three, four events of two publishers: `QueuesBounded`, and `DropsOnlyWhenBehind`: XPUB drops an event only for a client that had more than `Hwm - Lwm` events waiting at the last poll or of which that poll missed an acknowledgement. Three is the smallest mark whose low-water mark is above one, so acknowledgements are really late, and the fourth event is one too many. Under fairness every accepted event is accounted for (`EventuallyAccounted`) and the proxy finds time for the subscription between the events (`EventuallyMirrored`) |
| `bus_changes` | One type, pipes of two, five subscription changes: a SUB drops a subscription message, and the unsubscription that follows removes nothing at XPUB and is passed on: no count of XSUB goes below zero (`TypeOK`), `MirrorChain`, and under fairness `EventuallyMirrored` unless a message was dropped |
| `threads` | Two objects, two ids: `FoundIsOwnOrDead`, `SafeWhenCareful`, `OneLateRun`, `ExitEnds`, `BeginRuns` |
| `threads_own` | violated: with an id used again the targets of a thread get the client of an ended one |
| `frames` | Four sends of one to three frames, with failures of any of them: `WholeMessages`, `MixedOnlyAfterFailure`, and that a disturbance stays with the calls it concerns (`InStep`) |
| `mailbox` | Three senders, chunks of two commands: a signal means a command (`SignalMeansCommand`), a sleeping receiver is owed exactly one (`OneWakeup`), pointers stay in live memory (`PointersLive`), nobody is inside a destroyed mailbox (`NoUseAfterDestroy`), the refinement `ImplementsFifo`, and under fairness `EventuallyReceived` |
| `context` | Two subscribing clients and the bus: `AssertionsHold`, `NoCommandToTheDead`, `NothingNamesTheDead`, `OutpipeLive` through every order of connecting, closing and terminating |
| `context_live` | One publishing client, up to two messages in a pipe, signals: `ReadBeforeGone`, and under fairness `ClosedClientsGo`, `TerminateReturns` |
| `context_hang` | violated: a connection left pending after `terminate()` has copied the pending ones is connected by nobody, and `zmq_ctx_term` waits for ever with all sockets closed |

Bounds. `MaxInserts` and `MaxDepth` stop unbounded subscription and nesting:
three insertions give a loop an observer before, at and after the one it is at,
and two loops give a loop whose table another one changed. `MaxOps` and
`MaxPublish` bound what clients do. `bus` has every mix of two changes and two
events with both types; what overflows is in the other two, where four events are
one more than a pipe of three takes, and four changes the fewest with which a pipe
of two drops a subscription and passes on the unsubscription after it. Four sends
(`MaxCalls`) are a failed one, the one that continues it, and two to be misread. Two clients make every pair of publisher and subscriber, oneself
included; two threads and two ids make both a fresh and a used id possible.
In `mailbox`, chunks of two (`N`) are the smallest on which a chunk is left and
entered, and five sends by three senders are enough to reuse one and to have a
sender anywhere in `send` while the others and the receiver go on. In `context`,
two clients meet at one endpoint with bind, close and termination between their
steps; a second socket per client multiplies the states and adds only a second
copy of the same protocol, so clients have a SUB in `context` and a PUB, which
differs in `set_nodelay` and in its disconnect, in the others. `MaxQueue` lets two
messages wait before the delimiter.
Symmetry is used in the safety runs only. Deadlock is checked for the client;
on the bus, in `MZmq`, `Mailbox` and `Context` all sockets may be closed and all
operations used up, and threads may all have ended.

Fairness. `bus_slow`, `bus_changes`: the proxy thread never leaves `zmq_proxy`, so each of its
steps is weakly fair, as are the socket commands it processes on the way; a
client's thread calls `handle_event` for ever (`MThread::_thread_run`), so it
takes what has arrived. Nobody is assumed to subscribe, publish or close.
`threads`: a started thread keeps running until the process ends (`closed`);
`handle_event` polls for at most 20 ms and `thread_run` "must not be a loop"
(`MThread.h:48`). The main thread has no fairness. `mailbox`: a sender that holds
the mutex goes on and the receiver keeps calling `recv`; nobody has to send.
`context_live`, `context_hang`: a thread that has begun to build or destroy goes
on, sockets in use process their commands and the bus reads (the proxy thread),
and the reaper works; nobody has to build, close or terminate anything.

Disagreements between code and comments that a few calls in a row show, and that
need no run:

* `publish_loc_event` loops from `find(type)` to `end()` and also calls observers
  of greater types (`EventClient.cpp:124`; line 116 promises the subscribers).
* `register_observer` keeps the entry when `zmq_setsockopt` fails, so a retry
  returns true without a subscription (`EventClient.cpp:41`), and returns true for a
  repeated subscription where `EventTarget.cpp:80` says false.
* `~MThread` and, at exit, `~ClientCenter` delete the same client
  (`ClientCenter.cpp:82`).
* `~MThread` leaves its detached thread running on the deleted object
  (`MThread.cpp:134`, as in `UnitTest/main.cpp:99`). `SafeWhenCareful` says how a
  program avoids this one and the one before, until main returns.
* `RecvAllMessages` returns the number of messages where `MZmq.h:267` says 0 on
  success.
* `publish_event` lacks the NULL check of `subscribe` (`EventTarget.cpp:53`).
* `~EventBus` ignores that a signal may interrupt `zmq_ctx_destroy`
  (`EventBus.cpp:89`).

## Proofs

Every safety property of the passing runs, and both refinements, are proved for
all values of the constants, from the named assumptions of the modules: types are
naturals (`EventClient`) or a finite set no larger than `Hwm` (`EventBus`, so that
the initial copy of XSUB's table fits a fresh pipe), prefixes are reflexive, marks
are positive, clients are finitely many (`Context`), model constants are distinct
and `None`, the null pointer, is no address, socket or pipe end.

* `EventClientProofs`: the inductive invariant `IInv` adds to the properties that
  insertion numbers are unique and not above `inserted`, and for each loop
  (`FrameOK`) that what it has called is not after the current node, that every
  observer still due is called already or stands after the current node, and,
  for `handle_event`, that old nodes of greater types are at or behind its end.
  The last part is what survives insertions before a stale end; without it
  `OldObserversOwnType` is not inductive. `NobodyMissed` and `NeverTwice` are
  action properties derived from it.
* `EventBusProofs`: first what `Write`, `Read` and `Sync` of `Pipe` preserve, in
  particular `PipeOK`, the relation between queue and counters. Types, `PipesInv`
  (`PipeOK` of every pipe) and `TurnOK` (the proxy forwards only
  what is there) are inductive together; `OrderInv` adds that the places in
  pipes lie within the log; `DropsOnlyWhenBehind` follows from
  `BehindInv`: while the proxy has an event to forward, only the pipes of clients in
  `behind` can look full. A pipe whose counts are up to date and that looks full
  holds more than `Hwm - Lwm` messages (`FullMeansBehind`), which decides at the
  poll; until the event is written clients only read, and a socket that learns of it
  or does not finds no pipe fuller than it was.
  `PublisherOrder` is proved with the numbering of what is still
  in the publisher's pipe; `Accounted` with the fact that a pair stays owed only
  while the subscription that justified it is still in force at XPUB, which is
  what makes the proxy's step copy the event to the client.
  `BroadcastHolds` is the refinement: each action of `EventBus` is a step of
  `Broadcast` or a stutter, given the order invariants, because the place a
  client reads next is in the log and above all it has got.
* `EventBusMirrorProofs`: `MirrorChain`. Applying the last operation under way is
  not enough to be inductive: the operations on one type alternate in each
  queue, and the first one changes the present state (`AltSeq`, `FirstOn`,
  `FirstOff`). It is proved hop by hop: SUB to XPUB, XPUB to XSUB, XSUB to PUB.
* `ThreadsProofs`: `IdInv` (running threads have different ids), `PoolInv` (an
  entry of the pool belongs to a thread that had the id, and a thread past its
  constructor of `EventClient` finds one), `LateInv` (a late run is followed by
  the test of `_is_exit`) and `FreeInv` (what is deleted before main returns
  belongs to deleted objects).
* `MZmqProofs`: the three framing invariants. `PartialInv` says that what the
  socket holds of an unfinished message is the beginning of a whole one whose
  last call failed. `StepInv` says, of each call that is not disturbed, that its
  frames in the queue are its title and then its content, and that they stand apart
  from those of other calls (`Apart`), whatever the disturbed ones left around them.
* `MailboxProofs`: addresses are used again, so nothing can be said of a pointer by
  its value alone. The slots of the queue are numbered (`PlaceOf` gives
  the address of a number), and the invariant says that front, `r`, `w` and `f` come in this order,
  that `w` is the end of the queue or the slot before it, and that `c` is `w` or
  null. With these the comparison `c == w` of `flush` decides what it is meant to
  decide. The other half is who knows that the receiver sleeps: `c` is null and
  nobody owes a signal, or one sender found it null and owes the signal, or the
  signal is there and a command with it. From both come `SignalMeansCommand`,
  `OneWakeup`, `PointersLive` and `NoUseAfterDestroy`. `FifoHolds` maps a command
  to the abstract queue when it is published: what lies between the
  front and `w` are the numbers that follow those received.
* `ContextLibraryProofs`, about the operators of the library, and `ContextProofs`,
  about the threads that call them: the inductive invariant `ContextInv` says, for
  each pipe end, which messages of the closing handshake are under way in which states of the two
  ends (`Handshake`), that they are with the thread of the end and the
  acknowledgement is the last of them (`Order`), whom the end belongs to while it
  is attached, pending or on its way in a `bind` command (`Owner`), and what waits
  in it (`Content`); for each socket, that the commands it has been promised are
  those under way (`Counting`) and that its pipes are those that name it
  (`Members`); and that no endpoint names a socket that terminates (`Bound`).
  `ClientInv`, `BusInv` and `ReaperInv` tie the stage of each socket to the step
  its thread has reached. None of the five properties is inductive by itself: that
  an assertion holds when a `pipe_term` is handled depends on what the other end
  sent before it, and that a socket may be deleted depends on every promise made
  to it. Two things made the proof possible. `ProcessCommands` handles a whole
  mailbox in one action, so the invariant is stated over the commands that are in
  the mailboxes or were taken out and not handled yet, and each handler preserves
  that. And the loops over commands, over the pipes of a socket and over pending
  connections are folds; their loop invariants are carried by a set of the
  iterations reached, which well-foundedness of `<` shows to be all of them
  (`NatSetInduction`).

Only model-checked: the liveness properties (`EventuallyAccounted`,
`EventuallyMirrored`, `ExitEnds`, `BeginRuns`, `EventuallyReceived`,
`ClosedClientsGo`, `TerminateReturns`). They need fairness and `ENABLED`, which
are out of the prover's reach. The three runs that expect a violation are
counterexamples of small instances and need no proof.

## Not modelled

* Frames on the bus: `MZmq` has them between one sender and one receiver, while
  in `EventBus` a title and its content are one message.
* `Singleton`'s unprotected first test: the pointer is a plain `auto_ptr`, so the
  read is a data race whose outcome only a memory model decides. Everything else
  about `instance()` is one assignment under a mutex.
* The proxy thread during `~EventBus`, which closes its sockets under it: libzmq
  gives such a use no meaning.
* Calls on a target from a thread it does not belong to: the table has no lock,
  so these are data races without a defined outcome.
* libzmq beyond inproc PUB, SUB, XPUB and XSUB. The vendored library is more than
  nine tenths of the lines of the repository, and the program uses a small part
  of it: transports, engines, sessions and io threads, security mechanisms, the
  other socket types, options, monitors, timers and pollers are compiled and never
  run. The representation of tries, failures of memory allocation, fork and the
  limit on sockets are left out of the parts that are modelled.
* Console input, signal handlers and logging.

## Plan

1. Done: `EventClient`, `Pipe`, `EventBus`, `Threads`, `MZmq`, `Mailbox` and
   `Context` with their runs, and the proofs of all their safety properties;
   `Broadcast` and `Fifo`, and the refinements to them, checked and proved.
2. A proof that the mailboxes of `Context`, plain sequences there, may be replaced
   by those of `Mailbox`: so far `FifoHolds` says it of one mailbox.
3. Shorter proofs in `ContextLibraryProofs`, where the handlers repeat the same frame
   arguments.

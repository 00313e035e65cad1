------------------------------ MODULE Threads ------------------------------
(***************************************************************************)
(* The lifetimes of MThread objects, of the threads they start and of the  *)
(* EventClients (MThread.cpp, ClientCenter.cpp, EventTarget.cpp).  The     *)
(* thread of an MThread is detached: it is ended by a flag it looks at     *)
(* once per round, while the main thread may delete the object at any      *)
(* time.  EventTargets find their client in a pool keyed by thread id,     *)
(* from which nothing is ever removed, and ids are used again.             *)
(***************************************************************************)
EXTENDS Naturals, FiniteSets

CONSTANTS
    Objects,   \* the MThread objects; also the EventClients of their threads
    Main,      \* the main thread; also the EventClient it makes
    Ids,       \* the thread ids the system hands out
    MainId,    \* the id of the main thread
    None,      \* NULL, or no id
    Careful    \* the program deletes an MThread only when its thread ended

ASSUME ThreadsAssumption ==
    /\ Main \notin Objects
    /\ MainId \notin Ids
    /\ None \notin Objects \cup {Main} \cup Ids \cup {MainId}
    /\ Careful \in BOOLEAN

Clients == Objects \cup {Main}

VARIABLES
    object,        \* object[m]: whether m is unbuilt, alive or deleted
    isRun,         \* _is_run
    isExit,        \* _is_exit
    built,         \* the main thread has built a plain EventTarget
    target,        \* _client of that EventTarget
    pc,            \* pc[m]: where the thread of m stands in _thread_run
    id,            \* id[m]: the id of the thread of m
    found,         \* found[m]: _client of the targets built in setup_thread
    late,          \* late[m]: thread_runs begun after task_exit, 2 for more
    threadClient,  \* _thread_client
    client,        \* _client of m, which is an EventTarget
    pool,          \* _client_pool
    made,          \* the EventClients constructed
    freed,         \* the EventClients deleted
    closed,        \* main has returned, the ClientCenter is destroyed
    undefined      \* why nothing is defined any more, or "no"

mainVars == <<object, isRun, isExit, built, target>>
threadVars == <<pc, id, found, late>>
clientVars == <<threadClient, client, pool, made, freed>>
vars == <<mainVars, threadVars, clientVars, closed, undefined>>

Labels == {"none", "begin", "store", "set", "setup", "while", "handle", "if",
           "body", "ended"}

\* The thread of m is running.
Running(m) == pc[m] \notin {"none", "ended"}

-----------------------------------------------------------------------------
(* The pool of clients.                                                     *)

\* Mutant: a client registers under the id of the thread that made the object.
RegisterClientCreator(i, c) ==
    pool' = [pool EXCEPT ![MainId] = IF @ = None THEN c ELSE @]

\* register_client: map::insert leaves an entry that is there alone.
RegisterClient(i, c) == pool' = [pool EXCEPT ![i] = IF @ = None THEN c ELSE @]

FindClient(i) == pool[i]

\* The constructor of EventClient on the thread i: past the life of the
\* ClientCenter it uses a deleted object.
NewEventClient(i, c) ==
    IF closed
    THEN undefined' = "freed" /\ UNCHANGED <<pool, made>>
    ELSE /\ made' = made \cup {c}
         /\ RegisterClient(i, c)
         /\ UNCHANGED undefined

-----------------------------------------------------------------------------
Init ==
    /\ object = [m \in Objects |-> "unbuilt"]
    /\ isRun = [m \in Objects |-> FALSE]
    /\ isExit = [m \in Objects |-> FALSE]
    /\ built = FALSE
    /\ target = None
    /\ pc = [m \in Objects |-> "none"]
    /\ id = [m \in Objects |-> None]
    /\ found = [m \in Objects |-> None]
    /\ late = [m \in Objects |-> 0]
    /\ threadClient = [m \in Objects |-> None]
    /\ client = [m \in Objects |-> None]
    /\ pool = [i \in Ids \cup {MainId} |-> None]
    /\ made = {} /\ freed = {}
    /\ closed = FALSE
    /\ undefined = "no"

-----------------------------------------------------------------------------
(* The main thread.                                                         *)

InMain == ~closed /\ undefined = "no"

\* The program makes the EventClient of the main thread.
MainClient ==
    /\ InMain
    /\ Main \notin made
    /\ NewEventClient(MainId, Main)
    /\ UNCHANGED <<mainVars, threadVars, threadClient, client, freed,
                   closed>>

\* The constructor of EventTarget on the main thread, or set_client.
BuildTarget ==
    /\ InMain
    /\ built' = TRUE
    /\ target' = FindClient(MainId)
    /\ UNCHANGED <<object, isRun, isExit, threadVars, clientVars, closed,
                   undefined>>

\* publish_event and publish_loc_event do not look at _client first.
Publish ==
    /\ InMain
    /\ built
    /\ undefined' = CASE target = None -> "null"
                      [] target \in freed -> "freed"
                      [] OTHER -> "no"
    /\ UNCHANGED <<mainVars, threadVars, clientVars, closed>>

\* The constructors of EventTarget and MThread.
Construct(m) ==
    /\ InMain
    /\ object[m] = "unbuilt"
    /\ object' = [object EXCEPT ![m] = "alive"]
    /\ client' = [client EXCEPT ![m] = FindClient(MainId)]
    /\ UNCHANGED <<isRun, isExit, built, target, threadVars, threadClient,
                   pool, made, freed, closed, undefined>>

\* init starts the thread, with an id no running thread has, and detaches it.
StartThread(m) ==
    /\ InMain
    /\ object[m] = "alive"
    /\ pc[m] = "none"
    /\ \E i \in Ids :
          /\ \A n \in Objects : Running(n) => id[n] # i
          /\ id' = [id EXCEPT ![m] = i]
    /\ pc' = [pc EXCEPT ![m] = "begin"]
    /\ UNCHANGED <<mainVars, found, late, clientVars, closed, undefined>>

SetRun(m, on) ==
    /\ InMain
    /\ object[m] = "alive"
    /\ isRun' = [isRun EXCEPT ![m] = on]
    /\ UNCHANGED <<object, isExit, built, target, threadVars, clientVars,
                   closed, undefined>>

TaskBegin(m) == SetRun(m, TRUE)
TaskStop(m) == SetRun(m, FALSE)

TaskExit(m) ==
    /\ InMain
    /\ object[m] = "alive"
    /\ isExit' = [isExit EXCEPT ![m] = TRUE]
    /\ UNCHANGED <<object, isRun, built, target, threadVars, clientVars,
                   closed, undefined>>

\* Mutant: the destructor uses a client that does not exist yet.
DestroyUnchecked(m) ==
    /\ InMain
    /\ object[m] = "alive"
    /\ Careful => ~Running(m)
    /\ object' = [object EXCEPT ![m] = "deleted"]
    /\ freed' = freed \cup {threadClient[m]}
    /\ UNCHANGED <<isRun, isExit, built, target, threadVars, threadClient,
                   client, pool, made, closed, undefined>>

\* Mutant: the destructor deletes the client of the EventTarget.
DestroyTargetClient(m) ==
    /\ InMain
    /\ object[m] = "alive"
    /\ Careful => ~Running(m)
    /\ object' = [object EXCEPT ![m] = "deleted"]
    /\ freed' = freed \cup ({client[m]} \ {None})
    /\ UNCHANGED <<isRun, isExit, built, target, threadVars, threadClient,
                   client, pool, made, closed, undefined>>

\* The destructor of MThread deletes the client of its thread, if there is
\* one by now, and leaves the thread alone.
Destroy(m) ==
    /\ InMain
    /\ object[m] = "alive"
    /\ Careful => ~Running(m)
    /\ object' = [object EXCEPT ![m] = "deleted"]
    /\ freed' = freed \cup ({threadClient[m]} \ {None})
    /\ UNCHANGED <<isRun, isExit, built, target, threadVars, threadClient,
                   client, pool, made, closed, undefined>>

\* main returns: the Singleton destroys the ClientCenter, which deletes every
\* client in the pool.
Shutdown ==
    /\ InMain
    /\ closed' = TRUE
    /\ LET all == {pool[i] : i \in Ids \cup {MainId}} \ {None}
       IN  /\ freed' = freed \cup all
           /\ undefined' = IF all \cap freed = {} THEN "no" ELSE "double"
    /\ UNCHANGED <<mainVars, threadVars, threadClient, client, pool, made>>

-----------------------------------------------------------------------------
(* The thread of an MThread: _thread_run, one action per statement.         *)

At(m, label) == undefined = "no" /\ pc[m] = label

Goto(m, label) == pc' = [pc EXCEPT ![m] = label]

\* A statement that uses the MThread object, which may be gone.
Touch(m) == undefined' = IF object[m] = "deleted" THEN "dangling" ELSE "no"

\* new EventClient()
MakeClient(m) ==
    /\ At(m, "begin")
    /\ Goto(m, "store")
    /\ NewEventClient(id[m], m)
    /\ UNCHANGED <<mainVars, id, found, late, threadClient, client, freed,
                   closed>>

\* _thread_client = client
StoreClient(m) ==
    /\ At(m, "store")
    /\ Goto(m, "set")
    /\ Touch(m)
    /\ threadClient' = [threadClient EXCEPT ![m] = m]
    /\ UNCHANGED <<mainVars, id, found, late, client, pool, made, freed,
                   closed>>

\* set_client(*client)
SetClient(m) ==
    /\ At(m, "set")
    /\ Goto(m, "setup")
    /\ Touch(m)
    /\ client' = [client EXCEPT ![m] = m]
    /\ UNCHANGED <<mainVars, id, found, late, threadClient, pool, made,
                   freed, closed>>

\* setup_thread() builds the targets of the thread, which find their client
\* by the id of the thread and subscribe with it.
SetupThread(m) ==
    /\ At(m, "setup")
    /\ Goto(m, "while")
    /\ found' = [found EXCEPT ![m] = FindClient(id[m])]
    /\ undefined' = CASE object[m] = "deleted" -> "dangling"
                      [] closed \/ FindClient(id[m]) \in freed -> "freed"
                      [] OTHER -> "no"
    /\ UNCHANGED <<mainVars, id, late, clientVars, closed>>

\* while(!_is_exit)
TestExit(m) ==
    /\ At(m, "while")
    /\ Goto(m, IF isExit[m] THEN "ended" ELSE "handle")
    /\ Touch(m)
    /\ UNCHANGED <<mainVars, id, found, late, clientVars, closed>>

\* client->handle_event()
HandleEvent(m) ==
    /\ At(m, "handle")
    /\ Goto(m, "if")
    /\ undefined' = IF m \in freed THEN "freed" ELSE "no"
    /\ UNCHANGED <<mainVars, id, found, late, clientVars, closed>>

\* Mutant: a thread that is stopped waits for task_begin.
TestRunWaits(m) ==
    /\ At(m, "if")
    /\ Goto(m, IF isRun[m] THEN "body" ELSE "if")
    /\ Touch(m)
    /\ UNCHANGED <<mainVars, id, found, late, clientVars, closed>>

\* Mutant: a thread that is stopped leaves the loop.
TestRunBreaks(m) ==
    /\ At(m, "if")
    /\ Goto(m, IF isRun[m] THEN "body" ELSE "ended")
    /\ Touch(m)
    /\ UNCHANGED <<mainVars, id, found, late, clientVars, closed>>

\* if(!_is_run) { sleep; continue; }
TestRun(m) ==
    /\ At(m, "if")
    /\ Goto(m, IF isRun[m] THEN "body" ELSE "while")
    /\ Touch(m)
    /\ UNCHANGED <<mainVars, id, found, late, clientVars, closed>>

Late(m) == IF isExit[m] /\ late[m] < 2 THEN late[m] + 1 ELSE late[m]

\* Mutant: the thread tests _is_exit only while it is stopped.
ThreadRunAgain(m) ==
    /\ At(m, "body")
    /\ Goto(m, "handle")
    /\ undefined' = CASE object[m] = "deleted" -> "dangling"
                      [] found[m] \in freed -> "freed"
                      [] OTHER -> "no"
    /\ late' = [late EXCEPT ![m] = Late(m)]
    /\ UNCHANGED <<mainVars, id, found, clientVars, closed>>

\* thread_run() publishes through the targets built in setup_thread.
ThreadRun(m) ==
    /\ At(m, "body")
    /\ Goto(m, "while")
    /\ undefined' = CASE object[m] = "deleted" -> "dangling"
                      [] found[m] \in freed -> "freed"
                      [] OTHER -> "no"
    /\ late' = [late EXCEPT ![m] = Late(m)]
    /\ UNCHANGED <<mainVars, id, found, clientVars, closed>>

ThreadStep(m) ==
    \/ MakeClient(m) \/ StoreClient(m) \/ SetClient(m) \/ SetupThread(m)
    \/ TestExit(m) \/ HandleEvent(m) \/ TestRun(m) \/ ThreadRun(m)

Next ==
    \/ MainClient \/ BuildTarget \/ Publish \/ Shutdown
    \/ \E m \in Objects :
          \/ Construct(m) \/ StartThread(m)
          \/ TaskBegin(m) \/ TaskStop(m) \/ TaskExit(m)
          \/ Destroy(m)
          \/ ThreadStep(m)

Spec == Init /\ [][Next]_vars

\* A thread that was started keeps running until the process ends.
FairSpec == Spec /\ \A m \in Objects : WF_vars(~closed /\ ThreadStep(m))

-----------------------------------------------------------------------------
(* What the lifetimes guarantee.                                            *)

\* Every variable has its type.
TypeOK ==
    /\ object \in [Objects -> {"unbuilt", "alive", "deleted"}]
    /\ isRun \in [Objects -> BOOLEAN]
    /\ isExit \in [Objects -> BOOLEAN]
    /\ built \in BOOLEAN
    /\ target \in Clients \cup {None}
    /\ pc \in [Objects -> Labels]
    /\ id \in [Objects -> Ids \cup {None}]
    /\ found \in [Objects -> Clients \cup {None}]
    /\ late \in [Objects -> 0 .. 2]
    /\ threadClient \in [Objects -> Clients \cup {None}]
    /\ client \in [Objects -> Clients \cup {None}]
    /\ pool \in [Ids \cup {MainId} -> Clients \cup {None}]
    /\ made \in SUBSET Clients
    /\ freed \in SUBSET Clients
    /\ closed \in BOOLEAN
    /\ undefined \in {"no", "null", "freed", "double", "dangling"}

\* Two threads had the same id, one after the other.
IdReused == \E m, n \in Objects : m # n /\ id[m] = id[n] /\ id[m] # None

\* The targets a thread builds in setup_thread find the client of their own
\* thread, or that of an earlier thread that had its id and has ended: never
\* no client, the main thread's or that of a thread that still runs.
FoundIsOwnOrDead ==
    \A m \in Objects :
        pc[m] \in {"while", "handle", "if", "body"} =>
            \/ found[m] = m
            \/ /\ found[m] \in Objects
               /\ id[found[m]] = id[m]
               /\ pc[found[m]] = "ended"

\* A program that deletes an MThread only when its thread has ended uses no
\* deleted object, unless a thread id is used again or main has returned.
SafeWhenCareful ==
    /\ Careful
    /\ undefined \in {"freed", "double", "dangling"}
    => IdReused \/ closed

\* After task_exit at most one more thread_run begins.
OneLateRun == \A m \in Objects : late[m] < 2

\* A thread that was told to exit ends, whether or not it was begun and
\* whatever the flags do.
ExitEnds ==
    \A m \in Objects :
        Running(m) /\ isExit[m] ~> ~Running(m) \/ closed \/ undefined # "no"

\* After task_begin a thread calls thread_run, unless it is stopped or told
\* to exit first.
BeginRuns ==
    \A m \in Objects :
        pc[m] # "none" /\ isRun[m]
            ~> \/ pc[m] = "body" \/ ~isRun[m] \/ isExit[m]
               \/ closed \/ undefined # "no"

-----------------------------------------------------------------------------
(* What the comments promise and the code does not do.                      *)

\* "every thread has its own client, whose id is that of the thread".
FoundIsOwn ==
    \A m \in Objects :
        pc[m] \in {"while", "handle", "if", "body"} => found[m] = m
=============================================================================

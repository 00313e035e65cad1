--------------------------- MODULE ThreadsProofs ---------------------------
(***************************************************************************)
(* The invariants of Threads, for any number of MThread objects and ids.   *)
(***************************************************************************)
EXTENDS Threads, TLAPS

\* A thread has a fresh id while it runs and keeps it when it has ended.
IdInv ==
    /\ \A m \in Objects : pc[m] # "none" => id[m] \in Ids
    /\ \A m, n \in Objects :
          Running(m) /\ Running(n) /\ id[m] = id[n] => m = n

\* An entry of the pool is the client of a thread that had the id, and a
\* running thread finds an entry once its constructor of EventClient is done.
PoolInv ==
    /\ pool[MainId] \in {None, Main}
    /\ \A i \in Ids : pool[i] # None =>
          /\ pool[i] \in Objects
          /\ id[pool[i]] = i
          /\ pc[pool[i]] \notin {"none", "begin"}
    /\ undefined = "no" =>
          \A m \in Objects :
              pc[m] \in {"store", "set", "setup"} => pool[id[m]] # None

\* What the targets of a thread found, as FoundIsOwnOrDead says.
IInv == TypeOK /\ IdInv /\ PoolInv /\ FoundIsOwnOrDead

\* A thread tests _is_exit between any two thread_runs.
LateInv ==
    \A m \in Objects :
        /\ late[m] < 2
        /\ late[m] = 1 => isExit[m] /\ pc[m] \in {"while", "ended"}

\* What is deleted while main runs, if the program is careful.
FreeInv ==
    /\ \A m \in Objects : threadClient[m] \in {None, m}
    /\ target \in {None, Main}
    /\ Careful /\ ~closed => \A m \in Objects :
                                 object[m] = "deleted" => ~Running(m)
    /\ ~closed => freed \subseteq {m \in Objects : object[m] = "deleted"}

-----------------------------------------------------------------------------
\* The initial state is well typed.
LEMMA TypeInit == Init => TypeOK
<1> SUFFICES ASSUME Init PROVE TypeOK
    OBVIOUS
<1>1. late \in [Objects -> 0 .. 2]
      BY DEF Init
<1>2. undefined \in {"no", "null", "freed", "double", "dangling"}
      BY DEF Init
<1> QED BY <1>1, <1>2 DEF Init, TypeOK, Labels, Clients

\* Every step keeps the types.
LEMMA TypeStep == TypeOK /\ IdInv /\ [Next]_vars => TypeOK'
<1> SUFFICES ASSUME TypeOK, IdInv, [Next]_vars PROVE TypeOK'
    OBVIOUS
<1> USE ThreadsAssumption DEF TypeOK, Labels, Clients
<1>1. CASE MainClient
      BY <1>1 DEF MainClient, InMain, NewEventClient, RegisterClient, mainVars,
         threadVars
<1>2. CASE BuildTarget
      BY <1>2 DEF BuildTarget, InMain, FindClient, threadVars, clientVars
<1>3. CASE Publish
      BY <1>3 DEF Publish, mainVars, threadVars, clientVars
<1>4. CASE Shutdown
      BY <1>4 DEF Shutdown, mainVars, threadVars
<1>5. ASSUME NEW m \in Objects, Construct(m) PROVE TypeOK'
      BY <1>5 DEF Construct, InMain, FindClient, threadVars
<1>6. ASSUME NEW m \in Objects, StartThread(m) PROVE TypeOK'
      BY <1>6 DEF StartThread, mainVars, clientVars
<1>7. ASSUME NEW m \in Objects, TaskBegin(m) \/ TaskStop(m) PROVE TypeOK'
  <2>1. ASSUME NEW on \in BOOLEAN, SetRun(m, on) PROVE TypeOK'
        BY <2>1 DEF SetRun, threadVars, clientVars
  <2> QED BY <1>7, <2>1 DEF TaskBegin, TaskStop
<1>8. ASSUME NEW m \in Objects, TaskExit(m) PROVE TypeOK'
      BY <1>8 DEF TaskExit, threadVars, clientVars
<1>9. ASSUME NEW m \in Objects, Destroy(m) PROVE TypeOK'
      BY <1>9 DEF Destroy, threadVars
<1>10. ASSUME NEW m \in Objects, MakeClient(m) PROVE TypeOK'
  <2>1. id[m] \in Ids \cup {None}
        OBVIOUS
  <2> QED BY <1>10, <2>1 DEF MakeClient, Goto, NewEventClient, RegisterClient,
          mainVars
<1>11. ASSUME NEW m \in Objects, StoreClient(m) PROVE TypeOK'
       BY <1>11 DEF StoreClient, Goto, Touch, mainVars
<1>12. ASSUME NEW m \in Objects, SetClient(m) PROVE TypeOK'
       BY <1>12 DEF SetClient, Goto, Touch, mainVars
<1>13. ASSUME NEW m \in Objects, TestExit(m) PROVE TypeOK'
       BY <1>13 DEF TestExit, Goto, Touch, mainVars, clientVars
<1>14. ASSUME NEW m \in Objects, HandleEvent(m) PROVE TypeOK'
       BY <1>14 DEF HandleEvent, Goto, mainVars, clientVars
<1>15. ASSUME NEW m \in Objects, TestRun(m) PROVE TypeOK'
       BY <1>15 DEF TestRun, Goto, Touch, mainVars, clientVars
<1>16. ASSUME NEW m \in Objects, ThreadRun(m) PROVE TypeOK'
  <2>1. Late(m) \in 0 .. 2
        BY DEF Late
  <2> QED BY <1>16, <2>1 DEF ThreadRun, Goto, mainVars, clientVars
<1>17. CASE UNCHANGED vars
       BY <1>17 DEF vars, mainVars, threadVars, clientVars
<1>18. ASSUME NEW m \in Objects, SetupThread(m) PROVE TypeOK'
  <2>1. pool[id[m]] \in Clients \cup {None}
        BY <1>18 DEF SetupThread, At, IdInv
  <2> QED BY <1>18, <2>1 DEF SetupThread, Goto, FindClient, mainVars, clientVars
<1> QED BY <1>1, <1>2, <1>3, <1>4, <1>5, <1>6, <1>7, <1>8, <1>9, <1>10, <1>11,
        <1>12, <1>13, <1>14, <1>15, <1>16, <1>17, <1>18 DEF Next, ThreadStep

\* Every step but StartThread leaves the ids alone, and every step but the
\* thread's own leaves it where it is.
LEMMA Moves ==
    ASSUME [Next]_vars,
           \A m \in Objects : ~StartThread(m),
           \A m \in Objects : ~ThreadStep(m)
    PROVE  UNCHANGED <<pc, id, found, late>>
BY DEF Next, MainClient, BuildTarget, Publish, Shutdown, Construct, TaskBegin,
   TaskStop, SetRun, TaskExit, Destroy, threadVars, vars

\* What a step of a thread leaves alone.
LEMMA ThreadMoves ==
    ASSUME TypeOK, NEW m \in Objects, ThreadStep(m)
    PROVE  /\ UNCHANGED <<id, object, isRun, isExit, built, target, closed>>
           /\ \E l \in Labels \ {"none", "begin"} : pc' = [pc EXCEPT ![m] = l]
           /\ Running(m)
<1>1. CASE MakeClient(m)
      BY <1>1 DEF MakeClient, At, Goto, Labels, Running, mainVars
<1>2. CASE StoreClient(m)
      BY <1>2 DEF StoreClient, At, Goto, Labels, Running, mainVars
<1>3. CASE SetClient(m)
      BY <1>3 DEF SetClient, At, Goto, Labels, Running, mainVars
<1>4. CASE SetupThread(m)
      BY <1>4 DEF SetupThread, At, Goto, Labels, Running, mainVars
<1>5. CASE TestExit(m)
      BY <1>5 DEF TestExit, At, Goto, Labels, Running, mainVars
<1>6. CASE HandleEvent(m)
      BY <1>6 DEF HandleEvent, At, Goto, Labels, Running, mainVars
<1>7. CASE TestRun(m)
      BY <1>7 DEF TestRun, At, Goto, Labels, Running, mainVars
<1>8. CASE ThreadRun(m)
      BY <1>8 DEF ThreadRun, At, Goto, Labels, Running, mainVars
<1> QED BY <1>1, <1>2, <1>3, <1>4, <1>5, <1>6, <1>7, <1>8 DEF ThreadStep

\* Running threads keep different ids.
LEMMA IdStep == TypeOK /\ IdInv /\ [Next]_vars => IdInv'
<1> SUFFICES ASSUME TypeOK, IdInv, [Next]_vars PROVE IdInv'
    OBVIOUS
<1>1. ASSUME NEW m \in Objects, StartThread(m) PROVE IdInv'
  <2>1. PICK i \in Ids : /\ \A n \in Objects : Running(n) => id[n] # i
                        /\ id' = [id EXCEPT ![m] = i]
        BY <1>1 DEF StartThread
  <2>2. pc' = [pc EXCEPT ![m] = "begin"]
        BY <1>1 DEF StartThread
  <2> QED BY <2>1, <2>2 DEF IdInv, TypeOK, Running
<1>2. ASSUME NEW m \in Objects, ThreadStep(m) PROVE IdInv'
  <2>1. PICK l \in Labels \ {"none", "begin"} : pc' = [pc EXCEPT ![m] = l]
        BY <1>2, ThreadMoves
  <2>2. id' = id /\ Running(m)
        BY <1>2, ThreadMoves
  <2> QED BY <2>1, <2>2 DEF IdInv, TypeOK, Running
<1>3. CASE UNCHANGED <<pc, id>>
      BY <1>3 DEF IdInv, Running
<1> QED BY <1>1, <1>2, <1>3, Moves

-----------------------------------------------------------------------------
\* Only a constructor of EventClient changes the pool.
LEMMA PoolMoves ==
    ASSUME [Next]_vars, ~MainClient, \A m \in Objects : ~MakeClient(m)
    PROVE  pool' = pool
BY DEF Next, BuildTarget, Publish, Shutdown, Construct, StartThread, TaskBegin,
   TaskStop, SetRun, TaskExit, Destroy, ThreadStep, StoreClient, SetClient,
   SetupThread, TestExit, HandleEvent, TestRun, ThreadRun, clientVars, vars

\* There is no step after undefined behaviour.
LEMMA Stopped == ASSUME Next PROVE undefined = "no"
BY DEF Next, MainClient, BuildTarget, Publish, Shutdown, Construct, StartThread,
   TaskBegin, TaskStop, SetRun, TaskExit, Destroy, InMain, ThreadStep,
   MakeClient, StoreClient, SetClient, SetupThread, TestExit, HandleEvent,
   TestRun, ThreadRun, At

\* Entries of the pool stay with threads that had the id.
LEMMA PoolStep == TypeOK /\ IdInv /\ PoolInv /\ [Next]_vars => PoolInv'
<1> SUFFICES ASSUME TypeOK, IdInv, PoolInv, [Next]_vars PROVE PoolInv'
    OBVIOUS
<1> USE ThreadsAssumption
<1>0. CASE UNCHANGED vars
      BY <1>0 DEF PoolInv, vars, threadVars, clientVars
<1>1. CASE MainClient
  <2>1. UNCHANGED <<pc, id>> /\ ~closed /\ undefined' = undefined
        BY <1>1 DEF MainClient, InMain, NewEventClient, threadVars
  <2>2. pool' = [pool EXCEPT ![MainId] = IF @ = None THEN Main ELSE @]
        BY <1>1 DEF MainClient, InMain, NewEventClient, RegisterClient
  <2> QED BY <2>1, <2>2 DEF PoolInv, IdInv, TypeOK
<1>2. ASSUME NEW m \in Objects, MakeClient(m) PROVE PoolInv'
  <2>1. pc' = [pc EXCEPT ![m] = "store"] /\ id' = id /\ pc[m] = "begin"
        BY <1>2 DEF MakeClient, At, Goto
  <2>2. id[m] \in Ids
        BY <2>1 DEF IdInv
  <2>3. CASE closed
    <3>1. pool' = pool /\ undefined' = "freed"
          BY <1>2, <2>3 DEF MakeClient, NewEventClient
    <3> QED BY <2>1, <3>1 DEF PoolInv, TypeOK
  <2>4. CASE ~closed
    <3>1. /\ pool' = [pool EXCEPT ![id[m]] = IF @ = None THEN m ELSE @]
          /\ undefined' = undefined
          BY <1>2, <2>4 DEF MakeClient, NewEventClient, RegisterClient
    <3>2. pool'[MainId] = pool[MainId]
          BY <2>2, <3>1
    <3>3. ASSUME NEW i \in Ids, pool'[i] # None
          PROVE  pool'[i] \in Objects /\ id'[pool'[i]] = i
                 /\ pc'[pool'[i]] \notin {"none", "begin"}
          BY <2>1, <2>2, <3>1, <3>3 DEF PoolInv, TypeOK
    <3>4. ASSUME NEW n \in Objects, undefined' = "no",
                 pc'[n] \in {"store", "set", "setup"}
          PROVE  pool'[id'[n]] # None
      <4>1. n # m => pc[n] \in {"store", "set", "setup"}
            BY <2>1, <3>4 DEF TypeOK
      <4>2. n # m => id[n] \in Ids /\ pool[id[n]] # None
            BY <4>1, <3>1, <3>4 DEF PoolInv, IdInv
      <4> QED BY <2>1, <2>2, <3>1, <4>2 DEF TypeOK
    <3> QED BY <3>2, <3>3, <3>4 DEF PoolInv
  <2> QED BY <2>3, <2>4
<1>3. ASSUME NEW m \in Objects, StartThread(m), pool' = pool PROVE PoolInv'
  <2>1. PICK i \in Ids : id' = [id EXCEPT ![m] = i]
        BY <1>3 DEF StartThread
  <2>2. /\ pc' = [pc EXCEPT ![m] = "begin"] /\ pc[m] = "none"
        /\ undefined' = undefined
        BY <1>3 DEF StartThread
  <2> QED BY <1>3, <2>1, <2>2 DEF PoolInv, TypeOK
<1>4. ASSUME NEW m \in Objects, ThreadStep(m), pool' = pool, undefined = "no",
             ~MakeClient(m)
      PROVE  PoolInv'
  <2>1. PICK l \in Labels \ {"none", "begin"} : pc' = [pc EXCEPT ![m] = l]
        BY <1>4, ThreadMoves
  <2>2. id' = id
        BY <1>4, ThreadMoves
  <2>3. l \in {"store", "set", "setup"} => pc[m] \in {"store", "set"}
        BY <1>4, <2>1 DEF ThreadStep, StoreClient, SetClient, SetupThread,
           TestExit, HandleEvent, TestRun, ThreadRun, At, Goto, TypeOK
  <2> QED BY <1>4, <2>1, <2>2, <2>3 DEF PoolInv, TypeOK
<1>5. CASE UNCHANGED <<pc, id, pool>> /\ undefined = "no"
      BY <1>5 DEF PoolInv
<1> QED BY <1>0, <1>1, <1>2, <1>3, <1>4, <1>5, PoolMoves, Moves, Stopped

\* The client that a thread finds is its own, or that of a thread that has
\* gone.
LEMMA FoundStep == IInv /\ [Next]_vars => FoundIsOwnOrDead'
<1> SUFFICES ASSUME IInv, [Next]_vars PROVE FoundIsOwnOrDead'
    OBVIOUS
<1> USE ThreadsAssumption DEF IInv
<1>1. ASSUME NEW m \in Objects, StartThread(m) PROVE FoundIsOwnOrDead'
  <2>1. PICK i \in Ids : id' = [id EXCEPT ![m] = i]
        BY <1>1 DEF StartThread
  <2>2. /\ pc' = [pc EXCEPT ![m] = "begin"] /\ pc[m] = "none"
        /\ found' = found
        BY <1>1 DEF StartThread
  <2> QED BY <2>1, <2>2 DEF FoundIsOwnOrDead, TypeOK
<1>2. ASSUME NEW m \in Objects, SetupThread(m) PROVE FoundIsOwnOrDead'
  <2>1. /\ pc' = [pc EXCEPT ![m] = "while"] /\ id' = id /\ pc[m] = "setup"
        /\ found' = [found EXCEPT ![m] = pool[id[m]]] /\ undefined = "no"
        BY <1>2 DEF SetupThread, Goto, FindClient, At
  <2>2. id[m] \in Ids /\ pool[id[m]] # None
        BY <2>1 DEF IdInv, PoolInv
  <2>3. /\ pool[id[m]] \in Objects
        /\ id[pool[id[m]]] = id[m]
        /\ pc[pool[id[m]]] \notin {"none", "begin"}
        BY <2>2 DEF PoolInv
  <2>4. pool[id[m]] # m => pc[pool[id[m]]] = "ended"
        BY <2>1, <2>3 DEF IdInv, Running
  <2> QED BY <2>1, <2>3, <2>4 DEF FoundIsOwnOrDead, TypeOK
<1>3. ASSUME NEW m \in Objects, ThreadStep(m), ~SetupThread(m)
      PROVE  FoundIsOwnOrDead'
  <2>1. PICK l \in Labels \ {"none", "begin"} : pc' = [pc EXCEPT ![m] = l]
        BY <1>3, ThreadMoves
  <2>2. id' = id /\ Running(m)
        BY <1>3, ThreadMoves
  <2>3. /\ found' = found
        /\ l \in {"while", "handle", "if", "body"} =>
              pc[m] \in {"while", "handle", "if", "body"}
        BY <1>3, <2>1 DEF ThreadStep, MakeClient, StoreClient, SetClient,
           TestExit, HandleEvent, TestRun, ThreadRun, At, Goto, TypeOK
  <2> QED BY <2>1, <2>2, <2>3 DEF FoundIsOwnOrDead, TypeOK, Running
<1>4. CASE UNCHANGED <<pc, id, found>>
      BY <1>4 DEF FoundIsOwnOrDead
<1> QED BY <1>1, <1>2, <1>3, <1>4, Moves

\* The invariant holds in the initial state.
LEMMA IInvInit == Init => IInv
<1> SUFFICES ASSUME Init PROVE IInv
    OBVIOUS
<1>1. IdInv /\ PoolInv /\ FoundIsOwnOrDead
      BY ThreadsAssumption DEF Init, IdInv, PoolInv, FoundIsOwnOrDead, Running
<1> QED BY <1>1, TypeInit DEF IInv

\* Every step keeps the invariant.
LEMMA IInvStep == IInv /\ [Next]_vars => IInv'
BY TypeStep, IdStep, PoolStep, FoundStep DEF IInv

\* The inductive invariant of the lifetimes of threads and their clients.
THEOREM ThreadsInvariance == Spec => []IInv
BY IInvInit, IInvStep, PTL DEF Spec

\* Every variable of Threads has its type.
THEOREM ThreadsTypeCorrect == Spec => []TypeOK
<1>1. IInv => TypeOK
      BY DEF IInv
<1> QED BY <1>1, ThreadsInvariance, PTL

\* Targets built in setup_thread find the client of their own thread or that
\* of a thread that had the same id and has ended (EventTarget::EventTarget,
\* ClientCenter::register_client).
THEOREM FoundHolds == Spec => []FoundIsOwnOrDead
<1>1. IInv => FoundIsOwnOrDead
      BY DEF IInv
<1> QED BY <1>1, ThreadsInvariance, PTL

-----------------------------------------------------------------------------
\* A late run is followed by the test of _is_exit.
LEMMA LateStep == TypeOK /\ LateInv /\ [Next]_vars => LateInv'
<1> SUFFICES ASSUME TypeOK, LateInv, [Next]_vars PROVE LateInv'
    OBVIOUS
<1>0. isExit' = isExit \/ \E m \in Objects : isExit' = [isExit EXCEPT ![m] = TRUE]
  <2>1. ASSUME NEW m \in Objects, ThreadStep(m) PROVE isExit' = isExit
        BY <2>1, ThreadMoves
  <2> QED BY <2>1 DEF Next, MainClient, BuildTarget, Publish, Shutdown,
          Construct, StartThread, TaskBegin, TaskStop, SetRun, TaskExit, Destroy,
          mainVars, vars
<1>1. ASSUME NEW m \in Objects, StartThread(m) PROVE LateInv'
      BY <1>1 DEF StartThread, mainVars, LateInv, TypeOK
<1>2. ASSUME NEW m \in Objects, ThreadRun(m) PROVE LateInv'
  <2>1. /\ pc[m] = "body" /\ pc' = [pc EXCEPT ![m] = "while"]
        /\ late' = [late EXCEPT ![m] = Late(m)] /\ isExit' = isExit
        BY <1>2 DEF ThreadRun, At, Goto, mainVars
  <2>2. late[m] = 0
        BY <2>1 DEF LateInv, TypeOK
  <2>3. Late(m) \in {0, 1} /\ (Late(m) = 1 => isExit[m])
        BY <2>2 DEF Late
  <2> QED BY <2>1, <2>3 DEF LateInv, TypeOK
<1>3. ASSUME NEW m \in Objects, ThreadStep(m), ~ThreadRun(m) PROVE LateInv'
  <2>1. PICK l \in Labels \ {"none", "begin"} : pc' = [pc EXCEPT ![m] = l]
        BY <1>3, ThreadMoves
  <2>2. isExit' = isExit
        BY <1>3, ThreadMoves
  <2>3. /\ late' = late
        /\ isExit[m] /\ pc[m] \in {"while", "ended"} => l \in {"while", "ended"}
        BY <1>3, <2>1 DEF ThreadStep, MakeClient, StoreClient, SetClient,
           SetupThread, TestExit, HandleEvent, TestRun, At, Goto, TypeOK
  <2> QED BY <2>1, <2>2, <2>3 DEF LateInv, TypeOK
<1>4. CASE UNCHANGED <<pc, late>>
      BY <1>0, <1>4 DEF LateInv, TypeOK
<1> QED BY <1>1, <1>2, <1>3, <1>4, Moves

\* After task_exit at most one more thread_run begins (MThread::_thread_run).
THEOREM OneLateRunHolds == Spec => []OneLateRun
<1>1. Init => LateInv
      BY DEF Init, LateInv
<1>2. IInv /\ LateInv /\ [Next]_vars => LateInv'
      BY LateStep DEF IInv
<1>3. LateInv => OneLateRun
      BY DEF LateInv, OneLateRun
<1> QED BY <1>1, <1>2, <1>3, ThreadsInvariance, PTL DEF Spec

-----------------------------------------------------------------------------
\* What is deleted before main returns belongs to deleted objects.
LEMMA FreeStep == IInv /\ FreeInv /\ [Next]_vars => FreeInv'
<1> SUFFICES ASSUME IInv, FreeInv, [Next]_vars PROVE FreeInv'
    OBVIOUS
<1> USE ThreadsAssumption DEF FreeInv
<1>0. TypeOK
      BY DEF IInv
<1>1. CASE MainClient
      BY <1>1 DEF MainClient, mainVars, threadVars, Running
<1>2. CASE BuildTarget
      BY <1>2 DEF BuildTarget, FindClient, threadVars, clientVars, Running, IInv,
         PoolInv
<1>3. CASE Publish
      BY <1>3 DEF Publish, mainVars, threadVars, clientVars, Running
<1>4. CASE Shutdown
      BY <1>4 DEF Shutdown, mainVars
<1>5. ASSUME NEW m \in Objects, Construct(m) PROVE FreeInv'
  <2>1. /\ object' = [object EXCEPT ![m] = "alive"] /\ object[m] = "unbuilt"
        /\ UNCHANGED <<target, pc, threadClient, freed, closed>>
        BY <1>5 DEF Construct, threadVars
  <2> QED BY <1>0, <2>1 DEF TypeOK, Running
<1>6. ASSUME NEW m \in Objects, StartThread(m) PROVE FreeInv'
  <2>1. /\ pc' = [pc EXCEPT ![m] = "begin"] /\ object[m] = "alive"
        /\ UNCHANGED <<object, target, threadClient, freed, closed>>
        BY <1>6 DEF StartThread, mainVars, clientVars
  <2> QED BY <1>0, <2>1 DEF TypeOK, Running
<1>7. ASSUME NEW m \in Objects, TaskBegin(m) \/ TaskStop(m) PROVE FreeInv'
      BY <1>7 DEF TaskBegin, TaskStop, SetRun, threadVars, clientVars, Running
<1>8. ASSUME NEW m \in Objects, TaskExit(m) PROVE FreeInv'
      BY <1>8 DEF TaskExit, threadVars, clientVars, Running
<1>9. ASSUME NEW m \in Objects, Destroy(m) PROVE FreeInv'
  <2>1. /\ object' = [object EXCEPT ![m] = "deleted"]
        /\ Careful => ~Running(m)
        /\ freed' = freed \cup ({threadClient[m]} \ {None})
        /\ UNCHANGED <<target, pc, threadClient, closed>>
        BY <1>9 DEF Destroy, threadVars
  <2> QED BY <1>0, <2>1 DEF TypeOK, Running
<1>10. ASSUME NEW m \in Objects, ThreadStep(m) PROVE FreeInv'
  <2>1. PICK l \in Labels \ {"none", "begin"} : pc' = [pc EXCEPT ![m] = l]
        BY <1>0, <1>10, ThreadMoves
  <2>2. UNCHANGED <<object, target, closed>> /\ Running(m)
        BY <1>0, <1>10, ThreadMoves
  <2>3. /\ freed' = freed
        /\ \/ threadClient' = threadClient
           \/ threadClient' = [threadClient EXCEPT ![m] = m]
        BY <1>10 DEF ThreadStep, MakeClient, StoreClient, SetClient, SetupThread,
           TestExit, HandleEvent, TestRun, ThreadRun, clientVars
  <2> QED BY <1>0, <2>1, <2>2, <2>3 DEF TypeOK, Running
<1>11. CASE UNCHANGED vars
       BY <1>11 DEF vars, mainVars, threadVars, clientVars, Running
<1> QED BY <1>1, <1>2, <1>3, <1>4, <1>5, <1>6, <1>7, <1>8, <1>9, <1>10, <1>11
        DEF Next

\* A careful program uses nothing that was deleted.
LEMMA SafeStep ==
    IInv /\ FreeInv /\ SafeWhenCareful /\ [Next]_vars => SafeWhenCareful'
<1> SUFFICES ASSUME IInv, FreeInv, SafeWhenCareful, [Next]_vars,
                    Careful, ~closed', ~IdReused'
             PROVE  undefined' \notin {"freed", "double", "dangling"}
    BY DEF SafeWhenCareful
<1> USE ThreadsAssumption
<1>0. TypeOK
      BY DEF IInv
<1>1. CASE MainClient
      BY <1>1 DEF MainClient, InMain, NewEventClient
<1>2. CASE Publish
      BY <1>2 DEF Publish, InMain, FreeInv
<1>3. CASE UNCHANGED undefined /\ undefined = "no"
      BY <1>3
<1>4. ASSUME NEW m \in Objects, ThreadStep(m)
      PROVE  undefined' \notin {"freed", "double", "dangling"}
  <2>1. UNCHANGED <<id, closed>> /\ Running(m) /\ undefined = "no"
        BY <1>0, <1>4, ThreadMoves, Stopped DEF Next
  <2>2. object[m] # "deleted" /\ m \notin freed
        BY <2>1 DEF FreeInv
  <2>3. \A n \in Objects : id[n] = id[m] /\ id[m] # None => n = m
        BY <2>1 DEF IdReused
  <2>4. id[m] \in Ids
        BY <2>1 DEF IInv, IdInv, Running
  <2>5. pc[m] = "setup" => pool[id[m]] = m
        BY <2>1, <2>3, <2>4 DEF IInv, PoolInv
  <2>6. pc[m] = "body" => found[m] = m
        BY <2>3, <2>4 DEF IInv, FoundIsOwnOrDead
  <2> QED BY <1>4, <2>1, <2>2, <2>5, <2>6 DEF ThreadStep, MakeClient,
          NewEventClient, StoreClient, SetClient, SetupThread, TestExit,
          HandleEvent, TestRun, ThreadRun, Touch, At, FindClient
<1>5. CASE UNCHANGED vars
      BY <1>5 DEF vars, SafeWhenCareful, IdReused, threadVars
<1> QED BY <1>1, <1>2, <1>3, <1>4, <1>5 DEF Next, BuildTarget, Shutdown,
        Construct, StartThread, TaskBegin, TaskStop, SetRun, TaskExit, Destroy,
        InMain

\* A program that lets threads end before it deletes their objects meets no
\* deleted object, unless a thread id is used again or main has returned
\* (MThread::~MThread, EventTarget::EventTarget).
THEOREM SafeHolds == Spec => []SafeWhenCareful
<1>1. Init => FreeInv /\ SafeWhenCareful
      BY DEF Init, FreeInv, SafeWhenCareful, Running
<1>2. IInv /\ FreeInv /\ SafeWhenCareful /\ [Next]_vars
          => FreeInv' /\ SafeWhenCareful'
      BY FreeStep, SafeStep
<1> QED BY <1>1, <1>2, ThreadsInvariance, PTL DEF Spec
====

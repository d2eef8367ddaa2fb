-------------------------- MODULE EtlWorkerProofs --------------------------
(***************************************************************************)
(* Proofs about EtlWorker, for every number of systems, every pool of      *)
(* thread ids and every choice of the systems that may fail.               *)
(***************************************************************************)
EXTENDS EtlWorker, TLAPS

\* The types hold at first ...
LEMMA TypeOKInit == Init => TypeOK
  BY EtlAssumption DEF Init, TypeOK, MainPcs, WatcherPcs, Steps, DBs, Systems

\* ... and every step keeps them.
LEMMA TypeOKNext == TypeOK /\ [Next]_vars => TypeOK'
<1> SUFFICES ASSUME TypeOK, [Next]_vars PROVE TypeOK'
  OBVIOUS
<1> USE EtlAssumption DEF TypeOK, MainPcs, WatcherPcs, LockedPcs, BodyPcs,
       Steps, DBs, Systems, threadVars, mainVars
<1>1. CASE CheckAll BY <1>1 DEF CheckAll
<1>2. CASE CheckAllFails BY <1>2 DEF CheckAllFails
<1>3. CASE LoopTop BY <1>3 DEF LoopTop
<1>4. ASSUME NEW t \in Threads, Spawn(t) PROVE TypeOK' BY <1>4 DEF Spawn
<1>5. CASE SpawnFails BY <1>5 DEF SpawnFails
<1>6. CASE SpawnSkip BY <1>6 DEF SpawnSkip
<1>7. CASE SpawnEnd BY <1>7 DEF SpawnEnd
<1>8. CASE Join BY <1>8 DEF Join
<1>9. CASE JoinSkip BY <1>9 DEF JoinSkip
<1>10. CASE JoinEnd BY <1>10 DEF JoinEnd, NextStep
<1>11. CASE SleepEnd BY <1>11 DEF SleepEnd
<1>12. CASE Cleanup BY <1>12 DEF Cleanup
<1>13. CASE JoinLcs BY <1>13 DEF JoinLcs
<1>14. CASE LcsExit BY <1>14 DEF LcsExit
<1>15. ASSUME NEW t \in Threads, DB_WORKER_watcher(t) PROVE TypeOK'
  <2>1. CASE ReadArguments(t)
    <3>1. t_worker_data[sys[t]] \in Steps
      OBVIOUS
    <3>2. stp' \in [Threads -> Steps] /\ pc' \in [Threads -> WatcherPcs]
      <4>1. CASE FrameAlive BY <2>1, <3>1, <4>1 DEF ReadArguments
      <4>2. CASE ~FrameAlive BY <2>1, <4>2 DEF ReadArguments
      <4>3. QED BY <4>1, <4>2
    <3>3. QED BY <2>1, <3>2 DEF ReadArguments
  <2>2. CASE LockMutex(t) BY <2>2 DEF LockMutex
  <2>3. CASE OnHold(t) BY <2>3 DEF OnHold
  <2>4. CASE NotOnHold(t) BY <2>4 DEF NotOnHold
  <2>5. CASE Connect(t)
    <3>1. BodyStart(sys[t], stp[t]) \in WatcherPcs BY DEF BodyStart
    <3>2. NextConnect(sys[t], db[t]) \in DBs BY DEF NextConnect
    <3>3. open' \in [Systems -> SUBSET DBs] BY <2>5 DEF Connect
    <3>4. pc' \in [Threads -> WatcherPcs] BY <2>5, <3>1 DEF Connect
    <3>5. db' \in [Threads -> DBs] BY <2>5, <3>2 DEF Connect
    <3>6. QED BY <2>5, <3>3, <3>4, <3>5 DEF Connect
  <2>6. CASE ConnectFails(t) BY <2>6 DEF ConnectFails
  <2>7. CASE Preprocess(t) BY <2>7 DEF Preprocess
  <2>8. CASE Preload(t) BY <2>8 DEF Preload
  <2>9. CASE QueryFails(t) BY <2>9 DEF QueryFails
  <2>10. CASE QueriesEnd(t) BY <2>10 DEF QueriesEnd
  <2>11. CASE UnlockMutex(t) BY <2>11 DEF UnlockMutex
  <2>12. CASE Disconnect(t)
    <3>1. NextDisconnect(db[t]) \in DBs BY DEF NextDisconnect
    <3>2. open' \in [Systems -> SUBSET DBs] BY <2>12 DEF Disconnect
    <3>3. pc' \in [Threads -> WatcherPcs] BY <2>12 DEF Disconnect
    <3>4. db' \in [Threads -> DBs] BY <2>12, <3>1 DEF Disconnect
    <3>5. QED BY <2>12, <3>2, <3>3, <3>4 DEF Disconnect
  <2>13. QED BY <1>15, <2>1, <2>2, <2>3, <2>4, <2>5, <2>6, <2>7, <2>8, <2>9,
                <2>10, <2>11, <2>12 DEF DB_WORKER_watcher
<1>16. CASE UNCHANGED vars BY <1>16 DEF vars
<1>17. QED
  BY <1>1, <1>2, <1>3, <1>4, <1>5, <1>6, <1>7, <1>8, <1>9, <1>10, <1>11, <1>12,
     <1>13, <1>14, <1>15, <1>16 DEF Next, Main, DB_WORKER_init, Finished

\* Every variable of the engine stays in its range.
THEOREM TypeCorrect == Spec => []TypeOK
  BY TypeOKInit, TypeOKNext, PTL DEF Spec
-----------------------------------------------------------------------------
(***************************************************************************)
(* The inductive invariant.  Its heart is that, for a system without a     *)
(* preprocessor, the failure flag and the main thread's position together  *)
(* account for every watcher: while the flag is 0 the watcher is one that  *)
(* main is still going to join in the current phase, and once the flag is  *)
(* 1 main spawns none.                                                     *)
(***************************************************************************)

\* Main has spawned the watcher of s in this phase and not joined it yet.
Due(s) == \/ mpc = "spawn" /\ s < idx
          \/ mpc = "join" /\ s >= idx

\* A watcher before its queries; in these positions a preprocessor has not
\* yet had its flag cleared by the preload.
Early == {"start", "lock", "entered", "connect", "preprocess", "preload"}

Tracked(t) == Unjoined(t) /\ (sys[t] \in Steady \/ pc[t] \in Early)

Recorded == \A t \in Threads : Tracked(t) => w_watcher_thread[sys[t]] = t

InPhase ==
  \A t \in Threads :
    Tracked(t) /\ failure[sys[t]] = 0
      => /\ Due(sys[t]) \/ (mpc = "joinlcs0" /\ sys[t] < idx)
         /\ t_worker_data[sys[t]] = step
         /\ pc[t] \notin {"start", "wild"} => stp[t] = step

Targets ==
  \A s \in Systems :
    failure[s] = 0 /\ Due(s) => /\ w_watcher_thread[s] \in Threads
                                /\ Unjoined(w_watcher_thread[s])
                                /\ sys[w_watcher_thread[s]] = s

NotHeldYet ==
  \A t \in Threads :
    /\ pc[t] \in {"connect", "preprocess"} => failure[sys[t]] = 0
    /\ pc[t] \in {"start", "lock", "entered", "preload", "wild"}
         => (sys[t] \in Steady => failure[sys[t]] = 0)

PreprocessOnly == \A t \in Threads : pc[t] = "preprocess" => sys[t] \notin Steady

WildOnly ==
  \A t \in Threads : pc[t] = "wild" /\ sys[t] \in Steady => mpc = "joinlcs0"

Lifetimes ==
  /\ mpc \notin {"cleanup", "joinlcs", "done"} => app_terminated = 0 /\ lcs = "listening"
  /\ log = "freed" => mpc \in {"joinlcs", "done"}
  /\ mpc = "check" => idx = 1
  /\ mpc = "joinlcs0" /\ ~CreateMayFail => idx = 1

IInv == /\ TypeOK /\ MutualExclusion /\ Recorded /\ InPhase /\ Targets
        /\ NotHeldYet /\ PreprocessOnly /\ WildOnly /\ Lifetimes

\* The invariant holds when DB_WORKER_init starts ...
LEMMA IInvInit == Init => IInv
<1> SUFFICES ASSUME Init PROVE IInv
  OBVIOUS
<1>1. TypeOK BY TypeOKInit
<1>2. QED
  BY <1>1, EtlAssumption DEF Init, IInv, MutualExclusion, Recorded, InPhase,
     Targets, NotHeldYet, PreprocessOnly, WildOnly, Lifetimes, Tracked, Unjoined, Due,
     LockedPcs, BodyPcs, Early

\* ... every step of the main thread and of a watcher keeps it ...
LEMMA IInvNext == IInv /\ [Next]_vars => IInv'
<1> SUFFICES ASSUME IInv, [Next]_vars PROVE IInv'
  OBVIOUS
<1>0. TypeOK' BY TypeOKNext DEF IInv
<1> USE EtlAssumption, <1>0 DEF IInv, TypeOK, MutualExclusion, Recorded, InPhase,
     Targets, NotHeldYet, PreprocessOnly, WildOnly, Lifetimes, Tracked, Unjoined, Due,
     LockedPcs, BodyPcs, Early, Steady, Systems, threadVars, mainVars
<1>1. CASE CheckAll BY <1>1 DEF CheckAll
<1>2. CASE CheckAllFails BY <1>2 DEF CheckAllFails
<1>3. CASE LoopTop BY <1>3 DEF LoopTop
<1>4. ASSUME NEW t \in Threads, Spawn(t) PROVE IInv' BY <1>4 DEF Spawn
<1>5. CASE SpawnFails BY <1>5 DEF SpawnFails
<1>6. CASE SpawnSkip BY <1>6 DEF SpawnSkip
<1>7. CASE SpawnEnd BY <1>7 DEF SpawnEnd
<1>8. CASE Join BY <1>8 DEF Join
<1>9. CASE JoinSkip BY <1>9 DEF JoinSkip
<1>10. CASE JoinEnd BY <1>10 DEF JoinEnd, NextStep
<1>11. CASE SleepEnd BY <1>11 DEF SleepEnd
<1>12. CASE Cleanup BY <1>12 DEF Cleanup
<1>13. CASE JoinLcs BY <1>13 DEF JoinLcs
<1>14. CASE LcsExit BY <1>14 DEF LcsExit
<1>15. ASSUME NEW t \in Threads, DB_WORKER_watcher(t) PROVE IInv'
  <2>1. CASE ReadArguments(t) BY <2>1 DEF ReadArguments, FrameAlive
  <2>2. CASE LockMutex(t) BY <2>2 DEF LockMutex
  <2>3. CASE OnHold(t) BY <2>3 DEF OnHold
  <2>4. CASE NotOnHold(t) BY <2>4 DEF NotOnHold
  <2>5. CASE Connect(t) BY <2>5 DEF Connect, NextConnect, BodyStart
  <2>6. CASE ConnectFails(t) BY <2>6 DEF ConnectFails
  <2>7. CASE Preprocess(t) BY <2>7 DEF Preprocess
  <2>8. CASE Preload(t) BY <2>8 DEF Preload
  <2>9. CASE QueryFails(t)
    <3>1. \A s \in Systems : failure'[s] = 0 => failure[s] = 0 /\ s # sys[t]
      BY <2>9 DEF QueryFails
    <3>2. \A u \in Threads : pc[u] \in {"connect", "preprocess"} => u # t /\ watcher_mutex = u
      BY <2>9 DEF QueryFails
    <3>3. \A u \in Threads : pc[u] \notin {"connect", "preprocess"}
      BY <2>9, <3>2 DEF QueryFails
    <3>4. \A u \in Threads : sys[u] \in Steady /\ sys[u] = sys[t] /\ Unjoined(u) => u = t
      BY <2>9 DEF QueryFails
    <3>5. NotHeldYet'
      <4> SUFFICES ASSUME NEW u \in Threads,
                          pc[u] \in {"start", "lock", "entered", "preload", "wild"},
                          sys[u] \in Steady
                   PROVE  failure'[sys[u]] = 0
        BY <2>9, <3>3 DEF QueryFails
      <4>1. sys[u] # sys[t] BY <2>9, <3>4 DEF QueryFails
      <4>2. QED BY <2>9, <4>1 DEF QueryFails
    <3>6. InPhase' BY <2>9, <3>1 DEF QueryFails
    <3>7. Targets' BY <2>9, <3>1 DEF QueryFails
    <3>8. QED BY <2>9, <3>5, <3>6, <3>7 DEF QueryFails
  <2>10. CASE QueriesEnd(t) BY <2>10 DEF QueriesEnd
  <2>11. CASE UnlockMutex(t) BY <2>11 DEF UnlockMutex
  <2>12. CASE Disconnect(t) BY <2>12 DEF Disconnect, NextDisconnect
  <2>13. QED BY <1>15, <2>1, <2>2, <2>3, <2>4, <2>5, <2>6, <2>7, <2>8, <2>9,
                <2>10, <2>11, <2>12 DEF DB_WORKER_watcher
<1>16. CASE UNCHANGED vars BY <1>16 DEF vars
<1>17. QED
  BY <1>1, <1>2, <1>3, <1>4, <1>5, <1>6, <1>7, <1>8, <1>9, <1>10, <1>11, <1>12,
     <1>13, <1>14, <1>15, <1>16 DEF Next, Main, DB_WORKER_init, Finished

\* ... so it holds always.
LEMMA Invariance == Spec => []IInv
  BY IInvInit, IInvNext, PTL DEF Spec
-----------------------------------------------------------------------------
\* A watcher is between the lock and the unlock exactly when it owns
\* watcher_mutex, whatever watchers fail, are refused a connection or are
\* left unjoined.
THEOREM Exclusive == Spec => []MutualExclusion
<1>1. IInv => MutualExclusion BY DEF IInv
<1>2. QED BY Invariance, <1>1, PTL

\* A system without a preprocessor never has two watchers.
THEOREM AtMostOneWatcher == Spec => []OneWatcher
<1>1. IInv => OneWatcher
  BY DEF IInv, TypeOK, OneWatcher, Recorded, Tracked
<1>2. QED BY Invariance, <1>1, PTL

\* pthread_join is only called on a watcher of that system that has been
\* created and not been joined.
THEOREM JoinsAreValid == Spec => []JoinTarget
<1>1. IInv => JoinTarget
  BY EtlAssumption DEF IInv, TypeOK, JoinTarget, Targets, Due, Systems
<1>2. QED BY Invariance, <1>1, PTL

\* A watcher of a system not on hold belongs to the phase main is in.
THEOREM Barrier == Spec => []BehindBarrier
<1>1. IInv => BehindBarrier
  BY DEF IInv, TypeOK, BehindBarrier, InPhase, NotHeldYet, WildOnly, Due, Tracked, Unjoined
<1>2. QED BY Invariance, <1>1, PTL

\* The early return of a watcher that finds its system on hold, mutex in
\* hand, is unreachable for a system without a preprocessor.
THEOREM EntryIsClear == Spec => []NeverHeldAtEntry
<1>1. IInv => NeverHeldAtEntry
  BY DEF IInv, NeverHeldAtEntry, NotHeldYet
<1>2. QED BY Invariance, <1>1, PTL

\* The log objects are freed under no watcher but those of systems on hold.
THEOREM LogsOutliveWatchers == Spec => []LogInUse
<1>1. IInv => LogInUse
  BY DEF IInv, TypeOK, LogInUse, Lifetimes, InPhase, Due, Tracked, Unjoined, Steady
<1>2. QED BY Invariance, <1>1, PTL

\* A watcher reads its arguments while the frame they live in exists, if
\* pthread_create does not fail.
THEOREM ArgumentsOutliveReads == Spec => []ArgumentsAlive
<1>1. IInv => ArgumentsAlive
  <2> SUFFICES ASSUME IInv, ~CreateMayFail, NEW t \in Threads, sys[t] \in Steady, pc[t] = "wild"
               PROVE FALSE
    BY DEF ArgumentsAlive
  <2>1. mpc = "joinlcs0" /\ idx = 1 BY DEF IInv, WildOnly, Lifetimes
  <2>2. failure[sys[t]] = 0 BY DEF IInv, NotHeldYet
  <2>3. sys[t] < idx BY <2>1, <2>2 DEF IInv, InPhase, Tracked, Unjoined, Due
  <2>4. QED BY <2>1, <2>3 DEF IInv, TypeOK, Systems
<1>2. QED BY Invariance, <1>1, PTL

\* Where no connection can be refused and there is no preprocessor, no path
\* of a watcher ends with the mutex in hand.
THEOREM MutexAlwaysReturned ==
  ASSUME ConnMayFail = {}, Preprocessed = {}
  PROVE  Spec => []MutexNeverLost
<1>1. Init => MutexNeverLost
  BY EtlAssumption DEF Init, MutexNeverLost
<1>2. IInv /\ MutexNeverLost /\ [Next]_vars => MutexNeverLost'
  <2> SUFFICES ASSUME IInv, MutexNeverLost, [Next]_vars PROVE MutexNeverLost'
    OBVIOUS
  <2>1. \A t \in Threads : ~OnHold(t)
    BY DEF IInv, TypeOK, NotHeldYet, OnHold, Steady
  <2>2. \A t \in Threads : ~ConnectFails(t)
    BY DEF ConnectFails
  <2>3. CASE Main
    BY <2>3 DEF MutexNeverLost, Main, DB_WORKER_init, CheckAll, CheckAllFails,
       LoopTop, Spawn, SpawnFails, SpawnSkip, SpawnEnd, Join, JoinSkip, JoinEnd,
       SleepEnd, Cleanup, JoinLcs
  <2>4. ASSUME NEW t \in Threads, DB_WORKER_watcher(t) PROVE MutexNeverLost'
    BY EtlAssumption, <2>1, <2>2, <2>4 DEF MutexNeverLost, DB_WORKER_watcher,
       ReadArguments, LockMutex, NotOnHold, Connect, Preprocess, Preload,
       QueryFails, QueriesEnd, UnlockMutex, Disconnect
  <2>5. QED
    BY <2>3, <2>4 DEF Next, LcsExit, Finished, MutexNeverLost, vars
<1>3. QED BY Invariance, <1>1, <1>2, PTL DEF Spec

\* A system put on hold stays on hold, and no watcher is created for it.
THEOREM HoldsAreFinal == Spec => HoldIsForever
<1> DEFINE Step == \A s \in Steady : failure[s] = 1 =>
       /\ failure'[s] = 1
       /\ \A t \in Threads : sys'[t] = s /\ pc'[t] # "idle" => pc[t] # "idle"
<1>1. IInv /\ [Next]_vars => Step
  <2> SUFFICES ASSUME IInv, [Next]_vars PROVE Step
    OBVIOUS
  <2> USE EtlAssumption DEF IInv, TypeOK, Systems, Steady, mainVars, threadVars
  <2>1. CASE \E t \in Threads : Spawn(t) BY <2>1 DEF Spawn
  <2>2. CASE Join BY <2>2 DEF Join
  <2>3. CASE DB_WORKER_init /\ ~Join /\ ~\E t \in Threads : Spawn(t)
    BY <2>3 DEF DB_WORKER_init, CheckAll, CheckAllFails, LoopTop, SpawnFails,
       SpawnSkip, SpawnEnd, JoinSkip, JoinEnd, SleepEnd, Cleanup
  <2>4. CASE JoinLcs \/ LcsExit \/ UNCHANGED vars
    BY <2>4 DEF JoinLcs, LcsExit, vars
  <2>5. ASSUME NEW t \in Threads, DB_WORKER_watcher(t) PROVE Step
    <3>1. /\ sys' = sys
          /\ pc[t] # "idle"
          /\ \A u \in Threads \ {t} : pc'[u] = pc[u]
      BY <2>5 DEF DB_WORKER_watcher, ReadArguments, LockMutex, OnHold, NotOnHold,
         Connect, ConnectFails, Preprocess, Preload, QueryFails, QueriesEnd,
         UnlockMutex, Disconnect
    <3>2. ASSUME NEW s \in Steady, failure[s] = 1 PROVE failure'[s] = 1
      <4>1. CASE Preprocess(t)
        BY <3>2, <4>1 DEF Preprocess, PreprocessOnly
      <4>2. CASE Preload(t)
        BY <3>2, <4>2 DEF Preload, NotHeldYet
      <4>3. CASE QueryFails(t)
        BY <3>2, <4>3 DEF QueryFails
      <4>4. QED
        BY <2>5, <3>2, <4>1, <4>2, <4>3 DEF DB_WORKER_watcher, ReadArguments,
           LockMutex, OnHold, NotOnHold, Connect, ConnectFails, QueriesEnd,
           UnlockMutex, Disconnect
    <3>3. QED BY <3>1, <3>2
  <2>6. QED BY <2>1, <2>2, <2>3, <2>4, <2>5 DEF Next, Main, Finished
<1>2. QED BY Invariance, <1>1, PTL DEF Spec, HoldIsForever
-----------------------------------------------------------------------------
(***************************************************************************)
(* The connections.  A watcher knows exactly which connections of its      *)
(* system are open at each of its positions; that nobody else opens or     *)
(* closes them follows from OneWatcher (Recorded), not from the mutex,     *)
(* since the closing happens outside it.                                   *)
(***************************************************************************)

\* What is open when a watcher of s is about to open, or to close, d.
OpenBefore(s, d) == IF d = "dcpam" THEN {}
                    ELSE IF d = "staging" THEN {"dcpam"}
                    ELSE Connections(s) \ {"system"}
LeftBefore(s, d) == IF d = "dcpam" THEN Connections(s)
                    ELSE IF d = "system" THEN Connections(s) \ {"dcpam"}
                    ELSE {"staging"}

\* Where a watcher may have connections open.
UsingPcs == {"connect", "unlock", "disconnect"} \cup BodyPcs

OpenSoFar ==
  mpc # "done" =>
    \A t \in Threads :
      sys[t] \in Steady =>
        /\ pc[t] = "connect" => open[sys[t]] = OpenBefore(sys[t], db[t])
        /\ pc[t] \in BodyPcs \cup {"unlock"} => open[sys[t]] = Connections(sys[t])
        /\ pc[t] = "disconnect" => open[sys[t]] = LeftBefore(sys[t], db[t])
        /\ pc[t] \in {"connect", "disconnect"} /\ db[t] = "staging" => sys[t] \in Staged

NoneLeftOpen ==
  \A s \in Steady :
    open[s] # {} =>
      \/ watcher_mutex = Lost
      \/ \E t \in Threads : sys[t] = s /\ pc[t] \in UsingPcs

BodyOpen ==
  \A t \in Threads :
    pc[t] \in BodyPcs /\ sys[t] \in Steady
      => \/ open[sys[t]] = Connections(sys[t])
         \/ mpc = "done" /\ failure[sys[t]] = 1

ConnInv == OpenSoFar /\ NoneLeftOpen /\ BodyOpen

\* A step that opens nothing, does not free a lost mutex and takes no
\* watcher out of the positions where it may have connections open.
LEMMA NoneLeftOpenKept ==
  ASSUME NoneLeftOpen,
         open' = open,
         watcher_mutex = Lost => watcher_mutex' = Lost,
         \A u \in Threads : pc[u] \in UsingPcs => pc'[u] \in UsingPcs /\ sys'[u] = sys[u]
  PROVE  NoneLeftOpen'
  BY DEF NoneLeftOpen

\* A system without a preprocessor has one watcher at a time.
LEMMA OneWatcherOfSteady ==
  IInv => \A t, u \in Threads :
            Unjoined(t) /\ Unjoined(u) /\ sys[t] = sys[u] /\ sys[t] \in Steady => t = u
  BY DEF IInv, TypeOK, Recorded, Tracked

\* No watcher ends with connections of its system open.
LEMMA NoneLeftOpenNext == IInv /\ OpenSoFar /\ NoneLeftOpen /\ [Next]_vars => NoneLeftOpen'
<1> SUFFICES ASSUME IInv, OpenSoFar, NoneLeftOpen, [Next]_vars PROVE NoneLeftOpen'
  OBVIOUS
<1> USE EtlAssumption DEF UsingPcs, BodyPcs
<1>0. TypeOK /\ MutualExclusion BY DEF IInv
<1>1. CASE UNCHANGED <<watcher_mutex, open, pc, sys>>
  BY <1>1, NoneLeftOpenKept
<1>2. ASSUME NEW t \in Threads, Spawn(t) PROVE NoneLeftOpen'
  <2>1. \A u \in Threads : pc[u] \in UsingPcs => pc'[u] = pc[u] /\ sys'[u] = sys[u]
    BY <1>0, <1>2 DEF Spawn, TypeOK
  <2>2. QED BY <1>2, <2>1, NoneLeftOpenKept DEF Spawn
<1>3. CASE Join
  <2>1. \A u \in Threads : pc[u] \in UsingPcs => pc'[u] = pc[u] /\ sys'[u] = sys[u]
    BY <1>0, <1>3 DEF Join, TypeOK
  <2>2. QED BY <1>3, <2>1, NoneLeftOpenKept DEF Join
<1>4. CASE JoinLcs
  BY <1>0, <1>4 DEF JoinLcs, TypeOK, NoneLeftOpen, threadVars, Steady
<1>5. ASSUME NEW t \in Threads, DB_WORKER_watcher(t) PROVE NoneLeftOpen'
  <2>1. sys' = sys /\ \A u \in Threads \ {t} : pc'[u] = pc[u]
    BY <1>0, <1>5 DEF DB_WORKER_watcher, ReadArguments, LockMutex, OnHold, NotOnHold,
       Connect, ConnectFails, Preprocess, Preload, QueryFails, QueriesEnd,
       UnlockMutex, Disconnect, TypeOK, threadVars
  <2>2. CASE OnHold(t) \/ ConnectFails(t)
    BY <2>2 DEF OnHold, ConnectFails, NoneLeftOpen
  <2>3. CASE ReadArguments(t) \/ LockMutex(t) \/ NotOnHold(t)
    <3>1. pc[t] \notin UsingPcs /\ open' = open
      BY <2>3 DEF ReadArguments, LockMutex, NotOnHold
    <3>2. watcher_mutex = Lost => watcher_mutex' = Lost
      BY <2>3 DEF ReadArguments, LockMutex, NotOnHold
    <3>3. QED BY <2>1, <3>1, <3>2, NoneLeftOpenKept
  <2>4. CASE Preprocess(t) \/ Preload(t) \/ QueryFails(t) \/ QueriesEnd(t) \/ UnlockMutex(t)
    <3>1. open' = open /\ pc'[t] \in UsingPcs
      BY <1>0, <2>4 DEF Preprocess, Preload, QueryFails, QueriesEnd, UnlockMutex,
         TypeOK, threadVars
    <3>2. pc[t] \in LockedPcs
      BY <2>4 DEF Preprocess, Preload, QueryFails, QueriesEnd, UnlockMutex, LockedPcs
    <3>3. watcher_mutex # Lost BY <1>0, <3>2 DEF MutualExclusion
    <3>4. QED BY <2>1, <3>1, <3>3, NoneLeftOpenKept
  <2>5. CASE Connect(t)
    <3>1. \A s \in Systems \ {sys[t]} : open'[s] = open[s]
      BY <1>0, <2>5 DEF Connect, TypeOK
    <3>2. pc'[t] \in UsingPcs
      BY <1>0, <2>5 DEF Connect, TypeOK, BodyStart
    <3>3. watcher_mutex' = watcher_mutex BY <2>5 DEF Connect
    <3>4. QED BY <2>1, <3>1, <3>2, <3>3 DEF NoneLeftOpen, Steady
  <2>6. CASE Disconnect(t)
    <3>1. \A s \in Systems \ {sys[t]} : open'[s] = open[s]
      BY <1>0, <2>6 DEF Disconnect, TypeOK
    <3>2. watcher_mutex' = watcher_mutex BY <2>6 DEF Disconnect
    <3>3. CASE db[t] # LastDisconnect(sys[t])
      <4>1. pc'[t] \in UsingPcs BY <2>6, <3>3 DEF Disconnect
      <4>2. QED BY <2>1, <3>1, <3>2, <4>1 DEF NoneLeftOpen, Steady
    <3>4. CASE db[t] = LastDisconnect(sys[t]) /\ sys[t] \in Steady
      <4>1. open[sys[t]] = LeftBefore(sys[t], db[t])
        BY <1>5, <2>6, <3>4 DEF DB_WORKER_watcher, Disconnect, OpenSoFar
      <4>2. open[sys[t]] = {db[t]}
        BY <3>4, <4>1 DEF LeftBefore, LastDisconnect, Connections, DBs
      <4>3. open'[sys[t]] = {}
        BY <1>0, <2>6, <4>2 DEF Disconnect, TypeOK
      <4>4. QED BY <2>1, <3>1, <3>2, <4>3 DEF NoneLeftOpen, Steady
    <3>5. CASE sys[t] \notin Steady
      BY <2>1, <3>1, <3>2, <3>5 DEF NoneLeftOpen, Steady
    <3>6. QED BY <3>3, <3>4, <3>5
  <2>7. QED BY <1>5, <2>2, <2>3, <2>4, <2>5, <2>6 DEF DB_WORKER_watcher
<1>6. QED
  BY <1>1, <1>2, <1>3, <1>4, <1>5 DEF Next, Main, DB_WORKER_init, Finished, vars,
     threadVars, mainVars, CheckAll, CheckAllFails, LoopTop, SpawnFails, SpawnSkip,
     SpawnEnd, JoinSkip, JoinEnd, SleepEnd, Cleanup, LcsExit

\* A watcher has open what it has connected, and nobody else closes it.
LEMMA OpenSoFarNext == IInv /\ OpenSoFar /\ NoneLeftOpen /\ [Next]_vars => OpenSoFar'
<1> SUFFICES ASSUME IInv, OpenSoFar, NoneLeftOpen, [Next]_vars, mpc' # "done"
             PROVE  OpenSoFar'
  BY DEF OpenSoFar
<1> USE EtlAssumption DEF BodyPcs
<1>0. TypeOK /\ MutualExclusion BY DEF IInv
<1>1. CASE UNCHANGED <<open, pc, sys, db>> /\ mpc # "done"
  BY <1>1 DEF OpenSoFar
<1>2. ASSUME NEW t \in Threads, Spawn(t) PROVE OpenSoFar'
  BY <1>0, <1>2 DEF Spawn, TypeOK, OpenSoFar
<1>3. CASE Join
  BY <1>0, <1>3 DEF Join, TypeOK, OpenSoFar
<1>4. ASSUME NEW t \in Threads, DB_WORKER_watcher(t) PROVE OpenSoFar'
  <2>0. mpc # "done" BY <1>4 DEF DB_WORKER_watcher
  <2>1. /\ sys' = sys
        /\ \A u \in Threads \ {t} : pc'[u] = pc[u] /\ db'[u] = db[u]
        /\ \A s \in Systems \ {sys[t]} : open'[s] = open[s]
    BY <1>0, <1>4 DEF DB_WORKER_watcher, ReadArguments, LockMutex, OnHold, NotOnHold,
       Connect, ConnectFails, Preprocess, Preload, QueryFails, QueriesEnd,
       UnlockMutex, Disconnect, TypeOK, threadVars
  <2>2. Unjoined(t)
    BY <1>4 DEF DB_WORKER_watcher, ReadArguments, LockMutex, OnHold, NotOnHold,
       Connect, ConnectFails, Preprocess, Preload, QueryFails, QueriesEnd,
       UnlockMutex, Disconnect, Unjoined
  <2>3. ASSUME NEW u \in Threads \ {t}, sys[u] \in Steady, Unjoined(u)
        PROVE  open'[sys[u]] = open[sys[u]]
    BY <1>0, <2>1, <2>2, <2>3, OneWatcherOfSteady DEF TypeOK
  <2> DEFINE Here(p, o, d) == LET s == sys[t] IN
        /\ p = "connect" => o = OpenBefore(s, d)
        /\ p \in BodyPcs \cup {"unlock"} => o = Connections(s)
        /\ p = "disconnect" => o = LeftBefore(s, d)
        /\ p \in {"connect", "disconnect"} /\ d = "staging" => s \in Staged
  <2>4. SUFFICES ASSUME sys[t] \in Steady PROVE Here(pc'[t], open'[sys[t]], db'[t])
    <3>1. ASSUME NEW u \in Threads \ {t}, sys[u] \in Steady
          PROVE  /\ pc'[u] = "connect" => open'[sys[u]] = OpenBefore(sys[u], db'[u])
                 /\ pc'[u] \in BodyPcs \cup {"unlock"} => open'[sys[u]] = Connections(sys[u])
                 /\ pc'[u] = "disconnect" => open'[sys[u]] = LeftBefore(sys[u], db'[u])
                 /\ pc'[u] \in {"connect", "disconnect"} /\ db'[u] = "staging" => sys[u] \in Staged
      BY <2>0, <2>1, <2>3, <3>1 DEF OpenSoFar, Unjoined
    <3>2. QED BY <2>1, <2>4, <3>1 DEF OpenSoFar
  <2>5. Here(pc[t], open[sys[t]], db[t]) BY <2>0, <2>4 DEF OpenSoFar
  <2>6. CASE pc'[t] \in {"lock", "wild", "entered", "exited"}
    BY <2>6
  <2>7. CASE NotOnHold(t)
    <3>1. pc[t] = "entered" /\ watcher_mutex = t
      BY <1>0, <2>7 DEF NotOnHold, MutualExclusion, LockedPcs
    <3>2. \A u \in Threads : sys[u] = sys[t] => pc[u] \notin UsingPcs
      BY <2>2, <2>4, <3>1, OneWatcherOfSteady DEF Unjoined, UsingPcs
    <3>3. open[sys[t]] = {}
      BY <2>4, <3>1, <3>2 DEF NoneLeftOpen
    <3>4. pc'[t] = "connect" /\ db'[t] = "dcpam" /\ open' = open
      BY <1>0, <2>7 DEF NotOnHold, TypeOK
    <3>5. QED BY <3>3, <3>4 DEF OpenBefore
  <2>8. CASE Connect(t)
    <3>1. /\ pc[t] = "connect"
          /\ open'[sys[t]] = open[sys[t]] \cup {db[t]}
          /\ db[t] \in DBs
      BY <1>0, <2>8 DEF Connect, TypeOK
    <3>2. CASE db[t] = "system"
      <4>1. pc'[t] \in BodyPcs
        BY <1>0, <2>8, <3>2 DEF Connect, TypeOK, BodyStart
      <4>2. QED
        BY <2>5, <3>1, <3>2, <4>1 DEF OpenBefore, Connections, DBs
    <3>3. CASE db[t] # "system"
      <4>1. pc'[t] = "connect" /\ db'[t] = NextConnect(sys[t], db[t])
        BY <1>0, <2>8, <3>1, <3>3 DEF Connect, TypeOK
      <4>2. QED
        BY <2>5, <3>1, <3>3, <4>1 DEF OpenBefore, Connections, DBs, NextConnect
    <3>4. QED BY <3>2, <3>3
  <2>9. CASE Preprocess(t) \/ Preload(t) \/ QueryFails(t) \/ QueriesEnd(t)
    <3>1. open' = open /\ pc'[t] \in BodyPcs \cup {"unlock"} /\ pc[t] \in BodyPcs
      BY <1>0, <2>9 DEF Preprocess, Preload, QueryFails, QueriesEnd, TypeOK, threadVars
    <3>2. QED BY <2>5, <3>1
  <2>10. CASE UnlockMutex(t)
    <3>1. open' = open /\ pc[t] = "unlock" /\ pc'[t] = "disconnect" /\ db'[t] = "dcpam"
      BY <1>0, <2>10 DEF UnlockMutex, TypeOK
    <3>2. QED BY <2>5, <3>1 DEF LeftBefore
  <2>11. CASE Disconnect(t) /\ db[t] # LastDisconnect(sys[t])
    <3>1. /\ pc[t] = "disconnect" /\ pc'[t] = "disconnect"
          /\ open'[sys[t]] = open[sys[t]] \ {db[t]}
          /\ db'[t] = NextDisconnect(db[t])
          /\ db[t] \in DBs
      BY <1>0, <2>11 DEF Disconnect, TypeOK
    <3>2. QED
      BY <2>5, <2>11, <3>1 DEF LeftBefore, LastDisconnect, NextDisconnect, Connections, DBs
  <2>12. QED
    <3>1. CASE ReadArguments(t) \/ LockMutex(t) \/ OnHold(t) \/ ConnectFails(t)
      BY <1>0, <2>6, <3>1 DEF ReadArguments, LockMutex, OnHold, ConnectFails, TypeOK
    <3>2. CASE Disconnect(t) /\ db[t] = LastDisconnect(sys[t])
      BY <1>0, <2>6, <3>2 DEF Disconnect, TypeOK
    <3>3. QED
      BY <1>4, <2>7, <2>8, <2>9, <2>10, <2>11, <3>1, <3>2 DEF DB_WORKER_watcher
<1>5. QED
  BY <1>1, <1>2, <1>3, <1>4 DEF Next, Main, DB_WORKER_init, Finished, vars,
     threadVars, mainVars, CheckAll, CheckAllFails, LoopTop, SpawnFails, SpawnSkip,
     SpawnEnd, JoinSkip, JoinEnd, SleepEnd, Cleanup, LcsExit, JoinLcs

\* The process may end under a watcher that main did not join, but only
\* under one whose system is on hold.
LEMMA BodyOpenNext == IInv /\ OpenSoFar' /\ BodyOpen /\ [Next]_vars => BodyOpen'
<1> SUFFICES ASSUME IInv, OpenSoFar', BodyOpen, [Next]_vars PROVE BodyOpen'
  OBVIOUS
<1>1. CASE mpc' # "done" BY <1>1 DEF OpenSoFar, BodyOpen
<1>2. CASE JoinLcs
  <2> SUFFICES ASSUME NEW t \in Threads, pc[t] \in BodyPcs, sys[t] \in Steady
               PROVE  failure[sys[t]] = 1
    BY <1>2 DEF JoinLcs, BodyOpen, threadVars
  <2>1. mpc = "joinlcs" BY <1>2 DEF JoinLcs, IInv, Lifetimes
  <2>2. failure[sys[t]] # 0
    BY <2>1 DEF IInv, InPhase, Tracked, Due, Unjoined, BodyPcs
  <2>3. QED BY <2>2 DEF IInv, TypeOK
<1>3. CASE UNCHANGED vars BY <1>3 DEF vars, BodyOpen
<1>4. QED
  BY <1>1, <1>2, <1>3 DEF Next, Main, DB_WORKER_init, Finished,
     mainVars, CheckAll, CheckAllFails, LoopTop, Spawn, SpawnFails, SpawnSkip,
     SpawnEnd, Join, JoinSkip, JoinEnd, SleepEnd, Cleanup, LcsExit,
     DB_WORKER_watcher, ReadArguments, LockMutex, OnHold, NotOnHold,
     Connect, ConnectFails, Preprocess, Preload, QueryFails, QueriesEnd,
     UnlockMutex, Disconnect

\* While a watcher processes a phase all connections of its system are open,
\* and none stays open between a system's watchers unless the mutex is lost.
THEOREM ConnectionsHeld == Spec => []ConnectionsOpen
<1>1. Init => ConnInv
  BY EtlAssumption DEF Init, ConnInv, OpenSoFar, NoneLeftOpen, BodyOpen, BodyPcs, Steady
<1>2. ConnInv => ConnectionsOpen
  BY DEF ConnInv, NoneLeftOpen, BodyOpen, ConnectionsOpen, UsingPcs
<1>3. IInv /\ ConnInv /\ [Next]_vars => ConnInv'
  BY NoneLeftOpenNext, OpenSoFarNext, BodyOpenNext DEF ConnInv
<1>4. QED BY Invariance, <1>1, <1>2, <1>3, PTL DEF Spec
=============================================================================

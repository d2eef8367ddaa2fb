------------------------ MODULE EtlRefinementProofs ------------------------
(***************************************************************************)
(* Proof that EtlWorker implements EtlPhases, for every number of systems  *)
(* and threads, when no system has a preprocessor.                         *)
(***************************************************************************)
EXTENDS EtlRefinement, EtlWorkerProofs

\* Main's position fixes the phase between the cycles.
Between == /\ mpc \in {"check", "loop"} => step = "extract"
           /\ mpc = "sleep" => step = "load"

\* When DB_WORKER_init gives up on a thread it could not create, the systems
\* it has served keep their watchers.
Orphans ==
  \A s \in Systems :
    failure[s] = 0 /\ mpc = "joinlcs0" /\ s < idx
      => /\ w_watcher_thread[s] \in Threads
         /\ Unjoined(w_watcher_thread[s])
         /\ sys[w_watcher_thread[s]] = s

RInv == IInv /\ Between /\ Orphans

\* Every step of the engine keeps the invariant the refinement uses.
LEMMA RInvNext == RInv /\ [Next]_vars => RInv'
<1> SUFFICES ASSUME RInv, [Next]_vars PROVE RInv'
  OBVIOUS
<1>0. TypeOK /\ IInv /\ IInv' BY IInvNext DEF RInv, IInv
<1>1. Between'
  BY <1>0 DEF RInv, Between, Next, Main, DB_WORKER_init, Finished, vars,
     mainVars, CheckAll, CheckAllFails, LoopTop, Spawn, SpawnFails, SpawnSkip,
     SpawnEnd, Join, JoinSkip, JoinEnd, SleepEnd, Cleanup, LcsExit, JoinLcs,
     DB_WORKER_watcher, ReadArguments, LockMutex, OnHold, NotOnHold,
     Connect, ConnectFails, Preprocess, Preload, QueryFails, QueriesEnd,
     UnlockMutex, Disconnect
<1>2. Orphans'
  <2>1. CASE mpc' # "joinlcs0" BY <2>1 DEF Orphans
  <2>2. CASE CheckAllFails
    BY <1>0, <2>2 DEF CheckAllFails, Orphans, IInv, Lifetimes, Systems
  <2>3. CASE SpawnFails
    BY <1>0, <2>3 DEF SpawnFails, Orphans, IInv, Targets, Due, Unjoined, threadVars
  <2>4. ASSUME NEW t \in Threads, DB_WORKER_watcher(t), mpc' = "joinlcs0" PROVE Orphans'
    <3>1. UNCHANGED <<mpc, idx, w_watcher_thread, sys>>
      BY <2>4 DEF DB_WORKER_watcher, ReadArguments, LockMutex, OnHold, NotOnHold,
         Connect, ConnectFails, Preprocess, Preload, QueryFails, QueriesEnd,
         UnlockMutex, Disconnect, mainVars, threadVars
    <3>2. \A u \in Threads : Unjoined(u) => Unjoined(u)'
      BY <1>0, <2>4 DEF DB_WORKER_watcher, ReadArguments, LockMutex, OnHold, NotOnHold,
         Connect, ConnectFails, Preprocess, Preload, QueryFails, QueriesEnd,
         UnlockMutex, Disconnect, Unjoined, TypeOK, threadVars, BodyStart
    <3>3. \A s \in Systems :
            failure'[s] = 0 => \/ failure[s] = 0
                               \/ pc[t] \in {"preprocess", "preload"} /\ s = sys[t]
      <4>1. CASE Preprocess(t) \/ Preload(t)
        BY <1>0, <4>1 DEF Preprocess, Preload, TypeOK
      <4>2. CASE QueryFails(t)
        BY <1>0, <4>2 DEF QueryFails, TypeOK
      <4>3. CASE UNCHANGED failure BY <4>3
      <4>4. QED
        BY <2>4, <4>1, <4>2, <4>3 DEF DB_WORKER_watcher, ReadArguments, LockMutex,
           OnHold, NotOnHold, Connect, ConnectFails, QueriesEnd, UnlockMutex, Disconnect
    <3>4. \A s \in Systems : pc[t] \in {"preprocess", "preload"} /\ s = sys[t]
                             => w_watcher_thread[s] = t /\ pc'[t] # "idle"
      BY <1>0, <2>4, <3>2 DEF IInv, Recorded, Tracked, Unjoined, Early
    <3>5. QED
      BY <1>0, <2>4, <3>1, <3>2, <3>3, <3>4 DEF RInv, Orphans, Unjoined
  <2>5. CASE UNCHANGED <<mpc, idx, failure, w_watcher_thread, pc, sys>>
    BY <2>5 DEF RInv, Orphans, Unjoined
  <2>6. QED
    BY <2>1, <2>2, <2>3, <2>4, <2>5 DEF Next, Main, DB_WORKER_init, Finished, vars,
     threadVars, mainVars, CheckAll, LoopTop, Spawn, SpawnSkip,
     SpawnEnd, Join, JoinSkip, JoinEnd, SleepEnd, Cleanup, LcsExit, JoinLcs
<1>3. QED BY <1>0, <1>1, <1>2 DEF RInv
-----------------------------------------------------------------------------
\* The abstract state of a system with a watcher at position p.
Loc(p) == IF p \in {"unlock", "disconnect", "exited"} THEN "ended"
          ELSE IF p \in BodyPcs THEN "running" ELSE "waiting"

\* The progress of a system with an unjoined watcher is where that watcher is.
LEMMA WatchedState ==
  ASSUME Preprocessed = {}, RInv, NEW t \in Threads, Unjoined(t)
  PROVE  StateOf(sys[t]) = IF failure[sys[t]] = 1 THEN "hold" ELSE Loc(pc[t])
<1>1. /\ w_watcher_thread[sys[t]] = t
      /\ failure[sys[t]] \in 0 .. 1
      /\ failure[sys[t]] = 0 => Due(sys[t]) \/ (mpc = "joinlcs0" /\ sys[t] < idx)
  BY DEF RInv, IInv, TypeOK, Recorded, InPhase, Tracked, Steady
<1>2. failure[sys[t]] = 0 => Handled(sys[t]) /\ ~PastJoin(sys[t])
  BY <1>1 DEF RInv, IInv, TypeOK, Due, Handled, PastJoin, Systems
<1>3. QED BY <1>1, <1>2 DEF StateOf, Loc

\* Nothing that the state of s depends on changes, unless s is on hold, not
\* handled yet or past its join before and after.
LEMMA StateKept ==
  ASSUME RInv, NEW s \in Systems, failure'[s] = failure[s],
         Handled(s)' = Handled(s), PastJoin(s)' = PastJoin(s),
         failure[s] = 0 /\ Handled(s) /\ ~PastJoin(s)
           => pc'[w_watcher_thread'[s]] = pc[w_watcher_thread[s]]
  PROVE  StateOf(s)' = StateOf(s)
<1>1. CASE failure[s] = 1 BY <1>1 DEF StateOf
<1>2. CASE failure[s] # 1
  <2>1. failure[s] = 0 BY <1>2 DEF RInv, IInv, TypeOK
  <2>2. CASE ~Handled(s) \/ PastJoin(s) BY <2>1, <2>2 DEF StateOf
  <2>3. CASE Handled(s) /\ ~PastJoin(s) BY <2>1, <2>3 DEF StateOf
  <2>4. QED BY <2>2, <2>3
<1>3. QED BY <1>1, <1>2

\* Between spawn and join a system that has not failed has its watcher.
LEMMA LiveTarget ==
  ASSUME RInv, NEW s \in Systems, failure[s] = 0, Handled(s), ~PastJoin(s)
  PROVE  /\ w_watcher_thread[s] \in Threads
         /\ Unjoined(w_watcher_thread[s])
         /\ sys[w_watcher_thread[s]] = s
<1>1. Due(s) \/ (mpc = "joinlcs0" /\ s < idx)
  BY EtlAssumption DEF RInv, IInv, TypeOK, MainPcs, Handled, PastJoin, Due, Systems
<1>2. QED BY <1>1 DEF RInv, IInv, Targets, Orphans
-----------------------------------------------------------------------------
\* A step of the main thread is a stutter, or the beginning of a phase.
LEMMA MainRefines ==
  ASSUME RInv, Main \/ LcsExit \/ UNCHANGED vars
  PROVE  [Abs!Next]_(Abs!avars)
<1> USE EtlAssumption
<1>0. TypeOK /\ Between /\ Lifetimes BY DEF RInv, IInv
<1>1. watcher_mutex' = watcher_mutex /\ failure' = failure
  BY DEF Main, DB_WORKER_init, vars, mainVars, CheckAll, CheckAllFails, LoopTop,
     Spawn, SpawnFails, SpawnSkip, SpawnEnd, Join, JoinSkip, JoinEnd, SleepEnd,
     Cleanup, LcsExit, JoinLcs
<1>2. ASSUME step' = step, \A s \in Systems : StateOf(s)' = StateOf(s)
      PROVE  [Abs!Next]_(Abs!avars)
  BY <1>1, <1>2 DEF Abs!avars
<1>3. ASSUME NEW t \in Threads, Spawn(t) PROVE [Abs!Next]_(Abs!avars)
  <2>1. ASSUME NEW s \in Systems \ {idx} PROVE StateOf(s)' = StateOf(s)
    <3>1. Handled(s)' = Handled(s) /\ PastJoin(s)' = PastJoin(s)
      BY <1>0, <1>3 DEF Spawn, TypeOK, Handled, PastJoin, Systems
    <3>2. w_watcher_thread'[s] = w_watcher_thread[s]
      BY <1>0, <1>3 DEF Spawn, TypeOK
    <3>3. ASSUME failure[s] = 0, Handled(s), ~PastJoin(s)
          PROVE  pc'[w_watcher_thread[s]] = pc[w_watcher_thread[s]]
      BY <1>0, <1>3, <3>3, LiveTarget DEF Spawn, TypeOK, Unjoined
    <3>4. QED BY <1>1, <3>1, <3>2, <3>3, StateKept
  <2>2. idx \in Systems BY <1>0, <1>3 DEF Spawn, TypeOK, Systems
  <2>3. StateOf(idx) = "waiting"
    BY <1>0, <1>3, <2>2 DEF Spawn, StateOf, Handled, TypeOK, Systems
  <2>4. ASSUME NEW s \in Systems, s = idx PROVE StateOf(s)' = "waiting"
    <3>1. /\ failure'[s] = 0
          /\ w_watcher_thread'[s] = t /\ pc'[t] = "start"
      BY <1>0, <1>3, <2>2, <2>4 DEF Spawn, TypeOK
    <3>2. ~PastJoin(s)' BY <1>3 DEF Spawn, PastJoin
    <3>3. QED BY <3>1, <3>2 DEF StateOf, BodyPcs
  <2>5. QED BY <1>2, <1>3, <2>1, <2>3, <2>4 DEF Spawn
<1>4. CASE Join
  <2>1. ASSUME NEW s \in Systems PROVE StateOf(s)' = StateOf(s)
    <3>1. UNCHANGED <<mpc, w_watcher_thread>> /\ mpc = "join" /\ idx' = idx + 1
      BY <1>4 DEF Join
    <3>2. CASE s = idx
      <4>1. StateOf(s) = "ended"
        BY <1>0, <1>4, <3>1, <3>2 DEF Join, StateOf, Handled, PastJoin, TypeOK
      <4>2. StateOf(s)' = "ended"
        BY <1>0, <1>1, <1>4, <3>1, <3>2 DEF Join, StateOf, Handled, PastJoin, TypeOK, Systems
      <4>3. QED BY <4>1, <4>2
    <3>3. CASE s # idx
      <4>1. Handled(s)' = Handled(s) /\ PastJoin(s)' = PastJoin(s)
        BY <1>0, <3>1, <3>3 DEF TypeOK, Handled, PastJoin, Systems
      <4>2. ASSUME failure[s] = 0, Handled(s), ~PastJoin(s)
            PROVE  pc'[w_watcher_thread[s]] = pc[w_watcher_thread[s]]
        <5>1. idx \in Systems /\ failure[idx] = 0 /\ Handled(idx) /\ ~PastJoin(idx)
          BY <1>0, <1>4 DEF Join, TypeOK, Systems, Handled, PastJoin
        <5>2. w_watcher_thread[s] # w_watcher_thread[idx]
          BY <3>3, <4>2, <5>1, LiveTarget
        <5>3. QED BY <1>0, <1>4, <4>2, <5>2, LiveTarget DEF Join, TypeOK
      <4>3. QED BY <1>1, <3>1, <4>1, <4>2, StateKept
    <3>4. QED BY <3>2, <3>3
  <2>2. QED BY <1>2, <1>4, <2>1 DEF Join
<1>5. ASSUME UNCHANGED <<step, w_watcher_thread, pc>>,
             \A s \in Systems : failure[s] = 0 => /\ Handled(s)' = Handled(s)
                                                  /\ PastJoin(s)' = PastJoin(s)
      PROVE  [Abs!Next]_(Abs!avars)
  <2>1. ASSUME NEW s \in Systems PROVE StateOf(s)' = StateOf(s)
    BY <1>0, <1>1, <1>5, StateKept DEF StateOf, TypeOK
  <2>2. QED BY <1>2, <1>5, <2>1
<1>6. CASE CheckAll \/ CheckAllFails \/ LoopTop \/ SpawnFails \/ SpawnSkip \/ SpawnEnd
           \/ JoinSkip \/ Cleanup \/ JoinLcs \/ LcsExit \/ UNCHANGED vars
  <2>1. UNCHANGED <<step, w_watcher_thread, pc>>
    BY <1>0, <1>6 DEF CheckAll, CheckAllFails, LoopTop, SpawnFails, SpawnSkip, SpawnEnd,
       JoinSkip, Cleanup, JoinLcs, LcsExit, vars, threadVars, Between
  <2>2. ASSUME NEW s \in Systems, failure[s] = 0
        PROVE  Handled(s)' = Handled(s) /\ PastJoin(s)' = PastJoin(s)
    <3>1. CASE CheckAll \/ CheckAllFails \/ LoopTop
      BY <1>0, <3>1 DEF CheckAll, CheckAllFails, LoopTop, Handled, PastJoin, Lifetimes,
         TypeOK, Systems
    <3>2. CASE SpawnFails \/ SpawnSkip \/ SpawnEnd \/ JoinSkip
      BY <1>0, <2>2, <3>2 DEF SpawnFails, SpawnSkip, SpawnEnd, JoinSkip, Handled, PastJoin,
         TypeOK, Systems
    <3>3. CASE Cleanup \/ JoinLcs \/ LcsExit \/ UNCHANGED vars
      BY <1>0, <3>3 DEF Cleanup, JoinLcs, LcsExit, vars, Handled, PastJoin, Lifetimes
    <3>4. QED BY <1>6, <3>1, <3>2, <3>3
  <2>3. QED BY <1>5, <2>1, <2>2
<1>7. ASSUME \A s \in Systems : Handled(s) /\ PastJoin(s) /\ ~Handled(s)',
             step' = NextStep(step)
      PROVE  Abs!NextPhase
  <2>1. ASSUME NEW s \in Systems
        PROVE  /\ StateOf(s) = IF failure[s] = 1 THEN "hold" ELSE "ended"
               /\ StateOf(s)' = IF failure[s] = 1 THEN "hold" ELSE "waiting"
    BY <1>1, <1>7 DEF StateOf
  <2>2. step' = Abs!Following(step) BY <1>7 DEF NextStep, Abs!Following
  <2>3. QED BY <1>1, <2>1, <2>2 DEF Abs!NextPhase
<1>8. CASE JoinEnd
  <2>1. CASE step = "load"
    <3>1. \A s \in Systems : Handled(s)' = Handled(s) /\ PastJoin(s)' = PastJoin(s)
      BY <1>0, <1>8, <2>1 DEF JoinEnd, Handled, PastJoin, TypeOK, Systems
    <3>2. QED BY <1>5, <1>8, <2>1, <3>1 DEF JoinEnd, threadVars
  <2>2. CASE step # "load"
    <3>1. \A s \in Systems : Handled(s) /\ PastJoin(s) /\ ~Handled(s)'
      BY <1>0, <1>8, <2>2 DEF JoinEnd, Handled, PastJoin, TypeOK, Systems
    <3>2. QED BY <1>7, <1>8, <2>2, <3>1 DEF JoinEnd, Abs!Next
  <2>3. QED BY <2>1, <2>2
<1>9. CASE SleepEnd
  <2>1. CASE app_terminated' = 1
    <3>1. \A s \in Systems : Handled(s)' = Handled(s) /\ PastJoin(s)' = PastJoin(s)
      BY <1>9, <2>1 DEF SleepEnd, Handled, PastJoin
    <3>2. QED BY <1>5, <1>9, <2>1, <3>1 DEF SleepEnd, threadVars
  <2>2. CASE app_terminated' # 1
    <3>1. \A s \in Systems : Handled(s) /\ PastJoin(s) /\ ~Handled(s)'
      BY <1>9, <2>2 DEF SleepEnd, Handled, PastJoin
    <3>2. step = "load" /\ step' = "extract"
      BY <1>0, <1>9, <2>2 DEF SleepEnd, Between
    <3>3. step' = NextStep(step) BY <3>2 DEF NextStep
    <3>4. QED BY <1>7, <3>1, <3>3 DEF Abs!Next
  <2>3. QED BY <2>1, <2>2
<1>10. QED
  BY <1>3, <1>4, <1>6, <1>8, <1>9 DEF Main, DB_WORKER_init

\* A step of a watcher is a stutter, or an abstract step of its own system.
LEMMA WatcherRefines ==
  ASSUME Preprocessed = {}, RInv, RInv', NEW t \in Threads, DB_WORKER_watcher(t)
  PROVE  [Abs!Next]_(Abs!avars)
<1> USE EtlAssumption
<1> DEFINE s == sys[t]
<1>0. TypeOK /\ TypeOK' /\ MutualExclusion /\ NotHeldYet /\ PreprocessOnly BY DEF RInv, IInv
<1>1. /\ UNCHANGED <<mpc, idx, step, w_watcher_thread, sys>>
      /\ pc[t] # "idle"
      /\ pc'[t] # "idle"
      /\ \A u \in Threads \ {t} : pc'[u] = pc[u]
  BY <1>0 DEF DB_WORKER_watcher, ReadArguments, LockMutex, OnHold, NotOnHold,
     Connect, ConnectFails, Preprocess, Preload, QueryFails, QueriesEnd,
     UnlockMutex, Disconnect, TypeOK, mainVars, threadVars, BodyStart
<1>2. s \in Systems BY <1>0 DEF TypeOK
<1>3. \A r \in Systems \ {s} : failure'[r] = failure[r]
  BY <1>0 DEF DB_WORKER_watcher, ReadArguments, LockMutex, OnHold, NotOnHold,
     Connect, ConnectFails, Preprocess, Preload, QueryFails, QueriesEnd,
     UnlockMutex, Disconnect, TypeOK
<1>4. ASSUME NEW r \in Systems \ {s} PROVE StateOf(r)' = StateOf(r)
  <2>1. Handled(r)' = Handled(r) /\ PastJoin(r)' = PastJoin(r)
    BY <1>1 DEF Handled, PastJoin
  <2>2. ASSUME failure[r] = 0, Handled(r), ~PastJoin(r)
        PROVE  pc'[w_watcher_thread[r]] = pc[w_watcher_thread[r]]
    BY <1>1, <2>2, LiveTarget
  <2>3. QED BY <1>1, <1>3, <2>1, <2>2, StateKept
<1> DEFINE old == IF failure[s] = 1 THEN "hold" ELSE Loc(pc[t])
           new == IF failure'[s] = 1 THEN "hold" ELSE Loc(pc'[t])
<1>5. StateOf(s) = old BY <1>1, WatchedState DEF Unjoined
<1>6. \A r \in Systems : r = s => StateOf(r)' = new
  <2>1. StateOf(sys[t])' = IF failure'[sys'[t]] = 1 THEN "hold" ELSE Loc(pc'[t])
    <3>1. /\ w_watcher_thread'[sys'[t]] = t
          /\ failure'[sys'[t]] \in 0 .. 1
          /\ failure'[sys'[t]] = 0 => Due(sys[t])' \/ (mpc' = "joinlcs0" /\ sys'[t] < idx')
      BY <1>1 DEF RInv, IInv, TypeOK, Recorded, InPhase, Tracked, Steady, Unjoined
    <3>2. failure'[sys'[t]] = 0 => Handled(sys[t])' /\ ~PastJoin(sys[t])'
      BY <1>0, <1>1, <3>1 DEF TypeOK, Due, Handled, PastJoin, Systems
    <3>3. QED BY <3>1, <3>2 DEF StateOf, Loc
  <2>2. QED BY <1>1, <2>1 DEF StateOf, Handled, PastJoin
<1> DEFINE ast == [r \in Systems |-> StateOf(r)]
<1>7. ast' = [ast EXCEPT ![s] = new]
  BY <1>2, <1>4, <1>6
<1>8. ast[s] = old BY <1>2, <1>5
<1> DEFINE Lost0 == (watcher_mutex = Lost)
<1>9. ASSUME new = old, Lost0' = Lost0 PROVE [Abs!Next]_(Abs!avars)
  BY <1>1, <1>7, <1>8, <1>9 DEF Abs!avars
<1> HIDE DEF ast, old, new
<1>10. CASE ReadArguments(t) \/ LockMutex(t) \/ NotOnHold(t) \/ Disconnect(t) \/ UnlockMutex(t)
  <2>1. failure' = failure /\ Loc(pc'[t]) = Loc(pc[t])
    BY <1>0, <1>10 DEF ReadArguments, LockMutex, NotOnHold, Disconnect, UnlockMutex,
       TypeOK, Loc, BodyPcs
  <2>2. Lost0' = Lost0
    BY <1>0, <1>10 DEF ReadArguments, LockMutex, NotOnHold, Disconnect, UnlockMutex,
       MutualExclusion, LockedPcs
  <2>3. QED BY <1>9, <2>1, <2>2 DEF old, new
<1>11. ~OnHold(t)
  BY <1>0, <1>2 DEF OnHold, NotHeldYet, Steady
<1>12. CASE Connect(t)
  <2>1. /\ pc[t] = "connect" /\ failure' = failure /\ failure[s] = 0
        /\ watcher_mutex' = watcher_mutex /\ watcher_mutex = t
    BY <1>0, <1>12 DEF Connect, NotHeldYet, MutualExclusion, LockedPcs
  <2>2. CASE db[t] = "system"
    <3>1. pc'[t] \in BodyPcs
      BY <1>0, <1>12, <2>2 DEF Connect, TypeOK, BodyStart, BodyPcs
    <3>2. old = "waiting" /\ new = "running"
      BY <2>1, <3>1 DEF old, new, Loc, BodyPcs
    <3>3. ASSUME NEW r \in Systems PROVE ast[r] # "running"
      <4>1. CASE r = s BY <1>8, <3>2, <4>1
      <4>2. CASE r # s /\ StateOf(r) = "running"
        <5>1. failure[r] = 0 /\ Handled(r) /\ ~PastJoin(r) /\ pc[w_watcher_thread[r]] \in BodyPcs
          BY <1>0, <4>2 DEF StateOf, TypeOK
        <5>2. w_watcher_thread[r] \in Threads /\ sys[w_watcher_thread[r]] = r
          BY <5>1, LiveTarget
        <5>3. watcher_mutex = w_watcher_thread[r]
          BY <1>0, <5>1, <5>2 DEF MutualExclusion, LockedPcs
        <5>4. QED BY <2>1, <4>2, <5>2, <5>3
      <4>3. QED BY <4>1, <4>2 DEF ast
    <3>4. Abs!Begin(s)
      BY <1>1, <1>7, <1>8, <2>1, <3>2, <3>3 DEF Abs!Begin, ast
    <3>5. QED BY <1>2, <3>4 DEF Abs!Next
  <2>3. CASE db[t] # "system"
    <3>1. pc'[t] = pc[t] BY <1>12, <2>3 DEF Connect
    <3>2. QED BY <1>9, <2>1, <3>1 DEF old, new
  <2>4. QED BY <2>2, <2>3
<1>13. CASE ConnectFails(t)
  <2>1. /\ pc[t] = "connect" /\ pc'[t] = "exited" /\ failure' = failure /\ failure[s] = 0
        /\ watcher_mutex = t /\ watcher_mutex' = Lost
    BY <1>0, <1>13 DEF ConnectFails, NotHeldYet, MutualExclusion, LockedPcs, TypeOK
  <2>2. old = "waiting" /\ new = "ended" BY <2>1 DEF old, new, Loc, BodyPcs
  <2>3. Abs!GiveUp(s) BY <1>1, <1>7, <1>8, <2>1, <2>2 DEF Abs!GiveUp, ast
  <2>4. QED BY <1>2, <2>3 DEF Abs!Next
<1>14. ~Preprocess(t)
  BY <1>0, <1>2 DEF Preprocess, PreprocessOnly, Steady
<1>15. ASSUME old = "running", new = "hold", watcher_mutex' = watcher_mutex
       PROVE  [Abs!Next]_(Abs!avars)
  <2>1. Abs!Fail(s) BY <1>1, <1>7, <1>8, <1>15 DEF Abs!Fail, ast
  <2>2. QED BY <1>2, <2>1 DEF Abs!Next
<1>16. CASE Preload(t)
  <2>1. pc[t] = "preload" /\ failure[s] = 0 /\ watcher_mutex' = watcher_mutex
    BY <1>0, <1>2, <1>16 DEF Preload, NotHeldYet, Steady
  <2>2. \/ failure'[s] = 0 /\ pc'[t] = "queries"
        \/ failure'[s] = 1
    BY <1>0, <1>16 DEF Preload, TypeOK
  <2>3. old = "running" BY <2>1 DEF old, Loc, BodyPcs
  <2>4. new \in {"running", "hold"} BY <2>2 DEF new, Loc, BodyPcs
  <2>5. QED BY <1>9, <1>15, <2>1, <2>3, <2>4
<1>17. CASE QueryFails(t)
  <2>1. /\ pc[t] = "queries" /\ failure[s] = 0 /\ failure'[s] = 1
        /\ watcher_mutex' = watcher_mutex
    BY <1>0, <1>17 DEF QueryFails, TypeOK
  <2>2. QED BY <1>15, <2>1 DEF old, new, Loc, BodyPcs
<1>18. CASE QueriesEnd(t)
  <2>1. /\ pc[t] = "queries" /\ pc'[t] = "unlock" /\ failure' = failure
        /\ watcher_mutex' = watcher_mutex
    BY <1>0, <1>18 DEF QueriesEnd, TypeOK
  <2>2. CASE failure[s] = 1 BY <1>9, <2>1, <2>2 DEF old, new
  <2>3. CASE failure[s] # 1
    <3>1. old = "running" /\ new = "ended" BY <2>1, <2>3 DEF old, new, Loc, BodyPcs
    <3>2. Abs!End(s) BY <1>1, <1>7, <1>8, <2>1, <3>1 DEF Abs!End, ast
    <3>3. QED BY <1>2, <3>2 DEF Abs!Next
  <2>4. QED BY <2>2, <2>3
<1>19. QED
  BY <1>10, <1>11, <1>12, <1>13, <1>14, <1>16, <1>17, <1>18 DEF DB_WORKER_watcher

\* The engine with its threads, its mutex, its connections and its unjoined
\* watchers implements the phased promise of EtlPhases, for every number of
\* systems and threads, when no system has a preprocessor.
THEOREM PhasesImplemented ==
  ASSUME Preprocessed = {}
  PROVE  Spec => ImplementsPhases
<1>1. Init => RInv /\ Abs!Init
  <2> SUFFICES ASSUME Init PROVE RInv /\ Abs!Init
    OBVIOUS
  <2>1. RInv BY IInvInit DEF Init, RInv, Between, Orphans
  <2>2. \A s \in Systems : StateOf(s) = "waiting" BY DEF Init, StateOf, Handled
  <2>3. Abs!Init BY <2>2, EtlAssumption DEF Init, Abs!Init
  <2>4. QED BY <2>1, <2>3
<1>2. RInv /\ RInv' /\ [Next]_vars => [Abs!Next]_(Abs!avars)
  <2> SUFFICES ASSUME RInv, RInv', [Next]_vars PROVE [Abs!Next]_(Abs!avars)
    OBVIOUS
  <2>1. CASE Main \/ LcsExit \/ UNCHANGED vars BY <2>1, MainRefines
  <2>2. CASE \E t \in Threads : DB_WORKER_watcher(t) BY <2>2, WatcherRefines
  <2>3. QED BY <2>1, <2>2 DEF Next, Finished
<1>3. QED BY <1>1, <1>2, RInvNext, PTL DEF Spec, ImplementsPhases, Abs!Spec
=============================================================================

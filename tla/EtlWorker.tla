----------------------------- MODULE EtlWorker -----------------------------
(***************************************************************************)
(* The DCPAM ETL engine (core/db/worker.c, started by DCPAM_ETL's main).   *)
(*                                                                         *)
(* DB_WORKER_init runs in the main thread.  In every cycle it goes through *)
(* three phases (Extract, Transform, Load); in a phase it spawns one       *)
(* DB_WORKER_watcher thread for each data system whose failure flag is 0   *)
(* and then joins the watchers of the systems whose failure flag is (now)  *)
(* 0.  A watcher takes the single watcher_mutex, opens the system's        *)
(* connections, runs the phase, gives the mutex back and closes the        *)
(* connections.  What a phase does to the data is the subject of           *)
(* EtlPipeline; here it only can fail, i.e. set the failure flag.          *)
(*                                                                         *)
(* The failure flag is written by watchers inside the mutex and read by    *)
(* the main thread outside it.  A watcher that leaves early does not give  *)
(* the mutex back: it is then Lost.                                        *)
(*                                                                         *)
(* Not here: the termination signal (app_terminate).                       *)
(***************************************************************************)
EXTENDS Integers, FiniteSets

CONSTANTS
  N,              \* DATABASE_SYSTEMS_COUNT
  Threads,        \* pthread ids the process may have in use at a time
  NoThread, Lost, \* watcher_mutex: free / held by a thread that has ended
  Staged,         \* systems with a staging_db
  FlatFile,       \* systems fed by a flat file
  Preprocessed,   \* flat-file systems with a preprocessor script
  ConnMayFail,    \* systems one of whose databases may refuse a connection
  CreateMayFail,  \* whether pthread_create may fail
  RunOnce         \* APP.run_once

Systems == 1 .. N
Steps   == {"extract", "transform", "load"}
DBs     == {"dcpam", "staging", "system"}

ASSUME EtlAssumption ==
  /\ N \in Nat \ {0}
  /\ NoThread \notin Threads /\ Lost \notin Threads /\ NoThread # Lost
  /\ Staged \subseteq Systems /\ ConnMayFail \subseteq Systems
  /\ FlatFile \subseteq Systems /\ Preprocessed \subseteq FlatFile
  /\ CreateMayFail \in BOOLEAN /\ RunOnce \in BOOLEAN

VARIABLES
  mpc,             \* where the main thread is
  step,            \* the phase the main thread is in
  idx,             \* its loop index over the systems
  app_terminated,
  lcs,             \* the LCS listener thread: "listening" or "exited"
  log,             \* the per-system log objects: "none", "open", "freed"
  failure,         \* DATABASE_SYSTEMS[ s ].failure
  t_worker_data,   \* the step handed to the watcher of s, in main's frame
  w_watcher_thread,
  watcher_mutex,
  open,            \* connections of s that are active
  pc, sys, stp, db \* per thread: position, system, step, current connection

mainVars   == <<mpc, step, idx, app_terminated, lcs, log>>
threadVars == <<pc, sys, stp, db>>
vars == <<mpc, step, idx, app_terminated, lcs, log, failure, t_worker_data,
          w_watcher_thread, watcher_mutex, open, pc, sys, stp, db>>

MainPcs == {"check", "loop", "spawn", "join", "sleep", "cleanup",
            "joinlcs", "joinlcs0", "done"}

\* The watcher's body: everything between the connections and the unlock.
BodyPcs == {"preprocess", "preload", "queries"}
\* Where a watcher holds watcher_mutex.
LockedPcs == {"entered", "connect"} \cup BodyPcs \cup {"unlock"}
WatcherPcs == {"idle", "start", "lock"} \cup LockedPcs
                \cup {"disconnect", "exited", "wild"}

Connections(s) == IF s \in Staged THEN DBs ELSE DBs \ {"staging"}

\* Seeded defect: the staging database is forgotten.
NextConnectNoStaging(s, d) == "system"
\* Order in which a watcher connects: dcpam_db, staging_db, system_db.
NextConnect(s, d) == IF d = "dcpam" /\ s \in Staged THEN "staging" ELSE "system"
\* Order in which it disconnects: dcpam_db, system_db, staging_db.
NextDisconnect(d) == IF d = "dcpam" THEN "system" ELSE "staging"
LastDisconnect(s) == IF s \in Staged THEN "staging" ELSE "system"

NextStep(k) == CASE k = "extract"   -> "transform"
                 [] k = "transform" -> "load"
                 [] OTHER           -> "extract"

\* First position of the body of step k for system s.
BodyStart(s, k) ==
  IF k = "extract" /\ s \in Preprocessed THEN "preprocess"
  ELSE IF k = "extract" /\ s \in FlatFile THEN "preload"
  ELSE "queries"

\* t_worker_data lives in the frame of DB_WORKER_init.
FrameAlive == mpc \in {"check", "loop", "spawn", "join", "sleep", "cleanup"}

Init ==
  /\ mpc = "check" /\ step = "extract" /\ idx = 1
  /\ app_terminated = 0
  /\ lcs = "listening"
  /\ log = "none"
  /\ failure = [s \in Systems |-> 0]
  /\ t_worker_data = [s \in Systems |-> "extract"]
  /\ w_watcher_thread = [s \in Systems |-> NoThread]
  /\ watcher_mutex = NoThread
  /\ open = [s \in Systems |-> {}]
  /\ pc = [t \in Threads |-> "idle"]
  /\ sys = [t \in Threads |-> 1]
  /\ stp = [t \in Threads |-> "extract"]
  /\ db = [t \in Threads |-> "dcpam"]
-----------------------------------------------------------------------------
(***************************************************************************)
(* The main thread: DB_WORKER_init, then the end of main().                *)
(***************************************************************************)

\* DB_WORKER_check_all opened and closed every database and flat file; the
\* per-system logs are created.
CheckAll ==
  /\ mpc = "check"
  /\ mpc' = "loop" /\ app_terminated' = 0 /\ log' = "open"
  /\ UNCHANGED <<step, idx, lcs, failure, t_worker_data, w_watcher_thread,
                 watcher_mutex, open, threadVars>>

\* A database refused the connection or a flat file could not be opened:
\* DB_WORKER_init returns 0 with app_terminated still 0.
CheckAllFails ==
  /\ mpc = "check"
  /\ ConnMayFail \cup FlatFile # {}
  /\ mpc' = "joinlcs0" /\ app_terminated' = 0
  /\ UNCHANGED <<step, idx, lcs, log, failure, t_worker_data,
                 w_watcher_thread, watcher_mutex, open, threadVars>>

\* Seeded defect: every cycle gives the systems on hold another chance.
LoopTopRetry ==
  /\ mpc = "loop" /\ mpc' = "spawn"
  /\ step' = "extract" /\ idx' = 1
  /\ failure' = [s \in Systems |-> 0]
  /\ UNCHANGED <<app_terminated, lcs, log, t_worker_data, w_watcher_thread,
                 watcher_mutex, open, threadVars>>

LoopTop ==
  /\ mpc = "loop"
  /\ mpc' = IF app_terminated = 1 THEN "cleanup" ELSE "spawn"
  /\ step' = "extract" /\ idx' = 1
  /\ UNCHANGED <<app_terminated, lcs, log, failure, t_worker_data,
                 w_watcher_thread, watcher_mutex, open, threadVars>>

\* Seeded defect: the failure flag is not looked at before spawning.
SpawnOnHold(t) ==
  /\ mpc = "spawn" /\ idx <= N
  /\ pc[t] = "idle"
  /\ t_worker_data' = [t_worker_data EXCEPT ![idx] = step]
  /\ w_watcher_thread' = [w_watcher_thread EXCEPT ![idx] = t]
  /\ pc' = [pc EXCEPT ![t] = "start"]
  /\ sys' = [sys EXCEPT ![t] = idx]
  /\ idx' = idx + 1
  /\ UNCHANGED <<mpc, step, app_terminated, lcs, log, failure, watcher_mutex,
                 open, stp, db>>

\* Seeded defect: the thread id is not kept.
SpawnUnrecorded(t) ==
  /\ mpc = "spawn" /\ idx <= N /\ failure[idx] = 0
  /\ pc[t] = "idle"
  /\ t_worker_data' = [t_worker_data EXCEPT ![idx] = step]
  /\ pc' = [pc EXCEPT ![t] = "start"]
  /\ sys' = [sys EXCEPT ![t] = idx]
  /\ idx' = idx + 1
  /\ UNCHANGED <<mpc, step, app_terminated, lcs, log, failure,
                 w_watcher_thread, watcher_mutex, open, stp, db>>

\* One iteration of a phase's spawning loop for a system not on hold.
Spawn(t) ==
  /\ mpc = "spawn" /\ idx <= N /\ failure[idx] = 0
  /\ pc[t] = "idle"
  /\ t_worker_data' = [t_worker_data EXCEPT ![idx] = step]
  /\ w_watcher_thread' = [w_watcher_thread EXCEPT ![idx] = t]
  /\ pc' = [pc EXCEPT ![t] = "start"]
  /\ sys' = [sys EXCEPT ![t] = idx]
  /\ idx' = idx + 1
  /\ UNCHANGED <<mpc, step, app_terminated, lcs, log, failure, watcher_mutex,
                 open, stp, db>>

\* pthread_create reports an error: return 0, whatever watchers are running.
SpawnFails ==
  /\ mpc = "spawn" /\ idx <= N /\ failure[idx] = 0
  /\ CreateMayFail
  /\ t_worker_data' = [t_worker_data EXCEPT ![idx] = step]
  /\ mpc' = "joinlcs0"
  /\ UNCHANGED <<step, idx, app_terminated, lcs, log, failure,
                 w_watcher_thread, watcher_mutex, open, threadVars>>

\* "not spawning ... due to previous failure"
SpawnSkip ==
  /\ mpc = "spawn" /\ idx <= N /\ failure[idx] = 1
  /\ idx' = idx + 1
  /\ UNCHANGED <<mpc, step, app_terminated, lcs, log, failure, t_worker_data,
                 w_watcher_thread, watcher_mutex, open, threadVars>>

SpawnEnd ==
  /\ mpc = "spawn" /\ idx = N + 1
  /\ mpc' = "join" /\ idx' = 1
  /\ UNCHANGED <<step, app_terminated, lcs, log, failure, t_worker_data,
                 w_watcher_thread, watcher_mutex, open, threadVars>>

\* Seeded defect: the end of the watcher is not waited for.
JoinWithoutWaiting ==
  /\ mpc = "join" /\ idx <= N /\ failure[idx] = 0
  /\ idx' = idx + 1
  /\ UNCHANGED <<mpc, step, app_terminated, lcs, log, failure, t_worker_data,
                 w_watcher_thread, watcher_mutex, open, threadVars>>

\* pthread_join( w_watcher_thread[ idx ] ): waits for the watcher's end.
Join ==
  /\ mpc = "join" /\ idx <= N /\ failure[idx] = 0
  /\ LET t == w_watcher_thread[idx]
     IN /\ t \in Threads /\ pc[t] = "exited"
        /\ pc' = [pc EXCEPT ![t] = "idle"]
  /\ idx' = idx + 1
  /\ UNCHANGED <<mpc, step, app_terminated, lcs, log, failure, t_worker_data,
                 w_watcher_thread, watcher_mutex, open, sys, stp, db>>

\* Seeded defect: the loop index is incremented twice.
JoinSkipTwice ==
  /\ mpc = "join" /\ idx <= N /\ failure[idx] = 1
  /\ idx' = idx + 2
  /\ UNCHANGED <<mpc, step, app_terminated, lcs, log, failure, t_worker_data,
                 w_watcher_thread, watcher_mutex, open, threadVars>>

\* A system whose failure flag is set when main looks is not joined.
JoinSkip ==
  /\ mpc = "join" /\ idx <= N /\ failure[idx] = 1
  /\ idx' = idx + 1
  /\ UNCHANGED <<mpc, step, app_terminated, lcs, log, failure, t_worker_data,
                 w_watcher_thread, watcher_mutex, open, threadVars>>

\* The phase is over; after Load the cycle is.
JoinEnd ==
  /\ mpc = "join" /\ idx = N + 1
  /\ \/ /\ step # "load"
        /\ mpc' = "spawn" /\ step' = NextStep(step) /\ idx' = 1
     \/ /\ step = "load"
        /\ mpc' = "sleep" /\ UNCHANGED <<step, idx>>
  /\ UNCHANGED <<app_terminated, lcs, log, failure, t_worker_data,
                 w_watcher_thread, watcher_mutex, open, threadVars>>

\* Seeded defect: one-time mode leaves the loop without app_terminated.
SleepEndSilently ==
  /\ mpc = "sleep"
  /\ IF RunOnce THEN mpc' = "cleanup" /\ UNCHANGED <<step, idx>>
     ELSE mpc' = "loop" /\ step' = "extract" /\ idx' = 1
  /\ UNCHANGED <<app_terminated, lcs, log, failure, t_worker_data,
                 w_watcher_thread, watcher_mutex, open, threadVars>>

\* Sleep( WORKER_WATCHER_SLEEP ), then leave the loop or start again.
SleepEnd ==
  /\ mpc = "sleep"
  /\ app_terminated' = IF RunOnce THEN 1 ELSE app_terminated
  /\ \/ /\ app_terminated' = 1
        /\ mpc' = "cleanup" /\ UNCHANGED <<step, idx>>
     \/ /\ app_terminated' # 1
        /\ mpc' = "loop" /\ step' = "extract" /\ idx' = 1
  /\ UNCHANGED <<lcs, log, failure, t_worker_data, w_watcher_thread,
                 watcher_mutex, open, threadVars>>

\* The log objects are freed and DB_WORKER_init returns TRUE.
Cleanup ==
  /\ mpc = "cleanup"
  /\ mpc' = "joinlcs" /\ log' = "freed"
  /\ UNCHANGED <<step, idx, app_terminated, lcs, failure, t_worker_data,
                 w_watcher_thread, watcher_mutex, open, threadVars>>

\* main() joins the LCS listener, closes what DCPAM_free_configuration
\* closes and returns: the process ends, with whatever threads are left.
JoinLcs ==
  /\ mpc \in {"joinlcs", "joinlcs0"} /\ lcs = "exited"
  /\ mpc' = "done"
  /\ open' = [s \in Systems |-> open[s] \ {"dcpam", "system"}]
  /\ UNCHANGED <<step, idx, app_terminated, lcs, log, failure, t_worker_data,
                 w_watcher_thread, watcher_mutex, threadVars>>

\* The listener's accept loop runs while app_terminated is 0.
LcsExit ==
  /\ mpc # "done" /\ lcs = "listening" /\ app_terminated = 1
  /\ lcs' = "exited"
  /\ UNCHANGED <<mpc, step, idx, app_terminated, log, failure, t_worker_data,
                 w_watcher_thread, watcher_mutex, open, threadVars>>

\* The process is gone.
Finished == mpc = "done" /\ UNCHANGED vars
-----------------------------------------------------------------------------
(***************************************************************************)
(* A watcher thread t: DB_WORKER_watcher.                                  *)
(***************************************************************************)

\* The first lines copy the arguments out of main's frame.  When
\* DB_WORKER_init has already returned they read a dead frame.
ReadArguments(t) ==
  /\ pc[t] = "start"
  /\ \/ /\ FrameAlive
        /\ stp' = [stp EXCEPT ![t] = t_worker_data[sys[t]]]
        /\ pc' = [pc EXCEPT ![t] = "lock"]
     \/ /\ ~FrameAlive
        /\ pc' = [pc EXCEPT ![t] = "wild"] /\ UNCHANGED stp
  /\ UNCHANGED <<mainVars, failure, t_worker_data, w_watcher_thread,
                 watcher_mutex, open, sys, db>>

\* Seeded defect: the mutex is tried, and its being taken ignored.
LockMutexAnyway(t) ==
  /\ pc[t] = "lock"
  /\ watcher_mutex' = t
  /\ pc' = [pc EXCEPT ![t] = "entered"]
  /\ UNCHANGED <<mainVars, failure, t_worker_data, w_watcher_thread, open,
                 sys, stp, db>>

LockMutex(t) ==
  /\ pc[t] = "lock" /\ watcher_mutex = NoThread
  /\ watcher_mutex' = t
  /\ pc' = [pc EXCEPT ![t] = "entered"]
  /\ UNCHANGED <<mainVars, failure, t_worker_data, w_watcher_thread, open,
                 sys, stp, db>>

\* "put on hold due to previous problems": pthread_exit inside the mutex.
OnHold(t) ==
  /\ pc[t] = "entered" /\ failure[sys[t]] = 1
  /\ pc' = [pc EXCEPT ![t] = "exited"]
  /\ watcher_mutex' = Lost
  /\ UNCHANGED <<mainVars, failure, t_worker_data, w_watcher_thread, open,
                 sys, stp, db>>

NotOnHold(t) ==
  /\ pc[t] = "entered" /\ failure[sys[t]] = 0
  /\ pc' = [pc EXCEPT ![t] = "connect"]
  /\ db' = [db EXCEPT ![t] = "dcpam"]
  /\ UNCHANGED <<mainVars, failure, t_worker_data, w_watcher_thread,
                 watcher_mutex, open, sys, stp>>

\* DATABASE_SYSTEM_DB_init succeeded; after system_db the body starts.
Connect(t) ==
  /\ pc[t] = "connect"
  /\ open' = [open EXCEPT ![sys[t]] = @ \cup {db[t]}]
  /\ \/ /\ db[t] = "system"
        /\ pc' = [pc EXCEPT ![t] = BodyStart(sys[t], stp[t])]
        /\ UNCHANGED db
     \/ /\ db[t] # "system"
        /\ db' = [db EXCEPT ![t] = NextConnect(sys[t], db[t])]
        /\ UNCHANGED pc
  /\ UNCHANGED <<mainVars, failure, t_worker_data, w_watcher_thread,
                 watcher_mutex, sys, stp>>

\* It failed: pthread_cancel of itself and return, inside the mutex, with
\* the connections made so far left open.
ConnectFails(t) ==
  /\ pc[t] = "connect" /\ sys[t] \in ConnMayFail
  /\ pc' = [pc EXCEPT ![t] = "exited"]
  /\ watcher_mutex' = Lost
  /\ UNCHANGED <<mainVars, failure, t_worker_data, w_watcher_thread, open,
                 sys, stp, db>>

\* The preprocessor script: its outcome overwrites the failure flag.  (The
\* answer is compared as a string that is never terminated, so either
\* outcome is possible whatever the script printed.  When popen fails the flag
\* is 1 too, and pclose(NULL) is taken to return.)
Preprocess(t) ==
  /\ pc[t] = "preprocess"
  /\ \E f \in 0 .. 1 : failure' = [failure EXCEPT ![sys[t]] = f]
  /\ pc' = [pc EXCEPT ![t] = "preload"]
  /\ UNCHANGED <<mainVars, t_worker_data, w_watcher_thread, watcher_mutex,
                 open, sys, stp, db>>

\* FILE_ETL_preload: its outcome overwrites the failure flag again.
Preload(t) ==
  /\ pc[t] = "preload"
  /\ \E f \in 0 .. 1 :
       /\ failure' = [failure EXCEPT ![sys[t]] = f]
       /\ pc' = [pc EXCEPT ![t] = IF f = 0 THEN "queries" ELSE "unlock"]
  /\ UNCHANGED <<mainVars, t_worker_data, w_watcher_thread, watcher_mutex,
                 open, sys, stp, db>>

\* A query's extract, transform or load returned 0; the loop goes on with
\* the next query.
QueryFails(t) ==
  /\ pc[t] = "queries" /\ failure[sys[t]] = 0
  /\ failure' = [failure EXCEPT ![sys[t]] = 1]
  /\ UNCHANGED <<mainVars, t_worker_data, w_watcher_thread, watcher_mutex,
                 open, threadVars>>

QueriesEnd(t) ==
  /\ pc[t] = "queries"
  /\ pc' = [pc EXCEPT ![t] = "unlock"]
  /\ UNCHANGED <<mainVars, failure, t_worker_data, w_watcher_thread,
                 watcher_mutex, open, sys, stp, db>>

\* Seeded defect: the watcher ends its body without giving the mutex back.
UnlockMutexForgotten(t) ==
  /\ pc[t] = "unlock"
  /\ watcher_mutex' = Lost
  /\ pc' = [pc EXCEPT ![t] = "disconnect"]
  /\ db' = [db EXCEPT ![t] = "dcpam"]
  /\ UNCHANGED <<mainVars, failure, t_worker_data, w_watcher_thread, open,
                 sys, stp>>

UnlockMutex(t) ==
  /\ pc[t] = "unlock"
  /\ watcher_mutex' = NoThread
  /\ pc' = [pc EXCEPT ![t] = "disconnect"]
  /\ db' = [db EXCEPT ![t] = "dcpam"]
  /\ UNCHANGED <<mainVars, failure, t_worker_data, w_watcher_thread, open,
                 sys, stp>>

\* DATABASE_SYSTEM_DB_close, outside the mutex; then the thread ends.
Disconnect(t) ==
  /\ pc[t] = "disconnect"
  /\ open' = [open EXCEPT ![sys[t]] = @ \ {db[t]}]
  /\ \/ /\ db[t] = LastDisconnect(sys[t])
        /\ pc' = [pc EXCEPT ![t] = "exited"] /\ UNCHANGED db
     \/ /\ db[t] # LastDisconnect(sys[t])
        /\ db' = [db EXCEPT ![t] = NextDisconnect(db[t])] /\ UNCHANGED pc
  /\ UNCHANGED <<mainVars, failure, t_worker_data, w_watcher_thread,
                 watcher_mutex, sys, stp>>
-----------------------------------------------------------------------------
DB_WORKER_watcher(t) ==
  /\ mpc # "done"
  /\ \/ ReadArguments(t) \/ LockMutex(t) \/ OnHold(t) \/ NotOnHold(t)
     \/ Connect(t) \/ ConnectFails(t)
     \/ Preprocess(t) \/ Preload(t) \/ QueryFails(t) \/ QueriesEnd(t)
     \/ UnlockMutex(t) \/ Disconnect(t)

DB_WORKER_init ==
  \/ CheckAll \/ CheckAllFails \/ LoopTop
  \/ \E t \in Threads : Spawn(t)
  \/ SpawnFails \/ SpawnSkip \/ SpawnEnd
  \/ Join \/ JoinSkip \/ JoinEnd \/ SleepEnd \/ Cleanup

Main == DB_WORKER_init \/ JoinLcs

Next == \/ Main
        \/ LcsExit
        \/ \E t \in Threads : DB_WORKER_watcher(t)
        \/ Finished

Spec == Init /\ [][Next]_vars

\* Every thread of the process is scheduled; nothing is assumed about the
\* outcome of a step or about who gets a contended mutex.
Fairness ==
  /\ WF_vars(Main)
  /\ WF_vars(LcsExit)
  /\ \A t \in Threads : WF_vars(DB_WORKER_watcher(t))

FairSpec == Spec /\ Fairness
-----------------------------------------------------------------------------
(***************************************************************************)
(* Properties.                                                             *)
(***************************************************************************)

\* Systems without a preprocessor.  For the others the preprocessor may set
\* the failure flag and the preload clear it again, within one watcher.
Steady == Systems \ Preprocessed

\* The watcher has been created and not yet been joined.
Unjoined(t) == pc[t] # "idle"

\* Every variable stays in its range.
TypeOK ==
  /\ mpc \in MainPcs /\ step \in Steps /\ idx \in 1 .. (N + 1)
  /\ app_terminated \in 0 .. 1
  /\ lcs \in {"listening", "exited"} /\ log \in {"none", "open", "freed"}
  /\ failure \in [Systems -> 0 .. 1]
  /\ t_worker_data \in [Systems -> Steps]
  /\ w_watcher_thread \in [Systems -> Threads \cup {NoThread}]
  /\ watcher_mutex \in Threads \cup {NoThread, Lost}
  /\ open \in [Systems -> SUBSET DBs]
  /\ pc \in [Threads -> WatcherPcs]
  /\ sys \in [Threads -> Systems]
  /\ stp \in [Threads -> Steps]
  /\ db \in [Threads -> DBs]

\* watcher_mutex serialises the watchers of all systems: a thread is between
\* the lock and the unlock exactly when it owns the mutex.
MutualExclusion == \A t \in Threads : pc[t] \in LockedPcs <=> watcher_mutex = t

\* A system never has two watchers: although failed watchers are not joined,
\* the next phase never starts a second one beside them.
OneWatcher ==
  \A t, u \in Threads :
    Unjoined(t) /\ Unjoined(u) /\ sys[t] = sys[u] /\ sys[t] \in Steady => t = u

\* pthread_join is only called for a watcher of that system that has been
\* created and not been joined before.  (For every system: a flag the
\* preload cleared does not make main join an old thread id.)
JoinTarget ==
  mpc = "join" /\ idx <= N /\ failure[idx] = 0
    => LET t == w_watcher_thread[idx]
       IN t \in Threads /\ Unjoined(t) /\ sys[t] = idx

\* The barrier between phases: a watcher of a system that is not on hold
\* belongs to the phase the main thread is in, and there is none outside the
\* phases (unless DB_WORKER_init gave up on a thread it could not create).
BehindBarrier ==
  \A t \in Threads :
    Unjoined(t) /\ sys[t] \in Steady /\ failure[sys[t]] = 0 /\ mpc # "joinlcs0"
      => /\ mpc \in {"spawn", "join"}
         /\ pc[t] # "start" => stp[t] = step

\* While a phase is processed all the system's connections are open: the
\* closing of connections outside the mutex does not hit a running watcher.
\* (The exit of the process may: a failed watcher is not waited for.)
\* And no connection is left open between a system's watchers, unless the mutex
\* was lost (a refused connection leaves the earlier ones open).
ConnectionsOpen ==
  /\ \A t \in Threads :
       pc[t] \in BodyPcs /\ sys[t] \in Steady
         => \/ open[sys[t]] = Connections(sys[t])
            \/ mpc = "done" /\ failure[sys[t]] = 1
  /\ \A s \in Steady :
       open[s] # {} =>
         \/ watcher_mutex = Lost
         \/ \E t \in Threads : /\ sys[t] = s
                               /\ pc[t] \in {"connect", "unlock", "disconnect"} \cup BodyPcs

\* The log objects are freed under no watcher but those of systems on hold.
LogInUse ==
  log = "freed" =>
    \A t \in Threads :
      sys[t] \in Steady /\ pc[t] \notin {"idle", "exited"} => failure[sys[t]] = 1

\* The arguments of a watcher are read while DB_WORKER_init's frame exists,
\* unless DB_WORKER_init gave up on a thread it could not create.
ArgumentsAlive ==
  ~CreateMayFail => \A t \in Threads : sys[t] \in Steady => pc[t] # "wild"

\* The early return of a watcher that finds its system on hold, which keeps
\* the mutex, is never taken: such a watcher is not spawned, and a flag is
\* not set between the spawning and the lock.
NeverHeldAtEntry ==
  \A t \in Threads :
    pc[t] = "entered" /\ sys[t] \in Steady => failure[sys[t]] = 0

\* Without refused connections and preprocessors no exit of a watcher keeps
\* the mutex.
MutexNeverLost == watcher_mutex # Lost

\* A system put on hold stays on hold, and is not given a watcher again.
HoldIsForever ==
  [][\A s \in Steady : failure[s] = 1 =>
       /\ failure'[s] = 1
       /\ \A t \in Threads : sys'[t] = s /\ pc'[t] # "idle" => pc[t] # "idle"]_vars

\* In one-time mode the program ends.
Terminates == <>(mpc = "done")

\* The load of s is done.
Loaded(s) == \E t \in Threads : sys[t] = s /\ stp[t] = "load" /\ pc[t] = "unlock"

\* Each cycle takes every system whose databases answer to the end of its
\* Load, or that system is put on hold.
ServedOrHeld ==
  \A s \in Systems \ ConnMayFail :
    (mpc = "loop") ~> (Loaded(s) \/ failure[s] = 1)
=============================================================================

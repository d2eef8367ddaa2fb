--------------------------- MODULE EtlRefinement ---------------------------
(***************************************************************************)
(* EtlWorker implements EtlPhases when no system has a preprocessor.       *)
(***************************************************************************)
EXTENDS EtlWorker

\* The main thread has handled s in the current spawning loop.
Handled(s) == IF mpc \in {"spawn", "joinlcs0"} THEN s < idx ELSE mpc \notin {"check", "loop"}

\* The main thread is past the join of s in the current phase.
PastJoin(s) == IF mpc = "join" THEN s < idx ELSE mpc \in {"sleep", "cleanup", "joinlcs", "done"}

\* The abstract state of s, read off its failure flag and its watcher.
StateOf(s) ==
  LET p == pc[w_watcher_thread[s]]
  IN IF failure[s] = 1 THEN "hold"
     ELSE IF ~Handled(s) THEN "waiting"
     ELSE IF PastJoin(s) \/ p \in {"unlock", "disconnect", "exited"} THEN "ended"
     ELSE IF p \in BodyPcs THEN "running"
     ELSE "waiting"

Abs == INSTANCE EtlPhases WITH
         phase <- step,
         st <- [s \in Systems |-> StateOf(s)],
         stalled <- watcher_mutex = Lost

\* Seen through StateOf, the engine with its threads, its mutex and its
\* unjoined watchers takes only steps of the phased promise.
ImplementsPhases == Abs!Spec
=============================================================================

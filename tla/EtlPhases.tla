----------------------------- MODULE EtlPhases -----------------------------
(***************************************************************************)
(* What the ETL engine promises, without threads, mutexes or connections:  *)
(* all systems go through Extract, Transform and Load in lockstep.  In a   *)
(* phase each system that is not on hold is processed once, one system at  *)
(* a time; a system whose processing fails is on hold for good; the next   *)
(* phase begins when nothing is waiting or running.                        *)
(*                                                                         *)
(* The promise is what the code keeps, not what one would wish: a watcher  *)
(* may give up before processing its system, and from then on the engine   *)
(* is stalled and no system is processed any more.                         *)
(***************************************************************************)
CONSTANT Systems

VARIABLES
  phase,    \* "extract", "transform" or "load"
  st,       \* per system: "waiting", "running", "ended" or "hold"
  stalled   \* a watcher gave up while holding the engine

avars == <<phase, st, stalled>>

Following(k) == CASE k = "extract" -> "transform"
                  [] k = "transform" -> "load"
                  [] OTHER -> "extract"

Init == /\ phase = "extract"
        /\ st = [s \in Systems |-> "waiting"]
        /\ stalled = FALSE

Begin(s) == /\ ~stalled
            /\ st[s] = "waiting"
            /\ \A u \in Systems : st[u] # "running"
            /\ st' = [st EXCEPT ![s] = "running"]
            /\ UNCHANGED <<phase, stalled>>

End(s) == /\ st[s] = "running"
          /\ st' = [st EXCEPT ![s] = "ended"]
          /\ UNCHANGED <<phase, stalled>>

Fail(s) == /\ st[s] = "running"
           /\ st' = [st EXCEPT ![s] = "hold"]
           /\ UNCHANGED <<phase, stalled>>

GiveUp(s) == /\ ~stalled
             /\ st[s] = "waiting"
             /\ st' = [st EXCEPT ![s] = "ended"]
             /\ stalled' = TRUE
             /\ UNCHANGED phase

NextPhase == /\ \A s \in Systems : st[s] \in {"ended", "hold"}
             /\ phase' = Following(phase)
             /\ st' = [s \in Systems |-> IF st[s] = "hold" THEN "hold" ELSE "waiting"]
             /\ UNCHANGED stalled

Next == \/ \E s \in Systems : Begin(s) \/ End(s) \/ Fail(s) \/ GiveUp(s)
        \/ NextPhase

Spec == Init /\ [][Next]_avars
=============================================================================

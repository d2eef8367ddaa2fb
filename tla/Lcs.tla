-------------------------------- MODULE Lcs --------------------------------
(***************************************************************************)
(* DCPAM LCS (DCPAM_LCS/, core/component.c) and the components it watches. *)
(*                                                                         *)
(* At start-up the main thread registers the required components one by    *)
(* one and pings each of them; then it creates the ping worker and serves  *)
(* reports.  A component reports what it does and waits for the answer;    *)
(* LCS pings a component and waits for the answer.  Nobody has a timeout.  *)
(* DCPAM ETL answers pings in a thread of its own; DCPAM RDP and DCPAM WDS *)
(* have one thread that serves, and reports while it serves.               *)
(*                                                                         *)
(* An action is the number of the report that brought it, 0 for the        *)
(* registration.  A client connects and sends in one step, and the server  *)
(* takes such clients in turn; what happens to a client that is overtaken  *)
(* between the two is the subject of SocketServer.                         *)
(***************************************************************************)
EXTENDS Integers, Sequences

CONSTANTS
  COMPONENTS_len,
  Threaded,      \* the components that answer pings in a thread of their own
  CreateMayFail, \* whether pthread_create may fail
  MaxReports,    \* bound on the reports of a component
  MaxCrashes     \* bound on the crashes of components

Components == 1 .. COMPONENTS_len

ASSUME LcsAssumption ==
  /\ COMPONENTS_len \in Nat /\ Threaded \subseteq Components
  /\ CreateMayFail \in BOOLEAN /\ MaxReports \in Nat /\ MaxCrashes \in Nat

VARIABLES
  known,   \* components whose name, version and ip are as configured at LCS
  allows,  \* components whose server lets the host of LCS in
  mpc,     \* the main thread: "register", "start", "listen" or "ended"
  i, cpc,  \* the component that is checked, and how far its ping is
  active, actions, \* COMPONENTS[]
  inbox,   \* reports that LCS has not served
  alive, thread,   \* of each component: its process, and its thread
  sent,    \* of each component: the number of its last report
  acked,   \* of each component: whether LCS answered "1" to that
  crashes

config == <<known, allows>>
lcs == <<mpc, i, cpc, active, actions>>
vars == <<known, allows, mpc, i, cpc, active, actions, inbox, alive, thread,
          sent, acked, crashes>>

Init ==
  /\ known \in SUBSET Components /\ allows \in SUBSET Components
  /\ mpc = "register" /\ i = 1 /\ cpc = "next"
  /\ active = [c \in Components |-> 0] /\ actions = [c \in Components |-> <<>>]
  /\ inbox = <<>>
  /\ alive \in [Components -> BOOLEAN]
  /\ thread = [c \in Components |-> "idle"]
  /\ sent = [c \in Components |-> 0] /\ acked = [c \in Components |-> FALSE]
  /\ crashes = 0
-----------------------------------------------------------------------------
(***************************************************************************)
(* LCS_COMPONENT_check, by the main thread in LCS_COMPONENT_register and   *)
(* later by the worker: connect, send the ping, wait for the pong.         *)
(***************************************************************************)
Connected == cpc' = IF alive[i] THEN "waiting" ELSE "lost"

\* The entry is filled before the component is asked.
LCS_COMPONENT_register ==
  /\ mpc = "register" /\ i <= COMPONENTS_len /\ cpc = "next"
  /\ active' = [active EXCEPT ![i] = 1]
  /\ actions' = [actions EXCEPT ![i] = <<0>>]
  /\ Connected
  /\ UNCHANGED <<config, mpc, i, inbox, alive, thread, sent, acked, crashes>>

\* A registration that failed is logged, and the loop goes on.
Registered ==
  /\ mpc = "register" /\ cpc \in {"answered", "lost"}
  /\ i' = i + 1 /\ cpc' = "next"
  /\ UNCHANGED <<config, mpc, active, actions, inbox, alive, thread, sent, acked, crashes>>

\* pthread_create of the worker.
CreateWorker ==
  /\ mpc = "register" /\ i = COMPONENTS_len + 1
  /\ \/ mpc' = "start"
     \/ CreateMayFail /\ mpc' = "ended"
  /\ i' = 1
  /\ UNCHANGED <<config, cpc, active, actions, inbox, alive, thread, sent, acked, crashes>>

\* SOCKET_main: listen.
Listen ==
  /\ mpc = "start"
  /\ mpc' = "listen"
  /\ UNCHANGED <<config, i, cpc, active, actions, inbox, alive, thread, sent, acked, crashes>>

WorkerRuns == mpc \in {"start", "listen"}

Check ==
  /\ WorkerRuns /\ i <= COMPONENTS_len /\ cpc = "next"
  /\ Connected
  /\ UNCHANGED <<config, mpc, i, active, actions, inbox, alive, thread, sent, acked, crashes>>

\* Seeded defect: a component once found missing stays missing.
CheckedMissing ==
  /\ WorkerRuns /\ cpc \in {"answered", "lost"}
  /\ active' = [active EXCEPT ![i] = IF cpc = "answered" THEN @ ELSE 0]
  /\ i' = i + 1 /\ cpc' = "next"
  /\ UNCHANGED <<config, mpc, actions, inbox, alive, thread, sent, acked, crashes>>

Checked ==
  /\ WorkerRuns /\ cpc \in {"answered", "lost"}
  /\ active' = [active EXCEPT ![i] = IF cpc = "answered" THEN 1 ELSE 0]
  /\ i' = i + 1 /\ cpc' = "next"
  /\ UNCHANGED <<config, mpc, actions, inbox, alive, thread, sent, acked, crashes>>

\* Sleep, and the next round.
Sleep ==
  /\ WorkerRuns /\ i = COMPONENTS_len + 1
  /\ i' = 1
  /\ UNCHANGED <<config, mpc, cpc, active, actions, inbox, alive, thread, sent, acked, crashes>>
-----------------------------------------------------------------------------
(***************************************************************************)
(* DCPAM_LCS_listener for a report.                                        *)
(***************************************************************************)

\* COMPONENT_get and LCS_COMPONENT_ACTION_register.
LCS_COMPONENT_ACTION_register(c, n) ==
  actions' = IF c \in known THEN [actions EXCEPT ![c] = Append(@, n)] ELSE actions

\* The reporter, if it still waits for the answer to report n, goes on.
Answered(c, n) ==
  IF thread[c] = "reporting" /\ sent[c] = n
  THEN /\ thread' = [thread EXCEPT ![c] = "working"]
       /\ acked' = [acked EXCEPT ![c] = c \in known]
  ELSE UNCHANGED <<thread, acked>>

\* Seeded defect: the report that came last is served first.
ListenerNewest ==
  /\ mpc = "listen" /\ inbox # <<>>
  /\ LET report == inbox[Len(inbox)]
     IN /\ LCS_COMPONENT_ACTION_register(report[1], report[2])
        /\ Answered(report[1], report[2])
  /\ inbox' = SubSeq(inbox, 1, Len(inbox) - 1)
  /\ UNCHANGED <<config, mpc, i, cpc, active, alive, sent, crashes>>

\* Seeded defect: a report of an unknown component gets no answer.
ListenerSilent ==
  /\ mpc = "listen" /\ inbox # <<>>
  /\ LCS_COMPONENT_ACTION_register(Head(inbox)[1], Head(inbox)[2])
  /\ IF Head(inbox)[1] \in known THEN Answered(Head(inbox)[1], Head(inbox)[2])
     ELSE UNCHANGED <<thread, acked>>
  /\ inbox' = Tail(inbox)
  /\ UNCHANGED <<config, mpc, i, cpc, active, alive, sent, crashes>>

DCPAM_LCS_listener ==
  /\ mpc = "listen" /\ inbox # <<>>
  /\ LCS_COMPONENT_ACTION_register(Head(inbox)[1], Head(inbox)[2])
  /\ Answered(Head(inbox)[1], Head(inbox)[2])
  /\ inbox' = Tail(inbox)
  /\ UNCHANGED <<config, mpc, i, cpc, active, alive, sent, crashes>>
-----------------------------------------------------------------------------
(***************************************************************************)
(* Components.                                                             *)
(***************************************************************************)

\* Seeded defect: LCS listens before it registers its components.
LCS_REPORT_send_early(c) ==
  /\ alive[c] /\ thread[c] \in {"idle", "working"} /\ sent[c] < MaxReports
  /\ sent' = [sent EXCEPT ![c] = @ + 1]
  /\ acked' = [acked EXCEPT ![c] = FALSE]
  /\ inbox' = Append(inbox, <<c, sent[c] + 1>>)
  /\ thread' = [thread EXCEPT ![c] = "reporting"]
  /\ UNCHANGED <<config, lcs, alive, crashes>>

\* LCS_REPORT_send: of an ETL watcher, or of RDP or WDS in the middle of a
\* request.  While LCS does not listen the report is lost.
LCS_REPORT_send(c) ==
  /\ alive[c] /\ thread[c] \in {"idle", "working"} /\ sent[c] < MaxReports
  /\ sent' = [sent EXCEPT ![c] = @ + 1]
  /\ acked' = [acked EXCEPT ![c] = FALSE]
  /\ IF mpc = "listen"
     THEN /\ inbox' = Append(inbox, <<c, sent[c] + 1>>)
          /\ thread' = [thread EXCEPT ![c] = "reporting"]
     ELSE /\ UNCHANGED inbox
          /\ thread' = [thread EXCEPT ![c] = "working"]
  /\ UNCHANGED <<config, lcs, alive, crashes>>

\* The request, or the work of the watcher, is done.
Finish(c) ==
  /\ thread[c] = "working"
  /\ thread' = [thread EXCEPT ![c] = "idle"]
  /\ UNCHANGED <<config, lcs, inbox, alive, sent, acked, crashes>>

\* The component's server takes the connection: a host that is not allowed
\* is hung up on, a ping answered.
Pong(c) ==
  /\ cpc = "waiting" /\ i = c
  /\ alive[c] /\ (c \in Threaded \/ thread[c] = "idle")
  /\ cpc' = IF c \in allows THEN "answered" ELSE "lost"
  /\ UNCHANGED <<config, mpc, i, active, actions, inbox, alive, thread, sent, acked, crashes>>

\* What it has sent is still served.
Crash(c) ==
  /\ alive[c] /\ crashes < MaxCrashes
  /\ crashes' = crashes + 1
  /\ alive' = [alive EXCEPT ![c] = FALSE]
  /\ thread' = [thread EXCEPT ![c] = "idle"]
  /\ acked' = [acked EXCEPT ![c] = FALSE]
  /\ cpc' = IF cpc = "waiting" /\ i = c THEN "lost" ELSE cpc
  /\ UNCHANGED <<config, mpc, i, active, actions, inbox, sent>>

Restart(c) ==
  /\ ~alive[c]
  /\ alive' = [alive EXCEPT ![c] = TRUE]
  /\ UNCHANGED <<config, lcs, inbox, thread, sent, acked, crashes>>
-----------------------------------------------------------------------------
Main == LCS_COMPONENT_register \/ Registered \/ CreateWorker \/ Listen

Worker == Check \/ Checked \/ Sleep

Next ==
  \/ Main \/ Worker \/ DCPAM_LCS_listener
  \/ \E c \in Components :
       LCS_REPORT_send(c) \/ Finish(c) \/ Pong(c) \/ Crash(c) \/ Restart(c)

Spec == Init /\ [][Next]_vars

\* The threads of LCS are scheduled, what a component works on ends, and its
\* server comes to every connection, in the order of their arrival.
FairSpec ==
  /\ Spec
  /\ WF_vars(Main) /\ WF_vars(Worker) /\ WF_vars(DCPAM_LCS_listener)
  /\ \A c \in Components : WF_vars(Finish(c)) /\ SF_vars(Pong(c))
-----------------------------------------------------------------------------
(***************************************************************************)
(* Properties.                                                             *)
(***************************************************************************)

\* Every variable keeps its type.
TypeOK ==
  /\ known \subseteq Components /\ allows \subseteq Components
  /\ mpc \in {"register", "start", "listen", "ended"}
  /\ i \in 1 .. COMPONENTS_len + 1
  /\ cpc \in {"next", "waiting", "answered", "lost"}
  /\ active \in [Components -> {0, 1}]
  /\ actions \in [Components -> Seq(0 .. MaxReports)]
  /\ inbox \in Seq(Components \X (1 .. MaxReports))
  /\ alive \in [Components -> BOOLEAN]
  /\ thread \in [Components -> {"idle", "working", "reporting"}]
  /\ sent \in [Components -> 0 .. MaxReports]
  /\ acked \in [Components -> BOOLEAN]
  /\ crashes \in 0 .. MaxCrashes

\* The actions LCS lists for a component are its reports, each at most once
\* and in the order they were made, also when it crashed and came back while
\* an earlier report was not served yet; the last one is what the component
\* reported last, if LCS confirmed it.
ListedInOrder ==
  \A c \in Components :
    /\ \A a, b \in 1 .. Len(actions[c]) : a < b => actions[c][a] < actions[c][b]
    /\ acked[c] => actions[c] # <<>> /\ actions[c][Len(actions[c])] = sent[c]

\* LCS gets to serve reports, although it waits for each component at start,
\* whose only thread may be busy reporting.
GetsToListen == <>(mpc \in {"listen", "ended"})

\* No report waits for ever, whoever LCS waits for meanwhile.
ReportReturns ==
  \A c \in Components : thread[c] = "reporting" ~> thread[c] # "reporting"

\* A component that stays up and lets LCS in is active in the end, one that
\* stays down or does not let LCS in is not, unless LCS has ended.
ActiveFollows ==
  \A c \in Components :
    /\ <>[](alive[c] /\ c \in allows /\ mpc # "ended") => <>[](active[c] = 1)
    /\ <>[]((~alive[c] \/ c \notin allows) /\ mpc # "ended") => <>[](active[c] = 0)
=============================================================================

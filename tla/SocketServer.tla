---------------------------- MODULE SocketServer ----------------------------
(***************************************************************************)
(* The server loop every DCPAM component listens with (core/network/       *)
(* socket_io.c), its clients (NET_CONN of core/network/client.c: connect,  *)
(* send, read until the server closes, without a timeout) and another      *)
(* thread of the same process that opens and closes sockets of its own     *)
(* through NET_CONN: a watcher of DCPAM ETL that reports to LCS, the ping  *)
(* worker of DCPAM LCS.                                                    *)
(*                                                                         *)
(* The file descriptors of the process are 1 .. F; opening takes the       *)
(* lowest free one.  A request is answered by the callback of the          *)
(* component, of which only its way of closing the connection is kept:     *)
(* how often it closes the descriptor and whether it clears the client's   *)
(* entry of connected_clients.  The handlers of the four components are    *)
(*   DCPAM ETL  DCPAM_ETL_LCS_listener  closes once                        *)
(*   DCPAM RDP  DCPAM_script_exec       closes once, keeps the entry       *)
(*   DCPAM WDS  DCPAM_WDS_query         closes once                        *)
(*   DCPAM LCS  DCPAM_LCS_listener      closes twice or six times.         *)
(* The program is a constant of a behaviour, chosen from Programs.         *)
(***************************************************************************)
EXTENDS Integers, Sequences, FiniteSets

CONSTANTS
  Clients,
  Refused,       \* clients whose host is not in allowed_hosts
  F,             \* number of descriptors of the process
  Server,        \* socket_server
  MAX_CLIENTS,   \* length of connected_clients
  Programs,      \* the components that run the server: for each of them
                 \*   closes, how often its callback may close a connection
                 \*   unregister, whether that clears the client's entry
                 \*   thread, whether another thread uses NET_CONN
                 \*   leave, whether a client may close before it is answered
  Racy,          \* whether the thread's FD_CLR may overwrite an update of master
  Serial         \* whether clients come one after the other

Fds == 1 .. F
Slots == 1 .. MAX_CLIENTS

ASSUME ServerAssumption ==
  /\ F \in Nat /\ Server \in Fds /\ MAX_CLIENTS \in Nat
  /\ Refused \subseteq Clients /\ IsFiniteSet(Clients)
  /\ F >= Cardinality(Clients) + 2
  /\ Programs \subseteq [closes : SUBSET (Nat \ {0}), unregister : BOOLEAN,
                         thread : BOOLEAN, leave : BOOLEAN]
  /\ {Racy, Serial} \subseteq BOOLEAN
  /\ {"free", "listener", "thread"} \cap Clients = {}

VARIABLES
  program,   \* the component that runs the server
  peer,      \* what each client is doing
  queue,     \* connections that wait for accept
  owner,     \* what each descriptor is open for
  master,    \* the descriptors select watches
  ready,     \* the rest of read_fds: what the scan has not come to
  newfd,     \* the descriptor accepted last
  table,     \* connected_clients[].socket_descriptor, 0 for a free entry
  pc,        \* the server thread: "select", "scan", "callback" or "exited"
  closes,    \* what the callback still has to close
  tfd, tpc,  \* the other thread: its descriptor, and where it is
  tmaster    \* what it has read of master in the middle of an FD_CLR

server == <<queue, owner, master, ready, newfd, table, pc, closes>>
\* What neither the clients nor the server loop change.
rest == <<program, tfd, tpc, tmaster>>
vars == <<program, peer, queue, owner, master, ready, newfd, table, pc, closes,
          tfd, tpc, tmaster>>

Init ==
  /\ program \in Programs
  /\ peer = [c \in Clients |-> "away"]
  /\ queue = <<>>
  /\ owner = [f \in Fds |-> IF f = Server THEN "listener" ELSE "free"]
  /\ master = {Server} /\ ready = {} /\ newfd = 0
  /\ table = [s \in Slots |-> 0]
  /\ pc = "select" /\ closes = 0
  /\ tfd = 0 /\ tpc = "idle" /\ tmaster = {}

Lowest(S) == CHOOSE f \in S : \A g \in S : f <= g
Highest(S) == CHOOSE f \in S : \A g \in S : f >= g
FreeFds == {f \in Fds : owner[f] = "free"}

\* c has a connection: a pending one, or one the server has accepted.
Connected(c) ==
  (\E n \in 1 .. Len(queue) : queue[n] = c) \/ (\E f \in Fds : owner[f] = c)
-----------------------------------------------------------------------------
(***************************************************************************)
(* Clients: NET_CONN_connect, then NET_CONN_send.                          *)
(***************************************************************************)
Connect(c) ==
  /\ ~Connected(c) /\ peer[c] \notin {"connecting", "waiting"}
  /\ Serial => \A d \in Clients : ~Connected(d)
  /\ peer' = [peer EXCEPT ![c] = "connecting"]
  /\ queue' = Append(queue, c)
  /\ UNCHANGED <<owner, master, ready, newfd, table, pc, closes, rest>>

Send(c) ==
  /\ peer[c] = "connecting"
  /\ peer' = [peer EXCEPT ![c] = "waiting"]
  /\ UNCHANGED <<server, rest>>

Leave(c) ==
  /\ program.leave /\ peer[c] \in {"connecting", "waiting"} /\ Connected(c)
  /\ peer' = [peer EXCEPT ![c] = "left"]
  /\ UNCHANGED <<server, rest>>
-----------------------------------------------------------------------------
(***************************************************************************)
(* socket_io.c.                                                            *)
(***************************************************************************)

\* SOCKET_close as the other side sees it: what a client that is still
\* connected through f becomes.
Hangup(f, outcome) ==
  [c \in Clients |-> IF owner[f] = c /\ peer[c] \in {"connecting", "waiting"}
                     THEN outcome ELSE peer[c]]

\* close(f); a descriptor that is not open is left alone, with an error.
Closed(f) == [g \in Fds |-> IF g = f /\ g # Server THEN "free" ELSE owner[g]]

\* SOCKET_unregister_client: the first entry with that descriptor.
Unregistered(f) ==
  LET found == {s \in Slots : table[s] = f}
  IN IF found = {} THEN table ELSE [table EXCEPT ![Lowest(found)] = 0]

\* SOCKET_register_client: the first free entry, none when there is none.
Registered(f) ==
  LET free == {s \in Slots : table[s] = 0}
  IN IF free = {} THEN table ELSE [table EXCEPT ![Lowest(free)] = f]

Readable(f) ==
  \/ owner[f] = "listener" /\ queue # <<>>
  \/ owner[f] = "thread"
  \/ owner[f] \in Clients /\ peer[owner[f]] \in {"waiting", "left"}

\* select; a timeout changes nothing.  It fails for a descriptor that is not
\* open, and the process exits.
Select ==
  /\ pc = "select"
  /\ LET broken == \E f \in master : owner[f] = "free"
         found == {f \in master : Readable(f)}
     IN /\ broken \/ found # {}
        /\ ready' = IF broken THEN {} ELSE found
        /\ pc' = IF broken THEN "exited" ELSE "scan"
  /\ UNCHANGED <<peer, queue, owner, master, newfd, table, closes, rest>>

\* The scan goes down from fdmax.
Turn(f) == pc = "scan" /\ ready # {} /\ f = Highest(ready)

ScanEnd ==
  /\ pc = "scan" /\ ready = {}
  /\ pc' = "select"
  /\ UNCHANGED <<peer, queue, owner, master, ready, newfd, table, closes, rest>>

\* Seeded defect: the client is not entered in connected_clients.
AcceptUnregistered ==
  /\ Turn(Server)
  /\ queue' = Tail(queue)
  /\ newfd' = Lowest(FreeFds)
  /\ owner' = [owner EXCEPT ![newfd'] = Head(queue)]
  /\ master' = master \cup {newfd'}
  /\ ready' = ready \ {Server}
  /\ UNCHANGED <<peer, table, pc, closes, rest>>

\* accept; a host that is not allowed is closed at once, and newfd keeps its
\* descriptor.
Accept ==
  /\ Turn(Server)
  /\ queue' = Tail(queue)
  /\ newfd' = Lowest(FreeFds)
  /\ IF Head(queue) \in Refused
     THEN /\ table' = Unregistered(newfd')
          /\ peer' = [peer EXCEPT ![Head(queue)] = IF @ = "left" THEN @ ELSE "dropped"]
          /\ master' = master \ {newfd'}
          /\ UNCHANGED owner
     ELSE /\ table' = Registered(newfd')
          /\ owner' = [owner EXCEPT ![newfd'] = Head(queue)]
          /\ master' = master \cup {newfd'}
          /\ UNCHANGED peer
  /\ ready' = ready \ {Server}
  /\ UNCHANGED <<pc, closes, rest>>

\* SOCKET_process is called with newfd, whichever descriptor is ready.  What
\* its recv returns: "error" for a descriptor that is not open, and after
\* 20 ms for a client that has not sent; anything for another's socket.
Received ==
  LET from == owner[newfd] IN
  {r \in {"error", "eof", "data"} :
     \/ from = "thread"
     \/ from = "free" /\ r = "error"
     \/ from \in Clients /\ r = "data" /\ peer[from] = "waiting"
     \/ from \in Clients /\ r = "eof" /\ peer[from] = "left"
     \/ from \in Clients /\ r = "error" /\ peer[from] \notin {"waiting", "left"}}

\* Nothing received: the connection is closed, after an end of file twice.
ProcessFails(f) ==
  /\ Turn(f) /\ f # Server
  /\ \E r \in Received \cap {"error", "eof"} :
       /\ closes' = IF r = "eof" THEN 1 ELSE 0
       /\ pc' = IF r = "eof" THEN "callback" ELSE "scan"
  /\ table' = Unregistered(newfd)
  /\ master' = master \ {newfd}
  /\ owner' = Closed(newfd)
  /\ peer' = Hangup(newfd, "dropped")
  /\ ready' = ready \ {f}
  /\ UNCHANGED <<queue, newfd, rest>>

\* Seeded defect: the request is peeked at and left where it is.
ProcessDataPeeked(f) ==
  /\ Turn(f) /\ f # Server
  /\ "data" \in Received
  /\ ready' = ready \ {f}
  /\ UNCHANGED <<peer, queue, owner, master, newfd, table, pc, closes, rest>>

\* The callback sends the answer; the client has it when the connection is
\* closed.
ProcessData(f) ==
  /\ Turn(f) /\ f # Server
  /\ "data" \in Received
  /\ \E n \in program.closes : closes' = n
  /\ pc' = "callback"
  /\ table' = IF program.unregister THEN Unregistered(newfd) ELSE table
  /\ ready' = ready \ {f}
  /\ UNCHANGED <<peer, queue, owner, master, newfd, rest>>

\* Seeded defect: one close is followed by another one.
CallbackClosesAgain ==
  /\ pc = "callback" /\ closes > 0
  /\ closes' = IF closes = 1 /\ owner[newfd] \in Clients THEN 1 ELSE closes - 1
  /\ master' = master \ {newfd}
  /\ owner' = Closed(newfd)
  /\ peer' = Hangup(newfd, "answered")
  /\ UNCHANGED <<queue, ready, newfd, table, pc, rest>>

\* SOCKET_close in the callback, and SOCKET_disconnect_client.
CallbackCloses ==
  /\ pc = "callback" /\ closes > 0
  /\ closes' = closes - 1
  /\ master' = master \ {newfd}
  /\ owner' = Closed(newfd)
  /\ peer' = Hangup(newfd, "answered")
  /\ UNCHANGED <<queue, ready, newfd, table, pc, rest>>

CallbackReturns ==
  /\ pc = "callback" /\ closes = 0
  /\ pc' = "scan"
  /\ UNCHANGED <<peer, queue, owner, master, ready, newfd, table, closes, rest>>
-----------------------------------------------------------------------------
(***************************************************************************)
(* The other thread: NET_CONN_init, and NET_CONN_disconnect, which uses    *)
(* the table and the descriptor set of the server.                         *)
(***************************************************************************)
ThreadOpens ==
  /\ program.thread /\ tpc = "idle"
  /\ tfd' = Lowest(FreeFds)
  /\ owner' = [owner EXCEPT ![tfd'] = "thread"]
  /\ tpc' = "open"
  /\ UNCHANGED <<program, peer, queue, master, ready, newfd, table, pc, closes, tmaster>>

\* SOCKET_unregister_client, and the first half of FD_CLR.
ThreadUnregisters ==
  /\ tpc = "open"
  /\ table' = Unregistered(tfd)
  /\ tmaster' = master
  /\ tpc' = "closing"
  /\ UNCHANGED <<program, peer, queue, owner, master, ready, newfd, pc, closes, tfd>>

\* The rest of SOCKET_close.  FD_CLR changes one bit of a word it has read;
\* nothing orders this with the FD_SET and FD_CLR of the server thread.
ThreadCloses ==
  /\ tpc = "closing"
  /\ master' = (IF Racy THEN tmaster ELSE master) \ {tfd}
  /\ owner' = Closed(tfd)
  /\ peer' = Hangup(tfd, "dropped")
  /\ tfd' = 0 /\ tpc' = "idle" /\ tmaster' = {}
  /\ UNCHANGED <<program, queue, ready, newfd, table, pc, closes>>
-----------------------------------------------------------------------------
ServerStep ==
  \/ Select \/ ScanEnd \/ Accept \/ CallbackCloses \/ CallbackReturns
  \/ \E f \in Fds : ProcessFails(f) \/ ProcessData(f)

ThreadStep == ThreadOpens \/ ThreadUnregisters \/ ThreadCloses

Next ==
  \/ \E c \in Clients : Connect(c) \/ Send(c) \/ Leave(c)
  \/ ServerStep
  \/ ThreadStep

Spec == Init /\ [][Next]_vars

\* The server thread is scheduled, and a client that has connected sends:
\* nothing in NET_CONN comes between the two.
FairSpec ==
  /\ Spec
  /\ WF_vars(ServerStep)
  /\ \A c \in Clients : WF_vars(Send(c))
-----------------------------------------------------------------------------
(***************************************************************************)
(* Properties.                                                             *)
(***************************************************************************)

\* Every variable keeps its type.
TypeOK ==
  /\ program \in Programs
  /\ peer \in [Clients -> {"away", "connecting", "waiting", "answered", "dropped", "left"}]
  /\ queue \in Seq(Clients)
  /\ owner \in [Fds -> {"free", "listener", "thread"} \cup Clients]
  /\ master \subseteq Fds /\ ready \subseteq Fds /\ tmaster \subseteq Fds
  /\ newfd \in 0 .. F /\ tfd \in 0 .. F
  /\ table \in [Slots -> 0 .. F]
  /\ pc \in {"select", "scan", "callback", "exited"}
  /\ tpc \in {"idle", "open", "closing"}
  /\ closes \in Nat

\* SOCKET_find_client, which returns garbage when it finds nothing, finds
\* the entry of the client whose request is processed.
FindsClient ==
  pc = "scan" /\ ready # {} /\ Highest(ready) # Server /\ "data" \in Received
    => \E s \in Slots : table[s] = newfd

\* No descriptor that another thread of the process has opened is closed or
\* handed out again by the server loop.
ThreadUndisturbed == tpc # "idle" => owner[tfd] = "thread"

\* A client of an allowed host that sends a request gets an answer.
Served ==
  \A c \in Clients \ Refused :
    peer[c] = "waiting" ~> peer[c] \in {"answered", "left"}
=============================================================================

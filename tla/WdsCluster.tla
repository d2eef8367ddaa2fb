----------------------------- MODULE WdsCluster -----------------------------
(***************************************************************************)
(* DCPAM WDS nodes that ask each other for the tables they do not have     *)
(* (DCPAM_WDS/dcpam-wds.c), over the client side of core/network/client.c. *)
(*                                                                         *)
(* A node has one thread, which reads one request at a time.  A request    *)
(* for a table of another node is forwarded, and the thread waits for the  *)
(* answer, without a time limit, with the request it works for still open. *)
(* A node may crash at any moment and be started again; its peers see that *)
(* the connection is closed.                                               *)
(*                                                                         *)
(* The cache of a node is the subject of WdsCache: here a node has the     *)
(* data of its own tables or fails to get it.  What becomes of two         *)
(* connections that wait to be read at the same time is the subject of     *)
(* SocketServer: here a connection is made when no other one waits.  The   *)
(* reports to LCS return (ReportReturns of Lcs) and are left out.          *)
(***************************************************************************)
EXTENDS Integers, FiniteSets, Sequences

CONSTANTS
  Nodes, Tables, Clients,
  Nobody,           \* no node, no caller, no connection
  Routings,         \* configurations: for each node and table the node itself
                    \* (DATA lists it), the first WDS_node that lists it, or Nobody
  Kinds,            \* requests that clients make, of AllKinds
  LEN,              \* size of the receive buffer's steps, 8192 in the code
  BodyLen,          \* length of an answer as its node makes it
  MaxAsks,          \* bound on the requests of each client
  MaxFaults         \* bound on crashes, short sends and database failures

\* Queries for a table: SQL that can stand between quotes in JSON as it is, SQL
\* with a quote or a backslash in it, and what a node reads in place of such SQL.
Queries == {"sql", "marked", "other"}
\* Also queries for a database of the node itself; pings and reports on memory;
\* requests without valid JSON, key or SQL, or with SQL that writes.
AllKinds == Queries \cup {"db", "status", "bad"}

ASSUME ClusterAssumption ==
  /\ Routings \subseteq [Nodes -> [Tables -> Nodes \cup {Nobody}]]
  /\ IsFiniteSet(Nodes) /\ Nobody \notin Nodes \cup Clients /\ Nodes \cap Clients = {}
  /\ Kinds \subseteq AllKinds \ {"other"}
  /\ LEN \in Nat \ {0} /\ BodyLen \in Nat \ {0}
  /\ MaxAsks \in Nat /\ MaxFaults \in Nat

VARIABLES
  route,     \* the configuration
  up,        \* the nodes that run
  conn,      \* per node: the connection that waits to be read
  job,       \* per node: the request it works for, and how far it is
  call,      \* per client: its open request
  answer,    \* per client: the answer to its last request
  asks,      \* per client: number of requests so far
  faults     \* number of faults so far

vars == <<route, up, conn, job, call, answer, asks, faults>>

Waiting(c) == call[c] # <<>> /\ answer[c] = <<>>

Init ==
  /\ route \in Routings
  /\ up = Nodes
  /\ conn = [n \in Nodes |-> <<>>] /\ job = [n \in Nodes |-> <<>>]
  /\ call = [c \in Clients |-> <<>>] /\ answer = [c \in Clients |-> <<>>]
  /\ asks = [c \in Clients |-> 0]
  /\ faults = 0

\* An answer to request r: whether it is a success, with data of which table,
\* for which SQL, from which node; its length; whether its bytes are all there
\* and in order; and whether it was cut short or came in segments that did not
\* fill the buffer.
Answer(ok, r, n) ==
  [ok |-> ok, table |-> r.table, kind |-> r.kind, from |-> n,
   len |-> BodyLen, whole |-> TRUE, uneven |-> FALSE]
Shortened(a, l) ==
  [a EXCEPT !.len = l, !.whole = @ /\ l = a.len, !.uneven = @ \/ l # a.len]
-----------------------------------------------------------------------------
(***************************************************************************)
(* The receive loop of NET_CONN_send.  The bytes of an answer arrive in    *)
(* segments of any size up to LEN, the space offered to recv.              *)
(***************************************************************************)

\* Seeded defect: the buffer grows only when it overflows.
GrownLate(bytes, size) == IF size = 0 \/ bytes > size THEN size + LEN ELSE size
\* Seeded defect: the buffer grows when the step offered to recv was filled.
GrownByStep(bytes, size) == IF bytes % LEN = 0 THEN size + LEN ELSE size
Grown(bytes, size) == IF bytes >= size THEN size + LEN ELSE size

\* A round of the loop: recv writes at the start of the last LEN bytes, over
\* the segment before it if that was short.  In the buffer a position has the
\* number of the byte that is there, 0 for what realloc left there.
Recv(st, seg) ==
  LET start == st.size - LEN
      bytes == st.bytes + seg
  IN [bytes  |-> bytes,
      size   |-> Grown(bytes, st.size),
      buffer |-> [p \in 1 .. Grown(bytes, st.size) |->
                    IF p \in (start + 1) .. (start + seg) THEN st.bytes + p - start
                    ELSE IF p \in DOMAIN st.buffer THEN st.buffer[p] ELSE 0]]

Unread == [bytes |-> 0, size |-> Grown(0, 0), buffer |-> <<>>]

\* What NET_CONN_send has received after each round, and when the connection
\* was closed.
Rounds(segs) ==
  LET round[i \in 0 .. Len(segs)] == IF i = 0 THEN Unread ELSE Recv(round[i - 1], segs[i])
  IN round
Response(segs) == Rounds(segs)[Len(segs)]

\* The outcomes of NET_CONN_send, for every way the network may cut answers into
\* segments, of a length up to what they can grow to: how much was received,
\* the size of the buffer, whether the bytes are in order, and whether all
\* segments but the last were full.
Deliveries ==
  {LET r == Response(segs) IN
     [bytes |-> r.bytes, size |-> r.size,
      ordered |-> \A p \in 1 .. r.bytes : p <= r.size /\ r.buffer[p] = p,
      even |-> \A i \in 1 .. (Len(segs) - 1) : segs[i] = LEN] :
   segs \in UNION {[1 .. i -> 1 .. LEN] : i \in 0 .. (BodyLen + Cardinality(Nodes))}}

Nothing == CHOOSE d \in Deliveries : d.bytes = 0
-----------------------------------------------------------------------------
\* A request; with it, for the properties, the faults there had been and the
\* nodes that ran when the client made it.
Request(b, k, t, f, u) == [caller |-> b, kind |-> k, table |-> t, faults |-> f, up |-> u]

\* A client connects to a node that runs and sends a request: external.
Ask(c) ==
  /\ asks[c] < MaxAsks /\ ~Waiting(c)
  /\ \E n \in up, k \in Kinds, t \in Tables :
       /\ conn[n] = <<>>
       /\ conn' = [conn EXCEPT ![n] = <<Request(c, k, t, faults, up)>>]
       /\ call' = [call EXCEPT ![c] =
                     <<[node |-> n, kind |-> k, table |-> t, faults |-> faults, up |-> up]>>]
  /\ answer' = [answer EXCEPT ![c] = <<>>]
  /\ asks' = [asks EXCEPT ![c] = @ + 1]
  /\ UNCHANGED <<route, up, job, faults>>

\* The thread of DCPAM_WDS_worker reads a request and calls DCPAM_WDS_query.
Take(n) ==
  /\ n \in up /\ conn[n] # <<>> /\ job[n] = <<>>
  /\ job' = [job EXCEPT ![n] = <<[req |-> conn[n][1], pc |-> "new"]>>]
  /\ conn' = [conn EXCEPT ![n] = <<>>]
  /\ UNCHANGED <<route, up, call, answer, asks, faults>>

New(n) == n \in up /\ job[n] # <<>> /\ job[n][1].pc = "new"
Req(n) == job[n][1].req

\* The job j of a node, when NET_CONN_send has returned with the outcome d of
\* receiving the answer a.
Returned(j, d, a) ==
  [i \in DOMAIN j |-> [req |-> j[i].req, pc |-> "received", got |-> d, reply |-> a]]

\* SOCKET_send, once, and SOCKET_disconnect_client: the request of node n is
\* answered with a, after f faults.  How much of it is sent is not looked at.
Reply(n, a, f) ==
  LET to == Req(n).caller IN
  \E l \in 0 .. a.len :
    /\ faults' = faults + f + IF l = a.len THEN 0 ELSE 1
    /\ faults' <= MaxFaults
    /\ \/ /\ to \in Clients
          /\ answer' = [answer EXCEPT ![to] = <<Shortened(a, l)>>]
          /\ job' = [job EXCEPT ![n] = <<>>]
       \/ /\ to \in Nodes
          /\ \E d \in {d \in Deliveries : d.bytes = l} :
               job' = [job EXCEPT ![n] = <<>>, ![to] = Returned(@, d, Shortened(a, l))]
          /\ UNCHANGED answer
       \/ /\ to = Nobody
          /\ job' = [job EXCEPT ![n] = <<>>]
          /\ UNCHANGED answer
    /\ UNCHANGED <<route, up, conn, call, asks>>

\* WDS_RESPONSE_ERROR.
ReplyError(n, f) == Reply(n, Answer(FALSE, Req(n), n), f)

Status(n) ==
  /\ New(n) /\ Req(n).kind = "status"
  /\ Reply(n, Answer(TRUE, Req(n), n), 0)

Reject(n) ==
  /\ New(n) /\ Req(n).kind = "bad"
  /\ ReplyError(n, 0)

\* Seeded defect: the node's databases are asked for every table.
OwnAnyTable(n) == New(n) /\ Req(n).kind \in Queries \cup {"db"}

\* DCPAM_WDS_get_db_data, for a table of the node or in a database it names.
Own(n) == New(n) /\ Req(n).kind \in Queries \cup {"db"} /\ route[n][Req(n).table] = n

DbData(n) ==
  /\ Own(n)
  /\ Reply(n, Answer(TRUE, Req(n), n), 0)

\* The data is not in the cache and DB_CACHE_init fails: no answer is made.
DbFails(n) ==
  /\ Own(n)
  /\ ReplyError(n, 1)

\* Seeded defect: the tables of the other nodes are not searched.
NotFoundHere(n) ==
  /\ New(n) /\ Req(n).kind \in Queries \cup {"db"} /\ route[n][Req(n).table] # n
  /\ ReplyError(n, 0)

\* No node of the configuration has the table, or the node not the database.
NotFound(n) ==
  /\ New(n)
  /\ \/ Req(n).kind \in Queries /\ route[n][Req(n).table] = Nobody
     \/ Req(n).kind = "db" /\ route[n][Req(n).table] # n
  /\ ReplyError(n, 0)

\* DCPAM_WDS_get_node_data.
Remote(n) == New(n) /\ Req(n).kind \in Queries /\ route[n][Req(n).table] \in Nodes \ {n}
Peer(n) == route[n][Req(n).table]

\* The SQL is written between the quotes of a JSON string by snprintf, with no
\* escapes: what the peer's cJSON_Parse makes of it.  A quote ends the string
\* there, a backslash takes the character after it: the text is no JSON, or the
\* SQL in it is another one.
Reread(k) == IF k = "sql" THEN {"sql"} ELSE {"bad", "other"}

Forward(n) ==
  /\ Remote(n) /\ Peer(n) \in up /\ conn[Peer(n)] = <<>>
  /\ \E k \in Reread(Req(n).kind) :
       conn' = [conn EXCEPT ![Peer(n)] =
                  <<Request(n, k, Req(n).table, Req(n).faults, Req(n).up)>>]
  /\ job' = [job EXCEPT ![n][1].pc = "waiting"]
  /\ UNCHANGED <<route, up, call, answer, asks, faults>>

\* Seeded defect: nothing is sent when the peer refuses the connection.
RefusedSilently(n) ==
  /\ Remote(n) /\ Peer(n) \notin up
  /\ job' = [job EXCEPT ![n] = <<>>]
  /\ UNCHANGED <<route, up, conn, call, answer, asks, faults>>

Refused(n) ==
  /\ Remote(n) /\ Peer(n) \notin up
  /\ ReplyError(n, 0)

Received(n) == n \in up /\ job[n] # <<>> /\ job[n][1].pc = "received"

\* NET_CONN_send returned, with the answer of the peer: it is passed on, with
\* the zero that ends the string as one more byte.
PassOn(n) ==
  /\ Received(n) /\ job[n][1].got.bytes > 0
  /\ LET d == job[n][1].got
     IN Reply(n, [job[n][1].reply EXCEPT !.len = d.bytes + 1, !.whole = @ /\ d.ordered,
                                         !.uneven = @ \/ ~d.even], 0)

\* It returned without an answer.
NoAnswer(n) ==
  /\ Received(n) /\ job[n][1].got.bytes = 0
  /\ ReplyError(n, 0)
-----------------------------------------------------------------------------
\* The callers whose connection to node n is open.
Callers(n) ==
  {conn[n][i].caller : i \in DOMAIN conn[n]} \cup {job[n][i].req.caller : i \in DOMAIN job[n]}

\* The process of a node ends; its connections are closed, which its callers
\* see at once and those it called when they answer.
Crash(n) ==
  /\ n \in up /\ faults < MaxFaults
  /\ up' = up \ {n}
  /\ faults' = faults + 1
  /\ LET lost == [kind |-> "bad", table |-> CHOOSE t \in Tables : TRUE]
         closed == Shortened(Answer(FALSE, lost, n), 0)
         left(r) == IF r.caller = n THEN [r EXCEPT !.caller = Nobody] ELSE r
         orphan(j) == [i \in DOMAIN j |-> [j[i] EXCEPT !.req = left(@)]]
     IN /\ conn' = [m \in Nodes |->
             IF m = n THEN <<>> ELSE [i \in DOMAIN conn[m] |-> left(conn[m][i])]]
        /\ job' = [m \in Nodes |->
             IF m = n THEN <<>>
             ELSE IF m \in Callers(n) THEN orphan(Returned(job[m], Nothing, closed))
             ELSE orphan(job[m])]
        /\ answer' = [c \in Clients |-> IF c \in Callers(n) THEN <<closed>> ELSE answer[c]]
  /\ UNCHANGED <<route, call, asks>>

Restart(n) ==
  /\ n \notin up
  /\ up' = up \cup {n}
  /\ UNCHANGED <<route, conn, job, call, answer, asks, faults>>
-----------------------------------------------------------------------------
Node(n) ==
  \/ Take(n) \/ Status(n) \/ Reject(n) \/ DbData(n) \/ DbFails(n) \/ NotFound(n)
  \/ Forward(n) \/ Refused(n) \/ PassOn(n) \/ NoAnswer(n)

Next ==
  \/ \E c \in Clients : Ask(c)
  \/ \E n \in Nodes : Node(n) \/ Crash(n) \/ Restart(n)

Spec == Init /\ [][Next]_vars

\* The thread of a node keeps running; nothing is assumed of the clients, and
\* a node that crashed may never be started again.
FairSpec == Spec /\ \A n \in Nodes : WF_vars(Node(n))
-----------------------------------------------------------------------------
(***************************************************************************)
(* Properties.                                                             *)
(***************************************************************************)

Requests == [caller : Nodes \cup Clients \cup {Nobody}, kind : AllKinds, table : Tables,
             faults : 0 .. MaxFaults, up : SUBSET Nodes]
Calls == [node : Nodes, kind : AllKinds \ {"other"}, table : Tables,
          faults : 0 .. MaxFaults, up : SUBSET Nodes]
Answers == [ok : BOOLEAN, table : Tables, kind : AllKinds, from : Nodes, len : Nat,
            whole : BOOLEAN, uneven : BOOLEAN]
Jobs == [req : Requests, pc : {"new", "waiting"}]
          \cup [req : Requests, pc : {"received"}, got : Deliveries, reply : Answers]
AtMostOne(S) == {s \in Seq(S) : Len(s) <= 1}

\* Every variable stays in its range.
TypeOK ==
  /\ route \in Routings /\ up \subseteq Nodes
  /\ conn \in [Nodes -> AtMostOne(Requests)]
  /\ job \in [Nodes -> AtMostOne(Jobs)]
  /\ call \in [Clients -> AtMostOne(Calls)]
  /\ answer \in [Clients -> AtMostOne(Answers)]
  /\ asks \in [Clients -> 0 .. MaxAsks]
  /\ faults \in 0 .. MaxFaults

\* The nodes on the way a query for table t takes from node n: the least set
\* that has n and the node each of its nodes forwards to.
Way(n, t) ==
  {m \in Nodes :
     \A S \in SUBSET Nodes :
       n \in S /\ (\A x \in S : route[x][t] \in S \cup {Nobody}) => m \in S}

\* The node at the end of that way that has the table, if there is one.
Owners(n, t) == {m \in Way(n, t) : route[m][t] = m}

\* No nodes forward requests in a circle, whatever the tables are.
Acyclic ==
  \A S \in SUBSET Nodes \ {{}} :
    \E n \in S : \A t \in Tables : route[n][t] \notin S \ {n}

\* The request of client c leaves the node it was made to, with SQL that snprintf
\* does not write as JSON.
Garbled(c) ==
  call[c][1].kind = "marked" /\ route[call[c][1].node][call[c][1].table] # call[c][1].node

\* Data is from the table the client asked for, from the node at the end of the
\* way through the configurations of DCPAM_WDS_get_data, and for the SQL of the
\* client unless DCPAM_WDS_get_node_data garbled it: answers are not mixed up
\* among the requests a node works for one after the other, crashes included.
RightSource ==
  \A c \in Clients :
    call[c] # <<>> /\ answer[c] # <<>> /\ call[c][1].kind \in Queries \cup {"db"} =>
      LET a == answer[c][1] IN
        a.ok => /\ a.table = call[c][1].table
                /\ a.from \in Owners(call[c][1].node, call[c][1].table)
                /\ a.kind = call[c][1].kind \/ Garbled(c)

\* The nodes on the way of client c's request ran when it was made, and nothing
\* has failed since: what went wrong before that is no excuse.
Undisturbed(c) ==
  /\ Way(call[c][1].node, call[c][1].table) \subseteq call[c][1].up
  /\ faults = call[c][1].faults

\* A client whose request was valid is told that there is no data only if the
\* configurations lead to no node that has it, a node on the way did not run or
\* something failed since the request was made, or DCPAM_WDS_get_node_data
\* garbled the SQL.
ErrorForAReason ==
  \A c \in Clients :
    call[c] # <<>> /\ answer[c] # <<>> =>
      \/ answer[c][1].ok
      \/ call[c][1].kind = "bad"
      \/ call[c][1].kind = "db" /\ route[call[c][1].node][call[c][1].table] # call[c][1].node
      \/ Owners(call[c][1].node, call[c][1].table) = {}
      \/ ~Undisturbed(c)
      \/ Garbled(c)

\* Every query for a table that has a node is answered with its data, while all
\* nodes on the way run and nothing fails: a node acts as proxy of the others.
Proxied ==
  \A c \in Clients :
    /\ call[c] # <<>> /\ answer[c] # <<>> /\ call[c][1].kind \in Queries
    /\ Owners(call[c][1].node, call[c][1].table) # {} /\ Undisturbed(c)
    => answer[c][1].ok /\ answer[c][1].kind = call[c][1].kind

\* An answer that went through any number of nodes has all its bytes, each in
\* its place, unless a connection delivered a segment other than the last that
\* did not fill the space offered to recv, or one send did not take all of it.
Intact ==
  \A c \in Clients :
    answer[c] # <<>> => answer[c][1].whole \/ answer[c][1].uneven

\* NET_CONN_send never copies more bytes out of its buffer than it allocated,
\* however the answer was cut into segments.
InBounds ==
  \A n \in Nodes :
    Received(n) => job[n][1].got.bytes <= job[n][1].got.size

\* When no nodes forward requests in a circle, every request is answered or its
\* connection closed, although every node waits for its peers without a limit.
QueryReturns == \A c \in Clients : (Waiting(c) /\ Acyclic) ~> ~Waiting(c)
=============================================================================

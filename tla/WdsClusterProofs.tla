-------------------------- MODULE WdsClusterProofs --------------------------
(***************************************************************************)
(* Proofs about WdsCluster, for every set of nodes, tables and clients,    *)
(* every routing, and every size of the receive buffer and of answers.     *)
(***************************************************************************)
EXTENDS WdsCluster, FiniteSetTheorems, WellFoundedInduction, TLAPS

(***************************************************************************)
(* Induction over the naturals, for a property given as a set: there is no *)
(* least number outside of it.                                             *)
(***************************************************************************)
LEMMA SetInduction ==
  ASSUME NEW S, 0 \in S, \A i \in Nat : i \in S => i + 1 \in S
  PROVE  Nat \subseteq S
<1> DEFINE T == Nat \ S
           Less == {ss \in Nat \X Nat : ss[1] < ss[2]}
<1> SUFFICES ASSUME T # {} PROVE FALSE
  OBVIOUS
<1>1. IsWellFoundedOn(Less, Nat)
  BY NatLessThanWellFounded DEF OpToRel
<1>2. PICK x \in T : \A y \in T : <<y, x>> \notin Less
  <2> HIDE DEF T, Less
  <2>1. T \subseteq Nat BY DEF T
  <2>2. QED BY <1>1, <2>1, WFMin
<1>3. x # 0 /\ x - 1 \in Nat /\ x \in Nat
  OBVIOUS
<1>4. <<x - 1, x>> \in Less
  BY <1>3
<1>5. x - 1 \in S BY <1>2, <1>3, <1>4
<1>6. QED BY <1>3, <1>5
-----------------------------------------------------------------------------
(***************************************************************************)
(* The receive loop of NET_CONN_send.                                      *)
(***************************************************************************)

\* f gives the rounds of the loop, up to the n-th.
AreRounds(segs, n, f) == f = [i \in 0 .. n |-> IF i = 0 THEN Unread ELSE Recv(f[i - 1], segs[i])]

\* There are such rounds, by induction over the segments ...
LEMMA RoundsExist == ASSUME NEW segs PROVE \A n \in Nat : \E f : AreRounds(segs, n, f)
<1> DEFINE S == {n \in Nat : \E f : AreRounds(segs, n, f)}
<1>1. 0 \in S
  <2>1. AreRounds(segs, 0, [i \in 0 .. 0 |-> Unread]) BY DEF AreRounds
  <2>2. QED BY <2>1
<1>2. ASSUME NEW n \in Nat, n \in S PROVE n + 1 \in S
  <2>1. PICK f : AreRounds(segs, n, f) BY <1>2
  <2> DEFINE g == [i \in 0 .. n + 1 |-> IF i = n + 1 THEN Recv(f[n], segs[n + 1]) ELSE f[i]]
  <2>2. \A i \in 0 .. n + 1 : g[i] = IF i = 0 THEN Unread ELSE Recv(g[i - 1], segs[i])
    BY <2>1 DEF AreRounds
  <2>3. AreRounds(segs, n + 1, g)
    <3>1. g = [i \in 0 .. n + 1 |-> g[i]] OBVIOUS
    <3> HIDE DEF g
    <3>2. QED BY <2>2, <3>1 DEF AreRounds
  <2>4. QED BY <2>3
<1>3. Nat \subseteq S
  <2> HIDE DEF S
  <2>1. QED BY <1>1, <1>2, SetInduction
<1>4. QED BY <1>3

\* ... so the recursive function is what its definition says.
LEMMA RoundsDef ==
  ASSUME NEW segs, Len(segs) \in Nat
  PROVE  /\ Rounds(segs)[0] = Unread
         /\ \A i \in 1 .. Len(segs) : Rounds(segs)[i] = Recv(Rounds(segs)[i - 1], segs[i])
<1>1. \E f : f = [i \in 0 .. Len(segs) |-> IF i = 0 THEN Unread ELSE Recv(f[i - 1], segs[i])]
  BY RoundsExist DEF AreRounds
<1>2. Rounds(segs) = [i \in 0 .. Len(segs) |->
                        IF i = 0 THEN Unread ELSE Recv(Rounds(segs)[i - 1], segs[i])]
  BY <1>1 DEF Rounds
<1>3. QED BY <1>2

\* After a round: the buffer has room for one more byte, and holds the bytes
\* in order, with a whole step of it free, if every segment filled its step.
RoomLeft(st) == st.bytes \in Nat /\ st.size \in Nat /\ st.bytes < st.size /\ LEN <= st.size
InOrder(st) == \A p \in 1 .. st.bytes : p \in DOMAIN st.buffer /\ st.buffer[p] = p

\* A round leaves room in the buffer.
LEMMA RecvRoom ==
  ASSUME NEW st, RoomLeft(st), NEW seg \in 1 .. LEN
  PROVE  RoomLeft(Recv(st, seg))
  BY ClusterAssumption DEF RoomLeft, Recv, Grown

\* A round keeps the bytes in order as long as the segments fill their steps.
LEMMA RecvInOrder ==
  ASSUME NEW st, RoomLeft(st), InOrder(st), st.size = st.bytes + LEN, NEW seg \in 1 .. LEN
  PROVE  /\ InOrder(Recv(st, seg))
         /\ seg = LEN => Recv(st, seg).size = Recv(st, seg).bytes + LEN
<1> DEFINE new == Recv(st, seg)
<1>1. new.bytes = st.bytes + seg /\ new.size = Grown(st.bytes + seg, st.size)
  BY DEF Recv
<1>2. \A p \in 1 .. new.size :
        new.buffer[p] = IF p \in (st.bytes + 1) .. (st.bytes + seg) THEN p
                        ELSE IF p \in DOMAIN st.buffer THEN st.buffer[p] ELSE 0
  <2>1. st.size - LEN = st.bytes /\ \A p \in Int : st.bytes + p - (st.size - LEN) = p
    BY ClusterAssumption DEF RoomLeft
  <2>2. new.buffer = [p \in 1 .. Grown(st.bytes + seg, st.size) |->
                        IF p \in (st.size - LEN + 1) .. (st.size - LEN + seg)
                        THEN st.bytes + p - (st.size - LEN)
                        ELSE IF p \in DOMAIN st.buffer THEN st.buffer[p] ELSE 0]
    BY DEF Recv
  <2>3. QED BY <1>1, <2>1, <2>2
<1>3. DOMAIN new.buffer = 1 .. new.size BY DEF Recv
<1>4. new.bytes \in Nat /\ new.size \in Nat /\ new.bytes < new.size
  BY RecvRoom DEF RoomLeft
<1> HIDE DEF new
<1>5. InOrder(new)
  <2> SUFFICES ASSUME NEW p \in 1 .. new.bytes PROVE p \in DOMAIN new.buffer /\ new.buffer[p] = p
    BY DEF InOrder
  <2>1. p \in 1 .. new.size BY <1>4
  <2>2. CASE p <= st.bytes
    <3>1. p \in 1 .. st.bytes /\ p \notin (st.bytes + 1) .. (st.bytes + seg)
      BY <2>1, <2>2 DEF RoomLeft
    <3>2. QED BY <1>2, <1>3, <2>1, <3>1 DEF InOrder
  <2>3. CASE p > st.bytes
    <3>1. p \in (st.bytes + 1) .. (st.bytes + seg)
      BY <1>1, <2>1, <2>3 DEF RoomLeft
    <3>2. QED BY <1>2, <1>3, <2>1, <3>1
  <2>4. QED BY <1>4, <2>2, <2>3 DEF RoomLeft
<1>6. seg = LEN => new.size = new.bytes + LEN
  BY <1>1, ClusterAssumption DEF Grown, RoomLeft
<1>7. QED BY <1>5, <1>6 DEF new

Segments == UNION {[1 .. i -> 1 .. LEN] : i \in 0 .. (BodyLen + Cardinality(Nodes))}

\* The segments of an answer.
LEMMA SegmentsLen ==
  ASSUME NEW segs \in Segments
  PROVE  Len(segs) \in Nat /\ \A i \in 1 .. Len(segs) : segs[i] \in 1 .. LEN
  BY DEF Segments

\* However an answer is cut into segments, the buffer is large enough for it;
\* it is in order if only the last segment was short.
LEMMA DeliveriesInBounds ==
  ASSUME NEW d \in Deliveries
  PROVE  /\ d.bytes \in Nat /\ d.size \in Nat /\ d.bytes <= d.size
         /\ d.ordered \in BOOLEAN /\ d.even \in BOOLEAN
         /\ d.even => d.ordered
<1>1. PICK segs \in Segments :
        LET r == Response(segs) IN
        d = [bytes |-> r.bytes, size |-> r.size,
             ordered |-> \A p \in 1 .. r.bytes : p <= r.size /\ r.buffer[p] = p,
             even |-> \A i \in 1 .. (Len(segs) - 1) : segs[i] = LEN]
  BY DEF Deliveries, Segments
<1>2. Len(segs) \in Nat /\ \A i \in 1 .. Len(segs) : segs[i] \in 1 .. LEN BY SegmentsLen
<1> DEFINE R == Rounds(segs)
           n == Len(segs)
           Full(m) == \A i \in 1 .. m : segs[i] = LEN
           P(i) == i <= n => /\ RoomLeft(R[i])
                             /\ Full(i - 1) => InOrder(R[i])
                             /\ Full(i) => R[i].size = R[i].bytes + LEN
           S == {i \in Nat : P(i)}
<1>3. R[0] = Unread /\ \A i \in 1 .. n : R[i] = Recv(R[i - 1], segs[i])
  BY <1>2, RoundsDef
<1>4. 0 \in S
  <2>1. RoomLeft(Unread) /\ InOrder(Unread) /\ Unread.size = Unread.bytes + LEN
    BY ClusterAssumption DEF RoomLeft, InOrder, Unread, Grown
  <2>2. QED BY <1>3, <2>1
<1>5. ASSUME NEW i \in Nat, i \in S PROVE i + 1 \in S
  <2> SUFFICES ASSUME i + 1 <= n PROVE P(i + 1)
    OBVIOUS
  <2>1. i + 1 \in 1 .. n /\ i <= n BY <1>2
  <2>2. R[i + 1] = Recv(R[i], segs[i + 1]) /\ segs[i + 1] \in 1 .. LEN BY <1>2, <1>3, <2>1
  <2>3. RoomLeft(R[i + 1]) BY <1>5, <2>1, <2>2, RecvRoom
  <2>4. ASSUME Full(i) PROVE InOrder(R[i + 1]) /\ (segs[i + 1] = LEN => R[i + 1].size = R[i + 1].bytes + LEN)
    <3>1. InOrder(R[i]) /\ RoomLeft(R[i]) /\ R[i].size = R[i].bytes + LEN
      BY <1>5, <2>1, <2>4
    <3>2. QED BY <2>2, <3>1, RecvInOrder
  <2>5. Full(i + 1) => Full(i) /\ segs[i + 1] = LEN OBVIOUS
  <2>6. QED BY <2>3, <2>4, <2>5
<1>6. n \in S
  <2> HIDE DEF S
  <2>1. QED BY <1>2, <1>4, <1>5, SetInduction
<1>7. RoomLeft(R[n]) /\ (Full(n - 1) => InOrder(R[n]))
  BY <1>6
<1>8. d.even = Full(n - 1) /\ d.bytes = R[n].bytes /\ d.size = R[n].size
  BY <1>1 DEF Response
<1>9. d.ordered = \A p \in 1 .. R[n].bytes : p <= R[n].size /\ R[n].buffer[p] = p
  BY <1>1 DEF Response
<1>10. InOrder(R[n]) => d.ordered
  BY <1>7, <1>9 DEF InOrder, RoomLeft
<1>11. QED BY <1>7, <1>8, <1>9, <1>10 DEF RoomLeft
-----------------------------------------------------------------------------
(***************************************************************************)
(* The way of a query through the configurations.                          *)
(***************************************************************************)
RouteOK == route \in [Nodes -> [Tables -> Nodes \cup {Nobody}]]

\* Way follows the routes of a table from node to node ...
LEMMA WayClosed ==
  ASSUME RouteOK, NEW t \in Tables, NEW n \in Nodes
  PROVE  /\ n \in Way(n, t)
         /\ Way(n, t) \subseteq Nodes
         /\ \A x \in Way(n, t) : route[x][t] \in Way(n, t) \cup {Nobody}
<1>1. n \in Way(n, t) /\ Way(n, t) \subseteq Nodes BY DEF Way
<1>2. ASSUME NEW x \in Way(n, t), route[x][t] # Nobody PROVE route[x][t] \in Way(n, t)
  <2>1. x \in Nodes /\ route[x][t] \in Nodes BY <1>1, <1>2 DEF RouteOK
  <2>2. ASSUME NEW S \in SUBSET Nodes, n \in S, \A y \in S : route[y][t] \in S \cup {Nobody}
        PROVE  route[x][t] \in S
    <3>1. x \in S BY <2>2 DEF Way
    <3>2. QED BY <1>2, <2>2, <3>1
  <2>3. QED BY <2>1, <2>2 DEF Way
<1>3. QED BY <1>1, <1>2

\* ... and goes nowhere else.
LEMMA WayLeast ==
  ASSUME NEW t, NEW n, NEW S \in SUBSET Nodes, n \in S,
         \A x \in S : route[x][t] \in S \cup {Nobody}
  PROVE  Way(n, t) \subseteq S
  BY DEF Way

\* A node that has the table owns it.
LEMMA OwnersSelf ==
  ASSUME RouteOK, NEW t \in Tables, NEW n \in Nodes, route[n][t] = n
  PROVE  n \in Owners(n, t)
  BY WayClosed DEF Owners

\* A node that knows nobody for the table finds no owner.
LEMMA OwnersNone ==
  ASSUME RouteOK, NEW t \in Tables, NEW n \in Nodes, route[n][t] = Nobody
  PROVE  Owners(n, t) = {}
<1> DEFINE S == {n}
<1>1. S \in SUBSET Nodes /\ n \in S /\ \A x \in S : route[x][t] \in S \cup {Nobody}
  OBVIOUS
<1>2. Way(n, t) \subseteq S
  <2> HIDE DEF S
  <2>1. QED BY <1>1, WayLeast
<1>3. QED BY <1>2, ClusterAssumption DEF Owners

\* A node that forwards has the owners of the peer it forwards to.
LEMMA OwnersVia ==
  ASSUME RouteOK, NEW t \in Tables, NEW n \in Nodes, NEW m \in Nodes, route[n][t] = m, m # n
  PROVE  Owners(n, t) = Owners(m, t) /\ Way(m, t) \subseteq Way(n, t)
<1>1. Way(m, t) \subseteq Way(n, t)
  <2>1. Way(n, t) \in SUBSET Nodes /\ m \in Way(n, t) BY WayClosed, ClusterAssumption
  <2>2. QED BY <2>1, WayClosed, WayLeast
<1>2. Way(n, t) \subseteq {n} \cup Way(m, t)
  <2> DEFINE S == {n} \cup Way(m, t)
  <2>1. S \in SUBSET Nodes BY WayClosed
  <2>2. \A x \in S : route[x][t] \in S \cup {Nobody} BY WayClosed
  <2>3. n \in S OBVIOUS
  <2> HIDE DEF S
  <2>4. Way(n, t) \subseteq S BY <2>1, <2>2, <2>3, WayLeast
  <2>5. QED BY <2>4 DEF S
<1>3. QED BY <1>1, <1>2 DEF Owners
-----------------------------------------------------------------------------
(***************************************************************************)
(* Places for at most one request, job or answer.                          *)
(***************************************************************************)
LEMMA AtMostOneCases ==
  ASSUME NEW S, NEW x \in AtMostOne(S)
  PROVE  x = <<>> \/ (x # <<>> /\ x[1] \in S /\ x = <<x[1]>> /\ DOMAIN x = {1})
  BY DEF AtMostOne

\* Nothing waits at a node ...
LEMMA AtMostOneNone == ASSUME NEW S PROVE <<>> \in AtMostOne(S)
  BY DEF AtMostOne

\* ... or one request.
LEMMA AtMostOneSome ==
  ASSUME NEW S, NEW x \in S
  PROVE  <<x>> \in AtMostOne(S) /\ <<x>> # <<>> /\ <<x>>[1] = x
  BY DEF AtMostOne

\* The parts of a node's job.
LEMMA JobCases ==
  ASSUME NEW x \in Jobs
  PROVE  /\ x.req \in Requests
         /\ x.pc \in {"new", "waiting", "received"}
         /\ x.pc = "received" => x.got \in Deliveries /\ x.reply \in Answers
  BY DEF Jobs

\* NET_CONN_send of an answer of no bytes has an outcome.
LEMMA NothingReceived == Nothing \in Deliveries /\ Nothing.bytes = 0
<1> DEFINE d == LET r == Response(<<>>) IN
        [bytes |-> r.bytes, size |-> r.size,
         ordered |-> \A p \in 1 .. r.bytes : p <= r.size /\ r.buffer[p] = p,
         even |-> \A i \in 1 .. (Len(<<>>) - 1) : <<>>[i] = LEN]
<1>1. <<>> \in [1 .. 0 -> 1 .. LEN] OBVIOUS
<1>2. d \in Deliveries
  <2>1. 0 \in 0 .. (BodyLen + Cardinality(Nodes))
    BY ClusterAssumption, FS_CardinalityType
  <2>2. <<>> \in Segments BY <1>1, <2>1 DEF Segments
  <2>3. QED BY <2>2 DEF Deliveries, Segments
<1>3. d.bytes = 0
  <2>1. Response(<<>>) = Unread BY RoundsDef DEF Response
  <2>2. QED BY <2>1 DEF Unread
<1>4. QED BY <1>2, <1>3 DEF Nothing
-----------------------------------------------------------------------------
(***************************************************************************)
(* The inductive invariant.  Every request that a node holds, unread or as *)
(* its job, is one that its caller still waits for; what a node was told   *)
(* by its peer is as right for its own request as for the peer's, because  *)
(* both lie on the same way.                                               *)
(***************************************************************************)

\* Node n holds request r.
Holds(n, r) ==
  \/ conn[n] # <<>> /\ r = conn[n][1]
  \/ job[n] # <<>> /\ r = Req(n)

\* What a client that made request r to node n remembers of it.
Asked(n, r) == [node |-> n, kind |-> r.kind, table |-> r.table, faults |-> r.faults, up |-> r.up]

\* The caller of request r, which node n holds, waits for the answer.
Link(n, r) ==
  /\ r.caller \in Clients =>
       /\ call[r.caller] # <<>> /\ answer[r.caller] = <<>>
       /\ call[r.caller][1] = Asked(n, r)
  /\ r.caller \in Nodes =>
       /\ job[r.caller] # <<>> /\ job[r.caller][1].pc = "waiting"
       /\ Req(r.caller).table = r.table /\ r.kind \in Reread(Req(r.caller).kind)
       /\ Req(r.caller).faults = r.faults /\ Req(r.caller).up = r.up
       /\ route[r.caller][r.table] = n /\ n # r.caller

Links == \A n \in Nodes : \A r \in Requests : Holds(n, r) => Link(n, r)

\* A node does not hold two requests of one caller.
Once ==
  \A n \in Nodes : conn[n] # <<>> /\ job[n] # <<>> => conn[n][1].caller # Req(n).caller \/ Req(n).caller = Nobody

\* Only queries for tables of other nodes are forwarded.
Forwarded ==
  \A n \in Nodes : job[n] # <<>> /\ job[n][1].pc # "new" =>
    Req(n).kind \in Queries /\ route[n][Req(n).table] \in Nodes \ {n}

\* Answer a, after f faults, to request r for table t, at a node from where the
\* way leads through the nodes W to O, and that has the table itself or not.
Good(O, W, own, r, t, a, f) ==
  /\ a.ok => r.kind # "bad"
  /\ a.ok /\ r.kind \in Queries \cup {"db"} =>
       a.table = t /\ a.from \in O /\ (a.kind = r.kind \/ (r.kind \in {"marked", "other"} /\ ~own))
  /\ \/ a.ok \/ r.kind = "bad" \/ (r.kind \in {"db", "marked", "other"} /\ ~own)
     \/ O = {} \/ ~(W \subseteq r.up) \/ f > r.faults
  /\ a.whole \/ a.uneven

\* The answer that a node has from its peer is one to its own request.
Told ==
  \A n \in Nodes, t \in Tables :
    job[n] # <<>> /\ job[n][1].pc = "received" /\ Req(n).table = t =>
      /\ Good(Owners(n, t), Way(n, t), FALSE, Req(n), t, job[n][1].reply, faults)
      /\ job[n][1].got.bytes = 0 => faults > Req(n).faults

\* So is the answer of a client.
Answered ==
  \A c \in Clients : answer[c] # <<>> =>
    /\ call[c] # <<>>
    /\ \A n \in Nodes, t \in Tables : call[c][1].node = n /\ call[c][1].table = t =>
         Good(Owners(n, t), Way(n, t), route[n][t] = n, call[c][1], t, answer[c][1], faults)

\* A node that ran when request r was made is down only after a crash since.
Since(r) == r.faults <= faults /\ (r.up \subseteq up \/ r.faults < faults)
Dated == \A n \in Nodes : \A r \in Requests : Holds(n, r) => Since(r)

CInv == TypeOK /\ Links /\ Once /\ Forwarded /\ Told /\ Answered /\ Dated

\* The places of the state, one by one.
LEMMA Places ==
  ASSUME TypeOK
  PROVE  /\ RouteOK /\ faults \in Nat
         /\ \A n \in Nodes : conn[n] # <<>> =>
              conn[n][1] \in Requests /\ conn[n] = <<conn[n][1]>> /\ DOMAIN conn[n] = {1}
         /\ \A n \in Nodes : job[n] # <<>> =>
              /\ job[n][1] \in Jobs /\ job[n] = <<job[n][1]>> /\ DOMAIN job[n] = {1}
              /\ Req(n) \in Requests
         /\ \A c \in Clients : call[c] # <<>> =>
              /\ call[c][1] \in Calls
              /\ call[c] = <<call[c][1]>>
         /\ \A c \in Clients : answer[c] # <<>> =>
              answer[c][1] \in Answers /\ answer[c] = <<answer[c][1]>>
<1>1. RouteOK /\ faults \in Nat
  BY ClusterAssumption DEF TypeOK, RouteOK
<1>2. ASSUME NEW n \in Nodes, conn[n] # <<>>
      PROVE  conn[n][1] \in Requests /\ conn[n] = <<conn[n][1]>> /\ DOMAIN conn[n] = {1}
  <2>1. conn[n] \in AtMostOne(Requests) BY DEF TypeOK
  <2>2. QED BY <1>2, <2>1, AtMostOneCases
<1>3. ASSUME NEW n \in Nodes, job[n] # <<>>
      PROVE  /\ job[n][1] \in Jobs /\ job[n] = <<job[n][1]>> /\ DOMAIN job[n] = {1}
             /\ Req(n) \in Requests
  <2>1. job[n] \in AtMostOne(Jobs) BY DEF TypeOK
  <2>2. job[n][1] \in Jobs /\ job[n] = <<job[n][1]>> /\ DOMAIN job[n] = {1}
    BY <1>3, <2>1, AtMostOneCases
  <2>3. QED BY <2>2, JobCases DEF Req
<1>4. ASSUME NEW c \in Clients, call[c] # <<>>
      PROVE  /\ call[c][1] \in Calls
             /\ call[c] = <<call[c][1]>>
  <2>1. call[c] \in AtMostOne(Calls) BY DEF TypeOK
  <2>2. QED BY <1>4, <2>1, AtMostOneCases
<1>5. ASSUME NEW c \in Clients, answer[c] # <<>>
      PROVE  answer[c][1] \in Answers /\ answer[c] = <<answer[c][1]>>
  <2>1. answer[c] \in AtMostOne(Answers) BY DEF TypeOK
  <2>2. QED BY <1>5, <2>1, AtMostOneCases
<1>6. QED BY <1>1, <1>2, <1>3, <1>4, <1>5

\* The configuration does not change, and the owners of tables with it.
LEMMA OwnersKept ==
  ASSUME route' = route
  PROVE  \A n, t : Owners(n, t)' = Owners(n, t) /\ Way(n, t)' = Way(n, t)
  BY DEF Owners, Way

\* Nobody waits for an answer of node n that is not asked for it: all requests
\* of one caller are at one node.
LEMMA OneHolder ==
  ASSUME TypeOK, Links, NEW n \in Nodes, NEW m \in Nodes,
         NEW r \in Requests, NEW q \in Requests, Holds(n, r), Holds(m, q),
         r.caller = q.caller, r.caller # Nobody
  PROVE  n = m
<1>1. Link(n, r) /\ Link(m, q) BY DEF Links
<1>2. r.caller \in Clients \/ r.caller \in Nodes BY DEF Requests
<1>3. CASE r.caller \in Clients
  <2>1. Asked(n, r) = Asked(m, q) BY <1>1, <1>3 DEF Link
  <2>2. QED BY <2>1 DEF Asked
<1>4. CASE r.caller \in Nodes
  BY <1>1, <1>4 DEF Link
<1>5. QED BY <1>2, <1>3, <1>4

\* An answer stays good when it is cut short, which is a fault.
LEMMA ShortenedGood ==
  ASSUME NEW a \in Answers, NEW l \in 0 .. a.len, NEW O, NEW W, NEW own, NEW r, r.faults \in Nat, NEW t,
         NEW f \in Nat, NEW g \in Nat,
         Good(O, W, own, r, t, a, f), g = f + IF l = a.len THEN 0 ELSE 1
  PROVE  /\ Shortened(a, l) \in Answers
         /\ Good(O, W, own, r, t, Shortened(a, l), g)
<1>1. a.whole \in BOOLEAN /\ a.uneven \in BOOLEAN /\ l \in Nat BY DEF Answers
<1> DEFINE s == Shortened(a, l)
           w == a.whole /\ l = a.len
           u == a.uneven \/ l # a.len
<1>2. w \in BOOLEAN /\ u \in BOOLEAN OBVIOUS
<1>3. s = [a EXCEPT !.len = l, !.whole = w, !.uneven = u] BY DEF Shortened
<1>4. /\ s \in Answers /\ s.ok = a.ok /\ s.table = a.table /\ s.kind = a.kind /\ s.from = a.from
      /\ s.whole = w /\ s.uneven = u
  <2> HIDE DEF s, w, u
  <2>1. QED BY <1>1, <1>2, <1>3 DEF Answers
<1>5. (f > r.faults) => (g > r.faults) OBVIOUS
<1> HIDE DEF s
<1>6. Good(O, W, own, r, t, s, g)
  BY <1>1, <1>4, <1>5 DEF Good
<1>7. QED BY <1>4, <1>6 DEF s

\* It stays good when faults follow, also for a request that differs in its caller.
LEMMA GoodLater ==
  ASSUME NEW O, NEW W, NEW own, NEW r, NEW q, NEW t, NEW a, NEW f \in Nat, NEW g \in Nat,
         r.faults \in Nat, q.kind = r.kind, q.faults = r.faults, q.up = r.up,
         f <= g, Good(O, W, own, r, t, a, f)
  PROVE  Good(O, W, own, q, t, a, g)
<1>1. f > r.faults => g > q.faults OBVIOUS
<1>2. QED BY <1>1 DEF Good

\* What Reply does to the jobs and to the answers of the clients: the caller,
\* and nobody else, gets the answer s.
Replied(n, to, s, d) ==
  /\ job' \in [Nodes -> AtMostOne(Jobs)] /\ answer' \in [Clients -> AtMostOne(Answers)]
  /\ job'[n] = <<>>
  /\ \A m \in Nodes \ {n, to} : job'[m] = job[m]
  /\ \A c \in Clients \ {to} : answer'[c] = answer[c]
  /\ to \in Clients => answer'[to] = <<s>>
  /\ to \in Nodes =>
       to # n /\ job'[to] = <<[req |-> Req(to), pc |-> "received", got |-> d, reply |-> s]>>

\* What an answer does: to a client it is given, to a node it is delivered, as long as it was sent.
LEMMA ReplyEffect ==
  ASSUME TypeOK, Links, NEW n \in Nodes, job[n] # <<>>, job[n][1].pc # "waiting",
         NEW a, NEW f, Reply(n, a, f), \A l \in 0 .. a.len : Shortened(a, l) \in Answers
  PROVE  /\ \E l \in 0 .. a.len, d \in Deliveries :
              /\ faults' = faults + f + IF l = a.len THEN 0 ELSE 1
              /\ faults' <= MaxFaults
              /\ Req(n).caller \in Nodes => d.bytes = l
              /\ Replied(n, Req(n).caller, Shortened(a, l), d)
         /\ UNCHANGED <<route, up, conn, call, asks>>
<1> DEFINE to == Req(n).caller
<1>1. PICK l \in 0 .. a.len :
    /\ faults' = faults + f + IF l = a.len THEN 0 ELSE 1
    /\ faults' <= MaxFaults
    /\ \/ /\ to \in Clients
          /\ answer' = [answer EXCEPT ![to] = <<Shortened(a, l)>>]
          /\ job' = [job EXCEPT ![n] = <<>>]
       \/ /\ to \in Nodes
          /\ \E d \in {d \in Deliveries : d.bytes = l} :
               job' = [job EXCEPT ![n] = <<>>, ![to] = Returned(@, d, Shortened(a, l))]
          /\ UNCHANGED answer
       \/ /\ to = Nobody
          /\ job' = [job EXCEPT ![n] = <<>>]
          /\ UNCHANGED answer
    /\ UNCHANGED <<route, up, conn, call, asks>>
  BY DEF Reply
<1>2. Req(n) \in Requests /\ Link(n, Req(n)) BY Places DEF Links, Holds
<1>3. /\ Nodes \cap Clients = {} /\ Nobody \notin Nodes \cup Clients
      /\ job \in [Nodes -> AtMostOne(Jobs)] /\ answer \in [Clients -> AtMostOne(Answers)]
  BY ClusterAssumption DEF TypeOK
<1>4. Shortened(a, l) \in Answers OBVIOUS
<1>5. <<>> \in AtMostOne(Jobs) /\ <<Shortened(a, l)>> \in AtMostOne(Answers)
  BY <1>4, AtMostOneNone, AtMostOneSome
<1> DEFINE s == Shortened(a, l)
<1> HIDE DEF to, s
<1>6. CASE to \in Clients
  <2>1. answer' = [answer EXCEPT ![to] = <<s>>] /\ job' = [job EXCEPT ![n] = <<>>]
    BY <1>1, <1>3, <1>6 DEF s
  <2>2. Replied(n, to, s, Nothing)
    BY <1>3, <1>5, <1>6, <2>1 DEF Replied, s
  <2>3. QED BY <1>1, <1>3, <1>6, <2>2, NothingReceived DEF to, s
<1>7. CASE to \in Nodes
  <2>1. PICK d \in Deliveries : /\ d.bytes = l
                                /\ job' = [job EXCEPT ![n] = <<>>, ![to] = Returned(@, d, s)]
                                /\ answer' = answer
    BY <1>1, <1>3, <1>7 DEF s
  <2>2. to # n /\ job[to] # <<>> BY <1>2, <1>7 DEF Link, to
  <2>3. job'[to] = Returned(job[to], d, s) BY <1>3, <1>7, <2>1, <2>2
  <2>4. job[to] = <<job[to][1]>> /\ Req(to) \in Requests BY <1>7, <2>2, Places
  <2> DEFINE j == [req |-> Req(to), pc |-> "received", got |-> d, reply |-> s]
  <2>5. Returned(job[to], d, s) = <<j>>
    <3>1. DOMAIN job[to] = {1} BY <1>7, <2>2, Places
    <3>2. QED BY <3>1 DEF Returned, Req
  <2>6. j \in Jobs BY <1>4, <2>4 DEF Jobs, s
  <2>7. <<j>> \in AtMostOne(Jobs)
    <3> HIDE DEF j
    <3>1. QED BY <2>6, AtMostOneSome
  <2>8. job' \in [Nodes -> AtMostOne(Jobs)]
    <3>1. job' = [job EXCEPT ![n] = <<>>, ![to] = <<j>>] BY <2>1, <2>2, <2>3, <2>5, <1>3, <1>7
    <3> HIDE DEF j
    <3>2. QED BY <1>3, <1>5, <2>7, <3>1
  <2>9. Replied(n, to, s, d)
    <3>1. /\ job'[n] = <<>> /\ \A m \in Nodes \ {n, to} : job'[m] = job[m]
      BY <1>3, <1>7, <2>1, <2>2
    <3>2. QED BY <1>3, <1>7, <2>1, <2>2, <2>3, <2>5, <2>8, <3>1 DEF Replied
  <2>10. QED BY <1>1, <2>1, <2>9 DEF to, s
<1>8. CASE to = Nobody
  <2>1. answer' = answer /\ job' = [job EXCEPT ![n] = <<>>]
    BY <1>1, <1>3, <1>8 DEF s
  <2>2. Replied(n, to, s, Nothing)
    BY <1>3, <1>5, <1>8, <2>1 DEF Replied
  <2>3. QED BY <1>1, <1>3, <1>8, <2>2, NothingReceived DEF to, s
<1>9. to \in Clients \cup Nodes \cup {Nobody} BY <1>2 DEF Requests, to
<1>10. QED BY <1>6, <1>7, <1>8, <1>9

\* A node that answers its request with a good answer keeps the invariant.
LEMMA ReplyKeeps ==
  ASSUME CInv, NEW n \in Nodes, job[n] # <<>>, job[n][1].pc # "waiting",
         NEW a \in Answers, a.len # 0, NEW f \in {0, 1}, Reply(n, a, f),
         \A t \in Tables : Req(n).table = t =>
           Good(Owners(n, t), Way(n, t), route[n][t] = n, Req(n), t, a, faults + f)
  PROVE  CInv'
<1> DEFINE q == Req(n)
           to == q.caller
<1>1. TypeOK /\ Links /\ Once /\ Forwarded /\ Told /\ Answered /\ Dated BY DEF CInv
<1>2. faults \in Nat /\ a.len \in Nat /\ RouteOK /\ MaxFaults \in Nat
  BY <1>1, Places, ClusterAssumption DEF Answers
<1>3. q \in Requests /\ Holds(n, q) /\ Link(n, q) BY <1>1, Places DEF Links, Holds
<1>4. \A l \in 0 .. a.len : Shortened(a, l) \in Answers
  <2> SUFFICES ASSUME NEW l \in 0 .. a.len PROVE Shortened(a, l) \in Answers OBVIOUS
  <2> DEFINE t == q.table
             g == faults + f + IF l = a.len THEN 0 ELSE 1
  <2>1. t \in Tables /\ Good(Owners(n, t), Way(n, t), route[n][t] = n, q, t, a, faults + f)
    BY <1>3 DEF Requests
  <2>2. faults + f \in Nat /\ g \in Nat /\ q.faults \in Nat BY <1>2, <1>3 DEF Requests
  <2> HIDE DEF t, q
  <2>3. QED BY <2>1, <2>2, ShortenedGood
<1>5. PICK l \in 0 .. a.len, d \in Deliveries :
        /\ faults' = faults + f + IF l = a.len THEN 0 ELSE 1
        /\ faults' <= MaxFaults
        /\ to \in Nodes => d.bytes = l
        /\ Replied(n, to, Shortened(a, l), d)
  BY <1>1, <1>4, ReplyEffect
<1>6. UNCHANGED <<route, up, conn, call, asks>>
  BY <1>1, <1>4, ReplyEffect
<1> DEFINE s == Shortened(a, l)
<1>7. /\ faults' \in 0 .. MaxFaults /\ faults' \in Nat /\ faults <= faults'
      /\ (l = 0 => faults' > faults)
  BY <1>2, <1>5
<1>8. s \in Answers /\ \A t \in Tables : q.table = t =>
        Good(Owners(n, t), Way(n, t), route[n][t] = n, q, t, s, faults')
  <2> SUFFICES ASSUME NEW t \in Tables, q.table = t
               PROVE  Good(Owners(n, t), Way(n, t), route[n][t] = n, q, t, s, faults')
    BY <1>4
  <2>1. Good(Owners(n, t), Way(n, t), route[n][t] = n, q, t, a, faults + f) OBVIOUS
  <2>2. faults + f \in Nat /\ faults' = (faults + f) + IF l = a.len THEN 0 ELSE 1 BY <1>2, <1>5
  <2>4. q.faults \in Nat BY <1>3 DEF Requests
  <2> HIDE DEF q
  <2>3. QED BY <1>7, <2>1, <2>2, <2>4, ShortenedGood
<1> HIDE DEF s, q, to
<1>9. Nobody \notin Nodes \cup Clients /\ Nodes \cap Clients = {} BY ClusterAssumption
<1>10. \A m \in Nodes : job'[m] # <<>> => m # n /\ job[m] # <<>> /\ job'[m][1].req = Req(m)
  <2> SUFFICES ASSUME NEW m \in Nodes, job'[m] # <<>> PROVE m # n /\ job[m] # <<>> /\ job'[m][1].req = Req(m)
    OBVIOUS
  <2>1. m # n BY <1>5 DEF Replied
  <2>2. CASE m # to BY <1>5, <2>1, <2>2 DEF Replied, Req
  <2>3. CASE m = to
    <3>1. job[to] # <<>> BY <1>3, <2>3 DEF Link, to
    <3>2. job'[to] = <<[req |-> Req(to), pc |-> "received", got |-> d, reply |-> s]>>
      BY <1>5, <2>3 DEF Replied, s
    <3>3. QED BY <2>1, <2>3, <3>1, <3>2
  <2>4. QED BY <2>2, <2>3
<1>11. \A m \in Nodes, r \in Requests : Holds(m, r)' =>
         /\ Holds(m, r) /\ r.caller # n /\ (r.caller = to => to = Nobody)
         /\ Link(m, r)
  <2> SUFFICES ASSUME NEW m \in Nodes, NEW r \in Requests, Holds(m, r)'
               PROVE  /\ Holds(m, r) /\ r.caller # n /\ (r.caller = to => to = Nobody)
                      /\ Link(m, r)
    OBVIOUS
  <2>1. \/ conn[m] # <<>> /\ r = conn[m][1]
        \/ m # n /\ job[m] # <<>> /\ r = Req(m)
    BY <1>6, <1>10 DEF Holds, Req
  <2>2. Holds(m, r) /\ Link(m, r) BY <1>1, <2>1 DEF Holds, Links
  <2>3. r.caller # n BY <2>2 DEF Link
  <2>4. ASSUME r.caller = to, to # Nobody PROVE FALSE
    <3>1. m = n BY <1>1, <1>3, <2>2, <2>4, OneHolder DEF to
    <3>2. QED BY <1>1, <2>1, <2>4, <3>1 DEF Once, to, q
  <2>5. QED BY <2>2, <2>3, <2>4
<1>12. TypeOK'
  BY <1>1, <1>5, <1>6, <1>7 DEF TypeOK, Replied
<1>13. Links'
  <2> SUFFICES ASSUME NEW m \in Nodes, NEW r \in Requests, Holds(m, r)' PROVE Link(m, r)'
    BY DEF Links
  <2>1. Link(m, r) /\ r.caller # n /\ (r.caller = to => to = Nobody) BY <1>11
  <2>2. CASE r.caller \in Clients
    <3>1. r.caller # to BY <1>9, <2>1, <2>2
    <3>2. answer'[r.caller] = answer[r.caller] BY <1>5, <2>2, <3>1 DEF Replied
    <3>3. QED BY <1>6, <1>9, <2>1, <2>2, <3>2 DEF Link
  <2>3. CASE r.caller \in Nodes
    <3>1. r.caller # to BY <1>9, <2>1, <2>3
    <3>2. job'[r.caller] = job[r.caller] BY <1>5, <2>1, <2>3, <3>1 DEF Replied
    <3>3. QED BY <1>6, <1>9, <2>1, <2>3, <3>2 DEF Link, Req
  <2>4. CASE r.caller \notin Clients \cup Nodes BY <2>4 DEF Link
  <2>5. QED BY <2>2, <2>3, <2>4
<1>14. Once'
  <2> SUFFICES ASSUME NEW m \in Nodes, conn'[m] # <<>>, job'[m] # <<>>
               PROVE  conn'[m][1].caller # job'[m][1].req.caller \/ job'[m][1].req.caller = Nobody
    BY DEF Once, Req
  <2>1. QED BY <1>1, <1>6, <1>10 DEF Once
<1>15. Forwarded'
  <2> SUFFICES ASSUME NEW m \in Nodes, job'[m] # <<>>, job'[m][1].pc # "new"
               PROVE  job'[m][1].req.kind \in Queries /\ route'[m][job'[m][1].req.table] \in Nodes \ {m}
    BY DEF Forwarded, Req
  <2>1. job[m] # <<>> /\ job'[m][1].req = Req(m) BY <1>10
  <2>2. job[m][1].pc # "new"
    <3>1. CASE m = to BY <1>3, <3>1 DEF Link, to
    <3>2. CASE m # to BY <1>5, <1>10, <3>2 DEF Replied
    <3>3. QED BY <3>1, <3>2
  <2>3. QED BY <1>1, <1>6, <2>1, <2>2 DEF Forwarded
<1>16. Told'
  <2> SUFFICES ASSUME NEW m \in Nodes, NEW t \in Tables, job'[m] # <<>>, job'[m][1].pc = "received",
                      job'[m][1].req.table = t
               PROVE  /\ Good(Owners(m, t), Way(m, t), FALSE, job'[m][1].req, t, job'[m][1].reply, faults')
                      /\ job'[m][1].got.bytes = 0 => faults' > job'[m][1].req.faults
    BY <1>6, OwnersKept DEF Told, Req
  <2>1. m # n /\ job[m] # <<>> /\ Req(m).table = t BY <1>10
  <2> DEFINE O == Owners(m, t)
             V == Way(m, t)
  <2>2. Req(m) \in Requests /\ Req(m).faults \in Nat BY <1>1, <2>1, Places DEF Requests
  <2>3. CASE m # to
    <3>1. job'[m] = job[m] BY <1>5, <2>1, <2>3 DEF Replied
    <3>2. /\ Good(O, V, FALSE, Req(m), t, job[m][1].reply, faults)
          /\ job[m][1].got.bytes = 0 => faults > Req(m).faults
      BY <1>1, <2>1, <3>1 DEF Told
    <3> HIDE DEF O, V
    <3>3. Good(O, V, FALSE, Req(m), t, job[m][1].reply, faults')
      BY <1>2, <1>7, <2>2, <3>2, GoodLater
    <3>4. job'[m][1].req = Req(m) BY <3>1 DEF Req
    <3>5. job[m][1].got.bytes = 0 => faults' > Req(m).faults BY <1>2, <1>7, <2>2, <3>2
    <3>6. QED BY <3>1, <3>3, <3>4, <3>5 DEF O, V
  <2>4. CASE m = to
    <3>1. job'[m] = <<[req |-> Req(m), pc |-> "received", got |-> d, reply |-> s]>> /\ d.bytes = l
      BY <1>5, <2>4 DEF Replied, s
    <3>2. job'[m][1].reply = s /\ job'[m][1].got = d /\ job'[m][1].req = Req(m) BY <3>1
    <3>3. /\ q.table = t /\ q.kind \in Reread(Req(m).kind) /\ route[m][t] = n
          /\ Req(m).faults = q.faults /\ Req(m).up = q.up /\ job[m][1].pc = "waiting"
      BY <1>3, <2>1, <2>4 DEF Link, to
    <3>4. O = Owners(n, t) /\ Way(n, t) \subseteq V BY <1>2, <2>1, <3>3, OwnersVia
    <3>5. Good(O, Way(n, t), route[n][t] = n, q, t, s, faults') BY <1>8, <3>3, <3>4
    <3>6. Req(m).kind \in Queries BY <1>1, <2>1, <3>3 DEF Forwarded
    <3> HIDE DEF O, V
    <3> DEFINE U == Way(n, t)
               own == route[n][t] = n
               p == Req(m)
    <3>7. Good(O, V, FALSE, p, t, s, faults')
      <4>1. /\ U \subseteq V /\ Good(O, U, own, q, t, s, faults')
            /\ q.kind \in Reread(p.kind) /\ p.kind \in Queries
            /\ p.faults = q.faults /\ p.up = q.up
        BY <3>3, <3>4, <3>5, <3>6
      <4> HIDE DEF U, own, p
      <4>2. ~(U \subseteq q.up) => ~(V \subseteq p.up) BY <4>1
      <4>3. CASE p.kind = "sql"
        <5>1. q.kind = "sql" BY <4>1, <4>3 DEF Reread
        <5>2. QED BY <4>1, <4>2, <4>3, <5>1 DEF Good, Queries
      <4>4. CASE p.kind \in {"marked", "other"}
        <5>1. q.kind \in {"bad", "other"} BY <4>1, <4>4 DEF Reread
        <5>2. s.ok => s.table = t /\ s.from \in O BY <4>1, <5>1 DEF Good, Queries
        <5>3. s.whole \/ s.uneven BY <4>1 DEF Good
        <5>4. QED BY <4>4, <5>2, <5>3 DEF Good
      <4>5. QED BY <4>1, <4>3, <4>4 DEF Queries
    <3>8. q.faults <= faults BY <1>1, <1>3 DEF Dated, Since
    <3>9. d.bytes = 0 => faults' > Req(m).faults BY <1>2, <1>7, <2>2, <3>1, <3>3, <3>8
    <3>10. QED BY <3>2, <3>7, <3>9 DEF O, V
  <2>5. QED BY <2>3, <2>4
<1>17. Answered'
  <2> SUFFICES ASSUME NEW c \in Clients, answer'[c] # <<>>
               PROVE  /\ call[c] # <<>>
                      /\ \A m \in Nodes, t \in Tables : call[c][1].node = m /\ call[c][1].table = t =>
                          Good(Owners(m, t), Way(m, t), route[m][t] = m, call[c][1], t, answer'[c][1], faults')
    BY <1>6, OwnersKept DEF Answered
  <2>1. CASE c # to
    <3>1. answer'[c] = answer[c] BY <1>5, <2>1 DEF Replied
    <3>2. call[c] # <<>> /\ call[c][1].faults \in Nat BY <1>1, <3>1, Places DEF Answered, Calls
    <3>3. ASSUME NEW m \in Nodes, NEW t \in Tables, call[c][1].node = m, call[c][1].table = t
          PROVE  Good(Owners(m, t), Way(m, t), route[m][t] = m, call[c][1], t, answer'[c][1], faults')
      <4>1. Good(Owners(m, t), Way(m, t), route[m][t] = m, call[c][1], t, answer'[c][1], faults)
        BY <1>1, <3>1, <3>3 DEF Answered
      <4>2. QED BY <1>2, <1>7, <3>2, <4>1, GoodLater
    <3>4. QED BY <3>2, <3>3
  <2>2. CASE c = to
    <3>1. answer'[c][1] = s BY <1>5, <2>2 DEF Replied, s
    <3>2. call[c] # <<>> /\ call[c][1] = Asked(n, q) BY <1>3, <2>2 DEF Link, to
    <3>3. /\ call[c][1].node = n /\ call[c][1].kind = q.kind /\ call[c][1].table = q.table
          /\ call[c][1].faults = q.faults /\ call[c][1].up = q.up /\ q.faults \in Nat
      BY <1>3, <3>2 DEF Asked, Requests
    <3>4. ASSUME NEW t \in Tables, q.table = t
          PROVE  Good(Owners(n, t), Way(n, t), route[n][t] = n, call[c][1], t, s, faults')
      <4>1. Good(Owners(n, t), Way(n, t), route[n][t] = n, q, t, s, faults') BY <1>8, <3>4
      <4>2. QED BY <1>7, <3>3, <4>1, GoodLater
    <3>5. QED BY <3>1, <3>2, <3>3, <3>4
  <2>3. QED BY <2>1, <2>2
<1>18. Dated'
  <2> SUFFICES ASSUME NEW m \in Nodes, NEW r \in Requests, Holds(m, r)' PROVE Since(r)'
    BY DEF Dated
  <2>1. Since(r) /\ r.faults \in Nat BY <1>1, <1>11 DEF Dated, Requests
  <2>2. QED BY <1>2, <1>6, <1>7, <2>1 DEF Since
<1>19. QED BY <1>12, <1>13, <1>14, <1>15, <1>16, <1>17, <1>18 DEF CInv

\* An answer as a node makes it.
LEMMA AnswerFields ==
  ASSUME NEW r, r.table \in Tables, r.kind \in AllKinds, NEW n \in Nodes, NEW ok \in BOOLEAN
  PROVE  /\ Answer(ok, r, n) \in Answers
         /\ Answer(ok, r, n).ok = ok /\ Answer(ok, r, n).whole = TRUE
         /\ Answer(ok, r, n).table = r.table /\ Answer(ok, r, n).kind = r.kind
         /\ Answer(ok, r, n).from = n
         /\ Answer(ok, r, n).len = BodyLen /\ Answer(ok, r, n).len # 0
  BY ClusterAssumption DEF Answer, Answers

\* A node that answers its request itself keeps the invariant.
LEMMA OwnReplyKeeps ==
  ASSUME CInv, NEW n \in Nodes,
         Status(n) \/ Reject(n) \/ DbData(n) \/ DbFails(n) \/ NotFound(n) \/ Refused(n) \/ NoAnswer(n)
  PROVE  CInv'
<1> DEFINE r == Req(n)
           t == r.table
           O == Owners(n, t)
           W == Way(n, t)
<1>1. TypeOK /\ Told /\ Dated BY DEF CInv
<1>2. job[n] # <<>> /\ job[n][1].pc \in {"new", "received"}
  BY DEF Status, Reject, DbData, DbFails, NotFound, Refused, NoAnswer, New, Own, Remote, Received
<1>3. /\ RouteOK /\ faults \in Nat /\ t \in Tables /\ r.kind \in AllKinds /\ job[n][1].pc # "waiting"
      /\ r \in Requests /\ r.faults \in Nat /\ r.up \subseteq Nodes
  BY <1>1, <1>2, Places DEF Requests
<1>4. Since(r)
  <2>1. Holds(n, r) BY <1>2 DEF Holds
  <2>2. QED BY <1>1, <1>3, <2>1 DEF Dated
<1>5. ASSUME NEW a \in Answers, a.len # 0, NEW f \in {0, 1}, Reply(n, a, f),
             Good(O, W, route[n][t] = n, r, t, a, faults + f)
      PROVE  CInv'
  <2>1. \A x \in Tables : r.table = x =>
          Good(Owners(n, x), Way(n, x), route[n][x] = n, r, x, a, faults + f)
    BY <1>5
  <2> HIDE DEF O, W, t
  <2>2. QED BY <1>2, <1>3, <1>5, <2>1, ReplyKeeps
<1>6. ASSUME NEW f \in {0, 1}, ReplyError(n, f),
             \/ r.kind = "bad" \/ (r.kind = "db" /\ route[n][t] # n) \/ O = {}
             \/ ~(W \subseteq r.up) \/ faults + f > r.faults
      PROVE  CInv'
  <2> DEFINE a == Answer(FALSE, r, n)
  <2>1. a \in Answers /\ a.ok = FALSE /\ a.len # 0 /\ a.whole = TRUE
    <3>1. r.table \in Tables /\ r.kind \in AllKinds /\ FALSE \in BOOLEAN BY <1>3
    <3> HIDE DEF r, O, W
    <3>2. QED BY <3>1, AnswerFields
  <2>2. Reply(n, a, f) BY <1>6 DEF ReplyError
  <2> HIDE DEF a, r, O, W
  <2>3. Good(O, W, route[n][t] = n, r, t, a, faults + f) BY <1>6, <2>1 DEF Good
  <2>4. QED BY <1>5, <2>1, <2>2, <2>3
<1>7. ASSUME Reply(n, Answer(TRUE, r, n), 0), r.kind # "bad",
             r.kind \in Queries \cup {"db"} => n \in O
      PROVE  CInv'
  <2> DEFINE a == Answer(TRUE, r, n)
  <2>1. /\ a \in Answers /\ a.ok = TRUE /\ a.len # 0 /\ a.whole = TRUE
        /\ a.table = t /\ a.kind = r.kind /\ a.from = n
    <3>1. r.table \in Tables /\ r.kind \in AllKinds /\ TRUE \in BOOLEAN BY <1>3
    <3> HIDE DEF r, O, W
    <3>2. QED BY <3>1, AnswerFields
  <2>2. Reply(n, a, 0) BY <1>7
  <2> HIDE DEF a, r, O, W
  <2>3. Good(O, W, route[n][t] = n, r, t, a, faults + 0) BY <1>7, <2>1 DEF Good
  <2>4. QED BY <1>5, <2>1, <2>2, <2>3
<1>8. CASE Status(n) BY <1>7, <1>8 DEF Status, Queries
<1>9. CASE Reject(n) BY <1>6, <1>9 DEF Reject
<1>10. CASE DbData(n)
  <2>1. n \in O BY <1>3, <1>10, OwnersSelf DEF DbData, Own
  <2>2. r.kind # "bad" BY <1>10 DEF DbData, Own, Queries
  <2>3. QED BY <1>7, <1>10, <2>1, <2>2 DEF DbData
<1>11. CASE DbFails(n)
  <2>1. faults + 1 > r.faults BY <1>3, <1>4 DEF Since
  <2>2. QED BY <1>6, <1>11, <2>1 DEF DbFails
<1>12. CASE NotFound(n)
  <2>1. O = {} \/ (r.kind = "db" /\ route[n][t] # n)
    BY <1>3, <1>12, OwnersNone DEF NotFound
  <2>2. QED BY <1>6, <1>12, <2>1 DEF NotFound
<1>13. CASE Refused(n)
  <2>1. Peer(n) \in Nodes \ up /\ Peer(n) = route[n][t] BY <1>13 DEF Refused, Remote, Peer
  <2>2. Peer(n) \in W
    <3>1. n \in W /\ \A x \in W : route[x][t] \in W \cup {Nobody} BY <1>3, WayClosed
    <3>2. QED BY <2>1, <3>1, ClusterAssumption
  <2>3. ~(W \subseteq r.up) \/ faults + 0 > r.faults
    <3> HIDE DEF W, r, t
    <3>1. QED BY <1>3, <1>4, <2>1, <2>2 DEF Since
  <2>4. QED BY <1>6, <1>13, <2>3 DEF Refused
<1>14. CASE NoAnswer(n)
  <2>1. faults > r.faults BY <1>1, <1>3, <1>14 DEF NoAnswer, Received, Told
  <2>2. faults + 0 > r.faults BY <1>3, <2>1
  <2>3. QED BY <1>6, <1>14, <2>2 DEF NoAnswer
<1>15. QED BY <1>8, <1>9, <1>10, <1>11, <1>12, <1>13, <1>14

\* So does one that passes on what its peer answered.
LEMMA PassOnKeeps ==
  ASSUME CInv, NEW n \in Nodes, PassOn(n)
  PROVE  CInv'
<1> DEFINE j == job[n][1]
           t == Req(n).table
           d == j.got
           w == j.reply.whole /\ d.ordered
           u == j.reply.uneven \/ ~d.even
           a == [j.reply EXCEPT !.len = d.bytes + 1, !.whole = @ /\ d.ordered, !.uneven = @ \/ ~d.even]
<1>1. TypeOK /\ Told /\ Forwarded BY DEF CInv
<1>2. job[n] # <<>> /\ j.pc = "received" /\ d.bytes > 0 /\ Reply(n, a, 0)
  BY DEF PassOn, Received
<1>3. j \in Jobs /\ RouteOK /\ faults \in Nat /\ t \in Tables BY <1>1, <1>2, Places DEF Requests
<1>4. d \in Deliveries /\ j.reply \in Answers BY <1>2, <1>3, JobCases
<1>5. d.bytes \in Nat /\ d.ordered \in BOOLEAN /\ d.even \in BOOLEAN /\ (d.even => d.ordered)
  BY <1>4, DeliveriesInBounds
<1>6. Good(Owners(n, t), Way(n, t), FALSE, Req(n), t, j.reply, faults) BY <1>1, <1>2, <1>3 DEF Told
<1>7. Req(n).kind \in Queries /\ route[n][t] # n BY <1>1, <1>2 DEF Forwarded
<1>8. w \in BOOLEAN /\ u \in BOOLEAN /\ d.bytes + 1 \in Nat /\ d.bytes + 1 # 0 BY <1>5
<1>9. a = [j.reply EXCEPT !.len = d.bytes + 1, !.whole = w, !.uneven = u] OBVIOUS
<1>10. /\ a \in Answers /\ a.ok = j.reply.ok /\ a.table = j.reply.table /\ a.kind = j.reply.kind
       /\ a.from = j.reply.from /\ a.len = d.bytes + 1 /\ a.whole = w /\ a.uneven = u
  <2> HIDE DEF a, w, u, d, j
  <2>1. QED BY <1>4, <1>8, <1>9 DEF Answers
<1>11. w \/ u
  <2>1. j.reply.whole \/ j.reply.uneven BY <1>6 DEF Good
  <2>2. QED BY <1>5, <2>1
<1>12. Good(Owners(n, t), Way(n, t), route[n][t] = n, Req(n), t, a, faults + 0)
  <2> HIDE DEF a, w, u
  <2>1. QED BY <1>3, <1>6, <1>7, <1>10, <1>11 DEF Good
<1>13. \A x \in Tables : Req(n).table = x =>
         Good(Owners(n, x), Way(n, x), route[n][x] = n, Req(n), x, a, faults + 0)
  <2> HIDE DEF a
  <2>1. QED BY <1>12
<1>14. a.len # 0 BY <1>8, <1>10
<1>15. QED
  <2> HIDE DEF a
  <2>1. QED BY <1>2, <1>10, <1>13, <1>14, ReplyKeeps

\* A client's request keeps the invariant.
LEMMA AskKeeps ==
  ASSUME CInv, NEW c \in Clients, Ask(c)
  PROVE  CInv'
<1>1. TypeOK /\ Links /\ Once /\ Forwarded /\ Told /\ Answered /\ Dated BY DEF CInv
<1>2. PICK n \in up, k \in Kinds, t \in Tables :
        /\ conn[n] = <<>>
        /\ conn' = [conn EXCEPT ![n] = <<Request(c, k, t, faults, up)>>]
        /\ call' = [call EXCEPT ![c] =
                      <<[node |-> n, kind |-> k, table |-> t, faults |-> faults, up |-> up]>>]
  BY DEF Ask
<1>3. /\ answer' = [answer EXCEPT ![c] = <<>>] /\ asks' = [asks EXCEPT ![c] = @ + 1]
      /\ asks[c] < MaxAsks /\ (call[c] # <<>> => answer[c] # <<>>)
      /\ UNCHANGED <<route, up, job, faults>>
  BY DEF Ask, Waiting
<1> DEFINE q == Request(c, k, t, faults, up)
           o == [node |-> n, kind |-> k, table |-> t, faults |-> faults, up |-> up]
<1>4. n \in Nodes /\ k \in AllKinds \ {"other"} /\ c \notin Nodes /\ Nobody \notin Clients /\ MaxAsks \in Nat
  BY <1>1, ClusterAssumption DEF TypeOK
<1>5. q \in Requests /\ o \in Calls BY <1>1, <1>4 DEF Requests, Request, Calls, TypeOK
<1>6. <<q>> \in AtMostOne(Requests) /\ <<o>> \in AtMostOne(Calls) /\ <<>> \in AtMostOne(Answers)
  <2> HIDE DEF q, o
  <2>1. QED BY <1>5, AtMostOneSome, AtMostOneNone
<1>7. /\ conn'[n] = <<q>> /\ \A m \in Nodes \ {n} : conn'[m] = conn[m]
      /\ call'[c] = <<o>> /\ answer'[c] = <<>>
      /\ \A b \in Clients \ {c} : call'[b] = call[b] /\ answer'[b] = answer[b]
  <2> HIDE DEF q, o
  <2>1. conn' = [conn EXCEPT ![n] = <<q>>] /\ call' = [call EXCEPT ![c] = <<o>>] BY <1>2 DEF q, o
  <2>2. QED BY <1>1, <1>3, <1>4, <2>1 DEF TypeOK
<1>8. TypeOK'
  <2>1. conn' \in [Nodes -> AtMostOne(Requests)] /\ call' \in [Clients -> AtMostOne(Calls)]
    <3>1. conn' = [conn EXCEPT ![n] = <<q>>] /\ call' = [call EXCEPT ![c] = <<o>>] BY <1>2
    <3>2. conn \in [Nodes -> AtMostOne(Requests)] /\ call \in [Clients -> AtMostOne(Calls)] BY <1>1 DEF TypeOK
    <3> HIDE DEF q, o
    <3>3. QED BY <1>6, <3>1, <3>2
  <2>2. asks' \in [Clients -> 0 .. MaxAsks] BY <1>1, <1>3, <1>4 DEF TypeOK
  <2>3. answer' \in [Clients -> AtMostOne(Answers)]
    <3>1. answer \in [Clients -> AtMostOne(Answers)] BY <1>1 DEF TypeOK
    <3>2. QED BY <1>3, <1>6, <3>1
  <2>4. QED BY <1>1, <1>3, <2>1, <2>2, <2>3 DEF TypeOK
<1>9. ASSUME NEW m \in Nodes, NEW r \in Requests, Holds(m, r) PROVE r.caller # c /\ Link(m, r)
  BY <1>1, <1>3, <1>9 DEF Links, Link
<1>10. Links'
  <2> SUFFICES ASSUME NEW m \in Nodes, NEW r \in Requests, Holds(m, r)' PROVE Link(m, r)'
    BY DEF Links
  <2>1. CASE m = n /\ r = q
    <3>1. call'[c] # <<>> /\ call'[c][1] = o BY <1>7
    <3>2. r.caller = c /\ o = Asked(n, r) BY <2>1 DEF Request, Asked
    <3>3. QED BY <1>4, <1>7, <2>1, <3>1, <3>2 DEF Link
  <2>2. CASE ~(m = n /\ r = q)
    <3>1. Holds(m, r)
      <4>1. CASE conn'[m] # <<>> /\ r = conn'[m][1]
        <5>1. m # n BY <1>7, <2>2, <4>1
        <5>2. QED BY <1>7, <4>1, <5>1 DEF Holds
      <4>2. CASE job'[m] # <<>> /\ r = job'[m][1].req BY <1>3, <4>2 DEF Holds, Req
      <4>3. QED BY <4>1, <4>2 DEF Holds, Req
    <3>2. r.caller # c /\ Link(m, r) BY <1>9, <3>1
    <3>3. QED BY <1>3, <1>7, <3>2 DEF Link, Req
  <2>3. QED BY <2>1, <2>2
<1>11. Once'
  <2> SUFFICES ASSUME NEW m \in Nodes, conn'[m] # <<>>, job'[m] # <<>>
               PROVE  conn'[m][1].caller # job'[m][1].req.caller \/ job'[m][1].req.caller = Nobody
    BY DEF Once, Req
  <2>1. CASE m # n BY <1>1, <1>3, <1>7, <2>1 DEF Once, Req
  <2>2. CASE m = n
    <3>1. Req(n) \in Requests /\ Holds(n, Req(n)) BY <1>1, <1>3, <2>2, Places DEF Holds
    <3>2. Req(n).caller # c BY <1>4, <1>9, <3>1
    <3>3. conn'[m][1].caller = c BY <1>7, <2>2 DEF Request
    <3>4. QED BY <1>3, <2>2, <3>2, <3>3 DEF Req
  <2>3. QED BY <2>1, <2>2
<1>12. Forwarded' BY <1>1, <1>3 DEF Forwarded, Req
<1>13. Told' BY <1>1, <1>3, OwnersKept DEF Told, Req
<1>14. Answered'
  <2> SUFFICES ASSUME NEW b \in Clients, answer'[b] # <<>>
               PROVE  /\ call'[b] # <<>>
                      /\ \A m \in Nodes, x \in Tables : call'[b][1].node = m /\ call'[b][1].table = x =>
                          Good(Owners(m, x), Way(m, x), route[m][x] = m, call'[b][1], x, answer'[b][1], faults)
    BY <1>3, OwnersKept DEF Answered
  <2>1. b # c BY <1>7
  <2>2. QED BY <1>1, <1>7, <2>1 DEF Answered
<1>15. Dated'
  <2> SUFFICES ASSUME NEW m \in Nodes, NEW r \in Requests, Holds(m, r)' PROVE Since(r)'
    BY DEF Dated
  <2>1. CASE m = n /\ r = conn'[n][1]
    <3>1. r.faults = faults /\ r.up = up BY <1>7, <2>1 DEF Request
    <3>2. faults \in Nat BY <1>1, Places
    <3>3. QED BY <1>3, <3>1, <3>2 DEF Since
  <2>2. CASE ~(m = n /\ r = conn'[n][1])
    <3>1. Holds(m, r) BY <1>3, <1>7, <2>2 DEF Holds, Req
    <3>2. QED BY <1>1, <1>3, <3>1 DEF Dated, Since
  <2>3. QED BY <2>1, <2>2
<1>16. QED BY <1>8, <1>10, <1>11, <1>12, <1>13, <1>14, <1>15 DEF CInv

\* So does a node that takes a request ...
LEMMA TakeKeeps ==
  ASSUME CInv, NEW n \in Nodes, Take(n)
  PROVE  CInv'
<1>1. TypeOK /\ Links /\ Once /\ Forwarded /\ Told /\ Answered /\ Dated BY DEF CInv
<1> DEFINE q == conn[n][1]
           j == [req |-> q, pc |-> "new"]
<1>2. /\ conn[n] # <<>> /\ job[n] = <<>> /\ job' = [job EXCEPT ![n] = <<j>>]
      /\ conn' = [conn EXCEPT ![n] = <<>>] /\ UNCHANGED <<route, up, call, answer, asks, faults>>
  BY DEF Take
<1>3. q \in Requests /\ Holds(n, q) BY <1>1, <1>2, Places DEF Holds
<1>4. j \in Jobs BY <1>3 DEF Jobs
<1> HIDE DEF q
<1>5. j.req = q /\ j.pc = "new" OBVIOUS
<1> HIDE DEF j
<1>6. <<j>> \in AtMostOne(Jobs) /\ <<>> \in AtMostOne(Requests) BY <1>4, AtMostOneSome, AtMostOneNone
<1>7. /\ job'[n] = <<j>> /\ conn'[n] = <<>>
      /\ \A m \in Nodes \ {n} : job'[m] = job[m] /\ conn'[m] = conn[m]
  BY <1>1, <1>2 DEF TypeOK
<1>8. TypeOK'
  <2>1. job' \in [Nodes -> AtMostOne(Jobs)] /\ conn' \in [Nodes -> AtMostOne(Requests)]
    <3>1. job \in [Nodes -> AtMostOne(Jobs)] /\ conn \in [Nodes -> AtMostOne(Requests)] BY <1>1 DEF TypeOK
    <3>2. QED BY <1>2, <1>6, <3>1
  <2>2. QED BY <1>1, <1>2, <2>1 DEF TypeOK
<1>9. Links'
  <2> SUFFICES ASSUME NEW m \in Nodes, NEW r \in Requests, Holds(m, r)' PROVE Link(m, r)'
    BY DEF Links
  <2>1. Holds(m, r)
    <3>1. CASE m = n BY <1>3, <1>5, <1>7, <3>1 DEF Holds, Req
    <3>2. CASE m # n BY <1>7, <3>2 DEF Holds, Req
    <3>3. QED BY <3>1, <3>2
  <2>2. Link(m, r) BY <1>1, <2>1 DEF Links
  <2>3. r.caller # n BY <1>2, <2>2 DEF Link
  <2>4. QED BY <1>2, <1>7, <2>2, <2>3 DEF Link, Req
<1>10. Once' BY <1>1, <1>7 DEF Once, Req
<1>11. Forwarded' BY <1>1, <1>2, <1>5, <1>7 DEF Forwarded, Req
<1>12. Told'
  <2> SUFFICES ASSUME NEW m \in Nodes, NEW t \in Tables, job'[m] # <<>>, job'[m][1].pc = "received",
                      job'[m][1].req.table = t
               PROVE  /\ Good(Owners(m, t), Way(m, t), FALSE, job'[m][1].req, t, job'[m][1].reply, faults)
                      /\ job'[m][1].got.bytes = 0 => faults > job'[m][1].req.faults
    BY <1>2, OwnersKept DEF Told, Req
  <2>1. m # n BY <1>5, <1>7
  <2>2. QED BY <1>1, <1>7, <2>1 DEF Told, Req
<1>13. Answered' BY <1>1, <1>2, OwnersKept DEF Answered
<1>14. Dated'
  <2> SUFFICES ASSUME NEW m \in Nodes, NEW r \in Requests, Holds(m, r)' PROVE Since(r)'
    BY DEF Dated
  <2>1. Holds(m, r)
    <3>1. CASE m = n BY <1>3, <1>5, <1>7, <3>1 DEF Holds, Req
    <3>2. CASE m # n BY <1>7, <3>2 DEF Holds, Req
    <3>3. QED BY <3>1, <3>2
  <2>2. QED BY <1>1, <1>2, <2>1 DEF Dated, Since
<1>15. QED BY <1>8, <1>9, <1>10, <1>11, <1>12, <1>13, <1>14 DEF CInv

\* ... and one that forwards it.
LEMMA ForwardKeeps ==
  ASSUME CInv, NEW n \in Nodes, Forward(n)
  PROVE  CInv'
<1>1. TypeOK /\ Links /\ Once /\ Forwarded /\ Told /\ Answered /\ Dated BY DEF CInv
<1> DEFINE p == Peer(n)
           t == Req(n).table
           j == [job[n][1] EXCEPT !.pc = "waiting"]
<1>0. PICK k \in Reread(Req(n).kind) :
        conn' = [conn EXCEPT ![p] = <<Request(n, k, t, Req(n).faults, Req(n).up)>>]
  BY DEF Forward
<1> DEFINE q == Request(n, k, t, Req(n).faults, Req(n).up)
<1>2. /\ job[n] # <<>> /\ job[n][1].pc = "new" /\ Req(n).kind \in Queries
      /\ p \in Nodes \ {n} /\ route[n][t] = p /\ conn[p] = <<>>
      /\ conn' = [conn EXCEPT ![p] = <<q>>]
      /\ job' = [job EXCEPT ![n][1].pc = "waiting"]
      /\ UNCHANGED <<route, up, call, answer, asks, faults>>
  BY <1>0 DEF Forward, Remote, New, Peer
<1>3. job[n][1] \in Jobs /\ job[n] = <<job[n][1]>> /\ Req(n) \in Requests BY <1>1, <1>2, Places
<1>4. job[n][1] \in [req : Requests, pc : {"new", "waiting"}] BY <1>2, <1>3 DEF Jobs
<1>5. j \in Jobs /\ j.req = Req(n) /\ j.pc = "waiting"
  BY <1>4 DEF Jobs, Req
<1>6. t \in Tables /\ n \notin Clients /\ n # Nobody BY <1>3, ClusterAssumption DEF Requests
<1>7. /\ q \in Requests /\ q.caller = n /\ q.kind \in Reread(Req(n).kind) /\ q.table = t
      /\ q.faults = Req(n).faults /\ q.up = Req(n).up
  <2>1. k \in AllKinds BY DEF Reread, AllKinds, Queries
  <2>2. QED BY <1>3, <1>6, <2>1 DEF Requests, Request
<1>8. job' = [job EXCEPT ![n] = <<j>>]
  <2>1. job' = [job EXCEPT ![n] = [job[n] EXCEPT ![1] = j]] BY <1>2
  <2>2. [job[n] EXCEPT ![1] = j] = <<j>>
    <3> HIDE DEF j
    <3>1. DOMAIN job[n] = {1} BY <1>1, <1>2, Places
    <3>2. QED BY <1>3, <3>1
  <2>3. QED BY <2>1, <2>2
<1> HIDE DEF p, j
<1>9. <<j>> \in AtMostOne(Jobs) BY <1>5, AtMostOneSome
<1>10. <<q>> \in AtMostOne(Requests)
  <2> HIDE DEF q
  <2>1. QED BY <1>7, AtMostOneSome
<1> HIDE DEF q, t
<1>11. /\ job'[n] = <<j>> /\ conn'[p] = <<q>>
       /\ \A m \in Nodes \ {n} : job'[m] = job[m]
       /\ \A m \in Nodes \ {p} : conn'[m] = conn[m]
  BY <1>1, <1>2, <1>8 DEF TypeOK
<1>12. TypeOK'
  <2>1. job' \in [Nodes -> AtMostOne(Jobs)] /\ conn' \in [Nodes -> AtMostOne(Requests)]
    <3>1. job \in [Nodes -> AtMostOne(Jobs)] /\ conn \in [Nodes -> AtMostOne(Requests)] BY <1>1 DEF TypeOK
    <3>2. QED BY <1>2, <1>8, <1>9, <1>10, <3>1
  <2>2. QED BY <1>1, <1>2, <2>1 DEF TypeOK
<1>13. ASSUME NEW m \in Nodes, NEW r \in Requests, Holds(m, r) PROVE r.caller # n /\ Link(m, r)
  BY <1>1, <1>2, <1>13 DEF Links, Link
<1>14. \A m \in Nodes : (job'[m] # <<>> <=> job[m] # <<>>) /\ job'[m][1].req = Req(m)
  BY <1>2, <1>5, <1>11 DEF Req
<1>15. Links'
  <2> SUFFICES ASSUME NEW m \in Nodes, NEW r \in Requests, Holds(m, r)' PROVE Link(m, r)'
    BY DEF Links
  <2>1. CASE m = p /\ r = q
    <3>1. r.caller \notin Clients /\ r.caller \in Nodes /\ r.caller = n BY <1>6, <1>7, <2>1
    <3>2. /\ job'[n] # <<>> /\ job'[n][1].pc = "waiting" /\ job'[n][1].req.table = r.table
          /\ r.kind \in Reread(job'[n][1].req.kind)
          /\ job'[n][1].req.faults = r.faults /\ job'[n][1].req.up = r.up
      BY <1>5, <1>7, <1>11, <2>1 DEF t
    <3>3. route'[n][r.table] = p /\ p # n BY <1>2, <1>7, <2>1
    <3>4. QED BY <1>7, <2>1, <3>1, <3>2, <3>3 DEF Link, Req
  <2>2. CASE ~(m = p /\ r = q)
    <3>1. Holds(m, r)
      <4>1. CASE conn'[m] # <<>> /\ r = conn'[m][1]
        <5>1. m # p BY <1>11, <2>2, <4>1
        <5>2. QED BY <1>11, <4>1, <5>1 DEF Holds
      <4>2. CASE job'[m] # <<>> /\ r = job'[m][1].req BY <1>14, <4>2 DEF Holds
      <4>3. QED BY <4>1, <4>2 DEF Holds, Req
    <3>2. r.caller # n /\ Link(m, r) BY <1>13, <3>1
    <3>3. QED BY <1>2, <1>11, <3>2 DEF Link, Req
  <2>3. QED BY <2>1, <2>2
<1>16. Once'
  <2> SUFFICES ASSUME NEW m \in Nodes, conn'[m] # <<>>, job'[m] # <<>>
               PROVE  conn'[m][1].caller # job'[m][1].req.caller \/ job'[m][1].req.caller = Nobody
    BY DEF Once, Req
  <2>1. job[m] # <<>> /\ job'[m][1].req = Req(m) BY <1>14
  <2>2. CASE m # p BY <1>1, <1>11, <2>1, <2>2 DEF Once
  <2>3. CASE m = p
    <3>1. Req(m) \in Requests /\ Holds(m, Req(m)) BY <1>1, <2>1, Places DEF Holds
    <3>2. Req(m).caller # n BY <1>13, <3>1
    <3>3. conn'[m][1].caller = n BY <1>7, <1>11, <2>3
    <3>4. QED BY <2>1, <3>2, <3>3
  <2>4. QED BY <2>2, <2>3
<1>17. Forwarded'
  <2> SUFFICES ASSUME NEW m \in Nodes, job'[m] # <<>>, job'[m][1].pc # "new"
               PROVE  job'[m][1].req.kind \in Queries /\ route'[m][job'[m][1].req.table] \in Nodes \ {m}
    BY DEF Forwarded, Req
  <2>1. job[m] # <<>> /\ job'[m][1].req = Req(m) BY <1>14
  <2>2. CASE m = n BY <1>2, <2>1, <2>2 DEF t
  <2>3. CASE m # n BY <1>1, <1>2, <1>11, <2>1, <2>3 DEF Forwarded
  <2>4. QED BY <2>2, <2>3
<1>18. Told'
  <2> SUFFICES ASSUME NEW m \in Nodes, NEW x \in Tables, job'[m] # <<>>, job'[m][1].pc = "received",
                      job'[m][1].req.table = x
               PROVE  /\ Good(Owners(m, x), Way(m, x), FALSE, job'[m][1].req, x, job'[m][1].reply, faults)
                      /\ job'[m][1].got.bytes = 0 => faults > job'[m][1].req.faults
    BY <1>2, OwnersKept DEF Told, Req
  <2>1. m # n BY <1>5, <1>11
  <2>2. QED BY <1>1, <1>11, <2>1 DEF Told, Req
<1>19. Answered' BY <1>1, <1>2, OwnersKept DEF Answered
<1>20. Dated'
  <2> SUFFICES ASSUME NEW m \in Nodes, NEW r \in Requests, Holds(m, r)' PROVE Since(r)'
    BY DEF Dated
  <2>1. PICK x \in Nodes, y \in Requests : Holds(x, y) /\ r.faults = y.faults /\ r.up = y.up
    <3>1. CASE m = p /\ r = q
      <4>1. Holds(n, Req(n)) BY <1>2 DEF Holds
      <4>2. QED BY <1>3, <1>7, <3>1, <4>1
    <3>2. CASE ~(m = p /\ r = q)
      <4>1. Holds(m, r) BY <1>11, <1>14, <3>2 DEF Holds, Req
      <4>2. QED BY <4>1
    <3>3. QED BY <3>1, <3>2
  <2>2. QED BY <1>1, <1>2, <2>1 DEF Dated, Since
<1>21. QED BY <1>12, <1>15, <1>16, <1>17, <1>18, <1>19, <1>20 DEF CInv

\* What becomes of a request of node n when that crashes.
Left(n, r) == IF r.caller = n THEN [r EXCEPT !.caller = Nobody] ELSE r
Lost == [kind |-> "bad", table |-> CHOOSE t \in Tables : TRUE]
Closed(n) == Shortened(Answer(FALSE, Lost, n), 0)
Orphan(n, j) == [i \in DOMAIN j |-> [j[i] EXCEPT !.req = Left(n, @)]]

\* A request whose caller crashed is for nobody ...
LEMMA LeftFields ==
  ASSUME NEW n \in Nodes, NEW r \in Requests
  PROVE  /\ Left(n, r) \in Requests /\ Left(n, r).kind = r.kind /\ Left(n, r).table = r.table
         /\ Left(n, r).faults = r.faults /\ Left(n, r).up = r.up
         /\ r.caller = n => Left(n, r).caller = Nobody
         /\ r.caller # n => Left(n, r) = r
  BY DEF Left, Requests

\* ... and so is the job that works for it.
LEMMA OrphanJob ==
  ASSUME NEW n \in Nodes, NEW x \in Jobs
  PROVE  /\ Orphan(n, <<x>>) # <<>> /\ Orphan(n, <<x>>) \in AtMostOne(Jobs)
         /\ Orphan(n, <<x>>)[1].req = Left(n, x.req) /\ Orphan(n, <<x>>)[1].pc = x.pc
         /\ x.pc = "received" => /\ Orphan(n, <<x>>)[1].got = x.got
                                 /\ Orphan(n, <<x>>)[1].reply = x.reply
<1> DEFINE l == Left(n, x.req)
           y == [x EXCEPT !.req = l]
<1>1. x.req \in Requests BY JobCases
<1>2. l \in Requests BY <1>1, LeftFields
<1>3. Orphan(n, <<x>>) = <<y>> BY DEF Orphan
<1> HIDE DEF l
<1>4. CASE x \in [req : Requests, pc : {"new", "waiting"}]
  <2>1. y \in Jobs /\ y.req = l /\ y.pc = x.pc /\ x.pc # "received" BY <1>2, <1>4 DEF Jobs
  <2> HIDE DEF y
  <2>2. QED BY <1>3, <2>1, AtMostOneSome DEF l
<1>5. CASE x \in [req : Requests, pc : {"received"}, got : Deliveries, reply : Answers]
  <2>1. y \in Jobs /\ y.req = l /\ y.pc = x.pc /\ y.got = x.got /\ y.reply = x.reply
    BY <1>2, <1>5 DEF Jobs
  <2> HIDE DEF y
  <2>2. QED BY <1>3, <2>1, AtMostOneSome DEF l
<1>6. QED BY <1>4, <1>5 DEF Jobs

\* The callers of a node, and the answer that a closed connection is to them.
LEMMA CallersHeld ==
  ASSUME TypeOK, NEW n \in Nodes
  PROVE  /\ \A c \in Callers(n) : \E r \in Requests : Holds(n, r) /\ r.caller = c
         /\ \A r \in Requests : Holds(n, r) => r.caller \in Callers(n)
         /\ Callers(n) # {} => Closed(n) \in Answers /\ ~Closed(n).ok /\ Closed(n).uneven
<1>1. \A c \in Callers(n) : \E r \in Requests : Holds(n, r) /\ r.caller = c
  <2> SUFFICES ASSUME NEW c \in Callers(n) PROVE \E r \in Requests : Holds(n, r) /\ r.caller = c
    OBVIOUS
  <2>1. CASE c \in {conn[n][i].caller : i \in DOMAIN conn[n]}
    <3>1. conn[n] # <<>> BY <2>1
    <3>2. conn[n][1] \in Requests /\ c = conn[n][1].caller BY <2>1, <3>1, Places
    <3>3. QED BY <3>1, <3>2 DEF Holds
  <2>2. CASE c \in {job[n][i].req.caller : i \in DOMAIN job[n]}
    <3>1. job[n] # <<>> BY <2>2
    <3>2. Req(n) \in Requests /\ c = Req(n).caller BY <2>2, <3>1, Places DEF Req
    <3>3. QED BY <3>1, <3>2 DEF Holds
  <2>3. QED BY <2>1, <2>2 DEF Callers
<1>2. \A r \in Requests : Holds(n, r) => r.caller \in Callers(n)
  <2>1. /\ conn[n] # <<>> => 1 \in DOMAIN conn[n]
        /\ job[n] # <<>> => 1 \in DOMAIN job[n]
    BY Places
  <2>2. QED BY <2>1 DEF Holds, Callers, Req
<1>3. ASSUME Callers(n) # {} PROVE Closed(n) \in Answers /\ ~Closed(n).ok /\ Closed(n).uneven
  <2> DEFINE a == Answer(FALSE, Lost, n)
             s == Shortened(a, 0)
  <2>1. Lost.table \in Tables /\ Lost.kind \in AllKinds
    <3>1. PICK r \in Requests : Holds(n, r) BY <1>1, <1>3
    <3>2. r.table \in Tables BY DEF Requests
    <3>3. QED BY <3>2 DEF Lost, AllKinds
  <2>3. a \in Answers /\ a.ok = FALSE /\ a.len = BodyLen /\ a.len # 0
    BY <2>1, AnswerFields
  <2> HIDE DEF a
  <2> DEFINE w == a.whole /\ 0 = a.len
             u == a.uneven \/ 0 # a.len
  <2>4. w \in BOOLEAN /\ u \in BOOLEAN /\ u = TRUE BY <2>3
  <2>5. s \in Answers /\ s.ok = FALSE /\ s.uneven = TRUE
    <3>1. s = [a EXCEPT !.len = 0, !.whole = w, !.uneven = u] BY DEF Shortened
    <3> HIDE DEF s, w, u
    <3>2. QED BY <2>3, <2>4, <3>1 DEF Answers
  <2>6. QED BY <2>5 DEF Closed, a
<1>4. QED BY <1>1, <1>2, <1>3

\* A crash keeps the invariant: its callers are told, its requests belong to nobody.
LEMMA CrashKeeps ==
  ASSUME CInv, NEW n \in Nodes, Crash(n)
  PROVE  CInv'
<1>1. TypeOK /\ Links /\ Once /\ Forwarded /\ Told /\ Answered /\ Dated BY DEF CInv
<1> DEFINE s == Closed(n)
<1>2. /\ conn' = [m \in Nodes |-> IF m = n THEN <<>> ELSE [i \in DOMAIN conn[m] |-> Left(n, conn[m][i])]]
      /\ job' = [m \in Nodes |->
           IF m = n THEN <<>>
           ELSE IF m \in Callers(n) THEN Orphan(n, Returned(job[m], Nothing, s))
           ELSE Orphan(n, job[m])]
      /\ answer' = [c \in Clients |-> IF c \in Callers(n) THEN <<s>> ELSE answer[c]]
  BY DEF Crash, Left, Closed, Lost, Orphan
<1>3. /\ up' = up \ {n} /\ faults < MaxFaults /\ faults' = faults + 1
      /\ UNCHANGED <<route, call, asks>>
  BY DEF Crash
<1>4. /\ faults \in Nat /\ faults' \in 0 .. MaxFaults /\ faults' > faults /\ RouteOK
      /\ Nodes \cap Clients = {} /\ Nobody \notin Nodes \cup Clients
  BY <1>1, <1>3, Places, ClusterAssumption
<1>5. Callers(n) # {} => s \in Answers /\ ~s.ok /\ s.uneven BY <1>1, CallersHeld
<1> HIDE DEF s
<1>6. conn'[n] = <<>> /\ job'[n] = <<>> BY <1>2
<1>7. \A m \in Nodes \ {n} :
        /\ conn[m] = <<>> => conn'[m] = <<>>
        /\ conn[m] # <<>> => conn'[m] = <<Left(n, conn[m][1])>>
  <2> SUFFICES ASSUME NEW m \in Nodes \ {n}
               PROVE  /\ conn[m] = <<>> => conn'[m] = <<>>
                      /\ conn[m] # <<>> => conn'[m] = <<Left(n, conn[m][1])>>
    OBVIOUS
  <2>1. conn'[m] = [i \in DOMAIN conn[m] |-> Left(n, conn[m][i])] BY <1>2
  <2>2. conn[m] # <<>> => DOMAIN conn[m] = {1} BY <1>1, Places
  <2>3. QED BY <2>1, <2>2
<1>8. \A m \in Callers(n) : m \in Nodes => m # n /\ job[m] # <<>> /\ job[m][1].pc = "waiting"
  <2> SUFFICES ASSUME NEW m \in Callers(n), m \in Nodes
               PROVE  m # n /\ job[m] # <<>> /\ job[m][1].pc = "waiting"
    OBVIOUS
  <2>1. PICK q \in Requests : Holds(n, q) /\ q.caller = m BY <1>1, CallersHeld
  <2>2. Link(n, q) BY <1>1, <2>1 DEF Links
  <2>3. QED BY <2>1, <2>2 DEF Link
<1>9. \A m \in Nodes \ {n} : job[m] = <<>> => job'[m] = <<>>
  <2> SUFFICES ASSUME NEW m \in Nodes \ {n}, job[m] = <<>> PROVE job'[m] = <<>> OBVIOUS
  <2>1. job'[m] = Orphan(n, job[m]) BY <1>2, <1>8
  <2>2. QED BY <2>1 DEF Orphan
<1>10. \A m \in Nodes \ {n} : job[m] # <<>> =>
         /\ job'[m] # <<>> /\ job'[m] \in AtMostOne(Jobs)
         /\ job'[m][1].req = Left(n, Req(m))
         /\ m \notin Callers(n) =>
              /\ job'[m][1].pc = job[m][1].pc
              /\ job[m][1].pc = "received" => job'[m][1].got = job[m][1].got
                                           /\ job'[m][1].reply = job[m][1].reply
         /\ m \in Callers(n) => job'[m][1].reply = s
  <2> SUFFICES ASSUME NEW m \in Nodes \ {n}, job[m] # <<>>
               PROVE  /\ job'[m] # <<>> /\ job'[m] \in AtMostOne(Jobs)
                      /\ job'[m][1].req = Left(n, Req(m))
                      /\ m \notin Callers(n) =>
                           /\ job'[m][1].pc = job[m][1].pc
                           /\ job[m][1].pc = "received" => job'[m][1].got = job[m][1].got
                                                        /\ job'[m][1].reply = job[m][1].reply
                      /\ m \in Callers(n) => job'[m][1].reply = s
    OBVIOUS
  <2>1. job[m][1] \in Jobs /\ job[m] = <<job[m][1]>> /\ Req(m) \in Requests /\ DOMAIN job[m] = {1}
    BY <1>1, Places
  <2>2. CASE m \notin Callers(n)
    <3> DEFINE x == job[m][1]
    <3>1. job'[m] = Orphan(n, <<x>>) /\ x.req = Req(m) /\ x \in Jobs BY <1>2, <2>1, <2>2 DEF Req
    <3> HIDE DEF x
    <3>2. QED BY <2>2, <3>1, OrphanJob DEF x
  <2>3. CASE m \in Callers(n)
    <3> DEFINE x == [req |-> Req(m), pc |-> "received", got |-> Nothing, reply |-> s]
    <3>1. Returned(job[m], Nothing, s) = <<x>> BY <2>1 DEF Returned, Req
    <3>2. job'[m] = Orphan(n, <<x>>) BY <1>2, <2>3, <3>1
    <3>3. x \in Jobs /\ x.req = Req(m) /\ x.pc = "received" /\ x.reply = s
      BY <1>5, <2>1, <2>3, NothingReceived DEF Jobs
    <3> HIDE DEF x
    <3>4. QED BY <2>3, <3>2, <3>3, OrphanJob
  <2>4. QED BY <2>2, <2>3
<1>11. TypeOK'
  <2>1. \A m \in Nodes : conn'[m] \in AtMostOne(Requests)
    <3> SUFFICES ASSUME NEW m \in Nodes PROVE conn'[m] \in AtMostOne(Requests) OBVIOUS
    <3>1. CASE m = n \/ conn[m] = <<>>
      <4>1. conn'[m] = <<>> BY <1>6, <1>7, <3>1
      <4>2. QED BY <4>1, AtMostOneNone
    <3>2. CASE m # n /\ conn[m] # <<>>
      <4>1. conn'[m] = <<Left(n, conn[m][1])>> /\ conn[m][1] \in Requests BY <1>1, <1>7, <3>2, Places
      <4>2. Left(n, conn[m][1]) \in Requests BY <4>1, LeftFields
      <4>3. QED BY <4>1, <4>2, AtMostOneSome
    <3>3. QED BY <3>1, <3>2
  <2>2. \A m \in Nodes : job'[m] \in AtMostOne(Jobs) BY <1>6, <1>9, <1>10, AtMostOneNone
  <2>3. \A c \in Clients : answer'[c] \in AtMostOne(Answers)
    <3> SUFFICES ASSUME NEW c \in Clients PROVE answer'[c] \in AtMostOne(Answers) OBVIOUS
    <3>1. CASE c \in Callers(n)
      <4>1. answer'[c] = <<s>> /\ s \in Answers BY <1>2, <1>5, <3>1
      <4>2. QED BY <4>1, AtMostOneSome
    <3>2. CASE c \notin Callers(n) BY <1>1, <1>2, <3>2 DEF TypeOK
    <3>3. QED BY <3>1, <3>2
  <2>4. /\ conn' \in [Nodes -> AtMostOne(Requests)] /\ job' \in [Nodes -> AtMostOne(Jobs)]
        /\ answer' \in [Clients -> AtMostOne(Answers)]
    <3>1. /\ conn' = [m \in Nodes |-> conn'[m]] /\ job' = [m \in Nodes |-> job'[m]]
          /\ answer' = [c \in Clients |-> answer'[c]]
      BY <1>2
    <3>2. QED BY <2>1, <2>2, <2>3, <3>1
  <2>5. QED BY <1>1, <1>3, <1>4, <2>4 DEF TypeOK
<1>12. \A m \in Nodes, r \in Requests : Holds(m, r)' =>
         m # n /\ r.caller # n /\ (r.caller # Nobody => Holds(m, r) /\ Link(m, r)) /\ Since(r)
  <2> SUFFICES ASSUME NEW m \in Nodes, NEW r \in Requests, Holds(m, r)'
               PROVE  m # n /\ r.caller # n /\ (r.caller # Nobody => Holds(m, r) /\ Link(m, r)) /\ Since(r)
    OBVIOUS
  <2>1. m # n BY <1>6 DEF Holds, Req
  <2>2. PICK q \in Requests : Holds(m, q) /\ r = Left(n, q)
    <3>1. CASE conn'[m] # <<>> /\ r = conn'[m][1]
      <4>1. conn[m] # <<>> /\ r = Left(n, conn[m][1]) BY <1>7, <2>1, <3>1
      <4>2. conn[m][1] \in Requests /\ Holds(m, conn[m][1]) BY <1>1, <4>1, Places DEF Holds
      <4>3. QED BY <4>1, <4>2
    <3>2. CASE job'[m] # <<>> /\ r = job'[m][1].req
      <4>1. job[m] # <<>> /\ r = Left(n, Req(m)) BY <1>9, <1>10, <2>1, <3>2
      <4>2. Req(m) \in Requests /\ Holds(m, Req(m)) BY <1>1, <4>1, Places DEF Holds
      <4>3. QED BY <4>1, <4>2
    <3>3. QED BY <3>1, <3>2 DEF Holds, Req
  <2>3. Since(r) BY <1>1, <2>2, LeftFields DEF Dated, Since
  <2>4. CASE q.caller = n
    <3>1. r.caller = Nobody BY <2>2, <2>4, LeftFields
    <3>2. QED BY <1>4, <2>1, <2>3, <3>1
  <2>5. CASE q.caller # n
    <3>1. r = q BY <2>2, <2>5, LeftFields
    <3>2. QED BY <1>1, <2>1, <2>2, <2>3, <2>5, <3>1 DEF Links
  <2>6. QED BY <2>4, <2>5
<1>13. Links'
  <2> SUFFICES ASSUME NEW m \in Nodes, NEW r \in Requests, Holds(m, r)', r.caller # Nobody PROVE Link(m, r)'
    BY <1>4 DEF Links, Link
  <2>1. m # n /\ r.caller # n /\ Holds(m, r) /\ Link(m, r) BY <1>12
  <2>2. r.caller \notin Callers(n)
    <3> SUFFICES ASSUME r.caller \in Callers(n) PROVE FALSE OBVIOUS
    <3>1. PICK q \in Requests : Holds(n, q) /\ q.caller = r.caller BY <1>1, CallersHeld
    <3>2. QED BY <1>1, <2>1, <3>1, OneHolder
  <2>3. CASE r.caller \in Clients
    <3>1. answer'[r.caller] = answer[r.caller] BY <1>2, <2>2, <2>3
    <3>2. QED BY <1>3, <1>4, <2>1, <2>3, <3>1 DEF Link
  <2>4. CASE r.caller \in Nodes
    <3> DEFINE x == r.caller
    <3>1. /\ x \in Nodes \ {n} /\ job[x] # <<>> /\ job[x][1].pc = "waiting" /\ Req(x).table = r.table
          /\ r.kind \in Reread(Req(x).kind) /\ Req(x).faults = r.faults /\ Req(x).up = r.up
          /\ x \notin Callers(n) /\ x \notin Clients
      BY <1>4, <2>1, <2>2, <2>4 DEF Link
    <3>2. Req(x) \in Requests BY <1>1, <3>1, Places
    <3> DEFINE y == Left(n, Req(x))
    <3>3. y.table = r.table /\ r.kind \in Reread(y.kind) /\ y.faults = r.faults /\ y.up = r.up
      BY <3>1, <3>2, LeftFields
    <3>4. job'[x] # <<>> /\ job'[x][1].pc = "waiting" /\ job'[x][1].req = y
      <4> HIDE DEF x
      <4>1. QED BY <1>10, <3>1
    <3> HIDE DEF y
    <3>5. QED BY <1>3, <2>1, <2>4, <3>1, <3>3, <3>4 DEF Link, Req
  <2>5. CASE r.caller \notin Clients \cup Nodes BY <2>5 DEF Link
  <2>6. QED BY <2>3, <2>4, <2>5
<1>14. Once'
  <2> SUFFICES ASSUME NEW m \in Nodes, conn'[m] # <<>>, job'[m] # <<>>,
                      conn'[m][1].caller = job'[m][1].req.caller
               PROVE  job'[m][1].req.caller = Nobody
    BY DEF Once, Req
  <2>1. m # n /\ conn[m] # <<>> /\ job[m] # <<>> BY <1>6, <1>7, <1>9
  <2>2. conn'[m][1] = Left(n, conn[m][1]) /\ job'[m][1].req = Left(n, Req(m)) BY <1>7, <1>10, <2>1
  <2>3. conn[m][1] \in Requests /\ Req(m) \in Requests BY <1>1, <2>1, Places
  <2>4. conn[m][1].caller # Req(m).caller \/ Req(m).caller = Nobody BY <1>1, <2>1 DEF Once
  <2>5. QED BY <1>4, <2>2, <2>3, <2>4, LeftFields
<1>15. Forwarded'
  <2> SUFFICES ASSUME NEW m \in Nodes, job'[m] # <<>>, job'[m][1].pc # "new"
               PROVE  job'[m][1].req.kind \in Queries /\ route'[m][job'[m][1].req.table] \in Nodes \ {m}
    BY DEF Forwarded, Req
  <2>1. m \in Nodes \ {n} /\ job[m] # <<>> BY <1>6, <1>9
  <2>2. Req(m) \in Requests /\ job'[m][1].req = Left(n, Req(m)) BY <1>1, <1>10, <2>1, Places
  <2>3. job'[m][1].req.kind = Req(m).kind /\ job'[m][1].req.table = Req(m).table BY <2>2, LeftFields
  <2>4. job[m][1].pc # "new" BY <1>8, <1>10, <2>1
  <2>5. QED BY <1>1, <1>3, <2>1, <2>3, <2>4 DEF Forwarded
<1>16. Told'
  <2> SUFFICES ASSUME NEW m \in Nodes, NEW t \in Tables, job'[m] # <<>>, job'[m][1].pc = "received",
                      job'[m][1].req.table = t
               PROVE  /\ Good(Owners(m, t), Way(m, t), FALSE, job'[m][1].req, t, job'[m][1].reply, faults')
                      /\ faults' > job'[m][1].req.faults
    BY <1>3, OwnersKept DEF Told, Req
  <2>1. m \in Nodes \ {n} /\ job[m] # <<>> BY <1>6, <1>9
  <2> DEFINE r == job'[m][1].req
  <2>2. Req(m) \in Requests /\ r = Left(n, Req(m)) BY <1>1, <1>10, <2>1, Places
  <2>3. /\ Req(m).table = t /\ r.kind = Req(m).kind /\ r.faults = Req(m).faults /\ r.up = Req(m).up
        /\ Req(m).faults \in Nat
    <3>1. Req(m).faults \in Nat BY <2>2 DEF Requests
    <3>2. QED BY <2>2, <3>1, LeftFields
  <2>4. faults' > r.faults
    <3>1. Since(Req(m)) BY <1>1, <2>1, <2>2 DEF Dated, Holds
    <3>2. QED BY <1>4, <2>3, <3>1 DEF Since
  <2>5. CASE m \in Callers(n)
    <3>1. job'[m][1].reply = s /\ ~s.ok /\ s.uneven BY <1>5, <1>10, <2>1, <2>5
    <3> HIDE DEF r
    <3>2. QED BY <2>4, <3>1 DEF Good, r
  <2>6. CASE m \notin Callers(n)
    <3>1. job[m][1].pc = "received" /\ job'[m][1].reply = job[m][1].reply BY <1>10, <2>1, <2>6
    <3>2. Good(Owners(m, t), Way(m, t), FALSE, Req(m), t, job[m][1].reply, faults)
      BY <1>1, <2>1, <2>3, <3>1 DEF Told
    <3> HIDE DEF r
    <3>3. Good(Owners(m, t), Way(m, t), FALSE, r, t, job[m][1].reply, faults')
      <4>1. faults \in Nat /\ faults' \in Nat /\ faults <= faults' BY <1>4
      <4>2. QED BY <2>3, <3>2, <4>1, GoodLater
    <3>4. QED BY <2>4, <3>1, <3>3 DEF r
  <2>7. QED BY <2>5, <2>6
<1>17. Answered'
  <2> SUFFICES ASSUME NEW c \in Clients, answer'[c] # <<>>
               PROVE  /\ call[c] # <<>>
                      /\ \A m \in Nodes, t \in Tables : call[c][1].node = m /\ call[c][1].table = t =>
                          Good(Owners(m, t), Way(m, t), route[m][t] = m, call[c][1], t, answer'[c][1], faults')
    BY <1>3, OwnersKept DEF Answered
  <2>1. CASE c \in Callers(n)
    <3>1. PICK q \in Requests : Holds(n, q) /\ q.caller = c BY <1>1, <2>1, CallersHeld
    <3>2. call[c] # <<>>
      <4>1. Link(n, q) BY <1>1, <3>1 DEF Links
      <4>2. QED BY <3>1, <4>1 DEF Link
    <3>3. answer'[c] = <<s>> BY <1>2, <2>1
    <3>4. answer'[c][1] = s /\ ~s.ok /\ s.uneven BY <1>5, <2>1, <3>3
    <3>5. faults' > call[c][1].faults
      <4>1. Link(n, q) /\ Since(q) BY <1>1, <3>1 DEF Links, Dated
      <4>2. call[c][1] = Asked(n, q) BY <3>1, <4>1, <2>1 DEF Link
      <4>3. call[c][1].faults = q.faults /\ q.faults \in Nat BY <4>2 DEF Asked, Requests
      <4>4. QED BY <1>4, <4>1, <4>3 DEF Since
    <3>6. QED BY <3>2, <3>4, <3>5 DEF Good
  <2>2. CASE c \notin Callers(n)
    <3>1. answer'[c] = answer[c] BY <1>2, <2>2
    <3>2. call[c] # <<>> /\ call[c][1].faults \in Nat BY <1>1, <3>1, Places DEF Answered, Calls
    <3>3. ASSUME NEW m \in Nodes, NEW t \in Tables, call[c][1].node = m, call[c][1].table = t
          PROVE  Good(Owners(m, t), Way(m, t), route[m][t] = m, call[c][1], t, answer'[c][1], faults')
      <4>1. Good(Owners(m, t), Way(m, t), route[m][t] = m, call[c][1], t, answer'[c][1], faults)
        BY <1>1, <3>1, <3>3 DEF Answered
      <4>2. faults \in Nat /\ faults' \in Nat /\ faults <= faults' BY <1>4
      <4>3. QED BY <3>2, <4>1, <4>2, GoodLater
    <3>4. QED BY <3>2, <3>3
  <2>3. QED BY <2>1, <2>2
<1>18. Dated'
  <2> SUFFICES ASSUME NEW m \in Nodes, NEW r \in Requests, Holds(m, r)' PROVE Since(r)'
    BY DEF Dated
  <2>1. Since(r) /\ r.faults \in Nat BY <1>12 DEF Requests
  <2>2. QED BY <1>4, <2>1 DEF Since
<1>19. QED BY <1>11, <1>13, <1>14, <1>15, <1>16, <1>17, <1>18 DEF CInv

\* What has been answered stays right when only connections change.
LEMMA GoodKept ==
  ASSUME CInv, UNCHANGED <<route, job, call, answer, faults>>
  PROVE  Told' /\ Answered'
<1>1. Told /\ Answered BY DEF CInv
<1>2. \A n, t : Owners(n, t)' = Owners(n, t) /\ Way(n, t)' = Way(n, t) BY OwnersKept
<1>3. Told' BY <1>1, <1>2 DEF Told, Req
<1>4. Answered' BY <1>1, <1>2 DEF Answered
<1>5. QED BY <1>3, <1>4

\* Every step of clients and nodes keeps the invariant ...
LEMMA CInvNext ==
  ASSUME CInv, [Next]_vars
  PROVE  CInv'
<1>1. ASSUME NEW c \in Clients, Ask(c) PROVE CInv' BY <1>1, AskKeeps
<1>2. ASSUME NEW n \in Nodes, Node(n) PROVE CInv'
  BY <1>2, TakeKeeps, OwnReplyKeeps, ForwardKeeps, PassOnKeeps DEF Node
<1>3. ASSUME NEW n \in Nodes, Crash(n) PROVE CInv' BY <1>3, CrashKeeps
<1>4. ASSUME NEW n \in Nodes, Restart(n) PROVE CInv'
  <2>1. UNCHANGED <<route, conn, job, call, answer, asks, faults>> /\ up' = up \cup {n}
    BY <1>4 DEF Restart
  <2>2. TypeOK' BY <2>1 DEF CInv, TypeOK
  <2>3. Links' /\ Once' /\ Forwarded' BY <2>1 DEF CInv, Links, Holds, Link, Once, Forwarded, Req
  <2>4. Told' /\ Answered' BY <2>1, GoodKept
  <2>5. Dated' BY <2>1 DEF CInv, Dated, Since, Holds, Req
  <2>6. QED BY <2>2, <2>3, <2>4, <2>5 DEF CInv
<1>5. CASE UNCHANGED vars
  <2>1. UNCHANGED <<route, up, conn, job, call, answer, asks, faults>> BY <1>5 DEF vars
  <2>2. TypeOK' BY <2>1 DEF CInv, TypeOK
  <2>3. Links' /\ Once' /\ Forwarded' BY <2>1 DEF CInv, Links, Holds, Link, Once, Forwarded, Req
  <2>4. Told' /\ Answered' BY <2>1, GoodKept
  <2>5. Dated' BY <2>1 DEF CInv, Dated, Since, Holds, Req
  <2>6. QED BY <2>2, <2>3, <2>4, <2>5 DEF CInv
<1>6. QED BY <1>1, <1>2, <1>3, <1>4, <1>5 DEF Next

\* ... it holds at first ...
LEMMA CInvInit ==
  ASSUME Init
  PROVE  CInv
<1>1. TypeOK
  <2>1. /\ <<>> \in AtMostOne(Requests) /\ <<>> \in AtMostOne(Jobs) /\ <<>> \in AtMostOne(Answers)
        /\ <<>> \in AtMostOne(Calls)
    BY AtMostOneNone
  <2>2. QED BY <2>1, ClusterAssumption DEF Init, TypeOK
<1>2. Links /\ Once /\ Forwarded /\ Told /\ Answered /\ Dated
  BY DEF Init, Links, Holds, Once, Forwarded, Told, Answered, Dated
<1>3. QED BY <1>1, <1>2 DEF CInv

\* ... and so always.
LEMMA CInvAlways == Spec => []CInv
<1>1. Init => CInv BY CInvInit
<1>2. CInv /\ [Next]_vars => CInv' BY CInvNext
<1>3. QED BY <1>1, <1>2, PTL DEF Spec
-----------------------------------------------------------------------------
\* Nodes and clients always hold requests, jobs and answers of the form that
\* DCPAM_WDS_query and NET_CONN_send make.
THEOREM ClusterTypeCorrect == Spec => []TypeOK
<1>1. CInv => TypeOK BY DEF CInv
<1>2. QED BY <1>1, CInvAlways, PTL

\* However many nodes DCPAM_WDS_get_node_data forwards a query through, and
\* whichever of them crash, data is of the table the client asked for, from the
\* node at the end of the way of the query, and for the SQL of the client unless
\* that had a quote or a backslash in it and was forwarded.
THEOREM DataFromItsOwner == Spec => []RightSource
<1>1. CInv => RightSource
  <2> SUFFICES ASSUME CInv, NEW c \in Clients, call[c] # <<>>, answer[c] # <<>>,
                      call[c][1].kind \in Queries \cup {"db"}, answer[c][1].ok
               PROVE  /\ answer[c][1].table = call[c][1].table
                      /\ answer[c][1].from \in Owners(call[c][1].node, call[c][1].table)
                      /\ answer[c][1].kind = call[c][1].kind \/ Garbled(c)
    BY DEF RightSource
  <2> DEFINE n == call[c][1].node
             t == call[c][1].table
  <2>1. n \in Nodes /\ t \in Tables BY Places DEF CInv, Calls
  <2>2. Good(Owners(n, t), Way(n, t), route[n][t] = n, call[c][1], t, answer[c][1], faults)
    BY <2>1 DEF CInv, Answered
  <2>3. call[c][1].kind # "other" BY Places DEF CInv, Calls
  <2>4. QED BY <2>2, <2>3 DEF Good, Garbled
<1>2. QED BY <1>1, CInvAlways, PTL

\* WDS_RESPONSE_ERROR reaches a client with a valid request only if the way of
\* the query ends at no node with the table, a node on it did not run when the
\* request was made, something failed since, or the SQL had a quote or a
\* backslash in it and was forwarded: earlier faults are no excuse.
THEOREM ErrorsHaveReasons == Spec => []ErrorForAReason
<1>1. CInv => ErrorForAReason
  <2> SUFFICES ASSUME CInv, NEW c \in Clients, call[c] # <<>>, answer[c] # <<>>
               PROVE  \/ answer[c][1].ok
                      \/ call[c][1].kind = "bad"
                      \/ call[c][1].kind = "db" /\ route[call[c][1].node][call[c][1].table] # call[c][1].node
                      \/ Owners(call[c][1].node, call[c][1].table) = {}
                      \/ ~Undisturbed(c) \/ Garbled(c)
    BY DEF ErrorForAReason
  <2> DEFINE n == call[c][1].node
             t == call[c][1].table
  <2>1. n \in Nodes /\ t \in Tables BY Places DEF CInv, Calls
  <2>2. Good(Owners(n, t), Way(n, t), route[n][t] = n, call[c][1], t, answer[c][1], faults)
    BY <2>1 DEF CInv, Answered
  <2>3. call[c][1].kind # "other" /\ call[c][1].faults \in Nat /\ faults \in Nat
    BY Places DEF CInv, Calls
  <2>4. QED BY <2>2, <2>3 DEF Good, Garbled, Undisturbed
<1>2. QED BY <1>1, CInvAlways, PTL

\* However the receive loops of NET_CONN_send on the way got an answer in
\* segments, it has its bytes in order unless a segment before the last did not
\* fill the space offered to recv or a send was short.
THEOREM AnswersIntact == Spec => []Intact
<1>1. CInv => Intact
  <2> SUFFICES ASSUME CInv, NEW c \in Clients, answer[c] # <<>>
               PROVE  answer[c][1].whole \/ answer[c][1].uneven
    BY DEF Intact
  <2> DEFINE n == call[c][1].node
             t == call[c][1].table
  <2>1. call[c] # <<>> BY DEF CInv, Answered
  <2>2. n \in Nodes /\ t \in Tables BY <2>1, Places DEF CInv, Calls
  <2>3. Good(Owners(n, t), Way(n, t), route[n][t] = n, call[c][1], t, answer[c][1], faults)
    BY <2>2 DEF CInv, Answered
  <2>4. QED BY <2>3 DEF Good
<1>2. QED BY <1>1, CInvAlways, PTL

\* NET_CONN_send never reads past the end of the buffer it grew by LEN bytes
\* whenever the step before was filled.
THEOREM ReceivesInBounds == Spec => []InBounds
<1>1. CInv => InBounds
  <2> SUFFICES ASSUME CInv, NEW n \in Nodes, Received(n)
               PROVE  job[n][1].got.bytes <= job[n][1].got.size
    BY DEF InBounds
  <2>1. job[n] # <<>> /\ job[n][1].pc = "received" BY DEF Received
  <2>2. job[n][1].got \in Deliveries BY <2>1, Places, JobCases DEF CInv
  <2>3. QED BY <2>2, DeliveriesInBounds
<1>2. QED BY <1>1, CInvAlways, PTL
=============================================================================

------------------------- MODULE SocketServerProofs -------------------------
(***************************************************************************)
(* Proofs about SocketServer, for every number of clients, descriptors and *)
(* entries of connected_clients, when clients come one after the other and *)
(* FD_CLR is not torn (with clients at the same time the server loop mixes *)
(* them up: see the property Served).                                      *)
(***************************************************************************)
EXTENDS SocketServer, FiniteSetTheorems, WellFoundedInduction, TLAPS

\* A component with another thread that uses NET_CONN closes each connection
\* once, clears its entry, and has clients that wait for their answers.
Disciplined ==
  \A p \in Programs : p.thread => p.unregister /\ p.closes = {1} /\ ~p.leave

OneByOne == Serial /\ ~Racy /\ MAX_CLIENTS # 0 /\ Disciplined
-----------------------------------------------------------------------------
(***************************************************************************)
(* The inductive invariant.                                                *)
(***************************************************************************)

\* There is at most one connection: it waits for accept, or is newfd.
OneConnection ==
  /\ queue # <<>> => queue = <<queue[1]>> /\ \A f \in Fds : owner[f] \notin Clients
  /\ \A f \in Fds : owner[f] \in Clients => f = newfd

\* Server is the listener, and the other thread has the descriptor it opened.
Owners ==
  /\ \A f \in Fds : owner[f] = "listener" <=> f = Server
  /\ \A f \in Fds : owner[f] = "thread" <=> (tpc # "idle" /\ f = tfd)
  /\ tpc # "idle" => tfd \in Fds /\ program.thread
  /\ newfd # Server

\* select watches the listener and the connection, and the scan comes to
\* either of them, never to both.
Watched ==
  /\ \A f \in master : f = Server \/ owner[f] \in Clients
  /\ ready # {} => pc = "scan"
  /\ Server \in ready => queue # <<>>
  /\ \A f \in ready : f = Server \/ (f = newfd /\ owner[f] \in Clients)

\* While a callback may still close newfd no other thread can have it.
Closing ==
  /\ pc = "callback" /\ closes = 0 => newfd = 0 \/ owner[newfd] \notin Clients
  /\ pc = "callback" => newfd \in Fds
  /\ program.thread =>
       /\ pc = "callback" /\ closes # 0 => closes = 1 /\ owner[newfd] \in Clients
       /\ \A c \in Clients : peer[c] # "left"

\* The lowest descriptor that is not the listener's.
Second == Lowest(Fds \ {Server})

\* connected_clients has an entry of the connection that is not answered yet,
\* and no other but those of earlier connections, which had its descriptor.
Table ==
  /\ program.unregister =>
       /\ \A s, t \in Slots : table[s] # 0 /\ table[t] # 0 => s = t
       /\ \A s \in Slots : table[s] # 0 =>
            table[s] = newfd /\ owner[newfd] \in Clients /\ pc # "callback"
  /\ ~program.unregister => \A s \in Slots : table[s] \in {0, Second}
  /\ newfd \in Fds /\ owner[newfd] \in Clients /\ pc # "callback" =>
       \E s \in Slots : table[s] = newfd

SInv == TypeOK /\ OneConnection /\ Owners /\ Watched /\ Closing /\ Table
-----------------------------------------------------------------------------
(***************************************************************************)
(* The lowest and the highest of some descriptors or entries.              *)
(***************************************************************************)
LEMMA LowestIn ==
  ASSUME NEW S \in SUBSET Nat, S # {}
  PROVE  Lowest(S) \in S /\ \A g \in S : Lowest(S) <= g
<1> DEFINE Less == {ss \in Nat \X Nat : ss[1] < ss[2]}
<1>1. IsWellFoundedOn(Less, Nat) BY NatLessThanWellFounded DEF OpToRel
<1>2. PICK x \in S : \A y \in S : <<y, x>> \notin Less
  <2> HIDE DEF Less
  <2>1. QED BY <1>1, WFMin
<1>3. \A y \in S : x <= y
  <2> SUFFICES ASSUME NEW y \in S, y < x PROVE FALSE OBVIOUS
  <2>1. <<y, x>> \in Less OBVIOUS
  <2>2. QED BY <1>2, <2>1
<1>4. QED BY <1>2, <1>3 DEF Lowest

\* The highest of some descriptors is one of them.
LEMMA HighestIn ==
  ASSUME NEW S \in SUBSET Fds, S # {}
  PROVE  Highest(S) \in S
<1> DEFINE T == {F - f : f \in S}
<1>1. F \in Nat /\ \A f \in S : f \in Nat /\ f <= F BY ServerAssumption DEF Fds
<1>2. T \in SUBSET Nat /\ T # {} BY <1>1
<1>3. Lowest(T) \in T /\ \A g \in T : Lowest(T) <= g
  <2> HIDE DEF T
  <2>1. QED BY <1>2, LowestIn
<1>4. PICK f \in S : Lowest(T) = F - f BY <1>3
<1>5. \A g \in S : f >= g
  <2> SUFFICES ASSUME NEW g \in S PROVE f >= g OBVIOUS
  <2>1. F - g \in T OBVIOUS
  <2>2. F - f <= F - g BY <1>3, <1>4, <2>1
  <2>3. QED BY <1>1, <2>2
<1>6. QED BY <1>5 DEF Highest

\* SOCKET_unregister_client clears one entry with the descriptor, if any.
LEMMA UnregisteredTable ==
  ASSUME TypeOK, NEW f
  PROVE  /\ Unregistered(f) \in [Slots -> 0 .. F]
         /\ \A s \in Slots : Unregistered(f)[s] # table[s] => Unregistered(f)[s] = 0 /\ table[s] = f
         /\ (\E s \in Slots : table[s] = f) => \E s \in Slots : table[s] = f /\ Unregistered(f)[s] = 0
<1> DEFINE found == {s \in Slots : table[s] = f}
<1>1. CASE found = {}
  <2>1. Unregistered(f) = table BY <1>1 DEF Unregistered
  <2>2. QED BY <1>1, <2>1 DEF TypeOK
<1>2. CASE found # {}
  <2>1. Slots \subseteq Nat BY ServerAssumption DEF Slots
  <2>2. found \in SUBSET Nat BY <2>1
  <2> DEFINE l == Lowest(found)
  <2>3. l \in found
    <3> HIDE DEF found
    <3>1. QED BY <1>2, <2>2, LowestIn
  <2>4. Unregistered(f) = [table EXCEPT ![l] = 0] BY <1>2 DEF Unregistered
  <2> HIDE DEF l
  <2>5. table \in [Slots -> 0 .. F] /\ F \in Nat BY ServerAssumption DEF TypeOK
  <2>6. QED BY <2>3, <2>4, <2>5
<1>3. QED BY <1>1, <1>2

\* SOCKET_register_client fills one free entry, if there is any.
LEMMA RegisteredTable ==
  ASSUME TypeOK, NEW f \in Fds
  PROVE  /\ Registered(f) \in [Slots -> 0 .. F]
         /\ (\A s \in Slots : table[s] # 0) => Registered(f) = table
         /\ (\E s \in Slots : table[s] = 0) =>
              \E l \in Slots : /\ table[l] = 0 /\ Registered(f)[l] = f
                               /\ \A s \in Slots \ {l} : Registered(f)[s] = table[s]
<1> DEFINE free == {s \in Slots : table[s] = 0}
<1>1. CASE free = {}
  <2>1. Registered(f) = table BY <1>1 DEF Registered
  <2>2. QED BY <1>1, <2>1 DEF TypeOK
<1>2. CASE free # {}
  <2>1. Slots \subseteq Nat BY ServerAssumption DEF Slots
  <2>2. free \in SUBSET Nat BY <2>1
  <2> DEFINE l == Lowest(free)
  <2>3. l \in free
    <3> HIDE DEF free
    <3>1. QED BY <1>2, <2>2, LowestIn
  <2>4. Registered(f) = [table EXCEPT ![l] = f] BY <1>2 DEF Registered
  <2> HIDE DEF l
  <2>5. table \in [Slots -> 0 .. F] /\ f \in 0 .. F BY ServerAssumption DEF TypeOK, Fds
  <2>6. QED BY <2>3, <2>4, <2>5
<1>3. QED BY <1>1, <1>2

\* There is a free descriptor for the next connection, and for the other thread.
LEMMA FreeFdFound ==
  ASSUME SInv, queue # <<>> \/ tpc = "idle"
  PROVE  Lowest(FreeFds) \in FreeFds
<1>1. /\ TypeOK /\ OneConnection /\ Owners /\ F \in Nat /\ Fds = 1 .. F /\ Server \in Fds
  BY ServerAssumption DEF SInv, Fds
<1>2. Clients # {} => F >= 3
  <2>1. Cardinality(Clients) \in Nat /\ F >= Cardinality(Clients) + 2
    BY ServerAssumption, FS_CardinalityType
  <2>2. Clients # {} => Cardinality(Clients) # 0 BY ServerAssumption, FS_EmptySet
  <2>3. QED BY <1>1, <2>1, <2>2
<1>3. F >= 2 BY ServerAssumption, FS_CardinalityType
<1>4. FreeFds # {}
  <2> SUFFICES ASSUME FreeFds = {} PROVE FALSE OBVIOUS
  <2>1. \A f \in Fds : f = Server \/ f = tfd \/ (owner[f] \in Clients /\ f = newfd)
    BY <1>1 DEF FreeFds, TypeOK, Owners, OneConnection
  <2>2. CASE queue # <<>>
    <3>1. Clients # {}
      <4>1. queue \in Seq(Clients) BY <1>1 DEF TypeOK
      <4>2. queue[1] \in Clients BY <2>2, <4>1
      <4>3. QED BY <4>2
    <3>2. \A f \in Fds : f = Server \/ f = tfd BY <1>1, <2>1, <2>2 DEF OneConnection
    <3>3. 1 \in Fds /\ 2 \in Fds /\ 3 \in Fds BY <1>1, <1>2, <3>1
    <3>4. QED BY <3>2, <3>3
  <2>3. CASE tpc = "idle"
    <3>1. \A f \in Fds : f = Server \/ (owner[f] \in Clients /\ f = newfd)
      BY <1>1, <2>3 DEF FreeFds, TypeOK, Owners, OneConnection
    <3>2. CASE Clients = {}
      <4>1. 1 \in Fds /\ 2 \in Fds BY <1>1, <1>3
      <4>2. QED BY <3>1, <3>2, <4>1
    <3>3. CASE Clients # {}
      <4>1. 1 \in Fds /\ 2 \in Fds /\ 3 \in Fds BY <1>1, <1>2, <3>3
      <4>2. QED BY <3>1, <4>1
    <3>4. QED BY <3>2, <3>3
  <2>4. QED BY <2>2, <2>3
<1>5. FreeFds \in SUBSET Nat BY <1>1 DEF FreeFds
<1>6. QED BY <1>4, <1>5, LowestIn
-----------------------------------------------------------------------------
(***************************************************************************)
(* Every step keeps the invariant.                                         *)
(***************************************************************************)

\* What the names of the constants and the types say.
LEMMA Names ==
  ASSUME TypeOK
  PROVE  /\ F \in Nat /\ Fds = 1 .. F /\ Server \in Fds /\ 0 \notin Fds /\ MAX_CLIENTS \in Nat
         /\ "free" \notin Clients /\ "listener" \notin Clients /\ "thread" \notin Clients
         /\ program.closes \subseteq Nat \ {0} /\ program.unregister \in BOOLEAN
         /\ \A f \in Fds : owner[f] \in {"free", "listener", "thread"} \cup Clients
<1>1. program \in [closes : SUBSET (Nat \ {0}), unregister : BOOLEAN, thread : BOOLEAN, leave : BOOLEAN]
  BY ServerAssumption DEF TypeOK
<1>2. QED BY <1>1, ServerAssumption DEF TypeOK, Fds

\* Steps of the clients alone.
LEMMA PeerKeeps ==
  ASSUME SInv, TypeOK', UNCHANGED <<server, rest>>,
         program.thread => \A c \in Clients : peer'[c] # "left"
  PROVE  SInv'
<1>1. UNCHANGED <<queue, owner, master, ready, newfd, table, pc, closes, program, tfd, tpc, tmaster>>
  BY DEF server, rest
<1>2. OneConnection' /\ Owners' BY <1>1 DEF SInv, OneConnection, Owners
<1>3. Watched' /\ Closing' BY <1>1 DEF SInv, Watched, Closing
<1>4. Table' BY <1>1 DEF SInv, Table
<1>5. QED BY <1>2, <1>3, <1>4 DEF SInv

\* A client that connects, sends or leaves keeps the invariant.
LEMMA ClientKeeps ==
  ASSUME SInv, OneByOne, NEW c \in Clients, Connect(c) \/ Send(c) \/ Leave(c)
  PROVE  SInv'
<1>1. TypeOK /\ Closing BY DEF SInv
<1>2. CASE Send(c)
  <2>1. peer' = [peer EXCEPT ![c] = "waiting"] /\ UNCHANGED <<server, rest>> BY <1>2 DEF Send
  <2>2. TypeOK' BY <1>1, <2>1 DEF TypeOK, server, rest
  <2>3. program.thread => \A d \in Clients : peer'[d] # "left" BY <1>1, <2>1 DEF TypeOK, Closing
  <2>4. QED BY <2>1, <2>2, <2>3, PeerKeeps
<1>3. CASE Leave(c)
  <2>1. peer' = [peer EXCEPT ![c] = "left"] /\ UNCHANGED <<server, rest>> /\ program.leave
    BY <1>3 DEF Leave
  <2>2. TypeOK' BY <1>1, <2>1 DEF TypeOK, server, rest
  <2>3. ~program.thread BY <1>1, <2>1 DEF TypeOK, OneByOne, Disciplined
  <2>4. QED BY <2>1, <2>2, <2>3, PeerKeeps
<1>4. CASE Connect(c)
  <2>1. /\ peer' = [peer EXCEPT ![c] = "connecting"] /\ queue' = Append(queue, c)
        /\ UNCHANGED <<owner, master, ready, newfd, table, pc, closes, program, tfd, tpc, tmaster>>
        /\ \A d \in Clients : ~Connected(d)
    BY <1>4 DEF Connect, rest, OneByOne
  <2>2. queue = <<>>
    <3> SUFFICES ASSUME queue # <<>> PROVE FALSE OBVIOUS
    <3>1. queue \in Seq(Clients) BY <1>1 DEF TypeOK
    <3>2. queue[1] \in Clients /\ 1 \in 1 .. Len(queue) BY <3>1
    <3>3. QED BY <2>1, <3>2 DEF Connected
  <2>3. \A f \in Fds : owner[f] \notin Clients BY <2>1 DEF Connected
  <2>4. queue' = <<c>> /\ <<c>> \in Seq(Clients) /\ <<c>>[1] = c BY <2>1, <2>2
  <2>5. TypeOK' BY <1>1, <2>1, <2>4 DEF TypeOK
  <2>6. OneConnection' BY <2>1, <2>3, <2>4 DEF SInv, OneConnection
  <2>7. Owners' /\ Watched' BY <2>1, <2>4 DEF SInv, Owners, Watched
  <2>8. Closing' BY <1>1, <2>1 DEF TypeOK, Closing
  <2>9. Table' BY <2>1 DEF SInv, Table
  <2>10. QED BY <2>5, <2>6, <2>7, <2>8, <2>9 DEF SInv
<1>5. QED BY <1>2, <1>3, <1>4

\* So does select ...
LEMMA SelectKeeps ==
  ASSUME SInv, Select \/ ScanEnd \/ CallbackReturns
  PROVE  SInv'
<1>1. TypeOK /\ OneConnection /\ Owners /\ Watched /\ Closing /\ Table BY DEF SInv
<1>2. UNCHANGED <<peer, queue, owner, master, newfd, table, closes, program, tfd, tpc, tmaster>>
  BY DEF Select, ScanEnd, CallbackReturns, rest
<1>3. /\ ready' \subseteq {f \in master : Readable(f)} \cup ready
      /\ pc' \in {"scan", "select", "exited"} /\ (ready' # {} => pc' = "scan")
      /\ pc = "callback" => closes = 0
  <2>1. CASE Select BY <2>1 DEF Select
  <2>2. CASE ScanEnd BY <2>2 DEF ScanEnd
  <2>3. CASE CallbackReturns BY <1>1, <2>3 DEF CallbackReturns
  <2>4. QED BY <2>1, <2>2, <2>3
<1>4. TypeOK' BY <1>1, <1>2, <1>3 DEF TypeOK
<1>5. OneConnection' BY <1>1, <1>2 DEF OneConnection
<1>6. Owners' BY <1>1, <1>2 DEF Owners
<1>7. Watched'
  <2>1. \A f \in {f \in master : Readable(f)} :
          (f = Server => queue # <<>>) /\ (f = Server \/ (f = newfd /\ owner[f] \in Clients))
    <3> SUFFICES ASSUME NEW f \in master, Readable(f)
                 PROVE  (f = Server => queue # <<>>) /\ (f = Server \/ (f = newfd /\ owner[f] \in Clients))
      OBVIOUS
    <3>1. f \in Fds BY <1>1 DEF TypeOK
    <3>2. owner[Server] = "listener" BY <1>1, Names DEF Owners
    <3>3. QED BY <1>1, <3>1, <3>2, Names DEF Readable, Watched, OneConnection
  <2>2. QED BY <1>1, <1>2, <1>3, <2>1 DEF Watched
<1>8. Closing' BY <1>1, <1>2, <1>3 DEF Closing
<1>9. Table'
  <2>1. pc = "callback" /\ newfd \in Fds => owner[newfd] \notin Clients BY <1>1, <1>3, Names DEF Closing
  <2>2. QED BY <1>1, <1>2, <1>3, <2>1 DEF Table
<1>10. QED BY <1>4, <1>5, <1>6, <1>7, <1>8, <1>9 DEF SInv

\* The turn of a descriptor, and what then is ready.
LEMMA TurnIs ==
  ASSUME SInv, NEW f, Turn(f)
  PROVE  /\ f \in ready /\ pc = "scan"
         /\ f = Server => ready = {Server} /\ queue # <<>> /\ \A g \in Fds : owner[g] \notin Clients
         /\ f # Server => ready = {newfd} /\ f = newfd /\ newfd \in Fds /\ owner[newfd] \in Clients
<1>1. TypeOK /\ OneConnection /\ Watched BY DEF SInv
<1>2. f \in ready /\ pc = "scan" /\ ready \subseteq Fds
  BY <1>1, HighestIn DEF Turn, TypeOK
<1>3. QED BY <1>1, <1>2 DEF Watched, OneConnection

\* ... accept, with a registration or a refusal ...
LEMMA AcceptKeeps ==
  ASSUME SInv, OneByOne, Accept
  PROVE  SInv'
<1>1. TypeOK /\ OneConnection /\ Owners /\ Watched /\ Closing /\ Table BY DEF SInv
<1>2. ready = {Server} /\ pc = "scan" /\ queue # <<>> /\ \A g \in Fds : owner[g] \notin Clients
  BY TurnIs DEF Accept
<1> DEFINE g == newfd'
           c == Head(queue)
<1>3. g = Lowest(FreeFds) /\ g \in FreeFds BY <1>2, FreeFdFound DEF Accept
<1>4. /\ g \in Fds /\ owner[g] = "free" /\ g # Server /\ g \in 0 .. F /\ g # 0
  BY <1>1, <1>3, Names DEF FreeFds, Owners
<1>5. queue \in Seq(Clients) /\ c \in Clients /\ queue' = <<>>
  <2>1. queue \in Seq(Clients) /\ queue = <<queue[1]>> BY <1>1, <1>2 DEF TypeOK, OneConnection
  <2>2. queue' = Tail(queue) BY DEF Accept
  <2>3. queue[1] \in Clients BY <1>2, <2>1
  <2>4. QED BY <2>1, <2>2, <2>3
<1>6. ready' = {} /\ UNCHANGED <<pc, closes, program, tfd, tpc, tmaster>>
  BY <1>2 DEF Accept, rest
<1>7. \/ /\ table' = Unregistered(g) /\ peer' = [peer EXCEPT ![c] = IF @ = "left" THEN @ ELSE "dropped"]
         /\ master' = master \ {g} /\ owner' = owner
      \/ /\ table' = Registered(g) /\ owner' = [owner EXCEPT ![g] = c]
         /\ master' = master \cup {g} /\ peer' = peer
  BY DEF Accept
<1>8. program.unregister => \A s \in Slots : table[s] = 0
  <2>1. newfd \in Fds => owner[newfd] \notin Clients BY <1>2
  <2>2. \A s \in Slots : table[s] # 0 => table[s] \in Fds BY <1>1, Names DEF TypeOK
  <2>3. QED BY <1>1, <2>1, <2>2 DEF Table
<1>9. ~program.unregister => g = Second
  <2> SUFFICES ASSUME ~program.unregister PROVE g = Second OBVIOUS
  <2>1. ~program.thread BY <1>1 DEF TypeOK, OneByOne, Disciplined
  <2>2. \A f \in Fds : owner[f] # "thread" BY <1>1, <2>1 DEF Owners
  <2>3. FreeFds = Fds \ {Server} BY <1>1, <1>2, <2>2, Names DEF FreeFds, Owners
  <2>4. QED BY <1>3, <2>3 DEF Second
<1> HIDE DEF g, c
<1>10. newfd' = g BY DEF g
<1>11. CASE /\ table' = Unregistered(g) /\ peer' = [peer EXCEPT ![c] = IF @ = "left" THEN @ ELSE "dropped"]
            /\ master' = master \ {g} /\ owner' = owner
  <2>1. /\ table' \in [Slots -> 0 .. F]
        /\ \A s \in Slots : table'[s] # table[s] => table'[s] = 0 /\ table[s] = g
    BY <1>1, <1>11, UnregisteredTable
  <2>2. TypeOK' BY <1>1, <1>4, <1>5, <1>6, <1>10, <1>11, <2>1 DEF TypeOK
  <2>3. OneConnection' /\ Owners' BY <1>1, <1>2, <1>4, <1>5, <1>6, <1>10, <1>11 DEF OneConnection, Owners
  <2>4. Watched' BY <1>1, <1>6, <1>11 DEF Watched
  <2>5. Closing' BY <1>1, <1>2, <1>5, <1>6, <1>11 DEF Closing, TypeOK
  <2>6. Table' BY <1>1, <1>2, <1>4, <1>6, <1>8, <1>10, <1>11, <2>1 DEF Table
  <2>7. QED BY <2>2, <2>3, <2>4, <2>5, <2>6 DEF SInv
<1>12. CASE /\ table' = Registered(g) /\ owner' = [owner EXCEPT ![g] = c]
            /\ master' = master \cup {g} /\ peer' = peer
  <2>1. table' \in [Slots -> 0 .. F] BY <1>1, <1>4, <1>12, RegisteredTable
  <2>2. owner'[g] = c /\ \A f \in Fds \ {g} : owner'[f] = owner[f] BY <1>1, <1>4, <1>12 DEF TypeOK
  <2>3. TypeOK' BY <1>1, <1>4, <1>5, <1>6, <1>10, <1>12, <2>1 DEF TypeOK
  <2>4. OneConnection' BY <1>2, <1>5, <1>10, <2>2 DEF OneConnection
  <2>5. Owners'
    <3>1. tpc # "idle" => tfd # g BY <1>1, <1>4 DEF Owners
    <3>2. QED BY <1>1, <1>4, <1>5, <1>6, <1>10, <2>2, <3>1, Names DEF Owners
  <2>6. Watched'
    <3>1. master \subseteq Fds BY <1>1 DEF TypeOK
    <3>2. QED BY <1>1, <1>4, <1>5, <1>6, <1>12, <2>2, <3>1, Names DEF Watched
  <2>7. Closing' BY <1>1, <1>2, <1>6, <1>12 DEF Closing
  <2>8. Table'
    <3>1. 1 \in Slots BY <1>1, Names DEF OneByOne, Slots
    <3>2. CASE program.unregister
      <4>1. PICK l \in Slots : table'[l] = g /\ \A s \in Slots \ {l} : table'[s] = table[s]
        BY <1>1, <1>4, <1>8, <1>12, <3>1, <3>2, RegisteredTable
      <4>2. \A s \in Slots : table'[s] # 0 => s = l BY <1>8, <3>2, <4>1
      <4>3. \A s \in Slots : table'[s] # 0 => table'[s] = g BY <4>1, <4>2
      <4>4. QED BY <1>2, <1>5, <1>6, <1>10, <2>2, <3>2, <4>1, <4>2, <4>3 DEF Table
    <3>3. CASE ~program.unregister
      <4>1. \A s \in Slots : table[s] \in {0, Second} BY <1>1, <3>3 DEF Table
      <4>2. CASE \A s \in Slots : table[s] # 0
        <5>1. table' = table BY <1>1, <1>4, <1>12, <4>2, RegisteredTable
        <5>2. table'[1] = g BY <1>9, <3>1, <3>3, <4>1, <4>2, <5>1
        <5>3. QED BY <1>6, <1>10, <3>1, <3>3, <4>1, <5>1, <5>2 DEF Table, Second
      <4>3. CASE \E s \in Slots : table[s] = 0
        <5>1. PICK l \in Slots : table'[l] = g /\ \A s \in Slots \ {l} : table'[s] = table[s]
          BY <1>1, <1>4, <1>12, <4>3, RegisteredTable
        <5>2. \A s \in Slots : table'[s] \in {0, Second} BY <1>9, <3>3, <4>1, <5>1
        <5>3. QED BY <1>6, <1>10, <3>3, <5>1, <5>2 DEF Table, Second
      <4>4. QED BY <4>2, <4>3
    <3>4. QED BY <3>2, <3>3
  <2>9. QED BY <2>3, <2>4, <2>5, <2>6, <2>7, <2>8 DEF SInv
<1>13. QED BY <1>7, <1>11, <1>12 DEF g, c

\* SOCKET_close of the connection, or of the thread's descriptor.
LEMMA ClosedOwner ==
  ASSUME TypeOK, NEW f \in Fds, f # Server
  PROVE  /\ Closed(f) \in [Fds -> {"free", "listener", "thread"} \cup Clients]
         /\ Closed(f)[f] = "free" /\ \A g \in Fds \ {f} : Closed(f)[g] = owner[g]
  BY DEF Closed, TypeOK

\* (What a closed descriptor does to its client.)
LEMMA HangupPeer ==
  ASSUME TypeOK, NEW f, NEW outcome \in {"dropped", "answered"}
  PROVE  /\ Hangup(f, outcome) \in [Clients -> {"away", "connecting", "waiting", "answered", "dropped", "left"}]
         /\ \A c \in Clients : Hangup(f, outcome)[c] = "left" => peer[c] = "left"
  BY DEF Hangup, TypeOK

\* ... the end of a connection found by SOCKET_process ...
LEMMA ProcessFailsKeeps ==
  ASSUME SInv, NEW f, ProcessFails(f)
  PROVE  SInv'
<1>1. TypeOK /\ OneConnection /\ Owners /\ Watched /\ Closing /\ Table BY DEF SInv
<1>2. ready = {newfd} /\ f = newfd /\ newfd \in Fds /\ owner[newfd] \in Clients /\ pc = "scan" /\ newfd # Server
  BY <1>1, TurnIs DEF ProcessFails, Owners
<1>3. /\ table' = Unregistered(newfd) /\ master' = master \ {newfd} /\ owner' = Closed(newfd)
      /\ peer' = Hangup(newfd, "dropped") /\ ready' = {}
      /\ UNCHANGED <<queue, newfd, program, tfd, tpc, tmaster>>
  BY <1>2 DEF ProcessFails, rest
<1>4. \/ pc' = "callback" /\ closes' = 1 /\ peer[owner[newfd]] = "left"
      \/ pc' = "scan" /\ closes' = 0
  <2>1. PICK r \in Received : r \in {"error", "eof"} /\ closes' = (IF r = "eof" THEN 1 ELSE 0)
                              /\ pc' = IF r = "eof" THEN "callback" ELSE "scan"
    BY DEF ProcessFails
  <2>2. owner[newfd] # "thread" /\ owner[newfd] # "free" BY <1>1, <1>2, Names
  <2>3. r = "eof" => peer[owner[newfd]] = "left" BY <2>1, <2>2 DEF Received
  <2>4. QED BY <2>1, <2>3
<1>5. /\ owner' \in [Fds -> {"free", "listener", "thread"} \cup Clients]
      /\ owner'[newfd] = "free" /\ \A g \in Fds \ {newfd} : owner'[g] = owner[g]
  BY <1>1, <1>2, <1>3, ClosedOwner
<1>6. /\ table' \in [Slots -> 0 .. F]
      /\ \A s \in Slots : table'[s] # table[s] => table'[s] = 0 /\ table[s] = newfd
      /\ (\E s \in Slots : table[s] = newfd) => \E s \in Slots : table[s] = newfd /\ table'[s] = 0
  BY <1>1, <1>3, UnregisteredTable
<1>7. /\ peer' \in [Clients -> {"away", "connecting", "waiting", "answered", "dropped", "left"}]
      /\ \A c \in Clients : peer'[c] = "left" => peer[c] = "left"
  BY <1>1, <1>3, HangupPeer
<1>8. TypeOK' BY <1>1, <1>3, <1>4, <1>5, <1>6, <1>7 DEF TypeOK
<1>9. "free" \notin Clients BY <1>1, Names
<1>10. OneConnection' BY <1>1, <1>3, <1>5, <1>9 DEF OneConnection
<1>11. Owners' BY <1>1, <1>2, <1>3, <1>5, Names DEF Owners
<1>12. Watched'
  <2>1. master \subseteq Fds BY <1>1 DEF TypeOK
  <2>2. QED BY <1>1, <1>3, <1>5, <2>1 DEF Watched
<1>13. Closing' BY <1>1, <1>2, <1>3, <1>4, <1>7 DEF Closing
<1>14. Table'
  <2>1. program.unregister => \A s \in Slots : table'[s] = 0
    BY <1>1, <1>6 DEF Table
  <2>2. ~program.unregister => \A s \in Slots : table'[s] \in {0, Second} BY <1>1, <1>6 DEF Table
  <2>3. QED BY <1>3, <1>5, <1>9, <2>1, <2>2 DEF Table, Second
<1>15. QED BY <1>8, <1>10, <1>11, <1>12, <1>13, <1>14 DEF SInv

\* ... a request that is read ...
LEMMA ProcessDataKeeps ==
  ASSUME SInv, OneByOne, NEW f, ProcessData(f)
  PROVE  SInv'
<1>1. TypeOK /\ OneConnection /\ Owners /\ Watched /\ Closing /\ Table BY DEF SInv
<1>2. ready = {newfd} /\ f = newfd /\ newfd \in Fds /\ owner[newfd] \in Clients /\ pc = "scan"
  BY <1>1, TurnIs DEF ProcessData
<1>3. /\ table' = (IF program.unregister THEN Unregistered(newfd) ELSE table) /\ ready' = {} /\ pc' = "callback"
      /\ closes' \in program.closes
      /\ UNCHANGED <<peer, queue, owner, master, newfd, program, tfd, tpc, tmaster>>
  BY <1>2 DEF ProcessData, rest
<1>4. closes' \in Nat \ {0} BY <1>1, <1>3, Names
<1>5. program.thread => closes' = 1 BY <1>1, <1>3 DEF TypeOK, OneByOne, Disciplined
<1>6. /\ Unregistered(newfd) \in [Slots -> 0 .. F]
      /\ \A s \in Slots : Unregistered(newfd)[s] # table[s] => Unregistered(newfd)[s] = 0 /\ table[s] = newfd
      /\ (\E s \in Slots : table[s] = newfd) => \E s \in Slots : table[s] = newfd /\ Unregistered(newfd)[s] = 0
  BY <1>1, UnregisteredTable
<1>7. TypeOK' BY <1>1, <1>3, <1>4, <1>6 DEF TypeOK
<1>8. OneConnection' /\ Owners' BY <1>1, <1>3 DEF OneConnection, Owners
<1>9. Watched' BY <1>1, <1>3 DEF Watched
<1>10. Closing' BY <1>1, <1>2, <1>3, <1>4, <1>5 DEF Closing
<1>11. Table'
  <2>1. program.unregister => \A s \in Slots : table'[s] = 0
    BY <1>1, <1>3, <1>6 DEF Table
  <2>2. ~program.unregister => \A s \in Slots : table'[s] \in {0, Second} BY <1>1, <1>3 DEF Table
  <2>3. QED BY <1>3, <2>1, <2>2 DEF Table, Second
<1>12. QED BY <1>7, <1>8, <1>9, <1>10, <1>11 DEF SInv

\* ... each close of the handler ...
LEMMA CallbackClosesKeeps ==
  ASSUME SInv, CallbackCloses
  PROVE  SInv'
<1>1. TypeOK /\ OneConnection /\ Owners /\ Watched /\ Closing /\ Table BY DEF SInv
<1>2. pc = "callback" /\ closes > 0 /\ newfd \in Fds /\ newfd # Server /\ closes \in Nat /\ ready = {}
  BY <1>1 DEF CallbackCloses, Owners, Closing, TypeOK, Watched
<1>3. /\ closes' = closes - 1 /\ master' = master \ {newfd} /\ owner' = Closed(newfd)
      /\ peer' = Hangup(newfd, "answered")
      /\ UNCHANGED <<queue, ready, newfd, table, pc, program, tfd, tpc, tmaster>>
  BY DEF CallbackCloses, rest
<1>4. /\ owner' \in [Fds -> {"free", "listener", "thread"} \cup Clients]
      /\ owner'[newfd] = "free" /\ \A g \in Fds \ {newfd} : owner'[g] = owner[g]
  BY <1>1, <1>2, <1>3, ClosedOwner
<1>5. /\ peer' \in [Clients -> {"away", "connecting", "waiting", "answered", "dropped", "left"}]
      /\ \A c \in Clients : peer'[c] = "left" => peer[c] = "left"
  BY <1>1, <1>3, HangupPeer
<1>6. closes - 1 \in Nat BY <1>2
<1>7. TypeOK' BY <1>1, <1>3, <1>4, <1>5, <1>6 DEF TypeOK
<1>8. "free" \notin Clients /\ "thread" \notin Clients BY <1>1, Names
<1>9. OneConnection' BY <1>1, <1>3, <1>4, <1>8 DEF OneConnection
<1>10. owner[newfd] # "thread"
  <2>1. owner[newfd] = "thread" => program.thread BY <1>1, <1>2 DEF Owners
  <2>2. program.thread => owner[newfd] \in Clients BY <1>1, <1>2 DEF Closing
  <2>3. QED BY <1>8, <2>1, <2>2
<1>11. Owners' BY <1>1, <1>2, <1>3, <1>4, <1>10, Names DEF Owners
<1>12. Watched'
  <2>1. master \subseteq Fds BY <1>1 DEF TypeOK
  <2>2. QED BY <1>1, <1>2, <1>3, <1>4, <2>1 DEF Watched
<1>13. Closing'
  <2>1. program.thread => closes' = 0 BY <1>1, <1>2, <1>3 DEF Closing
  <2>2. QED BY <1>1, <1>2, <1>3, <1>4, <1>5, <1>8, <2>1 DEF Closing
<1>14. Table' BY <1>1, <1>2, <1>3 DEF Table, Second
<1>15. QED BY <1>7, <1>9, <1>11, <1>12, <1>13, <1>14 DEF SInv

\* ... and the second thread, which opens and closes its own descriptor.
LEMMA ThreadKeeps ==
  ASSUME SInv, OneByOne, ThreadStep
  PROVE  SInv'
<1>1. TypeOK /\ OneConnection /\ Owners /\ Watched /\ Closing /\ Table BY DEF SInv
<1>2. "free" \notin Clients /\ "thread" \notin Clients BY <1>1, Names
<1>3. CASE ThreadOpens
  <2> DEFINE g == tfd'
  <2>1. /\ program.thread /\ tpc = "idle" /\ g = Lowest(FreeFds) /\ owner' = [owner EXCEPT ![g] = "thread"]
        /\ tpc' = "open" /\ UNCHANGED <<program, peer, queue, master, ready, newfd, table, pc, closes, tmaster>>
    BY <1>3 DEF ThreadOpens
  <2>2. g \in Fds /\ owner[g] = "free" /\ g \in 0 .. F
    <3>1. g \in FreeFds BY <2>1, FreeFdFound
    <3>2. QED BY <1>1, <3>1, Names DEF FreeFds
  <2> HIDE DEF g
  <2>3. tfd' = g BY DEF g
  <2>4. owner'[g] = "thread" /\ \A f \in Fds \ {g} : owner'[f] = owner[f] BY <1>1, <2>1, <2>2 DEF TypeOK
  <2>5. TypeOK' BY <1>1, <2>1, <2>2, <2>3 DEF TypeOK
  <2>6. OneConnection' BY <1>1, <1>2, <2>1, <2>2, <2>4 DEF OneConnection
  <2>7. Owners' BY <1>1, <2>1, <2>2, <2>3, <2>4, Names DEF Owners
  <2>8. Watched'
    <3>1. master \subseteq Fds /\ ready \subseteq Fds BY <1>1 DEF TypeOK
    <3>2. QED BY <1>1, <1>2, <2>1, <2>2, <2>4, <3>1 DEF Watched
  <2>9. Closing' BY <1>1, <1>2, <2>1, <2>2, <2>4 DEF Closing
  <2>10. Table'
    <3>1. newfd \in Fds /\ owner[newfd] \in Clients => owner'[newfd] = owner[newfd] BY <1>2, <2>2, <2>4
    <3>2. \A s \in Slots : table[s] # 0 => table[s] \in Fds BY <1>1, Names DEF TypeOK
    <3>3. newfd \in Fds /\ owner'[newfd] \in Clients => owner[newfd] \in Clients BY <1>2, <2>4
    <3>4. QED BY <1>1, <2>1, <3>1, <3>2, <3>3 DEF Table, Second
  <2>11. QED BY <2>5, <2>6, <2>7, <2>8, <2>9, <2>10 DEF SInv
<1>4. CASE ThreadUnregisters
  <2>1. /\ tpc = "open" /\ table' = Unregistered(tfd) /\ tmaster' = master /\ tpc' = "closing"
        /\ UNCHANGED <<program, peer, queue, owner, master, ready, newfd, pc, closes, tfd>>
    BY <1>4 DEF ThreadUnregisters
  <2>2. program.thread /\ tfd \in Fds /\ owner[tfd] = "thread" BY <1>1, <2>1 DEF Owners
  <2>3. program.unregister BY <1>1, <2>2 DEF TypeOK, OneByOne, Disciplined
  <2>4. \A s \in Slots : table[s] # tfd
    BY <1>1, <1>2, <2>2, <2>3, Names DEF Table
  <2>5. table' = table BY <2>1, <2>4 DEF Unregistered
  <2>6. TypeOK' BY <1>1, <2>1, <2>5 DEF TypeOK
  <2>7. OneConnection' /\ Owners' BY <1>1, <2>1 DEF OneConnection, Owners
  <2>8. Watched' /\ Closing' BY <1>1, <2>1 DEF Watched, Closing
  <2>9. Table' BY <1>1, <2>1, <2>5 DEF Table, Second
  <2>10. QED BY <2>6, <2>7, <2>8, <2>9 DEF SInv
<1>5. CASE ThreadCloses
  <2>1. /\ tpc = "closing" /\ master' = master \ {tfd} /\ owner' = Closed(tfd) /\ peer' = Hangup(tfd, "dropped")
        /\ tfd' = 0 /\ tpc' = "idle" /\ tmaster' = {}
        /\ UNCHANGED <<program, queue, ready, newfd, table, pc, closes>>
    BY <1>5 DEF ThreadCloses, OneByOne
  <2>2. tfd \in Fds /\ owner[tfd] = "thread" /\ tfd # Server BY <1>1, <2>1, Names DEF Owners
  <2>3. /\ owner' \in [Fds -> {"free", "listener", "thread"} \cup Clients]
        /\ owner'[tfd] = "free" /\ \A g \in Fds \ {tfd} : owner'[g] = owner[g]
    BY <1>1, <2>1, <2>2, ClosedOwner
  <2>4. /\ peer' \in [Clients -> {"away", "connecting", "waiting", "answered", "dropped", "left"}]
        /\ \A c \in Clients : peer'[c] = "left" => peer[c] = "left"
    BY <1>1, <2>1, HangupPeer
  <2>5. 0 \in 0 .. F BY <1>1, Names
  <2>6. TypeOK' BY <1>1, <2>1, <2>3, <2>4, <2>5 DEF TypeOK
  <2>7. \A g \in Fds : owner'[g] \in Clients <=> owner[g] \in Clients BY <1>2, <2>2, <2>3
  <2>8. OneConnection' BY <1>1, <2>1, <2>7 DEF OneConnection
  <2>9. Owners' BY <1>1, <2>1, <2>2, <2>3 DEF Owners
  <2>10. Watched'
    <3>1. master \subseteq Fds /\ ready \subseteq Fds BY <1>1 DEF TypeOK
    <3>2. QED BY <1>1, <2>1, <2>7, <3>1 DEF Watched
  <2>11. Closing' BY <1>1, <2>1, <2>4, <2>7 DEF Closing
  <2>12. Table'
    <3>1. \A s \in Slots : table[s] # 0 => table[s] \in Fds BY <1>1, Names DEF TypeOK
    <3>2. QED BY <1>1, <2>1, <2>7, <3>1 DEF Table, Second
  <2>13. QED BY <2>6, <2>8, <2>9, <2>10, <2>11, <2>12 DEF SInv
<1>6. QED BY <1>3, <1>4, <1>5 DEF ThreadStep

\* The invariant holds when the server starts ...
LEMMA SInvInit ==
  ASSUME Init
  PROVE  SInv
<1>1. program \in Programs /\ F \in Nat /\ Fds = 1 .. F /\ Server \in Fds /\ 0 \in 0 .. F /\ 0 \notin Fds
  BY ServerAssumption DEF Init, Fds
<1>2. TypeOK BY <1>1 DEF Init, TypeOK
<1>3. OneConnection /\ Owners /\ Watched /\ Closing
  BY <1>1, <1>2, Names DEF Init, OneConnection, Owners, Watched, Closing
<1>4. Table BY <1>1 DEF Init, Table
<1>5. QED BY <1>2, <1>3, <1>4 DEF SInv

\* ... every step keeps it ...
LEMMA SInvNext ==
  ASSUME SInv, OneByOne, [Next]_vars
  PROVE  SInv'
<1>1. CASE ServerStep
  BY <1>1, SelectKeeps, AcceptKeeps, CallbackClosesKeeps, ProcessFailsKeeps, ProcessDataKeeps DEF ServerStep
<1>2. CASE UNCHANGED vars
  <2>1. UNCHANGED <<program, peer, queue, owner, master, ready, newfd, table, pc, closes, tfd, tpc, tmaster>>
    BY <1>2 DEF vars
  <2>2. TypeOK' BY <2>1 DEF SInv, TypeOK
  <2>3. UNCHANGED <<server, rest>> BY <2>1 DEF server, rest
  <2>4. program.thread => \A c \in Clients : peer'[c] # "left" BY <2>1 DEF SInv, Closing
  <2>5. QED BY <2>2, <2>3, <2>4, PeerKeeps
<1>3. QED BY <1>1, <1>2, ClientKeeps, ThreadKeeps DEF Next

\* ... so it holds always.
LEMMA SInvAlways == OneByOne => (Spec => []SInv)
<1>1. Init => SInv BY SInvInit
<1>2. SInv /\ OneByOne /\ [Next]_vars => SInv' BY SInvNext
<1> SUFFICES ASSUME OneByOne PROVE Spec => []SInv OBVIOUS
<1>3. SInv /\ [Next]_vars => SInv' BY <1>2
<1>4. QED BY <1>1, <1>3, PTL DEF Spec
-----------------------------------------------------------------------------
\* SOCKET_find_client finds the entry of the client whose request SOCKET_process
\* has received, even if callbacks like the one of DCPAM RDP never clear the
\* entries of earlier clients, if clients come one after the other.
THEOREM ClientsAreFound ==
  ASSUME OneByOne
  PROVE  Spec => []FindsClient
<1>1. SInv => FindsClient
  <2> SUFFICES ASSUME SInv, pc = "scan", ready # {}, Highest(ready) # Server
               PROVE  \E s \in Slots : table[s] = newfd
    BY DEF FindsClient
  <2>1. Turn(Highest(ready)) BY DEF Turn
  <2>2. newfd \in Fds /\ owner[newfd] \in Clients BY <2>1, TurnIs
  <2>3. QED BY <2>2 DEF SInv, Table
<1>2. QED BY <1>1, SInvAlways, PTL

\* SOCKET_close in the server loop never hits the descriptor that NET_CONN_init
\* has given to another thread, and accept never returns it, if clients come
\* one after the other and a component with such a thread closes once.
THEOREM ThreadsAreUndisturbed ==
  ASSUME OneByOne
  PROVE  Spec => []ThreadUndisturbed
<1>1. SInv => ThreadUndisturbed BY DEF SInv, Owners, ThreadUndisturbed
<1>2. QED BY <1>1, SInvAlways, PTL
=============================================================================

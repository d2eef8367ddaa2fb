---------------------------- MODULE DbExecProofs ----------------------------
(***************************************************************************)
(* Proofs about DbExec, for any set of databases with any drivers, any     *)
(* number of rows and any nesting of statements in callbacks.              *)
(***************************************************************************)
EXTENDS DbExec, TLAPS

Outcomes == {"never", "unlock", "keep", "stop", "empty", "garbage"}

\* Drivers that hand out the rows they fetch, and those that fetch them all.
InTurn == {"D_POSTGRESQL", "D_ODBC", "D_MYSQL", "D_MARIADB", "D_ORACLE"}
ToTheEnd == {"D_POSTGRESQL", "D_ODBC"}
AllOrNone == {"D_MYSQL", "D_MARIADB"}

\* What the exec functions of the drivers do at an error.
LEMMA WaysOut ==
  ASSUME NEW v \in Drivers
  PROVE  /\ DB_exec[v].prepare \in Outcomes /\ DB_exec[v].select \in Outcomes
         /\ DB_exec[v].change \in Outcomes /\ DB_exec[v].fetch \in Outcomes
         /\ DB_exec[v].delivers \in BOOLEAN /\ DB_exec[v].first \in BOOLEAN
         /\ DB_exec[v].gaps \in BOOLEAN
         /\ DATABASE_SYSTEM_DB_init[v] \in {"closed", "bad"}
         /\ v \in InTurn => /\ DB_exec[v].delivers /\ ~DB_exec[v].first
                            /\ ~DB_exec[v].gaps /\ DB_exec[v].fetch # "garbage"
         /\ v \in ToTheEnd => DB_exec[v].fetch \notin {"stop", "empty"}
         /\ v \in AllOrNone => DB_exec[v].fetch # "stop"
         /\ v = "D_MONGODB" => /\ ~DB_exec[v].first
                               /\ DB_exec[v].fetch # "garbage"
<1>1. CASE v = "D_POSTGRESQL" BY <1>1 DEF DB_exec, PG_exec, DATABASE_SYSTEM_DB_init, PG_connect, InTurn, ToTheEnd, AllOrNone, Outcomes
<1>2. CASE v = "D_MYSQL" BY <1>2 DEF DB_exec, MYSQL_exec, DATABASE_SYSTEM_DB_init, MYSQL_connect, InTurn, ToTheEnd, AllOrNone, Outcomes
<1>3. CASE v = "D_MARIADB" BY <1>3 DEF DB_exec, MARIADB_exec, DATABASE_SYSTEM_DB_init, MARIADB_connect, InTurn, ToTheEnd, AllOrNone, Outcomes
<1>4. CASE v = "D_ODBC" BY <1>4 DEF DB_exec, ODBC_exec, DATABASE_SYSTEM_DB_init, ODBC_connect, InTurn, ToTheEnd, AllOrNone, Outcomes
<1>5. CASE v = "D_ORACLE" BY <1>5 DEF DB_exec, ORACLE_exec, DATABASE_SYSTEM_DB_init, ORACLE_connect, InTurn, ToTheEnd, AllOrNone, Outcomes
<1>6. CASE v = "D_SQLITE" BY <1>6 DEF DB_exec, SQLITE_exec, DATABASE_SYSTEM_DB_init, SQLITE_connect, InTurn, ToTheEnd, AllOrNone, Outcomes
<1>7. CASE v = "D_MONGODB" BY <1>7 DEF DB_exec, MONGODB_exec, DATABASE_SYSTEM_DB_init, MONGODB_connect, InTurn, ToTheEnd, AllOrNone, Outcomes
<1>8. CASE v = "D_LDAP" BY <1>8 DEF DB_exec, LDAP_exec, DATABASE_SYSTEM_DB_init, LDAP_connect, InTurn, ToTheEnd, AllOrNone, Outcomes
<1>9. QED BY <1>1, <1>2, <1>3, <1>4, <1>5, <1>6, <1>7, <1>8 DEF Drivers
-----------------------------------------------------------------------------
Inside == {"prepare", "execute", "fetch", "end"}

\* A statement of level 2 is one of the callback of level 1.
Nesting == pc[2] # "idle" => pc[1] = "callback"

\* A mutex locked and not left so is held by an exec in progress, not by one
\* that has called its callback.
Held ==
  \A v \in Drivers :
    mutex[v] = "locked" => \E l \in Levels : D(l) = v /\ pc[l] \in Inside

\* No more rows are fetched than there are, and none before the execution.
Counted == i <= n /\ (pc[1] \in {"lock", "prepare", "execute"} => i = 0)

\* The records handed out so far are the rows fetched so far, ...
GotSoFar == D(1) \in InTurn => got = Rows(i)

\* ... or some of them, in their order.
GotSome ==
  D(1) = "D_MONGODB" =>
    \A a \in 1 .. Len(got) :
      /\ got[a].row \in 1 .. i /\ got[a].fields = Columns
      /\ a > 1 => got[a - 1].row < got[a].row

\* The way to a result 1 is through all the rows, or none of them.
AllFetched ==
  want # "none" /\ (pc[1] = "end" \/ (pc[1] = "idle" /\ ret = 1))
    => /\ D(1) \in ToTheEnd => i = n
       /\ D(1) \in AllOrNone => i \in {0, n}

IInv ==
  /\ TypeOK /\ Nesting /\ Held /\ Counted
  /\ FreeAfterSuccess /\ GotSoFar /\ GotSome /\ AllFetched

\* Every step of a statement keeps the types.
LEMMA TypeOKNext == TypeOK /\ [Next]_vars => TypeOK'
<1> SUFFICES ASSUME TypeOK, [Next]_vars PROVE TypeOK'
  OBVIOUS
<1> USE DbAssumption DEF TypeOK, Levels, Pcs
<1>0. \A l \in Levels : D(l) \in Drivers
  BY DEF D
<1>1. ASSUME NEW d \in Dbs, Connect(d), UNCHANGED driver PROVE TypeOK'
  <2>1. DATABASE_SYSTEM_DB_init[driver[d]] \in {"closed", "bad"}
    BY WaysOut
  <2>2. conn' \in [Dbs -> {"closed", "open", "bad"}]
    BY <1>1, <2>1 DEF Connect
  <2>3. UNCHANGED <<driver, mutex, pc, db, want, n, i, errors, got, ret>>
    BY <1>1 DEF Connect
  <2>4. QED BY <2>2, <2>3
<1>2. ASSUME NEW d \in Dbs, DATABASE_SYSTEM_DB_close(d), UNCHANGED driver PROVE TypeOK'
  BY <1>2 DEF DATABASE_SYSTEM_DB_close
<1>3. ASSUME NEW d \in Dbs, Nested(d), UNCHANGED driver PROVE TypeOK'
  BY <1>3 DEF Nested
<1>4. ASSUME NEW d \in Dbs, NEW w \in {"dst", "callback", "none"}, Call(d, w), UNCHANGED driver
      PROVE TypeOK'
  BY <1>4 DEF Call
<1>5. ASSUME NEW d \in Dbs, NEW w \in {"dst", "callback", "none"}, FormatFails(d, w), UNCHANGED driver
      PROVE TypeOK'
  BY <1>5 DEF FormatFails
<1>6. CASE CallbackReturns /\ UNCHANGED driver BY <1>6 DEF CallbackReturns
<1>7. ASSUME NEW row \in 0 .. MaxRows, Deliver(row)
      PROVE /\ got' \in Seq(Record) /\ mutex' \in [Drivers -> {"free", "locked", "left"}]
            /\ pc' \in [Levels -> Pcs]
  <2> DEFINE fields == IF want = "callback" /\ Exec(1).first THEN 1 ELSE Columns
  <2>1. [row |-> row, fields |-> fields] \in Record
    BY DEF Record
  <2>2. got' \in Seq(Record)
    <3>1. got' = got \/ got' = Append(got, [row |-> row, fields |-> fields])
      BY <1>7 DEF Deliver
    <3>2. Append(got, [row |-> row, fields |-> fields]) \in Seq(Record)
      BY <2>1
    <3>3. QED BY <3>1, <3>2
  <2>3. QED BY <1>0, <1>7, <2>2 DEF Deliver
<1>8. CASE Fetch /\ UNCHANGED driver
  <2>1. i + 1 \in 0 .. MaxRows
    BY <1>8 DEF Fetch
  <2>2. CASE Deliver(i + 1) BY <1>8, <2>1, <2>2, <1>7 DEF Fetch
  <2>3. CASE UNCHANGED <<got, mutex, pc>> BY <1>8, <2>1, <2>3 DEF Fetch
  <2>4. QED BY <1>8, <2>2, <2>3 DEF Fetch
<1>9. ASSUME NEW l \in Levels, NEW r \in 0 .. 1, Return(l, r),
             mutex' \in [Drivers -> {"free", "locked", "left"}], UNCHANGED driver
      PROVE TypeOK'
  BY <1>9 DEF Return
<1>10. ASSUME NEW l \in Levels, NEW how, Fail(l, how), UNCHANGED driver PROVE TypeOK'
  <2>1. mutex' \in [Drivers -> {"free", "locked", "left"}]
    BY <1>10, <1>0 DEF Fail
  <2>2. QED BY <1>9, <1>10, <2>1 DEF Fail
<1>11. ASSUME NEW l \in Levels, NEW label \in Pcs, Goto(l, label), n' \in 0 .. MaxRows,
              UNCHANGED driver
       PROVE TypeOK'
  BY <1>11 DEF Goto
<1>12. CASE FetchFails /\ UNCHANGED driver
  <2>1. CASE Fail(1, Exec(1).fetch) BY <1>12, <2>1, <1>10
  <2>2. CASE Goto(1, "end") /\ UNCHANGED n BY <1>12, <2>2, <1>11
  <2>3. CASE /\ errors < MaxErrors /\ errors' = errors + 1 /\ Deliver(0)
             /\ UNCHANGED <<conn, db, want, n, i, ret>>
    BY <1>12, <2>3, <1>7
  <2>4. QED BY <1>12, <2>1, <2>2, <2>3 DEF FetchFails
<1>13. CASE Fetched /\ UNCHANGED driver BY <1>13, <1>11 DEF Fetched
<1>14. ASSUME NEW l \in Levels, Lock(l), UNCHANGED driver PROVE TypeOK'
  BY <1>0, <1>14 DEF Lock
<1>15. ASSUME NEW l \in Levels, Prepare(l), UNCHANGED driver PROVE TypeOK'
  BY <1>10, <1>11, <1>15 DEF Prepare
<1>16. ASSUME NEW l \in Levels, Execute(l), UNCHANGED driver PROVE TypeOK'
  <2>1. CASE n' \in 0 .. MaxRows /\ Goto(l, "fetch") BY <1>16, <2>1, <1>11
  <2>2. CASE Goto(l, "end") /\ UNCHANGED n BY <1>16, <2>2, <1>11
  <2>3. CASE \E how : Fail(l, how) BY <1>16, <2>3, <1>10
  <2>4. QED BY <1>16, <2>1, <2>2, <2>3 DEF Execute
<1>17. ASSUME NEW l \in Levels, End(l), UNCHANGED driver PROVE TypeOK'
  BY <1>0, <1>9, <1>17 DEF End
<1>18. CASE UNCHANGED vars BY <1>18 DEF vars
<1>19. QED
  BY <1>1, <1>2, <1>3, <1>4, <1>5, <1>6, <1>8, <1>12, <1>13, <1>14, <1>15, <1>16,
     <1>17, <1>18 DEF Next, Step

\* The invariant holds before the first statement ...
LEMMA IInvInit == Init => IInv
<1> SUFFICES ASSUME Init PROVE IInv
  OBVIOUS
<1>1. TypeOK
  BY DbAssumption DEF Init, TypeOK, Levels, Pcs, Record
<1>2. Nesting /\ Held /\ FreeAfterSuccess
  BY DbAssumption DEF Init, Nesting, Held, FreeAfterSuccess, Levels, D
<1>3. Counted /\ GotSoFar /\ GotSome /\ AllFetched
  BY DbAssumption DEF Init, Counted, GotSoFar, Rows, GotSome, AllFetched, Levels
<1>4. QED BY <1>1, <1>2, <1>3 DEF IInv

\* ... every step keeps what it says of the mutexes: a statement gives its
\* mutex back before its callback and when it returns, or leaves it ...
LEMMA LocksNext ==
  ASSUME IInv, [Next]_vars PROVE (Nesting /\ Held /\ FreeAfterSuccess)'
<1> DEFINE Locks == Nesting /\ Held /\ FreeAfterSuccess
<1>a. TypeOK /\ TypeOK' /\ Locks
  BY TypeOKNext DEF IInv
<1>b. \A l \in Levels : D(l) \in Drivers
  BY <1>a DEF D, TypeOK, Levels
<1> USE <1>a, <1>b DEF TypeOK, Levels, Nesting, Held, FreeAfterSuccess, Inside, D
<1>1. ASSUME NEW d \in Dbs, Connect(d), UNCHANGED driver PROVE Locks'
  BY <1>1 DEF Connect
<1>2. ASSUME NEW d \in Dbs, DATABASE_SYSTEM_DB_close(d), UNCHANGED driver PROVE Locks'
  BY <1>2 DEF DATABASE_SYSTEM_DB_close
<1>3. ASSUME NEW d \in Dbs, Nested(d), UNCHANGED driver PROVE Locks'
  <2>1. /\ pc[1] = "callback" /\ pc[2] = "idle"
        /\ db' = [db EXCEPT ![2] = d] /\ pc' = [pc EXCEPT ![2] = "lock"]
        /\ UNCHANGED <<driver, mutex, ret>>
    BY <1>3 DEF Nested
  <2>2. \A l \in Levels : pc[l] \notin Inside BY <2>1
  <2>3. \A v \in Drivers : mutex[v] # "locked" BY <2>2
  <2>4. QED BY <2>1, <2>3
<1>4. ASSUME NEW d \in Dbs, NEW w \in {"dst", "callback", "none"}, Call(d, w), UNCHANGED driver
      PROVE Locks'
  <2>1. \A l \in Levels : pc[l] \notin Inside BY <1>4 DEF Call
  <2>2. \A v \in Drivers : mutex[v] # "locked" BY <2>1
  <2>3. QED BY <1>4, <2>2 DEF Call
<1>5. ASSUME NEW d \in Dbs, NEW w \in {"dst", "callback", "none"}, FormatFails(d, w), UNCHANGED driver
      PROVE Locks'
  <2>1. \A l \in Levels : pc[l] \notin Inside BY <1>5 DEF FormatFails
  <2>2. \A v \in Drivers : mutex[v] # "locked" BY <2>1
  <2>3. QED BY <1>5, <2>2 DEF FormatFails
<1>6. CASE CallbackReturns /\ UNCHANGED driver BY <1>6 DEF CallbackReturns
<1>7. ASSUME NEW row, Deliver(row), pc[1] = "fetch", UNCHANGED <<driver, db, ret>>
      PROVE Locks'
  <2>1. CASE mutex' = [mutex EXCEPT ![D(1)] = "free"] /\ pc' = [pc EXCEPT ![1] = "callback"]
    BY <1>7, <2>1
  <2>2. CASE UNCHANGED <<mutex, pc>> BY <1>7, <2>2
  <2>3. QED BY <1>7, <2>1, <2>2 DEF Deliver
<1>8. CASE Fetch /\ UNCHANGED driver
  <2>1. CASE Deliver(i + 1) BY <1>8, <2>1, <1>7 DEF Fetch
  <2>2. CASE UNCHANGED <<got, mutex, pc>> BY <1>8, <2>2 DEF Fetch
  <2>3. QED BY <1>8, <2>1, <2>2 DEF Fetch
<1>9. ASSUME NEW l \in Levels, NEW r \in {0, 1}, NEW m \in {"free", "left"},
             mutex' = [mutex EXCEPT ![D(l)] = m], r = 0 \/ m = "free",
             Return(l, r), UNCHANGED driver, pc[l] \in Inside
      PROVE Locks'
  <2>1. /\ pc' = [pc EXCEPT ![l] = "idle"] /\ ret' = (IF l = 1 THEN r ELSE ret)
        /\ UNCHANGED <<driver, db>>
    BY <1>9 DEF Return
  <2>2. Nesting' BY <1>9, <2>1
  <2>3. Held'
    <3> SUFFICES ASSUME NEW v \in Drivers, mutex'[v] = "locked"
                 PROVE \E k \in Levels : D(k)' = v /\ pc'[k] \in Inside
      OBVIOUS
    <3>1. v # D(l) BY <1>9
    <3>2. mutex[v] = "locked" BY <3>1, <1>9
    <3>3. PICK k \in Levels : D(k) = v /\ pc[k] \in Inside BY <3>2
    <3>4. k # l BY <3>1, <3>3
    <3>5. QED BY <2>1, <3>3, <3>4
  <2>4. FreeAfterSuccess'
    <3>1. CASE l = 1 BY <1>9, <2>1, <3>1
    <3>2. CASE l = 2 BY <1>9, <2>1, <3>2
    <3>3. QED BY <3>1, <3>2
  <2>5. QED BY <2>2, <2>3, <2>4
<1>10. ASSUME NEW l \in Levels, NEW how, Fail(l, how), UNCHANGED driver, pc[l] \in Inside
       PROVE Locks'
  <2>1. PICK m \in {"free", "left"} : mutex' = [mutex EXCEPT ![D(l)] = m]
    BY <1>10 DEF Fail
  <2>2. Return(l, 0) BY <1>10 DEF Fail
  <2>3. QED BY <1>9, <1>10, <2>1, <2>2
<1>11. ASSUME NEW l \in Levels, NEW label \in {"execute", "fetch", "end"}, Goto(l, label),
              UNCHANGED driver, pc[l] \in Inside
       PROVE Locks'
  <2>1. pc' = [pc EXCEPT ![l] = label] /\ UNCHANGED <<driver, mutex, db, ret>>
    BY <1>11 DEF Goto
  <2>2. Nesting' /\ FreeAfterSuccess' BY <1>11, <2>1
  <2>3. Held' BY <1>11, <2>1
  <2>4. QED BY <2>2, <2>3
<1>12. CASE FetchFails /\ UNCHANGED driver
  <2>0. pc[1] = "fetch" BY <1>12 DEF FetchFails
  <2>1. CASE Fail(1, Exec(1).fetch) BY <1>12, <2>0, <2>1, <1>10
  <2>2. CASE Goto(1, "end") BY <1>12, <2>0, <2>2, <1>11
  <2>3. CASE Deliver(0) /\ UNCHANGED <<conn, db, want, n, i, ret>>
    BY <1>12, <2>0, <2>3, <1>7
  <2>4. QED BY <1>12, <2>1, <2>2, <2>3 DEF FetchFails
<1>13. CASE Fetched /\ UNCHANGED driver BY <1>13, <1>11 DEF Fetched
<1>14. ASSUME NEW l \in Levels, Lock(l), UNCHANGED driver PROVE Locks'
  <2>1. /\ pc[l] = "lock" /\ mutex[D(l)] = "free" /\ mutex' = [mutex EXCEPT ![D(l)] = "locked"]
        /\ pc' = [pc EXCEPT ![l] = "prepare"] /\ UNCHANGED <<driver, db, ret>>
    BY <1>14 DEF Lock
  <2>2. Nesting' BY <2>1
  <2>3. Held' BY <2>1
  <2>4. FreeAfterSuccess' BY <2>1
  <2>5. QED BY <2>2, <2>3, <2>4
<1>15. ASSUME NEW l \in Levels, Prepare(l), UNCHANGED driver PROVE Locks'
  BY <1>15, <1>10, <1>11 DEF Prepare
<1>16. ASSUME NEW l \in Levels, Execute(l), UNCHANGED driver PROVE Locks'
  <2>1. CASE Goto(l, "fetch") BY <1>16, <2>1, <1>11 DEF Execute
  <2>2. CASE Goto(l, "end") BY <1>16, <2>2, <1>11 DEF Execute
  <2>3. CASE \E how : Fail(l, how) BY <1>16, <2>3, <1>10 DEF Execute
  <2>4. QED BY <1>16, <2>1, <2>2, <2>3 DEF Execute
<1>17. ASSUME NEW l \in Levels, End(l), UNCHANGED driver PROVE Locks'
  BY <1>17, <1>9 DEF End
<1>18. CASE UNCHANGED vars BY <1>18 DEF vars
<1>19. QED
  BY <1>1, <1>2, <1>3, <1>4, <1>5, <1>6, <1>8, <1>12, <1>13, <1>14, <1>15, <1>16,
     <1>17, <1>18 DEF Next, Step

\* ... and what it says of the rows ...
LEMMA RowsNext ==
  ASSUME IInv, [Next]_vars PROVE (Counted /\ GotSoFar /\ GotSome /\ AllFetched)'
<1> DEFINE Kept == Counted /\ GotSoFar /\ GotSome /\ AllFetched
<1>a. TypeOK /\ TypeOK' /\ Nesting /\ Kept
  BY TypeOKNext DEF IInv
<1>b. D(1) \in Drivers
  BY <1>a DEF D, TypeOK, Levels
<1> USE <1>a, <1>b, DbAssumption DEF TypeOK, Levels, Counted, GotSoFar, GotSome, AllFetched, D
<1>1. ASSUME UNCHANGED <<driver, want, n, i, got>>, D(1)' = D(1),
             pc'[1] \in {"end"} \/ (pc'[1] = "idle" /\ ret' = 1) =>
               pc[1] = "end" \/ (pc[1] = "idle" /\ ret = 1),
             pc'[1] \in {"lock", "prepare", "execute"} =>
               pc[1] \in {"lock", "prepare", "execute"}
      PROVE Kept'
  BY <1>1
<1>2. ASSUME NEW d \in Dbs, Connect(d) \/ DATABASE_SYSTEM_DB_close(d) \/ Nested(d),
             UNCHANGED driver
      PROVE Kept'
  <2>1. D(1)' = D(1) BY <1>2 DEF Connect, DATABASE_SYSTEM_DB_close, Nested
  <2>2. QED BY <1>1, <1>2, <2>1 DEF Connect, DATABASE_SYSTEM_DB_close, Nested
<1>3. ASSUME NEW d \in Dbs, NEW w \in {"dst", "callback", "none"},
             Call(d, w) \/ FormatFails(d, w), UNCHANGED driver
      PROVE Kept'
  <2>1. /\ n' = 0 /\ i' = 0 /\ got' = <<>> /\ pc'[1] # "end"
        /\ pc'[1] = "idle" => ret' = 0
    BY <1>3 DEF Call, FormatFails
  <2>2. Rows(0) = <<>> BY DEF Rows
  <2>3. QED BY <2>1, <2>2 DEF Rows
<1>4. CASE CallbackReturns /\ UNCHANGED driver
  BY <1>1, <1>4 DEF CallbackReturns
<1>5. CASE Fetch /\ UNCHANGED driver
  <2>0. /\ pc[1] = "fetch" /\ i < n /\ i' = i + 1
        /\ UNCHANGED <<driver, db, want, n, ret>>
    BY <1>5 DEF Fetch
  <2>1. pc'[1] \in {"fetch", "callback"}
    BY <1>5, <2>0 DEF Fetch, Deliver
  <2>2. Counted' /\ AllFetched' BY <2>0, <2>1
  <2>3. ASSUME D(1) \in InTurn PROVE got' = Rows(i')
    <3>1. Exec(1).delivers /\ ~Exec(1).first /\ ~Exec(1).gaps BY <2>3, WaysOut DEF Exec
    <3>2. got' = Append(got, [row |-> i + 1, fields |-> Columns])
      BY <1>5, <3>1 DEF Fetch, Deliver
    <3>3. got = Rows(i) BY <2>3
    <3>4. QED BY <2>0, <3>2, <3>3 DEF Rows
  <2>4. ASSUME D(1) = "D_MONGODB" PROVE GotSome'
    <3>1. ~Exec(1).first BY <2>4, WaysOut DEF Exec
    <3>2. \/ got' = got
          \/ got' = Append(got, [row |-> i + 1, fields |-> Columns])
      BY <1>5, <3>1 DEF Fetch, Deliver
    <3>3. \A a \in 1 .. Len(got) :
             /\ got[a] \in Record /\ got[a].row \in 1 .. i /\ got[a].fields = Columns
             /\ a > 1 => got[a - 1].row < got[a].row
      BY <2>4
    <3>4. CASE got' = got BY <3>3, <3>4, <2>0
    <3>5. CASE got' = Append(got, [row |-> i + 1, fields |-> Columns])
      <4>1. Len(got') = Len(got) + 1 /\ Len(got) \in Nat
            /\ got'[Len(got) + 1] = [row |-> i + 1, fields |-> Columns]
            /\ \A a \in 1 .. Len(got) : got'[a] = got[a]
        BY <3>5
      <4> SUFFICES ASSUME NEW a \in 1 .. Len(got) + 1
                   PROVE /\ got'[a].row \in 1 .. i + 1 /\ got'[a].fields = Columns
                         /\ a > 1 => got'[a - 1].row < got'[a].row
        BY <4>1, <2>0
      <4>2. CASE a \in 1 .. Len(got)
        <5>1. got'[a] = got[a] BY <4>1, <4>2
        <5>2. a > 1 => a - 1 \in 1 .. Len(got) /\ got'[a - 1] = got[a - 1]
          <6>1. a > 1 => a - 1 \in 1 .. Len(got) BY <4>1, <4>2
          <6>2. QED BY <4>1, <6>1
        <5>3. a > 1 => got[a - 1].row < got[a].row BY <4>2, <3>3
        <5>4. got[a].row \in 1 .. i /\ got[a].fields = Columns BY <4>2, <3>3
        <5>5. a > 1 => got'[a - 1].row < got'[a].row BY <5>1, <5>2, <5>3
        <5>6. QED BY <5>1, <5>4, <5>5
      <4>3. CASE a = Len(got) + 1
        <5>1. got'[a] = [row |-> i + 1, fields |-> Columns] BY <4>1, <4>3
        <5>2. a > 1 => a - 1 \in 1 .. Len(got) /\ got'[a - 1] = got[a - 1] BY <4>1, <4>3
        <5>3. a > 1 => got[a - 1].row \in 1 .. i BY <5>2, <3>3
        <5>4. a > 1 => got'[a - 1].row < i + 1
          <6>1. a > 1 => got[a - 1].row < i + 1 BY <5>3
          <6>2. QED BY <5>2, <6>1
        <5>5. got'[a].row = i + 1 /\ got'[a].fields = Columns BY <5>1
        <5>6. QED BY <5>4, <5>5
      <4>4. QED BY <4>1, <4>2, <4>3
    <3>6. QED BY <3>2, <3>4, <3>5
  <2>5. D(1)' = D(1) BY <2>0
  <2>6. QED BY <2>2, <2>3, <2>4, <2>5
<1>6. ASSUME NEW l \in Levels, NEW how, Fail(l, how), UNCHANGED driver PROVE Kept'
  <2>1. D(1)' = D(1) BY <1>6 DEF Fail, Return
  <2>2. l = 1 => ret' = 0 /\ pc'[1] = "idle" BY <1>6 DEF Fail, Return
  <2>3. l = 2 => ret' = ret /\ pc'[1] = pc[1] BY <1>6 DEF Fail, Return
  <2>4. UNCHANGED <<driver, want, n, i, got>> BY <1>6 DEF Fail, Return
  <2>5. QED BY <1>1, <2>1, <2>2, <2>3, <2>4
<1>7. CASE FetchFails /\ UNCHANGED driver
  <2>0. pc[1] = "fetch" BY <1>7 DEF FetchFails
  <2>1. CASE Fail(1, Exec(1).fetch) BY <1>7, <2>1, <1>6
  <2>2. CASE \/ Exec(1).fetch = "stop" /\ Goto(1, "end") /\ UNCHANGED n
             \/ Exec(1).fetch = "empty" /\ i = 0 /\ Goto(1, "end") /\ UNCHANGED n
    <3>1. /\ pc' = [pc EXCEPT ![1] = "end"]
          /\ UNCHANGED <<driver, db, want, n, i, got, ret>>
      BY <1>7, <2>2 DEF Goto
    <3>2. D(1) \notin ToTheEnd /\ (D(1) \in AllOrNone => i = 0)
      BY <2>2, WaysOut DEF Exec
    <3>3. QED BY <3>1, <3>2
  <2>3. CASE /\ Exec(1).fetch = "garbage" /\ Deliver(0)
             /\ UNCHANGED <<conn, db, want, n, i, ret>>
    <3>1. D(1) \notin InTurn /\ D(1) # "D_MONGODB" BY <2>3, WaysOut DEF Exec
    <3>2. D(1) \notin ToTheEnd /\ D(1) \notin AllOrNone
      BY <3>1 DEF InTurn, ToTheEnd, AllOrNone
    <3>3. pc'[1] \in {"fetch", "callback"} BY <2>0, <2>3 DEF Deliver
    <3>4. D(1)' = D(1) BY <1>7, <2>3
    <3>5. QED BY <2>3, <3>1, <3>2, <3>3, <3>4
  <2>4. QED BY <1>7, <2>1, <2>2, <2>3 DEF FetchFails
<1>8. CASE Fetched /\ UNCHANGED driver
  <2>1. /\ i = n /\ pc' = [pc EXCEPT ![1] = "end"]
        /\ UNCHANGED <<driver, db, want, n, i, got, ret>>
    BY <1>8 DEF Fetched, Goto
  <2>2. QED BY <2>1
<1>9. ASSUME NEW l \in Levels, Lock(l), UNCHANGED driver PROVE Kept'
  BY <1>1, <1>9 DEF Lock
<1>10. ASSUME NEW l \in Levels, Prepare(l), UNCHANGED driver PROVE Kept'
  <2>1. CASE Goto(l, "execute") /\ UNCHANGED n
    BY <1>1, <1>10, <2>1 DEF Prepare, Goto
  <2>2. QED BY <1>10, <1>6, <2>1 DEF Prepare
<1>11. ASSUME NEW l \in Levels, Execute(l), UNCHANGED driver PROVE Kept'
  <2>1. CASE Selects(l) /\ n' \in 0 .. MaxRows /\ Goto(l, "fetch")
    <3>1. /\ pc[1] = "execute" /\ pc' = [pc EXCEPT ![1] = "fetch"]
          /\ UNCHANGED <<driver, db, want, i, got, ret>>
      BY <1>11, <2>1 DEF Execute, Goto, Selects
    <3>2. i = 0 BY <3>1
    <3>3. QED BY <2>1, <3>1, <3>2
  <2>2. CASE ~Selects(l) /\ Goto(l, "end") /\ UNCHANGED n
    <3>1. pc[l] = "execute" BY <1>11 DEF Execute
    <3>2. l = 1 => want = "none" BY <2>2 DEF Selects
    <3>3. /\ pc' = [pc EXCEPT ![l] = "end"]
          /\ UNCHANGED <<driver, db, want, n, i, got, ret>>
      BY <1>11, <2>2 DEF Goto
    <3>4. CASE l = 1 BY <3>1, <3>2, <3>3, <3>4
    <3>5. CASE l = 2 BY <3>3, <3>5, <1>1
    <3>6. QED BY <3>4, <3>5
  <2>3. CASE \E how : Fail(l, how) BY <1>11, <2>3, <1>6
  <2>4. QED BY <1>11, <2>1, <2>2, <2>3 DEF Execute
<1>12. ASSUME NEW l \in Levels, End(l), UNCHANGED driver PROVE Kept'
  <2>1. /\ pc[l] = "end" /\ pc' = [pc EXCEPT ![l] = "idle"] /\ (l = 2 => ret' = ret)
        /\ UNCHANGED <<driver, db, want, n, i, got>>
    BY <1>12 DEF End, Return
  <2>2. QED BY <1>1, <2>1
<1>13. CASE UNCHANGED vars BY <1>13 DEF vars
<1>14. QED
  BY <1>2, <1>3, <1>4, <1>5, <1>7, <1>8, <1>9, <1>10, <1>11, <1>12, <1>13 DEF Next, Step

\* ... so it holds always.
LEMMA Invariance == Spec => []IInv
<1>1. IInv /\ [Next]_vars => IInv'
  BY TypeOKNext, LocksNext, RowsNext DEF IInv
<1>2. QED BY IInvInit, <1>1, PTL DEF Spec

\* A statement never waits for its own thread: the mutex is held by an exec
\* that is inside, and the one that waits is nested in a callback or alone.
LEMMA IInvImpliesNoSelfDeadlock == IInv => NoSelfDeadlock
<1> SUFFICES ASSUME IInv, NEW l \in Levels, pc[l] = "lock", mutex[D(l)] = "locked"
             PROVE FALSE
  BY DEF NoSelfDeadlock
<1>1. D(l) \in Drivers
  BY DEF IInv, TypeOK, D
<1>2. PICK k \in Levels : D(k) = D(l) /\ pc[k] \in Inside
  BY <1>1 DEF IInv, Held
<1>3. QED BY <1>2 DEF IInv, Nesting, Inside, Levels

\* What was fetched by a SELECT that succeeds is what it promises.
LEMMA IInvImpliesComplete == IInv => Complete
<1> SUFFICES ASSUME IInv, pc[1] = "idle", ret = 1, want # "none" PROVE Complete
  BY DEF Complete
<1>1. i \in 0 .. n /\ n \in Nat /\ Rows(0) = <<>>
  BY DbAssumption DEF IInv, TypeOK, Counted, Rows
<1>2. D(1) \in ToTheEnd => got = Rows(n)
  BY DEF IInv, AllFetched, GotSoFar, ToTheEnd, InTurn
<1>3. D(1) \in AllOrNone => got \in {Rows(n), <<>>}
  BY <1>1 DEF IInv, AllFetched, GotSoFar, AllOrNone, InTurn
<1>4. D(1) = "D_ORACLE" => \E k \in 0 .. n : got = Rows(k)
  BY <1>1 DEF IInv, GotSoFar, InTurn
<1>5. D(1) = "D_MONGODB" =>
        \A a \in 1 .. Len(got) :
          /\ got[a].row \in 1 .. n /\ got[a].fields = Columns
          /\ a > 1 => got[a - 1].row < got[a].row
  BY <1>1 DEF IInv, GotSome
<1>6. QED BY <1>2, <1>3, <1>4, <1>5 DEF Complete, ToTheEnd, AllOrNone

\* Every variable of the drivers stays in its range.
THEOREM TypeCorrect == Spec => []TypeOK
<1>1. IInv => TypeOK BY DEF IInv
<1>2. QED BY <1>1, Invariance, PTL

\* Whatever statements callbacks execute, with whatever driver, none waits
\* for a mutex that a statement in progress of its own thread holds.
THEOREM NeverWaitsForItself == Spec => []NoSelfDeadlock
  BY IInvImpliesNoSelfDeadlock, Invariance, PTL

\* After a successful statement the mutex of its driver is free, also when a
\* nested statement had kept it.
THEOREM SuccessFreesMutex == Spec => []FreeAfterSuccess
<1>1. IInv => FreeAfterSuccess BY DEF IInv
<1>2. QED BY <1>1, Invariance, PTL

\* A SELECT that succeeds has handed out the rows its driver promises: all,
\* all or none, those up to some row, or some of them in order.
THEOREM SuccessIsComplete == Spec => []Complete
  BY IInvImpliesComplete, Invariance, PTL
=============================================================================

------------------------------- MODULE DbExec -------------------------------
(***************************************************************************)
(* Executing statements through the database drivers (core/db/system.c,    *)
(* db/).  A driver has one db_exec_mutex for all connections of its kind.  *)
(* Its exec function locks it, prepares and executes the statement, hands  *)
(* the rows to dst_result or to query_exec_callback, and unlocks it.       *)
(* Before a callback the mutex is unlocked, and it is not locked again for *)
(* the next row; unlocking a free mutex leaves it free (glibc, default     *)
(* kind).                                                                  *)
(*                                                                         *)
(* One thread executes statements: watchers of DCPAM ETL exclude each      *)
(* other (EtlWorker), DCPAM WDS has no other thread.  What can go wrong is *)
(* the nesting: the callbacks of Extract and Load execute statements of    *)
(* their own, for any number of targets, maybe with the driver whose rows  *)
(* are being fetched.  These have no result and no callback, so there are  *)
(* two levels.                                                             *)
(*                                                                         *)
(* The eight exec functions are one loop with different ways out.  A       *)
(* driver is the record of them:                                           *)
(*   prepare, select, change, fetch: what an error at that point does      *)
(*     "never"    there is no such error                                   *)
(*     "unlock"   the mutex is unlocked and 0 returned                     *)
(*     "keep"     0 is returned and the mutex left as it is                *)
(*     "stop"     the rest of the rows is given up and 1 returned          *)
(*     "empty"    all the rows are given up, before the first, and 1       *)
(*                returned                                                 *)
(*     "garbage"  the error is taken for one more row                      *)
(*   delivers: whether rows are handed to anyone                           *)
(*   first: whether a record for a callback has only its first field set   *)
(*   gaps: whether rows of the result may be passed over, the last included*)
(***************************************************************************)
EXTENDS Integers, Sequences

CONSTANTS
  Dbs,      \* the databases of the configuration
  Columns,  \* field_count of a result
  MaxRows,  \* bound on the rows of a result
  MaxErrors \* bound on the errors taken for rows in one statement

\* PG_exec: the whole result is in memory when the rows are handed out.
PG_exec == [prepare |-> "never", select |-> "unlock", change |-> "unlock",
            fetch |-> "never", delivers |-> TRUE, first |-> FALSE, gaps |-> FALSE]

\* Seeded defect: rows are fetched from the server one by one, and an error
\* is taken for the end (mysql_use_result).
MysqlUseResult == [prepare |-> "never", select |-> "unlock", change |-> "unlock",
                   fetch |-> "stop", delivers |-> TRUE, first |-> FALSE, gaps |-> FALSE]

\* MYSQL_exec: mysql_store_result fetches the whole result or returns NULL,
\* which is taken for a result without rows.
MYSQL_exec == [prepare |-> "never", select |-> "unlock", change |-> "unlock",
               fetch |-> "empty", delivers |-> TRUE, first |-> FALSE, gaps |-> FALSE]

\* MARIADB_exec: as MYSQL_exec.
MARIADB_exec == [prepare |-> "never", select |-> "unlock", change |-> "unlock",
                 fetch |-> "empty", delivers |-> TRUE, first |-> FALSE, gaps |-> FALSE]

\* ODBC_exec: the macro CHECK_ERROR returns without unlocking.
ODBC_exec == [prepare |-> "keep", select |-> "unlock", change |-> "unlock",
              fetch |-> "keep", delivers |-> TRUE, first |-> FALSE, gaps |-> FALSE]

ORACLE_exec == [prepare |-> "unlock", select |-> "unlock", change |-> "unlock",
                fetch |-> "stop", delivers |-> TRUE, first |-> FALSE, gaps |-> FALSE]

\* SQLITE_exec: the loop ends with SQLITE_DONE only; the callback's record
\* is filled with i = 0 in each pass.
SQLITE_exec == [prepare |-> "keep", select |-> "never", change |-> "unlock",
                fetch |-> "garbage", delivers |-> TRUE, first |-> TRUE, gaps |-> FALSE]

\* MONGODB_exec: of the documents the command finds, those of the one batch
\* in its reply are handed out, the empty ones are not; the cursor's error
\* is asked for after the loop, and leaves the mutex.
MONGODB_exec == [prepare |-> "unlock", select |-> "keep", change |-> "keep",
                 fetch |-> "keep", delivers |-> TRUE, first |-> FALSE, gaps |-> TRUE]

\* LDAP_exec prints what it finds.
LDAP_exec == [prepare |-> "never", select |-> "unlock", change |-> "unlock",
              fetch |-> "never", delivers |-> FALSE, first |-> FALSE, gaps |-> FALSE]

\* DB_exec: the switch over the drivers.
DB_exec ==
  [D_POSTGRESQL |-> PG_exec, D_MYSQL |-> MYSQL_exec, D_MARIADB |-> MARIADB_exec,
   D_ODBC |-> ODBC_exec, D_ORACLE |-> ORACLE_exec, D_SQLITE |-> SQLITE_exec,
   D_MONGODB |-> MONGODB_exec, D_LDAP |-> LDAP_exec]

\* The state of a connection whose connect failed: "closed" after a 0,
\* "bad" if the failure is reported as success.
PG_connect == "closed"
MYSQL_connect == "closed"
MARIADB_connect == "closed"
ODBC_connect == "closed"
ORACLE_connect == "closed"
SQLITE_connect == "bad"
MONGODB_connect == "closed"
LDAP_connect == "closed"

DATABASE_SYSTEM_DB_init ==
  [D_POSTGRESQL |-> PG_connect, D_MYSQL |-> MYSQL_connect,
   D_MARIADB |-> MARIADB_connect, D_ODBC |-> ODBC_connect,
   D_ORACLE |-> ORACLE_connect, D_SQLITE |-> SQLITE_connect,
   D_MONGODB |-> MONGODB_connect, D_LDAP |-> LDAP_connect]

Drivers == {"D_POSTGRESQL", "D_MYSQL", "D_MARIADB", "D_ODBC", "D_ORACLE",
            "D_SQLITE", "D_MONGODB", "D_LDAP"}
Levels == 1 .. 2

ASSUME DbAssumption ==
  /\ Columns \in Nat \ {0} /\ MaxRows \in Nat /\ MaxErrors \in Nat

VARIABLES
  driver, \* of each database: DATABASE_SYSTEM_DB.driver, as configured
  conn,   \* of each database: "closed", "open" or "bad"
  mutex,  \* the db_exec_mutex of a driver: "free", "locked" by a statement
          \* in progress, or "left" locked by one that has returned
  pc, db, \* of both levels: where its exec is, and its database
  want,   \* level 1: "dst", "callback", or "none" for a change
  n, i,   \* level 1: rows of the result, rows fetched
  errors, \* level 1: errors taken for rows
  got,    \* level 1: the records handed out
  ret     \* what the last exec of level 1 returned, -1 if there is none

vars == <<driver, conn, mutex, pc, db, want, n, i, errors, got, ret>>

Record == [row : 0 .. MaxRows, fields : {1, Columns}]
Pcs == {"idle", "lock", "prepare", "execute", "fetch", "callback", "end"}

D(l) == driver[db[l]]
Exec(l) == DB_exec[D(l)]

Init ==
  /\ driver \in [Dbs -> Drivers]
  /\ conn = [d \in Dbs |-> "closed"]
  /\ mutex = [v \in Drivers |-> "free"]
  /\ pc = [l \in Levels |-> "idle"]
  /\ db \in [Levels -> Dbs]
  /\ want = "none" /\ n = 0 /\ i = 0 /\ errors = 0 /\ got = <<>> /\ ret = -1
-----------------------------------------------------------------------------
\* LDAP_connect holds the driver's mutex, and so needs it.
Connect(d) ==
  /\ pc[1] = "idle" /\ conn[d] = "closed"
  /\ driver[d] = "D_LDAP" => mutex["D_LDAP"] = "free"
  /\ conn' \in {[conn EXCEPT ![d] = "open"],
                [conn EXCEPT ![d] = DATABASE_SYSTEM_DB_init[driver[d]]]}
  /\ UNCHANGED <<mutex, pc, db, want, n, i, errors, got, ret>>

DATABASE_SYSTEM_DB_close(d) ==
  /\ pc[1] = "idle" /\ conn[d] # "closed"
  /\ conn' = [conn EXCEPT ![d] = "closed"]
  /\ UNCHANGED <<mutex, pc, db, want, n, i, errors, got, ret>>

\* Extract, Load, the actions before and after ETL, or WDS: a statement.
Call(d, w) ==
  /\ pc[1] = "idle" /\ conn[d] # "closed"
  /\ db' = [db EXCEPT ![1] = d] /\ pc' = [pc EXCEPT ![1] = "lock"]
  /\ want' = w /\ n' = 0 /\ i' = 0 /\ errors' = 0 /\ got' = <<>> /\ ret' = -1
  /\ UNCHANGED <<conn, mutex>>

\* DB_QUERY_format fails for lack of values, before any driver is called.
FormatFails(d, w) ==
  /\ pc[1] = "idle" /\ conn[d] # "closed"
  /\ db' = [db EXCEPT ![1] = d] /\ want' = w
  /\ n' = 0 /\ i' = 0 /\ errors' = 0 /\ got' = <<>> /\ ret' = 0
  /\ UNCHANGED <<conn, mutex, pc>>

\* The callback executes a statement: stage_generic_callback once,
\* load_generic_callback once for each output target.
Nested(d) ==
  /\ pc[1] = "callback" /\ pc[2] = "idle" /\ conn[d] # "closed"
  /\ db' = [db EXCEPT ![2] = d] /\ pc' = [pc EXCEPT ![2] = "lock"]
  /\ UNCHANGED <<conn, mutex, want, n, i, errors, got, ret>>

CallbackReturns ==
  /\ pc[1] = "callback" /\ pc[2] = "idle"
  /\ pc' = [pc EXCEPT ![1] = "fetch"]
  /\ UNCHANGED <<conn, mutex, db, want, n, i, errors, got, ret>>
-----------------------------------------------------------------------------
Return(l, r) ==
  /\ pc' = [pc EXCEPT ![l] = "idle"]
  /\ ret' = IF l = 1 THEN r ELSE ret
  /\ UNCHANGED <<conn, db, want, n, i, errors, got>>

\* A way out with an error.
Fail(l, how) ==
  /\ how \in {"unlock", "keep"}
  /\ mutex' = [mutex EXCEPT ![D(l)] =
                 IF how = "keep" /\ @ # "free" THEN "left" ELSE "free"]
  /\ Return(l, 0)

Goto(l, label) ==
  /\ pc' = [pc EXCEPT ![l] = label]
  /\ UNCHANGED <<conn, mutex, db, want, i, errors, got, ret>>

Lock(l) ==
  /\ pc[l] = "lock" /\ mutex[D(l)] = "free"
  /\ mutex' = [mutex EXCEPT ![D(l)] = "locked"]
  /\ pc' = [pc EXCEPT ![l] = "prepare"]
  /\ UNCHANGED <<conn, db, want, n, i, errors, got, ret>>

Prepare(l) ==
  /\ pc[l] = "prepare"
  /\ \/ conn[db[l]] = "open" /\ Goto(l, "execute") /\ UNCHANGED n
     \/ Fail(l, Exec(l).prepare)

Selects(l) == l = 1 /\ want # "none"

Execute(l) ==
  /\ pc[l] = "execute"
  /\ \/ Selects(l) /\ n' \in 0 .. MaxRows /\ Goto(l, "fetch")
     \/ ~Selects(l) /\ Goto(l, "end") /\ UNCHANGED n
     \/ Fail(l, IF Selects(l) THEN Exec(l).select ELSE Exec(l).change)

\* Seeded defect: the callback is called with the mutex locked.
DeliverLocked(row) ==
  /\ got' = Append(got, [row |-> row, fields |-> Columns])
  /\ pc' = IF want = "callback" THEN [pc EXCEPT ![1] = "callback"] ELSE pc
  /\ UNCHANGED mutex

\* A record is made and kept in dst_result, or handed to the callback with
\* the mutex unlocked.
Deliver(row) ==
  LET fields == IF want = "callback" /\ Exec(1).first THEN 1 ELSE Columns
  IN /\ got' = IF Exec(1).delivers
               THEN Append(got, [row |-> row, fields |-> fields]) ELSE got
     /\ IF want = "callback" /\ Exec(1).delivers
        THEN mutex' = [mutex EXCEPT ![D(1)] = "free"] /\ pc' = [pc EXCEPT ![1] = "callback"]
        ELSE UNCHANGED <<mutex, pc>>

\* Seeded defect: one row too many.
FetchPastEnd ==
  /\ pc[1] = "fetch" /\ i <= n
  /\ i' = i + 1 /\ Deliver(i + 1)
  /\ UNCHANGED <<conn, db, want, n, errors, ret>>

Fetch ==
  /\ pc[1] = "fetch" /\ i < n
  /\ i' = i + 1
  /\ \/ Deliver(i + 1)
     \/ Exec(1).gaps /\ UNCHANGED <<got, mutex, pc>>
  /\ UNCHANGED <<conn, db, want, n, errors, ret>>

FetchFails ==
  /\ pc[1] = "fetch"
  /\ \/ Fail(1, Exec(1).fetch)
     \/ Exec(1).fetch = "stop" /\ Goto(1, "end") /\ UNCHANGED n
     \/ Exec(1).fetch = "empty" /\ i = 0 /\ Goto(1, "end") /\ UNCHANGED n
     \/ /\ Exec(1).fetch = "garbage" /\ errors < MaxErrors
        /\ errors' = errors + 1 /\ Deliver(0)
        /\ UNCHANGED <<conn, db, want, n, i, ret>>

Fetched ==
  /\ pc[1] = "fetch" /\ i = n
  /\ Goto(1, "end") /\ UNCHANGED n

\* Seeded defect: after a callback the mutex is taken to be free.
EndOnce(l) ==
  /\ pc[l] = "end"
  /\ mutex' = [mutex EXCEPT ![D(l)] =
                 IF got # <<>> /\ l = 1 /\ want = "callback" THEN @ ELSE "free"]
  /\ Return(l, 1)

\* The unlock at the end, and the one way to a result 1.
End(l) ==
  /\ pc[l] = "end"
  /\ mutex' = [mutex EXCEPT ![D(l)] = "free"]
  /\ Return(l, 1)

Step ==
  \/ \E d \in Dbs : Connect(d) \/ DATABASE_SYSTEM_DB_close(d) \/ Nested(d)
  \/ \E d \in Dbs, w \in {"dst", "callback", "none"} : Call(d, w) \/ FormatFails(d, w)
  \/ CallbackReturns \/ Fetch \/ FetchFails \/ Fetched
  \/ \E l \in Levels : Lock(l) \/ Prepare(l) \/ Execute(l) \/ End(l)

Next == Step /\ UNCHANGED driver

Spec == Init /\ [][Next]_vars
-----------------------------------------------------------------------------
(***************************************************************************)
(* Properties.                                                             *)
(***************************************************************************)

\* Every variable stays in its range.
TypeOK ==
  /\ driver \in [Dbs -> Drivers]
  /\ conn \in [Dbs -> {"closed", "open", "bad"}]
  /\ mutex \in [Drivers -> {"free", "locked", "left"}]
  /\ pc \in [Levels -> Pcs] /\ db \in [Levels -> Dbs]
  /\ want \in {"dst", "callback", "none"}
  /\ n \in 0 .. MaxRows /\ i \in 0 .. MaxRows /\ errors \in 0 .. MaxErrors
  /\ got \in Seq(Record) /\ ret \in -1 .. 1

\* No statement waits for a mutex that its own thread holds in a statement
\* in progress: one that a callback executes with the driver whose rows are
\* being fetched finds the mutex free, or left locked by an earlier failure.
NoSelfDeadlock == \A l \in Levels : pc[l] = "lock" => mutex[D(l)] # "locked"

\* A statement that succeeds leaves the mutex of its driver free, also when
\* a statement of its callback kept that mutex.
FreeAfterSuccess == pc[1] = "idle" /\ ret = 1 => mutex[D(1)] = "free"

\* The first k rows, each with all its fields.
Rows(k) == [r \in 1 .. k |-> [row |-> r, fields |-> Columns]]

\* What a SELECT that succeeds has handed out, row by row with all fields:
\* with PostgreSQL and ODBC the result; with MySQL and MariaDB the result or
\* nothing, never a part of it; with Oracle the result up to some row; with
\* MongoDB rows of the result, each once and in order.  (SQLITE_exec makes
\* rows of errors and LDAP_exec hands out none, so nothing is said of them.)
Complete ==
  pc[1] = "idle" /\ ret = 1 /\ want # "none" =>
    /\ D(1) \in {"D_POSTGRESQL", "D_ODBC"} => got = Rows(n)
    /\ D(1) \in {"D_MYSQL", "D_MARIADB"} => got \in {Rows(n), <<>>}
    /\ D(1) = "D_ORACLE" => \E k \in 0 .. n : got = Rows(k)
    /\ D(1) = "D_MONGODB" =>
         \A a \in 1 .. Len(got) :
           /\ got[a].row \in 1 .. n /\ got[a].fields = Columns
           /\ a > 1 => got[a - 1].row < got[a].row

\* A statement never waits for a mutex that a failed statement left locked:
\* the failure of one system's statement does not stop the next statement,
\* which may be another system's (TODO.md:87).
FailureStaysLocal == \A l \in Levels : pc[l] = "lock" => mutex[D(l)] # "left"
=============================================================================

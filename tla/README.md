# Verification of DCPAM in TLA+

DCPAM ("Data Construct, Process And Manage") is a set of C programs around a data
warehouse: an ETL engine, a cache server for warehouse queries, a remote processor of
transform scripts and a monitor of them all.  This directory holds TLA+ models of the parts
of it that carry state and concurrency, TLC configurations that check them on small
instances, and TLAPS proofs.  `PROJECT.json` maps every definition to the lines it models.
Paths below are relative to `src/src/` of the repository unless they start with `src/`.

## 1. The system

| Component | Code | State | Operations | Talks to |
|---|---|---|---|---|
| ETL engine | `core/db/worker.c`, `DCPAM_ETL/dcpam-etl.c` | failure flag, watcher thread and connections of each data system, `watcher_mutex`, log objects | start a cycle, spawn / join watchers, connect, run a phase, disconnect, end | databases, LCS (reports), RDP (transforms) |
| ETL workflow | `core/db/etl/*.c`, body of `DB_WORKER_watcher` | source, Staging Area, target tables, LCS actions | PreETL, Extract (CDC), Stage, Transform, Load, PostETL | databases, scripts, RDP, LCS |
| Network server | `core/network/socket_io.c` | `master` set, `newfd`, `connected_clients[]` | accept, receive, answer, close | every component's request handler |
| Network client | `core/network/client.c`, `core/lcs_report.c` | a connection | connect, send and read, disconnect | the servers of the other components; shares `master` with the own server |
| WDS cache | `DCPAM_WDS/dcpam-wds.c`, `core/cache.c`, `DCPAM_WDS/sql_parser.c` | `CACHE[]`, `SUB_CACHE[]`, `CACHE_size` | preload, answer a request from cache, sub-cache or database | databases, network server |
| WDS cluster | `DCPAM_WDS/dcpam-wds.c:746-842` | list of nodes and their tables, the request being worked for | forward a request, wait, pass the answer on | other WDS nodes |
| LCS (Live Component State) | `DCPAM_LCS/*.c` | registered components, their `active` flags and actions | register, report, ping, list | ETL, WDS, RDP |
| RDP (Remote Data Processor) | `DCPAM_RDP/dcpam-rdp.c`, `core/db/etl/transform.c` | the script that runs | run a script for ETL, answer a ping | ETL, LCS |
| Database drivers | `db/*.c`, `core/db/system.c` | connection, `db_exec_mutex` of each driver | connect, exec, disconnect | database servers |
| Flat files | `file/*.c`, `core/file/preload.c` | the table a file is loaded into | load a file into a table, once per cycle | the system's database, which is then the source |
| Termination | `app_terminate` of every program | all of the above | free everything in a signal handler | every thread |
| Configuration | `load_configuration` of every program | configuration objects | parse JSON once, before any thread starts | |
| Utilities, cJSON | `utils/`, `third-party/` | log buffer | text, memory, files | |

### What is hard in it

* **Threads.** One watcher per data system and phase, one mutex for all of them, early
  returns that keep the mutex, a failure flag written under the mutex and read outside of
  it, joins that are skipped for failed systems, arguments in a stack frame, log objects
  freed by the main thread.  A listener thread shares the descriptor set with watchers
  that open connections of their own.
* **Long protocols with failures.** A record goes through six subprocesses for each of
  several queries, the source changes meanwhile, and each of them may fail.
* **The server's single-client assumption.** `newfd` is one variable for all clients.
* **A cache with two levels of aliasing**: sub-caches index the records of cache entries that
  are reused, freed and moved.
* **Single-threaded servers that wait for each other.** A WDS node forwards a request and reads nothing
  until it has the answer; RDP runs one script at a time and answers before it ends; LCS waits for
  components that wait for LCS.
* **A byte stream read as messages.** One `send` per answer, and a receive loop that assumes full segments.
* **Resources at their limit**: cache size, client table, descriptors, mutexes.

`PROJECT.json` lists these as hazards, each at its line and with the properties that would
catch it.

### What makes each component correct

* ETL engine: watchers exclude each other, every thread that is joined exists and is joined
  once, phases do not overlap, nothing is freed under a watcher, the mutex comes back, each cycle
  serves every system or holds it.
* ETL workflow, flat files: the target converges to the source; a record that stays in the source stays in the
  target; only fresh and fully transformed data is
  loaded; the Staging Area is clear after a cycle; what is reported started is reported stopped.
* Network server: each request is answered; the handler finds its client; no thread loses
  its descriptor to another one.
* WDS cache: sizes are accounted for and limited; sub-caches index live entries; an answer is
  what the database had for that query.
* Database drivers: a statement never waits for a mutex of its own thread or of a failed one; a statement that
  succeeds leaves the mutex free and has handed out the whole result.
* LCS: it gets to serve, and no report waits for ever, although everybody waits for everybody
  without a timeout; a component's actions are listed in their order; `active` follows the component.
* WDS cluster: a request gets the data of the node that has its table, whole, or an error for which there is a
  reason, and always gets one of them.
* RDP: what ETL loads was transformed by a script that ended.

## 2. Modules

A module whose name ends in `Proofs` holds the theorems about the module before it (section 4).

### EtlWorker, EtlPhases, EtlRefinement, EtlWorkerProofs, EtlRefinementProofs (`core/db/worker.c`)

`EtlWorker` has the main thread (`mpc`: loops over the systems in `DB_WORKER_init`, once per
phase to spawn and once to join), any number of watcher threads (`pc[t]`: lock, connect up
to three databases, phase work, unlock, disconnect), the listener thread as far as the end of
the process needs it, and `watcher_mutex`.  A step is what lies between two accesses to
shared state.  `failure` is read by the main thread without the mutex, exactly where the
code reads it.  Thread ids are a finite set that is reused after a join, as the C library does;
the ids of watchers that are never joined are used up, which is why `Threads` may run out
(`pthread_create` fails, if `CreateMayFail`).  A watcher that leaves early with the mutex
turns it into `Lost`.

`EtlPhases` says what the engine promises: systems go through Extract, Transform, Load in
lockstep, a system may drop out to "hold", nothing else happens.  `EtlRefinement` gives the
mapping (the progress of a system is computed from the main thread's position and the positions of
its watchers) and states `ImplementsPhases`.

### EtlPipeline, EtlPipelineProofs, MCEtlPipeline (`core/db/etl/*.c`, `core/db/worker.c:300-800`, `core/file/preload.c`, `dcpam-rdp.c:62-153`)

One data system with `Q` queries; because EtlWorker shows that its phases do not overlap,
it is one sequential process with a concurrent source (`SourceChange`).  A record is an id with a
version.  Control is kept whole: which query's actions run when, which database they run on, what a failure skips.

SQL is external: it is what `src/conf/etl_config.json` shows.  Inserted are ids of the source of which the target has no row,
deleted are valid rows of the target whose id is not in the source.  A deletion is an update, `is_valid = 0`, so that the row stays (`Gone`) and
its id is never inserted again.  Modified are the records whose change time is later than the target's latest `changed` (`conf/etl_config.json:57-62`, `273-278`):
the clocks are not modelled, so `Secondary` lets the query find any set of the source's records, those it should find or not.  A modification
that was lost may never be found again, so `Converges` is about which records are there and valid, not about their values.  The flat-file
queries of the sample name `time_accounting` where they mean `ff_time_accounting` in their deleted and modified parts; the model takes them as meant.

`setup` is the configuration, chosen in `Init` among `Setups`, so that one run covers them all:

* `flat`: the source is a file.  `PreEtl` empties the table it is loaded into (as the sample configuration does),
  `Preload` fills it record by record, `PreloadFails` puts the system on hold.  What a preprocessor said of the
  file is overwritten by the result of the load (`worker.c:395`).
* `remote`: the modules are `dcpam://` ones.  `RemoteRuns` is the request and RDP's answer.  RDP answers at the first
  byte the script prints; with `early` the script may go on after that (`script`) until `ScriptEnds`, and
  because RDP reads its next request only after `pclose`, the next remote module waits for it.  With `rejects` RDP
  may answer "-1" or die (`RemoteRejected`), which ETL takes for a success.
* `stage`, `post`: the queries with a Staging Area and with PostETL actions.

A step that inserts rows may lose any of them (`Inserted`), in at most `MaxLosses` steps.

### SocketServer, SocketServerProofs, MCSocketServer (`core/network/socket_io.c`, `client.c`, the four request handlers)

The server thread (`select`, scan of `read_fds`, callback), clients, and a thread of the same
process that opens and closes connections through NET_CONN.  Descriptors are small numbers given
out lowest first, as the kernel does.  Of a handler only its way of closing is kept: `program` is the
component that listens, one of the four of `MCSocketServer`, and stays what it is.  FD_CLR
by the other thread is one step, or, with `Racy`, a read and a write (the code has no lock).

### WdsCache, WdsCacheProofs, MCWdsCache (`core/cache.c`, `DCPAM_WDS/dcpam-wds.c:677-992`, `sql_parser.c`)

Start-up (`Start...`, one step per configured query) and requests, each for a query of one of several databases that have the same tables.  A query is its table, the rows
its WHERE keeps, the direction of its ORDER BY and its LIMIT.  Text containment of queries is a relation given by
`Contained`, which need not have to do with what the queries ask for: the name of a table may extend another's.  As in the code, nothing but the text
decides which entry answers.  With an answer goes the entry it was taken from; a row's size is 1, and `Sizes` adds up what the entries hold, against which `CACHE_size` is checked.  WDS is single-threaded, so that a request is one step, split
into actions by its way through `DCPAM_WDS_get_db_data`: hit, sub-cache, new sub-cache, miss
within the limit, miss over the limit, failure.

### WdsCluster, WdsClusterProofs, MCWdsCluster (`DCPAM_WDS/dcpam-wds.c:746-842, 994-1135`, `core/network/client.c:160-245`)

Any number of nodes, each one thread (`job[n]`: a request that is new, waiting for a peer, or has received the
peer's answer) with at most one connection waiting to be read (`conn[n]`).  `route` is the configuration: for each node
and table the node itself, the first peer that lists the table, or nobody.  The actions of a node are the ways through
`DCPAM_WDS_query`: `Status`, `Reject`, `DbData`, `DbFails`, `NotFound`, and `Forward` followed by `PassOn` or `NoAnswer`, or
`Refused`.  `Crash` closes all connections of a node at any moment, `Restart` brings it back empty.

An answer is a length and a few facts (table, node, whether its bytes are whole).  `Recv` is a round of the receive loop
with `LEN` bytes as its step, on a buffer of byte numbers; `Rounds` is the loop, `Response` what it ends with, and `Deliveries` are its outcomes for every way to cut an answer
into segments.  `Way(n, t)` are the nodes that the routes of table `t` lead to from `n`, `Owners` the one of them that has the table, if any.  `Reply` sends a prefix of the answer, since the code does not look at what `send` returned.  A node passes on one
byte more than it got, the zero behind the string (`dcpam-wds.c:764`).

SQL is one of three kinds: `"sql"` can stand in a JSON string as it is, `"marked"` has a quote or a backslash in it, `"other"` is what a
node reads in place of marked SQL.  `Reread` is what the peer gets of what `DCPAM_WDS_get_node_data` wrote without escapes: no JSON, or other SQL.
Other SQL is taken to be for the same table; SQL without `FROM` is one for a table nobody has.  A request carries
the faults and the running nodes of the moment it was made, against which `ErrorForAReason` holds an error (`Undisturbed`); `Garbled` says which calls the missing escapes touch.

A connection is made when no other one waits at the node: two that wait are what `net_concurrent` is about.  What
a node has cached is left to WdsCache.

### DbExec, DbExecProofs (`db/*.c`, `core/db/system.c`)

The eight exec functions are one loop (lock, prepare, execute, fetch, hand out, unlock) with different
ways out; a driver is the record of what an error at each point does and of what it hands out,
read off its code: an error may be returned with or without unlocking, be taken for the end of the rows, for a result without rows (`mysql_store_result` gives NULL, `mysql.c:131`), or for
rows that do not exist.  MongoDB hands out the first batch of a reply, without empty documents.  `Complete` says driver by driver what a success is worth.  `driver` maps each database to its driver and is chosen in `Init`, so that one run covers every
pair of drivers.  Level 1 is the statement of Extract, Load or WDS, level 2 what its callback executes:
the mutex is unlocked before every callback and not locked again, which the model keeps.

### Lcs, LcsProofs (`DCPAM_LCS/*.c`, `core/component.c`, `core/lcs_report.c`)

The main thread of LCS (register and ping each component, create the worker, listen), the ping worker and
the components with their reports.  A component of `Threaded` answers pings in a thread of its own (ETL), any other
one only when it does not serve or report (RDP, WDS).  LCS matches a report by name, version and address
(`known`); a component's server may or may not let LCS in (`allows`).  A report while LCS does not listen is
lost.  Both are chosen in `Init`, and so is who is up.  The main thread and the worker never ping at the same
time, so that one position (`i`, `cpc`) serves both.  Connecting and sending is one step here: a client that
is overtaken between the two is what `net_concurrent` is about.

## 3. Runs

Passing runs check the properties the code has; runs that expect a violation show a
disagreement between the code and a sentence of its documentation, quoted in `findings`.  `TypeOK` was checked for every component on the instances below.

| Run | Question | Result |
|---|---|---|
| `etl_once` | one-time mode, any query may fail: is each system served or held, does the process end, with the mutex free and nothing freed under a watcher, and is all this an implementation of `EtlPhases`? | holds |
| `etl_faults` | refused connections, flat files, preprocessors, failing `pthread_create`, cycle after cycle: exclusion, joins, phases, connections | holds |
| `etl_independent` | is each system served or held when one database refuses a connection? | violated: the mutex is lost, the other system waits for ever |
| `pipeline` | does the warehouse get the records of a changing database or flat file, keep what stays, load only fresh and transformed data, close its reports and clear the Staging Area, with local and remote modules, failing queries, transforms and inserts? | holds; exceptions are named in the properties |
| `pipe_post_etl` | does the warehouse catch up with PostETL actions on two queries? | violated: rows are deleted before they are loaded |
| `net_serve` | one client at a time, every program, clients that hang up, in ETL a second thread | each is served, its entry found, the server keeps running, the thread is undisturbed |
| `net_concurrent` | two clients at a time | violated: the request of the first is never read |
| `wds_serve` | configurations that fit, any requests to two databases, a change of data | accounts and limit, sub-caches hold; answers are right for the entry they come from |
| `wds_other_db` | is a request answered with data of the database it names? | violated: the cache compares SQL only |
| `wds_cluster` | three nodes, routings of two tables (a chain, an unknown table, circles), crashes, restarts, short sends, segments, SQL with quotes | right source, errors for a reason, buffer in bounds, bytes in order if segments are full; every request returns unless routes are circular |
| `lcs_watch` | reports that cross pings, busy and crashing components, unknown ones and ones that refuse LCS | LCS serves, reports return, lists are in order, `active` follows |
| `db_exec` | any two drivers, nested statements, errors everywhere | holds with the exceptions the properties name |

### Known limits of the code that no run states

The models also show these; each is left out of the passing runs by a constant, named here, and
the property that it breaks.

* An empty primary result skips extraction (`extract.c:166`): with `Anchored = {}` `Converges` fails, because a source that
  becomes empty deletes nothing and an empty warehouse gets nothing.  With a driver that has no columns for an empty result
  (`postgresql.c:148`, `extract.c:114`, `EmptyHasNoColumn`) the system is put on hold although nothing failed, in its first cycle if the
  warehouse is empty: `HeldForAReason`.  src/conf/etl_config.json:41 says "In Extract subprocess, query may finish with 0, 1 or many result rows."
* `pthread_create` that fails makes `DB_WORKER_init` return under its watchers (`worker.c:144`): `ArgumentsAlive` without `~CreateMayFail`.
* The preprocessor clears the failure flag of a system that is on hold (`worker.c:379`): `HoldIsForever` for all systems.  When its
  `popen` fails `pclose(NULL)` follows (`worker.c:382`), which the model takes to return.
* A request to DCPAM ETL that is no ping leaves its entry in the client table (`dcpam-etl.c:2017`); LCS, its only client, sends none.
* Of several transform modules in a list the first is run (`transform.c:157`): `Modules = 2`, `FullyTransformed`.
* A failing load or transform skips its closing report (`worker.c:571`): `ReportsClosed`, for systems on hold too.
* PostETL actions without PreETL actions read a null pointer (`worker.c:777`): `Pre = {}`, `NeverCrashes`.
* With a staging database (`StagingDb`) unstaged rows go to it instead of the target
  (`worker.c:436`, `Converges`) and PostETL actions run on the other database (`worker.c:769`, `ClearedAfterLoad`).
* FD_CLR of one thread can undo FD_SET of the other (`socket_io.c:256`): `Racy`, `Served`.
* The LCS handler closes up to six times (`dcpam-lcs.c:385`), and after an end of file the server itself
  twice (`socket_io.c:224`): a program with `thread` and `closes = {6}`, or with `thread` and
  `leave`, breaks `ThreadUndisturbed`.
* RDP answers at the first byte a script prints (`dcpam-rdp.c:132`): the load may start while the last script
  still runs.  `FullyTransformed` allows for that one script (`early`).  src/TODO.md:79 says "Wait for external
  script/application to finish with `EXIT_SUCCESS`"; no exit status is read anywhere, local modules included.
* An answer "-1" or an empty one counts as success (`transform.c:122`), and so does a `NET_CONN_init` that fails
  (`transform.c:117`): `FullyTransformed` with `rejects`.  After `popen` failed RDP calls `pclose(NULL)`
  (`dcpam-rdp.c:120`).  A remote transform disconnects twice (`transform.c:134`, `140`), or not at all when
  the connection is refused (`transform.c:137`).
* WDS nodes whose routes form a circle, for one table or across tables, wait for each other for ever
  (`dcpam-wds.c:761`): `QueryReturns` without `Acyclic`.
* A segment that does not fill the space offered to `recv` is overwritten by the next one, and the end of the answer is then
  what `realloc` left there (`client.c:217`); a `send` that takes less than all of an answer truncates it
  (`socket_io.c:299`): `Intact` without its exception.
* A lost insert into the table of a flat file makes the extraction delete the record from the warehouse (`preload.c:145`), for good: its row is
  not valid any more and keeps it from being inserted again.  `AnchoredStay` with `losses`, `Converges` without its exception.
* ODBC_exec (`CHECK_ERROR`, `odbc.c:31`), SQLITE_exec (a failed prepare, `sqlite.c:107`) and MONGODB_exec (`mongodb.c:260`) return errors with
  `db_exec_mutex` locked, and the next statement with that driver, of whichever system, waits for ever: `FailureStaysLocal`, and why `NoSelfDeadlock`
  exempts them.  SQLITE_connect returns 1 when `sqlite3_open` failed (`sqlite.c:55`), and the statements on that connection fail in `prepare`.
* What a success of SQLITE_exec and LDAP_exec has handed out: SQLite makes a row of every error (`sqlite.c:117`), LDAP hands out none.
* Two configurations of flat files that are not modelled: a CSV record with fewer fields than the header, or without a newline at its
  end, reads pointers that were not set (`csv.c:103`); a configured column the file does not have shifts the values (`preload.c:119`).
* A ping that fails closes its descriptor two or three times (`component.c:226`), next to the listener that
  may have got the same number in between; the second thread of SocketServer closes once, as a report does.
* A report that cannot connect leaves its socket open (`lcs_report.c:118`).
* RDP adds the host of LCS to its list of hosts and then passes the length without it (`dcpam-rdp.c:341`): unless
  the operator lists LCS too, RDP is shown as inactive (`allows` of Lcs).
* A registration that fails does not stop LCS, whatever the comment at `dcpam-lcs.c:188` says (the `break` is commented
  out), and the component counts as active until the worker's first ping.
* A configured query over the limit stays in the cache (`dcpam-wds.c:729`, `WithinLimit`), and its entry is
  reused under sub-caches (`dcpam-wds.c:717`, `SubCacheSound`): configurations that do not fit.
* LIMIT without WHERE is answered from the first records of the entry whose text the query extends (`sql_parser.c:27`), although it may have an
  ORDER BY or a table whose name extends the entry's: `AnswersItsQuery`; `AnswerRight` excepts it (`Narrows`).  `cache.c:74` calls such a query a
  "subset of already cached data".
* DCPAM_WDS_get_node_data puts the SQL into JSON with `snprintf` and no escapes (`dcpam-wds.c:760`): a query with a quote or a backslash for a table of
  another node is refused by the peer, or changed: `Proxied`; `ErrorForAReason` and `RightSource` except it (`Garbled`).  src/TODO.md:160 says "Every DCPAM WDS node acts as proxy".
* A sub-cache of a query with LIMIT lacks rows that a longer LIMIT asks for (`LIMIT 1` is part of `LIMIT 12`), and OFFSET is not looked at: `AnswersItsQuery`,
  and the reason for `Narrows` in `AnswerRight`.
* The time to live of an entry is stored and never read (`cache.c:256`): entries stay as they are however the data changes, so that `AnswerRight` speaks of
  rows that were once there.
* A failing query for a sub-cache makes CACHE an alias of SUB_CACHE (`cache.c:238`): `NeverCorrupt`.

### Bounds, and why they are enough

* `N = 2` systems: all interaction of systems is through one mutex and the main thread's
  loops; the second system is the one that waits, is spawned later, is joined first.  The proofs
  do not have this bound.  2 threads suffice when all are joined; 4 leave room for watchers
  that are never joined, or outlive their phase, and overlap later ones.
* `Q = 2` queries: one whose rows are disturbed by the actions of the other, in ETL and
  in ELT mode, with and without Staging Area; two ids, one of them always there (so that
  extraction is not skipped); `MaxChanges = 2` allows the insertion and deletion, or modification, of
  a record at any two points of a cycle.
* Three clients (two allowed, one refused) and five descriptors: enough that a descriptor is
  reused by each of the other parties.
* `MaxLosses = 1`: one step of a run, of the preload, the extraction or the load, loses any of its rows.
* Three nodes: a chain with a node that is both called and calling, and circles of two; two clients with one
  request each, so that requests meet at every node; `MaxFaults = 1`, a crash (with any number of restarts), a failing
  database or a short send.  `LEN = 2` and `BodyLen = 2`: with a byte added per hop answers are shorter than, as long as and longer than a
  step of the buffer, and can be cut into full and partial segments.  Requests that are rejected at once are those a peer cannot
  parse; a client's own would add nothing but states.  The proofs have none of these bounds.
* Two databases with the same two tables, one query of all rows, others that extend its text by WHERE, by LIMIT, by ORDER BY and LIMIT and by more letters of
  the table's name, a memory limit that is reached in the middle of the requests, and one change of the data.  The databases are alike, which the run uses as symmetry.
* Two components, one that answers pings in a thread of its own and one that does not; two reports
  each and one crash, so that a report of the time before the crash and one after it are waiting together.
* Two databases of any two drivers, so that a callback uses its own driver or another one;
  two rows, so that there is a callback after a nested statement; one error taken for a row.

### Fairness

* EtlWorker: weak fairness of the main thread, of the end of the LCS thread and of each watcher.  The
  operating system schedules runnable threads; nothing is assumed about who gets a contended mutex.
* EtlPipeline: weak fairness of the watcher and of the end of RDP's script.  `ConvergesWithoutPost` reads: from some point on the warehouse
  equals the source, or the system is on hold.  The source changes at most `MaxChanges` times.
* SocketServer: weak fairness of the server thread, and of a connected client's send (nothing in
  NET_CONN lies between the two).  The other thread and new clients are not fair.
* WdsCluster: weak fairness of each node's thread.  Clients need not ask, and a node that crashed need not come back.
* Lcs: weak fairness of the threads of LCS and of the end of what a component works on; strong fairness of
  a component's answer to a ping, because its server takes connections in the order they came, between
  one report and the next.  Nothing obliges a component to report, crash or come back.

Safety runs use `Spec`.  Deadlock checking is off only where the system may stop: after a lost
mutex, a process that has ended (`Terminates` says that it does), a system on hold, a mutex kept by a driver,
and bounded sources of events.

## 4. Proofs

Every invariant and action property that a passing run checks is also a theorem, but for `NeverOlder`, and so is the refinement, for every value of the
constants that satisfies what the last column of the table names.  Each proof module has the same shape: an inductive invariant as a conjunction of named parts, lemmas about the
operators of the model, one lemma or step per action, and theorems that follow from the invariant.  The parts were
checked with TLC on the instances of section 3 before they were proved.

| Module | Theorem | States | Assumes |
|---|---|---|---|
| EtlWorkerProofs | `TypeCorrect`, `Exclusive`, `AtMostOneWatcher`, `JoinsAreValid`, `Barrier`, `EntryIsClear`, `LogsOutliveWatchers`, `ArgumentsOutliveReads`, `MutexAlwaysReturned`, `ConnectionsHeld`, `HoldsAreFinal` | `TypeOK`, `MutualExclusion`, `OneWatcher`, `JoinTarget`, `BehindBarrier`, `NeverHeldAtEntry`, `LogInUse`, `ArgumentsAlive`, `MutexNeverLost`, `ConnectionsOpen`, `HoldIsForever` | |
| EtlRefinementProofs | `PhasesImplemented` | `ImplementsPhases` | `Preprocessed = {}` |
| EtlPipelineProofs | `PipelineTypeCorrect`, `ReportsAreClosed`, `AnchoredNeverMissing` | `TypeOK`, `ReportsClosedUnlessHeld`, `AnchoredStay` | |
| | `ExtractStartsClean`, `CycleEndsClean` | `FreshStaging`, `ClearedAfterLoad` | `StagingDb = FALSE` |
| | `LoadsTransformedData` | `FullyTransformed` | `Modules <= 1` |
| DbExecProofs | `TypeCorrect`, `NeverWaitsForItself`, `SuccessFreesMutex`, `SuccessIsComplete` | `TypeOK`, `NoSelfDeadlock`, `FreeAfterSuccess`, `Complete` | |
| LcsProofs | `LcsTypeCorrect`, `ReportsListedInOrder` | `TypeOK`, `ListedInOrder` | |
| SocketServerProofs | `ClientsAreFound`, `ThreadsAreUndisturbed` | `FindsClient`, `ThreadUndisturbed` | `OneByOne` |
| WdsCacheProofs | `CacheWithinLimit`, `SubCachesAreSound`, `AnswersAreRight` | `WithinLimit`, `SubCacheSound`, `AnswerRight` | `[]StartFits` |
| WdsClusterProofs | `ClusterTypeCorrect`, `DataFromItsOwner`, `ErrorsHaveReasons`, `AnswersIntact`, `ReceivesInBounds` | `TypeOK`, `RightSource`, `ErrorForAReason`, `Intact`, `InBounds` | |

Beyond these each proof uses the `ASSUME` of its model, which only says that the constants have the right kind
(and, for WdsCluster and WdsCache, that nodes and rows are finitely many).  What is in the last column excludes what section 3
lists under known limits, where the code does not have the property: a staging database of its own, several modules in a list
of which the first is run, clients that overtake each other, a configuration that does not fit into the cache.  The passing runs satisfy it.

* `Preprocessed = {}`: the flat-file preprocessor clears the failure flag (`worker.c:379`), so that a system can come back from a hold,
  which EtlPhases does not know.
* `OneByOne`: clients come one at a time, `FD_CLR` is not torn, the client table is not empty, and a program with a second thread closes
  a connection once, clears its entry and has clients that do not hang up (DCPAM ETL; section 3 has what LCS does).
* `[]StartFits`: at every step of the start-up what has been cached is within `CACHE_MAX_size`.

### The inductive invariants

**EtlWorker.**  That a join finds its thread depends on which systems were
spawned in this phase, on failure flags that change between spawn and join, and on the
fact that the watcher that sets the flag is the only one of its system.  The inductive invariant
therefore relates the main thread's loop index, `w_watcher_thread`, the flags and the positions of the watchers.
`ConnectionsHeld` adds what each watcher has opened or closed so far at each position, and that somebody is there to close whatever is open.

**EtlRefinement.**  The progress of a system is that of its unjoined watcher, or follows from the main thread's position.  The proof shows that
every step of the engine changes the progress of one system at most, and in the way EtlPhases allows; that the main thread joins
all watchers of a phase before it spawns those of the next is what makes "lockstep" true.

**EtlPipeline.**  Where the watcher is (`Ctl`), what its tables hold, and what the script of RDP has done.  `LoadsTransformedData` needs which lists have
been run at each position of each mode; `AnchoredNeverMissing` that nothing in the extracted, staged or loaded deletions is a record that
stays, through both comparisons of a changing source.

**DbExec.**  That a mutex is free when a
callback asks for it depends on the nesting of the two levels, so the inductive
invariant says where the inner level can be active (`Nesting`), who can hold a locked mutex (`Held`), what has been handed out at row `i` (`GotSoFar`, `GotSome` for MongoDB) and at the end (`AllFetched`).  What the proof
needs of the eight drivers is one lemma, `WaysOut`, proved driver by driver.

**Lcs.**  The reports of a component that are listed, that wait at LCS, and the one it has sent last come in this order (`Listed`, `Queued`), and what was
confirmed is the last one listed (`Confirmed`); a crash leaves reports in the queue that nobody waits for, and they stay before those of
the next life.  `Unheard` says that nothing is queued before LCS listens.

**SocketServer.**  There is one connection at most (`OneConnection`): in the backlog, or as `newfd`.  `Owners` and `Watched` say who owns
each descriptor and which are in `master`, `Closing` that the other thread cannot have `newfd` while the handler may still close it, `Table` that the client's entry is there
until it is answered.

**WdsCache.**  `Earliest`: no cached query extends an earlier cached one, because an entry is made only if
`_DB_CACHE_subset_search` finds nothing.  `FirstSource`: a sub-cache is one of the first entry that its query extends, and entries are added
behind it.  Together they say that a query found in both caches is of the same entry, which `SubCacheSound` alone does not carry from step to step.
`Free` and `Summed` are the accounting; `DInv` says that the rows of every entry, every sub-cache and the last answer are right for the entry's database and text and the query they are for (`RightRows`), and that what a
database holds now was once there.

**WdsCluster.**  `Links` pairs each request that a node holds with the job or the client that waits for it, `Once` says that a node does not hold two requests of one
caller, `Forwarded` that only queries for tables of other nodes are forwarded, `Told` and `Answered` that an answer a node, or a client, has got is of an
owner of its table, or an error with a reason.  `Dated` relates each request to the moment it was made: a node that ran then and does not now has been counted as a fault since.

### Induction over data

The library's induction theorems take an operator as a parameter and cannot be used here.  `SetInduction` (WdsClusterProofs, WdsCacheProofs) states
induction for a property given as a set, from the well-foundedness of the naturals: it is enough for the receive loop (`RoundsDef`, `DeliveriesInBounds`)
and for the sum of sizes (`SizesDef`, `SizesGrow`), both recursive functions.

### Only model-checked

Liveness is out of reach of the prover: `Terminates`, `ServedOrHeld`, `ConvergesWithoutPost`, `Served`, `GetsToListen`, `ReportReturns`, `ActiveFollows`,
`QueryReturns`.  So is whether the model deadlocks.  `NeverOlder`, an action property, is checked and not proved yet.

## 5. Plan

Done: (1) EtlWorker with its abstract specification EtlPhases, (2) EtlPipeline with flat files and remote modules, (3) SocketServer,
(4) WdsCache, (5) DbExec, (6) Lcs, (7) WdsCluster, and (8) the theorems of section 4.

Left: a proof of `NeverOlder`, weaker assumptions for the theorems that have some (`OneByOne` without `~p.leave` for programs that clear their entries,
`PhasesImplemented` for the systems without preprocessor among others), and the safety part of the liveness properties, such as what `Served` and
`QueryReturns` need to be true of a state in which nothing moves.

## 6. Not modelled

* Configuration loading, building and freeing of configuration objects, JSON of requests and answers, the parsing of
  flat files, HTTP, SSL, logs: sequential code whose state no property here is about.
* Termination.  `app_terminate` runs in a signal handler.  In DCPAM ETL it joins the global `lcs_worker_pid`, which `main`'s local
  variable of that name shadows, then frees systems, logs and reports that the watchers go on using, and
  `DB_WORKER_init` sets `app_terminated` back to 0 when it starts.  After it nearly everything the program does is undefined, so that a
  model would have no behaviour of the code to check; the regular end of the engine is in EtlWorker.
* The descriptors a component loses when it cannot connect (`lcs_report.c:118`, `transform.c:137`).
* cJSON is third-party code.

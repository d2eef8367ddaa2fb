---------------------------- MODULE EtlPipeline ----------------------------
(***************************************************************************)
(* What the watchers of one data system do to its data, cycle after cycle: *)
(* the body of DB_WORKER_watcher (core/db/worker.c) with the subprocesses  *)
(* of core/db/etl/.  EtlWorker shows that the phases of a system follow    *)
(* each other and do not overlap, so here they are one sequential process; *)
(* the source system changes at any moment between its steps.              *)
(*                                                                         *)
(* A record of a query is an id with a version; version 0 is "no such      *)
(* record", Gone a record that was deleted.  The SQL of a configuration is *)
(* external.  It is taken to be that of conf/etl_config.json.  Inserted    *)
(* are the source's ids of which the target has no row.  Deleted are the   *)
(* target's valid rows that are not in the source; Load keeps them, with   *)
(* is_valid = 0.  Modified are the source's records changed after the last *)
(* insert into the target (change_time > MAX(changed)), which may pass     *)
(* over a modification that was lost before and find a record again that   *)
(* was loaded already: the clocks of the two are not modelled, it is any   *)
(* set of records of the source.  Ids of the source are not used again.  A *)
(* PreETL or PostETL action of a query deletes from its staging table.  A  *)
(* query always has a transform section, with a list of modules that may   *)
(* be empty: DATABASE_SYSTEM_QUERY_add needs one.                          *)
(*                                                                         *)
(* The source of a system is a database somebody else changes, or a flat   *)
(* file that is loaded into a table of the source database after every     *)
(* PreETL.  A module runs on the machine of the engine, or on that of      *)
(* DCPAM RDP, which runs one script at a time and answers at the first     *)
(* byte of its output.                                                     *)
(***************************************************************************)
EXTENDS Integers, FiniteSets

CONSTANTS
  Q,                \* queries_len
  Ids,              \* record ids of a query
  Anchored,         \* ids that are in source and target and never deleted
  Elt,              \* queries in ELT mode; the others are in ETL mode
  StagingDb,        \* whether the system has a staging database of its own
  Modules,          \* transform modules in each list of a query
  Pre,              \* queries with a PreETL action
  Setups,           \* the rest of the configuration, one of these:
                    \*   stage, queries with a "stage" section
                    \*   post, queries with a PostETL action
                    \*   flat, whether the source is a flat file
                    \*   remote, whether the modules run on DCPAM RDP
                    \*   early, whether a script may print and go on
                    \*   rejects, whether RDP may refuse or die
  EmptyHasNoColumn, \* driver: an empty result has field_count 0
  QueryMayFail, TransformMayFail, ActionMayFail,
  MaxChanges,       \* bound on the changes of the source
  MaxLosses         \* bound on the steps that lose rows in failing inserts

Queries == 1 .. Q
Kinds == <<"inserted", "deleted", "modified">>
Gone == -1
Versions == Gone .. (MaxChanges + 1)
Steps == {"extract", "transform", "load"}
Actions == {"Extract", "PreETL", "FlatFile", "Transform", "Load", "PostETL"}

ASSUME PipelineAssumption ==
  /\ Q \in Nat \ {0} /\ Modules \in Nat /\ MaxChanges \in Nat /\ MaxLosses \in Nat
  /\ Elt \subseteq Queries /\ Pre \subseteq Queries /\ Anchored \subseteq Ids
  /\ Setups \subseteq [stage : SUBSET Queries, post : SUBSET Queries, flat : BOOLEAN,
                       remote : BOOLEAN, early : BOOLEAN, rejects : BOOLEAN]
  /\ \A s \in Setups : s.remote => Modules > 0
  /\ {StagingDb, EmptyHasNoColumn, QueryMayFail, TransformMayFail,
      ActionMayFail} \subseteq BOOLEAN

VARIABLES
  setup,      \* the configuration of the system
  file,       \* per query: the version of each id in the flat file
  src, tgt,   \* per query: the version of each id in source and target
  staged,     \* per query: the rows of its staging table
  step, pc,   \* the phase and the position in it
  q, k, j,    \* loop indices: query, kind, query whose PostETL runs
  failure,
  applied,    \* <<query, kind, module>>: the modules run in this cycle
  script,     \* what RDP is running: a module of this cycle, or an earlier one
  open,       \* actions reported to LCS as started and not as stopped
  changes,    \* number of changes of the source so far
  losses      \* number of steps so far that lost rows

world == <<setup, file, changes>>
data == <<world, src, tgt, staged, losses>>
control == <<step, pc, q, k, j, failure>>
vars == <<setup, file, src, tgt, staged, step, pc, q, k, j, failure, applied,
          script, open, changes, losses>>

Stage == setup.stage
Post == setup.post
Idle == <<>>      \* RDP runs no script
Stale == <<0>>    \* RDP runs a script of an earlier cycle

Row == [kind : 1 .. 3, id : Ids, ver : Versions]

\* The contents the warehouse is to have.
Source == IF setup.flat THEN file ELSE src

Init ==
  /\ setup \in Setups
  /\ src = [n \in Queries |-> [i \in Ids |-> IF i \in Anchored THEN 1 ELSE 0]]
  /\ tgt = src /\ file = src
  /\ staged = [n \in Queries |-> {}]
  /\ step = "extract" /\ pc = "idle" /\ q = 1 /\ k = 1 /\ j = 1
  /\ failure = 0
  /\ applied = {} /\ script = Idle
  /\ open = [a \in Actions |-> 0]
  /\ changes = 0 /\ losses = 0

\* LCS_REPORT_send with DCT_START and with DCT_STOP.
Started(a) == [open EXCEPT ![a] = @ + 1]
Stopped(a) == [open EXCEPT ![a] = @ - 1]

\* The source system inserts, changes or deletes a record: external.
SourceChange ==
  /\ changes < MaxChanges
  /\ \E n \in Queries, i \in Ids, v \in Versions :
       /\ Source[n][i] # Gone
       /\ v = Source[n][i] + 1 \/ (v = Gone /\ i \notin Anchored)
       /\ IF setup.flat THEN file' = [file EXCEPT ![n][i] = v] /\ UNCHANGED src
                        ELSE src' = [src EXCEPT ![n][i] = v] /\ UNCHANGED file
  /\ changes' = changes + 1
  /\ UNCHANGED <<setup, tgt, staged, losses, control, applied, script, open>>
-----------------------------------------------------------------------------
(***************************************************************************)
(* Extract.                                                                *)
(***************************************************************************)
StartExtract ==
  /\ pc = "idle" /\ step = "extract" /\ failure = 0
  /\ pc' = "pre" /\ q' = 1
  /\ applied' = {} /\ script' = IF script = Idle THEN Idle ELSE Stale
  /\ open' = [open EXCEPT !["Extract"] = @ + 1, !["PreETL"] = @ + 1]
  /\ UNCHANGED <<data, step, k, j, failure>>

\* The PreETL or PostETL action of query n: "DELETE FROM" its staging table, in
\* dcpam_db - not in the staging database, if the system has one.
Cleared(n) == IF StagingDb THEN staged ELSE [staged EXCEPT ![n] = {}]

\* The other PreETL action of a flat file's query: "DELETE FROM" the table the
\* file is loaded into, in a database of the system that is dcpam_db too.
Emptied(n) == IF setup.flat THEN [src EXCEPT ![n] = [i \in Ids |-> 0]] ELSE src

\* Seeded defect: the loop over the queries starts at the second one.
PreEtlFromSecond ==
  /\ pc = "pre" /\ q <= Q
  /\ staged' = IF q \in Pre \ {1} THEN Cleared(q) ELSE staged
  /\ src' = IF q \in Pre \ {1} THEN Emptied(q) ELSE src
  /\ q' = q + 1
  /\ UNCHANGED <<world, tgt, losses, step, pc, k, j, failure, applied, script, open>>

\* The PreETL action of a query; the result of DB_exec is not looked at.
PreEtl ==
  /\ pc = "pre" /\ q <= Q
  /\ \/ /\ q \in Pre
        /\ staged' = Cleared(q) /\ src' = Emptied(q)
     \/ /\ q \in Pre => ActionMayFail
        /\ UNCHANGED <<staged, src>>
  /\ q' = q + 1
  /\ UNCHANGED <<world, tgt, losses, step, pc, k, j, failure, applied, script, open>>

PreEtlEnd ==
  /\ pc = "pre" /\ q = Q + 1
  /\ pc' = IF setup.flat THEN "preload" ELSE "extract"
  /\ q' = 1 /\ k' = 1
  /\ open' = [open EXCEPT !["PreETL"] = @ - 1, !["FlatFile"] = @ + IF setup.flat THEN 1 ELSE 0]
  /\ UNCHANGED <<data, step, j, failure, applied, script>>

\* Of the rows given to a database, those whose insert succeeds: an error is
\* logged and the row skipped.
Inserted(rows) == IF losses < MaxLosses THEN SUBSET rows ELSE {rows}
Counted(rows, all) == losses' = losses + IF rows = all THEN 0 ELSE 1

\* Seeded defect: the record after the line of column names is skipped too.
PreloadSkipsOne ==
  /\ pc = "preload"
  /\ \E x \in Queries \X Ids :
       src' = [n \in Queries |-> [i \in Ids |-> IF <<n, i>> = x THEN 0 ELSE file[n][i]]]
  /\ pc' = "extract" /\ failure' = 0
  /\ open' = Stopped("FlatFile")
  /\ UNCHANGED <<world, tgt, staged, losses, step, q, k, j, applied, script>>

\* CSV_FILE_load and JSON_FILE_load call back for each record of the file.
FileRows == {x \in Queries \X Ids : file[x[1]][x[2]] > 0}

\* FILE_ETL_preload: the load callback inserts each record of the file.  What a
\* preprocessor said of the file before is overwritten.  A record whose key is
\* in the table already is rejected like any failing insert.
Preload ==
  /\ pc = "preload"
  /\ \E rows \in Inserted(FileRows) :
       /\ src' = [n \in Queries |-> [i \in Ids |->
                    IF <<n, i>> \in rows /\ src[n][i] = 0 THEN file[n][i] ELSE src[n][i]]]
       /\ Counted(rows, FileRows)
  /\ pc' = "extract" /\ failure' = 0
  /\ open' = Stopped("FlatFile")
  /\ UNCHANGED <<world, tgt, staged, step, q, k, j, applied, script>>

\* The file cannot be opened, downloaded or parsed: nothing is extracted, and
\* the system will be on hold.
PreloadFails ==
  /\ pc = "preload" /\ QueryMayFail
  /\ pc' = "extract" /\ q' = Q + 1
  /\ failure' = 1
  /\ open' = Stopped("FlatFile")
  /\ UNCHANGED <<data, step, k, j, applied, script>>

In(t) == {i \in Ids : t[i] > 0}

\* What primary_db_sql selects for kind c of query n: one column.  For
\* "inserted" the target's rows that are not valid are selected too.  For
\* "modified" it is a maximum, one row that has no value for no records.
Primary(n, c) ==
  CASE Kinds[c] = "inserted" -> {i \in Ids : tgt[n][i] # 0}
    [] Kinds[c] = "deleted"  -> In(src[n])
    [] Kinds[c] = "modified" -> In(tgt[n])

\* What secondary_db_sql may select, given a non-empty Primary.
Secondary(n, c) ==
  CASE Kinds[c] = "inserted" -> {In(src[n]) \ Primary(n, c)}
    [] Kinds[c] = "deleted"  -> {In(tgt[n]) \ Primary(n, c)}
    [] Kinds[c] = "modified" -> SUBSET In(src[n])

\* The record i, as it is staged and loaded.
Extracted(n, c, i) ==
  [kind |-> c, id |-> i, ver |-> IF Kinds[c] = "deleted" THEN Gone ELSE src[n][i]]

\* The rows an extraction may find.  Nothing is looked for when the primary
\* query had no significant data.
Found(n, c) ==
  IF Primary(n, c) = {} THEN {{}}
  ELSE {{Extracted(n, c, i) : i \in ids} : ids \in Secondary(n, c)}

\* A query without rows has no column either, for some drivers.
NoColumn(n, c) ==
  EmptyHasNoColumn /\ Kinds[c] # "modified" /\ Primary(n, c) = {}

\* The row r, loaded into target t, gives its record version v: an insert
\* does, an update of a record that is not there changes nothing.
Sets(t, r, v) == v = IF Kinds[r.kind] # "inserted" /\ t[r.id] = 0 THEN 0 ELSE r.ver

\* The targets output_data_sql may leave when executed for the rows, in
\* whatever order the database returned them: external.
Outcomes(t, rows) ==
  {u \in [Ids -> Versions] :
     \A i \in Ids :
       LET mine == {r \in rows : r.id = i}
       IN IF mine = {} THEN u[i] = t[i] ELSE \E r \in mine : Sets(t, r, u[i])}

\* The callback of CDC_ExtractGeneric, for these rows: they go to the Staging
\* Area, or straight to the target tables of a query without "stage" - in
\* the staging database, if the system has one, where the target tables of
\* the warehouse are not.
Store(rows) ==
  IF q \in Stage
  THEN staged' = [staged EXCEPT ![q] = @ \cup rows] /\ UNCHANGED tgt
  ELSE /\ \E u \in IF StagingDb THEN {tgt[q]} ELSE Outcomes(tgt[q], rows) :
            tgt' = [tgt EXCEPT ![q] = u]
       /\ UNCHANGED staged

\* Seeded defect: the loop over the kinds of change ends after the first.
ExtractRecordsFirst ==
  /\ pc = "extract" /\ q <= Q /\ k <= 3
  /\ ~NoColumn(q, k)
  /\ \E found \in Found(q, k) : \E rows \in Inserted(found) :
       Counted(rows, found) /\ Store(rows)
  /\ k' = 4
  /\ UNCHANGED <<world, src, step, pc, q, j, failure, applied, script, open>>

\* CDC_ExtractGeneric returns 1.
ExtractRecords ==
  /\ pc = "extract" /\ q <= Q /\ k <= 3
  /\ ~NoColumn(q, k)
  /\ \E found \in Found(q, k) : \E rows \in Inserted(found) :
       Counted(rows, found) /\ Store(rows)
  /\ k' = k + 1
  /\ UNCHANGED <<world, src, step, pc, q, j, failure, applied, script, open>>

\* It returns 0: some of the rows may have been handed out before the
\* secondary query failed.  The system will be on hold; the next query is
\* extracted.
ExtractFails ==
  /\ pc = "extract" /\ q <= Q /\ k <= 3
  /\ \/ QueryMayFail /\ \E found \in Found(q, k) : \E rows \in SUBSET found : Store(rows)
     \/ NoColumn(q, k) /\ UNCHANGED <<staged, tgt>>
  /\ failure' = 1
  /\ q' = q + 1 /\ k' = 1
  /\ UNCHANGED <<world, src, losses, step, pc, j, applied, script, open>>

ExtractNext ==
  /\ pc = "extract" /\ q <= Q /\ k = 4
  /\ q' = q + 1 /\ k' = 1
  /\ UNCHANGED <<data, step, pc, j, failure, applied, script, open>>

ExtractEnd ==
  /\ pc = "extract" /\ q = Q + 1
  /\ pc' = "idle" /\ step' = "transform"
  /\ open' = Stopped("Extract")
  /\ UNCHANGED <<data, q, k, j, failure, applied, script>>
-----------------------------------------------------------------------------
(***************************************************************************)
(* Transform and Load: one loop over the queries, in which a query's mode  *)
(* and the phase decide which of the two it is.                            *)
(***************************************************************************)
StartPhase ==
  /\ pc = "idle" /\ step # "extract" /\ failure = 0
  /\ pc' = "dispatch" /\ q' = 1
  /\ UNCHANGED <<data, step, k, j, failure, applied, script, open>>

\* Whether it is a transform.
TransformTurn(n) == step = (IF n \in Elt THEN "load" ELSE "transform")

DispatchTransform ==
  /\ pc = "dispatch" /\ q <= Q /\ TransformTurn(q)
  /\ pc' = "transform" /\ k' = 1
  /\ open' = Started("Transform")
  /\ UNCHANGED <<data, step, q, j, failure, applied, script>>

DispatchLoad ==
  /\ pc = "dispatch" /\ q <= Q /\ ~TransformTurn(q)
  /\ pc' = "load" /\ k' = 1
  /\ open' = Started("Load")
  /\ UNCHANGED <<data, step, q, j, failure, applied, script>>

DispatchEnd ==
  /\ pc = "dispatch" /\ q = Q + 1
  /\ pc' = "idle"
  /\ step' = IF step = "transform" THEN "load" ELSE "extract"
  /\ UNCHANGED <<data, q, k, j, failure, applied, script, open>>

\* DB_CDC_Transform*: the loop over the modules returns in its first pass.
RunModules == {1} \cap 1 .. Modules

\* CDC_TransformGeneric with a local module, whose script is waited for.
TransformRuns ==
  /\ pc = "transform" /\ k <= 3 /\ ~setup.remote
  /\ applied' = applied \cup {<<q, k, m>> : m \in RunModules}
  /\ k' = k + 1
  /\ UNCHANGED <<data, step, pc, q, j, failure, open, script>>

\* Seeded defect: RDP takes a request while it runs a script, whose end it
\* then never sees.
RemoteRunsAnyTime ==
  /\ pc = "transform" /\ k <= 3 /\ setup.remote
  /\ \/ applied' = applied \cup {<<q, k, 1>>} /\ UNCHANGED script
     \/ setup.early /\ script' = <<q, k, 1>> /\ UNCHANGED applied
  /\ k' = k + 1
  /\ UNCHANGED <<data, step, pc, q, j, failure, open>>

\* CDC_TransformGeneric with a dcpam:// module, and DCPAM_script_exec, which
\* takes the request when it has no other script: it answers "1" at the first
\* byte the script prints, and then waits for its end.
RemoteRuns ==
  /\ pc = "transform" /\ k <= 3 /\ setup.remote
  /\ script = Idle
  /\ \/ applied' = applied \cup {<<q, k, 1>>} /\ UNCHANGED script
     \/ setup.early /\ script' = <<q, k, 1>> /\ UNCHANGED applied
  /\ k' = k + 1
  /\ UNCHANGED <<data, step, pc, q, j, failure, open>>

\* DCPAM RDP answers "-1", for a wrong key or a script that cannot be run or
\* prints nothing, or closes the connection: only an answer that contains "0"
\* is a failure.
RemoteRejected ==
  /\ pc = "transform" /\ k <= 3 /\ setup.remote /\ setup.rejects
  /\ script = Idle
  /\ k' = k + 1
  /\ UNCHANGED <<data, step, pc, q, j, failure, applied, script, open>>

\* pclose returns in DCPAM_script_exec.
ScriptEnds ==
  /\ script # Idle
  /\ applied' = IF script = Stale THEN applied ELSE applied \cup {script}
  /\ script' = Idle
  /\ UNCHANGED <<data, control, open>>

\* "processing is put on hold": on to the next query, past the STOP report.
TransformFails ==
  /\ pc = "transform" /\ k <= 3
  /\ Modules > 0 /\ TransformMayFail
  /\ failure' = 1
  /\ pc' = "dispatch" /\ q' = q + 1
  /\ UNCHANGED <<data, step, k, j, applied, script, open>>

\* Seeded defect: the STOP report is forgotten.
TransformEndUnreported ==
  /\ pc = "transform" /\ k = 4
  /\ pc' = "dispatch" /\ q' = q + 1
  /\ UNCHANGED <<data, step, k, j, failure, applied, script, open>>

TransformEnd ==
  /\ pc = "transform" /\ k = 4
  /\ pc' = "dispatch" /\ q' = q + 1
  /\ open' = Stopped("Transform")
  /\ UNCHANGED <<data, step, k, j, failure, applied, script>>

\* The rows of that kind in the staging table (input_data_sql), and the
\* callback of CDC_LoadGeneric for some of them.
ToLoad == {r \in staged[q] : r.kind = k}
LoadRows(rows) == \E u \in Outcomes(tgt[q], rows) : tgt' = [tgt EXCEPT ![q] = u]

\* CDC_LoadGeneric returns 1.
LoadRecords ==
  /\ pc = "load" /\ k <= 3
  /\ \E rows \in Inserted(ToLoad) : Counted(rows, ToLoad) /\ LoadRows(rows)
  /\ k' = k + 1
  /\ UNCHANGED <<world, src, staged, step, pc, q, j, failure, applied, script, open>>

\* It returns 0, after some of the rows: the next query is dispatched.
LoadFails ==
  /\ pc = "load" /\ k <= 3
  /\ QueryMayFail
  /\ \E rows \in SUBSET ToLoad : LoadRows(rows)
  /\ failure' = 1
  /\ pc' = "dispatch" /\ q' = q + 1
  /\ UNCHANGED <<world, src, staged, losses, step, k, j, applied, script, open>>

LoadEnd ==
  /\ pc = "load" /\ k = 4
  /\ pc' = "post" /\ j' = 1
  /\ open' = [open EXCEPT !["Load"] = @ - 1, !["PostETL"] = @ + 1]
  /\ UNCHANGED <<data, step, q, k, failure, applied, script>>

\* Seeded defect: the loop ends one query early.
PostEtlButLast ==
  /\ pc = "post" /\ j <= Q
  /\ staged' = IF j \in Post /\ j < Q THEN Cleared(j) ELSE staged
  /\ j' = j + 1
  /\ UNCHANGED <<world, src, tgt, losses, step, pc, q, k, failure, applied, script, open>>

\* After the load of query q the PostETL actions of all queries run.  The
\* report before action j names an action of q, the one after it a PreETL
\* action of q: a null pointer when q has none.
PostEtl ==
  /\ pc = "post" /\ j <= Q
  /\ \/ /\ j \in Post /\ q \in Post
        /\ staged' = Cleared(j)
     \/ /\ j \in Post => q \notin Post \/ ActionMayFail
        /\ UNCHANGED staged
  /\ pc' = IF j \in Post /\ q \notin Post \cap Pre THEN "crashed" ELSE "post"
  /\ j' = j + 1
  /\ UNCHANGED <<world, src, tgt, losses, step, q, k, failure, applied, script, open>>

PostEtlEnd ==
  /\ pc = "post" /\ j = Q + 1
  /\ pc' = "dispatch" /\ q' = q + 1
  /\ open' = Stopped("PostETL")
  /\ UNCHANGED <<data, step, k, j, failure, applied, script>>
-----------------------------------------------------------------------------
Watcher ==
  \/ StartExtract \/ PreEtl \/ PreEtlEnd \/ Preload \/ PreloadFails
  \/ ExtractRecords \/ ExtractFails \/ ExtractNext \/ ExtractEnd
  \/ StartPhase \/ DispatchTransform \/ DispatchLoad \/ DispatchEnd
  \/ TransformRuns \/ RemoteRuns \/ RemoteRejected \/ TransformFails \/ TransformEnd
  \/ LoadRecords \/ LoadFails \/ LoadEnd \/ PostEtl \/ PostEtlEnd

Next == SourceChange \/ Watcher \/ ScriptEnds

Spec == Init /\ [][Next]_vars

\* The engine starts a watcher in every phase as long as the system is not
\* on hold (ServedOrHeld of EtlWorker), and a watcher keeps running.  A script
\* ends.
FairSpec == Spec /\ WF_vars(Watcher) /\ WF_vars(ScriptEnds)
-----------------------------------------------------------------------------
(***************************************************************************)
(* Properties.                                                             *)
(***************************************************************************)

\* Every variable stays in its range.
TypeOK ==
  /\ setup \in Setups
  /\ {file, src, tgt} \subseteq [Queries -> [Ids -> Versions]]
  /\ staged \in [Queries -> SUBSET Row]
  /\ step \in Steps
  /\ pc \in {"idle", "pre", "preload", "extract", "dispatch", "transform", "load", "post", "crashed"}
  /\ q \in 1 .. (Q + 1) /\ k \in 1 .. 4 /\ j \in 1 .. (Q + 1)
  /\ failure \in 0 .. 1
  /\ applied \subseteq Queries \X (1 .. 3) \X (1 .. Modules)
  /\ script \in {Idle, Stale} \cup (Queries \X (1 .. 3) \X (1 .. Modules))
  /\ open \in [Actions -> Nat]
  /\ changes \in 0 .. MaxChanges /\ losses \in 0 .. MaxLosses

\* With a PreETL action for every staging table the extraction starts from
\* an empty Staging Area, also after a cycle whose load lost rows: no row of
\* an earlier cycle is loaded over newer data.
FreshStaging ==
  Pre = Queries /\ ~ActionMayFail =>
    (pc = "extract" /\ q = 1 /\ k = 1 => \A n \in Queries : staged[n] = {})

\* With a PostETL action for every staging table a cycle that is not put on
\* hold leaves the Staging Area empty.
ClearedAfterLoad ==
  Post = Queries /\ ~ActionMayFail =>
    (pc = "idle" /\ step = "extract" /\ failure = 0 => \A n \in Queries : staged[n] = {})

\* Data of an ETL-mode query is loaded only after every module of its
\* transform lists has run in the same cycle - but for the one script DCPAM RDP
\* may still be running, and unless DCPAM RDP rejects requests.
FullyTransformed ==
  pc = "load" /\ q \notin Elt /\ ~setup.rejects =>
    \A c \in 1 .. 3, m \in 1 .. Modules :
      <<q, c, m>> \in applied \/ script = <<q, c, m>>

\* When no watcher works on the system LCS is not left with an action of it
\* that was reported as started and not as stopped.
ReportsClosed == pc = "idle" => \A a \in Actions : open[a] = 0

\* The same for a system that is not on hold.
ReportsClosedUnlessHeld == failure = 0 => ReportsClosed

\* A system is put on hold only because a query or a module failed: a query
\* that finds nothing is not a failure (conf/etl_config.json, comment#04 of
\* "extract").
HeldForAReason == failure = 1 => QueryMayFail \/ TransformMayFail

\* No configuration makes the engine crash while it reports its actions.
NeverCrashes == pc # "crashed"

\* A record that is in the source all the time is never missing in the
\* warehouse, as long as no insert failed: the table of a flat file, emptied
\* and filled again in every cycle, is never compared with the warehouse half
\* full, and no load of one kind undoes what another did.
AnchoredStay ==
  losses = 0 => \A n \in Queries, i \in Anchored : tgt[n][i] > 0

\* With a PreETL action for every staging table no load takes a record of the
\* warehouse back to an older version: not by a row of an earlier cycle, and not
\* when a record is found as inserted and as modified in one cycle.
NeverOlder ==
  [][Pre = Queries /\ ~ActionMayFail /\ ~StagingDb =>
       \A n \in Queries, i \in Ids :
         tgt[n][i] > 0 /\ tgt'[n][i] > 0 => tgt'[n][i] >= tgt[n][i]]_tgt

\* Once the source stops changing and inserts stop failing, the valid records
\* of the warehouse end up as those of the source - the flat file, if there is
\* one - or the system is put on hold: an inserted record is not missed and a
\* deleted one does not come back, whatever was lost on the way.  Their values
\* may differ, since a modification that is lost is not found again.  And a
\* record missing once from the table of a flat file is lost: its row in the
\* warehouse is no longer valid, and keeps it from being inserted.
Converges ==
  <>[](\/ failure = 1
       \/ setup.flat /\ losses > 0
       \/ \A n \in Queries : In(tgt[n]) = In(Source[n]))

\* The same without PostETL actions.
ConvergesWithoutPost == Post = {} => Converges
=============================================================================

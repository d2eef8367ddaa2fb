------------------------------ MODULE WdsCache ------------------------------
(***************************************************************************)
(* The in-memory cache of DCPAM WDS (core/cache.c, DCPAM_WDS/sql_parser.c) *)
(* and the two places that fill it: DCPAM_WDS_init_cache at start-up and   *)
(* DCPAM_WDS_get_db_data for a request (DCPAM_WDS/dcpam-wds.c).  One       *)
(* thread does everything, so a request is one step.                       *)
(*                                                                         *)
(* A query is a record: the table it selects from, the rows its WHERE      *)
(* keeps (all of them without one), whether an ORDER BY reverses the rows, *)
(* and its LIMIT, or -1.  Contained says of which pairs of queries the     *)
(* text of the first is found in the text of the second, whether or not    *)
(* the second is about a part of the first's result.  A row is its value,  *)
(* and counts 1 in the memory limit; databases have the same tables.       *)
(***************************************************************************)
EXTENDS Integers, Sequences, FiniteSets, FiniteSetsExt

CONSTANTS
  Dbs, Tables, Rows, Sqls,
  Contained,        \* strstr(s, c) # NULL, as a set of pairs <<c, s>>
  Stores,           \* the contents the databases may have at first
  Configs,          \* the "data" sections of wds_config.json: sequences
  CACHE_MAX_size,
  ExecMayFail,      \* whether DB_exec may fail
  MaxClock          \* bound on the changes of the databases

Query == [table : Tables, where : SUBSET Rows, desc : BOOLEAN, limit : Int]
Store == [Dbs -> [Tables -> SUBSET Rows]]
Action == [db : Dbs, sql : Sqls, static : BOOLEAN]

ASSUME CacheAssumption ==
  /\ Rows \subseteq Int /\ IsFiniteSet(Rows)
  /\ Sqls \subseteq Query /\ Contained \subseteq Sqls \X Sqls
  /\ \A s \in Sqls : <<s, s>> \in Contained
  /\ Stores \subseteq Store
  /\ \A c \in Configs : c \in Seq(Action)
  /\ CACHE_MAX_size \in Nat /\ MaxClock \in Nat
  /\ ExecMayFail \in BOOLEAN

VARIABLES
  store,       \* the databases
  held,        \* for each table the rows that have ever been in it
  clock,
  config,
  pc,          \* "init", "serving", or "corrupt" after undefined behaviour
  n,           \* the action init_cache is at
  initialized, \* the entries it has filled, plus one
  CACHE,       \* CACHE_len entries; one with query NULL is Empty
  SUB_CACHE,
  CACHE_size,
  answer       \* what the last request got

fixed == <<store, held, clock, config>>
vars == <<store, held, clock, config, pc, n, initialized, CACHE, SUB_CACHE, CACHE_size, answer>>

Empty == [set |-> FALSE]
NoAnswer == [given |-> FALSE]

Init ==
  /\ store \in Stores /\ held = store /\ clock = 0
  /\ config \in Configs
  /\ pc = "init" /\ n = 1 /\ initialized = 1
  /\ CACHE = [i \in 1 .. Len(config) |-> Empty]
  /\ SUB_CACHE = <<>> /\ CACHE_size = 0
  /\ answer = NoAnswer

\* The databases change: external.
Change ==
  /\ clock < MaxClock
  /\ \E d \in Dbs, t \in Tables, r \in SUBSET Rows :
       /\ store' = [store EXCEPT ![d][t] = r]
       /\ held' = [held EXCEPT ![d][t] = @ \cup r]
  /\ clock' = clock + 1
  /\ UNCHANGED <<config, pc, n, initialized, CACHE, SUB_CACHE, CACHE_size, answer>>

\* The order of rows in a result.
Before(desc, x, r) == IF desc THEN r < x ELSE x < r

\* The first m rows, which is what a database returns under LIMIT.
First(m, S, desc) == {r \in S : Cardinality({x \in S : Before(desc, x, r)}) < m}

\* What database d returns for query s: external.
Exec(d, s) ==
  LET found == store[d][s.table] \cap s.where
  IN IF s.limit >= 0 THEN First(s.limit, found, s.desc) ELSE found
-----------------------------------------------------------------------------
(***************************************************************************)
(* core/cache.c.                                                           *)
(***************************************************************************)
Entry(d, s) == [set |-> TRUE, db |-> d, sql |-> s, rows |-> Exec(d, s)]

\* _DB_CACHE_calc_size.
Size(e) == Cardinality(e.rows)

\* _DB_CACHE_subset_search: the entries whose text is part of that of s,
\* whatever their database, of which the first is taken.
Supersets(s) == {i \in DOMAIN CACHE : CACHE[i].set /\ <<CACHE[i].sql, s>> \in Contained}

\* DB_CACHE_get: entries of both caches with exactly this text.
CachedFor(s) == {i \in DOMAIN CACHE : CACHE[i].set /\ CACHE[i].sql = s}
SubCachedFor(s) == {i \in DOMAIN SUB_CACHE : SUB_CACHE[i].sql = s}

\* SQL_PARSER_supported_conditions: LIMIT without WHERE, whatever else.
Local(s) == s.limit >= 0 /\ s.where = Rows

\* Seeded defect: one row less than the limit is collected.
SubRowsShort(e, s) ==
  IF Local(s) THEN First(s.limit - 1, e.rows, e.sql.desc) ELSE Exec(e.db, s) \cap e.rows

\* What DB_SUB_CACHE_init collects for s from e.  SQL_PARSER_collect_data
\* takes the first records in the order of the entry; otherwise these are the
\* records of DB_exec, in the entry's database, that are found in the entry.
SubRows(e, s) ==
  IF Local(s) THEN First(s.limit, e.rows, e.sql.desc) ELSE Exec(e.db, s) \cap e.rows

\* A sub-cache holds indices into the records of its entry: base is what
\* those records were.
SubEntry(i, s) == [src |-> i, sql |-> s, rows |-> SubRows(CACHE[i], s), base |-> CACHE[i].rows]

\* A sub-cache is made for s unless there is one.
SubCached(s) ==
  IF SubCachedFor(s) # {} THEN SUB_CACHE
  ELSE Append(SUB_CACHE, SubEntry(Min(Supersets(s)), s))

\* The entry of cache c whose records a request for s gets, when it is in c or
\* in the sub-caches u.
EntryOf(c, u, s) ==
  LET full == {i \in DOMAIN c : c[i].set /\ c[i].sql = s}
      subs == {i \in DOMAIN u : u[i].sql = s}
  IN IF full # {} THEN c[Min(full)] ELSE c[u[Min(subs)].src]

\* Those records: of the sub-cache, if there is one.  Indices into records
\* that have been replaced can be any records of the entry.
Records(c, u, s) ==
  LET subs == {i \in DOMAIN u : u[i].sql = s}
      sub == u[Min(subs)]
      e == EntryOf(c, u, s)
  IN IF subs = {} THEN {e.rows}
     ELSE IF e.set /\ e.rows = sub.base THEN {sub.rows}
     ELSE SUBSET (IF e.set THEN e.rows ELSE {})

Answered(d, s, c, u) ==
  \E r \in Records(c, u, s) :
    answer' = [given |-> TRUE, db |-> d, sql |-> s, rows |-> r,
               entry |-> EntryOf(c, u, s)]

\* Whether DB_exec fails.
Fails == IF ExecMayFail THEN BOOLEAN ELSE {FALSE}
-----------------------------------------------------------------------------
(***************************************************************************)
(* DCPAM_WDS_init_cache: the configured queries without a condition.       *)
(***************************************************************************)
Starting == pc = "init" /\ n <= Len(config)

StartSkip ==
  /\ Starting /\ ~config[n].static
  /\ n' = n + 1
  /\ UNCHANGED <<fixed, pc, initialized, CACHE, SUB_CACHE, CACHE_size, answer>>

\* DB_CACHE_init returns -1, or 0 after it has damaged CACHE.
StartSub ==
  /\ Starting /\ config[n].static
  /\ Supersets(config[n].sql) # {}
  /\ \E failed \in Fails :
       IF failed /\ ~Local(config[n].sql) /\ SubCachedFor(config[n].sql) = {}
       THEN pc' = "corrupt" /\ UNCHANGED SUB_CACHE
       ELSE SUB_CACHE' = SubCached(config[n].sql) /\ UNCHANGED pc
  /\ n' = n + 1
  /\ UNCHANGED <<fixed, initialized, CACHE, CACHE_size, answer>>

\* It returns 1, or 2 when the limit is exceeded: the entry and its size
\* stay, and the next query is put into the same entry.
StartCached ==
  /\ Starting /\ config[n].static
  /\ Supersets(config[n].sql) = {}
  /\ LET e == Entry(config[n].db, config[n].sql)
     IN /\ CACHE' = [CACHE EXCEPT ![initialized] = e]
        /\ CACHE_size' = CACHE_size + Size(e)
        /\ initialized' = IF CACHE_size' > CACHE_MAX_size THEN initialized ELSE initialized + 1
  /\ n' = n + 1
  /\ UNCHANGED <<fixed, pc, SUB_CACHE, answer>>

StartFails ==
  /\ Starting /\ config[n].static
  /\ Supersets(config[n].sql) = {}
  /\ ExecMayFail
  /\ CACHE' = [CACHE EXCEPT ![initialized] = Empty]
  /\ n' = n + 1
  /\ UNCHANGED <<fixed, pc, initialized, SUB_CACHE, CACHE_size, answer>>

StartEnd ==
  /\ pc = "init" /\ n = Len(config) + 1
  /\ pc' = "serving"
  /\ UNCHANGED <<fixed, n, initialized, CACHE, SUB_CACHE, CACHE_size, answer>>
-----------------------------------------------------------------------------
(***************************************************************************)
(* DCPAM_WDS_get_db_data: a request for query s of database d, which the   *)
(* client names or DCPAM_WDS_get_data finds by the table.                  *)
(***************************************************************************)
Miss(s) == pc = "serving" /\ CachedFor(s) = {} /\ SubCachedFor(s) = {}

Hit(d, s) ==
  /\ pc = "serving" /\ CachedFor(s) \cup SubCachedFor(s) # {}
  /\ Answered(d, s, CACHE, SUB_CACHE)
  /\ UNCHANGED <<fixed, pc, n, initialized, CACHE, SUB_CACHE, CACHE_size>>

\* The query is part of cached data; a failure of DB_exec frees an entry of
\* CACHE and makes CACHE an alias of SUB_CACHE.
MissSub(d, s) ==
  /\ Miss(s) /\ Supersets(s) # {}
  /\ \E failed \in Fails :
       IF failed /\ ~Local(s)
       THEN /\ pc' = "corrupt"
            /\ UNCHANGED <<SUB_CACHE, answer>>
       ELSE /\ SUB_CACHE' = SubCached(s)
            /\ Answered(d, s, CACHE, SUB_CACHE')
            /\ UNCHANGED pc
  /\ UNCHANGED <<fixed, n, initialized, CACHE, CACHE_size>>

MissCached(d, s) ==
  /\ Miss(s) /\ Supersets(s) = {}
  /\ CACHE_size + Size(Entry(d, s)) <= CACHE_MAX_size
  /\ CACHE' = Append(CACHE, Entry(d, s))
  /\ CACHE_size' = CACHE_size + Size(Entry(d, s))
  /\ Answered(d, s, CACHE', SUB_CACHE)
  /\ UNCHANGED <<fixed, pc, n, initialized, SUB_CACHE>>

\* Seeded defect: the size of the entry is not subtracted again.
MissOverLimitCounted(d, s) ==
  /\ Miss(s) /\ Supersets(s) = {}
  /\ CACHE_size + Size(Entry(d, s)) > CACHE_MAX_size
  /\ CACHE_size' = CACHE_size + Size(Entry(d, s))
  /\ UNCHANGED <<fixed, pc, n, initialized, CACHE, SUB_CACHE, answer>>

\* Seeded defect: the entry takes the place of the oldest one.
MissOverLimitEvicts(d, s) ==
  /\ Miss(s) /\ Supersets(s) = {}
  /\ CACHE_size + Size(Entry(d, s)) > CACHE_MAX_size
  /\ CACHE[1].set
  /\ CACHE_size' = CACHE_size + Size(Entry(d, s)) - Size(CACHE[1])
  /\ CACHE_size' <= CACHE_MAX_size
  /\ CACHE' = [CACHE EXCEPT ![1] = Entry(d, s)]
  /\ answer' = NoAnswer
  /\ UNCHANGED <<fixed, pc, n, initialized, SUB_CACHE>>

\* "Memory limit exceeded": the entry is there for this request only.
MissOverLimit(d, s) ==
  /\ Miss(s) /\ Supersets(s) = {}
  /\ CACHE_size + Size(Entry(d, s)) > CACHE_MAX_size
  /\ Answered(d, s, Append(CACHE, Entry(d, s)), SUB_CACHE)
  /\ UNCHANGED <<fixed, pc, n, initialized, CACHE, SUB_CACHE, CACHE_size>>

\* The client gets an error.
MissFails(d, s) ==
  /\ Miss(s) /\ Supersets(s) = {}
  /\ ExecMayFail
  /\ answer' = NoAnswer
  /\ UNCHANGED <<fixed, pc, n, initialized, CACHE, SUB_CACHE, CACHE_size>>
-----------------------------------------------------------------------------
Start == StartSkip \/ StartSub \/ StartCached \/ StartFails \/ StartEnd

Request(d, s) ==
  \/ Hit(d, s) \/ MissSub(d, s) \/ MissCached(d, s)
  \/ MissOverLimit(d, s) \/ MissFails(d, s)

Next == Change \/ Start \/ \E d \in Dbs, s \in Sqls : Request(d, s)

Spec == Init /\ [][Next]_vars
-----------------------------------------------------------------------------
(***************************************************************************)
(* Properties.                                                             *)
(***************************************************************************)

Entries == {Empty} \cup
  [set : {TRUE}, db : Dbs, sql : Sqls, rows : SUBSET Rows]
SubEntries == [src : Nat, sql : Sqls, rows : SUBSET Rows, base : SUBSET Rows]

\* Every variable keeps its type.
TypeOK ==
  /\ store \in Store /\ held \in Store /\ clock \in 0 .. MaxClock
  /\ config \in Configs
  /\ pc \in {"init", "serving", "corrupt"}
  /\ n \in 1 .. (Len(config) + 1) /\ initialized \in 1 .. n
  /\ CACHE \in Seq(Entries) /\ SUB_CACHE \in Seq(SubEntries)
  /\ CACHE_size \in Nat

\* The sizes of the entries of a cache, added up to each of them.
Sizes(c) ==
  LET size[i \in 0 .. Len(c)] ==
        IF i = 0 THEN 0 ELSE size[i - 1] + (IF c[i].set THEN Size(c[i]) ELSE 0)
  IN size

\* CACHE_size is the size of what is cached, also after a request that
\* exceeded the limit, and between requests it is within the configured limit.
WithinLimit ==
  /\ CACHE_size = Sizes(CACHE)[Len(CACHE)]
  /\ pc = "serving" => CACHE_size <= CACHE_MAX_size

\* The indices of a sub-cache point into the records they were taken from:
\* its entry is neither freed nor filled with another query's result.  When a
\* query is found in both caches, the sub-cache is one of the entry that is
\* found: its indices are applied to that entry's records.
SubCacheSound ==
  \A i \in DOMAIN SUB_CACHE :
    LET e == CACHE[SUB_CACHE[i].src]
    IN /\ e.set /\ e.rows = SUB_CACHE[i].base
       /\ \A h \in DOMAIN CACHE :
            CACHE[h].set /\ CACHE[h].sql = SUB_CACHE[i].sql => CACHE[h] = e

\* Whether s asks for a part of the result of c that the cache can tell.
Narrows(c, s) ==
  \/ c = s
  \/ /\ c.table = s.table /\ s.where \subseteq c.where
     /\ c.limit < 0
     /\ Local(s) => s.desc = c.desc

\* An answer has rows the entry's database returns for the very query of the
\* request - all of them if the query narrows that of the entry - as long as
\* that database has not changed, and later rows that were once in its table.
\* So a wrong answer is one of two: of another database that has the query
\* cached, or, if the text of the entry's query is in that of the request by
\* accident, one that lacks rows or applies LIMIT to the wrong ones.
AnswerRight ==
  answer.given =>
    LET e == answer.entry
        s == answer.sql
    IN /\ e.set
       /\ ~Local(s) \/ Narrows(e.sql, s) => answer.rows \subseteq held[e.db][s.table] \cap s.where
       /\ clock = 0 /\ ~Local(s) => answer.rows \subseteq Exec(e.db, s)
       /\ clock = 0 /\ Narrows(e.sql, s) => answer.rows = Exec(e.db, s)

\* A request that names a database is answered with data of that database:
\* "Query data from specific DB" (DCPAM_WDS_query).
FromItsDb == answer.given => answer.entry.set /\ answer.entry.db = answer.db

\* A request that is answered from an entry gets the part of the entry it asks
\* for: its "query result as a subset of already cached data" (TODO.md).
AnswersItsQuery == answer.given /\ clock = 0 => answer.rows = Exec(answer.entry.db, answer.sql)

\* No request and no configured query makes the server damage its memory.
NeverCorrupt == pc # "corrupt"
=============================================================================

------------------------- MODULE EtlPipelineProofs -------------------------
(***************************************************************************)
(* Proofs about EtlPipeline, for every number of queries, modules and      *)
(* records, every set of configurations and every choice of what may fail. *)
(***************************************************************************)
EXTENDS EtlPipeline, TLAPS

Modes == {"idle", "pre", "preload", "extract", "dispatch", "transform", "load", "post", "crashed"}

ControlOK ==
  /\ setup \in Setups
  /\ step \in Steps
  /\ pc \in Modes
  /\ q \in 1 .. (Q + 1) /\ k \in 1 .. 4 /\ j \in 1 .. (Q + 1)
  /\ failure \in 0 .. 1
  /\ changes \in 0 .. MaxChanges /\ losses \in 0 .. MaxLosses

DataOK ==
  /\ {file, src, tgt} \subseteq [Queries -> [Ids -> Versions]]
  /\ staged \in [Queries -> SUBSET Row]

ScriptOK ==
  /\ applied \subseteq Queries \X (1 .. 3) \X (1 .. Modules)
  /\ script \in {Idle, Stale} \cup (Queries \X (1 .. 3) \X (1 .. Modules))

\* Inside the loop over the queries the index is that of a query.
QueryAtHand == pc \in {"transform", "load", "post", "crashed"} => q <= Q

\* The phase a position belongs to; Extract starts with the flag cleared.
PhaseOf == /\ pc \in {"pre", "preload", "extract"} => step = "extract"
           /\ pc \in {"dispatch", "transform", "load", "post", "crashed"} => step # "extract"
           /\ pc \in {"pre", "preload"} => failure = 0
           /\ pc = "transform" => TransformTurn(q)
           /\ pc \in {"load", "post", "crashed"} => ~TransformTurn(q)

One(b) == IF b THEN 1 ELSE 0

\* The reports to LCS, by position.  A transform or load that failed leaves
\* its report open, but only of a system on hold.
OpenReports ==
  /\ open \in [Actions -> Nat]
  /\ open["Extract"] = One(pc \in {"pre", "preload", "extract"})
  /\ open["PreETL"] = One(pc = "pre")
  /\ open["FlatFile"] = One(pc = "preload")
  /\ open["Transform"] >= One(pc = "transform")
  /\ open["Load"] >= One(pc = "load")
  /\ open["PostETL"] = One(pc \in {"post", "crashed"})
  /\ failure = 0 => /\ open["Transform"] = One(pc = "transform")
                    /\ open["Load"] = One(pc = "load")

Ctl == ControlOK /\ QueryAtHand /\ PhaseOf /\ OpenReports

\* The control part of the invariant holds at first ...
LEMMA CtlInit == Init => Ctl
  BY PipelineAssumption DEF Init, Ctl, ControlOK, QueryAtHand, PhaseOf, OpenReports,
     One, Steps, Modes, Actions

\* Some of the rows are inserted; losing some is counted.
LEMMA InsertedCounted ==
  ASSUME losses \in 0 .. MaxLosses, NEW all, NEW rows \in Inserted(all), Counted(rows, all)
  PROVE  /\ rows \subseteq all
         /\ losses' \in 0 .. MaxLosses
         /\ losses' = 0 => losses = 0 /\ rows = all
  BY PipelineAssumption DEF Inserted, Counted

\* ... and every step of the workflow keeps it.
LEMMA CtlNext == Ctl /\ [Next]_vars => Ctl'
<1> SUFFICES ASSUME Ctl, [Next]_vars PROVE Ctl'
  OBVIOUS
<1> USE PipelineAssumption DEF Ctl, ControlOK, QueryAtHand, PhaseOf, OpenReports,
     One, Steps, Modes, Actions, data, world, control, TransformTurn
<1>1. CASE SourceChange BY <1>1 DEF SourceChange
<1>2. CASE StartExtract BY <1>2 DEF StartExtract
<1>3. CASE PreEtl BY <1>3 DEF PreEtl
<1>4. CASE PreEtlEnd BY <1>4 DEF PreEtlEnd
<1>5. CASE Preload
  <2>1. losses' \in 0 .. MaxLosses BY <1>5, InsertedCounted DEF Preload
  <2>2. QED BY <1>5, <2>1 DEF Preload, Stopped
<1>6. CASE PreloadFails BY <1>6 DEF PreloadFails, Stopped
<1>7. CASE ExtractRecords
  <2>1. losses' \in 0 .. MaxLosses BY <1>7, InsertedCounted DEF ExtractRecords
  <2>2. QED BY <1>7, <2>1 DEF ExtractRecords
<1>8. CASE ExtractFails BY <1>8 DEF ExtractFails
<1>9. CASE ExtractNext BY <1>9 DEF ExtractNext
<1>10. CASE ExtractEnd BY <1>10 DEF ExtractEnd, Stopped
<1>11. CASE StartPhase BY <1>11 DEF StartPhase
<1>12. CASE DispatchTransform BY <1>12 DEF DispatchTransform, Started
<1>13. CASE DispatchLoad BY <1>13 DEF DispatchLoad, Started
<1>14. CASE DispatchEnd BY <1>14 DEF DispatchEnd
<1>15. CASE TransformRuns BY <1>15 DEF TransformRuns
<1>16. CASE RemoteRuns BY <1>16 DEF RemoteRuns
<1>17. CASE RemoteRejected BY <1>17 DEF RemoteRejected
<1>18. CASE TransformFails BY <1>18 DEF TransformFails
<1>19. CASE TransformEnd BY <1>19 DEF TransformEnd, Stopped
<1>20. CASE LoadRecords
  <2>1. losses' \in 0 .. MaxLosses BY <1>20, InsertedCounted DEF LoadRecords
  <2>2. QED BY <1>20, <2>1 DEF LoadRecords
<1>21. CASE LoadFails BY <1>21 DEF LoadFails
<1>22. CASE LoadEnd BY <1>22 DEF LoadEnd
<1>23. CASE PostEtl BY <1>23 DEF PostEtl
<1>24. CASE PostEtlEnd BY <1>24 DEF PostEtlEnd, Stopped
<1>25. CASE ScriptEnds BY <1>25 DEF ScriptEnds
<1>26. CASE UNCHANGED vars BY <1>26 DEF vars
<1>27. QED
  BY <1>1, <1>2, <1>3, <1>4, <1>5, <1>6, <1>7, <1>8, <1>9, <1>10, <1>11, <1>12,
     <1>13, <1>14, <1>15, <1>16, <1>17, <1>18, <1>19, <1>20, <1>21, <1>22, <1>23,
     <1>24, <1>25, <1>26 DEF Next, Watcher
-----------------------------------------------------------------------------
\* The rows an extraction finds are rows of the staging table.
LEMMA FoundType ==
  ASSUME DataOK, NEW n \in Queries, NEW c \in 1 .. 3, NEW found \in Found(n, c)
  PROVE  found \subseteq Row
<1>1. \A i \in Ids : src[n][i] \in Versions BY DEF DataOK
<1>2. Gone \in Versions BY PipelineAssumption DEF Gone, Versions
<1>3. \A i \in Ids : Extracted(n, c, i) \in Row BY <1>1, <1>2 DEF Extracted, Row
<1>4. \A ids \in Secondary(n, c) : ids \subseteq Ids
  BY DEF Secondary, In, Kinds
<1>5. QED BY <1>3, <1>4 DEF Found

\* A table after an insert that may lose rows is a table.
LEMMA OutcomesType == ASSUME NEW t, NEW rows PROVE Outcomes(t, rows) \subseteq [Ids -> Versions]
  BY DEF Outcomes

\* So are the tables after rows were stored or loaded.
LEMMA StoreType ==
  ASSUME DataOK, q \in Queries, NEW rows \in SUBSET Row, Store(rows), UNCHANGED <<file, src>>
  PROVE  DataOK'
<1>1. CASE q \in Stage
  <2>1. staged' = [staged EXCEPT ![q] = staged[q] \cup rows] /\ UNCHANGED <<file, src, tgt>>
    BY <1>1 DEF Store
  <2>2. staged \in [Queries -> SUBSET Row] /\ staged[q] \cup rows \in SUBSET Row
    BY DEF DataOK
  <2>3. staged' \in [Queries -> SUBSET Row] BY <2>1, <2>2
  <2>4. QED BY <2>1, <2>3 DEF DataOK
<1>2. CASE q \notin Stage
  <2>1. PICK u : u \in [Ids -> Versions] /\ tgt' = [tgt EXCEPT ![q] = u]
    BY <1>2, OutcomesType DEF Store, DataOK
  <2>2. QED BY <1>2, <2>1 DEF Store, DataOK
<1>3. QED BY <1>1, <1>2

\* ... and after a load.
LEMMA LoadType ==
  ASSUME DataOK, q \in Queries, NEW rows, LoadRows(rows), UNCHANGED <<file, src, staged>>
  PROVE  DataOK'
<1>1. PICK u \in [Ids -> Versions] : tgt' = [tgt EXCEPT ![q] = u]
  BY OutcomesType DEF LoadRows
<1>2. QED BY <1>1 DEF DataOK

\* Every step keeps what the invariant says of the tables.
LEMMA DataNext == Ctl /\ DataOK /\ [Next]_vars => DataOK'
<1> SUFFICES ASSUME Ctl, DataOK, [Next]_vars PROVE DataOK'
  OBVIOUS
<1> USE PipelineAssumption
<1>0. /\ q <= Q => q \in Queries
      /\ j <= Q => j \in Queries
      /\ losses \in 0 .. MaxLosses
      /\ pc = "load" => q \in Queries
      /\ k \in 1 .. 4
  BY DEF Ctl, ControlOK, QueryAtHand, Queries
<1>c. \A n \in Queries : Cleared(n) \in [Queries -> SUBSET Row]
  BY DEF DataOK, Cleared
<1>e. \A n \in Queries : Emptied(n) \in [Queries -> [Ids -> Versions]]
  BY DEF DataOK, Emptied, Versions, Gone
<1>1. CASE SourceChange
  <2>1. PICK n \in Queries, i \in Ids, v \in Versions :
          \/ file' = [file EXCEPT ![n][i] = v] /\ src' = src
          \/ src' = [src EXCEPT ![n][i] = v] /\ file' = file
    BY <1>1 DEF SourceChange
  <2>2. file' \in [Queries -> [Ids -> Versions]] /\ src' \in [Queries -> [Ids -> Versions]]
    <3>1. file \in [Queries -> [Ids -> Versions]] /\ src \in [Queries -> [Ids -> Versions]]
      BY DEF DataOK
    <3>2. ASSUME NEW f \in [Queries -> [Ids -> Versions]]
          PROVE  [f EXCEPT ![n][i] = v] \in [Queries -> [Ids -> Versions]]
      <4> DEFINE g == [f[n] EXCEPT ![i] = v]
      <4>1. g \in [Ids -> Versions] OBVIOUS
      <4>2. [f EXCEPT ![n][i] = v] = [f EXCEPT ![n] = g] OBVIOUS
      <4> HIDE DEF g
      <4>3. [f EXCEPT ![n] = g] \in [Queries -> [Ids -> Versions]] BY <4>1
      <4>4. QED BY <4>2, <4>3
    <3>3. [file EXCEPT ![n][i] = v] \in [Queries -> [Ids -> Versions]] BY <3>1, <3>2
    <3>4. [src EXCEPT ![n][i] = v] \in [Queries -> [Ids -> Versions]] BY <3>1, <3>2
    <3>5. CASE file' = [file EXCEPT ![n][i] = v] /\ src' = src BY <3>1, <3>3, <3>5
    <3>6. CASE src' = [src EXCEPT ![n][i] = v] /\ file' = file BY <3>1, <3>4, <3>6
    <3>7. QED BY <2>1, <3>5, <3>6
  <2>3. tgt' = tgt /\ staged' = staged BY <1>1 DEF SourceChange
  <2>4. QED BY <2>2, <2>3 DEF DataOK
<1>2. CASE PreEtl BY <1>0, <1>2, <1>c, <1>e DEF PreEtl, DataOK, world
<1>3. CASE Preload BY <1>3 DEF Preload, DataOK, world
<1>4. CASE ExtractRecords \/ ExtractFails
  <2>1. q \in Queries /\ k \in 1 .. 3 /\ UNCHANGED <<file, src>>
    BY <1>0, <1>4 DEF ExtractRecords, ExtractFails, world
  <2>2. CASE \E found \in Found(q, k) : \E rows \in SUBSET found : Store(rows)
    <3>1. PICK found \in Found(q, k) : \E rows \in SUBSET found : Store(rows) BY <2>2
    <3>2. PICK rows \in SUBSET found : Store(rows) BY <3>1
    <3>3. rows \in SUBSET Row BY <2>1, FoundType
    <3>4. QED BY <2>1, <3>2, <3>3, StoreType
  <2>3. CASE UNCHANGED <<staged, tgt>> BY <2>1, <2>3 DEF DataOK
  <2>4. \A found, rows : rows \in Inserted(found) => rows \in SUBSET found
    BY DEF Inserted
  <2>5. QED BY <1>4, <2>2, <2>3, <2>4 DEF ExtractRecords, ExtractFails
<1>5. CASE LoadRecords \/ LoadFails
  <2>1. q \in Queries /\ UNCHANGED <<file, src, staged>>
    BY <1>0, <1>5 DEF LoadRecords, LoadFails, world
  <2>2. PICK rows : LoadRows(rows) BY <1>5 DEF LoadRecords, LoadFails
  <2>3. QED BY <2>1, <2>2, LoadType
<1>6. CASE PostEtl BY <1>0, <1>6, <1>c DEF PostEtl, DataOK, world
<1>7. CASE UNCHANGED <<file, src, tgt, staged>> BY <1>7 DEF DataOK
<1>8. QED
  BY <1>1, <1>2, <1>3, <1>4, <1>5, <1>6, <1>7 DEF Next, Watcher, StartExtract, PreEtlEnd,
     PreloadFails, ExtractNext, ExtractEnd, StartPhase, DispatchTransform,
     DispatchLoad, DispatchEnd, TransformRuns, RemoteRuns, RemoteRejected, TransformFails,
     TransformEnd, LoadEnd, PostEtlEnd, ScriptEnds, vars, data, world

\* Every step keeps what the invariant says of the script RDP runs.
LEMMA ScriptNext == Ctl /\ ScriptOK /\ [Next]_vars => ScriptOK'
<1> SUFFICES ASSUME Ctl, ScriptOK, [Next]_vars PROVE ScriptOK'
  OBVIOUS
<1> USE PipelineAssumption
<1>0. /\ pc = "transform" => q \in Queries
      /\ k \in 1 .. 4
      /\ setup.remote => 1 \in 1 .. Modules
  BY DEF Ctl, ControlOK, QueryAtHand, Queries
<1>1. CASE StartExtract BY <1>1 DEF StartExtract, ScriptOK
<1>2. CASE TransformRuns BY <1>0, <1>2 DEF TransformRuns, RunModules, ScriptOK
<1>3. CASE RemoteRuns
  <2>1. <<q, k, 1>> \in Queries \X (1 .. 3) \X (1 .. Modules)
    BY <1>0, <1>3 DEF RemoteRuns
  <2>2. QED BY <1>3, <2>1 DEF RemoteRuns, ScriptOK
<1>4. CASE ScriptEnds BY <1>4 DEF ScriptEnds, ScriptOK
<1>5. CASE UNCHANGED <<applied, script>> BY <1>5 DEF ScriptOK
<1>6. QED
  BY <1>1, <1>2, <1>3, <1>4, <1>5 DEF Next, Watcher, SourceChange, PreEtl, PreEtlEnd,
     Preload, PreloadFails, ExtractRecords, ExtractFails, ExtractNext, ExtractEnd,
     StartPhase, DispatchTransform, DispatchLoad, DispatchEnd, RemoteRejected,
     TransformFails, TransformEnd, LoadRecords, LoadFails, LoadEnd, PostEtl, PostEtlEnd, vars

PInv == Ctl /\ DataOK /\ ScriptOK

\* The whole invariant holds always.
LEMMA PInvariance == Spec => []PInv
<1>1. Init => PInv
  <2> SUFFICES ASSUME Init PROVE PInv
    OBVIOUS
  <2>1. DataOK BY PipelineAssumption DEF Init, DataOK, Versions, Gone
  <2>2. ScriptOK BY DEF Init, ScriptOK
  <2>3. QED BY <2>1, <2>2, CtlInit DEF PInv
<1>2. PInv /\ [Next]_vars => PInv'
  BY CtlNext, DataNext, ScriptNext DEF PInv
<1>3. QED BY <1>1, <1>2, PTL DEF Spec

\* Every variable of the workflow stays in its range; in particular no report
\* to LCS is stopped that was not started.
THEOREM PipelineTypeCorrect == Spec => []TypeOK
<1>1. PInv => TypeOK
  BY DEF PInv, Ctl, ControlOK, DataOK, ScriptOK, OpenReports, TypeOK, Modes
<1>2. QED BY PInvariance, <1>1, PTL

\* When no watcher works on a system that is not on hold, every action
\* reported to LCS as started has been reported as stopped.
THEOREM ReportsAreClosed == Spec => []ReportsClosedUnlessHeld
<1>1. PInv => ReportsClosedUnlessHeld
  BY DEF PInv, Ctl, OpenReports, ReportsClosedUnlessHeld, ReportsClosed, One, Actions
<1>2. QED BY PInvariance, <1>1, PTL
-----------------------------------------------------------------------------
(***************************************************************************)
(* The Staging Area of a system without a staging database of its own.     *)
(* (With one, the actions clear tables of another database: Cleared.)      *)
(***************************************************************************)
Empty(n) == staged[n] = {}

\* PreETL has emptied the tables of the queries it is past.
PreCleared ==
  /\ pc = "pre" => \A n \in Queries : n < q => Empty(n)
  /\ pc = "preload" => \A n \in Queries : Empty(n)
  /\ pc = "extract" /\ q = 1 /\ k = 1 => \A n \in Queries : Empty(n)

\* With a PreETL action for every query the extraction starts from an empty
\* Staging Area, whatever the previous cycle left or lost.
THEOREM ExtractStartsClean ==
  ASSUME StagingDb = FALSE
  PROVE  Spec => []FreshStaging
<1> DEFINE I == Pre = Queries /\ ~ActionMayFail => PreCleared
<1>1. Init => I BY DEF Init, PreCleared
<1>2. PInv /\ I /\ [Next]_vars => I'
  <2> SUFFICES ASSUME PInv, PreCleared, Pre = Queries, ~ActionMayFail, [Next]_vars
               PROVE  PreCleared'
    OBVIOUS
  <2>0. ControlOK /\ DataOK BY DEF PInv, Ctl
  <2> USE PipelineAssumption DEF PreCleared, Empty, ControlOK, Queries
  <2>1. CASE PreEtl
    <3>1. pc' = "pre" /\ pc = "pre" /\ q' = q + 1 /\ staged' = [staged EXCEPT ![q] = {}] /\ q <= Q
      BY <2>0, <2>1 DEF PreEtl, Cleared
    <3>2. /\ staged \in [Queries -> SUBSET Row] /\ q \in Nat
          /\ \A n \in Queries : n < q => staged[n] = {}
      BY <2>0, <3>1 DEF DataOK
    <3>3. ASSUME NEW n \in Queries, n < q + 1 PROVE staged'[n] = {}
      <4>1. n = q \/ n < q BY <3>2, <3>3
      <4>2. QED BY <3>1, <3>2, <3>3, <4>1
    <3>4. QED BY <3>1, <3>3
  <2>2. CASE PreEtlEnd BY <2>0, <2>2 DEF PreEtlEnd, data
  <2>3. CASE Preload BY <2>0, <2>3 DEF Preload
  <2>4. CASE PreloadFails BY <2>0, <2>4 DEF PreloadFails, data
  <2>5. CASE pc' = "extract" /\ (q' = q + 1 \/ k' = k + 1)
    BY <2>0, <2>5
  <2>6. CASE pc' \notin {"pre", "preload", "extract"} BY <2>6
  <2>7. CASE StartExtract BY <2>0, <2>7 DEF StartExtract
  <2>8. CASE UNCHANGED <<pc, q, k, staged>> BY <2>8
  <2>9. CASE ExtractRecords \/ ExtractFails \/ ExtractNext
    BY <2>5, <2>9 DEF ExtractRecords, ExtractFails, ExtractNext
  <2>10. CASE SourceChange \/ ScriptEnds \/ UNCHANGED vars
    BY <2>8, <2>10 DEF SourceChange, ScriptEnds, vars, control, data
  <2>11. QED
    BY <2>1, <2>2, <2>3, <2>4, <2>6, <2>7, <2>9, <2>10 DEF Next, Watcher,
       ExtractEnd, StartPhase, DispatchTransform, DispatchLoad, DispatchEnd,
       TransformRuns, RemoteRuns, RemoteRejected, TransformFails, TransformEnd,
       LoadRecords, LoadFails, LoadEnd, PostEtl, PostEtlEnd
<1>3. I => FreshStaging BY DEF FreshStaging, PreCleared, Empty
<1>4. QED BY PInvariance, <1>1, <1>2, <1>3, PTL DEF Spec

\* Which queries have been loaded so far in the cycle.
LoadedBefore(n) ==
  \/ pc \in {"dispatch", "transform", "load", "post"} /\ n < q /\ ~TransformTurn(n)
  \/ step = "load" /\ n \in Elt
  \/ step = "extract"

\* The first load of a cycle is followed by the PostETL actions of all
\* queries; nothing is staged again before the next extraction.
PostCleared ==
  /\ failure = 0 /\ pc \in {"idle", "dispatch", "transform", "load", "post"}
       => \A n \in Queries : LoadedBefore(n) => \A m \in Queries : Empty(m)
  /\ pc = "post" => \A n \in Queries : n < j => Empty(n)

\* With a PostETL action for every query a cycle that is not put on hold
\* leaves the Staging Area empty.
THEOREM CycleEndsClean ==
  ASSUME StagingDb = FALSE
  PROVE  Spec => []ClearedAfterLoad
<1> DEFINE I == Post = Queries /\ ~ActionMayFail => PostCleared
<1>1. Init => I BY DEF Init, PostCleared, Empty, Queries
<1>2. PInv /\ I /\ [Next]_vars => I'
  <2>0. PInv /\ [Next]_vars => setup' = setup
    BY DEF Next, Watcher, SourceChange, StartExtract, PreEtl, PreEtlEnd, Preload,
       PreloadFails, ExtractRecords, ExtractFails, ExtractNext, ExtractEnd, StartPhase,
       DispatchTransform, DispatchLoad, DispatchEnd, TransformRuns, RemoteRuns,
       RemoteRejected, TransformFails, TransformEnd, LoadRecords, LoadFails, LoadEnd,
       PostEtl, PostEtlEnd, ScriptEnds, vars, data, world
  <2> SUFFICES ASSUME PInv, PostCleared, Post = Queries, ~ActionMayFail, [Next]_vars
               PROVE  PostCleared'
    BY <2>0 DEF Post
  <2>1. ControlOK /\ DataOK /\ PhaseOf /\ QueryAtHand BY DEF PInv, Ctl
  <2> USE PipelineAssumption DEF PostCleared, LoadedBefore, TransformTurn, Empty, ControlOK,
       PhaseOf, QueryAtHand, Queries, Steps
  <2>2. CASE StartPhase BY <2>1, <2>2 DEF StartPhase, data
  <2>3. CASE DispatchTransform \/ DispatchLoad
    BY <2>1, <2>3 DEF DispatchTransform, DispatchLoad, data
  <2>4. CASE DispatchEnd
    <3>1. /\ pc = "dispatch" /\ q = Q + 1 /\ pc' = "idle" /\ UNCHANGED <<failure, staged, q>>
          /\ step' = IF step = "transform" THEN "load" ELSE "extract"
      BY <2>4 DEF DispatchEnd, data
    <3>2. step \in {"transform", "load"} BY <2>1, <3>1
    <3>3. ASSUME NEW n \in Queries, failure = 0, LoadedBefore(n)'
          PROVE  \E m \in Queries : LoadedBefore(m)
      <4>1. CASE step = "transform" BY <2>1, <3>1, <3>3, <4>1
      <4>2. CASE step = "load"
        <5>1. 1 \in Queries OBVIOUS
        <5>2. LoadedBefore(1) BY <2>1, <3>1, <4>2, <5>1
        <5>3. QED BY <5>1, <5>2
      <4>3. QED BY <3>2, <4>1, <4>2
    <3>4. QED BY <3>1, <3>3
  <2>5. CASE TransformRuns \/ RemoteRuns \/ RemoteRejected
    BY <2>1, <2>5 DEF TransformRuns, RemoteRuns, RemoteRejected, data
  <2>6. CASE TransformEnd BY <2>1, <2>6 DEF TransformEnd, data
  <2>7. CASE TransformFails \/ LoadFails
    BY <2>1, <2>7 DEF TransformFails, LoadFails, data
  <2>8. CASE LoadRecords BY <2>1, <2>8 DEF LoadRecords
  <2>9. CASE LoadEnd BY <2>1, <2>9 DEF LoadEnd, data
  <2>10. CASE PostEtl
    <3>1. /\ pc = "post" /\ j <= Q /\ j' = j + 1 /\ staged' = [staged EXCEPT ![j] = {}]
          /\ UNCHANGED <<q, step, failure>>
      BY <2>1, <2>10 DEF PostEtl, Cleared
    <3>2. \A m \in Queries : m < j' => staged'[m] = {} BY <2>1, <3>1 DEF DataOK
    <3>3. \A m \in Queries : Empty(m) => Empty(m)' BY <2>1, <3>1 DEF DataOK
    <3>4. QED BY <2>1, <3>1, <3>2, <3>3
  <2>11. CASE PostEtlEnd
    <3>1. \A m \in Queries : staged'[m] = {} BY <2>1, <2>11 DEF PostEtlEnd, data
    <3>2. QED BY <2>11, <3>1 DEF PostEtlEnd
  <2>12. CASE ExtractEnd BY <2>1, <2>12 DEF ExtractEnd, data
  <2>13. CASE pc' \in {"pre", "preload", "extract"} BY <2>13
  <2>14. CASE UNCHANGED <<pc, q, j, step, failure, staged>> BY <2>14
  <2>15. QED
    BY <2>2, <2>3, <2>4, <2>5, <2>6, <2>7, <2>8, <2>9, <2>10, <2>11, <2>12, <2>13, <2>14
    DEF Next, Watcher, SourceChange, StartExtract, PreEtl, PreEtlEnd, Preload,
        PreloadFails, ExtractRecords, ExtractFails, ExtractNext, ScriptEnds, vars, control, data
<1>3. I => ClearedAfterLoad
  BY PipelineAssumption DEF ClearedAfterLoad, PostCleared, LoadedBefore, Empty, Queries
<1>4. QED BY PInvariance, <1>1, <1>2, <1>3, PTL DEF Spec
-----------------------------------------------------------------------------
(***************************************************************************)
(* The transform modules.  A list with more than one module is not run to  *)
(* its end (RunModules), so the theorem is about lists of at most one.     *)
(***************************************************************************)

\* The module m of kind c of query n has been run in this cycle, or is being
\* run by DCPAM RDP.
Run(n, c, m) == <<n, c, m>> \in applied \/ script = <<n, c, m>>

AllRun(n) == \A c \in 1 .. 3, m \in 1 .. Modules : Run(n, c, m)

\* Transform runs the modules of one ETL query after the other; Load starts
\* only if none of them failed.
TransformedSoFar ==
  /\ step = "transform" /\ failure = 0 /\ pc \in {"dispatch", "transform", "load", "post"}
       => \A n \in Queries \ Elt : n < q => AllRun(n)
  /\ step = "transform" /\ failure = 0 /\ pc = "transform"
       => \A c \in 1 .. 3, m \in 1 .. Modules : c < k => Run(q, c, m)
  /\ step = "load" /\ (pc = "idle" => failure = 0) => \A n \in Queries \ Elt : AllRun(n)

\* DCPAM RDP takes a request only when it runs no script, and a script that
\* ends has been applied: what has been run stays so until the next cycle.
LEMMA RunKept ==
  ASSUME ScriptOK, TransformRuns \/ RemoteRuns \/ ScriptEnds,
         NEW n, NEW c, NEW m, Run(n, c, m)
  PROVE  Run(n, c, m)'
<1>1. CASE TransformRuns BY <1>1 DEF TransformRuns, Run
<1>2. CASE RemoteRuns
  <2>1. <<n, c, m>> # <<>> OBVIOUS
  <2>2. <<n, c, m>> \in applied BY <1>2, <2>1 DEF RemoteRuns, Run, Idle
  <2>3. QED BY <1>2, <2>2 DEF RemoteRuns, Run
<1>3. CASE ScriptEnds
  <2>1. <<n, c, m>> # <<0>> OBVIOUS
  <2>2. QED BY <1>3, <2>1 DEF ScriptEnds, Run, Stale
<1>4. QED BY <1>1, <1>2, <1>3

\* Data of an ETL query is loaded only after the module of each of its
\* transform lists has been run in the same cycle, or while DCPAM RDP is
\* running it, where lists hold at most one module and RDP rejects nothing.
THEOREM LoadsTransformedData ==
  ASSUME Modules <= 1
  PROVE  Spec => []FullyTransformed
<1> DEFINE I == ~setup.rejects => TransformedSoFar
<1>1. Init => I BY DEF Init, TransformedSoFar
<1>2. PInv /\ I /\ [Next]_vars => I'
  <2>0. PInv /\ [Next]_vars => setup' = setup
    BY DEF Next, Watcher, SourceChange, StartExtract, PreEtl, PreEtlEnd, Preload,
       PreloadFails, ExtractRecords, ExtractFails, ExtractNext, ExtractEnd, StartPhase,
       DispatchTransform, DispatchLoad, DispatchEnd, TransformRuns, RemoteRuns,
       RemoteRejected, TransformFails, TransformEnd, LoadRecords, LoadFails, LoadEnd,
       PostEtl, PostEtlEnd, ScriptEnds, vars, data, world
  <2> SUFFICES ASSUME PInv, TransformedSoFar, ~setup.rejects, [Next]_vars
               PROVE  TransformedSoFar'
    BY <2>0
  <2>1. ControlOK /\ ScriptOK /\ PhaseOf /\ QueryAtHand BY DEF PInv, Ctl
  <2>2. ASSUME UNCHANGED <<applied, script>> PROVE \A n, c, m : Run(n, c, m)' = Run(n, c, m)
    BY <2>2 DEF Run
  <2> USE PipelineAssumption DEF TransformedSoFar, AllRun, ControlOK, PhaseOf,
       QueryAtHand, Queries, Steps
  <2>3. CASE TransformRuns \/ RemoteRuns
    <3>1. /\ pc = "transform" /\ pc' = "transform" /\ k <= 3 /\ k' = k + 1
          /\ UNCHANGED <<q, step, failure>>
      BY <2>3 DEF TransformRuns, RemoteRuns
    <3>2. ASSUME NEW n, NEW c, NEW m \in 1 .. Modules, n = q, c = k PROVE Run(n, c, m)'
      <4>1. CASE TransformRuns
        BY <3>2, <4>1 DEF TransformRuns, RunModules, Run
      <4>2. CASE RemoteRuns
        <5>1. m = 1 OBVIOUS
        <5>2. QED BY <3>2, <4>2, <5>1 DEF RemoteRuns, Run
      <4>3. QED BY <2>3, <4>1, <4>2
    <3>3. \A n, c, m : Run(n, c, m) => Run(n, c, m)'
      BY <2>1, <2>3, RunKept
    <3>4. \A c \in 1 .. 3 : c < k' => c < k \/ c = k BY <2>1, <3>1
    <3>5. QED BY <2>1, <3>1, <3>2, <3>3, <3>4
  <2>4. CASE ScriptEnds
    <3>1. \A n, c, m : Run(n, c, m) => Run(n, c, m)' BY <2>1, <2>4, RunKept
    <3>2. QED BY <2>4, <3>1 DEF ScriptEnds, control
  <2>5. CASE StartExtract BY <2>1, <2>5 DEF StartExtract
  <2>6. CASE PreEtl \/ PreEtlEnd \/ Preload \/ PreloadFails \/ ExtractRecords
             \/ ExtractFails \/ ExtractNext \/ ExtractEnd
    BY <2>1, <2>6 DEF PreEtl, PreEtlEnd, Preload, PreloadFails, ExtractRecords,
       ExtractFails, ExtractNext, ExtractEnd
  <2>7. CASE StartPhase BY <2>1, <2>2, <2>7 DEF StartPhase
  <2>8. CASE DispatchTransform \/ DispatchLoad
    BY <2>1, <2>2, <2>8 DEF DispatchTransform, DispatchLoad
  <2>9. CASE DispatchEnd BY <2>1, <2>2, <2>9 DEF DispatchEnd
  <2>10. ~RemoteRejected BY DEF RemoteRejected
  <2>11. CASE TransformFails \/ LoadFails
    BY <2>1, <2>2, <2>11 DEF TransformFails, LoadFails
  <2>12. CASE TransformEnd
    <3>1. /\ pc = "transform" /\ k = 4 /\ pc' = "dispatch" /\ q' = q + 1
          /\ UNCHANGED <<step, failure, applied, script>>
      BY <2>12 DEF TransformEnd
    <3>2. failure = 0 /\ step = "transform" => AllRun(q) BY <3>1
    <3>3. QED BY <2>1, <2>2, <3>1, <3>2
  <2>13. CASE LoadRecords \/ LoadEnd \/ PostEtl
    BY <2>1, <2>2, <2>13 DEF LoadRecords, LoadEnd, PostEtl
  <2>14. CASE PostEtlEnd
    <3>1. step = "transform" => q \in Elt BY <2>1, <2>14 DEF PostEtlEnd, TransformTurn
    <3>2. QED BY <2>1, <2>2, <2>14, <3>1 DEF PostEtlEnd
  <2>15. CASE SourceChange \/ UNCHANGED vars
    BY <2>2, <2>15 DEF SourceChange, control, vars
  <2>16. QED
    BY <2>3, <2>4, <2>5, <2>6, <2>7, <2>8, <2>9, <2>10, <2>11, <2>12, <2>13, <2>14, <2>15
    DEF Next, Watcher
<1>3. PInv /\ I => FullyTransformed
  BY PipelineAssumption DEF PInv, Ctl, ControlOK, PhaseOf, QueryAtHand, FullyTransformed,
     TransformedSoFar, AllRun, Run, TransformTurn, Queries, Steps
<1>4. QED BY PInvariance, <1>1, <1>2, <1>3, PTL DEF Spec
-----------------------------------------------------------------------------
(***************************************************************************)
(* Records that never leave the source.                                    *)
(***************************************************************************)

\* They are in the source, in its table whenever it is compared with the
\* warehouse, and in the warehouse; no staged row would delete one.
Anchors ==
  \A n \in Queries, i \in Anchored :
    /\ Source[n][i] > 0
    /\ src[n][i] >= 0
    /\ pc = "extract" /\ q <= Q => src[n][i] > 0
    /\ tgt[n][i] > 0
    /\ \A r \in staged[n] : r.id = i => r.ver > 0

\* The rows an extraction finds do not delete a record that is in the source.
LEMMA FoundKeepsAnchors ==
  ASSUME DataOK, NEW n \in Queries, NEW c \in 1 .. 3, NEW i \in Ids, src[n][i] > 0,
         NEW found \in Found(n, c), NEW r \in found, r.id = i
  PROVE  r.ver > 0
<1>1. PICK ids \in Secondary(n, c) : i \in ids /\ r = Extracted(n, c, i)
  BY DEF Found, Extracted
<1>2. Kinds[c] # "deleted"
  BY <1>1 DEF Secondary, Primary, In, Kinds
<1>3. QED BY <1>1, <1>2 DEF Extracted

\* Loading rows that do not delete i leaves i in a target that has it.
LEMMA LoadKeepsAnchors ==
  ASSUME NEW t \in [Ids -> Versions], NEW i \in Ids, t[i] > 0, NEW rows,
         \A r \in rows : r.id = i => r.ver > 0,
         NEW u \in Outcomes(t, rows)
  PROVE  u[i] > 0
<1>1. t[i] # 0 BY PipelineAssumption DEF Versions, Gone
<1>2. QED BY <1>1 DEF Outcomes, Sets

\* The same of rows that are staged or loaded.
LEMMA StoreKeepsAnchors ==
  ASSUME DataOK, q \in Queries, NEW n \in Queries, NEW i \in Ids, tgt[n][i] > 0,
         \A r \in staged[n] : r.id = i => r.ver > 0,
         NEW rows, \A r \in rows : r.id = i => r.ver > 0,
         Store(rows)
  PROVE  /\ tgt'[n][i] > 0
         /\ \A r \in staged'[n] : r.id = i => r.ver > 0
<1>1. CASE q \in Stage
  <2>1. staged' = [staged EXCEPT ![q] = staged[q] \cup rows] /\ tgt' = tgt
    BY <1>1 DEF Store
  <2>2. staged'[n] \subseteq staged[n] \cup rows BY <2>1 DEF DataOK
  <2>3. QED BY <2>1, <2>2
<1>2. CASE q \notin Stage
  <2>1. PICK u : /\ u \in (IF StagingDb THEN {tgt[q]} ELSE Outcomes(tgt[q], rows))
                 /\ tgt' = [tgt EXCEPT ![q] = u] /\ staged' = staged
    BY <1>2 DEF Store
  <2>2. tgt[q] \in [Ids -> Versions] BY DEF DataOK
  <2>3. n = q => u[i] > 0
    <3>1. CASE u = tgt[q] BY <3>1
    <3>2. CASE u \in Outcomes(tgt[q], rows) BY <2>2, <3>2, LoadKeepsAnchors
    <3>3. QED BY <2>1, <3>1, <3>2
  <2>4. tgt'[n] = (IF n = q THEN u ELSE tgt[n]) BY <2>1 DEF DataOK
  <2>5. QED BY <2>1, <2>3, <2>4
<1>3. QED BY <1>1, <1>2

\* A record that is in the source all the time is never missing in the
\* warehouse as long as no insert failed, whatever queries fail, whatever
\* actions are configured and whether or not they succeed.
THEOREM AnchoredNeverMissing == Spec => []AnchoredStay
<1> DEFINE I == losses = 0 => Anchors
<1>1. Init => I BY PipelineAssumption DEF Init, Anchors, Source
<1>2. PInv /\ I /\ [Next]_vars => I'
  <2> SUFFICES ASSUME PInv, I, [Next]_vars, losses' = 0, NEW n \in Queries, NEW i \in Anchored
               PROVE  /\ Source'[n][i] > 0
                      /\ src'[n][i] >= 0
                      /\ pc' = "extract" /\ q' <= Q => src'[n][i] > 0
                      /\ tgt'[n][i] > 0
                      /\ \A r \in staged'[n] : r.id = i => r.ver > 0
    BY DEF Anchors
  <2> USE PipelineAssumption
  <2>0. /\ ControlOK /\ DataOK /\ PhaseOf /\ QueryAtHand
        /\ i \in Ids
        /\ q \in 1 .. (Q + 1) /\ (q <= Q => q \in Queries)
        /\ losses \in 0 .. MaxLosses /\ k \in 1 .. 4
        /\ pc = "load" => q \in Queries
    BY DEF PInv, Ctl, ControlOK, QueryAtHand, Queries
  <2>1. CASE SourceChange
    <3>1. Anchors BY <2>1 DEF SourceChange
    <3>2. PICK m \in Queries, h \in Ids, v \in Versions :
            /\ h \in Anchored => v > 0
            /\ \/ setup.flat /\ file' = [file EXCEPT ![m][h] = v] /\ src' = src
               \/ ~setup.flat /\ src' = [src EXCEPT ![m][h] = v] /\ file' = file
      <4>1. PICK m \in Queries, h \in Ids, v \in Versions :
              /\ v = Source[m][h] + 1 \/ (v = Gone /\ h \notin Anchored)
              /\ IF setup.flat THEN file' = [file EXCEPT ![m][h] = v] /\ UNCHANGED src
                               ELSE src' = [src EXCEPT ![m][h] = v] /\ UNCHANGED file
        BY <2>1 DEF SourceChange
      <4>2. Source[m][h] \in Int BY <2>0 DEF DataOK, Source, Versions, Gone
      <4>3. h \in Anchored => Source[m][h] > 0 BY <3>1 DEF Anchors
      <4>4. h \in Anchored => v > 0 BY <4>1, <4>2, <4>3
      <4>5. QED BY <4>1, <4>4
    <3>3. file \in [Queries -> [Ids -> Versions]] /\ src \in [Queries -> [Ids -> Versions]]
      BY <2>0 DEF DataOK
    <3>4. ASSUME NEW f \in [Queries -> [Ids -> Versions]], f[n][i] > 0
          PROVE  [f EXCEPT ![m][h] = v][n][i] > 0
      BY <2>0, <3>2, <3>4
    <3>5. src[n][i] > 0 => src'[n][i] > 0 BY <3>2, <3>3, <3>4
    <3>9. src'[n][i] >= 0
      <4>1. [src EXCEPT ![m][h] = v][n][i] >= 0
        <5>1. src[n][i] >= 0 BY <3>1 DEF Anchors
        <5>2. CASE m = n /\ h = i
          <6>1. v > 0 /\ v \in Int BY <3>2, <5>2 DEF Versions, Gone
          <6>2. v >= 0 BY <6>1
          <6>3. [src EXCEPT ![m][h] = v][n][i] = v BY <2>0, <3>3, <5>2
          <6>4. QED BY <6>2, <6>3
        <5>3. CASE ~(m = n /\ h = i) BY <3>3, <5>1, <5>3, <2>0
        <5>4. QED BY <5>2, <5>3
      <4>2. src[n][i] >= 0 BY <3>1 DEF Anchors
      <4>3. QED BY <3>2, <4>1, <4>2
    <3>6. Source'[n][i] > 0
      BY <2>1, <3>1, <3>2, <3>3, <3>4 DEF SourceChange, Anchors, Source
    <3>7. UNCHANGED <<pc, q, tgt, staged>> BY <2>1 DEF SourceChange, control
    <3>8. QED BY <3>1, <3>5, <3>6, <3>7, <3>9 DEF Anchors
  <2>2. CASE UNCHANGED <<setup, file, src, tgt, staged, losses>> /\ (pc' = "extract" /\ q' <= Q => pc = "extract" /\ q <= Q)
    BY <2>2 DEF Anchors, Source
  <2>3. CASE PreEtl
    <3>1. Anchors /\ setup' = setup /\ file' = file /\ tgt' = tgt /\ pc' = "pre"
      BY <2>3 DEF PreEtl, world
    <3>2. staged' = staged \/ staged' = [staged EXCEPT ![q] = {}]
      BY <2>3 DEF PreEtl, Cleared
    <3>3. \A r \in staged'[n] : r \in staged[n] BY <2>0, <3>2 DEF DataOK
    <3>4. /\ setup.flat \/ src' = src
          /\ src' = src \/ src' = [src EXCEPT ![q] = [h \in Ids |-> 0]]
      BY <2>3 DEF PreEtl, Emptied
    <3>5. src'[n][i] >= 0
      <4>1. src[n][i] >= 0 BY <3>1 DEF Anchors
      <4>2. CASE src' = src BY <4>1, <4>2
      <4>3. CASE src' = [src EXCEPT ![q] = [h \in Ids |-> 0]]
        <5>1. src \in [Queries -> [Ids -> Versions]] BY <2>0 DEF DataOK
        <5>2. src'[n][i] = IF n = q THEN 0 ELSE src[n][i] BY <2>0, <4>3, <5>1
        <5>3. QED BY <4>1, <5>2
      <4>4. QED BY <3>4, <4>2, <4>3
    <3>6. QED BY <3>1, <3>3, <3>4, <3>5 DEF Anchors, Source
  <2>4. CASE PreEtlEnd
    <3>1. Anchors /\ UNCHANGED <<setup, file, src, tgt, staged>> /\ q' = 1
          /\ pc' = IF setup.flat THEN "preload" ELSE "extract"
      BY <2>4 DEF PreEtlEnd, data, world
    <3>2. QED BY <3>1 DEF Anchors, Source
  <2>5. CASE Preload
    <3>1. PICK rows \in Inserted(FileRows) :
            /\ src' = [m \in Queries |-> [h \in Ids |->
                         IF <<m, h>> \in rows /\ src[m][h] = 0 THEN file[m][h] ELSE src[m][h]]]
            /\ Counted(rows, FileRows)
      BY <2>5 DEF Preload
    <3>2. losses = 0 /\ rows = FileRows BY <2>0, <3>1, InsertedCounted
    <3>3. Anchors /\ setup' = setup /\ file' = file /\ tgt' = tgt /\ staged' = staged
      BY <2>5, <3>2 DEF Preload, world
    <3>4. src'[n][i] = IF <<n, i>> \in rows /\ src[n][i] = 0 THEN file[n][i] ELSE src[n][i]
      BY <2>0, <3>1
    <3>5. src'[n][i] > 0
      <4>1. CASE src[n][i] > 0 BY <3>4, <4>1
      <4>2. CASE src[n][i] = 0
        <5>1. file[n][i] > 0 BY <3>3, <4>2 DEF Anchors, Source
        <5>2. <<n, i>> \in FileRows BY <2>0, <5>1 DEF FileRows
        <5>3. QED BY <3>2, <3>4, <4>2, <5>1, <5>2
      <4>3. src[n][i] \in Int /\ src[n][i] >= 0 BY <2>0, <3>3 DEF Anchors, DataOK, Versions, Gone
      <4>4. QED BY <4>1, <4>2, <4>3
    <3>6. src'[n][i] \in Int
      BY <2>0, <3>4 DEF DataOK, Versions, Gone
    <3>7. src'[n][i] >= 0 BY <3>5, <3>6
    <3>8. QED BY <3>3, <3>5, <3>7 DEF Anchors, Source
  <2>6. CASE ExtractRecords \/ ExtractFails
    <3>1. losses = 0 /\ Anchors
      <4>1. CASE ExtractRecords BY <2>0, <4>1, InsertedCounted DEF ExtractRecords
      <4>2. CASE ExtractFails BY <4>2 DEF ExtractFails
      <4>3. QED BY <2>6, <4>1, <4>2
    <3>2. /\ setup' = setup /\ file' = file /\ src' = src
          /\ pc = "extract" /\ q \in Queries /\ q <= Q /\ k \in 1 .. 3
      BY <2>0, <2>6 DEF ExtractRecords, ExtractFails, world
    <3>3. src[n][i] > 0 /\ src[q][i] > 0 /\ tgt[n][i] > 0 BY <3>1, <3>2 DEF Anchors
    <3>4. CASE \E found \in Found(q, k) : \E rows \in SUBSET found : Store(rows)
      <4>0. PICK found \in Found(q, k) : \E rows \in SUBSET found : Store(rows) BY <3>4
      <4>1. PICK rows \in SUBSET found : Store(rows) BY <4>0
      <4>2. \A r \in rows : r.id = i => r.ver > 0
        BY <2>0, <3>2, <3>3, FoundKeepsAnchors
      <4>3. \A r \in staged[n] : r.id = i => r.ver > 0 BY <3>1 DEF Anchors
      <4>4. /\ tgt'[n][i] > 0
            /\ \A r \in staged'[n] : r.id = i => r.ver > 0
        BY <2>0, <3>2, <3>3, <4>1, <4>2, <4>3, StoreKeepsAnchors
      <4>5. QED BY <3>1, <3>2, <3>3, <4>4 DEF Anchors, Source
    <3>5. CASE UNCHANGED <<staged, tgt>>
      BY <3>1, <3>2, <3>3, <3>5 DEF Anchors, Source
    <3>6. \A found, rows : rows \in Inserted(found) => rows \in SUBSET found
      BY DEF Inserted
    <3>7. QED BY <2>6, <3>4, <3>5, <3>6 DEF ExtractRecords, ExtractFails
  <2>7. CASE LoadRecords \/ LoadFails
    <3>1. losses = 0 /\ Anchors
      <4>1. CASE LoadRecords BY <2>0, <4>1, InsertedCounted DEF LoadRecords
      <4>2. CASE LoadFails BY <4>2 DEF LoadFails
      <4>3. QED BY <2>7, <4>1, <4>2
    <3>2. /\ UNCHANGED <<setup, file, src, staged>>
          /\ pc' \in {"load", "dispatch"} /\ q \in Queries
      BY <2>0, <2>7 DEF LoadRecords, LoadFails, world
    <3>3. PICK rows \in SUBSET ToLoad : LoadRows(rows)
      BY <2>7 DEF LoadRecords, LoadFails, Inserted
    <3>4. \A r \in rows : r.id = i => r.ver > 0
      BY <3>1, <3>2, <3>3 DEF Anchors, ToLoad
    <3>5. PICK u \in Outcomes(tgt[q], rows) : tgt' = [tgt EXCEPT ![q] = u]
      BY <3>3 DEF LoadRows
    <3>6. u[i] > 0
      <4>1. tgt[q][i] > 0 BY <3>1, <3>2 DEF Anchors
      <4>2. tgt[q] \in [Ids -> Versions] BY <2>0, <3>2 DEF DataOK
      <4>3. QED BY <2>0, <3>4, <4>1, <4>2, LoadKeepsAnchors
    <3>7. tgt'[n][i] > 0 BY <2>0, <3>1, <3>2, <3>5, <3>6 DEF DataOK, Anchors
    <3>8. QED BY <3>1, <3>2, <3>7 DEF Anchors, Source
  <2>8. CASE PostEtl
    <3>1. Anchors /\ UNCHANGED <<setup, file, src, tgt>> /\ pc' \in {"post", "crashed"}
      BY <2>8 DEF PostEtl, world
    <3>2. staged' = staged \/ staged' = [staged EXCEPT ![j] = {}]
      BY <2>8 DEF PostEtl, Cleared
    <3>3. \A r \in staged'[n] : r \in staged[n] BY <2>0, <3>2 DEF DataOK
    <3>4. QED BY <3>1, <3>3 DEF Anchors, Source
  <2>9. QED
    BY <2>0, <2>1, <2>2, <2>3, <2>4, <2>5, <2>6, <2>7, <2>8 DEF Next, Watcher, StartExtract,
       PreloadFails, ExtractNext, ExtractEnd, StartPhase, DispatchTransform,
       DispatchLoad, DispatchEnd, TransformRuns, RemoteRuns, RemoteRejected, TransformFails,
       TransformEnd, LoadEnd, PostEtlEnd, ScriptEnds, vars, data, world, control
<1>3. I => AnchoredStay BY DEF Anchors, AnchoredStay
<1>4. QED BY PInvariance, <1>1, <1>2, <1>3, PTL DEF Spec
=============================================================================

-------------------------- MODULE ParallelScanProofs --------------------------
(***************************************************************************)
(* Proofs about ParallelScan for every number of threads, every table and  *)
(* every page count.                                                       *)
(***************************************************************************)
EXTENDS ParallelScan, FiniteSetTheorems, TLAPS

\* What a planned scan looks like (SetTablePages and the optimizer's branches).
LEMMA BindFacts ==
  ASSUME NEW b \in Binds
  PROVE  /\ b.pages \in 0 .. TidMax /\ b.perTask \in 1 .. Word - 1
         /\ b.maxThreads \in Nat
         /\ b.materialize \in BOOLEAN /\ b.useMain \in BOOLEAN /\ b.readOnly \in BOOLEAN
         /\ b.materialize => b.maxThreads <= 1
         /\ b.maxThreads > 1 => b.readOnly
         /\ ~b.useMain => b.maxThreads > 1
         /\ b.pages = 0 => b.maxThreads <= 1
<1>1. PICK pages \in PagesChoices, perTask \in PerTaskChoices, readOnly \in BOOLEAN,
           level \in IsolationChoices, attached \in BOOLEAN,
           plan \in {"alone", "multiple", "dml"} :
             b = Bind(pages, perTask, readOnly, level, attached, plan)
  BY DEF Binds
<1>2. pages \in 0 .. TidMax /\ perTask \in 1 .. Word - 1 /\ pages \in Nat /\ perTask \in Nat \ {0}
  BY ScanAssumption
<1>3. pages \div perTask \in Nat /\ (pages = 0 => pages \div perTask = 0)
  BY <1>2
<1>4. SetTablePages(pages, perTask, readOnly) \in Nat
  BY <1>3 DEF SetTablePages, BoundBy
<1>5. ~readOnly \/ pages = 0 => SetTablePages(pages, perTask, readOnly) = 1
  BY <1>3 DEF SetTablePages, BoundBy
<1>6. b.perTask = perTask /\ b.pages = pages /\ b.readOnly = readOnly
  BY <1>1 DEF Bind
<1>7. /\ b.materialize \in BOOLEAN /\ b.useMain \in BOOLEAN
      /\ b.materialize => b.maxThreads = 1
      /\ ~b.materialize => b.maxThreads = SetTablePages(pages, perTask, readOnly)
      /\ ~b.useMain => ~b.materialize /\ SetTablePages(pages, perTask, readOnly) > 1
  BY <1>1 DEF Bind, StreamsOverPool
<1> QED
  BY <1>2, <1>4, <1>5, <1>6, <1>7


LEMMA BindTyped ==
  ASSUME TypeOK
  PROVE  /\ pageIdx \in 0 .. TidMax /\ TidMax \in Nat \ {0} /\ Word \in Nat
         /\ 2 * TidMax < Word
         /\ bind.pages \in 0 .. TidMax /\ bind.perTask \in 1 .. Word - 1
         /\ bind.maxThreads \in Nat
         /\ bind.materialize => bind.maxThreads <= 1
         /\ bind.maxThreads > 1 => bind.readOnly
         /\ ~bind.useMain => bind.maxThreads > 1
         /\ bind.pages = 0 => bind.maxThreads <= 1
  BY BindFacts, ScanAssumption DEF TypeOK

\* The end of a task is a page number, whatever pages_per_task is.
LEMMA PageMaxType ==
  ASSUME TypeOK
  PROVE  PageMax \in 0 .. TidMax
<1>1. Add(pageIdx, bind.perTask) \in Nat
  BY BindTyped DEF Add
<1> QED
  BY BindTyped, <1>1 DEF PageMax

\* PostgresParallelStateNext moves page_idx forward, past the end only to TidMax.
LEMMA PageMaxFacts ==
  ASSUME TypeOK, TaskInv, pageIdx < bind.pages
  PROVE  /\ PageMax \in 1 .. TidMax /\ PageMax > pageIdx
         /\ (bind.perTask <= PageMax /\ PageMax < bind.pages) \/ PageMax = TidMax
<1>1. pageIdx = 0 \/ bind.perTask < TidMax
  BY BindTyped DEF TaskInv
<1>2. Add(pageIdx, bind.perTask) = pageIdx + bind.perTask
  BY BindTyped, <1>1 DEF Add
<1> QED
  BY BindTyped, <1>2 DEF PageMax

-------------------------------------------------------------------------------
(* Type correctness.                                                       *)

LEMMA RangeType ==
  ASSUME NEW lo \in 0 .. TidMax, NEW hi \in 0 .. TidMax
  PROVE  PageRange(lo, hi) \in [lo : 0 .. TidMax, hi : 0 .. TidMax]
BY DEF PageRange

LEMMA ReportType ==
  ASSUME TypeOK, NEW t \in Threads, NEW tuples \in SUBSET Tuple, NEW b \in Nat,
         Report(t, tuples, b)
  PROVE  emitted' \subseteq [tuple : Tuple, thread : Threads, batch : Nat]
BY DEF TypeOK, Report

LEMMA InitType == Init => TypeOK
<1> SUFFICES ASSUME Init PROVE TypeOK
  OBVIOUS
<1>1. 0 \in 0 .. MaxClock /\ 0 \in 0 .. TidMax /\ 0 \in Nat
  BY ScanAssumption
<1>2. table \in [0 .. MaxClock -> SUBSET [row : Rows, page : HeapPages]]
  BY DEF Init
<1>3. mainSnap \in 0 .. clock \cup {NoSnapshot}
  BY DEF Init
<1>4. task \in [Threads -> [lo : 0 .. TidMax, hi : 0 .. TidMax]]
  BY <1>1, RangeType DEF Init
<1> QED
  BY <1>1, <1>2, <1>3, <1>4 DEF Init, TypeOK, Retired, Working

\* What a statement returns consists of tuples.
LEMMA SeenType ==
  ASSUME TypeOK, NEW c, NEW ts \in 0 .. clock
  PROVE  SeenOn(c, ts) \subseteq Tuple
<1>1. ts \in 0 .. MaxClock
  BY ScanAssumption DEF TypeOK
<1>2. table[ts] \subseteq [row : Rows, page : HeapPages]
  BY <1>1 DEF TypeOK
<1> QED
  BY <1>2 DEF SeenOn, Tuple, TypeOK

LEMMA SnapshotType ==
  ASSUME TypeOK, NEW t \in Threads
  PROVE  StatementSnapshot(t) \in 0 .. clock
<1>1. clock \in 0 .. clock
  BY DEF TypeOK
<1>2. mainSnap \in 0 .. clock \cup {NoSnapshot} /\ connSnap[t] \in 0 .. clock \cup {NoSnapshot}
  BY DEF TypeOK
<1> QED
  BY <1>1, <1>2 DEF StatementSnapshot

LEMMA NextType ==
  ASSUME TypeOK, [Next]_vars
  PROVE  TypeOK'
<1> USE DEF remoteVars, mainVars, taskVars, connVars, rowVars
<1>1. CASE OtherCommit
  <2>1. clock' \in 0 .. MaxClock /\ clock' = clock + 1 /\ 0 .. clock \subseteq 0 .. clock'
    BY <1>1, ScanAssumption DEF OtherCommit, TypeOK
  <2>2. table' \in [0 .. MaxClock -> SUBSET [row : Rows, page : HeapPages]]
    <3>1. clock \in 0 .. MaxClock /\ clock + 1 \in 0 .. MaxClock
      BY <2>1 DEF TypeOK
    <3> QED
      BY <1>1, <3>1 DEF OtherCommit, TypeOK
  <2> QED
    BY <1>1, <2>1, <2>2 DEF OtherCommit, TypeOK
<1>2. CASE MaterializeScan
  <2> DEFINE ts == IF ReadCommitted \/ mainSnap = NoSnapshot THEN clock ELSE mainSnap
  <2>1. ts \in 0 .. clock
    BY DEF TypeOK
  <2>2. SeenOn("main", ts) \subseteq Tuple
    BY <2>1, SeenType
  <2>3. emitted' \subseteq [tuple : Tuple, thread : Threads, batch : Nat]
    BY <1>2, <2>2 DEF MaterializeScan, Report, TypeOK
  <2>4. mainSnap' \in 0 .. clock \cup {NoSnapshot}
    BY <1>2, <2>1 DEF MaterializeScan
  <2> QED
    BY <1>2, <2>3, <2>4, ScanAssumption DEF MaterializeScan, TypeOK
<1>3. CASE StartWithoutSnapshot
  BY <1>3 DEF StartWithoutSnapshot, TypeOK
<1>4. CASE ExportSnapshot
  BY <1>4 DEF ExportSnapshot, TypeOK
<1>5. CASE ExportSnapshotFails
  BY <1>5 DEF ExportSnapshotFails, TypeOK
<1>6. CASE EndQuery
  BY <1>6 DEF EndQuery, TypeOK
<1>7. ASSUME NEW t \in Threads, Open(t)
      PROVE  TypeOK'
  <2> USE DEF Connected, Working, Retired
  <2>1. CASE UseMainConnection(t)
    BY <2>1 DEF UseMainConnection, TypeOK
  <2>2. CASE ForceConnection(t)
    BY <2>2 DEF ForceConnection, TypeOK
  <2>3. CASE OpenConnection(t)
    BY <2>3 DEF OpenConnection, TypeOK
  <2>4. CASE Refused(t)
    BY <2>4 DEF Refused, TypeOK
  <2> QED
    BY <1>7, <2>1, <2>2, <2>3, <2>4 DEF Open
<1>8. ASSUME NEW t \in Threads, Scan(t)
      PROVE  TypeOK'
  <2> USE DEF Working, Retired
  <2>1. ASSUME NEW otherwise \in {"done", "exhausted", "no_connection"},
               PostgresParallelStateNext(t, otherwise)
        PROVE  /\ pageIdx' \in 0 .. TidMax /\ batchIdx' \in Nat
               /\ pc' \in [Threads -> Working \cup Retired \cup {"no_connection"}]
               /\ task' \in [Threads -> [lo : 0 .. TidMax, hi : 0 .. TidMax]]
               /\ batch' \in [Threads -> Nat]
    <3>1. batch' \in [Threads -> Nat] /\ batchIdx' \in Nat
      BY <2>1 DEF PostgresParallelStateNext, TypeOK
    <3>2. pc' \in [Threads -> Working \cup Retired \cup {"no_connection"}]
      BY <2>1 DEF PostgresParallelStateNext, TypeOK
    <3>3. \/ pageIdx' = PageMax /\ task' = [task EXCEPT ![t] = PageRange(pageIdx, PageMax)]
          \/ pageIdx' = pageIdx /\ task' = task
      BY <2>1 DEF PostgresParallelStateNext
    <3>4. PageRange(pageIdx, PageMax) \in [lo : 0 .. TidMax, hi : 0 .. TidMax]
      BY PageMaxType, RangeType DEF TypeOK
    <3>5. pageIdx' \in 0 .. TidMax
      BY <3>3, PageMaxType DEF TypeOK
    <3>6. task' \in [Threads -> [lo : 0 .. TidMax, hi : 0 .. TidMax]]
      <4> DEFINE R == PageRange(pageIdx, PageMax)
      <4>1. task' = [task EXCEPT ![t] = R] \/ task' = task
        BY <3>3
      <4>2. R \in [lo : 0 .. TidMax, hi : 0 .. TidMax]
        BY <3>4
      <4> HIDE DEF R
      <4> QED
        BY <4>1, <4>2 DEF TypeOK
    <3> QED
      BY <3>1, <3>2, <3>5, <3>6
  <2>2. CASE FirstTask(t)
    <3>1. CASE bind.pages = 0
      <4>1. task' \in [Threads -> [lo : 0 .. TidMax, hi : 0 .. TidMax]] /\ pageIdx' \in 0 .. TidMax
        <5>1. 0 \in 0 .. TidMax /\ TidMax \in 0 .. TidMax
          BY ScanAssumption
        <5>2. PageRange(0, TidMax) \in [lo : 0 .. TidMax, hi : 0 .. TidMax]
          BY <5>1, RangeType
        <5>3. task' = [task EXCEPT ![t] = PageRange(0, TidMax)] /\ pageIdx' = TidMax
          BY <2>2, <3>1 DEF FirstTask
        <5> QED
          BY <5>1, <5>2, <5>3 DEF TypeOK
      <4> QED
        BY <2>2, <3>1, <4>1 DEF FirstTask, TypeOK
    <3>2. CASE bind.pages # 0
      BY <2>1, <2>2, <3>2 DEF FirstTask, TypeOK
    <3> QED
      BY <3>1, <3>2
  <2>3. CASE BeginCopy(t)
    <3> DEFINE ts == StatementSnapshot(t)
    <3>1. ts \in 0 .. clock
      BY SnapshotType
    <3>2. SeenOn(conn[t], ts) \subseteq Tuple
      BY <3>1, SeenType
    <3>3. todo' \in [Threads -> SUBSET Tuple]
      BY <2>3, <3>2 DEF BeginCopy, TypeOK
    <3>4. /\ mainSnap' \in 0 .. clock \cup {NoSnapshot}
          /\ connSnap' \in [Threads -> 0 .. clock \cup {NoSnapshot}]
      BY <2>3, <3>1 DEF BeginCopy, TypeOK
    <3> QED
      BY <2>3, <3>3, <3>4 DEF BeginCopy, TypeOK
  <2>4. CASE ReadRow(t)
    <3>1. PICK x \in todo[t] :
            /\ todo' = [todo EXCEPT ![t] = @ \ {x}]
            /\ IF Cardinality(chunk[t]) + 1 = VectorSize
               THEN /\ Report(t, chunk[t] \cup {x}, batch[t])
                    /\ chunk' = [chunk EXCEPT ![t] = {}]
               ELSE /\ chunk' = [chunk EXCEPT ![t] = @ \cup {x}]
                    /\ UNCHANGED emitted
      BY <2>4 DEF ReadRow
    <3>2. x \in Tuple /\ chunk[t] \subseteq Tuple /\ batch[t] \in Nat
      BY DEF TypeOK
    <3>3. todo' \in [Threads -> SUBSET Tuple]
      BY <3>1 DEF TypeOK
    <3>4. chunk' \in [Threads -> SUBSET Tuple]
      <4> DEFINE more == chunk[t] \cup {x}
      <4>1. chunk' = [chunk EXCEPT ![t] = {}] \/ chunk' = [chunk EXCEPT ![t] = more]
        BY <3>1
      <4>2. more \in SUBSET Tuple
        BY <3>2
      <4> HIDE DEF more
      <4> QED
        BY <4>1, <4>2 DEF TypeOK
    <3>5. emitted' \subseteq [tuple : Tuple, thread : Threads, batch : Nat]
      <4>1. Report(t, chunk[t] \cup {x}, batch[t]) \/ emitted' = emitted
        BY <3>1
      <4>2. chunk[t] \cup {x} \in SUBSET Tuple
        BY <3>2
      <4>3. CASE Report(t, chunk[t] \cup {x}, batch[t])
        <5>1. batch[t] \in Nat
          BY <3>2
        <5> QED
          BY <4>2, <4>3, <5>1, ReportType
      <4>4. CASE emitted' = emitted
        BY <4>4 DEF TypeOK
      <4> QED
        BY <4>1, <4>3, <4>4
    <3> QED
      BY <2>4, <3>3, <3>4, <3>5 DEF ReadRow, TypeOK
  <2>5. CASE FinishCopy(t)
    BY <2>5 DEF FinishCopy, TypeOK
  <2>6. CASE NextTask(t)
    <3>1. /\ pageIdx' \in 0 .. TidMax /\ batchIdx' \in Nat
          /\ pc' \in [Threads -> Working \cup Retired \cup {"no_connection"}]
          /\ task' \in [Threads -> [lo : 0 .. TidMax, hi : 0 .. TidMax]]
          /\ batch' \in [Threads -> Nat]
      BY <2>1, <2>6 DEF NextTask
    <3>2. /\ chunk' \in [Threads -> SUBSET Tuple]
          /\ emitted' \subseteq [tuple : Tuple, thread : Threads, batch : Nat]
      <4>1. chunk[t] \in SUBSET Tuple /\ batchIdx \in Nat
        BY DEF TypeOK
      <4>2. \/ chunk' = chunk /\ emitted' = emitted
            \/ Report(t, chunk[t], batchIdx) /\ chunk' = [chunk EXCEPT ![t] = {}]
        BY <2>6 DEF NextTask
      <4> QED
        BY <4>1, <4>2, ReportType DEF TypeOK
    <3> QED
      BY <2>6, <3>1, <3>2 DEF NextTask, TypeOK
  <2>7. CASE ReleaseEarly(t)
    BY <2>7 DEF ReleaseEarly, TypeOK
  <2>8. CASE ThreadFails(t)
    BY <2>8 DEF ThreadFails, TypeOK
  <2> QED
    BY <1>8, <2>2, <2>3, <2>4, <2>5, <2>6, <2>7, <2>8 DEF Scan
<1>9. CASE UNCHANGED vars
  BY <1>9 DEF vars, TypeOK
<1> QED
  BY <1>1, <1>2, <1>3, <1>4, <1>5, <1>6, <1>7, <1>8, <1>9 DEF Next, Start

\* The state keeps its types, for every table, page count and number of threads.
THEOREM TypeCorrect == Spec => []TypeOK
BY InitType, NextType, PTL DEF Spec

-------------------------------------------------------------------------------
(* The inductive invariant.  The server exports the snapshot, and every    *)
(* write of the transaction is known to DuckDB: without either, the scan is*)
(* not exact (runs parallel_scan_export_fails and parallel_scan_own_rows). *)

Benign == ~ExportMayFail /\ ~ExecuteWrites

\* MaxThreads = 1 admits one thread.
LEMMA StartAlone ==
  ASSUME TypeOK, NEW t \in Threads, MayStart(t), bind.maxThreads <= 1
  PROVE  \A u \in Threads : pc[u] = "idle"
<1> DEFINE S == {u \in Threads : pc[u] # "idle"}
<1>1. IsFiniteSet(S)
  BY ScanAssumption, FS_Subset
<1>2. Cardinality(S) < 1
  BY BindTyped, <1>1, FS_CardinalityType DEF MayStart
<1>3. S = {}
  BY <1>1, <1>2, FS_EmptySet, FS_CardinalityType
<1> QED
  BY <1>3

LEMMA ConnectionInit == Init => ConnectionInv
BY DEF Init, ConnectionInv

LEMMA ConnectionStep ==
  ASSUME TypeOK, TaskInv, ConnectionInv, [Next]_vars
  PROVE  ConnectionInv'
<1> USE DEF remoteVars, mainVars, taskVars, connVars, rowVars
<1>1. CASE OtherCommit
  BY <1>1 DEF OtherCommit, ConnectionInv
<1>2. CASE MaterializeScan
  BY <1>2 DEF MaterializeScan, ConnectionInv, TypeOK
<1>3. CASE StartWithoutSnapshot
  BY <1>3 DEF StartWithoutSnapshot, ConnectionInv, Working
<1>4. CASE ExportSnapshot
  BY <1>4 DEF ExportSnapshot, ConnectionInv, Working
<1>5. CASE ExportSnapshotFails
  BY <1>5 DEF ExportSnapshotFails, ConnectionInv, Working
<1>6. CASE EndQuery
  BY <1>6 DEF EndQuery, ConnectionInv, TypeOK
<1>7. ASSUME NEW t \in Threads, Open(t)
      PROVE  ConnectionInv'
  <2>1. MayStart(t)
    BY <1>7 DEF Open, UseMainConnection, ForceConnection, OpenConnection, Refused
  <2>2. /\ query = "running" /\ pc[t] = "idle" /\ conn[t] = "none"
        /\ usedMainThread => bind.maxThreads > 1
        /\ bind.maxThreads <= 1 => \A u \in Threads : pc[u] = "idle"
    BY <2>1, StartAlone, BindTyped DEF MayStart, ConnectionInv
  <2>3. ASSUME Connected(t, "main", NoSnapshot), ~usedMainThread, bind.useMain, usedMainThread'
        PROVE  ConnectionInv'
    BY <2>2, <2>3 DEF Connected, ConnectionInv, TypeOK, Working
  <2>4. ASSUME Connected(t, "pool", snapshot), usedMainThread', bind.maxThreads > 1
        PROVE  ConnectionInv'
    BY <2>2, <2>4, BindTyped DEF Connected, ConnectionInv, TypeOK, Working
  <2>5. CASE UseMainConnection(t)
    BY <2>3, <2>5 DEF UseMainConnection
  <2>6. CASE ForceConnection(t)
    BY <2>4, <2>6, BindTyped DEF ForceConnection
  <2>7. CASE OpenConnection(t)
    BY <2>2, <2>4, <2>7 DEF OpenConnection
  <2>8. CASE Refused(t)
    BY <2>2, <2>8, BindTyped DEF Refused, ConnectionInv, TypeOK, Working
  <2> QED
    BY <1>7, <2>5, <2>6, <2>7, <2>8 DEF Open
<1>8. ASSUME NEW t \in Threads, Scan(t)
      PROVE  ConnectionInv'
  <2>1. query = "running" /\ pc[t] # "idle" /\ usedMainThread
    BY <1>8 DEF Scan, FirstTask, BeginCopy, ReadRow, FinishCopy, NextTask, ReleaseEarly,
                ThreadFails, ConnectionInv, Working
  <2>2. ASSUME NEW label \in Working \cup {"exhausted", "no_connection"},
               pc' = [pc EXCEPT ![t] = label], pc[t] \in Working,
               UNCHANGED <<bind, query, usedMainThread, conn>>
        PROVE  ConnectionInv'
    BY <2>1, <2>2 DEF ConnectionInv, TypeOK, Working
  <2>3. ASSUME NEW otherwise \in {"done", "exhausted", "no_connection"}, pc[t] \in Working,
               PostgresParallelStateNext(t, otherwise),
               UNCHANGED <<bind, query, usedMainThread, conn>>
        PROVE  ConnectionInv'
    BY <2>2, <2>3 DEF PostgresParallelStateNext, Working
  <2>4. CASE FirstTask(t)
    <3>1. CASE bind.pages = 0
      BY <2>2, <2>4, <3>1 DEF FirstTask, Working
    <3>2. CASE bind.pages # 0
      BY <2>3, <2>4, <3>2 DEF FirstTask, Working
    <3> QED
      BY <3>1, <3>2
  <2>5. CASE BeginCopy(t)
    BY <2>2, <2>5 DEF BeginCopy, Working
  <2>6. CASE ReadRow(t)
    BY <2>1, <2>6 DEF ReadRow, ConnectionInv
  <2>7. CASE FinishCopy(t)
    BY <2>2, <2>7 DEF FinishCopy, Working
  <2>8. CASE NextTask(t)
    BY <2>3, <2>8 DEF NextTask, Working
  <2>9. CASE ReleaseEarly(t)
    BY <2>1, <2>9 DEF ReleaseEarly, ConnectionInv, TypeOK, Working
  <2>10. CASE ThreadFails(t)
    BY <2>1, <2>10 DEF ThreadFails, ConnectionInv, TypeOK
  <2> QED
    BY <1>8, <2>4, <2>5, <2>6, <2>7, <2>8, <2>9, <2>10 DEF Scan
<1>9. CASE UNCHANGED vars
  BY <1>9 DEF vars, ConnectionInv
<1> QED
  BY <1>1, <1>2, <1>3, <1>4, <1>5, <1>6, <1>7, <1>8, <1>9 DEF Next, Start

LEMMA SnapshotInit == Benign /\ Init => SnapshotInv
BY DEF Init, SnapshotInv, Benign

LEMMA SnapshotStep ==
  ASSUME Benign, TypeOK, ConnectionInv, SnapshotInv, TaskInv, [Next]_vars
  PROVE  SnapshotInv'
<1> USE DEF remoteVars, mainVars, taskVars, connVars, rowVars, ReadCommitted
<1>1. CASE OtherCommit
  BY <1>1 DEF OtherCommit, SnapshotInv
<1>2. CASE MaterializeScan
  BY <1>2 DEF MaterializeScan, SnapshotInv, ConnectionInv
<1>3. CASE StartWithoutSnapshot
  BY <1>3, BindTyped DEF StartWithoutSnapshot, SnapshotInv, ConnectionInv
<1>4. CASE ExportSnapshot
  BY <1>4 DEF ExportSnapshot, SnapshotInv, ConnectionInv, TypeOK, NoSnapshot
<1>5. CASE ExportSnapshotFails
  BY <1>5 DEF ExportSnapshotFails, Benign
<1>6. CASE EndQuery
  BY <1>6 DEF EndQuery, SnapshotInv, TypeOK
<1>7. ASSUME NEW t \in Threads, Open(t)
      PROVE  SnapshotInv'
  <2>1. CASE UseMainConnection(t)
    BY <2>1 DEF UseMainConnection, Connected, SnapshotInv, TypeOK
  <2>2. CASE ForceConnection(t)
    BY <2>2, BindTyped DEF ForceConnection, MayStart, Connected, SnapshotInv, TypeOK
  <2>3. CASE OpenConnection(t)
    <3>1. bind.maxThreads > 1
      BY <2>3, StartAlone, BindTyped DEF OpenConnection, MayStart, ConnectionInv
    <3> QED
      BY <2>3, <3>1 DEF OpenConnection, MayStart, Connected, SnapshotInv, TypeOK
  <2>4. CASE Refused(t)
    BY <2>4 DEF Refused, SnapshotInv
  <2> QED
    BY <1>7, <2>1, <2>2, <2>3, <2>4 DEF Open
<1>8. ASSUME NEW t \in Threads, Scan(t)
      PROVE  SnapshotInv'
  <2>1. CASE BeginCopy(t)
    <3> SUFFICES ASSUME ~ReadCommitted PROVE SnapshotInv'
      BY <2>1 DEF BeginCopy, SnapshotInv
    <3>1. conn[t] \in {"main", "pool"} /\ query = "running"
      BY <2>1 DEF BeginCopy, ConnectionInv, TypeOK, Working
    <3>2. mainSnap # NoSnapshot => mainSnap' = mainSnap
      BY <2>1, <3>1 DEF BeginCopy, StatementSnapshot
    <3>3. mainSnap = NoSnapshot => \A u \in Threads : conn[u] # "pool"
      BY <3>1 DEF SnapshotInv, ConnectionInv
    <3>4. mainSnap # NoSnapshot => connSnap' = connSnap
      BY <2>1, <3>1 DEF BeginCopy, StatementSnapshot, SnapshotInv, TypeOK
    <3>5. mainSnap' # NoSnapshot
      <4>1. StatementSnapshot(t) # NoSnapshot
        BY SnapshotType DEF NoSnapshot, TypeOK
      <4>2. conn[t] = "pool" => mainSnap # NoSnapshot
        BY <3>1, <3>3
      <4> QED
        BY <2>1, <3>1, <4>1, <4>2 DEF BeginCopy
    <3> QED
      BY <2>1, <3>2, <3>3, <3>4, <3>5 DEF BeginCopy, SnapshotInv
  <2>2. CASE FirstTask(t)
    <3> SUFFICES ASSUME ~ReadCommitted PROVE SnapshotInv'
      BY <2>2 DEF FirstTask, SnapshotInv
    <3>1. pc' = [pc EXCEPT ![t] = "begin"] \/ (pageIdx > 0 /\ pc' = [pc EXCEPT ![t] = "done"])
      BY <2>2, BindTyped DEF FirstTask, PostgresParallelStateNext
    <3>2. pageIdx > 0 => mainSnap # NoSnapshot
      BY <2>2, BindTyped DEF FirstTask, TaskInv, SnapshotInv
    <3> QED
      BY <2>2, <3>1, <3>2 DEF FirstTask, SnapshotInv, TypeOK
  <2>3. CASE ReadRow(t)
    BY <2>3 DEF ReadRow, SnapshotInv
  <2>4. CASE FinishCopy(t) \/ NextTask(t)
    <3>1. pc[t] \in {"read", "done"}
      BY <2>4 DEF FinishCopy, NextTask
    <3>2. UNCHANGED <<bind, query, mainSnap, snapshot, conn, connSnap, own>>
          /\ \A u \in Threads \ {t} : pc'[u] = pc[u]
      BY <2>4 DEF FinishCopy, NextTask, PostgresParallelStateNext, TypeOK
    <3> QED
      BY <3>1, <3>2 DEF SnapshotInv
  <2>5. CASE ReleaseEarly(t)
    BY <2>5 DEF ReleaseEarly, SnapshotInv, TypeOK
  <2>6. CASE ThreadFails(t)
    BY <2>6 DEF ThreadFails, SnapshotInv, TypeOK
  <2> QED
    BY <1>8, <2>1, <2>2, <2>5, <2>6, <2>3, <2>4 DEF Scan
<1>9. CASE UNCHANGED vars
  BY <1>9 DEF vars, SnapshotInv
<1> QED
  BY <1>1, <1>2, <1>3, <1>4, <1>5, <1>6, <1>7, <1>8, <1>9 DEF Next, Start

-------------------------------------------------------------------------------
LEMMA TaskInit == Init => TaskInv
BY DEF Init, TaskInv

\* What handing out a task does to page_idx and the ranges in flight.
LEMMA TaskNext ==
  ASSUME TypeOK, TaskInv, NEW t \in Threads, NEW otherwise \in {"done", "exhausted", "no_connection"},
         PostgresParallelStateNext(t, otherwise), pc[t] # "begin",
         pageIdx >= bind.pages => pageIdx > 0, UNCHANGED bind,
         bind.maxThreads <= 1 => \A u \in Threads \ {t} : pc[u] = "idle"
  PROVE  TaskInv'
<1>1. CASE pageIdx < bind.pages
  <2>1. /\ pageIdx' = PageMax /\ task' = [task EXCEPT ![t] = PageRange(pageIdx, PageMax)]
        /\ pc' = [pc EXCEPT ![t] = "begin"]
    BY <1>1 DEF PostgresParallelStateNext
  <2>2. task'[t].lo = pageIdx /\ task'[t].hi = PageMax /\ \A u \in Threads \ {t} : task'[u] = task[u]
    BY <2>1 DEF TypeOK, PageRange
  <2>3. \A u \in Threads \ {t} : pc[u] = "begin" => task[u].hi <= pageIdx /\ task[u].hi \in Nat
    BY DEF TaskInv, TypeOK
  <2>4. pageIdx \in Nat /\ PageMax \in Nat /\ TidMax > 0
    BY BindTyped, PageMaxType
  <2>5. /\ PageMax > pageIdx /\ UNCHANGED bind
        /\ (bind.perTask <= PageMax /\ PageMax < bind.pages) \/ PageMax = TidMax
    BY <1>1, PageMaxFacts
  <2>6. pc'[t] = "begin" /\ \A u \in Threads \ {t} : pc'[u] = pc[u]
    BY <2>1 DEF TypeOK
  <2>7. ASSUME NEW u \in Threads
        PROVE  /\ pc'[u] = "begin" => task'[u].hi <= pageIdx'
               /\ pc'[u] \in {"begin", "read", "done"} => pageIdx' > 0
               /\ pc'[u] \in {"no_connection", "exhausted", "released"} => pageIdx' = TidMax
               /\ bind'.maxThreads <= 1 /\ pc'[u] = "connected" => pageIdx' = 0
    <3>1. CASE u = t
      BY <2>1, <2>2, <2>4, <2>5, <2>6, <3>1
    <3>2. CASE u # t /\ pc[u] = "connected"
      BY <2>6, <3>2
    <3>3. CASE u # t /\ pc[u] # "connected"
      <4>1. pc'[u] = pc[u] /\ task'[u] = task[u]
        BY <2>2, <2>6, <3>3
      <4>2. pc[u] \in {"no_connection", "exhausted", "released"} => pageIdx = TidMax
        BY DEF TaskInv
      <4> QED
        BY <1>1, <2>1, <2>3, <2>4, <2>5, <3>3, <4>1, <4>2, BindTyped
    <3> QED
      BY <3>1, <3>2, <3>3
  <2>8. ASSUME NEW u \in Threads, NEW w \in Threads,
               u # w, pc'[u] = "begin", pc'[w] = "begin"
        PROVE  task'[u].hi <= task'[w].lo \/ task'[w].hi <= task'[u].lo
    <3>1. CASE u = t
      BY <2>2, <2>3, <2>6, <2>8, <3>1
    <3>2. CASE w = t
      BY <2>2, <2>3, <2>6, <2>8, <3>2
    <3>3. CASE u # t /\ w # t
      BY <2>2, <2>6, <2>8, <3>3 DEF TaskInv
    <3> QED
      BY <3>1, <3>2, <3>3
  <2> QED
    BY <2>1, <2>5, <2>7, <2>8 DEF TaskInv
<1>2. CASE ~(pageIdx < bind.pages)
  <2>1. pageIdx = TidMax /\ pageIdx > 0
    BY <1>2, BindTyped DEF TaskInv
  <2>2. pc' = [pc EXCEPT ![t] = otherwise] /\ UNCHANGED <<task, pageIdx, bind>>
    BY <1>2 DEF PostgresParallelStateNext
  <2>3. \A u \in Threads : pc'[u] = IF u = t THEN otherwise ELSE pc[u]
    BY <2>2 DEF TypeOK
  <2>4. \A u \in Threads : pc'[u] = "connected" => pc[u] = "connected"
    BY <2>3
  <2>5. \A u \in Threads : pc'[u] = "begin" => pc[u] = "begin"
    BY <2>3
  <2> QED
    BY <2>1, <2>2, <2>4, <2>5 DEF TaskInv
<1> QED
  BY <1>1, <1>2

LEMMA TaskStep ==
  ASSUME TypeOK, ConnectionInv, TaskInv, [Next]_vars
  PROVE  TaskInv'
<1> USE DEF remoteVars, mainVars, taskVars, connVars, rowVars
<1>1. CASE OtherCommit \/ StartWithoutSnapshot \/ ExportSnapshot \/ ExportSnapshotFails \/ EndQuery
  BY <1>1 DEF OtherCommit, StartWithoutSnapshot, ExportSnapshot, ExportSnapshotFails, EndQuery,
              TaskInv
<1>2. CASE MaterializeScan
  BY <1>2 DEF MaterializeScan, TaskInv, ConnectionInv
<1>3. ASSUME NEW t \in Threads, Open(t)
      PROVE  TaskInv'
  <2>1. bind.maxThreads <= 1 => pageIdx = 0
    <3>1. MayStart(t)
      BY <1>3 DEF Open, UseMainConnection, ForceConnection, OpenConnection, Refused
    <3>2. bind.maxThreads <= 1 => ~usedMainThread
      BY <3>1, StartAlone DEF ConnectionInv, MayStart
    <3> QED
      BY <3>2 DEF ConnectionInv
  <2>2. PICK label \in {"connected", "refused"} : pc' = [pc EXCEPT ![t] = label]
    BY <1>3 DEF Open, UseMainConnection, ForceConnection, OpenConnection, Refused, Connected
  <2>3. UNCHANGED <<bind, taskVars>>
    BY <1>3 DEF Open, UseMainConnection, ForceConnection, OpenConnection, Refused, Connected
  <2> QED
    BY <2>1, <2>2, <2>3 DEF TaskInv, TypeOK
<1>4. ASSUME NEW t \in Threads, Scan(t)
      PROVE  TaskInv'
  <2>1. CASE FirstTask(t)
    <3>1. CASE bind.pages = 0
      <4>1. bind.maxThreads <= 1 /\ pageIdx = 0 /\ \A u \in Threads : pc[u] # "idle" => u = t
        BY <2>1, <3>1, BindTyped DEF FirstTask, ConnectionInv, TaskInv
      <4>2. /\ task' = [task EXCEPT ![t] = PageRange(0, TidMax)] /\ pageIdx' = TidMax
            /\ pc' = [pc EXCEPT ![t] = "begin"]
        BY <2>1, <3>1 DEF FirstTask
      <4>3. task'[t].hi = TidMax /\ TidMax > 0
        BY <4>2, BindTyped DEF PageRange, TypeOK
      <4>4. UNCHANGED bind /\ pc'[t] = "begin" /\ \A u \in Threads \ {t} : pc'[u] = "idle"
        BY <2>1, <4>1, <4>2 DEF FirstTask, TypeOK
      <4>5. \A u \in Threads : pc'[u] # "idle" => u = t
        BY <4>4
      <4> QED
        BY <4>2, <4>3, <4>4, <4>5, BindTyped DEF TaskInv
    <3>2. CASE bind.pages # 0
      <4>1. bind.maxThreads <= 1 => \A u \in Threads \ {t} : pc[u] = "idle"
        BY <2>1 DEF FirstTask, ConnectionInv
      <4> QED
        BY <2>1, <3>2, <4>1, BindTyped, TaskNext DEF FirstTask
    <3> QED
      BY <3>1, <3>2
  <2>2. CASE BeginCopy(t) \/ FinishCopy(t)
    <3>1. PICK label \in {"read", "done"} : pc' = [pc EXCEPT ![t] = label]
      BY <2>2 DEF BeginCopy, FinishCopy
    <3>2. \A u \in Threads : pc'[u] = IF u = t THEN label ELSE pc[u]
      BY <3>1 DEF TypeOK
    <3>3. pc[t] \in {"begin", "read"} /\ UNCHANGED <<task, pageIdx, bind>>
      BY <2>2 DEF BeginCopy, FinishCopy
    <3>4. pageIdx > 0
      BY <3>3 DEF TaskInv
    <3> QED
      BY <3>2, <3>3, <3>4 DEF TaskInv
  <2>3. CASE ReadRow(t) \/ ThreadFails(t)
    BY <2>3 DEF ReadRow, ThreadFails, TaskInv
  <2>4. CASE NextTask(t)
    <3>1. bind.maxThreads <= 1 => \A u \in Threads \ {t} : pc[u] = "idle"
      BY <2>4 DEF NextTask, ConnectionInv
    <3> QED
      BY <2>4, <3>1, TaskNext DEF NextTask, TaskInv
  <2>5. CASE ReleaseEarly(t)
    BY <2>5 DEF ReleaseEarly, TaskInv, TypeOK
  <2> QED
    BY <1>4, <2>1, <2>2, <2>3, <2>4, <2>5 DEF Scan
<1>5. CASE UNCHANGED vars
  BY <1>5 DEF vars, TaskInv
<1> QED
  BY <1>1, <1>2, <1>3, <1>4, <1>5 DEF Next, Start

-------------------------------------------------------------------------------
\* Returning a chunk adds it to what has been delivered.
LEMMA ReportDelivers ==
  ASSUME NEW t, NEW tuples, NEW b, Report(t, tuples, b)
  PROVE  /\ Delivered' = Delivered \cup tuples
         /\ (\A e, f \in emitted : e.tuple = f.tuple => e = f) /\ tuples \cap Delivered = {} =>
              \A e, f \in emitted' : e.tuple = f.tuple => e = f
<1> DEFINE new == {[tuple |-> x, thread |-> t, batch |-> b] : x \in tuples}
<1>1. emitted' = emitted \cup new
  BY DEF Report
<1>2. \A e \in new : e.tuple \in tuples /\ e = [tuple |-> e.tuple, thread |-> t, batch |-> b]
  OBVIOUS
<1>3. ASSUME NEW x \in tuples
      PROVE  \E e \in new : e.tuple = x
  <2>1. [tuple |-> x, thread |-> t, batch |-> b] \in new
    OBVIOUS
  <2> QED
    BY <2>1
<1> HIDE DEF new
<1>4. Delivered' = Delivered \cup tuples
  BY <1>1, <1>2, <1>3 DEF Delivered
<1>5. ASSUME \A e, f \in emitted : e.tuple = f.tuple => e = f, tuples \cap Delivered = {},
             NEW e \in emitted', NEW f \in emitted', e.tuple = f.tuple
      PROVE  e = f
  <2>1. \A g \in emitted : g.tuple \in Delivered
    BY DEF Delivered
  <2> QED
    BY <1>1, <1>2, <1>5, <2>1
<1> QED
  BY <1>4, <1>5

LEMMA TuplePage ==
  ASSUME NEW x \in Tuple
  PROVE  x.page \in Nat /\ x.page < TidMax
<1>1. x.page \in 0 .. TidMax - 1 /\ TidMax \in Nat
  BY ScanAssumption DEF Tuple
<1> QED
  BY <1>1

LEMMA RowInit == Init => RowInv
BY DEF Init, RowInv, Held, Reached, Delivered

\* A step of thread t other than BeginCopy moves rows along: what t gives up is
\* delivered, and a range t begins to wait for starts at the old page_idx.
Moves(t) ==
  /\ \A u \in Threads \ {t} : /\ todo'[u] = todo[u] /\ chunk'[u] = chunk[u]
                              /\ task'[u] = task[u] /\ pc'[u] = pc[u]
  /\ Delivered \subseteq Delivered'
  /\ Delivered' \cup Held(t)' = Delivered \cup Held(t)
  /\ Held(t)' \cap Delivered' = {}
  /\ todo'[t] \cap chunk'[t] = {}
  /\ pc'[t] # "read" => todo'[t] = {}
  /\ pc'[t] \notin {"begin", "read", "done"} => chunk'[t] = {}
  /\ pc[t] # "begin" /\ pageIdx' \in Nat
  /\ IF pc'[t] = "begin"
     THEN task'[t].lo = pageIdx /\ task'[t].hi = pageIdx' /\ pageIdx <= pageIdx'
     ELSE pageIdx' = pageIdx
  /\ \A e, f \in emitted' : e.tuple = f.tuple => e = f

LEMMA MovesReached ==
  ASSUME NEW t \in Threads, Moves(t)
  PROVE  \A x : Reached(x)' <=> Reached(x)
<1>1. \A u \in Threads \ {t} : Held(u)' = Held(u)
  BY DEF Held, Moves
<1>2. \A x : x \in Delivered \/ x \in Held(t) <=> x \in Delivered' \/ x \in Held(t)'
  BY DEF Moves
<1> QED
  BY <1>1, <1>2 DEF Reached

LEMMA MovesRow ==
  ASSUME TypeOK, RowInv, NEW t \in Threads, Moves(t)
  PROVE  RowInv'
<1>1. \A u \in Threads \ {t} : Held(u)' = Held(u)
  BY DEF Held, Moves
<1>2. \A u \in Threads \ {t} : Held(u) \cap Held(t) = {} /\ Held(t) \cap Held(u) = {}
  BY DEF RowInv
<1>3. /\ Held(t)' \subseteq Held(t) /\ Delivered' \subseteq Delivered \cup Held(t)
      /\ Held(t)' \cap Delivered' = {}
  BY DEF Moves
<1>4. ASSUME NEW x \in Tuple, Reached(x)'
      PROVE  x.page < pageIdx' /\ ~Waiting(x)'
  <2>1. x.page < pageIdx /\ ~Waiting(x) /\ x.page \in Nat /\ pageIdx \in Nat
    BY <1>4, MovesReached, TuplePage, BindTyped DEF RowInv
  <2>2. ASSUME NEW u \in Threads, pc'[u] = "begin", InRange(x, task'[u])
        PROVE  FALSE
    <3>1. CASE u = t
      BY <2>1, <2>2, <3>1 DEF InRange, Moves
    <3>2. CASE u # t
      BY <2>1, <2>2, <3>2 DEF Waiting, Moves
    <3> QED
      BY <3>1, <3>2
  <2>3. x.page < pageIdx'
    BY <2>1 DEF Moves
  <2> QED
    BY <2>2, <2>3 DEF Waiting
<1>5. ASSUME NEW u \in Threads
      PROVE  /\ pc'[u] # "read" => todo'[u] = {}
             /\ pc'[u] \notin {"begin", "read", "done"} => chunk'[u] = {}
             /\ todo'[u] \cap chunk'[u] = {}
             /\ Held(u)' \cap Delivered' = {}
             /\ \A w \in Threads : u # w => Held(u)' \cap Held(w)' = {}
  <2>1. CASE u = t
    BY <1>1, <1>2, <1>3, <2>1 DEF Moves
  <2>2. CASE u # t
    <3>1. Held(u) \cap Delivered = {} /\ \A w \in Threads : u # w => Held(u) \cap Held(w) = {}
      BY DEF RowInv
    <3>2. Held(u)' \cap Delivered' = {}
      BY <1>1, <1>2, <1>3, <2>2, <3>1
    <3>3. \A w \in Threads : u # w => Held(u)' \cap Held(w)' = {}
      BY <1>1, <1>3, <2>2, <3>1
    <3> QED
      BY <2>2, <3>2, <3>3 DEF RowInv, Moves
  <2> QED
    BY <2>1, <2>2
<1> QED
  BY <1>4, <1>5 DEF RowInv, Moves

LEMMA MovesCover ==
  ASSUME TypeOK, CoverageInv, NEW t \in Threads, Moves(t),
         UNCHANGED <<remoteVars, bind, query, mainSnap>>
  PROVE  CoverageInv'
<1> SUFFICES ASSUME ~ReadCommitted, query = "running", NEW x \in Tuple,
                    x.page < pageIdx', ~Waiting(x)'
             PROVE  mainSnap # NoSnapshot /\ (x \in SeenOn("main", mainSnap) <=> Reached(x))
  BY MovesReached DEF CoverageInv, ReadCommitted, remoteVars, SeenOn
<1>1. x.page \in Nat /\ pageIdx \in Nat
  BY TuplePage, BindTyped
<1>2. x.page < pageIdx
  BY <1>1 DEF Moves, Waiting, InRange
<1>3. ~Waiting(x)
  BY DEF Moves, Waiting
<1> QED
  BY <1>2, <1>3 DEF CoverageInv
\* Every step of a thread except BeginCopy and ThreadFails moves rows along.
LEMMA ThreadMoves ==
  ASSUME TypeOK, ConnectionInv, TaskInv, RowInv, NEW t \in Threads,
         \/ Open(t) \/ FirstTask(t) \/ ReadRow(t) \/ FinishCopy(t) \/ NextTask(t)
         \/ ReleaseEarly(t)
  PROVE  Moves(t) /\ UNCHANGED <<remoteVars, bind, query, mainSnap>>
<1> USE DEF remoteVars, mainVars, taskVars, connVars, rowVars
<1>1. /\ pageIdx \in Nat /\ TidMax \in Nat
      /\ pc[t] # "read" => todo[t] = {}
      /\ pc[t] \notin {"begin", "read", "done"} => chunk[t] = {}
      /\ todo[t] \cap chunk[t] = {}
      /\ Held(t) \cap Delivered = {}
      /\ \A e, f \in emitted : e.tuple = f.tuple => e = f
  BY BindTyped DEF RowInv
<1>2. ASSUME UNCHANGED <<rowVars, taskVars>>, NEW label \in {"connected", "refused", "done", "released"},
             pc' = [pc EXCEPT ![t] = label],
             pc[t] \in {"idle", "read", "no_connection"},
             pc[t] = "read" => todo[t] = {} /\ label = "done"
      PROVE  Moves(t)
  BY <1>1, <1>2 DEF Moves, Held, Delivered, TypeOK
<1>3. ASSUME NEW otherwise \in {"done", "exhausted", "no_connection"}, pc[t] \in {"connected", "done"},
             PostgresParallelStateNext(t, otherwise), UNCHANGED todo,
             IF pageIdx < bind.pages \/ pc[t] = "connected"
             THEN UNCHANGED <<chunk, emitted>>
             ELSE Report(t, chunk[t], batchIdx) /\ chunk' = [chunk EXCEPT ![t] = {}]
      PROVE  Moves(t)
  <2>1. \A u \in Threads \ {t} : task'[u] = task[u] /\ pc'[u] = pc[u] /\ chunk'[u] = chunk[u]
    BY <1>3 DEF PostgresParallelStateNext, TypeOK
  <2>2. /\ pageIdx' \in Nat /\ pc'[t] \in {"begin", otherwise}
        /\ IF pc'[t] = "begin"
           THEN task'[t].lo = pageIdx /\ task'[t].hi = pageIdx' /\ pageIdx <= pageIdx'
           ELSE pageIdx' = pageIdx
    <3>1. CASE pageIdx < bind.pages
      <4>1. /\ pageIdx' = PageMax /\ pc'[t] = "begin"
            /\ task'[t] = PageRange(pageIdx, PageMax)
        BY <1>3, <3>1 DEF PostgresParallelStateNext, TypeOK
      <4> QED
        BY <1>1, <3>1, <4>1, PageMaxFacts DEF PageRange
    <3>2. CASE ~(pageIdx < bind.pages)
      BY <1>1, <1>3, <3>2 DEF PostgresParallelStateNext, TypeOK
    <3> QED
      BY <3>1, <3>2
  <2>3. todo[t] = {} /\ todo'[t] = {} /\ todo' = todo
    BY <1>1, <1>3
  <2>4. CASE UNCHANGED <<chunk, emitted>> /\ (pageIdx < bind.pages \/ pc[t] = "connected")
    <3>1. pc'[t] \notin {"begin", "read", "done"} => chunk[t] = {}
      BY <1>1, <1>3, <2>4 DEF PostgresParallelStateNext, TypeOK
    <3>2. Held(t)' = Held(t) /\ Delivered' = Delivered
      BY <2>3, <2>4 DEF Held, Delivered
    <3> QED
      BY <1>1, <1>3, <2>1, <2>2, <2>3, <2>4, <3>1, <3>2 DEF Moves
  <2>5. CASE Report(t, chunk[t], batchIdx) /\ chunk' = [chunk EXCEPT ![t] = {}]
    <3>1. Held(t) = chunk[t] /\ Held(t)' = {} /\ chunk'[t] = {}
      BY <2>3, <2>5 DEF Held, TypeOK
    <3>2. /\ Delivered' = Delivered \cup chunk[t]
          /\ \A e, f \in emitted' : e.tuple = f.tuple => e = f
      BY <1>1, <2>5, <3>1, ReportDelivers
    <3> QED
      BY <1>3, <2>1, <2>2, <2>3, <3>1, <3>2 DEF Moves
  <2> QED
    BY <1>3, <2>4, <2>5
<1>4. CASE Open(t)
  BY <1>2, <1>4 DEF Open, UseMainConnection, ForceConnection, OpenConnection, Refused, MayStart,
                    Connected
<1>5. CASE FirstTask(t)
  <2>1. CASE bind.pages = 0
    <3>1. pageIdx = 0
      BY <1>5, <2>1, BindTyped DEF FirstTask, TaskInv
    <3>2. /\ task' = [task EXCEPT ![t] = PageRange(0, TidMax)] /\ pageIdx' = TidMax
          /\ pc' = [pc EXCEPT ![t] = "begin"]
      BY <1>5, <2>1 DEF FirstTask
    <3>3. /\ pc'[t] = "begin" /\ task'[t].lo = 0 /\ task'[t].hi = TidMax
          /\ \A u \in Threads \ {t} : task'[u] = task[u] /\ pc'[u] = pc[u]
      BY <3>2 DEF TypeOK, PageRange
    <3>4. UNCHANGED rowVars /\ Held(t)' = Held(t) /\ Delivered' = Delivered /\ pc[t] = "connected"
      BY <1>5 DEF FirstTask, Held, Delivered
    <3>5. Moves(t)
      BY <1>1, <3>1, <3>2, <3>3, <3>4 DEF Moves
    <3> QED
      BY <1>5, <3>5 DEF FirstTask
  <2>2. CASE bind.pages # 0
    BY <1>3, <1>5, <2>2 DEF FirstTask
  <2> QED
    BY <2>1, <2>2
<1>6. CASE ReadRow(t)
  <2>1. PICK x \in todo[t] :
          /\ todo' = [todo EXCEPT ![t] = @ \ {x}]
          /\ \/ /\ Report(t, chunk[t] \cup {x}, batch[t])
                /\ chunk' = [chunk EXCEPT ![t] = {}]
             \/ /\ chunk' = [chunk EXCEPT ![t] = @ \cup {x}]
                /\ UNCHANGED emitted
    BY <1>6 DEF ReadRow
  <2>2. /\ pc' = pc /\ task' = task /\ pageIdx' = pageIdx /\ pc[t] = "read"
        /\ UNCHANGED <<remoteVars, bind, query, mainSnap>>
    BY <1>6 DEF ReadRow
  <2>3. todo'[t] = todo[t] \ {x} /\ \A u \in Threads \ {t} : todo'[u] = todo[u]
    BY <2>1 DEF TypeOK
  <2>4. CASE Report(t, chunk[t] \cup {x}, batch[t]) /\ chunk' = [chunk EXCEPT ![t] = {}]
    <3>1. chunk'[t] = {} /\ \A u \in Threads \ {t} : chunk'[u] = chunk[u]
      BY <2>4 DEF TypeOK
    <3>2. (chunk[t] \cup {x}) \cap Delivered = {}
      BY <1>1 DEF Held
    <3>3. /\ Delivered' = Delivered \cup (chunk[t] \cup {x})
          /\ \A e, f \in emitted' : e.tuple = f.tuple => e = f
      BY <1>1, <2>4, <3>2, ReportDelivers
    <3>4. Held(t)' = todo[t] \ {x} /\ Held(t) = todo[t] \cup chunk[t]
      BY <2>3, <3>1 DEF Held
    <3> QED
      BY <1>1, <2>2, <2>3, <3>1, <3>3, <3>4 DEF Moves
  <2>5. CASE chunk' = [chunk EXCEPT ![t] = @ \cup {x}] /\ UNCHANGED emitted
    <3>1. chunk'[t] = chunk[t] \cup {x} /\ \A u \in Threads \ {t} : chunk'[u] = chunk[u]
      BY <2>5 DEF TypeOK
    <3>2. Held(t)' = Held(t) /\ Delivered' = Delivered
      BY <2>3, <2>5, <3>1 DEF Held, Delivered
    <3> QED
      BY <1>1, <2>2, <2>3, <2>5, <3>1, <3>2 DEF Moves
  <2> QED
    BY <2>1, <2>4, <2>5
<1>7. CASE FinishCopy(t)
  BY <1>2, <1>7 DEF FinishCopy
<1>8. CASE NextTask(t)
  BY <1>3, <1>8 DEF NextTask
<1>9. CASE ReleaseEarly(t)
  BY <1>2, <1>9 DEF ReleaseEarly
<1> QED
  BY <1>4, <1>5, <1>6, <1>7, <1>8, <1>9
\* BeginCopy reads the tuples of its range, which nobody has read before.
LEMMA BeginCopyRow ==
  ASSUME TypeOK, TaskInv, RowInv, NEW t \in Threads, BeginCopy(t)
  PROVE  /\ RowInv'
         /\ \A x \in Tuple : Reached(x)' <=> Reached(x) \/ x \in todo'[t]
         /\ \A x \in Tuple : Waiting(x) <=> Waiting(x)' \/ InRange(x, task[t])
         /\ \A x \in Tuple : Waiting(x)' => ~InRange(x, task[t])
<1> USE DEF remoteVars, mainVars, taskVars, connVars, rowVars
<1> DEFINE R == {x \in SeenOn(conn[t], StatementSnapshot(t)) : InRange(x, task[t])}
<1>1. /\ pc[t] = "begin" /\ pc' = [pc EXCEPT ![t] = "read"]
      /\ todo' = [todo EXCEPT ![t] = R]
      /\ UNCHANGED <<chunk, emitted, task, pageIdx>>
  BY DEF BeginCopy
<1>2. R \subseteq Tuple
  BY SnapshotType, SeenType
<1>3. \A x \in R : InRange(x, task[t])
  OBVIOUS
<1> HIDE DEF R
<1>4. todo'[t] = R /\ todo[t] = {} /\ \A u \in Threads \ {t} : todo'[u] = todo[u]
  BY <1>1 DEF TypeOK, RowInv
<1>5. pc'[t] = "read" /\ \A u \in Threads \ {t} : pc'[u] = pc[u]
  BY <1>1 DEF TypeOK
<1>6. ASSUME NEW x \in Tuple
      PROVE  Waiting(x) <=> Waiting(x)' \/ InRange(x, task[t])
  BY <1>1, <1>5 DEF Waiting
<1>7. ASSUME NEW x \in Tuple, Waiting(x)', InRange(x, task[t])
      PROVE  FALSE
  <2>1. PICK u \in Threads : pc'[u] = "begin" /\ InRange(x, task[u])
    BY <1>1, <1>7 DEF Waiting
  <2>2. u # t /\ pc[u] = "begin"
    BY <1>5, <2>1
  <2>3. task[t].hi <= task[u].lo \/ task[u].hi <= task[t].lo
    BY <1>1, <2>2 DEF TaskInv
  <2>4. {x.page, task[t].hi, task[t].lo, task[u].hi, task[u].lo} \subseteq Int
    <3>1. task[t] \in [lo : 0 .. TidMax, hi : 0 .. TidMax] /\ task[u] \in [lo : 0 .. TidMax, hi : 0 .. TidMax]
      BY DEF TypeOK
    <3> QED
      BY <3>1, TuplePage
  <2> QED
    BY <1>7, <2>1, <2>3, <2>4 DEF InRange
<1>8. \A x \in R : x \in Tuple /\ ~Reached(x)
  BY <1>1, <1>2, <1>3 DEF RowInv, Waiting
<1>9. \A x : x \in Delivered' <=> x \in Delivered
  BY <1>1 DEF Delivered
<1>10. Held(t)' = Held(t) \cup R /\ \A u \in Threads \ {t} : Held(u)' = Held(u)
  BY <1>1, <1>4 DEF Held
<1>11. \A x : Reached(x)' <=> Reached(x) \/ x \in R
  BY <1>9, <1>10 DEF Reached
<1>12. ASSUME NEW x \in Tuple, Reached(x)'
       PROVE  x.page < pageIdx' /\ ~Waiting(x)'
  <2>1. CASE Reached(x)
    BY <1>1, <1>6, <2>1 DEF RowInv
  <2>2. CASE x \in R
    <3>1. task[t] \in [lo : 0 .. TidMax, hi : 0 .. TidMax] /\ task[t].hi <= pageIdx
      BY <1>1 DEF TypeOK, TaskInv
    <3>2. x.page < task[t].hi
      BY <1>3, <2>2 DEF InRange
    <3>3. x.page < pageIdx
      BY <3>1, <3>2, TuplePage, BindTyped
    <3> QED
      BY <1>1, <1>3, <1>7, <2>2, <3>3
  <2> QED
    BY <1>11, <1>12, <2>1, <2>2
<1>13. ASSUME NEW u \in Threads
       PROVE  /\ pc'[u] # "read" => todo'[u] = {}
              /\ pc'[u] \notin {"begin", "read", "done"} => chunk'[u] = {}
              /\ todo'[u] \cap chunk'[u] = {}
              /\ Held(u)' \cap Delivered' = {}
              /\ \A w \in Threads : u # w => Held(u)' \cap Held(w)' = {}
  <2>1. \A w \in Threads : R \cap Held(w) = {}
    BY <1>8 DEF Reached
  <2>2. R \cap Delivered = {}
    BY <1>8 DEF Reached
  <2>3. /\ pc'[u] # "read" => todo'[u] = {}
        /\ pc'[u] \notin {"begin", "read", "done"} => chunk'[u] = {}
    BY <1>1, <1>4, <1>5 DEF RowInv
  <2>4. todo'[u] \cap chunk'[u] = {}
    BY <1>1, <1>4, <2>1 DEF RowInv, Held
  <2>5. Held(u)' \cap Delivered' = {}
    BY <1>9, <1>10, <2>2 DEF RowInv
  <2>6. \A w \in Threads : u # w => Held(u)' \cap Held(w)' = {}
    <3>1. \A w \in Threads : u # w => Held(u) \cap Held(w) = {}
      BY DEF RowInv
    <3> QED
      BY <1>10, <2>1, <3>1
  <2> QED
    BY <2>3, <2>4, <2>5, <2>6
<1>14. \A e, f \in emitted' : e.tuple = f.tuple => e = f
  BY <1>1 DEF RowInv
<1>15. RowInv'
  BY <1>12, <1>13, <1>14 DEF RowInv
<1> QED
  BY <1>4, <1>6, <1>7, <1>11, <1>15

LEMMA RowStep ==
  ASSUME TypeOK, ConnectionInv, TaskInv, RowInv, [Next]_vars
  PROVE  RowInv'
<1> USE DEF remoteVars, mainVars, taskVars, connVars, rowVars
<1>1. ASSUME UNCHANGED <<rowVars, taskVars, pc>>
      PROVE  RowInv'
  BY <1>1 DEF RowInv, Held, Reached, Delivered, Waiting
<1>2. CASE MaterializeScan
  <2>1. /\ query = "init" /\ emitted = {} /\ UNCHANGED <<pc, task, todo, chunk>> /\ pageIdx' = TidMax
        /\ \A u \in Threads : pc[u] = "idle" /\ todo[u] = {} /\ chunk[u] = {}
    BY <1>2 DEF MaterializeScan, ConnectionInv, RowInv
  <2>2. PICK t \in Threads, tuples \in {SeenOn("main", ts) : ts \in {clock, mainSnap}} :
          Report(t, {x \in tuples : InRange(x, PageRange(0, TidMax))}, 0)
    BY <1>2 DEF MaterializeScan
  <2>3. \A e, f \in emitted' : e.tuple = f.tuple => e = f
    <3>1. (\A e, f \in emitted : e.tuple = f.tuple => e = f) /\ Delivered = {}
      BY <2>1 DEF Delivered
    <3> QED
      BY <2>2, <3>1, ReportDelivers
  <2>4. \A u \in Threads : Held(u)' = {}
    BY <2>1 DEF Held
  <2>5. \A x \in Tuple : x.page < pageIdx' /\ ~Waiting(x)'
    BY <2>1, TuplePage DEF Waiting
  <2> QED
    BY <2>1, <2>3, <2>4, <2>5 DEF RowInv
<1>3. CASE OtherCommit \/ StartWithoutSnapshot \/ ExportSnapshot \/ ExportSnapshotFails \/ EndQuery
  BY <1>1, <1>3 DEF OtherCommit, StartWithoutSnapshot, ExportSnapshot, ExportSnapshotFails, EndQuery
<1>4. ASSUME NEW t \in Threads, Open(t)
      PROVE  RowInv'
  BY <1>4, ThreadMoves, MovesRow
<1>5. ASSUME NEW t \in Threads, Scan(t)
      PROVE  RowInv'
  <2>1. CASE BeginCopy(t)
    BY <2>1, BeginCopyRow
  <2>2. CASE ThreadFails(t)
    BY <1>1, <2>2 DEF ThreadFails
  <2> QED
    BY <1>5, <2>1, <2>2, ThreadMoves, MovesRow DEF Scan
<1>6. CASE UNCHANGED vars
  BY <1>1, <1>6 DEF vars
<1> QED
  BY <1>2, <1>3, <1>4, <1>5, <1>6 DEF Next, Start

-------------------------------------------------------------------------------
LEMMA CoverageInit == Init => CoverageInv
BY DEF Init, CoverageInv

\* A commit of another client leaves the snapshots that exist alone.
LEMMA CommitKeepsSnapshot ==
  ASSUME TypeOK, OtherCommit, mainSnap # NoSnapshot
  PROVE  SeenOn("main", mainSnap)' = SeenOn("main", mainSnap)
<1>1. mainSnap \in 0 .. clock /\ clock \in Nat /\ mainSnap \in 0 .. MaxClock
  BY ScanAssumption DEF TypeOK
<1>2. table'[mainSnap] = table[mainSnap]
  <2>1. mainSnap # clock + 1
    BY <1>1
  <2> QED
    BY <1>1, <2>1 DEF OtherCommit, TypeOK
<1>3. mainSnap' = mainSnap /\ own' = own
  BY DEF OtherCommit, mainVars
<1> QED
  BY <1>2, <1>3 DEF SeenOn

LEMMA BeginCopyCovers ==
  ASSUME TypeOK, ConnectionInv, SnapshotInv, TaskInv, RowInv, CoverageInv,
         NEW t \in Threads, BeginCopy(t)
  PROVE  CoverageInv'
<1> USE DEF remoteVars, mainVars, taskVars, connVars, rowVars
<1> SUFFICES ASSUME ~ReadCommitted, NEW x \in Tuple, x.page < pageIdx', ~Waiting(x)'
             PROVE  /\ mainSnap' # NoSnapshot
                    /\ x \in SeenOn("main", mainSnap)' <=> Reached(x)'
  BY DEF CoverageInv, ReadCommitted, BeginCopy
<1> DEFINE ts == StatementSnapshot(t)
<1>1. /\ query = "running" /\ pc[t] = "begin" /\ x.page < pageIdx
      /\ conn[t] \in {"main", "pool"} /\ UNCHANGED <<table, own>>
  BY DEF BeginCopy, ConnectionInv, TypeOK, Working
<1>2. todo'[t] = {y \in SeenOn(conn[t], ts) : InRange(y, task[t])}
  BY DEF BeginCopy, TypeOK
<1>3. ts \in 0 .. clock /\ ts # NoSnapshot
  BY SnapshotType DEF TypeOK, NoSnapshot
<1>4. mainSnap' = ts /\ SeenOn(conn[t], ts) = SeenOn("main", ts)
  <2>1. CASE conn[t] = "main"
    BY <2>1 DEF BeginCopy
  <2>2. CASE conn[t] = "pool"
    <3>1. mainSnap # NoSnapshot /\ connSnap[t] = mainSnap /\ bind.readOnly
      BY <1>1, <2>2, BindTyped DEF SnapshotInv, ConnectionInv
    <3>2. own = {}
      BY <3>1 DEF SnapshotInv
    <3> QED
      BY <2>2, <3>1, <3>2 DEF BeginCopy, StatementSnapshot, SeenOn
  <2> QED
    BY <1>1, <2>1, <2>2
<1>5. SeenOn("main", mainSnap)' = SeenOn("main", ts)
  BY <1>1, <1>4 DEF SeenOn
<1>6. CASE InRange(x, task[t])
  <2>1. ~Reached(x)
    BY <1>1, <1>6 DEF RowInv, Waiting
  <2>2. Reached(x)' <=> x \in todo'[t]
    BY <2>1, BeginCopyRow
  <2> QED
    BY <1>2, <1>3, <1>4, <1>5, <1>6, <2>2
<1>7. CASE ~InRange(x, task[t])
  <2>1. ~Waiting(x) /\ x \notin todo'[t]
    BY <1>2, <1>7, BeginCopyRow
  <2>2. Reached(x)' <=> Reached(x)
    BY <2>1, BeginCopyRow
  <2>3. mainSnap # NoSnapshot /\ (x \in SeenOn("main", mainSnap) <=> Reached(x))
    BY <1>1, <2>1 DEF CoverageInv
  <2>4. ts = mainSnap
    BY <1>1, <1>4, <2>3, BindTyped DEF BeginCopy, StatementSnapshot, SnapshotInv, ConnectionInv
  <2> QED
    BY <1>3, <1>4, <1>5, <2>2, <2>3, <2>4
<1> QED
  BY <1>6, <1>7

LEMMA CoverageStep ==
  ASSUME TypeOK, ConnectionInv, SnapshotInv, TaskInv, RowInv, CoverageInv, [Next]_vars
  PROVE  CoverageInv'
<1> USE DEF remoteVars, mainVars, taskVars, connVars, rowVars
<1>1. CASE OtherCommit
  <2> SUFFICES ASSUME ~ReadCommitted, query = "running", NEW x \in Tuple,
                      x.page < pageIdx, ~Waiting(x)
               PROVE  mainSnap # NoSnapshot /\ (x \in SeenOn("main", mainSnap)' <=> Reached(x))
    BY <1>1 DEF OtherCommit, CoverageInv, ReadCommitted, Waiting, Reached, Held, Delivered
  <2>1. mainSnap # NoSnapshot /\ (x \in SeenOn("main", mainSnap) <=> Reached(x))
    BY DEF CoverageInv
  <2> QED
    BY <1>1, <2>1, CommitKeepsSnapshot
<1>2. CASE MaterializeScan \/ EndQuery
  BY <1>2 DEF MaterializeScan, EndQuery, CoverageInv
<1>3. CASE StartWithoutSnapshot \/ ExportSnapshot \/ ExportSnapshotFails
  <2>1. pageIdx' = 0
    BY <1>3 DEF StartWithoutSnapshot, ExportSnapshot, ExportSnapshotFails, ConnectionInv
  <2>2. \A x \in Tuple : ~(x.page < 0)
    BY TuplePage
  <2> QED
    BY <2>1, <2>2 DEF CoverageInv
<1>4. ASSUME NEW t \in Threads, Open(t)
      PROVE  CoverageInv'
  BY <1>4, ThreadMoves, MovesCover
<1>5. ASSUME NEW t \in Threads, Scan(t)
      PROVE  CoverageInv'
  <2>1. CASE BeginCopy(t)
    BY <2>1, BeginCopyCovers
  <2>2. CASE ThreadFails(t)
    BY <2>2 DEF ThreadFails, CoverageInv
  <2> QED
    BY <1>5, <2>1, <2>2, ThreadMoves, MovesCover DEF Scan
<1>6. CASE UNCHANGED vars
  BY <1>6 DEF vars, CoverageInv, ReadCommitted, Waiting, Reached, Held, Delivered, SeenOn
<1> QED
  BY <1>1, <1>2, <1>3, <1>4, <1>5, <1>6 DEF Next, Start

-------------------------------------------------------------------------------
(* The end of the scan.                                                    *)

LEMMA MaterializedIsExact ==
  ASSUME TypeOK, ConnectionInv, MaterializeScan
  PROVE  ScanExact'
<1> DEFINE ts == IF ReadCommitted \/ mainSnap = NoSnapshot THEN clock ELSE mainSnap
           read == {x \in SeenOn("main", ts) : InRange(x, PageRange(0, TidMax))}
<1>1. PICK t \in Threads : Report(t, read, 0)
  BY DEF MaterializeScan
<1>2. emitted = {}
  BY DEF MaterializeScan, ConnectionInv
<1>3. /\ Delivered' = read
      /\ \A e, f \in emitted' : e.tuple = f.tuple => e = f
  BY <1>1, <1>2, ReportDelivers DEF Delivered
<1>4. ts \in 0 .. clock
  BY DEF TypeOK
<1>5. read = SeenOn("main", ts)
  <2>1. \A x \in SeenOn("main", ts) : x \in Tuple
    BY <1>4, SeenType
  <2> QED
    BY <2>1, TuplePage, BindTyped DEF InRange, PageRange
<1>6. ~ReadCommitted => mainSnap' = ts /\ ts # NoSnapshot
  BY <1>4 DEF MaterializeScan, NoSnapshot, TypeOK
<1>7. UNCHANGED <<bind, table, own>>
  BY DEF MaterializeScan, remoteVars
<1>8. ~ReadCommitted => SeenOn("main", mainSnap)' = read
  BY <1>5, <1>6, <1>7 DEF SeenOn
<1> QED
  BY <1>3, <1>6, <1>7, <1>8 DEF ScanExact, ReadCommitted

LEMMA EndIsExact ==
  ASSUME TypeOK, TaskInv, RowInv, CoverageInv, SnapshotInv, EndQuery
  PROVE  ScanExact'
<1> SUFFICES ASSUME ~ReadCommitted
             PROVE  Delivered = SeenOn("main", mainSnap) /\ mainSnap # NoSnapshot
  BY DEF EndQuery, ScanExact, ReadCommitted, Delivered, SeenOn, RowInv, remoteVars, mainVars,
         rowVars
<1>1. \A t \in Threads : todo[t] = {} /\ chunk[t] = {} /\ pc[t] # "begin"
  BY DEF EndQuery, RowInv, Retired
<1>2. pageIdx = TidMax
  BY DEF EndQuery, TaskInv
<1>3. \A x \in Tuple : x.page < pageIdx /\ ~Waiting(x) /\ (Reached(x) <=> x \in Delivered)
  BY <1>1, <1>2, TuplePage DEF Waiting, Reached, Held
<1>4. mainSnap # NoSnapshot /\ \A x \in Tuple : x \in SeenOn("main", mainSnap) <=> x \in Delivered
  BY <1>3 DEF CoverageInv, SnapshotInv, EndQuery
<1>5. mainSnap \in 0 .. clock
  BY <1>4 DEF TypeOK
<1>6. SeenOn("main", mainSnap) \subseteq Tuple /\ Delivered \subseteq Tuple
  BY <1>5, SeenType DEF Delivered, TypeOK
<1> QED
  BY <1>4, <1>6

-------------------------------------------------------------------------------
(* Theorems.                                                               *)

\* The parts of the invariant that need no assumption about the server.
StructureInv == TypeOK /\ ConnectionInv /\ TaskInv /\ RowInv

LEMMA StructureInvariant == Spec => []StructureInv
<1>1. Init => StructureInv
  BY InitType, ConnectionInit, TaskInit, RowInit DEF StructureInv
<1>2. StructureInv /\ [Next]_vars => StructureInv'
  BY NextType, ConnectionStep, TaskStep, RowStep DEF StructureInv
<1> QED
  BY <1>1, <1>2, PTL DEF Spec

\* Two COPYs never run on the transaction's own connection (used_main_thread), for any
\* number of threads.
THEOREM MainConnectionExclusive == Spec => []MainConnectionNotShared
<1>1. StructureInv => MainConnectionNotShared
  BY DEF StructureInv, ConnectionInv, MainConnectionNotShared
<1> QED
  BY <1>1, StructureInvariant, PTL

\* page_idx moves forward only and its addition never wraps around, for any width of
\* idx_t and any pg_pages_per_task (the D_ASSERT of PostgresInitInternal).
THEOREM PageIdxSafe == Spec => PageIdxNeverWraps
<1>1. StructureInv /\ [Next]_vars =>
        [pageIdx < bind.pages => PageMax > pageIdx /\ pageIdx' >= pageIdx]_vars
  <2> SUFFICES ASSUME StructureInv, Next, pageIdx < bind.pages
               PROVE  PageMax > pageIdx /\ pageIdx' >= pageIdx
    OBVIOUS
  <2> USE DEF remoteVars, mainVars, taskVars, connVars, rowVars
  <2>1. TypeOK /\ TaskInv /\ PageMax > pageIdx /\ PageMax \in Nat /\ pageIdx \in 0 .. TidMax
    BY PageMaxFacts, BindTyped DEF StructureInv
  <2>2. pageIdx' \in {pageIdx, PageMax, TidMax}
    <3>1. CASE OtherCommit \/ Start \/ EndQuery
      BY <3>1 DEF OtherCommit, Start, MaterializeScan, StartWithoutSnapshot, ExportSnapshot,
                  ExportSnapshotFails, EndQuery
    <3>2. ASSUME NEW t \in Threads, Open(t) \/ Scan(t)
          PROVE  pageIdx' \in {pageIdx, PageMax, TidMax}
      BY <3>2 DEF Open, UseMainConnection, ForceConnection, OpenConnection, Refused, Connected,
                  Scan, FirstTask, BeginCopy, ReadRow, FinishCopy, NextTask, ReleaseEarly,
                  ThreadFails, PostgresParallelStateNext
    <3> QED
      BY <3>1, <3>2 DEF Next
  <2> QED
    BY <2>1, <2>2, BindTyped
<1> QED
  BY <1>1, StructureInvariant, PTL DEF Spec, PageIdxNeverWraps

LEMMA ScanInvariant ==
  ASSUME Benign
  PROVE  Spec => []ScanInv
<1>1. Init => ScanInv
  BY ConnectionInit, SnapshotInit, TaskInit, RowInit, CoverageInit DEF Init, ScanInv, ScanExact
<1>2. TypeOK /\ ScanInv /\ [Next]_vars => ScanInv'
  <2> SUFFICES ASSUME TypeOK, ScanInv, [Next]_vars PROVE ScanInv'
    OBVIOUS
  <2>1. ConnectionInv' /\ SnapshotInv' /\ TaskInv' /\ RowInv' /\ CoverageInv'
    BY ConnectionStep, SnapshotStep, TaskStep, RowStep, CoverageStep DEF ScanInv
  <2>2. ScanExact'
    <3> USE DEF remoteVars, mainVars, taskVars, connVars, rowVars
    <3>1. CASE MaterializeScan
      BY <3>1, MaterializedIsExact DEF ScanInv, ReadCommitted, MaterializeScan
    <3>2. CASE EndQuery
      BY <3>2, EndIsExact DEF ScanInv, ReadCommitted, EndQuery
    <3>3. CASE OtherCommit
      <4>1. UNCHANGED <<bind, query, mainSnap, emitted>>
        BY <3>3 DEF OtherCommit
      <4>2. mainSnap # NoSnapshot => SeenOn("main", mainSnap)' = SeenOn("main", mainSnap)
        BY <3>3, CommitKeepsSnapshot
      <4> QED
        BY <4>1, <4>2 DEF ScanInv, ScanExact, ReadCommitted, Delivered
    <3>4. CASE StartWithoutSnapshot \/ ExportSnapshot \/ ExportSnapshotFails
      BY <3>4 DEF StartWithoutSnapshot, ExportSnapshot, ExportSnapshotFails, ScanExact
    <3>5. ASSUME NEW t \in Threads, Open(t) \/ Scan(t)
          PROVE  query' # "finished"
      BY <3>5 DEF Open, UseMainConnection, ForceConnection, OpenConnection, Refused, Connected,
                  MayStart, Scan, FirstTask, BeginCopy, ReadRow, FinishCopy, NextTask,
                  ReleaseEarly, ThreadFails
    <3>6. CASE UNCHANGED vars
      BY <3>6 DEF vars, ScanInv, ScanExact, ReadCommitted, Delivered, SeenOn
    <3> QED
      BY <3>1, <3>2, <3>3, <3>4, <3>5, <3>6 DEF Next, Start, ScanExact
  <2> QED
    BY <2>1, <2>2 DEF ScanInv
<1> QED
  BY <1>1, <1>2, TypeCorrect, PTL DEF Spec

\* However many threads and connections share the scan, whatever relpages says and other
\* clients commit: above READ COMMITTED it returns exactly what one COPY on the
\* transaction's own connection would, each tuple once.
THEOREM ScanIsExact ==
  ASSUME Benign
  PROVE  Spec => []ScanExact
<1>1. ScanInv => ScanExact
  BY DEF ScanInv
<1> QED
  BY <1>1, ScanInvariant, PTL

\* Above READ COMMITTED every COPY on a pool connection reads at the snapshot of the
\* transaction's own connection.
THEOREM ReadersArePinned ==
  ASSUME Benign
  PROVE  Spec => []ReadersPinned
<1>1. ScanInv => ReadersPinned
  BY DEF ScanInv, SnapshotInv, ReadersPinned
<1> QED
  BY <1>1, ScanInvariant, PTL

\* No tuple is handed to DuckDB twice, at any isolation level.
THEOREM NoTupleTwice == Spec => [](\A e, f \in emitted : e.tuple = f.tuple => e = f)
<1>1. StructureInv => \A e, f \in emitted : e.tuple = f.tuple => e = f
  BY DEF StructureInv, RowInv
<1> QED
  BY <1>1, StructureInvariant, PTL
-------------------------------------------------------------------------------
(* Batch indexes.                                                          *)

Owning == {"begin", "read", "done"}

\* A thread takes a batch index that nobody has, and keeps it until it takes the next.
\* Without a page count no index is taken before the first COPY, but one thread scans alone.
BatchInv ==
  /\ BatchHasOneThread
  /\ query = "running" =>
       /\ \A e \in emitted : pc[e.thread] # "idle"
       /\ bind.pages # 0 =>
            /\ \A e \in emitted : e.batch < batchIdx
            /\ \A t \in Threads : pc[t] \in Owning =>
                 /\ batch[t] < batchIdx
                 /\ \A u \in Threads \ {t} : pc[u] \in Owning => batch[u] # batch[t]
                 /\ \A e \in emitted : e.batch = batch[t] => e.thread = t

\* What a chunk adds to the rows returned.
LEMMA ReportBatch ==
  ASSUME NEW t, NEW tuples, NEW b, Report(t, tuples, b), NEW e \in emitted'
  PROVE  e \in emitted \/ (e.thread = t /\ e.batch = b)
BY DEF Report

LEMMA ReportOneThread ==
  ASSUME TypeOK, ConnectionInv, BatchInv, query = "running",
         NEW t \in Threads, pc[t] # "idle", NEW tuples, NEW b, Report(t, tuples, b),
         bind.pages # 0 => \A e \in emitted : e.batch = b => e.thread = t
  PROVE  BatchHasOneThread'
<1>1. \A e \in emitted : e.batch = b => e.thread = t
  <2>1. CASE bind.pages = 0
    <3>1. \A e \in emitted : e.thread \in Threads /\ pc[e.thread] # "idle"
      BY DEF BatchInv, TypeOK
    <3>2. bind.maxThreads <= 1
      BY <2>1, BindTyped
    <3> QED
      BY <3>1, <3>2 DEF ConnectionInv
  <2>2. CASE bind.pages # 0
    BY <2>2
  <2> QED
    BY <2>1, <2>2
<1> SUFFICES ASSUME NEW e \in emitted', NEW f \in emitted', e.batch = f.batch
             PROVE  e.thread = f.thread
  BY DEF BatchHasOneThread
<1>2. e \in emitted \/ (e.thread = t /\ e.batch = b)
  BY ReportBatch
<1>3. f \in emitted \/ (f.thread = t /\ f.batch = b)
  BY ReportBatch
<1> QED
  BY <1>1, <1>2, <1>3 DEF BatchInv, BatchHasOneThread

LEMMA BatchInit == Init => BatchInv
BY DEF Init, BatchInv, BatchHasOneThread

\* A chunk of a running COPY is returned under the thread's own index.
LEMMA ReadBatch ==
  ASSUME TypeOK, ConnectionInv, BatchInv, NEW t \in Threads, ReadRow(t)
  PROVE  BatchInv'
<1> USE DEF remoteVars, mainVars, taskVars, connVars, rowVars
<1>1. query = "running" /\ pc[t] = "read" /\ UNCHANGED <<query, bind, pc, batch, batchIdx>>
  BY DEF ReadRow
<1>2. CASE UNCHANGED emitted
  BY <1>1, <1>2 DEF BatchInv, BatchHasOneThread
<1>3. ASSUME NEW tuples, Report(t, tuples, batch[t])
      PROVE  BatchInv'
  <2>1. bind.pages # 0 => batch[t] < batchIdx /\ \A e \in emitted : e.batch = batch[t] => e.thread = t
    BY <1>1 DEF BatchInv, Owning
  <2>2. BatchHasOneThread'
    BY <1>1, <1>3, <2>1, ReportOneThread
  <2>3. \A e \in emitted' : e \in emitted \/ (e.thread = t /\ e.batch = batch[t])
    BY <1>3, ReportBatch
  <2> QED
    BY <1>1, <2>1, <2>2, <2>3 DEF BatchInv, Owning
<1> QED
  BY <1>2, <1>3 DEF ReadRow

\* PostgresParallelStateNext: a chunk without further task goes out under the index just taken.
LEMMA NextBatch ==
  ASSUME TypeOK, ConnectionInv, BatchInv, query = "running", bind.pages # 0,
         NEW t \in Threads, pc[t] \in {"connected", "done"},
         NEW otherwise, PostgresParallelStateNext(t, otherwise),
         UNCHANGED emitted \/ (otherwise \notin Owning /\ pageIdx >= bind.pages
                               /\ Report(t, chunk[t], batchIdx)),
         otherwise # "idle", UNCHANGED <<query, bind>>
  PROVE  BatchInv'
<1>1. /\ batchIdx \in Nat /\ batchIdx' = batchIdx + 1 /\ batch'[t] = batchIdx
      /\ \A u \in Threads : batch[u] \in Nat
      /\ \A u \in Threads \ {t} : batch'[u] = batch[u] /\ pc'[u] = pc[u]
      /\ pc'[t] # "idle"
  BY DEF PostgresParallelStateNext, TypeOK
<1>2. /\ \A e \in emitted : e.batch < batchIdx /\ e.batch \in Nat /\ e.thread \in Threads
      /\ \A u \in Threads : pc[u] \in Owning =>
           /\ batch[u] < batchIdx
           /\ \A w \in Threads \ {u} : pc[w] \in Owning => batch[w] # batch[u]
           /\ \A e \in emitted : e.batch = batch[u] => e.thread = u
  BY DEF BatchInv, TypeOK
<1>3. \A e \in emitted : pc'[e.thread] # "idle"
  <2>1. \A e \in emitted : pc[e.thread] # "idle"
    BY DEF BatchInv
  <2> QED
    BY <1>1, <1>2, <2>1
<1>4. CASE UNCHANGED emitted
  BY <1>1, <1>2, <1>3, <1>4 DEF BatchInv, BatchHasOneThread
<1>5. CASE otherwise \notin Owning /\ pageIdx >= bind.pages /\ Report(t, chunk[t], batchIdx)
  <2>1. pc'[t] \notin Owning
    <3>1. ~(pageIdx < bind.pages)
      BY <1>5, BindTyped
    <3> QED
      BY <1>5, <3>1 DEF PostgresParallelStateNext, TypeOK
  <2>2. \A e \in emitted' : e \in emitted \/ (e.thread = t /\ e.batch = batchIdx)
    BY <1>5, ReportBatch
  <2>3. \A e \in emitted : e.batch # batchIdx
    BY <1>1, <1>2
  <2>4. BatchHasOneThread'
    BY <1>5, <2>3, ReportOneThread
  <2>5. \A e \in emitted' : pc'[e.thread] # "idle" /\ e.batch < batchIdx'
    BY <1>1, <1>2, <1>3, <2>2
  <2>6. ASSUME NEW u \in Threads, pc'[u] \in Owning
        PROVE  /\ batch'[u] < batchIdx'
               /\ \A w \in Threads \ {u} : pc'[w] \in Owning => batch'[w] # batch'[u]
               /\ \A e \in emitted' : e.batch = batch'[u] => e.thread = u
    <3>1. u # t /\ pc[u] \in Owning /\ batch'[u] = batch[u]
      BY <1>1, <2>1, <2>6
    <3>2. batch[u] < batchIdx /\ batch[u] \in Nat
      BY <1>1, <1>2, <3>1
    <3> QED
      BY <1>1, <1>2, <2>1, <2>2, <3>1, <3>2
  <2> QED
    BY <2>4, <2>5, <2>6 DEF BatchInv
<1> QED
  BY <1>4, <1>5

LEMMA BatchStep ==
  ASSUME TypeOK, ConnectionInv, BatchInv, [Next]_vars
  PROVE  BatchInv'
<1> USE DEF remoteVars, mainVars, taskVars, connVars, rowVars
<1>1. CASE OtherCommit \/ EndQuery
  BY <1>1 DEF OtherCommit, EndQuery, BatchInv, BatchHasOneThread
<1>2. CASE MaterializeScan
  <2>1. PICK t \in Threads, tuples \in {SeenOn("main", ts) : ts \in {clock, mainSnap}} :
          Report(t, {x \in tuples : InRange(x, PageRange(0, TidMax))}, 0)
    BY <1>2 DEF MaterializeScan
  <2>2. emitted = {} /\ query' # "running"
    BY <1>2 DEF MaterializeScan, ConnectionInv
  <2> QED
    BY <2>1, <2>2, ReportBatch DEF BatchInv, BatchHasOneThread
<1>3. CASE StartWithoutSnapshot \/ ExportSnapshot \/ ExportSnapshotFails
  <2>1. /\ emitted' = {} /\ \A t \in Threads : pc'[t] = "idle"
    BY <1>3 DEF StartWithoutSnapshot, ExportSnapshot, ExportSnapshotFails, ConnectionInv
  <2> QED
    BY <2>1 DEF BatchInv, BatchHasOneThread, Owning
<1>4. ASSUME NEW t \in Threads, NEW label, pc' = [pc EXCEPT ![t] = label], label # "idle",
             label \in Owning => pc[t] \in Owning \/ bind.pages = 0,
             UNCHANGED <<query, bind, emitted, batch, batchIdx>>
      PROVE  BatchInv'
  <2>1. \A e \in emitted : e.thread \in Threads
    BY DEF TypeOK
  <2>2. pc'[t] = label /\ \A u \in Threads \ {t} : pc'[u] = pc[u]
    BY <1>4 DEF TypeOK
  <2>3. BatchHasOneThread'
    BY <1>4 DEF BatchInv, BatchHasOneThread
  <2>4. bind.pages # 0 => \A u \in Threads : pc'[u] \in Owning => pc[u] \in Owning
    BY <1>4, <2>2
  <2> QED
    BY <1>4, <2>1, <2>2, <2>3, <2>4 DEF BatchInv
<1>5. ASSUME NEW t \in Threads, Open(t)
      PROVE  BatchInv'
  BY <1>4, <1>5
  DEF Open, UseMainConnection, ForceConnection, OpenConnection, Refused, Connected, Owning
<1>6. ASSUME NEW t \in Threads, Scan(t)
      PROVE  BatchInv'
  <2>1. CASE FirstTask(t)
    <3>1. CASE bind.pages = 0
      BY <1>4, <2>1, <3>1 DEF FirstTask
    <3>2. CASE bind.pages # 0
      BY <2>1, <3>2, NextBatch DEF FirstTask
    <3> QED
      BY <3>1, <3>2
  <2>2. CASE BeginCopy(t) \/ FinishCopy(t) \/ ReleaseEarly(t)
    BY <1>4, <2>2 DEF BeginCopy, FinishCopy, ReleaseEarly, Owning
  <2>3. CASE ReadRow(t)
    BY <2>3, ReadBatch
  <2>4. CASE NextTask(t)
    <3> DEFINE label == IF chunk[t] = {} THEN "exhausted" ELSE "no_connection"
    <3>1. /\ query = "running" /\ pc[t] = "done" /\ PostgresParallelStateNext(t, label)
          /\ UNCHANGED <<query, bind>>
          /\ IF pageIdx < bind.pages THEN UNCHANGED emitted ELSE Report(t, chunk[t], batchIdx)
      BY <2>4 DEF NextTask
    <3>2. label \notin Owning /\ label # "idle"
      BY DEF Owning
    <3> HIDE DEF label
    <3>3. CASE bind.pages # 0
      BY <3>1, <3>2, <3>3, BindTyped, NextBatch
    <3>4. CASE bind.pages = 0
      <4>1. Report(t, chunk[t], batchIdx) /\ pc' = [pc EXCEPT ![t] = label]
        BY <3>1, <3>4, BindTyped DEF PostgresParallelStateNext
      <4>2. BatchHasOneThread'
        BY <3>1, <3>4, <4>1, ReportOneThread
      <4>3. \A e \in emitted' : pc'[e.thread] # "idle"
        <5>1. \A e \in emitted : e.thread \in Threads /\ pc[e.thread] # "idle"
          BY <3>1 DEF BatchInv, TypeOK
        <5>2. \A e \in emitted' : e \in emitted \/ e.thread = t
          BY <4>1, ReportBatch
        <5> QED
          BY <3>2, <4>1, <5>1, <5>2 DEF TypeOK
      <4> QED
        BY <3>1, <3>4, <4>2, <4>3 DEF BatchInv
    <3> QED
      BY <3>3, <3>4
  <2>5. CASE ThreadFails(t)
    BY <2>5 DEF ThreadFails, BatchInv, BatchHasOneThread
  <2> QED
    BY <1>6, <2>1, <2>2, <2>3, <2>4, <2>5 DEF Scan
<1>7. CASE UNCHANGED vars
  BY <1>7 DEF vars, BatchInv, BatchHasOneThread
<1> QED
  BY <1>1, <1>2, <1>3, <1>5, <1>6, <1>7 DEF Next, Start

\* The rows DuckDB receives under one batch index come from one thread, for any number of
\* threads and tasks (PostgresGetPartitionData, batch_idx of PostgresGlobalState).
THEOREM BatchesHaveOneThread == Spec => []BatchHasOneThread
<1>1. BatchInv => BatchHasOneThread
  BY DEF BatchInv
<1>2. TypeOK /\ ConnectionInv /\ BatchInv /\ [Next]_vars => BatchInv'
  BY BatchStep
<1>3. StructureInv => TypeOK /\ ConnectionInv
  BY DEF StructureInv
<1> QED
  BY <1>1, <1>2, <1>3, BatchInit, StructureInvariant, PTL DEF Spec
-------------------------------------------------------------------------------
(* Scans of one COPY.                                                      *)

IsOneCopy == bind.pages <= bind.perTask

\* Such a scan has one thread (SetTablePages, however the plan was optimized).
LEMMA OneCopyAlone ==
  ASSUME TypeOK, IsOneCopy
  PROVE  bind.maxThreads <= 1
<1>1. PICK pages \in PagesChoices, perTask \in PerTaskChoices, readOnly \in BOOLEAN,
           level \in IsolationChoices, attached \in BOOLEAN,
           plan \in {"alone", "multiple", "dml"} :
             bind = Bind(pages, perTask, readOnly, level, attached, plan)
  BY DEF TypeOK, Binds
<1>2. pages \in Nat /\ perTask \in Nat \ {0} /\ pages <= perTask
  BY <1>1, ScanAssumption DEF Bind, IsOneCopy
<1>3. pages \div perTask <= 1
  BY <1>2
<1>4. SetTablePages(pages, perTask, readOnly) <= 1
  BY <1>2, <1>3 DEF SetTablePages, BoundBy
<1> QED
  BY <1>1, <1>4 DEF Bind

\* Its only range is the whole table, and what has been returned or is held comes from what
\* one statement on the transaction's connection has seen.
Exact(ts) == \A x \in Tuple : Reached(x) <=> x \in SeenOn("main", ts)

OneCopyInv ==
  query = "running" /\ IsOneCopy =>
    /\ pageIdx \in {0, TidMax}
    /\ \A t \in Threads :
         /\ pc[t] = "begin" => task[t] = PageRange(0, TidMax)
         /\ pc[t] \in {"read", "done", "no_connection", "exhausted", "released"} =>
              \E ts \in 0 .. clock : Exact(ts)

\* What a snapshot shows does not change.
LEMMA SeenKept ==
  ASSUME TypeOK, [Next]_vars, NEW ts \in 0 .. clock
  PROVE  ts \in 0 .. clock' /\ SeenOn("main", ts)' = SeenOn("main", ts)
<1> USE DEF remoteVars, mainVars, taskVars, connVars, rowVars
<1>1. CASE OtherCommit
  <2>1. clock \in Nat /\ clock + 1 \in 0 .. MaxClock /\ ts \in 0 .. MaxClock /\ ts # clock + 1
    BY <1>1, ScanAssumption DEF OtherCommit, TypeOK
  <2>2. table'[ts] = table[ts]
    BY <1>1, <2>1 DEF OtherCommit, TypeOK
  <2> QED
    BY <1>1, <2>1, <2>2 DEF OtherCommit, SeenOn
<1>2. ASSUME UNCHANGED remoteVars
      PROVE  ts \in 0 .. clock' /\ SeenOn("main", ts)' = SeenOn("main", ts)
  BY <1>2 DEF SeenOn
<1>3. CASE Start \/ EndQuery
  BY <1>2, <1>3
  DEF Start, MaterializeScan, StartWithoutSnapshot, ExportSnapshot, ExportSnapshotFails, EndQuery
<1>4. ASSUME NEW t \in Threads, Open(t) \/ Scan(t)
      PROVE  UNCHANGED remoteVars
  BY <1>4 DEF Open, UseMainConnection, ForceConnection, OpenConnection, Refused, Connected,
              Scan, FirstTask, BeginCopy, ReadRow, FinishCopy, NextTask, ReleaseEarly, ThreadFails
<1> QED
  BY <1>1, <1>2, <1>3, <1>4 DEF Next, vars

\* A step that moves no row keeps what is exact.
LEMMA ExactKept ==
  ASSUME TypeOK, [Next]_vars, \A x \in Tuple : Reached(x)' <=> Reached(x),
         \E ts \in 0 .. clock : Exact(ts)
  PROVE  (\E ts \in 0 .. clock : Exact(ts))'
<1>1. PICK ts \in 0 .. clock : Exact(ts)
  OBVIOUS
<1>2. ts \in 0 .. clock' /\ SeenOn("main", ts)' = SeenOn("main", ts)
  BY SeenKept
<1>3. Exact(ts)'
  BY <1>1, <1>2 DEF Exact
<1> QED
  BY <1>2, <1>3

LEMMA WholeTable ==
  ASSUME TypeOK, NEW x \in Tuple
  PROVE  InRange(x, PageRange(0, TidMax))
BY TuplePage, BindTyped DEF InRange, PageRange

\* The COPY of the one range reads all that its statement sees.
LEMMA OneCopyBegins ==
  ASSUME TypeOK, ConnectionInv, TaskInv, RowInv, OneCopyInv, IsOneCopy,
         NEW t \in Threads, BeginCopy(t)
  PROVE  (\E ts \in 0 .. clock : Exact(ts))'
<1>1. PICK ts \in 0 .. clock : ts = StatementSnapshot(t)
  BY SnapshotType
<1>2. query = "running" /\ pc[t] = "begin" /\ conn[t] \in {"main", "pool"}
      /\ task[t] = PageRange(0, TidMax) /\ UNCHANGED <<clock, table, own>>
  BY DEF BeginCopy, OneCopyInv, ConnectionInv, TypeOK, Working, remoteVars
<1>3. conn[t] = "main"
  BY <1>2, OneCopyAlone, BindTyped DEF ConnectionInv
<1>4. todo'[t] = {x \in SeenOn("main", ts) : InRange(x, PageRange(0, TidMax))}
  BY <1>1, <1>2, <1>3 DEF BeginCopy, TypeOK
<1>5. SeenOn("main", ts) \subseteq Tuple
  BY SeenType
<1>6. todo'[t] = SeenOn("main", ts)
  BY <1>4, <1>5, WholeTable
<1>7. \A x \in Tuple : ~Reached(x)
  BY <1>2, WholeTable DEF RowInv, Waiting
<1>8. \A x \in Tuple : Reached(x)' <=> x \in todo'[t]
  BY <1>7, BeginCopyRow
<1>9. SeenOn("main", ts)' = SeenOn("main", ts)
  BY <1>2 DEF SeenOn
<1>10. Exact(ts)'
  BY <1>6, <1>8, <1>9 DEF Exact
<1> QED
  BY <1>2, <1>10

LEMMA OneCopyStep ==
  ASSUME TypeOK, ConnectionInv, TaskInv, RowInv, OneCopyInv, [Next]_vars
  PROVE  OneCopyInv'
<1> USE DEF remoteVars, mainVars, taskVars, connVars, rowVars
<1>1. CASE MaterializeScan \/ EndQuery
  BY <1>1 DEF MaterializeScan, EndQuery, OneCopyInv
<1>2. CASE StartWithoutSnapshot \/ ExportSnapshot \/ ExportSnapshotFails
  <2>1. pageIdx' = 0 /\ \A t \in Threads : pc'[t] = "idle"
    BY <1>2 DEF StartWithoutSnapshot, ExportSnapshot, ExportSnapshotFails, ConnectionInv
  <2> QED
    BY <2>1 DEF OneCopyInv
<1>3. CASE OtherCommit \/ UNCHANGED vars
  <2>1. UNCHANGED <<bind, query, pc, task, pageIdx, rowVars>>
    BY <1>3 DEF OtherCommit, vars
  <2>2. \A x \in Tuple : Reached(x)' <=> Reached(x)
    BY <2>1 DEF Reached, Held, Delivered
  <2> QED
    BY <2>1, <2>2, ExactKept DEF OneCopyInv, IsOneCopy
<1>4. ASSUME NEW t \in Threads, Open(t) \/ Scan(t), query' = "running", IsOneCopy'
      PROVE  OneCopyInv'
  <2>1. UNCHANGED <<query, bind>>
    BY <1>4 DEF Open, UseMainConnection, ForceConnection, OpenConnection, Refused, Connected,
                Scan, FirstTask, BeginCopy, ReadRow, FinishCopy, NextTask, ReleaseEarly, ThreadFails
  <2>2. query = "running" /\ IsOneCopy /\ bind.maxThreads <= 1 /\ pageIdx \in {0, TidMax}
    BY <1>4, <2>1, OneCopyAlone DEF IsOneCopy, OneCopyInv
  <2>3. pc'[t] # "idle" /\ \A u \in Threads \ {t} : pc'[u] = "idle"
    <3>1. \A u \in Threads \ {t} : pc[u] = "idle"
      <4>1. CASE Open(t)
        BY <2>2, <4>1, StartAlone
        DEF Open, UseMainConnection, ForceConnection, OpenConnection, Refused
      <4>2. CASE pc[t] # "idle"
        BY <2>2, <4>2 DEF ConnectionInv
      <4>3. Scan(t) => pc[t] # "idle"
        BY DEF Scan, FirstTask, BeginCopy, ReadRow, FinishCopy, NextTask, ReleaseEarly, ThreadFails,
               Working
      <4> QED
        BY <1>4, <4>1, <4>2, <4>3
    <3>2. pc' = pc \/ \E label : label # "idle" /\ pc' = [pc EXCEPT ![t] = label]
      BY <1>4 DEF Open, UseMainConnection, ForceConnection, OpenConnection, Refused, Connected,
                  Scan, FirstTask, BeginCopy, ReadRow, FinishCopy, NextTask, ReleaseEarly,
                  ThreadFails, PostgresParallelStateNext
    <3>3. pc'[t] # "idle"
      <4>1. pc' = pc => pc[t] # "idle"
        BY <1>4 DEF Open, UseMainConnection, ForceConnection, OpenConnection, Refused, Connected,
                    Scan, FirstTask, BeginCopy, ReadRow, FinishCopy, NextTask, ReleaseEarly,
                    ThreadFails, MayStart, TypeOK, Working
      <4> QED
        BY <3>2, <4>1 DEF TypeOK
    <3> QED
      BY <3>1, <3>2, <3>3 DEF TypeOK
  <2>4. CASE BeginCopy(t)
    <3>1. (\E ts \in 0 .. clock : Exact(ts))'
      BY <2>2, <2>4, OneCopyBegins
    <3>2. pc'[t] = "read" /\ pageIdx' = pageIdx
      BY <2>4 DEF BeginCopy, TypeOK
    <3> QED
      BY <2>2, <2>3, <3>1, <3>2 DEF OneCopyInv
  <2>5. CASE ~BeginCopy(t)
    <3>1. Moves(t)
      BY <1>4, <2>1, <2>2, <2>5, ThreadMoves DEF Scan, ThreadFails
    <3>2. \A x \in Tuple : Reached(x)' <=> Reached(x)
      BY <3>1, MovesReached
    <3>3. pc'[t] \in {"read", "done", "no_connection", "exhausted", "released"} =>
            pc[t] \in {"read", "done", "no_connection", "exhausted", "released"}
      <4>1. CASE FirstTask(t)
        <5>1. pageIdx = 0
          BY <2>2, <4>1 DEF FirstTask, TaskInv
        <5>2. pc'[t] = "begin"
          BY <4>1, <5>1, BindTyped DEF FirstTask, PostgresParallelStateNext, TypeOK
        <5> QED
          BY <5>2
      <4>2. CASE ~FirstTask(t)
        BY <1>4, <2>2, <2>5, <4>2
        DEF Open, UseMainConnection, ForceConnection, OpenConnection, Refused, Connected,
            Scan, ReadRow, FinishCopy, NextTask, ReleaseEarly, ThreadFails, TypeOK
      <4> QED
        BY <4>1, <4>2
    <3>4. /\ pageIdx' \in {0, TidMax}
          /\ pc'[t] = "begin" => task'[t] = PageRange(0, TidMax)
      <4>1. CASE FirstTask(t) \/ NextTask(t)
        <5>1. CASE pageIdx < bind.pages
          <6>1. pageIdx = 0
            BY <2>2, <5>1, BindTyped
          <6>2. PageMax = TidMax
            <7>1. Add(pageIdx, bind.perTask) = bind.perTask
              BY <6>1, BindTyped DEF Add
            <7> QED
              BY <2>2, <7>1, BindTyped DEF PageMax, IsOneCopy
          <6>3. bind.pages # 0
            BY <5>1, <6>1, BindTyped
          <6> QED
            BY <4>1, <5>1, <6>1, <6>2, <6>3
            DEF FirstTask, NextTask, PostgresParallelStateNext, TypeOK
        <5>2. CASE ~(pageIdx < bind.pages)
          <6>1. CASE FirstTask(t) /\ bind.pages = 0
            BY <6>1 DEF FirstTask, TypeOK
          <6>2. CASE ~(FirstTask(t) /\ bind.pages = 0)
            BY <2>2, <4>1, <5>2, <6>2
            DEF FirstTask, NextTask, PostgresParallelStateNext, TypeOK
          <6> QED
            BY <6>1, <6>2
        <5> QED
          BY <5>1, <5>2
      <4>2. CASE ~(FirstTask(t) \/ NextTask(t))
        BY <1>4, <2>2, <2>5, <4>2
        DEF Open, UseMainConnection, ForceConnection, OpenConnection, Refused, Connected,
            Scan, ReadRow, FinishCopy, ReleaseEarly, ThreadFails, TypeOK
      <4> QED
        BY <4>1, <4>2
    <3>5. ASSUME pc'[t] \in {"read", "done", "no_connection", "exhausted", "released"}
          PROVE  (\E ts \in 0 .. clock : Exact(ts))'
      <4>1. \E ts \in 0 .. clock : Exact(ts)
        BY <2>2, <3>3, <3>5 DEF OneCopyInv
      <4> QED
        BY <3>2, <4>1, ExactKept
    <3> QED
      BY <2>3, <3>4, <3>5 DEF OneCopyInv
  <2> QED
    BY <2>4, <2>5
<1> QED
  BY <1>1, <1>2, <1>3, <1>4 DEF Next, Start, OneCopyInv

\* A materialized scan reads all at once.
LEMMA MaterializedOneCopy ==
  ASSUME TypeOK, ConnectionInv, MaterializeScan
  PROVE  OneCopyExact'
<1>1. PICK ts \in 0 .. clock : ts = IF ReadCommitted \/ mainSnap = NoSnapshot
                                    THEN clock ELSE mainSnap
  BY DEF TypeOK
<1> DEFINE read == {x \in SeenOn("main", ts) : InRange(x, PageRange(0, TidMax))}
<1>2. PICK t \in Threads : Report(t, read, 0)
  BY <1>1 DEF MaterializeScan
<1>3. emitted = {} /\ UNCHANGED <<clock, table, own>>
  BY DEF MaterializeScan, ConnectionInv, remoteVars
<1>4. /\ Delivered' = read
      /\ \A e, f \in emitted' : e.tuple = f.tuple => e = f
  BY <1>2, <1>3, ReportDelivers DEF Delivered
<1>5. read = SeenOn("main", ts)
  BY SeenType, WholeTable
<1>6. SeenOn("main", ts)' = SeenOn("main", ts)
  BY <1>3 DEF SeenOn
<1> QED
  BY <1>3, <1>4, <1>5, <1>6 DEF OneCopyExact

LEMMA OneCopyEnds ==
  ASSUME TypeOK, ConnectionInv, RowInv, OneCopyInv, EndQuery
  PROVE  OneCopyExact'
<1> SUFFICES ASSUME IsOneCopy
             PROVE  \E ts \in 0 .. clock : Delivered = SeenOn("main", ts)
  BY DEF EndQuery, OneCopyExact, ConnectionInv, IsOneCopy, Delivered, SeenOn, RowInv, remoteVars,
         rowVars
<1>1. \A t \in Threads : Held(t) = {}
  BY DEF EndQuery, RowInv, Retired, Held
<1>2. PICK ts \in 0 .. clock : Exact(ts)
  BY DEF EndQuery, OneCopyInv
<1>3. \A x : Reached(x) <=> x \in Delivered
  BY <1>1 DEF Reached
<1>4. Delivered \subseteq Tuple /\ SeenOn("main", ts) \subseteq Tuple
  BY SeenType DEF Delivered, TypeOK
<1>5. Delivered = SeenOn("main", ts)
  BY <1>2, <1>3, <1>4 DEF Exact
<1> QED
  BY <1>5

LEMMA OneCopyExactStep ==
  ASSUME TypeOK, ConnectionInv, TaskInv, RowInv, OneCopyInv, OneCopyExact, [Next]_vars
  PROVE  OneCopyExact'
<1> USE DEF remoteVars, mainVars, taskVars, connVars, rowVars
<1>1. CASE MaterializeScan
  BY <1>1, MaterializedOneCopy
<1>2. CASE EndQuery
  BY <1>2, OneCopyEnds
<1>3. CASE OtherCommit \/ UNCHANGED vars
  <2> SUFFICES ASSUME query = "finished", bind.materialize \/ bind.pages <= bind.perTask
               PROVE  /\ (\E ts \in 0 .. clock : Delivered = SeenOn("main", ts))'
                      /\ \A e, f \in emitted' : e.tuple = f.tuple => e = f
    BY <1>3 DEF OtherCommit, vars, OneCopyExact
  <2>1. PICK ts \in 0 .. clock : Delivered = SeenOn("main", ts)
    BY DEF OneCopyExact
  <2>2. UNCHANGED emitted
    BY <1>3 DEF OtherCommit, vars
  <2>3. ts \in 0 .. clock' /\ SeenOn("main", ts)' = SeenOn("main", ts)
    BY SeenKept
  <2>4. Delivered' = SeenOn("main", ts)'
    BY <2>1, <2>2, <2>3 DEF Delivered
  <2> QED
    BY <2>2, <2>3, <2>4 DEF OneCopyExact
<1>4. CASE StartWithoutSnapshot \/ ExportSnapshot \/ ExportSnapshotFails
  BY <1>4 DEF StartWithoutSnapshot, ExportSnapshot, ExportSnapshotFails, OneCopyExact
<1>5. ASSUME NEW t \in Threads, Open(t) \/ Scan(t)
      PROVE  query' # "finished"
  BY <1>5 DEF Open, UseMainConnection, ForceConnection, OpenConnection, Refused, Connected,
              MayStart, Scan, FirstTask, BeginCopy, ReadRow, FinishCopy, NextTask,
              ReleaseEarly, ThreadFails
<1> QED
  BY <1>1, <1>2, <1>3, <1>4, <1>5 DEF Next, Start, OneCopyExact

\* A scan of one COPY returns what the table and the transaction's own rows were at one
\* instant, each tuple once, also at READ COMMITTED, and whatever the server answers when a
\* snapshot is exported (PostgresInitGlobalState, PostgresParallelStateNext).
THEOREM OneCopyIsExact == Spec => []OneCopyExact
<1>1. Init => OneCopyInv /\ OneCopyExact
  BY DEF Init, OneCopyInv, OneCopyExact
<1>2. StructureInv /\ OneCopyInv /\ OneCopyExact /\ [Next]_vars
        => OneCopyInv' /\ OneCopyExact'
  BY OneCopyStep, OneCopyExactStep DEF StructureInv
<1> QED
  BY <1>1, <1>2, StructureInvariant, PTL DEF Spec
===============================================================================

----------------------------- MODULE ParallelScan -----------------------------
(***************************************************************************)
(* One scan of a PostgreSQL table, as postgres_scanner.cpp runs it: the    *)
(* optimizer's choice of how to scan, the exported snapshot, the connection*)
(* each DuckDB thread reads on, and the hand-out of page ranges ("tasks")  *)
(* under the lock of PostgresGlobalState.                                  *)
(*                                                                         *)
(* What the server holds is kept as one set of tuples per commit time, so  *)
(* that a snapshot is a number; other clients keep committing while the    *)
(* scan runs, and the scanning transaction may have rows of its own that   *)
(* only its own connection sees.                                           *)
(***************************************************************************)
EXTENDS Integers, FiniteSets

CONSTANTS
  Threads,          \* DuckDB threads that may take part in the scan
  Rows,             \* rows other clients insert, move and delete
  OwnRows,          \* rows the scanning transaction may have inserted itself
  HeapPages,        \* pages a tuple can be on
  PagesChoices,     \* values of pages_approx (relpages, 0 = no ctid scan)
  PerTaskChoices,   \* values of pages_per_task
  IsolationChoices, \* attached isolation levels, of "read_committed", "repeatable_read"
  TidMax,           \* POSTGRES_TID_MAX
  Word,             \* bound: idx_t arithmetic is modulo Word (2^64 in the build)
  VectorSize,       \* bound: STANDARD_VECTOR_SIZE
  MaxClock,         \* bound: commits of other clients while the scan runs
  ExportMayFail,    \* the server may reject pg_export_snapshot()
  ExecuteWrites     \* the transaction may have written through postgres_execute

ASSUME ScanAssumption ==
  /\ Word \in Nat /\ TidMax \in Nat \ {0} /\ VectorSize \in Nat \ {0} /\ MaxClock \in Nat
  /\ PagesChoices \subseteq 0 .. TidMax         \* relpages is an int4, TidMax is 2^32 - 1
  /\ PerTaskChoices \subseteq 1 .. Word - 1     \* PrepareBind replaces 0 by the default
  /\ HeapPages \subseteq 0 .. TidMax - 1
  /\ 2 * TidMax < Word
  /\ IsolationChoices \subseteq {"read_committed", "repeatable_read"}
  /\ ExportMayFail \in BOOLEAN /\ ExecuteWrites \in BOOLEAN
  /\ Rows \cap OwnRows = {}
  /\ IsFiniteSet(Threads)

VARIABLES
  clock,          \* last commit time of the remote database
  table,          \* table[ts]: the tuples committed at time ts
  own,            \* tuples the scanning transaction has inserted and not committed
  bind,           \* the PostgresBindData of the scan, fixed once it is planned
  query,          \* "init", "running", "finished" or "failed"
  mainSnap,       \* snapshot of the transaction's own connection
  mainAborted,    \* a statement has failed in the transaction's remote transaction
  snapshot,       \* PostgresGlobalState::snapshot, NoSnapshot for the empty string
  usedMainThread, \* PostgresGlobalState::used_main_thread
  pageIdx,        \* PostgresGlobalState::page_idx
  batchIdx,       \* PostgresGlobalState::batch_idx
  pc,             \* where each thread is in PostgresScan
  conn,           \* PostgresLocalState::connection: "none", "main" or "pool"
  connSnap,       \* snapshot of the remote transaction on a pool connection
  task,           \* the page range of the thread's current COPY
  batch,          \* PostgresLocalState::batch_idx
  todo,           \* tuples of the running COPY that the reader has not parsed yet
  chunk,          \* tuples in the output DataChunk of the current call
  emitted         \* tuples returned to DuckDB, with the batch index reported for them

remoteVars == <<clock, table, own>>
mainVars   == <<mainSnap, mainAborted, snapshot>>
taskVars   == <<pageIdx, batchIdx, task, batch>>
connVars   == <<usedMainThread, conn, connSnap>>
rowVars    == <<todo, chunk, emitted>>
vars == <<remoteVars, bind, query, mainVars, taskVars, connVars, pc, rowVars>>

NoSnapshot == -1
Tuple      == [row : Rows \cup OwnRows, page : HeapPages]
PageRange(lo, hi) == [lo |-> lo, hi |-> hi]

Working == {"connected", "begin", "read", "done"}
Retired == {"idle", "refused", "exhausted", "released"}

-------------------------------------------------------------------------------
(* Decisions taken before execution.                                       *)

BoundBy(k, n) == IF k < n THEN n ELSE k

\* PostgresBindData::SetTablePages.
SetTablePages(pages, perTask, readOnly) ==
  IF ~readOnly THEN 1 ELSE BoundBy(pages \div perTask, 1)

\* The multi-scan branch of PostgresOptimizer::Optimize: such a scan streams over
\* the pool and leaves the transaction's connection alone.
StreamsOverPool(maxThreads, readOnly) == maxThreads > 1 /\ readOnly

\* A planned scan.  "alone" is the only scan of its catalog in the plan, "multiple"
\* one of several, "dml" feeds an INSERT, UPDATE or DELETE, for which
\* MaterializePostgresScans overrides the optimizer.  A scan over a DSN is not attached
\* and is never gathered with others.
Bind(pages, perTask, readOnly, level, attached, plan) ==
  LET threads == SetTablePages(pages, perTask, readOnly)
      overPool == plan = "multiple" /\ StreamsOverPool(threads, readOnly)
      materialize == plan = "dml" \/ (plan = "multiple" /\ ~overPool)
  IN [pages       |-> pages,
      perTask     |-> perTask,
      readOnly    |-> readOnly,
      isolation   |-> IF attached THEN level ELSE "repeatable_read",
      attached    |-> attached,
      materialize |-> materialize,
      useMain     |-> ~overPool,
      maxThreads  |-> IF materialize THEN 1 ELSE threads]

Binds ==
  {b \in {Bind(pages, perTask, readOnly, level, attached, plan) :
            pages \in PagesChoices, perTask \in PerTaskChoices, readOnly \in BOOLEAN,
            level \in IsolationChoices, attached \in BOOLEAN,
            plan \in {"alone", "multiple", "dml"}} :
     b.attached \/ (b.readOnly /\ b.useMain)}

ReadCommitted == bind.isolation = "read_committed"

\* Addition of two idx_t values.
Add(x, y) == IF x + y < Word THEN x + y ELSE x + y - Word

-------------------------------------------------------------------------------
(* What a statement returns.                                               *)

\* Mutant: the lower bound is exclusive.
InRangeOpenBelow(x, range) == range.lo < x.page /\ x.page < range.hi

\* WHERE ctid BETWEEN '(lo,0)' AND '(hi,0)': no tuple has offset 0.
InRange(x, range) == range.lo <= x.page /\ x.page < range.hi

SeenOn(c, ts) == table[ts] \cup (IF c = "main" THEN own ELSE {})

\* The snapshot a statement of thread t runs with: at READ COMMITTED its own instant,
\* otherwise that of the remote transaction, which its first statement fixes.
StatementSnapshot(t) ==
  LET fixed == IF conn[t] = "main" THEN mainSnap ELSE connSnap[t]
  IN IF ReadCommitted \/ fixed = NoSnapshot THEN clock ELSE fixed

-------------------------------------------------------------------------------
Report(t, tuples, b) ==
  emitted' = emitted \cup {[tuple |-> x, thread |-> t, batch |-> b] : x \in tuples}

OneTuplePerRow(tuples) == \A x, y \in tuples : x.row = y.row => x = y

Init ==
  /\ clock = 0
  /\ \E tuples \in SUBSET [row : Rows, page : HeapPages] :
       /\ OneTuplePerRow(tuples)
       /\ table = [ts \in 0 .. MaxClock |-> IF ts = 0 THEN tuples ELSE {}]
  /\ bind \in Binds
  /\ own \in SUBSET [row : OwnRows, page : HeapPages]
  /\ OneTuplePerRow(own)
  \* a DuckDB transaction that has written is not read-only, except through
  \* postgres_execute, which nothing reports to the transaction manager
  /\ own # {} => bind.attached /\ (~bind.readOnly \/ ExecuteWrites)
  /\ query = "init"
  /\ mainSnap \in IF ReadCommitted THEN {NoSnapshot} ELSE {NoSnapshot, 0}
  /\ mainAborted = FALSE
  /\ snapshot = NoSnapshot
  /\ usedMainThread = FALSE
  /\ pageIdx = 0
  /\ batchIdx = 0
  /\ pc = [t \in Threads |-> "idle"]
  /\ conn = [t \in Threads |-> "none"]
  /\ connSnap = [t \in Threads |-> NoSnapshot]
  /\ task = [t \in Threads |-> PageRange(0, 0)]
  /\ batch = [t \in Threads |-> 0]
  /\ todo = [t \in Threads |-> {}]
  /\ chunk = [t \in Threads |-> {}]
  /\ emitted = {}

\* Another client commits: it inserts a row, moves one to another page or deletes one.
OtherCommit ==
  /\ clock < MaxClock
  /\ \E r \in Rows, new \in SUBSET [row : Rows, page : HeapPages] :
       /\ \A x \in new : x.row = r
       /\ Cardinality(new) <= 1
       /\ table' = [table EXCEPT ![clock + 1] = {x \in table[clock] : x.row # r} \cup new]
  /\ clock' = clock + 1
  /\ UNCHANGED <<own, bind, query, mainVars, taskVars, connVars, pc, rowVars>>

-------------------------------------------------------------------------------
(* PostgresInitGlobalState.                                                *)

\* requires_materialization: GetLocalState takes the transaction's connection and one
\* COPY over the whole table is read to its end; only the collection is scanned later.
MaterializeScan ==
  /\ query = "init" /\ bind.materialize
  /\ LET ts == IF ReadCommitted \/ mainSnap = NoSnapshot THEN clock ELSE mainSnap
     IN /\ \E t \in Threads :
             Report(t, {x \in SeenOn("main", ts) : InRange(x, PageRange(0, TidMax))}, 0)
        /\ mainSnap' = IF ReadCommitted THEN NoSnapshot ELSE ts
  /\ query' = "finished"
  /\ usedMainThread' = TRUE
  /\ pageIdx' = TidMax
  /\ batchIdx' = batchIdx + 1
  /\ UNCHANGED <<remoteVars, bind, mainAborted, snapshot, task, batch, conn, connSnap, pc,
                 todo, chunk>>

\* PostgresGetSnapshot leaves the snapshot empty for one thread or READ COMMITTED.
StartWithoutSnapshot ==
  /\ query = "init" /\ ~bind.materialize
  /\ bind.maxThreads <= 1 \/ ReadCommitted
  /\ query' = "running"
  /\ UNCHANGED <<remoteVars, bind, mainVars, taskVars, connVars, pc, rowVars>>

ExportSnapshot ==
  /\ query = "init" /\ ~bind.materialize
  /\ bind.maxThreads > 1 /\ ~ReadCommitted
  /\ mainSnap' = IF mainSnap = NoSnapshot THEN clock ELSE mainSnap
  /\ snapshot' = mainSnap'
  /\ query' = "running"
  /\ UNCHANGED <<remoteVars, bind, mainAborted, taskVars, connVars, pc, rowVars>>

\* TryQuery swallows the error: the snapshot stays empty and the scan goes on.
ExportSnapshotFails ==
  /\ ExportMayFail
  /\ query = "init" /\ ~bind.materialize
  /\ bind.maxThreads > 1 /\ ~ReadCommitted
  /\ mainAborted' = TRUE
  /\ query' = "running"
  /\ UNCHANGED <<remoteVars, bind, mainSnap, snapshot, taskVars, connVars, pc, rowVars>>

-------------------------------------------------------------------------------
(* PostgresGlobalState::TryOpenNewConnection, called by GetLocalState.     *)

MayStart(t) ==
  /\ query = "running" /\ pc[t] = "idle"
  /\ Cardinality({u \in Threads : pc[u] # "idle"}) < bind.maxThreads

Connected(t, c, ts) ==
  /\ conn' = [conn EXCEPT ![t] = c]
  /\ connSnap' = [connSnap EXCEPT ![t] = ts]
  /\ pc' = [pc EXCEPT ![t] = "connected"]
  /\ UNCHANGED <<remoteVars, bind, query, mainVars, taskVars, rowVars>>

\* Mutant: used_main_thread is not set.
UseMainConnectionAgain(t) ==
  /\ MayStart(t) /\ ~usedMainThread /\ bind.useMain
  /\ Connected(t, "main", NoSnapshot)
  /\ UNCHANGED usedMainThread

UseMainConnection(t) ==
  /\ MayStart(t) /\ ~usedMainThread /\ bind.useMain
  /\ usedMainThread' = TRUE
  /\ Connected(t, "main", NoSnapshot)

\* The first thread of a scan that must not use the transaction's connection.
ForceConnection(t) ==
  /\ MayStart(t) /\ ~usedMainThread /\ ~bind.useMain
  /\ usedMainThread' = TRUE
  /\ Connected(t, "pool", snapshot)

\* Mutant: a later connection is not pinned.
OpenConnectionUnpinned(t) ==
  /\ MayStart(t) /\ usedMainThread
  /\ Connected(t, "pool", NoSnapshot)
  /\ UNCHANGED usedMainThread

\* Any later thread: PostgresScanConnect pins the connection unless snapshot is empty.
OpenConnection(t) ==
  /\ MayStart(t) /\ usedMainThread
  /\ Connected(t, "pool", snapshot)
  /\ UNCHANGED usedMainThread

\* Mutant: the first thread asks the pool like any other.
RefusedFirst(t) ==
  /\ MayStart(t) /\ bind.attached
  /\ pc' = [pc EXCEPT ![t] = "refused"]
  /\ UNCHANGED <<remoteVars, bind, query, mainVars, taskVars, connVars, rowVars>>

\* The pool is at its limit: the thread takes no part in the scan.
Refused(t) ==
  /\ MayStart(t) /\ usedMainThread /\ bind.attached
  /\ pc' = [pc EXCEPT ![t] = "refused"]
  /\ UNCHANGED <<remoteVars, bind, query, mainVars, taskVars, connVars, rowVars>>

-------------------------------------------------------------------------------
(* Tasks and chunks.                                                       *)

\* Mutants: no cap at all; relpages taken for the real number of pages; an inclusive
\* upper bound.
PageMaxUncapped == Add(pageIdx, bind.perTask)
PageMaxAtRelpages ==
  IF Add(pageIdx, bind.perTask) >= bind.pages THEN bind.pages ELSE Add(pageIdx, bind.perTask)
PageMaxInclusive ==
  LET next == Add(pageIdx, bind.perTask - 1)
  IN IF next >= bind.pages \/ next > TidMax THEN TidMax ELSE next

PageMax ==
  LET next == Add(pageIdx, bind.perTask)
  IN IF next >= bind.pages \/ next > TidMax THEN TidMax ELSE next

\* Mutant: no batch index is used up when no task is left.
ParallelStateNextSharedBatch(t, otherwise) ==
  /\ batch' = [batch EXCEPT ![t] = batchIdx]
  /\ IF pageIdx < bind.pages
     THEN /\ task' = [task EXCEPT ![t] = PageRange(pageIdx, PageMax)]
          /\ pageIdx' = PageMax
          /\ batchIdx' = batchIdx + 1
          /\ pc' = [pc EXCEPT ![t] = "begin"]
     ELSE /\ pc' = [pc EXCEPT ![t] = otherwise]
          /\ UNCHANGED <<task, pageIdx, batchIdx>>

PostgresParallelStateNext(t, otherwise) ==
  /\ batch' = [batch EXCEPT ![t] = batchIdx]
  /\ batchIdx' = batchIdx + 1
  /\ IF pageIdx < bind.pages
     THEN /\ task' = [task EXCEPT ![t] = PageRange(pageIdx, PageMax)]
          /\ pageIdx' = PageMax
          /\ pc' = [pc EXCEPT ![t] = "begin"]
     ELSE /\ pc' = [pc EXCEPT ![t] = otherwise]
          /\ UNCHANGED <<task, pageIdx>>

\* The end of GetLocalState.
FirstTask(t) ==
  /\ query = "running" /\ pc[t] = "connected"
  /\ IF bind.pages = 0
     THEN /\ task' = [task EXCEPT ![t] = PageRange(0, TidMax)]
          /\ pageIdx' = TidMax
          /\ pc' = [pc EXCEPT ![t] = "begin"]
          /\ UNCHANGED <<batch, batchIdx>>
     ELSE PostgresParallelStateNext(t, "done")
  /\ UNCHANGED <<remoteVars, bind, query, mainVars, connVars, rowVars>>

\* reader->BeginCopy: the statement's result is fixed here.
BeginCopy(t) ==
  /\ query = "running" /\ pc[t] = "begin"
  /\ ~(conn[t] = "main" /\ mainAborted)
  /\ LET ts == StatementSnapshot(t)
     IN /\ todo' = [todo EXCEPT ![t] = {x \in SeenOn(conn[t], ts) : InRange(x, task[t])}]
        /\ mainSnap' = IF conn[t] = "main" /\ ~ReadCommitted THEN ts ELSE mainSnap
        /\ connSnap' = IF conn[t] = "pool" /\ ~ReadCommitted
                       THEN [connSnap EXCEPT ![t] = ts] ELSE connSnap
  /\ pc' = [pc EXCEPT ![t] = "read"]
  /\ UNCHANGED <<remoteVars, bind, query, mainAborted, snapshot, taskVars, usedMainThread,
                 conn, chunk, emitted>>

\* reader->Read: one more row; a full chunk is returned under the current batch.
ReadRow(t) ==
  /\ query = "running" /\ pc[t] = "read"
  /\ \E x \in todo[t] :
       /\ todo' = [todo EXCEPT ![t] = @ \ {x}]
       /\ IF Cardinality(chunk[t]) + 1 = VectorSize
          THEN /\ Report(t, chunk[t] \cup {x}, batch[t])
               /\ chunk' = [chunk EXCEPT ![t] = {}]
          ELSE /\ chunk' = [chunk EXCEPT ![t] = @ \cup {x}]
               /\ UNCHANGED emitted
  /\ UNCHANGED <<remoteVars, bind, query, mainVars, taskVars, connVars, pc>>

\* Read returns FINISHED: done is set and the loop goes on with the same chunk.
FinishCopy(t) ==
  /\ query = "running" /\ pc[t] = "read" /\ todo[t] = {}
  /\ pc' = [pc EXCEPT ![t] = "done"]
  /\ UNCHANGED <<remoteVars, bind, query, mainVars, taskVars, connVars, rowVars>>

\* ScanChunk with done set.  Without a further task the chunk is returned as it is,
\* under the batch index just taken; DuckDB calls again only if the chunk had rows.
NextTask(t) ==
  /\ query = "running" /\ pc[t] = "done"
  /\ PostgresParallelStateNext(t, IF chunk[t] = {} THEN "exhausted" ELSE "no_connection")
  /\ IF pageIdx < bind.pages
     THEN UNCHANGED <<chunk, emitted>>
     ELSE /\ Report(t, chunk[t], batchIdx)
          /\ chunk' = [chunk EXCEPT ![t] = {}]
  /\ UNCHANGED <<remoteVars, bind, query, mainVars, connVars, todo>>

\* PostgresScan with no_connection set.
ReleaseEarly(t) ==
  /\ query = "running" /\ pc[t] = "no_connection"
  /\ pc' = [pc EXCEPT ![t] = "released"]
  /\ conn' = [conn EXCEPT ![t] = "none"]
  /\ UNCHANGED <<remoteVars, bind, query, mainVars, taskVars, usedMainThread, connSnap,
                 rowVars>>

\* An IOException of this thread's connection ends the query.
ThreadFails(t) ==
  /\ query = "running" /\ pc[t] \in Working
  /\ query' = "failed"
  /\ conn' = [u \in Threads |-> "none"]
  /\ UNCHANGED <<remoteVars, bind, mainVars, taskVars, usedMainThread, connSnap, pc, rowVars>>

\* Mutant: the connections outlive the local states.
EndQueryKeepsConnections ==
  /\ query = "running"
  /\ \A t \in Threads : pc[t] \in Retired
  /\ \E t \in Threads : pc[t] \in {"exhausted", "released"}
  /\ query' = "finished"
  /\ UNCHANGED <<remoteVars, bind, mainVars, taskVars, connVars, pc, rowVars>>

\* The pipeline is over: the local states and their connections are destroyed.
EndQuery ==
  /\ query = "running"
  /\ \A t \in Threads : pc[t] \in Retired
  /\ \E t \in Threads : pc[t] \in {"exhausted", "released"}
  /\ query' = "finished"
  /\ conn' = [u \in Threads |-> "none"]
  /\ UNCHANGED <<remoteVars, bind, mainVars, taskVars, usedMainThread, connSnap, pc, rowVars>>

-------------------------------------------------------------------------------
Start == MaterializeScan \/ StartWithoutSnapshot \/ ExportSnapshot \/ ExportSnapshotFails

Open(t) == UseMainConnection(t) \/ ForceConnection(t) \/ OpenConnection(t) \/ Refused(t)

Scan(t) ==
  FirstTask(t) \/ BeginCopy(t) \/ ReadRow(t) \/ FinishCopy(t) \/ NextTask(t)
  \/ ReleaseEarly(t) \/ ThreadFails(t)

Next ==
  OtherCommit \/ Start \/ EndQuery \/ \E t \in Threads : Open(t) \/ Scan(t)

\* DuckDB starts at least one task of a pipeline and runs each started task to its end.
Fairness ==
  /\ WF_vars(Start)
  /\ WF_vars(\E t \in Threads : Open(t))
  /\ \A t \in Threads : WF_vars(Scan(t))
  /\ WF_vars(EndQuery)

Spec == Init /\ [][Next]_vars /\ Fairness
-------------------------------------------------------------------------------
(* Properties.                                                             *)

\* Type invariant of the state of PostgresGlobalState and PostgresLocalState.
TypeOK ==
  /\ clock \in 0 .. MaxClock
  /\ table \in [0 .. MaxClock -> SUBSET [row : Rows, page : HeapPages]]
  /\ own \subseteq [row : OwnRows, page : HeapPages]
  /\ bind \in Binds
  /\ query \in {"init", "running", "finished", "failed"}
  /\ mainSnap \in 0 .. clock \cup {NoSnapshot}
  /\ snapshot \in 0 .. clock \cup {NoSnapshot}
  /\ mainAborted \in BOOLEAN /\ usedMainThread \in BOOLEAN
  /\ pageIdx \in 0 .. TidMax /\ batchIdx \in Nat
  /\ pc \in [Threads -> Working \cup Retired \cup {"no_connection"}]
  /\ conn \in [Threads -> {"none", "main", "pool"}]
  /\ connSnap \in [Threads -> 0 .. clock \cup {NoSnapshot}]
  /\ task \in [Threads -> [lo : 0 .. TidMax, hi : 0 .. TidMax]]
  /\ batch \in [Threads -> Nat]
  /\ todo \in [Threads -> SUBSET Tuple]
  /\ chunk \in [Threads -> SUBSET Tuple]
  /\ emitted \subseteq [tuple : Tuple, thread : Threads, batch : Nat]

Delivered == {e.tuple : e \in emitted}

\* A scan above READ COMMITTED returns exactly what one statement on the transaction's
\* own connection would have returned: however the page ranges are split over threads
\* and connections, whatever other clients commit meanwhile, and however far relpages is
\* from the real size, no tuple of that snapshot is lost, none comes twice, none is added.
ScanExact ==
  query = "finished" /\ ~ReadCommitted =>
    /\ mainSnap # NoSnapshot
    /\ Delivered = SeenOn("main", mainSnap)
    /\ \A e, f \in emitted : e.tuple = f.tuple => e = f

\* A scan that needs only one COPY (materialized, without ctid ranges, or with a task
\* larger than the table) is exact for one instant at READ COMMITTED too.
OneCopyExact ==
  query = "finished" /\ (bind.materialize \/ bind.pages <= bind.perTask) =>
    /\ \E ts \in 0 .. clock : Delivered = SeenOn("main", ts)
    /\ \A e, f \in emitted : e.tuple = f.tuple => e = f

\* The rows DuckDB receives under one batch index all come from the same thread, also
\* the tail of a chunk that is reported under the index taken when no task was left
\* (PostgresGetPartitionData; a batch is owned by one thread in DuckDB's sinks).
BatchHasOneThread ==
  \A e, f \in emitted : e.batch = f.batch => e.thread = f.thread

\* Two COPYs never run on the transaction's own libpq connection, and a plan with
\* several scans that stream over the pool leaves it to none of them.
MainConnectionNotShared ==
  \A t, u \in Threads : conn[t] = "main" =>
    /\ bind.useMain
    /\ conn[u] = "main" => t = u

\* D_ASSERT(task_min <= task_max) in PostgresInitInternal: idx_t arithmetic on page_idx
\* never wraps, whatever pg_pages_per_task is, and a range is never taken back.
PageIdxNeverWraps ==
  [][pageIdx < bind.pages => PageMax > pageIdx /\ pageIdx' >= pageIdx]_vars

\* "we pin it to the snapshot to prevent reads at its own instant"
\* (postgres_scanner.cpp, TryOpenNewConnection): above READ COMMITTED every COPY on a pool
\* connection reads at the snapshot of the transaction's own connection.
ReadersPinned ==
  \A t \in Threads :
    pc[t] = "read" /\ conn[t] = "pool" /\ ~ReadCommitted => connSnap[t] = mainSnap

\* Once started, the scan ends: refused threads never strand page ranges and no
\* thread waits for another (under the fairness of DuckDB's task scheduler).
QueryEnds == query = "running" ~> query \in {"finished", "failed"}

\* A connection taken from the pool does not stay with a scan for ever.
ConnectionsReturned == \A t \in Threads : conn[t] = "pool" ~> conn[t] = "none"

-------------------------------------------------------------------------------
(* The inductive invariant behind ScanExact (ParallelScanProofs), in parts.*)

Held(t) == todo[t] \cup chunk[t]

\* Who reads where: one thread at most on the transaction's connection, and a pool
\* connection only in a scan that may use several threads.
ConnectionInv ==
  /\ query = "init" => ~usedMainThread
  /\ query = "running" => ~bind.materialize
  /\ ~usedMainThread => pageIdx = 0 /\ emitted = {} /\ \A t \in Threads : pc[t] = "idle"
  /\ query = "running" /\ usedMainThread => \E t \in Threads : pc[t] # "idle"
  /\ \A t, u \in Threads :
       bind.maxThreads <= 1 /\ pc[t] # "idle" /\ pc[u] # "idle" => t = u
  /\ \A t \in Threads :
       /\ conn[t] # "none" => query = "running" /\ pc[t] # "idle"
       /\ query = "running" /\ pc[t] \in Working => conn[t] # "none"
       /\ conn[t] = "main" => bind.useMain /\ usedMainThread
       /\ conn[t] = "pool" => bind.maxThreads > 1
       /\ \A u \in Threads : conn[t] = "main" /\ conn[u] = "main" => t = u

\* Above READ COMMITTED every pool connection is at the snapshot of the transaction's.
SnapshotInv ==
  ~ReadCommitted =>
    /\ query = "running" /\ bind.maxThreads > 1 =>
         snapshot = mainSnap /\ mainSnap # NoSnapshot
    /\ \A t \in Threads :
         /\ conn[t] = "pool" => connSnap[t] = mainSnap
         /\ pc[t] \in {"read", "done", "no_connection", "exhausted", "released"} =>
              mainSnap # NoSnapshot
    /\ bind.readOnly => own = {}

\* The ranges handed out end at page_idx and are disjoint; the last one ends at TidMax.
\* After the first range pages_per_task is known to be below relpages, so that the next
\* addition cannot wrap.
TaskInv ==
  /\ pageIdx = 0 \/ (bind.perTask <= pageIdx /\ pageIdx < bind.pages) \/ pageIdx = TidMax
  /\ \A t \in Threads :
       /\ pc[t] = "begin" => task[t].hi <= pageIdx
       /\ pc[t] \in {"begin", "read", "done"} => pageIdx > 0
       /\ pc[t] \in {"no_connection", "exhausted", "released"} => pageIdx = TidMax
       /\ bind.maxThreads <= 1 /\ pc[t] = "connected" => pageIdx = 0
       /\ \A u \in Threads :
            t # u /\ pc[t] = "begin" /\ pc[u] = "begin" =>
              task[t].hi <= task[u].lo \/ task[u].hi <= task[t].lo

Waiting(x) == \E t \in Threads : pc[t] = "begin" /\ InRange(x, task[t])
Reached(x) == x \in Delivered \/ \E t \in Threads : x \in Held(t)

\* No tuple is held twice, none that is held has been delivered, none comes twice; only
\* tuples of ranges whose COPY has begun are held or delivered.
RowInv ==
  /\ \A t \in Threads :
       /\ pc[t] # "read" => todo[t] = {}
       /\ pc[t] \notin {"begin", "read", "done"} => chunk[t] = {}
       /\ todo[t] \cap chunk[t] = {}
       /\ Held(t) \cap Delivered = {}
       /\ \A u \in Threads : t # u => Held(t) \cap Held(u) = {}
  /\ \A x \in Tuple : Reached(x) => x.page < pageIdx /\ ~Waiting(x)
  /\ \A e, f \in emitted : e.tuple = f.tuple => e = f

\* Of the pages below page_idx that do not wait for their COPY, exactly the tuples of the
\* transaction's snapshot are delivered or held.
CoverageInv ==
  ~ReadCommitted /\ query = "running" =>
    \A x \in Tuple :
      x.page < pageIdx /\ ~Waiting(x) =>
        mainSnap # NoSnapshot /\ (x \in SeenOn("main", mainSnap) <=> Reached(x))

ScanInv ==
  /\ ConnectionInv /\ SnapshotInv /\ TaskInv /\ RowInv /\ CoverageInv
  /\ ScanExact
===============================================================================

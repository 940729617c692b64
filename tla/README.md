# A verification project for duckdb-postgres

TLA+ models of the `postgres` extension of DuckDB, checked with TLC and proved in part
with TLAPS. Every definition is translated from the C++ sources under `src/src/`; paths
below are relative to that directory unless they start with `test/` or `README.md`.
`PROJECT.json` lists for every definition the lines it stands for.

## 1. The system

The extension attaches a PostgreSQL database to DuckDB. A DuckDB process has many client
contexts (*sessions* in the models), each of which runs its statements on several threads.
All sessions share one catalog cache and one connection pool per attached database.

| Part | Sources | State it keeps | Operations | Hard behaviour |
|---|---|---|---|---|
| Parallel table scan | `postgres_scanner.cpp`, `include/postgres_scanner.hpp` | `PostgresGlobalState` (page_idx, batch_idx, used_main_thread, snapshot), one `PostgresLocalState` per thread | InitGlobalState, TryOpenNewConnection, ParallelStateNext, PostgresScan | threads, connections with snapshots of their own, stale relpages, refused connections |
| Plan optimizer | `storage/postgres_optimizer.cpp`, `storage/postgres_catalog.cpp` | flags in `PostgresBindData` | Optimize, MaterializePostgresScans | several scans on one connection |
| Catalog set | `storage/postgres_catalog_set.cpp` | entries, entry_map, is_loaded, staleness_signature, load_lock, loading_thread | TryLoadEntries, GetEntry, Scan, CreateEntry, DropEntry, ClearEntries, Refresh/PromoteStalenessSignature | shared by sessions, state read outside the lock, DDL of other clients, rollback |
| Table set, schema set | `storage/postgres_table_set.cpp`, `postgres_schema_set.cpp`, `postgres_clear_cache.cpp` | the slice of the schemas' query | LoadEntries, ReloadEntry, CreateTable, AlterTable, pg_clear_cache | two sources of definitions, DDL without the load lock |
| Transaction | `storage/postgres_transaction.cpp` | transaction_state, pending_signatures, the pooled connection | Start, Query, QueryWithoutTransaction, Commit, Rollback | lazy BEGIN, errors, a lost backend, COMMIT of an aborted transaction |
| Connection pool | `storage/postgres_connection_pool.cpp` | cached and handed-out connections | Acquire, TryAcquire, ForceAcquire, return, health check, reset, reaper | limit, waiting, connections returned in any state |
| Connection | `postgres_connection.cpp` | one PGconn | Query, TryQuery, Execute, Reset, PingServer | errors, reconnection |
| postgres_query, postgres_execute | `postgres_query.cpp` | none | bind by PQprepare, run | statements DuckDB's transaction manager knows nothing of |
| INSERT, COPY FROM, CTAS, MERGE | `storage/postgres_insert.cpp`, `postgres_merge_into.cpp`, `postgres_copy_to.cpp` | copy_is_active, the text of plain INSERTs | GetGlobalSinkState, Sink, Finalize | several sinks on one connection, partial failure of a COPY |
| UPDATE, DELETE | `storage/postgres_update.cpp`, `postgres_delete.cpp` | temporary table, batches of ctids | Sink, Finalize | row ids that move, counts of rows sent |
| Type and index sets | `storage/postgres_type_set.cpp`, `postgres_index_set.cpp` | as catalog sets | LoadEntries | internal dependencies, lock order |
| Binary COPY | `postgres_binary_reader.cpp`, `postgres_binary_parser.cpp`, `postgres_binary_copy.cpp`, `include/postgres_binary_writer.hpp` | buffers | read and write of values | lengths, buffer boundaries |
| Text protocol | `postgres_text_reader.cpp`, `include/postgres_text_writer.hpp` | none | parsing of literals | pure functions |
| Types, filter pushdown, utilities | `postgres_utils.cpp`, `postgres_filter_pushdown.cpp` | none | tables of types, quoting | pure functions |
| Secrets, tokens | `postgres_secrets.cpp`, `postgres_aws.cpp`, `postgres_oauth.cpp` | token cache | get, refresh | wall-clock time, external services |
| ATTACH, settings, logging | `postgres_extension.cpp`, `postgres_attach.cpp`, `postgres_storage.cpp`, `postgres_logging.cpp` | options | registration | none |

How they interact. A statement is bound: the *catalog set* is consulted, which may run the
staleness query on a second connection of the *pool* and load the entries with a query of
the session's *transaction*. The *optimizer* decides how each scan runs. At execution the
first thread of a scan takes the transaction's connection and the others take connections
from the *pool*, pinned to a snapshot exported by the transaction. COMMIT and ROLLBACK end
the remote transaction, promote or forget the staged signatures of every *set*, and return
the connection, which the pool resets.

What makes each part correct:

* a scan returns what one statement on the transaction's own connection would have
  returned, however it is split, and it ends;
* a lookup or a scan of the catalog gives definitions that are in the session's view of the
  server: none half-loaded, stale without reason, or rolled back; no lock is left behind;
* a remote transaction is all or nothing, and what DuckDB says of it (committed, rolled
  back) is so; nothing of a transaction reaches the next user of its connection; the pool
  respects its limit and nobody waits in a circle;
* a statement that writes changes every row its source returned exactly once, and nothing
  interrupts a COPY;
* each set of each schema gets the rows that are its own, types are what the server says
  they are, and nobody waits for a load_lock in a circle;
* what is written in the binary or the text format is read back, and a file that was cut is
  not taken for a complete one.

`PROJECT.json` lists these hazards one by one ("hazards"), at the line where each bites.

## 2. The modules

| Module | Models | Kind |
|---|---|---|
| `ParallelScan` | one scan of a table, from the plan to the end of its pipeline | component |
| `ParallelScanProofs` | its inductive invariant and theorems | proofs |
| `CatalogSet` | the set of the tables of one schema with the sessions, their remote transactions, and other clients | component, composed with the part of the transaction that stages signatures |
| `CatalogSetProofs` | types, load_lock, the signature and the answers of lookups | proofs |
| `CatalogAnswersProofs` | what a session that works alone and readers that take turns are shown | proofs |
| `SchemaTypes` | the set of schemas and, in each schema, the sets of types, tables and indexes, which load each other | composition of the sets |
| `SchemaTypesProofs` | the order of rows, the holders of load_lock and the order in which they take it | proofs |
| `SchemaSlicesProofs` | the cut of the five queries into slices, and what each query sees | proofs |
| `SchemaLookupsProofs` | what the catalog has to hold, where it holds it, who is about to put it there, and what its types are made of | proofs |
| `RemoteTransaction` | transactions, connections and the pool together | composition |
| `AtomicTransaction` | what a transaction promises, without connections, pool or server | abstract specification |
| `RemoteTransactionProofs` | the pool, the refinement and the answers of COMMIT | proofs |
| `WriteSession` | INSERT, CREATE TABLE AS, UPDATE, DELETE and MERGE over the one connection of their transaction | component |
| `WriteSessionProofs` | types, who may use the connection, which rows and versions are written, and the count | proofs |
| `NumericCodec` | DECIMAL and TIMESTAMP in the binary format | operators |
| `BinaryCopy` | writing, cutting and reading files of the binary COPY format | component |
| `TextFormat` | lists and structs as text, in a text COPY and in the text protocol | component |
| `MCParallelScan`, `MCCatalogSet`, `MCSchemaTypes`, `MCRemoteTransaction`, `MCWriteSession`, `MCBinaryCopy`, `MCTextFormat` | symmetry and definitions the .cfg files name | instances |

Definitions called "Mutant" in a comment are plausible wrong versions of the definition
that follows. No specification uses them: they are there to see that each property fails
when the code is changed in that way ("mutants" in `PROJECT.json`).

### ParallelScan

| In the model | In the code |
|---|---|
| `Bind`, `SetTablePages`, `StreamsOverPool` | `PostgresBindData::SetTablePages`, `PostgresOptimizer::Optimize`, `MaterializePostgresScans` |
| `MaterializeScan`, `StartWithoutSnapshot`, `ExportSnapshot`, `ExportSnapshotFails` | `PostgresInitGlobalState`, `PostgresGetSnapshot` |
| `UseMainConnection`, `ForceConnection`, `OpenConnection`, `Refused` | `PostgresGlobalState::TryOpenNewConnection`, `PostgresScanConnect` |
| `FirstTask`, `PostgresParallelStateNext`, `PageMax` | `GetLocalState`, `PostgresParallelStateNext` |
| `BeginCopy`, `ReadRow`, `FinishCopy`, `NextTask`, `ReleaseEarly` | `PostgresInitInternal`, `PostgresLocalState::ScanChunk`, `PostgresScan` |
| `ThreadFails`, `EndQuery` | exceptions, destruction of the states by DuckDB |

The server is one set of tuples per commit time, so a snapshot is a number. A tuple is a
row and the page it is on; values, columns and filters do not matter to the properties. At
READ COMMITTED every COPY has an instant of its own; above it the first statement of a
connection's transaction fixes its snapshot, or the imported snapshot does.

The arithmetic on page_idx is modulo `Word`, which stands for 2^64.

### CatalogSet

A definition is the stamp of the DDL statement that made it; that is all the staleness
query (oids and xmins) tells apart. Two definitions that the code's signature cannot tell
apart (an object dropped and created again with equal oid and xmin) are outside the model.
`ExternalDdl` gives each DDL statement a fresh stamp. Each lock is a variable or, for
entry_lock, the atomicity of an action: one action is at most one critical section of
entry_lock, and every query is an action of its own. The session's program counter `pc`
says between which two of them it is. `StalenessEnabled` is the set of sessions that have
pg_staleness_query_enabled on.

| In the model | In the code |
|---|---|
| `TryUnloaded` ... `LockToLoad` | `PostgresCatalogSet::TryLoadEntries` |
| `LoadSlice`, `LoadQuery`, `InsertLoaded`, `FinishLoad`, `PoolThrows` | `LoadEntriesLocked`, `PostgresTableSet::LoadEntries` |
| `FindEntry`, `LockToReload`, `ReloadEntry`, `ReloadNothing`, `FinishReload` | `GetEntry`, `PostgresTableSet::ReloadEntry` |
| `ScanEntries` | `Scan` |
| `Ddl`, `ApplyCreate`, `ApplyDrop`, `ApplyAlter`, `Restage` | `CreateTable`, `CreateEntry`, `DropEntry`, `AlterTable`, `PostgresSchemaEntry::CreateView` |
| `RefreshStalenessSignature`, `Promote` | the functions of those names |
| `Commit`, `Rollback`, `Discard` | `PostgresTransaction::Commit`, `Rollback` |
| `ExternalDdl` | other clients of the server (external) |

### SchemaTypes

Where `CatalogSet` looks at one set over time, this module looks at all of them while they
are loaded: which rows each set gets, in which order sets load one another, and who waits
for whom. An oid is a name. A type is the set of types it is made of, so that a type that
was read as VARCHAR is one that is missing. Each session has a stack of calls: building a
table looks up the types of its columns, which may load the types of this or of another
schema. Staleness and uncommitted DDL are left to `CatalogSet`: a statement commits here.

| In the model | In the code |
|---|---|
| `QuerySchemas`, `AnswerTo`, `Listed` | the command of five queries of `PostgresSchemaSet::GetInitializeQuery` (three through information_schema), each with its own snapshot at READ COMMITTED |
| `SchemaRows`, `Rows`, `SliceResult`, `LoadSchemas` | `ORDER BY`, `SliceResult`, `SliceResultByName`, `PostgresSchemaSet::LoadEntries` |
| `SkipsLoad`, `LockToLoad`, `FinishLoad`, `Throw` | `TryLoadEntries`, `LoadEntriesLocked`, with loading_thread |
| `ResolveType`, `CreateCompositeType`, `InitializeEnums`, `BuildTable` | `PostgresUtils::TypeToLogicalType`, `PostgresTypeSet`, `PostgresTableSet::CreateEntries` |
| `LockToReload`, `QueryTable`, `FinishReload` | `PostgresTableSet::ReloadEntry` |
| `CreateSchema`, `CreateType`, `CreateIndex`, `Drop`, `DdlFails` | `PostgresSchemaSet::CreateSchema`, `PostgresTypeSet::CreateType`, `PostgresIndexSet::CreateIndex`, `DropEntry` |
| `ClearCache` | `PostgresClearCacheFunction::ClearPostgresCaches` |
| `generation` | a schema entry that was made again is another one, with sets of its own |

`due`, `missed` and `unfound` are history and take no part in any guard: what the cache has
to know, whether a lookup has not found something due, and what a lookup has not found
although it was on the server. pg_clear_cache lets the cache forget everything: nothing is
due after it. `due` is thus about the sets loading each other, `unfound` about lookups that a
pg_clear_cache meets on their way.

`NamedIn` is the schema that the statement names: `GetCreateTypeSQL`
(`storage/postgres_type_set.cpp:168`) sends CREATE TYPE without it, so that the server
creates the type in the first schema of search_path (`SchemaOf`), while the entry goes into
the set of the named schema and DROP TYPE names that one. Indexes are created and dropped in
the schema of their table.

### RemoteTransaction and AtomicTransaction

Every connection has the state of its place in the pool (`place`, `owner`), the state
libpq shows (`libpq`), and the backend's (`backend`, `work`, `dirt`). A session goes from
`StartTransaction` through statements to one of the ways a transaction ends.

| In the model | In the code |
|---|---|
| `Obtain`, `Reset`, `Healthy`, `ReturnCached`, `ReturnClosed`, `Reap` | `PostgresConnectionPool`, `PostgresConnection::Reset`, `PingServer` |
| `StartTransaction`, `WaitForConnection`, `AcquireTimeout` | `PostgresTransaction`'s constructor, `PostgresConnectionPool` |
| `Statement`, `StatementFails`, `StatementLost` | `PostgresTransaction::Query`, `GetConnection` |
| `StatementWithoutTransaction`, `WithoutTransactionRefused` | `QueryWithoutTransaction`, `GetConnectionWithoutTransaction` |
| `PrepareFails` | `PGQueryBind` |
| `Commit...`, `Rollback...` | `Commit`, `Rollback` and what the server or the network can answer |
| `StalenessConnection`, `ScanConnection`, `StreamConnection` | `RunStalenessQuery`, `PostgresConnectionPool::TryGetConnection`, `ForceAcquire` |
| `Kill` | the server terminates a backend (external) |

DuckDB's own rule is assumed: an error other than a binder error invalidates the
transaction, which can then only be rolled back. The waiting inside the pool of
`dbconnector` (a submodule outside these sources) is modelled from its use.

`AtomicTransaction` has three actions: a statement that writes, one outside transactions,
and the end. Of a transaction that is said to be committed everything stays, of one that is
said to be rolled back nothing, and where COMMIT throws all or nothing. `IsAtomic` maps what
`RemoteTransaction` tells the session to those answers (`Told`). A COMMIT that the server
answers with ROLLBACK is mapped to "rolled_back", because that is what has happened; that
DuckDB reports success for it is `SuccessfulCommitIsDurable`, see section 5.

### WriteSession

A row of the table is a key, and its ctid the version that other clients' commits make. The
state is the connection as libpq sees it (`wire`: idle, a result not read to its end, or in
the COPY of a sink), the global states of the sinks (`active`, `buffer`, `count`), and the
chunks that DuckDB still has. `applied` is history: how often the server has changed a row.

| In the model | In the code |
|---|---|
| `Start`, `ReadSource` | `GetGlobalSinkState` of the sinks, `MaterializePostgresScans` |
| `SinkCopy`, `SinkUpdate`, `CopyChunk`, `KeepCopyAlive` | `PostgresInsert::SinkCopy`, `PostgresUpdate::Sink`, `PostgresConnection::CopyChunk` with keep_copy_alive |
| `SinkPlain`, `SinkDelete`, `Collect` | `PostgresInsert::SinkPlain`, `PostgresDelete::Sink` |
| `EndCopy`, `FinishCopy`, `FinalizeNothing`, `FinalizeBuffered`, `FinalizeUpdate` | `FinishCopyTo`, `FinalizeCopy`, `FinalizePlain`, `PostgresUpdate::Finalize`, `PostgresDelete` `Flush` |
| `WriteByCtid` | `DELETE ... WHERE ctid IN`, `UPDATE ... FROM` the temporary table |
| `LoadSchemas` | `ExecuteQueries` of the next binding, when the schemas are loaded again |
| `ServerRejects`, `SourceFails`, `Commit`, `Rollback`, `OtherCommits` | errors at every point, the end of the transaction, other clients |

### NumericCodec and BinaryCopy

A file is a sequence of 16-bit words. The writer appends whole chunks and may stop anywhere;
what the file system kept is any prefix. The reader reads through a buffer of `bufferSize`
words, gives the parser only complete rows (`FindLastCompleteRow`), and keeps the rest for
the next buffer. `DEC_DIGITS` is 2 instead of 4 and the integer of a DECIMAL has 11 bits, so
that three digits fit in it as nine do in 32 bits; every narrowing in the code is `Narrow`.

| In the model | In the code |
|---|---|
| `WriteDecimal`, `WriteTimestamp`, `WriteArray`, `WriteValue`, `WriteRow` | `PostgresBinaryWriter` |
| `NumericSend` | numeric_send of the server (external) |
| `InitializeGlobal`, `Sink`, `Finalize`, `Crash` | the functions of `postgres_binary_copy.cpp` |
| `Open`, `FillBuffer`, `Valid`, `ScanOffset`, `RowEnd`, `CheckHeader` | `PostgresBinaryFileReader` |
| `ReadTuple`, `ReadValue`, `ReadArray`, `ReadNumeric`, `ReadDecimal`, `ReadTimestamp` | `PostgresBinaryParser` |
| `ReturnChunk` | `PostgresBinaryReadScan` |

### TextFormat

A text is a sequence of characters of which only the special ones are told apart. The server
is at the other end: `CopyFrom`, `In` and `Out` are its COPY and the input and output functions
of arrays and records (external).

| In the model | In the code |
|---|---|
| `NeedsQuotes`, `QuoteAndEscapeIfNeeded`, `CastToPostgresVarchar` | `postgres_copy_to.cpp` |
| `WriteChar`, `WriteValue` | `PostgresTextWriter` |
| `ParseChar`, `AddString`, `AddCurrent`, `ParsePostgresNested` | `PostgresNestedParser`, `PostgresListParser`, `PostgresStructParser` |
| `ConvertList`, `ConvertStruct`, `ConvertVector` | `PostgresTextReader::ConvertList`, `ConvertStruct`, `ConvertVector` |
| `Read` | `PostgresTextReader::Read`, one chunk |

## 3. What is checked

| Run | Shows |
|---|---|
| `scan` | above READ COMMITTED the scan is that of the transaction's snapshot, each tuple once (`ScanExact`); also `OneCopyExact`, `BatchHasOneThread`, `MainConnectionNotShared`, `ReadersPinned`, `PageIdxNeverWraps` |
| `scan_live` | `QueryEnds`, `ConnectionsReturned` |
| `table_set` | two sessions doing everything, other clients' DDL at any moment, failing connections: `LookupFindsStable`, `SignatureCommitted`, `SignatureWrittenUnderLock` |
| `table_set_readers` | readers whose calls do not overlap list what the server has: `ScanIsCurrent` |
| `table_set_own_ddl` | a session sees its own ALTER (`OwnDdlVisible`); load_lock is always released (`LoadLockReleased`) |
| `schema_types` | each set gets its own rows (`SlicesComplete`), types are those of the server (`TypesAsDefined`), lookups find what they have to (`LookupFindsUnlessCleared`), and no circle of load_locks (`NoLockCycle`), with failing queries, DDL of both sides and pg_clear_cache |
| `transactions` | two sessions and three connections in each acquire mode, with failing statements and a killed backend: `StateMatchesServer`, `CachedIsClean`, `NoConnectionLeaked`, `CapHeld`, `NoWaitCycle`, and the refinement `IsAtomic` |
| `transactions_aborted` | violated `SuccessfulCommitIsDurable`: see findings |
| `write_session` | every statement of two, over tables that others change: `WrittenOnce`, `NoLostUpdate`, `CopyNeverInterrupted`, `CountIsExact` |
| `binary_copy` | written by DuckDB or the server, cut anywhere, read through buffers from 2 words up: `ReadsInOrder`, `IntactFileIsRead`, `TruncationNoticed`, `ReadEnds` |
| `decimal_overflow` | violated `ReadsInOrder`: see findings |
| `text_format` | 4593 columns of texts, lists, structs and their nestings: `StoredAsWritten`, `ReadAsStored` |

Deadlock is not checked: in every instance the system may stop, when the bounded number of
DDL statements, writes or commits is used up, when nobody starts another transaction, or
when a file has been read. That nobody waits for ever is stated by `NoWaitCycle`,
`NoLockCycle`, `LoadLockReleased`, `QueryEnds` and `ReadEnds`.

### Bounds, and why they are enough

* `ParallelScan`: two threads are one on the transaction's connection and one on the pool,
  or two on the pool; the disagreements of two readers need no third. Pages 0, 1 and 3 with
  relpages 0 to 3 and `TidMax` 5 give an empty estimate, an estimate below and above the
  real size, and pages behind the last range. `PerTaskChoices` has 1 (many ranges), 2
  (ranges that do not divide relpages) and 11 = `Word` - 1, the largest, which wraps in
  the unguarded sum. `VectorSize` 2 gives full and partial chunks. `MaxClock` 1 is one
  commit of another client, at any moment: two readers can differ by one instant.
* `CatalogSet`: two sessions, one of which is the other session of each hazard. One or two
  names; `MaxStamp` bounds the DDL statements (one exists at the start, so 3 allows two
  more), `MaxPending` the signatures one transaction stages: a call stages at most three.
* `SchemaTypes`: two schemas and a third that may be created, whose name is between theirs.
  The composites of one schema use an enum of the other, and a composite of their own; the
  table uses both. `MaxLoads` 2 is the load that follows a pg_clear_cache; `MaxCalls` 1 per
  session is enough for two loads at once, `MaxFailures` 1 for an exception in each place.
* `RemoteTransaction`: two sessions, three connections (both transactions' and one more),
  two writes (to tell all from nothing), one killed backend.
* `WriteSession`: three rows are more than a chunk (2) and than a flush (2), so that a
  statement has several of both; two statements show what the first leaves behind; two
  commits that change rows are one before and one after the scan.
* `BinaryCopy`: DECIMALs have no, one or two words of digits before the point and after it,
  with a scale that fills its words (2) or cuts the last one short (1 and 3), and
  zero digits that the server leaves out at either end, so that `ReadFraction` has a loop and
  both signs of its correction; with three digits at scale 3 only up to 0.102, as larger ones
  are the overflow of `decimal_overflow`. Timestamps are on both sides of the server's two
  limits and of the largest one of DuckDB, beyond which the server has some more that the
  reader refuses (`ServerEnd` + `EpochDiff` > `MaxInt`, as in the code), and both infinities.
  Three rows through buffers of 2 to 40 words give rows that are larger than the
  buffer, that fit exactly, that start in one buffer and end in the next, and several in one.
  A file cut exactly between two rows is read as a complete shorter one: the reader does not
  look for the footer, and `TruncationNoticed` admits it.
* `TextFormat`: strings of up to two of ten characters, which is every pair that a quote, an
  escape or a delimiter could be confused with; up to three rows in chunks of two.

### Fairness

`ParallelScan` assumes that DuckDB starts at least one task of a pipeline and runs every
started task on (`WF` of the start, of opening by some thread, and of each thread's steps)
and destroys the states at the end. Nothing is assumed of the pool: it may refuse every
thread but the first, and nothing of other clients. `CatalogSet` assumes that a thread
inside a call keeps running when it can (`WF` of `Progress(s)`); nobody has to make a call
or to end a transaction. Weak fairness suffices for load_lock because its holder never
waits for another lock. `BinaryCopy` assumes that DuckDB asks for chunks as long as the
reader has some: weak fairness of `Read`, written as `[]<>~CanRead \/ []<><<Read>>_vars`,
since TLC would otherwise compute whether each of its actions is enabled once more in every
state; the writer may stop at any time. The other modules have no liveness property: a
session may keep its transaction open for ever.

## 4. What is proved

`ParallelScanProofs`, for any set of threads, rows and pages, and any admissible values of
relpages, pages_per_task, `TidMax` and `Word`:

* `TypeCorrect`: `Spec => []TypeOK`.
* `PageIdxSafe`: `Spec => PageIdxNeverWraps`. Needs that page_idx is 0, or at least
  pages_per_task and below relpages, or `TidMax` (first part of `TaskInv`): only the first
  addition sees an arbitrary pages_per_task, and 0 + pages_per_task cannot wrap.
* `MainConnectionExclusive`: from `ConnectionInv`, who is connected to what.
* `NoTupleTwice`: from `RowInv` and `TaskInv`. Ranges whose COPY has not begun are disjoint
  and below page_idx; a tuple held or delivered is of no such range; so no COPY returns it
  again. At any isolation level, and also when the export of the snapshot fails.
* `ReadersArePinned` and `ScanIsExact`: under `Benign` == ~`ExportMayFail` /\
  ~`ExecuteWrites`, that is, the server accepts pg_export_snapshot() and nothing was
  written behind DuckDB's transaction. Both conditions are needed: see section 6.
  `ScanExact` speaks of the end of the scan only. The invariant that carries it is
  `CoverageInv`: of the pages below page_idx that do not wait for their COPY, exactly the
  tuples of the snapshot are held or delivered. It rests on `SnapshotInv` (every
  connection is at the main connection's snapshot) and on `TaskInv` (when the last range
  is taken, page_idx is `TidMax`, beyond every tuple).

* `BatchesHaveOneThread`, from `BatchInv`: batch_idx is above every index in use, and the
  indexes of two threads at work differ. Where relpages is 0 no index is taken before the
  first COPY; there the proof needs that such a scan has one thread. No `Benign` here.
* `OneCopyIsExact`, from `OneCopyInv`: a plan of one COPY has one range, the whole table
  and one thread (`OneCopyAlone`, from the arithmetic of `SetTablePages`), so page_idx is 0 or
  `TidMax`, and what is held or delivered is what one instant on the main connection shows.
  Under `ExportMayFail` and at READ COMMITTED too, where `ScanExact` fails.

`ScanInv` is the conjunction for the scan at one snapshot; the proof that a step preserves
it has one step per action and below it one per conjunct. The assumptions about the
constants are `ScanAssumption`: relpages fits below `TidMax` (an int4 against 2^32 - 1),
pages_per_task is not zero (`PrepareBind` replaces zero), and twice `TidMax` is below `Word`.

`CatalogSetProofs`, for any sessions, names and number of DDL statements:

* `LoadLockInsideLoad`: only a session inside a load or reload holds load_lock.
* `SignatureGuarded`: `Spec => SignatureWrittenUnderLock`. CREATE, DROP and CREATE VIEW
  refresh the signature without load_lock. That is safe only because they have begun the
  remote transaction before, so that the signature is staged. `LockControl` ties the
  program counter to the lock and to the transaction state.
* `SetTypeOK`, from `TypeInv`: the types need `CallAt`, what a call has read and staged at
  each value of `pc`, because a call goes on with what it read before a query. The bound on
  staged signatures counts those a call has still to stage (`StagedLater`).
* `SetSignatureCommitted`, from `SignatureInv`: a stamp belongs to one transaction
  (`OwnInv`), and the server, each snapshot and the signature are known to everyone, that
  is, hold no stamp of an open or undone transaction, while a staged signature may hold
  those of its own session (`KnownInv`). COMMIT makes the second into the first at the
  moment it empties `own`, and `Promote` comes only after.
* `LookupsFind`: `Spec => []LookupFindsStable`. `FoundOrMissing` says it for one session and
  `OtherAnswers` that nothing the others do touches an answer, except a commit, which ends
  the quiet period. Whatever the set holds, a miss in it is followed by a query of the
  session's own transaction, and only that may answer that there is nothing (`OwnAnswer`).

`CatalogAnswersProofs`, for any number of names and of DDL statements. The two properties are
false for some constants the code allows, so each theorem names a condition on the constants;
section 6 says which part of the code needs it. TLC finds a violation when any one conjunct
of a condition is dropped.

* `OwnAlterVisible`: `WorksAlone` (one session, no CREATE TABLE or VIEW) implies
  `Spec => []OwnDdlVisible`, whatever other clients do and whichever query fails. From
  `AloneInv`: a loaded set holds what the session has altered, but for the moment between
  ALTER and the clearing of the set, and the slice of the schemas' query is used up before
  anything is altered, so that a load after ALTER reads the session's own view.
* `ReadersSeeTheServer`: `ReadersTakeTurns` (lookups and scans that do not overlap, the
  staleness check on everywhere, READ COMMITTED, no failing connection, other clients
  create and alter between calls) implies `Spec => []ScanIsCurrent`, for any number of
  readers. From `ReaderInv`: a signature that equals the server's state, in force or staged
  by anyone, is that of the loaded entries (`SignedInv`), and a set that is not loaded and
  that nobody is filling is empty (`EmptyInv`). New DDL keeps `SignedInv` because its stamp
  is in no signature yet, which is `KnownInv` of `CatalogSetProofs`.

`RemoteTransactionProofs`, for any number of sessions, connections, writes and failures and
any options of ATTACH that `ValidatePoolAcquireMode` accepts (`TransactionAssumption`):

* `NoConnectionLeakedTheorem`, from `PoolInv`: a connection has an owner exactly while a
  transaction uses it, and a session is inside a transaction exactly from when it gets its
  connection until it gives it back.
* `TypeCorrect`, `StateMatchesServerTheorem`, `CachedIsCleanTheorem`,
  `ReadOnlyNeverWritesTheorem`, from `TxInv`: connections nobody uses have neither open
  transactions nor work; the work of a backend is what its session's transaction wrote, or
  nothing if it was aborted or its backend died; write numbers are ahead of all that are in
  use; a READ_ONLY database has no work at all.
* `Atomicity`: `Spec => IsAtomic`. The initial states are those of `AtomicTransaction`, and
  under `TxInv` each statement is a `Write`, a `WriteAlone` or a stutter, each end of a
  transaction that wrote is its `End`, and everything else (pool, resets, pings, killed
  backends, timeouts) a stutter. `TxInv` is needed because what becomes durable is the
  backend's work, while what is promised is about what the session wrote.
* `CommitDurableWithoutBinderErrors`: if no PQprepare fails, a COMMIT that reports no error
  is durable. `CommitInv` says that a transaction that DuckDB may still commit has a backend
  that is not aborted; only `PrepareFails` breaks it. With `transactions_aborted` this
  shows that PQprepare is the only cause.
* `CapHeldTheorem`: counts connections; a statement opens one only below the limit.
* `NoWaitCycleTheorem`: `OneToSpare` implies `Spec => []NoWaitCycle`. The condition is on
  the mode "wait" only: pg_pool_max_connections exceeds the number of sessions (and `Conns`,
  the bound of the model, does). `WaitInv` says that a session waits in that mode only, and
  that it then has no connection but that of its transaction. So `owner` is an injection
  from the open connections into the sessions if waiting sessions hold them all
  (`HeldByWaiting`), and the pool would have opened one more. One connection less and the
  theorem is false (section 6); it does not need `streams` to be off.

`WriteSessionProofs`, for every table, every `ChunkRows` and `FlushRows` and any number of
statements and commits:

* `CopyNeverInterruptedTheorem`, from `SinkInv`: while nothing has failed, a COPY is open
  exactly as long as its sink says so, and its sink is the only one of the statement. The
  second half is what keep_copy_alive = false of MERGE buys.
* `NoLostUpdateTheorem`, from `LostInv`: a key that the statement has changed was at the
  version it has read when it was changed, and from then on nobody else changes it.
* `WriteTypeOK`, `WrittenOnceTheorem` and `CountIsExactTheorem`, from `WriteInv`. `PlaceInv`
  splits the rows of the source: each is in the input, in the chunk, or in what one sink
  has not yet sent, or in no such place. `AppliedInv` says that the latter, and they only,
  have been applied, exactly once, or were lost to another client at READ COMMITTED; one
  lemma (`AppliedStep`) carries every action that sends rows. `CountInv` says that a
  sink's count is the number of the rows it has taken out of the chunks, also of those it
  has not sent. Where a cursor or sink forgets or repeats a row, one of the two breaks.

`SchemaTypesProofs`, for every catalog, any number of sessions, loads and failures:

* Lemmas on the rows of a query. `PlacesTaken`: a finite set with a linear order has an
  element in every place, so that `Ordered` is what ORDER BY returns. `EndsExist`: the
  slices that `SliceResult` cuts are well defined for any rows, in whatever order.
  `SlicesOwnRows`, `SlicesCut`: a schema never gets a row of another one.
* `LoadingThreadHoldsTheLock`: `Spec => []TypeOK`, whose core is that loading_thread names
  whoever holds load_lock: `SkipsLoad` trusts it without a lock. `LocksInv` adds that a call
  holds the lock of its set exactly where its `pc` says (`Holding`), that the calls below it
  on the stack are suspended while it looks up a type for them, and that each set a session
  has locked is that of exactly one of its calls.
* `LocksAreOrdered`: `TypesInOrder` implies `Spec => []NoLockCycle`. The condition is that
  the schemas can be ranked so that a composite type refers to its own schema or to schemas
  of lower rank; tables may refer to all. From `OrderInv`, every call on the stack of a
  session is on types of a lower rank than those below it, or on the set which the call
  below is loading, where `SkipsLoad` lets it pass. A wait then leads from the types of one
  schema to those of a lower one, and the schemas waited for on a cycle would have no
  lowest one. The catalog of the run `schema_types` meets the condition with the ranks 0, 1
  and 0 of its schemas 1, 2 and 30 (TLC also checks `OrderInv` there). The condition is
  needed: `MCAcross` does not meet it, and TLC finds its cycle (section 6).

`SchemaSlicesProofs`, for every catalog:

* `NoRowIsLost`: `NewSchemasLast` implies `Spec => []SlicesComplete`. `SliceResult` and
  `SliceResultByName` go along the schemas and the rows once, in one order; a row of a
  schema that they do not meet ends the cut. `SliceHasRow` says when that is harmless: both
  are sorted (`SchemaRowsOrdered`, `RowsOrdered`), and the rows of schemas that are not
  among them come last. `SliceInv` shows that the answers are so. A transaction at
  REPEATABLE READ has one snapshot, and what is on the server is closed (`Whole`): every
  object has its schema. At READ COMMITTED the later queries see newer schemas, which have
  larger oids than all that were ever used (`ServerKeeps`, `AnswersKeep`) and so come last
  in the order of oids. Only in the order of names they may not: there, and for no other
  setting, `NewSchemasLast` asks that tables of other clients come in schemas that exist
  from the start or whose names follow those of all older ones. The condition is needed
  (section 6). The run `schema_types` leaves that setting out; with the
  constants of section 6 TLC finds no violation either once the name of 30 is the last one.
  The rest of `SliceInv` says that the five answers keep what has been there all the time,
  and that a schema entry is never newer than the last load, so that a load never cuts
  slices for a set that is in use (`SetsKept`, `SetsCut`). The server is assumed to start in
  a state that it can be in: each object with its schema and its types.

`SchemaLookupsProofs`, for every catalog, any number of sessions, loads and failures:

* `DefinitionOf`: the recursion that says what a type is made of has a solution, namely the
  types that every closed set of objects with it contains, so that `Definition` satisfies
  its equation. `DefinitionWithin` then bounds it: an object that needed more would have a
  least one below it that does, as references go to older objects.
* `LookupsFindUnlessCleared`: `TypesInOrder`, `NewSchemasLast`, `OthersKeepOut` and
  `NamedWhereCreated` imply `Spec => []LookupFindsUnlessCleared`. It says that lookups do not
  miss anything because of each other, of failures or of half-loaded sets; pg_clear_cache may
  come at any moment, but what it makes lookups on their way miss is not counted (nothing is
  due after it): that is `LookupSurvivesClear`, which is violated (section 6). The invariant
  is `LookupInv`, on top of `LocksInv`, `OrderInv` and `SliceInv`. `CacheInv` says
  where an object is that the cache has to hold (`Kept`): in the entries of its set or, as
  long as that is not loaded, in its slice. `Kept` is more than `due`: also what the types
  and tables in `due` are made of, and what DuckDB has created in a schema whose entry the
  next load of the schemas leaves alone. `CallHas` says that a thread that loads a set has
  the rest among what it has built and what it has still to build. `ReadInv` and
  `HistoryInv` connect the five queries: what the first has seen, and the types of what the
  second has seen, are in the answers to the later ones. `Steady` states what a step leaves
  of the calls it takes no part in, so that each action is only about its own session.
  Where a thread looks into the set of types it is just loading itself (`SkipsLoad`), what
  it looks for is older than the type it builds, and composites are built in the order of
  oids (`Ascending`), so that it is there already.
* `TypesAreAsDefined`: the same conditions and `TypesCovered` imply
  `Spec => []TypesAsDefined`. The invariant is `ValueInv`, on top of the four above.
  `EntriesRight` is the property for all of `Kept`: a table in
  `due` is built of types that are not due themselves, so it would not be inductive for
  `due`. `TypeBuilt` says of every call that what it has collected for the object it builds
  (`got`), and what the types still to be looked up are made of, add up to the definition.
  It survives the return of a call because what is found in a set in use is right, and what
  is not found is not in `Kept` (`NotFoundNotKept`, where `LookupInv` comes in). For that the
  call above must be in a set that is in use as long as the one below is (`Upholds`), and
  what is in `Kept` must refer to `Kept` only (`KeptClosed`). `ValuesStay` carries all that
  over a step that is right about the entries it adds and the calls it changes (`StepFits`),
  which is then shown action by action.
* Each condition is needed; section 6 has TLC's counterexamples. `OthersKeepOut`: other
  clients create nothing in a schema that DuckDB creates. `NamedWhereCreated`: a type that
  DuckDB creates is named in the schema in which the server creates it, the first one of
  search_path. `TypesCovered`: at READ COMMITTED
  the types of tables that come during a load are in schemas that exist from the start.
  `TypesInOrder` and `NewSchemasLast` are those of the theorems above, and the catalog of
  the run meets all.

Only model-checked:

* Liveness: the prover has no rules for fairness.
* `BinaryCopy` and `TextFormat`: what a reader makes of a file or a text is defined by
  recursion over the data, which needs an induction the prover cannot do.

## 5. Findings

Runs that end in a violation, each a disagreement of the code with its documents or tests:

1. `transactions_aborted`: a failing `postgres_query` aborts the remote transaction but not
   DuckDB's; COMMIT then reports success and everything is lost.
2. `decimal_overflow`: `WriteDecimal` aligns the fraction in the integer type of the column,
   where up to three more digits need not fit. With a scale of 9 in 32 bits, 17 or 18 in 64,
   37 or 38 in 128, values are written wrong without an error: 0.5::DECIMAL(9,9) as
   0.001783793664.

## 6. Other disagreements met while modelling

They have no run of their own; the constants given reproduce them.

Scans:

* Rows written with postgres_execute leave DuckDB's transaction read-only; a large scan is
  split over connections that cannot see them: `ExecuteWrites = TRUE` in
  `MCParallelScan.cfg` violates `ScanExact`.
* A rejected pg_export_snapshot() is swallowed (`postgres_scanner.cpp:88`); the later
  connections then read at instants of their own, against the comment at
  `postgres_scanner.cpp:447`: `ExportMayFail = TRUE` there violates `ReadersPinned` and
  `ScanExact`.
* `ForceAcquire` for the first thread of a streaming scan (`postgres_scanner.cpp:444`) goes
  beyond the limit of the pool; `CapHeld` excludes such scans by `options.streams`. The
  setting's description (`postgres_extension.cpp:247`) says so.

Catalog:

* A staleness check of one session empties the set between `TryLoadEntries` and the use of
  the entries in another, whose SHOW TABLES is then empty: `OverlappingCalls = TRUE` in
  `MCTableSetReaders.cfg` violates `ScanIsCurrent`. No DDL is needed, because the first
  load's signature waits for COMMIT.
* The tables of a schema come from the slice read with the schemas, and are signed with a
  fresh signature that absorbs DDL in between: `Sliced = TRUE` there.
* In a REPEATABLE READ transaction the load reads an old snapshot, the signature is fresh:
  `RepeatableRead = TRUE` there.
* A staleness query that throws at the end of a load leaves the new entries in a set that
  is not loaded; a later load inserts only what is missing: `PoolMayFail = TRUE` there.
* The signature that CREATE, DROP or a reload of one table stages covers the whole schema,
  so that DDL of other clients since the last load counts as seen: add "create" to the
  `Ops` there. One session is enough: `ScanIsCurrent` fails in `MCTableSetOwnDdl.cfg` too.
* After ALTER and ROLLBACK the shared set keeps the rolled back definition:
  `RolledBackNotServed` in `MCTableSetOwnDdl.cfg`. A DROP that is rolled back leaves the
  table out of the shared set's scans; a lookup reloads it. CREATE and DROP SCHEMA, and
  CREATE and DROP TYPE, have no reload: after a ROLLBACK the set stays wrong until
  pg_clear_cache.
* ALTER clears the set without load_lock. A load that another session has in progress puts
  the old definition back: two sessions in `MCTableSetOwnDdl.cfg` violate `OwnDdlVisible`.
* `PostgresCatalogSet::GetEntry` looks into the entries after `TryLoadEntries` has returned
  (`storage/postgres_catalog_set.cpp:18`). A pg_clear_cache
  (`storage/postgres_clear_cache.cpp:32`) in between empties the set of schemas, which has no
  reload, and the lookup throws "Schema with name ... not found"
  (`storage/postgres_catalog.cpp:241`) for a schema that exists.
  `test/sql/concurrent/concurrent_clear_cache.test:18` runs sixteen threads that call
  pg_clear_cache and read a table, and expects each to find it. With `Settings <- MCDefault`,
  `OtherClients = {}`, `Wanted = {14}`, `OwnDdl = {}`, `MaxFailures = 0` and the invariant
  `LookupSurvivesClear` in `MCSchemaTypes.cfg`, TLC finds the miss: the two sessions look up
  table 14, one of them has loaded the schemas, pg_clear_cache comes, it looks into the set.
  Two more outcomes of the same race are behaviours of the model. Where pg_clear_cache comes
  while a session is about to finish the load of the schemas, the load declares a set loaded
  that has been emptied, and no lookup finds a schema until the next pg_clear_cache. Where the
  lookup that misses is the one for a column's type, the column becomes VARCHAR without an
  error, in an entry of a set that no later lookup uses. Neither `LookupFindsUnlessCleared`
  nor `TypesAsDefined` counts these: after a pg_clear_cache nothing is due, and the set is not
  in use.
* `GetCreateTypeSQL` (`storage/postgres_type_set.cpp:168`) writes the name of the type without
  its schema: CREATE TYPE s.other.t creates t in the first schema of search_path, its entry
  comes into the set of other, and DROP TYPE s.other.t fails on the server. With
  `NamedIn <- MCElsewhere`, `Wanted = {21}`, `OwnDdl = {21}`, `OtherClients = {}`,
  `MaxCalls = 2` and `MaxFailures = 0` in `MCSchemaTypes.cfg`, TLC violates
  `LookupFindsUnlessCleared`: the type that was created is not found where it is.
* Types of two schemas that use each other: with `Initial <- MCAcross`,
  `Settings <- MCDefault`, `OwnDdl = {}`, `OtherClients = {}`, `Wanted = {12, 17}` and
  `MaxFailures = 0` in `MCSchemaTypes.cfg`, TLC violates `TypesAsDefined` and
  `LookupFindsUnlessCleared`: the set that is half loaded when the other one asks it for a type
  answers that there is none (`storage/postgres_catalog_set.cpp:115`), and the column stays
  VARCHAR although the fallback is for when "either schema or type is not available"
  (`postgres_utils.cpp:425`). It also violates `NoLockCycle`: two sessions that start with
  one schema each hold one load_lock and wait for the other for ever.
* Where the catalog is cleared before CREATE SCHEMA puts its entry into the set, that entry
  outlives the next load, which leaves entries of the same name alone, and its sets count as
  loaded though other clients have created types in the schema: with `Schemas = {1, 30}`, an
  enum 31 in 30, `OwnDdl = {30}`, `OtherClients = {31}`, `Wanted = {30, 31}`, `MaxCalls = 2`
  and `MaxFailures = 0`, TLC violates `LookupFindsUnlessCleared`.
* At READ COMMITTED a table that comes between the first and the second query can use a type
  of a schema that the first query has not seen; the column becomes VARCHAR: with
  `Settings` = {<<"read_committed", FALSE>>}, `OtherClients = {30, 31, 41}`, 41 a table in 1
  with `Refs` <<31, 12>>, `OwnDdl = {}` and `Wanted = {41}`, TLC violates `TypesAsDefined`.
* At READ COMMITTED the queries through information_schema do not see the same schemas.
  `SliceResultByName` stops at the first row of a schema that the first query did not
  return, and every schema behind it in the order of names gets nothing: with
  `Settings <- MCByNameCommitted`, `OwnDdl = {}`, `OtherClients = {30, 31}`, `Wanted = {14}`
  and `MaxFailures = 0`, TLC violates `SlicesComplete`. `SliceResult` orders by oid, where
  a new schema comes last.
* A composite type that was altered to use a type with a larger oid of its schema is built
  before that one, and gets VARCHAR: composites are built in the order of their oids. In
  the models types only use older ones.
* With the staleness check off, a table dropped and created by another client is found
  under its old definition. Types and schemas have no staleness query at all: what another
  client creates is not seen until pg_clear_cache. Names that differ in case only share one
  key of entry_map, but `ReloadEntry` asks the server for the exact spelling: a `Fold` that
  is not the identity.

Transactions and writes:

* In acquire mode "wait" each session can hold its transaction's connection and wait for
  another one for the staleness query: `OptionChoices <- OnePerSession` in
  `MCTransactions.cfg` violates `NoWaitCycle`; only pg_pool_wait_timeout_millis ends it.
* At READ COMMITTED, UPDATE and DELETE return the number of rows sent, also where other
  clients have moved a row since the scan and the server has changed fewer. `CountIsExact`
  is therefore about REPEATABLE READ, and `WrittenOnce` makes the exception explicit.
* `FinishCopyTo` reads one PGresult and not the NULL behind it. Where the next thing on the
  connection is `ExecuteQueries`, libpq refuses with "another command is already in
  progress" (`LoadSchemas` with `wire` = "busy"); the statement fails and can be repeated.

Formats:

* `WriteArray` requires that all inner lists have the length of the first; it reads an inner
  NULL as a list, and writes a list of three dimensions with an empty one as no array the
  server takes. The number of columns of a row in a binary file is compared with the
  table's in a D_ASSERT only (`postgres_binary_parser.cpp`), which release builds leave out.
* Text protocol. `PostgresTextReader` reads two grammars with one parser. TLC violates
  `ReadAsStored` for these columns of `TextFormat`, which the run leaves out:
  - a struct behind a NULL struct (`NullStructs` of `MCTextFormat`): row_offset is not
    advanced (`postgres_text_reader.cpp:245`), rows move up by one and the last is memory
    that nobody has written;
  - a struct whose last field is NULL (`NullFields`), refused with "Missing columns"; after
    a quoted field it becomes an empty string instead;
  - an unquoted parenthesis in an element of a list (`{(,a}` is read as one element, `{)}` is
    refused), likewise a brace in a field of a struct;
  - a quote in a field of a struct: record_out doubles it, the parser drops both;
  - strings with commas or braces in a nested array: the inner quotes are lost;
  - the word NULL as a field of a struct, which becomes a NULL.
* Text COPY. A list element that is the word NULL is written without quotes and becomes a
  NULL: `NeedsQuotes` does not know the word. `StoredAsWritten` fails for
  `<<List(<<NullWord>>)>>`, and holds for all other columns.

## 7. Not modelled, and why

* Type mapping, SQL generation, quoting, and the pushdown of filters, LIMIT and ORDER BY:
  pure functions on strings and expressions without state; tests reach them.
* In the binary format the types that are copied byte by byte, and in the text format blobs,
  geometries, ctids and hstore, which are texts without special characters.
* Secrets, tokens, OAuth: wall-clock time and services outside the repository.
* Registration of functions and settings, logging: no behaviour over time.
* `postgres_configure_pool` and the pool's thread-local cache: settings changed while
  connections are out, and a cache inside `dbconnector`.
* Data races on libpq calls of one connection: the models say which thread may use a
  connection, and take a libpq call as one step.
* ON CONFLICT and RETURNING of INSERT; the estimate of pages that `FinalizeCopy` raises.

## 8. Plan

Done: the components above with their compositions, the abstract specification and its
refinement, and the proofs of section 4. What is left, in this order; each property aimed
at a listed hazard, and runs stay few:

1. `postgres_configure_pool` as actions of `RemoteTransaction`, once the sources of
   `dbconnector` are at hand.
2. The token cache of `storage/postgres_catalog.cpp`: a clock, an age, and a connection that
   is opened late.

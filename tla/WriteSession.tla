----------------------------- MODULE WriteSession -----------------------------
(***************************************************************************)
(* INSERT, CREATE TABLE AS, UPDATE, DELETE and MERGE INTO of an attached   *)
(* table: physical operators that are sinks of a DuckDB pipeline and write *)
(* over the one libpq connection of their transaction.  INSERT streams its *)
(* rows into a COPY FROM STDIN that stays open between chunks, or collects *)
(* the text of plain INSERTs; UPDATE streams into a temporary table and    *)
(* ends with one UPDATE that joins it on ctid; DELETE collects lists of    *)
(* ctids; MERGE INTO runs several of these sinks over the same chunks.     *)
(*                                                                         *)
(* A row of the table is a key; its ctid is the version of the row, 0      *)
(* where there is none, and MyVersion for a version this transaction       *)
(* wrote.  Other clients commit updates and deletes at any time.  The      *)
(* server's locks, its snapshots and its errors are external, and so is    *)
(* DuckDB's pipeline.  The estimate approx_num_pages that FinalizeCopy     *)
(* raises is left out: the number of pages of a table is arbitrary in      *)
(* ParallelScan.                                                           *)
(***************************************************************************)
EXTENDS Integers, FiniteSets

CONSTANTS
  Keys,
  Kinds,           \* the statements that are run
  PlainChoices,    \* UsePlainInserts: whether INSERT may not use COPY
  Isolations,      \* subset of {"repeatable_read", "read_committed"}, an option of ATTACH
  ChunkRows,       \* bound: rows of a DataChunk
  FlushRows,       \* rows that fill INSERT_FLUSH_SIZE, or the 3000 characters of ctids
  SchemasReloaded, \* the schemas are loaded again in the transaction, after pg_clear_cache
  MaxStatements,   \* bound: statements
  MaxVersion       \* bound: commits that change rows

Actions   == {"insert", "update", "delete"}
MyVersion == -1
Versions  == {MyVersion} \cup 0 .. MaxVersion

ActionsOf == [insert |-> {"insert"}, ctas |-> {"insert"}, update |-> {"update"},
              delete |-> {"delete"}, merge |-> Actions]

ASSUME WriteAssumption ==
  /\ IsFiniteSet(Keys)
  /\ Kinds \subseteq DOMAIN ActionsOf
  /\ PlainChoices \subseteq BOOLEAN /\ SchemasReloaded \in BOOLEAN
  /\ Isolations \subseteq {"repeatable_read", "read_committed"}
  /\ ChunkRows \in Nat \ {0} /\ FlushRows \in Nat /\ ChunkRows <= FlushRows
  /\ MaxStatements \in Nat /\ MaxVersion \in Nat \ {0}

VARIABLES
  plain,       \* use_plain_inserts
  isolation,
  table,       \* committed version of each row
  nextVersion,
  tx,          \* "none", or "started" once BEGIN has been sent
  snap,        \* what the transaction saw committed when it started
  own,         \* what it did to each row: "same", "written" or "gone"
  wire,        \* libpq: "idle"; "busy": a PGresult has been read, but not yet the NULL
               \* after the last; an action: its COPY FROM STDIN is open; "copy_out"
  received,    \* rows the open COPY has taken
  temp,        \* rows of UPDATE's temporary table
  phase,       \* "idle", "source", "chunks", "finish", "done" or "failed"
  kind,
  rows,        \* what the source returned: for each key an action and a version
  input,       \* rows still in the source
  chunk,       \* rows of the current DataChunk that no sink has taken
  left,        \* sinks that are not finalized
  active,      \* copy_is_active of the sinks
  buffer,      \* insert_values and ctid_list
  count,       \* insert_count, update_count, delete_count
  applied,     \* how often the server changed a row for this statement
  failure,     \* why the statement failed
  statements

serverVars == <<table, nextVersion>>
txVars     == <<tx, snap, own>>
wireVars   == <<wire, received, temp>>
planVars   == <<plain, isolation, kind, rows, statements>>
flowVars   == <<input, chunk, left>>
sinkVars   == <<active, buffer, count>>
vars == <<serverVars, txVars, wireVars, planVars, flowVars, sinkVars, phase, applied, failure>>

NoRow == [act |-> "none", ver |-> 0]

\* What a statement leaves behind.
NoStatement ==
  /\ kind' = "none"
  /\ rows' = [k \in Keys |-> NoRow]
  /\ input' = {} /\ chunk' = {} /\ left' = {}
  /\ active' = [a \in Actions |-> FALSE]
  /\ buffer' = [a \in Actions |-> {}]
  /\ count' = [a \in Actions |-> 0]
  /\ applied' = [k \in Keys |-> 0]
  /\ received' = {} /\ temp' = {}
  /\ failure' = "none"
  /\ phase' = "idle"

Init ==
  /\ plain \in PlainChoices /\ isolation \in Isolations
  /\ table \in [Keys -> {0, 1}] /\ nextVersion = 2
  /\ tx = "none" /\ snap = [k \in Keys |-> 0] /\ own = [k \in Keys |-> "same"]
  /\ wire = "idle" /\ received = {} /\ temp = {}
  /\ phase = "idle" /\ kind = "none" /\ rows = [k \in Keys |-> NoRow]
  /\ input = {} /\ chunk = {} /\ left = {}
  /\ active = [a \in Actions |-> FALSE]
  /\ buffer = [a \in Actions |-> {}]
  /\ count = [a \in Actions |-> 0]
  /\ applied = [k \in Keys |-> 0]
  /\ failure = "none"
  /\ statements = 0

-------------------------------------------------------------------------------
(* The connection.                                                         *)

Repeatable == isolation = "repeatable_read"
Open       == wire \notin {"idle", "busy"}

\* What a command of the transaction sees.
View ==
  [k \in Keys |-> CASE own[k] = "written" -> MyVersion
                    [] own[k] = "gone"    -> 0
                    [] OTHER -> IF Repeatable /\ tx = "started" THEN snap[k] ELSE table[k]]

\* PostgresTransaction::GetConnection: BEGIN goes before the first command.
Begin ==
  /\ tx' = "started"
  /\ snap' = IF tx = "started" THEN snap ELSE table

\* The statement throws while it runs a command.
Throw(reason) ==
  /\ phase' = "failed" /\ failure' = reason
  /\ wire' = "idle"
  /\ UNCHANGED <<txVars, received, temp, applied>>

\* PQexec reads what the command before it left; an open COPY it ends with an error, and
\* the transaction is aborted.
Command(effect) == IF Open THEN Throw("copy_terminated") ELSE effect

Apply(done, what) ==
  /\ own' = [k \in Keys |-> IF k \in done THEN what ELSE own[k]]
  /\ applied' = [k \in Keys |-> IF k \in done THEN applied[k] + 1 ELSE applied[k]]

\* Mutant: a row is found again by its key.
WriteByKey(S, what) ==
  LET found == {k \in S : View[k] # 0}
  IN Apply(found, what) /\ wire' = "idle" /\ UNCHANGED <<tx, snap, received, temp, phase, failure>>

\* DELETE ... WHERE ctid IN and UPDATE ... WHERE ctid =: a row the transaction no longer
\* sees under that ctid is not found; one that was changed after its snapshot cannot be
\* serialized.
WriteByCtid(S, what) ==
  LET found == {k \in S : View[k] = rows[k].ver}
  IN IF Repeatable /\ \E k \in found : own[k] = "same" /\ table[k] # snap[k]
     THEN Throw("serialization")
     ELSE /\ Apply(found, what)
          /\ wire' = "idle"
          /\ UNCHANGED <<tx, snap, received, temp, phase, failure>>

\* Plain INSERTs, and what COPY puts into the table.
InsertRows(S) == Apply(S, "written") /\ UNCHANGED <<tx, snap, phase, failure>>

-------------------------------------------------------------------------------
(* The statement: sinks are made, then the source is read, then chunks flow. *)

\* GetGlobalSinkState: UPDATE creates its temporary table, CREATE TABLE AS its table.
CreatesTable(k) == k = "ctas" \/ "update" \in ActionsOf[k]

Start(k) ==
  /\ phase = "idle" /\ statements < MaxStatements
  /\ statements' = statements + 1
  /\ kind' = k
  /\ Begin
  /\ wire' = IF CreatesTable(k) THEN "idle" ELSE wire
  /\ phase' = "source"
  /\ UNCHANGED <<serverVars, own, received, temp, plain, isolation, rows, flowVars, sinkVars,
                 applied, failure>>

\* The rows a source may return, given what it sees of the table.
ActionFor(k, seen) ==
  CASE kind = "merge" -> IF seen[k] = 0 THEN {"insert"} ELSE {"update", "delete"}
    [] kind \in {"insert", "ctas"} -> IF seen[k] = 0 THEN {"insert"} ELSE {}
    [] OTHER -> IF seen[k] = 0 THEN {} ELSE {kind}

Source(seen, after) ==
  /\ phase = "source"
  /\ rows' \in {r \in [Keys -> [act : Actions \cup {"none"}, ver : Versions]] :
                  \A k \in Keys : IF r[k].act = "none" THEN r[k] = NoRow
                                  ELSE r[k].act \in ActionFor(k, seen) /\ r[k].ver = seen[k]}
  /\ input' = {k \in Keys : rows'[k].act # "none"}
  /\ wire' = after
  /\ phase' = "chunks"
  /\ UNCHANGED <<serverVars, txVars, received, temp, plain, isolation, kind, statements, chunk,
                 left, sinkVars, applied, failure>>

\* Mutants: scans are not materialized; they use connections of the pool.
ReadSourceStreaming == Source(View, "copy_out")
ReadSourceElsewhere == Source(table, "idle")

\* MaterializePostgresScans: every scan below the sink reads all its rows on the
\* transaction's connection before the first chunk.
ReadSource == Source(View, "idle")

NextChunk ==
  /\ phase = "chunks" /\ chunk = {} /\ input # {}
  /\ \E c \in SUBSET input :
       /\ c # {} /\ Cardinality(c) <= ChunkRows
       /\ chunk' = c
       /\ input' = input \ c
  /\ UNCHANGED <<serverVars, txVars, wireVars, planVars, left, sinkVars, phase, applied, failure>>

RowsFor(a) == {k \in chunk : rows[k].act = a}

Took(a) ==
  /\ chunk' = chunk \ RowsFor(a)
  /\ count' = [count EXCEPT ![a] = @ + Cardinality(RowsFor(a))]

\* Mutant: MERGE keeps the COPY of its sinks open as well.
KeepAlways == TRUE

\* keep_copy_alive
KeepCopyAlive == kind # "merge"

\* PQputCopyEnd and one PQgetResult: the rows arrive.
EndCopy(a, taken) ==
  /\ wire' = "busy"
  /\ received' = {}
  /\ active' = [active EXCEPT ![a] = FALSE]
  /\ IF a = "insert" THEN InsertRows(taken) /\ UNCHANGED temp
     ELSE temp' = temp \cup taken /\ UNCHANGED <<txVars, phase, applied, failure>>

\* BeginCopyTo: PQexec of COPY ... FROM STDIN ends a COPY that is open.
BeginFails(a) == ~active[a] /\ Open

\* CopyData: PQputCopyData outside of a COPY.
PutFails(a) == active[a] /\ wire # a

CopyChunk(a) ==
  /\ phase = "chunks" /\ RowsFor(a) # {}
  /\ Took(a)
  /\ IF BeginFails(a) THEN Throw("copy_terminated") /\ UNCHANGED active
     ELSE IF PutFails(a) THEN Throw("no_copy_in_progress") /\ UNCHANGED active
     ELSE IF KeepCopyAlive
     THEN /\ wire' = a
          /\ active' = [active EXCEPT ![a] = TRUE]
          /\ received' = received \cup RowsFor(a)
          /\ UNCHANGED <<txVars, temp, phase, applied, failure>>
     ELSE EndCopy(a, RowsFor(a))
  /\ UNCHANGED <<serverVars, planVars, input, left, buffer>>

SinkCopy   == ~plain /\ CopyChunk("insert")
SinkUpdate == CopyChunk("update")

\* Plain INSERT ... VALUES, or DELETE ... WHERE ctid IN.
SendRows(a, S) ==
  Command(IF a = "delete" THEN WriteByCtid(S, "gone")
          ELSE InsertRows(S) /\ wire' = "idle" /\ UNCHANGED <<received, temp>>)

\* Mutant: the text that was sent is not reset.
CollectNoReset(a) ==
  /\ phase = "chunks" /\ RowsFor(a) # {}
  /\ Took(a)
  /\ buffer' = [buffer EXCEPT ![a] = @ \cup RowsFor(a)]
  /\ IF Cardinality(buffer'[a]) < FlushRows
     THEN UNCHANGED <<txVars, wireVars, phase, applied, failure>>
     ELSE SendRows(a, buffer'[a])
  /\ UNCHANGED <<serverVars, planVars, input, left, active>>

\* The rows are collected one by one, and sent when there is enough of them: with
\* ChunkRows <= FlushRows at most once for a chunk.
Collect(a) ==
  /\ phase = "chunks" /\ RowsFor(a) # {}
  /\ LET all == buffer[a] \cup RowsFor(a)
     IN IF Cardinality(all) < FlushRows
        THEN /\ Took(a)
             /\ buffer' = [buffer EXCEPT ![a] = all]
             /\ UNCHANGED <<txVars, wireVars, phase, applied, failure>>
        ELSE \E sent \in SUBSET all :
               /\ buffer[a] \subseteq sent /\ Cardinality(sent) = FlushRows
               /\ Took(a)
               /\ buffer' = [buffer EXCEPT ![a] = all \ sent]
               /\ SendRows(a, sent)
  /\ UNCHANGED <<serverVars, planVars, input, left, active>>

SinkPlain  == plain /\ Collect("insert")
SinkDelete == Collect("delete")

-------------------------------------------------------------------------------
(* Finalize.                                                               *)

SourceEnds ==
  /\ phase = "chunks" /\ input = {} /\ chunk = {}
  /\ left' = ActionsOf[kind]
  /\ phase' = "finish"
  /\ UNCHANGED <<serverVars, txVars, wireVars, planVars, input, chunk, sinkVars, applied, failure>>

\* FinishCopyTo
FinishCopy(a) ==
  /\ phase = "finish" /\ a \in left /\ active[a]
  /\ EndCopy(a, received)
  /\ UNCHANGED <<serverVars, planVars, flowVars, buffer, count>>

Finalized(a) == left' = left \ {a} /\ UNCHANGED <<input, chunk, active, buffer, count>>

\* FinalizeCopy, and FinalizePlain or Flush with nothing left to send.
FinalizeNothing(a) ==
  /\ phase = "finish" /\ a \in left \ {"update"} /\ ~active[a] /\ buffer[a] = {}
  /\ Finalized(a)
  /\ UNCHANGED <<serverVars, txVars, wireVars, planVars, phase, applied, failure>>

FinalizeBuffered(a) ==
  /\ phase = "finish" /\ a \in left /\ buffer[a] # {}
  /\ SendRows(a, buffer[a])
  /\ Finalized(a)
  /\ UNCHANGED <<serverVars, planVars>>

\* update_sql
UpdateFromTemp == WriteByCtid(temp, "written")

FinalizeUpdate ==
  /\ phase = "finish" /\ "update" \in left /\ ~active["update"]
  /\ Command(UpdateFromTemp)
  /\ Finalized("update")
  /\ UNCHANGED <<serverVars, planVars>>

Done ==
  /\ phase = "finish" /\ left = {}
  /\ phase' = "done"
  /\ UNCHANGED <<serverVars, txVars, wireVars, planVars, flowVars, sinkVars, applied, failure>>

\* GetData has returned the count.
StatementEnds ==
  /\ phase = "done"
  /\ NoStatement
  /\ UNCHANGED <<serverVars, txVars, wire, plain, isolation, statements>>
-------------------------------------------------------------------------------
(* Failures, catalog loads and the end of the transaction.                 *)

\* The server rejects a command, or the rows of a COPY when it ends.
ServerRejects ==
  /\ phase \in {"source", "chunks", "finish"}
  /\ phase = "chunks" => ~Open
  /\ wire' = IF Open THEN "busy" ELSE "idle"
  /\ phase' = "failed" /\ failure' = "server"
  /\ UNCHANGED <<serverVars, txVars, received, temp, planVars, flowVars, sinkVars, applied>>

\* An error of DuckDB's, such as a cast: a COPY that is open stays open.
SourceFails ==
  /\ phase = "chunks"
  /\ phase' = "failed" /\ failure' = "source"
  /\ UNCHANGED <<serverVars, txVars, wireVars, planVars, flowVars, sinkVars, applied>>

\* Binding loads the schemas with ExecuteQueries: PQsendQuery refuses while a command is
\* in progress.
LoadSchemas ==
  /\ SchemasReloaded
  /\ phase = "idle"
  /\ Begin
  /\ IF wire = "busy" THEN phase' = "failed" /\ failure' = "in_progress" /\ UNCHANGED wire
     ELSE UNCHANGED <<wire, phase, failure>>
  /\ UNCHANGED <<serverVars, own, received, temp, planVars, flowVars, sinkVars, applied>>

EndTransaction ==
  /\ tx' = "none"
  /\ snap' = [k \in Keys |-> 0]
  /\ own' = [k \in Keys |-> "same"]
  /\ wire' = "idle"
  /\ NoStatement
  /\ UNCHANGED <<plain, isolation, statements>>

Commit ==
  /\ phase = "idle" /\ tx = "started" /\ ~Open
  /\ own # [k \in Keys |-> "same"] => nextVersion <= MaxVersion
  /\ table' = [k \in Keys |-> CASE own[k] = "same" -> table[k]
                                [] own[k] = "gone" -> 0
                                [] OTHER -> nextVersion]
  /\ nextVersion' = IF table' = table THEN nextVersion ELSE nextVersion + 1
  /\ EndTransaction

\* ROLLBACK also ends a COPY a failed statement has left open.
Rollback ==
  /\ phase \in {"idle", "failed"} /\ tx = "started"
  /\ EndTransaction
  /\ UNCHANGED serverVars

\* Another client updates or deletes a row that the transaction has not locked.
OtherCommits(k) ==
  /\ table[k] # 0 /\ own[k] = "same" /\ nextVersion <= MaxVersion
  /\ \E version \in {0, nextVersion} : table' = [table EXCEPT ![k] = version]
  /\ nextVersion' = nextVersion + 1
  /\ UNCHANGED <<txVars, wireVars, planVars, flowVars, sinkVars, phase, applied, failure>>

-------------------------------------------------------------------------------
Sink        == SinkCopy \/ SinkUpdate \/ SinkPlain \/ SinkDelete
Finalize(a) == FinishCopy(a) \/ FinalizeNothing(a) \/ FinalizeBuffered(a)

Next ==
  \/ \E k \in Kinds : Start(k)
  \/ ReadSource \/ NextChunk \/ SourceEnds \/ FinalizeUpdate \/ Done \/ StatementEnds
  \/ Sink \/ \E a \in Actions : Finalize(a)
  \/ ServerRejects \/ SourceFails \/ LoadSchemas \/ Commit \/ Rollback
  \/ \E k \in Keys : OtherCommits(k)

Spec == Init /\ [][Next]_vars
-------------------------------------------------------------------------------
(* Properties.                                                             *)

\* Type invariant of the table, the transaction, the connection and the statement.
TypeOK ==
  /\ plain \in BOOLEAN /\ isolation \in {"repeatable_read", "read_committed"}
  /\ table \in [Keys -> 0 .. MaxVersion] /\ nextVersion \in 1 .. MaxVersion + 1
  /\ tx \in {"none", "started"} /\ snap \in [Keys -> 0 .. MaxVersion]
  /\ own \in [Keys -> {"same", "written", "gone"}]
  /\ wire \in {"idle", "busy"} \cup Actions
  /\ received \subseteq Keys /\ temp \subseteq Keys
  /\ phase \in {"idle", "source", "chunks", "finish", "done", "failed"}
  /\ kind \in Kinds \cup {"none"}
  /\ rows \in [Keys -> [act : Actions \cup {"none"}, ver : Versions]]
  /\ input \subseteq Keys /\ chunk \subseteq Keys /\ left \subseteq Actions
  /\ active \in [Actions -> BOOLEAN] /\ buffer \in [Actions -> SUBSET Keys]
  /\ count \in [Actions -> 0 .. Cardinality(Keys)]
  /\ applied \in [Keys -> Nat]
  /\ failure \in {"none", "server", "source", "serialization", "in_progress",
                  "copy_terminated", "no_copy_in_progress"}
  /\ statements \in 0 .. MaxStatements

\* The rows the statement is about; the version of one may have changed since the scan.
Rows     == {k \in Keys : rows[k].act # "none"}
Moved(k) == rows[k].ver # 0 /\ own[k] = "same" /\ table[k] # rows[k].ver

\* A statement that reports success has changed every row its source returned exactly
\* once, and no other, however chunks, flushes and the sinks of a MERGE interleave; at
\* READ COMMITTED it leaves out those that other clients changed after the scan.
WrittenOnce ==
  phase = "done" =>
    \A k \in Keys : IF k \notin Rows THEN applied[k] = 0
                    ELSE applied[k] = 1 \/ (~Repeatable /\ Moved(k) /\ applied[k] = 0)

\* The values UPDATE sends were computed from the versions the scan has read, so it never
\* overwrites, and DELETE never removes, a version that it has not read.
NoLostUpdate ==
  \A k \in Keys :
    rows[k].act \in {"update", "delete"} /\ applied[k] > 0 /\ rows[k].ver # MyVersion
      => table[k] = rows[k].ver

\* "MERGE cannot keep the copy alive because we can interleave with other operations": no
\* sink, scan or flush ever uses the connection while the COPY of another is open, and no
\* chunk is sent outside a COPY.
CopyNeverInterrupted == failure \notin {"copy_terminated", "no_copy_in_progress"}

\* At REPEATABLE READ the count a statement returns, which adds up what it has sent, is
\* the number of rows the server has changed.
CountIsExact ==
  phase = "done" /\ Repeatable =>
    count["insert"] + count["update"] + count["delete"]
      = Cardinality({k \in Keys : applied[k] > 0})
===============================================================================

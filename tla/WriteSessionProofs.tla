-------------------------- MODULE WriteSessionProofs --------------------------
(***************************************************************************)
(* Proofs about WriteSession for every table, every size of chunks and     *)
(* batches and any number of statements: nothing interrupts a COPY, no     *)
(* version is overwritten that has not been read, every row of the source  *)
(* is written once, and the count that is returned is that of these rows.  *)
(***************************************************************************)
EXTENDS WriteSession, FiniteSetTheorems, TLAPS

USE DEF serverVars, txVars, wireVars, planVars, flowVars, sinkVars

Phases == {"idle", "source", "chunks", "finish", "done", "failed"}

\* The sinks of the statement.
Sinks == IF kind = "none" THEN {} ELSE ActionsOf[kind]

LEMMA SinksOfKinds ==
  /\ ActionsOf["insert"] = {"insert"} /\ ActionsOf["ctas"] = {"insert"}
  /\ ActionsOf["update"] = {"update"} /\ ActionsOf["delete"] = {"delete"}
  /\ ActionsOf["merge"] = Actions
  /\ Kinds \subseteq {"insert", "ctas", "update", "delete", "merge"}
BY WriteAssumption DEF ActionsOf

-------------------------------------------------------------------------------
(* The connection belongs to at most one COPY.                             *)

Types ==
  /\ wire \in {"idle", "busy"} \cup Actions
  /\ active \in [Actions -> BOOLEAN] /\ buffer \in [Actions -> SUBSET Keys]
  /\ phase \in Phases /\ kind \in Kinds \cup {"none"}
  /\ phase \notin {"idle", "failed"} => kind \in Kinds
  /\ phase = "idle" => kind = "none"
  /\ input \subseteq Keys /\ chunk \subseteq Keys

\* While nothing has failed, a COPY is open exactly as long as its sink says so, the sink is
\* the only one of its statement, and it sends nothing but chunks.
CopyInv ==
  /\ \A a \in Actions : active[a] =>
       /\ wire = a /\ a \in Sinks /\ kind # "merge" /\ phase \in {"chunks", "finish"}
       /\ a = "update" \/ (a = "insert" /\ ~plain)
  /\ Open => active[wire]
  /\ \A a \in Actions : buffer[a] # {} =>
       a \in Sinks /\ (a = "delete" \/ (a = "insert" /\ plain))
  /\ phase = "chunks" => \A k \in Keys : rows[k].act \in Sinks \cup {"none"}
  /\ phase = "finish" => left \subseteq Sinks /\ \A a \in Actions : active[a] => a \in left

SinkInv == Types /\ CopyNeverInterrupted /\ (phase # "failed" => CopyInv)

LEMMA SinkInit == Init => SinkInv
BY DEF Init, SinkInv, Types, CopyInv, CopyNeverInterrupted, Open, Actions, Phases

\* Of two sinks of a statement that keeps a COPY open, each is the other.
LEMMA OneSink ==
  ASSUME Types, kind # "merge", NEW a \in Sinks, NEW b \in Sinks
  PROVE  a = b
<1>1. kind = "none" \/ kind = "insert" \/ kind = "ctas" \/ kind = "update" \/ kind = "delete"
  BY SinksOfKinds DEF Types
<1>2. CASE kind = "none"
  BY <1>2 DEF Sinks
<1>3. CASE kind = "insert" \/ kind = "ctas"
  BY <1>3, SinksOfKinds DEF Sinks
<1>4. CASE kind = "update" \/ kind = "delete"
  BY <1>4, SinksOfKinds DEF Sinks
<1> QED
  BY <1>1, <1>2, <1>3, <1>4

\* A command that is not part of a COPY finds none open.
LEMMA NotOpen ==
  ASSUME SinkInv, phase # "failed", NEW a \in Sinks, a \in Actions, ~active[a]
  PROVE  ~Open
BY OneSink DEF SinkInv, Types, CopyInv, Open

\* What a write by ctid does to the statement.
MayNotSerialize ==
  \/ phase' = phase /\ failure' = failure
  \/ phase' = "failed" /\ failure' = "serialization"

LEMMA WriteByCtidKeeps ==
  ASSUME NEW S, NEW what, WriteByCtid(S, what)
  PROVE  /\ wire' = "idle"
         /\ MayNotSerialize
BY DEF WriteByCtid, Throw, MayNotSerialize

LEMMA ChunkFits ==
  ASSUME SinkInv, NEW a \in {"insert", "update"}, phase = "chunks", RowsFor(a) # {}
  PROVE  a \in Actions /\ a \in Sinks /\ CopyInv /\ ~BeginFails(a) /\ ~PutFails(a)
<1>1. a \in Actions /\ a \in Sinks /\ CopyInv
  BY DEF SinkInv, Types, RowsFor, CopyInv, Actions
<1> QED
  BY <1>1, NotOpen DEF BeginFails, PutFails, CopyInv

LEMMA SendRowsKeeps ==
  ASSUME SinkInv, ~Open, NEW a, NEW S, SendRows(a, S)
  PROVE  /\ wire' = "idle"
         /\ MayNotSerialize
<1>1. CASE a = "delete"
  BY <1>1, WriteByCtidKeeps DEF SendRows, Command
<1>2. CASE a # "delete"
  BY <1>2 DEF SendRows, Command, InsertRows, MayNotSerialize
<1> QED
  BY <1>1, <1>2

LEMMA SinkStep ==
  ASSUME SinkInv, [Next]_vars
  PROVE  SinkInv'
<1> USE DEF SinkInv, Types, Phases, CopyNeverInterrupted, MayNotSerialize
<1>1. ASSUME NEW k \in Kinds, Start(k)
      PROVE  SinkInv'
  BY <1>1, SinksOfKinds DEF Start, CopyInv, Open, Actions, Sinks
<1>2. CASE ReadSource
  <2>1. \A k \in Keys : rows'[k].act \in Sinks \cup {"none"}
    BY <1>2, SinksOfKinds DEF ReadSource, Source, ActionFor, Sinks, NoRow, Actions
  <2> QED
    BY <1>2, <2>1 DEF ReadSource, Source, CopyInv, Open, Sinks, Actions
<1>3. CASE NextChunk
  BY <1>3 DEF NextChunk, CopyInv, Open, Sinks
<1>4. CASE SourceEnds
  BY <1>4, SinksOfKinds DEF SourceEnds, CopyInv, Open, Sinks
<1>5. ASSUME NEW a \in {"insert", "update"}, CopyChunk(a), a = "insert" => ~plain
      PROVE  SinkInv'
  <2>1. a \in Actions /\ a \in Sinks /\ phase = "chunks" /\ CopyInv
    BY <1>5, ChunkFits DEF CopyChunk
  <2>2. ~BeginFails(a) /\ ~PutFails(a)
    BY <1>5, ChunkFits DEF CopyChunk
  <2>3. CASE KeepCopyAlive
    <3>1. /\ wire' = a /\ active' = [active EXCEPT ![a] = TRUE]
          /\ UNCHANGED <<phase, failure, kind, rows, plain, buffer, left, input>>
          /\ chunk' \subseteq chunk
      BY <1>5, <2>2, <2>3 DEF CopyChunk, Took
    <3>2. \A b \in Actions : active[b] => b = a
      BY <2>1, <2>3, OneSink DEF CopyInv, KeepCopyAlive
    <3> QED
      BY <1>5, <2>1, <2>3, <3>1, <3>2 DEF CopyInv, Open, Sinks, Actions, KeepCopyAlive
  <2>4. CASE ~KeepCopyAlive
    <3>1. /\ wire' = "busy" /\ active' = [active EXCEPT ![a] = FALSE]
          /\ UNCHANGED <<phase, failure, kind, rows, plain, buffer, left, input>>
          /\ chunk' \subseteq chunk
      BY <1>5, <2>2, <2>4 DEF CopyChunk, EndCopy, InsertRows, Took
    <3> QED
      BY <2>1, <2>4, <3>1 DEF CopyInv, Open, Sinks, Actions, KeepCopyAlive
  <2> QED
    BY <2>3, <2>4
<1>6. ASSUME NEW a \in {"insert", "delete"}, Collect(a), a = "insert" => plain
      PROVE  SinkInv'
  <2>1. a \in Actions /\ a \in Sinks /\ phase = "chunks" /\ CopyInv
    BY <1>6 DEF Collect, RowsFor, CopyInv, Actions
  <2>2. ~Open
    BY <1>6, <2>1, NotOpen DEF CopyInv
  <2>3. /\ UNCHANGED <<kind, rows, plain, active, left, input>> /\ chunk' \subseteq chunk
        /\ UNCHANGED <<wire, phase, failure>> \/ \E S : SendRows(a, S)
    BY <1>6 DEF Collect, Took
  <2>4. buffer' = [buffer EXCEPT ![a] = buffer'[a]] /\ buffer'[a] \subseteq Keys
    BY <1>6, <2>1 DEF Collect, RowsFor
  <2>5. CASE \E S : SendRows(a, S)
    <3>1. wire' = "idle" /\ MayNotSerialize
      BY <2>2, <2>5, SendRowsKeeps
    <3> QED
      BY <1>6, <2>1, <2>2, <2>3, <2>4, <3>1 DEF CopyInv, Open, Sinks, Actions
  <2>6. CASE UNCHANGED <<wire, phase, failure>>
    BY <1>6, <2>1, <2>2, <2>3, <2>4, <2>6 DEF CopyInv, Open, Sinks, Actions
  <2> QED
    BY <2>3, <2>5, <2>6
<1>7. ASSUME NEW a \in Actions, FinishCopy(a)
      PROVE  SinkInv'
  <2>1. /\ wire' = "busy" /\ active' = [active EXCEPT ![a] = FALSE]
        /\ UNCHANGED <<phase, failure, kind, rows, plain, buffer, left, input>>
          /\ chunk' \subseteq chunk
    BY <1>7 DEF FinishCopy, EndCopy, InsertRows
  <2> QED
    BY <1>7, <2>1 DEF FinishCopy, CopyInv, Open, Sinks, Actions
<1>8. ASSUME NEW a \in Actions, a \in left, phase = "finish", ~active[a], Finalized(a),
             \/ UNCHANGED wire /\ UNCHANGED <<phase, failure>>
             \/ wire' = "idle" /\ MayNotSerialize,
             UNCHANGED <<kind, rows, plain>>
      PROVE  SinkInv'
  <2>1. a \in Sinks /\ CopyInv
    BY <1>8 DEF CopyInv
  <2>2. ~Open
    BY <1>8, <2>1, NotOpen
  <2> QED
    BY <1>8, <2>1, <2>2 DEF Finalized, CopyInv, Open, Sinks
<1>9. ASSUME NEW a \in Actions, FinalizeNothing(a)
      PROVE  SinkInv'
  BY <1>8, <1>9 DEF FinalizeNothing
<1>10. ASSUME NEW a \in Actions, FinalizeBuffered(a)
       PROVE  SinkInv'
  <2>1. CopyInv /\ a \in Sinks /\ ~active[a]
    BY <1>10 DEF FinalizeBuffered, CopyInv
  <2>2. ~Open
    BY <1>10, <2>1, NotOpen DEF FinalizeBuffered
  <2> QED
    BY <1>8, <1>10, <2>1, <2>2, SendRowsKeeps DEF FinalizeBuffered
<1>11. CASE FinalizeUpdate
  <2>1. CopyInv /\ "update" \in Sinks /\ "update" \in Actions /\ ~active["update"]
    BY <1>11 DEF FinalizeUpdate, CopyInv, Actions
  <2>2. ~Open
    BY <1>11, <2>1, NotOpen DEF FinalizeUpdate
  <2>3. wire' = "idle" /\ MayNotSerialize
    BY <1>11, <2>2, WriteByCtidKeeps DEF FinalizeUpdate, Command, UpdateFromTemp
  <2> QED
    BY <1>8, <1>11, <2>1, <2>3 DEF FinalizeUpdate
<1>12. CASE Done
  BY <1>12 DEF Done, CopyInv, Open, Sinks
<1>13. CASE StatementEnds
  BY <1>13 DEF StatementEnds, NoStatement, CopyInv, Open, Sinks
<1>14. CASE ServerRejects \/ SourceFails
  BY <1>14 DEF ServerRejects, SourceFails
<1>15. CASE LoadSchemas
  BY <1>15 DEF LoadSchemas, CopyInv, Open, Sinks
<1>16. CASE Commit \/ Rollback
  <2>1. EndTransaction
    BY <1>16 DEF Commit, Rollback
  <2> QED
    BY <2>1 DEF EndTransaction, NoStatement, CopyInv, Open, Sinks
<1>17. ASSUME NEW k \in Keys, OtherCommits(k)
       PROVE  SinkInv'
  BY <1>17 DEF OtherCommits, CopyInv, Open, Sinks
<1>18. CASE UNCHANGED vars
  BY <1>18 DEF vars, CopyInv, Open, Sinks
<1> QED
  BY <1>1, <1>2, <1>3, <1>4, <1>5, <1>6, <1>7, <1>9, <1>10, <1>11, <1>12, <1>13, <1>14, <1>15,
     <1>16, <1>17, <1>18 DEF Next, Sink, SinkCopy, SinkUpdate, SinkPlain, SinkDelete, Finalize

\* No sink, scan or flush uses the connection while the COPY of another one is open, and no
\* chunk is sent outside a COPY: keep_copy_alive is set only where a statement has one sink
\* (PostgresInsert, PostgresUpdate, PostgresPlanMergeIntoAction).
THEOREM CopyNeverInterruptedTheorem == Spec => []CopyNeverInterrupted
<1>1. SinkInv => CopyNeverInterrupted
  BY DEF SinkInv
<1> QED
  BY <1>1, SinkInit, SinkStep, PTL DEF Spec

-------------------------------------------------------------------------------
(* Nothing is written over a version that the scan has not read.           *)

IsFor(S, a) == \A k \in S : rows[k].act = a

\* A row that the statement has changed is the transaction's until it ends, and what is
\* sent, collected or kept in the temporary table is what the sinks are for.
LostInv ==
  /\ table \in [Keys -> Int] /\ own \in [Keys -> {"same", "written", "gone"}]
  /\ applied \in [Keys -> Nat] /\ received \subseteq Keys /\ temp \subseteq Keys
  /\ nextVersion \in Int
  /\ phase \in {"idle", "source"} =>
       /\ \A k \in Keys : applied[k] = 0
       /\ temp = {} /\ \A a \in Actions : buffer[a] = {}
  /\ \A k \in Keys : rows[k].act \in {"update", "delete"} => rows[k].ver # 0
  /\ \A k \in Keys : applied[k] > 0 => own[k] # "same"
  /\ phase # "failed" =>
       /\ \A a \in Actions : IsFor(buffer[a], a)
       /\ IsFor(temp, "update")
       /\ IF Open THEN IsFor(received, wire) ELSE received = {}
  /\ NoLostUpdate

LEMMA LostInit == Init => LostInv
BY DEF Init, LostInv, IsFor, NoLostUpdate, Open, NoRow

\* UPDATE and DELETE by ctid.
LEMMA ByCtidLosesNothing ==
  ASSUME SinkInv, LostInv, NEW S \in SUBSET Keys, NEW what \in {"written", "gone"},
         WriteByCtid(S, what), UNCHANGED <<table, rows, isolation>>,
         \A k \in S : rows[k].act \in {"update", "delete"}
  PROVE  /\ own' \in [Keys -> {"same", "written", "gone"}] /\ applied' \in [Keys -> Nat]
         /\ \A k \in Keys : applied'[k] > 0 => own'[k] # "same"
         /\ NoLostUpdate'
         /\ UNCHANGED <<received, temp>>
<1> DEFINE found == {k \in S : View[k] = rows[k].ver}
<1>1. CASE Repeatable /\ \E k \in found : own[k] = "same" /\ table[k] # snap[k]
  <2>1. Throw("serialization")
    BY <1>1 DEF WriteByCtid
  <2> QED
    BY <2>1 DEF Throw, LostInv, NoLostUpdate
<1>2. CASE ~(Repeatable /\ \E k \in found : own[k] = "same" /\ table[k] # snap[k])
  <2>1. Apply(found, what) /\ UNCHANGED <<received, temp>>
    BY <1>2 DEF WriteByCtid
  <2>2. ASSUME NEW k \in found, rows[k].ver # MyVersion
        PROVE  table[k] = rows[k].ver
    <3>1. View[k] = rows[k].ver /\ rows[k].ver # 0 /\ own[k] \in {"same", "written", "gone"}
      BY <2>2 DEF LostInv
    <3>2. View[k] = CASE own[k] = "written" -> MyVersion
                      [] own[k] = "gone"    -> 0
                      [] OTHER -> IF Repeatable /\ tx = "started" THEN snap[k] ELSE table[k]
      BY <2>2 DEF View
    <3>3. own[k] = "same"
      BY <2>2, <3>1, <3>2
    <3> QED
      BY <1>2, <2>2, <3>1, <3>2, <3>3
  <2>3. /\ own' = [k \in Keys |-> IF k \in found THEN what ELSE own[k]]
        /\ applied' = [k \in Keys |-> IF k \in found THEN applied[k] + 1 ELSE applied[k]]
    BY <2>1 DEF Apply
  <2>4. \A k \in Keys : k \notin found => own'[k] = own[k] /\ applied'[k] = applied[k]
    BY <2>3
  <2> HIDE DEF found
  <2>5. /\ own' \in [Keys -> {"same", "written", "gone"}] /\ applied' \in [Keys -> Nat]
        /\ \A k \in Keys : applied'[k] > 0 => own'[k] # "same"
    BY <2>3 DEF LostInv
  <2>6. NoLostUpdate'
    BY <2>2, <2>4 DEF NoLostUpdate, LostInv
  <2> QED
    BY <2>1, <2>5, <2>6
<1> QED
  BY <1>1, <1>2

\* INSERT.
LEMMA InsertLosesNothing ==
  ASSUME LostInv, NEW S \in SUBSET Keys, IsFor(S, "insert"), Apply(S, "written"),
         UNCHANGED <<table, rows>>
  PROVE  /\ own' \in [Keys -> {"same", "written", "gone"}] /\ applied' \in [Keys -> Nat]
         /\ \A k \in Keys : applied'[k] > 0 => own'[k] # "same"
         /\ NoLostUpdate'
<1>1. /\ own' = [k \in Keys |-> IF k \in S THEN "written" ELSE own[k]]
      /\ applied' = [k \in Keys |-> IF k \in S THEN applied[k] + 1 ELSE applied[k]]
  BY DEF Apply
<1>2. \A k \in Keys : k \notin S => own'[k] = own[k] /\ applied'[k] = applied[k]
  BY <1>1
<1>3. NoLostUpdate'
  BY <1>2 DEF NoLostUpdate, LostInv, IsFor
<1> QED
  BY <1>1, <1>3 DEF LostInv

\* A batch of INSERTs, or of the ctids of a DELETE.
LEMMA SendRowsLosesNothing ==
  ASSUME SinkInv, LostInv, ~Open, NEW a \in {"insert", "delete"}, NEW S \in SUBSET Keys,
         IsFor(S, a), SendRows(a, S), UNCHANGED <<table, rows, isolation>>
  PROVE  /\ own' \in [Keys -> {"same", "written", "gone"}] /\ applied' \in [Keys -> Nat]
         /\ \A k \in Keys : applied'[k] > 0 => own'[k] # "same"
         /\ NoLostUpdate'
         /\ UNCHANGED <<received, temp>>
<1>1. CASE a = "delete"
  <2>1. WriteByCtid(S, "gone")
    BY <1>1 DEF SendRows, Command
  <2> QED
    BY <1>1, <2>1, ByCtidLosesNothing DEF IsFor
<1>2. CASE a = "insert"
  BY <1>2, InsertLosesNothing DEF SendRows, Command, InsertRows
<1> QED
  BY <1>1, <1>2

LEMMA LostStep ==
  ASSUME SinkInv, SinkInv', LostInv, [Next]_vars
  PROVE  LostInv'
<1> USE DEF LostInv, IsFor, SinkInv, Types, Phases
<1>1. ASSUME NEW k \in Kinds, Start(k)
      PROVE  LostInv'
  BY <1>1 DEF Start, NoLostUpdate, Open, CopyInv
<1>2. CASE ReadSource
  <2>1. \A k \in Keys : rows'[k].act \in {"update", "delete"} => rows'[k].ver # 0
    <3>1. PICK r \in [Keys -> [act : Actions \cup {"none"}, ver : Versions]] :
            /\ rows' = r
            /\ \A k \in Keys : IF r[k].act = "none" THEN r[k] = NoRow
                               ELSE r[k].act \in ActionFor(k, View) /\ r[k].ver = View[k]
      BY <1>2 DEF ReadSource, Source
    <3>2. ASSUME NEW k \in Keys, r[k].act \in {"update", "delete"}
          PROVE  r[k].ver # 0
      BY <3>1, <3>2, SinksOfKinds DEF ActionFor
    <3> QED
      BY <3>1, <3>2
  <2>2. /\ phase = "source" /\ phase' = "chunks" /\ wire' = "idle"
        /\ UNCHANGED <<table, own, applied, received, temp, buffer>>
    BY <1>2 DEF ReadSource, Source
  <2>3. received = {} /\ temp = {} /\ \A a \in Actions : buffer[a] = {}
    <3>1. ~Open
      BY <2>2 DEF CopyInv, Open
    <3> QED
      BY <2>2, <3>1 DEF CopyInv
  <2> QED
    BY <2>1, <2>2, <2>3, <1>2 DEF ReadSource, Source, NoLostUpdate, Open
<1>3. CASE NextChunk
  BY <1>3 DEF NextChunk, NoLostUpdate, Open
<1>4. CASE SourceEnds
  BY <1>4 DEF SourceEnds, NoLostUpdate, Open
<1>5. ASSUME NEW a \in {"insert", "update"}, CopyChunk(a), a = "insert" => ~plain
      PROVE  LostInv'
  <2>1. /\ a \in Actions /\ a \in Sinks /\ CopyInv /\ ~BeginFails(a) /\ ~PutFails(a)
        /\ RowsFor(a) \subseteq Keys /\ IsFor(RowsFor(a), a)
        /\ UNCHANGED <<table, nextVersion, rows, buffer>> /\ phase = "chunks"
    BY <1>5, ChunkFits DEF CopyChunk, RowsFor
  <2>2. CASE KeepCopyAlive
    <3>1. /\ wire' = a /\ received' = received \cup RowsFor(a)
          /\ UNCHANGED <<own, applied, temp, phase>>
      BY <1>5, <2>1, <2>2 DEF CopyChunk
    <3>2. IsFor(received, a)
      BY <2>1, <2>2, OneSink DEF CopyInv, Open, KeepCopyAlive
    <3> QED
      BY <2>1, <3>1, <3>2 DEF NoLostUpdate, Open, Actions
  <2>3. CASE ~KeepCopyAlive
    <3>1. wire' = "busy" /\ received' = {}
          /\ IF a = "insert" THEN InsertRows(RowsFor(a)) /\ UNCHANGED temp
             ELSE temp' = temp \cup RowsFor(a) /\ UNCHANGED <<own, applied, phase>>
      BY <1>5, <2>1, <2>3 DEF CopyChunk, EndCopy
    <3>2. CASE a = "insert"
      BY <2>1, <3>1, <3>2, InsertLosesNothing DEF InsertRows, Open
    <3>3. CASE a = "update"
      BY <2>1, <3>1, <3>3 DEF NoLostUpdate, Open
    <3> QED
      BY <3>2, <3>3
  <2> QED
    BY <2>2, <2>3
<1>6. ASSUME NEW a \in {"insert", "delete"}, Collect(a), a = "insert" => plain
      PROVE  LostInv'
  <2>1. /\ a \in Actions /\ a \in Sinks /\ CopyInv
        /\ UNCHANGED <<table, nextVersion, rows, isolation>> /\ phase = "chunks"
    BY <1>6 DEF Collect, RowsFor, CopyInv, Actions
  <2>2. ~Open
    BY <1>6, <2>1, NotOpen DEF CopyInv
  <2> DEFINE all == buffer[a] \cup RowsFor(a)
  <2>3. all \subseteq Keys /\ IsFor(all, a)
    BY <2>1 DEF RowsFor
  <2>4. CASE /\ UNCHANGED <<txVars, wireVars, phase, applied, failure>>
             /\ buffer' = [buffer EXCEPT ![a] = all]
    BY <2>1, <2>2, <2>3, <2>4 DEF NoLostUpdate, Open
  <2>5. ASSUME NEW sent \in SUBSET all, buffer' = [buffer EXCEPT ![a] = all \ sent],
               SendRows(a, sent)
        PROVE  LostInv'
    <3>1. wire' = "idle" /\ phase' \in {phase, "failed"}
      BY <2>2, <2>5, SendRowsKeeps DEF MayNotSerialize
    <3>2. /\ own' \in [Keys -> {"same", "written", "gone"}] /\ applied' \in [Keys -> Nat]
          /\ \A k \in Keys : applied'[k] > 0 => own'[k] # "same"
          /\ NoLostUpdate'
          /\ UNCHANGED <<received, temp>>
      BY <2>1, <2>2, <2>3, <2>5, SendRowsLosesNothing
    <3> HIDE DEF all
    <3> QED
      BY <2>1, <2>2, <2>3, <2>5, <3>1, <3>2 DEF Open
  <2>6. \/ /\ UNCHANGED <<txVars, wireVars, phase, applied, failure>>
           /\ buffer' = [buffer EXCEPT ![a] = all]
        \/ \E sent \in SUBSET all :
             buffer' = [buffer EXCEPT ![a] = all \ sent] /\ SendRows(a, sent)
    BY <1>6 DEF Collect
  <2> QED
    BY <2>4, <2>5, <2>6
<1>7. ASSUME NEW a \in Actions, FinishCopy(a)
      PROVE  LostInv'
  <2>1. /\ a \in {"insert", "update"} /\ IsFor(received, a)
        /\ UNCHANGED <<table, nextVersion, rows, buffer>> /\ phase = "finish"
    BY <1>7 DEF FinishCopy, CopyInv, Open
  <2>2. wire' = "busy" /\ received' = {}
        /\ IF a = "insert" THEN InsertRows(received) /\ UNCHANGED temp
           ELSE temp' = temp \cup received /\ UNCHANGED <<own, applied, phase>>
    BY <1>7 DEF FinishCopy, EndCopy
  <2>3. CASE a = "insert"
    BY <2>1, <2>2, <2>3, InsertLosesNothing DEF InsertRows, Open
  <2>4. CASE a = "update"
    BY <2>1, <2>2, <2>4 DEF NoLostUpdate, Open
  <2> QED
    BY <2>1, <2>3, <2>4
<1>9. ASSUME NEW a \in Actions, FinalizeNothing(a)
      PROVE  LostInv'
  BY <1>9 DEF FinalizeNothing, Finalized, NoLostUpdate, Open
<1>10. ASSUME NEW a \in Actions, FinalizeBuffered(a)
       PROVE  LostInv'
  <2>1. /\ CopyInv /\ a \in Sinks /\ ~active[a] /\ a \in {"insert", "delete"}
        /\ phase = "finish" /\ SendRows(a, buffer[a]) /\ IsFor(buffer[a], a)
        /\ UNCHANGED <<table, nextVersion, rows, isolation, buffer>>
    BY <1>10 DEF FinalizeBuffered, Finalized, CopyInv
  <2>2. ~Open
    BY <2>1, NotOpen
  <2>3. wire' = "idle" /\ phase' \in {phase, "failed"}
    BY <2>1, <2>2, SendRowsKeeps DEF MayNotSerialize
  <2>4. /\ own' \in [Keys -> {"same", "written", "gone"}] /\ applied' \in [Keys -> Nat]
        /\ \A k \in Keys : applied'[k] > 0 => own'[k] # "same"
        /\ NoLostUpdate'
        /\ UNCHANGED <<received, temp>>
    BY <2>1, <2>2, SendRowsLosesNothing
  <2> QED
    BY <2>1, <2>2, <2>3, <2>4 DEF Open
<1>11. CASE FinalizeUpdate
  <2>1. /\ CopyInv /\ "update" \in Sinks /\ "update" \in Actions /\ ~active["update"]
        /\ phase = "finish" /\ Command(UpdateFromTemp)
        /\ UNCHANGED <<table, nextVersion, rows, isolation, buffer>>
    BY <1>11 DEF FinalizeUpdate, Finalized, CopyInv, Actions
  <2>2. ~Open
    BY <2>1, NotOpen
  <2>3. WriteByCtid(temp, "written")
    BY <2>1, <2>2 DEF Command, UpdateFromTemp
  <2>4. wire' = "idle" /\ phase' \in {phase, "failed"}
    BY <2>3, WriteByCtidKeeps DEF MayNotSerialize
  <2>5. /\ own' \in [Keys -> {"same", "written", "gone"}] /\ applied' \in [Keys -> Nat]
        /\ \A k \in Keys : applied'[k] > 0 => own'[k] # "same"
        /\ NoLostUpdate'
        /\ UNCHANGED <<received, temp>>
    BY <2>1, <2>3, ByCtidLosesNothing
  <2> QED
    BY <2>1, <2>2, <2>4, <2>5 DEF Open
<1>12. CASE Done
  BY <1>12 DEF Done, NoLostUpdate, Open
<1>13. CASE StatementEnds
  BY <1>13 DEF StatementEnds, NoStatement, NoRow, NoLostUpdate, Open, CopyInv
<1>14. CASE ServerRejects \/ SourceFails
  BY <1>14 DEF ServerRejects, SourceFails, NoLostUpdate
<1>15. CASE LoadSchemas
  BY <1>15 DEF LoadSchemas, NoLostUpdate, Open
<1>16. CASE Commit
  BY <1>16 DEF Commit, EndTransaction, NoStatement, NoRow, NoLostUpdate, Open
<1>20. CASE Rollback
  BY <1>20 DEF Rollback, EndTransaction, NoStatement, NoRow, NoLostUpdate, Open
<1>17. ASSUME NEW k \in Keys, OtherCommits(k)
       PROVE  LostInv'
  BY <1>17 DEF OtherCommits, NoLostUpdate, Open
<1>18. CASE UNCHANGED vars
  BY <1>18 DEF vars, NoLostUpdate, Open
<1> QED
  BY <1>1, <1>2, <1>3, <1>4, <1>5, <1>6, <1>7, <1>9, <1>10, <1>11, <1>12, <1>13, <1>14, <1>15,
     <1>16, <1>17, <1>18, <1>20 DEF Next, Sink, SinkCopy, SinkUpdate, SinkPlain, SinkDelete, Finalize

\* UPDATE and DELETE, alone or in a MERGE, never change a version of a row that their scan
\* has not read (PostgresUpdate, PostgresDelete: rows are addressed by ctid).
THEOREM NoLostUpdateTheorem == Spec => []NoLostUpdate
<1>1. LostInv => NoLostUpdate
  BY DEF LostInv
<1> QED
  BY <1>1, SinkInit, SinkStep, LostInit, LostStep, PTL DEF Spec

-------------------------------------------------------------------------------
(* Types.                                                                  *)

RowType == [act : Actions \cup {"none"}, ver : Versions]

Failures == {"none", "server", "source", "serialization", "in_progress", "copy_terminated",
             "no_copy_in_progress"}

ValuesOK ==
  /\ plain \in BOOLEAN /\ isolation \in {"repeatable_read", "read_committed"}
  /\ table \in [Keys -> 0 .. MaxVersion] /\ nextVersion \in 1 .. MaxVersion + 1
  /\ tx \in {"none", "started"} /\ snap \in [Keys -> 0 .. MaxVersion]
  /\ rows \in [Keys -> RowType] /\ left \subseteq Actions
  /\ failure \in Failures /\ statements \in 0 .. MaxStatements

LEMMA ValuesInit == Init => ValuesOK
BY WriteAssumption DEF Init, ValuesOK, RowType, NoRow, Versions, Failures

LEMMA ViewType ==
  ASSUME ValuesOK, own \in [Keys -> {"same", "written", "gone"}]
  PROVE  View \in [Keys -> Versions]
<1> SUFFICES ASSUME NEW k \in Keys PROVE View[k] \in Versions
  BY DEF View
<1>1. View[k] = CASE own[k] = "written" -> MyVersion
                  [] own[k] = "gone"    -> 0
                  [] OTHER -> IF Repeatable /\ tx = "started" THEN snap[k] ELSE table[k]
  BY DEF View
<1>2. CASE own[k] = "written" \/ own[k] = "gone"
  BY <1>1, <1>2, WriteAssumption DEF Versions
<1>3. CASE own[k] = "same"
  BY <1>1, <1>3 DEF ValuesOK, Versions
<1> QED
  BY <1>2, <1>3

\* Steps of a statement touch no values but these.
LEMMA ValuesKept ==
  ASSUME ValuesOK, UNCHANGED <<serverVars, plain, isolation, statements, tx, snap>>,
         rows' \in [Keys -> RowType], left' \subseteq Actions, failure' \in Failures
  PROVE  ValuesOK'
BY DEF ValuesOK

\* What a command leaves alone, and how it fails.
LEMMA CommandKeeps ==
  /\ \A S, what : WriteByCtid(S, what) => UNCHANGED <<tx, snap>> /\ failure' \in {failure, "serialization"}
  /\ \A a, S : SendRows(a, S) =>
       UNCHANGED <<tx, snap>> /\ failure' \in {failure, "serialization", "copy_terminated"}
BY DEF WriteByCtid, SendRows, Command, InsertRows, Throw

LEMMA ValuesStep ==
  ASSUME SinkInv, LostInv, ValuesOK, [Next]_vars
  PROVE  ValuesOK'
<1> USE DEF Failures
<1>1. ASSUME NEW k \in Kinds, Start(k)
      PROVE  ValuesOK'
  BY <1>1, WriteAssumption DEF Start, Begin, ValuesOK
<1>2. CASE ReadSource
  <2>1. rows' \in [Keys -> RowType]
    BY <1>2 DEF ReadSource, Source, RowType
  <2> QED
    BY <1>2, <2>1, ValuesKept DEF ReadSource, Source, ValuesOK
<1>3. CASE NextChunk \/ SourceEnds \/ Done \/ ServerRejects \/ SourceFails
  <2>1. ActionsOf[kind] \subseteq Actions \/ ~SourceEnds
    BY SinksOfKinds DEF SourceEnds, SinkInv, Types, Actions
  <2> QED
    BY <1>3, <2>1, ValuesKept DEF NextChunk, SourceEnds, Done, ServerRejects, SourceFails, ValuesOK
<1>4. ASSUME NEW a, CopyChunk(a) \/ Collect(a)
      PROVE  ValuesOK'
  <2>1. CASE CopyChunk(a)
    BY <2>1, ValuesKept DEF CopyChunk, EndCopy, InsertRows, Throw, ValuesOK
  <2>2. CASE Collect(a)
    BY <2>2, CommandKeeps, ValuesKept DEF Collect, ValuesOK
  <2> QED
    BY <1>4, <2>1, <2>2
<1>5. ASSUME NEW a \in Actions, Finalize(a)
      PROVE  ValuesOK'
  <2>1. CASE FinishCopy(a)
    BY <2>1, ValuesKept DEF FinishCopy, EndCopy, InsertRows, ValuesOK
  <2>2. CASE FinalizeNothing(a)
    BY <2>2, ValuesKept DEF FinalizeNothing, Finalized, ValuesOK
  <2>3. CASE FinalizeBuffered(a)
    BY <2>3, CommandKeeps, ValuesKept DEF FinalizeBuffered, Finalized, ValuesOK
  <2> QED
    BY <1>5, <2>1, <2>2, <2>3 DEF Finalize
<1>6. CASE FinalizeUpdate
  <2>1. UNCHANGED <<tx, snap>> /\ failure' \in Failures
    BY <1>6, CommandKeeps DEF FinalizeUpdate, Command, UpdateFromTemp, Throw, ValuesOK
  <2> QED
    BY <1>6, <2>1, ValuesKept DEF FinalizeUpdate, Finalized, ValuesOK
<1>7. CASE LoadSchemas
  BY <1>7 DEF LoadSchemas, Begin, ValuesOK
<1>8. ASSUME NoStatement
      PROVE  rows' \in [Keys -> RowType] /\ left' \subseteq Actions /\ failure' \in Failures
  BY <1>8, WriteAssumption DEF NoStatement, NoRow, RowType, Versions
<1>9. CASE StatementEnds
  BY <1>8, <1>9, ValuesKept DEF StatementEnds
<1>10. ASSUME EndTransaction
       PROVE  /\ UNCHANGED <<plain, isolation, statements>>
              /\ tx' \in {"none", "started"} /\ snap' \in [Keys -> 0 .. MaxVersion]
              /\ rows' \in [Keys -> RowType] /\ left' \subseteq Actions /\ failure' \in Failures
  BY <1>8, <1>10, WriteAssumption DEF EndTransaction
<1>11. CASE Rollback
  BY <1>10, <1>11 DEF Rollback, ValuesOK
<1>12. CASE Commit
  <2>1. table' \in [Keys -> 0 .. MaxVersion]
    <3> SUFFICES ASSUME NEW k \in Keys PROVE table'[k] \in 0 .. MaxVersion
      BY <1>12 DEF Commit
    <3>1. table'[k] = CASE own[k] = "same" -> table[k]
                        [] own[k] = "gone" -> 0
                        [] OTHER -> nextVersion
      BY <1>12 DEF Commit
    <3>2. own[k] # "same" => nextVersion <= MaxVersion
      BY <1>12 DEF Commit
    <3> QED
      BY <3>1, <3>2, WriteAssumption DEF ValuesOK, LostInv
  <2>2. nextVersion' \in 1 .. MaxVersion + 1
    <3>1. own = [k \in Keys |-> "same"] => table' = table
      BY <1>12 DEF Commit, ValuesOK
    <3> QED
      BY <1>12, <3>1, WriteAssumption DEF Commit, ValuesOK
  <2> QED
    BY <1>10, <1>12, <2>1, <2>2 DEF Commit, ValuesOK
<1>13. ASSUME NEW k \in Keys, OtherCommits(k)
       PROVE  ValuesOK'
  BY <1>13, WriteAssumption DEF OtherCommits, ValuesOK
<1>14. CASE UNCHANGED vars
  BY <1>14 DEF vars, ValuesOK
<1> QED
  BY <1>1, <1>2, <1>3, <1>4, <1>5, <1>6, <1>7, <1>9, <1>11, <1>12, <1>13, <1>14
  DEF Next, Sink, SinkCopy, SinkUpdate, SinkPlain, SinkDelete

-------------------------------------------------------------------------------
(* The counts.                                                             *)

RowsOf(a) == {k \in Keys : rows[k].act = a}
Taken(a)  == RowsOf(a) \ (input \cup chunk)

\* A sink has counted the rows it took from the chunks, also those it has not sent yet.
CountInv ==
  /\ phase \in {"idle", "source"} => rows = [k \in Keys |-> NoRow] /\ input = {} /\ chunk = {}
  /\ input \cap chunk = {}
  /\ \A a \in Actions : count[a] = Cardinality(Taken(a))
  /\ count \in [Actions -> Nat]

LEMMA TakenFinite ==
  ASSUME NEW a
  PROVE  IsFiniteSet(Taken(a)) /\ Cardinality(Taken(a)) \in 0 .. Cardinality(Keys)
<1>1. Taken(a) \subseteq Keys /\ IsFiniteSet(Keys)
  BY WriteAssumption DEF Taken, RowsOf
<1> QED
  BY <1>1, FS_Subset, FS_CardinalityType

LEMMA NothingTaken ==
  ASSUME rows = [k \in Keys |-> NoRow]
  PROVE  \A a \in Actions : Cardinality(Taken(a)) = 0
<1>1. \A a \in Actions : Taken(a) = {}
  BY DEF Taken, RowsOf, NoRow, Actions
<1> QED
  BY <1>1, FS_EmptySet

LEMMA TookCounts ==
  ASSUME CountInv, Types, NEW a \in Actions, Took(a), UNCHANGED <<input, rows>>,
         phase \notin {"idle", "source"}, phase' \notin {"idle", "source"}
  PROVE  CountInv'
<1>1. /\ RowsFor(a) \subseteq RowsOf(a) /\ RowsFor(a) \cap Taken(a) = {}
      /\ Taken(a)' = Taken(a) \cup RowsFor(a)
      /\ \A b \in Actions \ {a} : Taken(b)' = Taken(b)
  BY DEF Took, Taken, RowsOf, RowsFor, CountInv, Types
<1>2. IsFiniteSet(RowsFor(a)) /\ Cardinality(RowsFor(a)) \in Nat
  BY WriteAssumption, FS_Subset, FS_CardinalityType DEF RowsFor, Types
<1>3. Cardinality(Taken(a)') = Cardinality(Taken(a)) + Cardinality(RowsFor(a))
  <2>1. /\ IsFiniteSet(Taken(a)) /\ Cardinality(Taken(a) \cap RowsFor(a)) = 0
        /\ Cardinality(Taken(a)) \in Nat
    BY <1>1, TakenFinite, FS_EmptySet
  <2>2. Cardinality(Taken(a) \cup RowsFor(a))
          = Cardinality(Taken(a)) + Cardinality(RowsFor(a)) - Cardinality(Taken(a) \cap RowsFor(a))
    BY <1>2, <2>1, FS_Union
  <2> QED
    BY <1>1, <1>2, <2>1, <2>2
<1>4. /\ count' \in [Actions -> Nat] /\ count'[a] = count[a] + Cardinality(RowsFor(a))
      /\ \A b \in Actions \ {a} : count'[b] = count[b]
  BY <1>2 DEF Took, CountInv
<1>5. input' \cap chunk' = {}
  BY DEF Took, CountInv
<1>6. \A b \in Actions : count'[b] = Cardinality(Taken(b)')
  BY <1>1, <1>3, <1>4 DEF CountInv
<1> QED
  BY <1>4, <1>5, <1>6 DEF CountInv

\* A step that moves no row into a sink.
LEMMA CountKept ==
  ASSUME CountInv, UNCHANGED <<rows, count>>, input' \cup chunk' = input \cup chunk,
         input' \cap chunk' = {},
         phase' \in {"idle", "source"} => phase \in {"idle", "source"} /\ UNCHANGED <<input, chunk>>
  PROVE  CountInv'
BY DEF CountInv, Taken, RowsOf

LEMMA CountInit == Init => CountInv
<1> SUFFICES ASSUME Init PROVE CountInv
  OBVIOUS
<1>1. \A a \in Actions : Cardinality(Taken(a)) = 0
  BY NothingTaken DEF Init
<1> QED
  BY <1>1 DEF Init, CountInv

LEMMA CountStep ==
  ASSUME SinkInv, SinkInv', CountInv, [Next]_vars
  PROVE  CountInv'
<1> USE DEF SinkInv
<1>1. ASSUME NEW k \in Kinds, Start(k)
      PROVE  CountInv'
  BY <1>1 DEF Start, CountInv, Taken, RowsOf
<1>2. CASE ReadSource
  <2>1. input' = {k \in Keys : rows'[k].act # "none"} /\ phase' = "chunks" /\ phase = "source"
        /\ UNCHANGED <<chunk, count>>
    BY <1>2 DEF ReadSource, Source
  <2>2. \A a \in Actions : Taken(a)' = {}
    BY <2>1 DEF Taken, RowsOf, Actions
  <2>3. \A a \in Actions : count[a] = 0
    BY <2>1, NothingTaken DEF CountInv
  <2>4. chunk = {}
    BY <2>1 DEF CountInv
  <2> QED
    BY <2>1, <2>2, <2>3, <2>4, FS_EmptySet DEF CountInv
<1>3. CASE NextChunk
  <2>1. input' \cup chunk' = input \cup chunk /\ input' \cap chunk' = {}
        /\ UNCHANGED <<rows, count, phase>> /\ phase = "chunks"
    BY <1>3 DEF NextChunk
  <2> QED
    BY <2>1, CountKept
<1>4. CASE SourceEnds \/ Done \/ ServerRejects \/ SourceFails
  BY <1>4, CountKept DEF SourceEnds, Done, ServerRejects, SourceFails, CountInv
<1>5. ASSUME NEW a \in Actions, CopyChunk(a) \/ Collect(a)
      PROVE  CountInv'
  <2>1. phase = "chunks" /\ phase' \in {"chunks", "failed"} /\ UNCHANGED <<rows, input>> /\ Took(a)
    <3>1. CASE CopyChunk(a)
      BY <3>1 DEF CopyChunk, EndCopy, InsertRows, Throw
    <3>2. CASE Collect(a)
      BY <3>2 DEF Collect, SendRows, Command, WriteByCtid, InsertRows, Throw
    <3> QED
      BY <1>5, <3>1, <3>2
  <2> QED
    BY <2>1, TookCounts
<1>6. ASSUME NEW a \in Actions, Finalize(a)
      PROVE  CountInv'
  <2>1. phase = "finish" /\ phase' \in {"finish", "failed"} /\ UNCHANGED <<rows, input, chunk, count>>
    <3>1. CASE FinishCopy(a)
      BY <3>1 DEF FinishCopy, EndCopy, InsertRows
    <3>2. CASE FinalizeNothing(a)
      BY <3>2 DEF FinalizeNothing, Finalized
    <3>3. CASE FinalizeBuffered(a)
      BY <3>3 DEF FinalizeBuffered, Finalized, SendRows, Command, WriteByCtid, InsertRows, Throw
    <3> QED
      BY <1>6, <3>1, <3>2, <3>3 DEF Finalize
  <2> QED
    BY <2>1, CountKept DEF CountInv
<1>7. CASE FinalizeUpdate
  <2>1. phase' \in {"finish", "failed"} /\ UNCHANGED <<rows, input, chunk, count>>
    BY <1>7 DEF FinalizeUpdate, Finalized, Command, UpdateFromTemp, WriteByCtid, Throw
  <2> QED
    BY <2>1, CountKept DEF CountInv
<1>8. CASE LoadSchemas
  BY <1>8, CountKept DEF LoadSchemas, CountInv
<1>9. CASE StatementEnds \/ Commit \/ Rollback
  <2>1. NoStatement
    BY <1>9 DEF StatementEnds, Commit, Rollback, EndTransaction
  <2>2. \A a \in Actions : Taken(a)' = {}
    BY <2>1 DEF NoStatement, Taken, RowsOf, NoRow, Actions
  <2> QED
    BY <2>1, <2>2, FS_EmptySet DEF NoStatement, CountInv
<1>10. ASSUME NEW k \in Keys, OtherCommits(k)
       PROVE  CountInv'
  BY <1>10, CountKept DEF OtherCommits, CountInv
<1>11. CASE UNCHANGED vars
  BY <1>11, CountKept DEF vars, CountInv
<1> QED
  BY <1>1, <1>2, <1>3, <1>4, <1>5, <1>6, <1>7, <1>8, <1>9, <1>10, <1>11
  DEF Next, Sink, SinkCopy, SinkUpdate, SinkPlain, SinkDelete, Actions

-------------------------------------------------------------------------------
(* Every row of the source is written once.                                *)

Running == phase \in {"chunks", "finish", "done"}

\* What a sink keeps after it was finalized is no longer waiting to be written.
Unsent(a) == IF phase = "chunks" \/ a \in left THEN buffer[a] ELSE {}
Staged    == IF phase = "chunks" \/ "update" \in left THEN temp ELSE {}
Sent      == received \cup Staged \cup UNION {Unsent(a) : a \in Actions}
Waiting   == input \cup chunk \cup Sent

\* A waiting row is at the version the scan has read, or was changed by another client,
\* which a snapshot does not show.
ReadAs(k) ==
  /\ own[k] = "written" => rows[k].ver = MyVersion
  /\ own[k] # "gone" /\ rows[k].ver # 0
  /\ own[k] = "same" /\ Repeatable => rows[k].ver = snap[k]

\* The server has written the row, or did not find it any more.
Written(k) == applied[k] = 1 \/ (~Repeatable /\ Moved(k) /\ applied[k] = 0)

\* A row is in the source, in the chunk, or in one sink.
PlaceInv ==
  /\ Waiting \subseteq Rows
  /\ Sent \cap (input \cup chunk) = {}
  /\ received \cap Staged = {}

AppliedInv ==
  /\ \A k \in Keys : IF k \in Rows \ Waiting THEN Written(k) ELSE applied[k] = 0
  /\ \A k \in Waiting : rows[k].act \in {"update", "delete"} => ReadAs(k)

VersionInv ==
  \A k \in Keys : rows[k].ver < nextVersion /\ table[k] < nextVersion /\ snap[k] < nextVersion

FlowInv ==
  /\ phase \notin {"idle", "failed"} => tx = "started"
  /\ phase \in {"idle", "source", "chunks", "done"} => left = {}
  /\ phase \in {"finish", "done"} => input = {} /\ chunk = {}
  /\ Running => PlaceInv /\ AppliedInv

WriteInv == SinkInv /\ LostInv /\ ValuesOK /\ CountInv /\ VersionInv /\ FlowInv

\* Rows that leave the sinks have been written, the others are not touched.
LEMMA AppliedStep ==
  ASSUME AppliedInv, UNCHANGED <<table, rows, isolation, snap>>,
         NEW done \in SUBSET Waiting, Waiting' = Waiting \ done, Waiting \subseteq Rows,
         \A k \in done : Written(k)',
         \A k \in Keys \ done : own'[k] = own[k] /\ applied'[k] = applied[k]
  PROVE  AppliedInv'
<1>1. ASSUME NEW k \in Keys
      PROVE  IF k \in Rows' \ Waiting' THEN Written(k)' ELSE applied'[k] = 0
  <2>1. Rows' = Rows
    BY DEF Rows
  <2>2. CASE k \in done
    <3>1. k \in Rows' \ Waiting'
      BY <2>1, <2>2
    <3> QED
      BY <2>2, <3>1
  <2>3. CASE k \notin done
    BY <2>1, <2>3 DEF AppliedInv, Written, Moved, Repeatable
  <2> QED
    BY <2>2, <2>3
<1>2. ASSUME NEW k \in Waiting', rows'[k].act \in {"update", "delete"}
      PROVE  ReadAs(k)'
  BY <1>2 DEF AppliedInv, ReadAs, Repeatable, Rows
<1> QED
  BY <1>1, <1>2 DEF AppliedInv

\* The rows of a DELETE or of UPDATE's temporary table.
LEMMA ByCtidWrites ==
  ASSUME WriteInv, Running, NEW S \in SUBSET Waiting, NEW what \in {"written", "gone"},
         \A k \in S : rows[k].act \in {"update", "delete"},
         WriteByCtid(S, what), phase' # "failed", UNCHANGED <<table, rows, isolation>>
  PROVE  /\ \A k \in S : Written(k)'
         /\ \A k \in Keys \ S : own'[k] = own[k] /\ applied'[k] = applied[k]
         /\ UNCHANGED <<tx, snap, received, temp>>
<1> DEFINE found == {k \in S : View[k] = rows[k].ver}
<1>1. Apply(found, what) /\ UNCHANGED <<tx, snap, received, temp>>
  BY DEF WriteByCtid, Throw
<1>2. Waiting \subseteq Keys /\ tx = "started" /\ AppliedInv /\ PlaceInv
  BY DEF WriteInv, FlowInv, Running, PlaceInv, Rows
<1>3. /\ \A k \in Keys : applied[k] \in Nat /\ own[k] \in {"same", "written", "gone"}
      /\ \A k \in found : applied'[k] = applied[k] + 1
      /\ \A k \in Keys \ found : own'[k] = own[k] /\ applied'[k] = applied[k]
  BY <1>1, <1>2 DEF Apply, WriteInv, LostInv
<1>4. ASSUME NEW k \in S
      PROVE  Written(k)'
  <2>1. k \in Keys /\ applied[k] = 0 /\ ReadAs(k)
    BY <1>2 DEF AppliedInv
  <2>2. CASE k \in found
    BY <1>3, <2>1, <2>2 DEF Written
  <2>3. CASE k \notin found
    <3>1. View[k] = CASE own[k] = "written" -> MyVersion
                      [] own[k] = "gone"    -> 0
                      [] OTHER -> IF Repeatable /\ tx = "started" THEN snap[k] ELSE table[k]
      BY <2>1 DEF View
    <3>2. own[k] = "same" /\ ~Repeatable /\ View[k] = table[k] /\ View[k] # rows[k].ver
      BY <1>2, <1>3, <2>1, <2>3, <3>1 DEF ReadAs
    <3>3. Moved(k)' /\ ~Repeatable' /\ applied'[k] = 0
      BY <1>3, <2>1, <2>3, <3>2 DEF Moved, ReadAs, Repeatable
    <3> QED
      BY <3>3 DEF Written
  <2> QED
    BY <2>2, <2>3
<1> QED
  BY <1>1, <1>3, <1>4

LEMMA InsertWrites ==
  ASSUME WriteInv, Running, NEW S \in SUBSET Waiting, Apply(S, "written")
  PROVE  /\ \A k \in S : Written(k)'
         /\ \A k \in Keys \ S : own'[k] = own[k] /\ applied'[k] = applied[k]
<1>1. Waiting \subseteq Keys /\ \A k \in S : applied[k] = 0
  BY DEF WriteInv, FlowInv, Running, PlaceInv, AppliedInv, Rows
<1>2. \A k \in S : applied'[k] = applied[k] + 1
  BY <1>1 DEF Apply
<1> QED
  BY <1>1, <1>2 DEF Apply, Written

LEMMA SendRowsWrites ==
  ASSUME WriteInv, Running, ~Open, NEW a \in {"insert", "delete"}, NEW S \in SUBSET Waiting,
         IsFor(S, a), SendRows(a, S), phase' # "failed", UNCHANGED <<table, rows, isolation>>
  PROVE  /\ \A k \in S : Written(k)'
         /\ \A k \in Keys \ S : own'[k] = own[k] /\ applied'[k] = applied[k]
         /\ UNCHANGED <<tx, snap, received, temp, phase>>
<1>1. CASE a = "delete"
  <2>1. WriteByCtid(S, "gone")
    BY <1>1 DEF SendRows, Command
  <2>2. UNCHANGED phase
    BY <2>1 DEF WriteByCtid, Throw
  <2> QED
    BY <1>1, <2>1, <2>2, ByCtidWrites DEF IsFor
<1>2. CASE a = "insert"
  <2>1. Apply(S, "written") /\ UNCHANGED <<tx, snap, received, temp, phase>>
    BY <1>2 DEF SendRows, Command, InsertRows
  <2> QED
    BY <2>1, InsertWrites
<1> QED
  BY <1>1, <1>2

LEMMA WriteInit == Init => WriteInv
<1>1. Init => VersionInv /\ FlowInv
  BY DEF Init, VersionInv, FlowInv, Running, NoRow
<1> QED
  BY <1>1, SinkInit, LostInit, ValuesInit, CountInit DEF WriteInv

LEMMA VersionStep ==
  ASSUME WriteInv, [Next]_vars
  PROVE  VersionInv'
<1> USE DEF WriteInv, VersionInv
<1>1. ASSUME UNCHANGED <<table, nextVersion, rows>>, UNCHANGED snap \/ snap' = table
      PROVE  VersionInv'
  BY <1>1
<1>2. ASSUME NEW k \in Kinds, Start(k)
      PROVE  VersionInv'
  BY <1>1, <1>2 DEF Start, Begin
<1>3. CASE ReadSource
  <2>1. \A k \in Keys : View[k] < nextVersion
    BY DEF View, ValuesOK, LostInv, MyVersion
  <2>2. \A k \in Keys : rows'[k].ver = View[k] \/ rows'[k].ver = 0
    BY <1>3 DEF ReadSource, Source, NoRow
  <2> QED
    BY <1>3, <2>1, <2>2 DEF ReadSource, Source, ValuesOK
<1>4. CASE NextChunk \/ SourceEnds \/ Done \/ ServerRejects \/ SourceFails
  BY <1>1, <1>4 DEF NextChunk, SourceEnds, Done, ServerRejects, SourceFails
<1>5. ASSUME NEW a, CopyChunk(a) \/ Collect(a) \/ Finalize(a)
      PROVE  VersionInv'
  <2>1. UNCHANGED <<table, nextVersion, rows, snap>>
    <3>1. CASE CopyChunk(a)
      BY <3>1 DEF CopyChunk, EndCopy, InsertRows, Throw
    <3>2. CASE Collect(a)
      BY <3>2, CommandKeeps DEF Collect
    <3>3. CASE Finalize(a)
      BY <3>3, CommandKeeps
      DEF Finalize, FinishCopy, EndCopy, InsertRows, FinalizeNothing, FinalizeBuffered, Finalized
    <3> QED
      BY <1>5, <3>1, <3>2, <3>3
  <2> QED
    BY <1>1, <2>1
<1>6. CASE FinalizeUpdate
  BY <1>1, <1>6, CommandKeeps DEF FinalizeUpdate, Command, UpdateFromTemp, Throw
<1>7. CASE LoadSchemas
  BY <1>1, <1>7 DEF LoadSchemas, Begin
<1>8. ASSUME NEW k \in Keys, NoStatement
      PROVE  rows'[k].ver = 0
  BY <1>8 DEF NoStatement, NoRow
<1>9. CASE StatementEnds
  BY <1>8, <1>9 DEF StatementEnds, ValuesOK
<1>10. CASE Rollback
  BY <1>8, <1>10 DEF Rollback, EndTransaction, ValuesOK
<1>11. CASE Commit
  <2>1. \A k \in Keys : table'[k] \in {table[k], 0, nextVersion}
    BY <1>11 DEF Commit, LostInv
  <2>2. nextVersion \in Int /\ nextVersion > 0 /\ \A k \in Keys : table[k] \in Int
    BY DEF ValuesOK
  <2>3. \A k \in Keys : table'[k] < nextVersion'
    <3>1. CASE table' = table
      BY <1>11, <3>1 DEF Commit
    <3>2. CASE table' # table
      <4>1. nextVersion' = nextVersion + 1
        BY <1>11, <3>2 DEF Commit
      <4> QED
        BY <2>1, <2>2, <4>1
    <3> QED
      BY <3>1, <3>2
  <2>4. 0 < nextVersion'
    BY <1>11, <2>2 DEF Commit
  <2> QED
    BY <1>8, <1>11, <2>3, <2>4 DEF Commit, EndTransaction
<1>12. ASSUME NEW k \in Keys, OtherCommits(k)
       PROVE  VersionInv'
  <2>1. nextVersion' = nextVersion + 1 /\ UNCHANGED <<rows, snap>>
        /\ \A m \in Keys : table'[m] \in {table[m], 0, nextVersion}
    BY <1>12 DEF OtherCommits, ValuesOK
  <2>2. /\ nextVersion \in Int /\ nextVersion > 0
        /\ \A m \in Keys : table[m] \in Int /\ snap[m] \in Int /\ rows[m].ver \in Int
    BY DEF ValuesOK, RowType, Versions, MyVersion
  <2> QED
    BY <2>1, <2>2
<1>13. CASE UNCHANGED vars
  BY <1>1, <1>13 DEF vars
<1> QED
  BY <1>2, <1>3, <1>4, <1>5, <1>6, <1>7, <1>9, <1>10, <1>11, <1>12, <1>13
  DEF Next, Sink, SinkCopy, SinkUpdate, SinkPlain, SinkDelete
\* What the sinks keep for different actions is apart.
LEMMA SentApart ==
  ASSUME SinkInv, LostInv, phase # "failed"
  PROVE  /\ \A a, b \in Actions : a # b => buffer[a] \cap buffer[b] = {}
         /\ \A a \in Actions : buffer[a] \cap temp = {}
         /\ buffer["update"] = {}
         /\ ~Open => received = {}
<1>1. CopyInv /\ \A a \in Actions : IsFor(buffer[a], a)
  BY DEF SinkInv, LostInv
<1>2. buffer["update"] = {}
  BY <1>1 DEF CopyInv, Actions
<1>3. ASSUME NEW a \in Actions
      PROVE  buffer[a] \cap temp = {}
  <2>1. CASE a = "update"
    BY <1>2, <2>1
  <2>2. CASE a # "update"
    BY <1>1, <2>2 DEF LostInv, IsFor
  <2> QED
    BY <2>1, <2>2
<1> QED
  BY <1>1, <1>2, <1>3 DEF LostInv, IsFor

LEMMA SentIs ==
  /\ Sent  = received \cup Staged \cup Unsent("insert") \cup Unsent("update") \cup Unsent("delete")
  /\ Sent' = received' \cup Staged' \cup Unsent("insert")' \cup Unsent("update")'
                                                            \cup Unsent("delete")'
BY DEF Sent, Actions

\* While chunks flow, and while the sinks are finalized, rows move on to the sinks, and those
\* that leave them have been written.
LEMMA FlowWrites ==
  ASSUME WriteInv, phase \in {"chunks", "finish"}, phase' = phase,
         UNCHANGED <<table, rows, isolation, tx, snap>>,
         phase = "chunks" => left' = left,
         phase = "finish" => UNCHANGED <<input, chunk>>,
         NEW done \in SUBSET Waiting, Waiting' = Waiting \ done,
         Sent' \cap (input' \cup chunk') = {}, received' \cap Staged' = {},
         \A k \in done : Written(k)',
         \A k \in Keys \ done : own'[k] = own[k] /\ applied'[k] = applied[k]
  PROVE  FlowInv'
<1>1. PlaceInv /\ AppliedInv /\ Waiting \subseteq Rows
  BY DEF WriteInv, FlowInv, Running, PlaceInv
<1>2. AppliedInv'
  BY <1>1, AppliedStep
<1>3. PlaceInv'
  BY <1>1 DEF PlaceInv, Rows
<1> QED
  BY <1>2, <1>3 DEF WriteInv, FlowInv, Running

LEMMA FlowMoves ==
  ASSUME WriteInv, phase \in {"chunks", "finish"}, phase' = phase,
         UNCHANGED <<table, rows, isolation, tx, snap, own, applied>>,
         phase = "chunks" => left' = left,
         phase = "finish" => UNCHANGED <<input, chunk>>,
         Waiting' = Waiting,
         Sent' \cap (input' \cup chunk') = {}, received' \cap Staged' = {}
  PROVE  FlowInv'
<1>1. /\ {} \in SUBSET Waiting /\ Waiting' = Waiting \ {}
      /\ \A k \in {} : Written(k)'
  OBVIOUS
<1> QED
  BY <1>1, FlowWrites
LEMMA FlowFails ==
  ASSUME phase' = "failed"
  PROVE  FlowInv'
BY DEF FlowInv, Running

\* A chunk goes into a COPY.
LEMMA FlowCopyChunk ==
  ASSUME WriteInv, NEW a \in {"insert", "update"}, CopyChunk(a)
  PROVE  FlowInv'
<1>1. /\ phase = "chunks" /\ a \in Actions /\ CopyInv /\ ~BeginFails(a) /\ ~PutFails(a)
      /\ PlaceInv /\ input \cap chunk = {}
  BY ChunkFits DEF WriteInv, CopyChunk, FlowInv, Running, CountInv
<1>2. /\ chunk' = chunk \ RowsFor(a) /\ RowsFor(a) \subseteq chunk
      /\ UNCHANGED <<table, rows, isolation, input, left, buffer>>
  BY <1>1 DEF CopyChunk, Took, RowsFor, WriteInv, SinkInv, Types
<1>3. CASE KeepCopyAlive
  <2>1. received' = received \cup RowsFor(a)
        /\ UNCHANGED <<tx, snap, own, temp, phase, applied>>
    BY <1>1, <1>3 DEF CopyChunk
  <2>2. Staged' = Staged /\ Unsent("insert")' = Unsent("insert")
        /\ Unsent("update")' = Unsent("update") /\ Unsent("delete")' = Unsent("delete")
    BY <1>2, <2>1 DEF Staged, Unsent
  <2>3. Sent' = Sent \cup RowsFor(a)
    BY <2>1, <2>2, SentIs
  <2>4. Waiting' = Waiting
    BY <1>2, <2>3 DEF Waiting
  <2>5. Sent' \cap (input' \cup chunk') = {}
    BY <1>1, <1>2, <2>3 DEF PlaceInv
  <2>6. received' \cap Staged' = {}
    <3>1. Staged \subseteq Sent
      BY SentIs
    <3> QED
      BY <1>1, <1>2, <2>1, <2>2, <3>1 DEF PlaceInv
  <2> QED
    BY <1>1, <1>2, <2>1, <2>4, <2>5, <2>6, FlowMoves
<1>4. CASE ~KeepCopyAlive
  <2>1. EndCopy(a, RowsFor(a))
    BY <1>1, <1>4 DEF CopyChunk
  <2>2. received = {} /\ received' = {}
    <3>1. ~Open
      BY <1>1, <1>4 DEF CopyInv, Open, KeepCopyAlive, WriteInv, SinkInv, Types
    <3> QED
      BY <1>1, <2>1, <3>1, SentApart DEF EndCopy, WriteInv
  <2>3. phase' = phase /\ UNCHANGED <<tx, snap>>
    BY <2>1 DEF EndCopy, InsertRows
  <2>4. Unsent("insert")' = Unsent("insert") /\ Unsent("update")' = Unsent("update")
        /\ Unsent("delete")' = Unsent("delete")
    BY <1>2, <2>3 DEF Unsent
  <2>5. CASE a = "insert"
    <3>1. Apply(RowsFor(a), "written") /\ Staged' = Staged
      BY <1>2, <2>1, <2>3, <2>5 DEF EndCopy, InsertRows, Staged
    <3>2. Sent' = Sent
      BY <2>2, <2>4, <3>1, SentIs
    <3>3. Waiting' = Waiting \ RowsFor(a) /\ RowsFor(a) \in SUBSET Waiting
      BY <1>1, <1>2, <3>2 DEF Waiting, PlaceInv
    <3>4. /\ \A k \in RowsFor(a) : Written(k)'
          /\ \A k \in Keys \ RowsFor(a) : own'[k] = own[k] /\ applied'[k] = applied[k]
      BY <1>1, <3>1, <3>3, InsertWrites DEF Running
    <3>5. Sent' \cap (input' \cup chunk') = {} /\ received' \cap Staged' = {}
      BY <1>1, <1>2, <2>2, <3>2 DEF PlaceInv
    <3> QED
      BY <1>1, <1>2, <2>3, <3>3, <3>4, <3>5, FlowWrites
  <2>6. CASE a = "update"
    <3>1. temp' = temp \cup RowsFor(a) /\ UNCHANGED <<own, applied>>
      BY <2>1, <2>6 DEF EndCopy
    <3>2. Staged' = Staged \cup RowsFor(a)
      BY <1>1, <2>3, <3>1 DEF Staged
    <3>3. Sent' = Sent \cup RowsFor(a)
      BY <2>2, <2>4, <3>2, SentIs
    <3>4. Waiting' = Waiting
      BY <1>2, <3>3 DEF Waiting
    <3>5. Sent' \cap (input' \cup chunk') = {} /\ received' \cap Staged' = {}
      BY <1>1, <1>2, <2>2, <3>3 DEF PlaceInv
    <3> QED
      BY <1>1, <1>2, <2>3, <3>1, <3>4, <3>5, FlowMoves
  <2> QED
    BY <2>5, <2>6
<1> QED
  BY <1>3, <1>4

\* A chunk goes into a batch of INSERTs or into a list of ctids, which may be sent.
LEMMA FlowCollect ==
  ASSUME WriteInv, NEW a \in {"insert", "delete"}, Collect(a), a = "insert" => plain
  PROVE  FlowInv'
<1>1. /\ phase = "chunks" /\ a \in Actions /\ a \in Sinks /\ CopyInv
      /\ PlaceInv /\ input \cap chunk = {}
  <2>1. phase = "chunks" /\ RowsFor(a) # {} /\ a \in Actions
    BY DEF Collect, Actions
  <2>2. CopyInv /\ PlaceInv /\ input \cap chunk = {} /\ chunk \subseteq Keys
    BY <2>1 DEF WriteInv, SinkInv, Types, FlowInv, Running, CountInv
  <2>3. a \in Sinks
    BY <2>1, <2>2 DEF RowsFor, CopyInv
  <2> QED
    BY <2>1, <2>2, <2>3
<1>2. ~Open /\ received = {}
  <2>1. ~Open
    BY <1>1, NotOpen DEF CopyInv, WriteInv
  <2> QED
    BY <1>1, <2>1, SentApart DEF WriteInv
<1> DEFINE all == buffer[a] \cup RowsFor(a)
<1>3. /\ chunk' = chunk \ RowsFor(a) /\ RowsFor(a) \subseteq chunk
      /\ UNCHANGED <<table, rows, isolation, input, left>>
  BY DEF Collect, Took, RowsFor, WriteInv, SinkInv, Types
<1>4. buffer[a] \subseteq Sent /\ IsFor(all, a) /\ buffer \in [Actions -> SUBSET Keys]
  <2>1. buffer[a] \subseteq Sent
    BY <1>1 DEF Sent, Unsent
  <2>2. IsFor(all, a)
    BY <1>1 DEF WriteInv, LostInv, IsFor, RowsFor
  <2> QED
    BY <2>1, <2>2 DEF WriteInv, SinkInv, Types
<1>5. ASSUME NEW sent \in SUBSET all, buffer' = [buffer EXCEPT ![a] = all \ sent],
             phase' = phase, UNCHANGED <<received, temp>>
      PROVE  /\ sent \in SUBSET Waiting /\ Waiting' = Waiting \ sent
             /\ Sent' \cap (input' \cup chunk') = {} /\ received' \cap Staged' = {}
  <2>1. sent \subseteq Sent \cup RowsFor(a)
    BY <1>4, <1>5
  <2>2. Staged' = temp /\ Staged = temp
        /\ \A b \in Actions : Unsent(b)' = buffer'[b] /\ Unsent(b) = buffer[b]
    BY <1>1, <1>5 DEF Staged, Unsent
  <2>3. buffer'[a] = all \ sent /\ \A b \in Actions \ {a} : buffer'[b] = buffer[b]
    BY <1>1, <1>4, <1>5
  <2>4. sent \cap temp = {} /\ \A b \in Actions \ {a} : sent \cap buffer[b] = {}
    <3>1. IsFor(sent, a) /\ IsFor(temp, "update") /\ \A b \in Actions : IsFor(buffer[b], b)
      BY <1>1, <1>4, <1>5 DEF IsFor, WriteInv, LostInv
    <3> QED
      BY <3>1 DEF IsFor
  <2> HIDE DEF all
  <2>5. Sent' = (Sent \cup RowsFor(a)) \ sent
    <3>1. all = buffer[a] \cup RowsFor(a)
      BY DEF all
    <3>2. RowsFor(a) \cap Sent = {}
      BY <1>1, <1>3 DEF PlaceInv
    <3>3. Sent = temp \cup UNION {buffer[b] : b \in Actions}
      BY <1>2, <2>2 DEF Sent
    <3>4. Sent' = temp \cup UNION {buffer'[b] : b \in Actions}
      BY <1>2, <1>5, <2>2 DEF Sent
    <3>5. ASSUME NEW k
          PROVE  k \in Sent' <=> k \in Sent \cup RowsFor(a) /\ k \notin sent
      <4>1. CASE k \in sent
        BY <2>3, <2>4, <3>4, <4>1
      <4>2. CASE k \notin sent
        BY <1>1, <2>3, <3>1, <3>3, <3>4, <4>2
      <4> QED
        BY <4>1, <4>2
    <3> QED
      BY <3>5
  <2>6. sent \cap input = {} /\ sent \cap (chunk \ RowsFor(a)) = {}
    BY <1>1, <1>3, <2>1, <1>4, <1>5 DEF PlaceInv
  <2>7. received' \cap Staged' = {}
    BY <1>2, <1>5
  <2>8. sent \in SUBSET Waiting /\ Waiting' = Waiting \ sent
    BY <1>3, <2>1, <2>5, <2>6 DEF Waiting
  <2>9. Sent' \cap (input' \cup chunk') = {}
    BY <1>1, <1>3, <2>5 DEF PlaceInv
  <2> QED
    BY <2>7, <2>8, <2>9
<1>6. CASE /\ buffer' = [buffer EXCEPT ![a] = all]
           /\ UNCHANGED <<txVars, wireVars, phase, applied, failure>>
  <2>1. {} \in SUBSET all /\ all \ {} = all
    OBVIOUS
  <2>2. /\ Waiting' = Waiting \ {}
        /\ Sent' \cap (input' \cup chunk') = {} /\ received' \cap Staged' = {}
    BY <1>5, <1>6, <2>1
  <2> QED
    BY <1>1, <1>3, <1>6, <2>2, FlowMoves
<1>7. ASSUME NEW sent \in SUBSET all, buffer' = [buffer EXCEPT ![a] = all \ sent],
             SendRows(a, sent), phase' # "failed"
      PROVE  FlowInv'
  <2>1. phase' = phase /\ UNCHANGED <<received, temp>>
    BY <1>2, <1>7 DEF SendRows, Command, WriteByCtid, Throw, InsertRows
  <2>2. /\ sent \in SUBSET Waiting /\ Waiting' = Waiting \ sent
        /\ Sent' \cap (input' \cup chunk') = {} /\ received' \cap Staged' = {}
    BY <1>5, <1>7, <2>1
  <2>3. IsFor(sent, a)
    BY <1>4, <1>7 DEF IsFor
  <2>4. /\ \A k \in sent : Written(k)'
        /\ \A k \in Keys \ sent : own'[k] = own[k] /\ applied'[k] = applied[k]
        /\ UNCHANGED <<tx, snap>>
    BY <1>1, <1>2, <1>3, <1>7, <2>2, <2>3, SendRowsWrites DEF Running
  <2> QED
    BY <1>1, <1>3, <2>1, <2>2, <2>4, FlowWrites
<1>8. \/ /\ UNCHANGED <<txVars, wireVars, phase, applied, failure>>
         /\ buffer' = [buffer EXCEPT ![a] = all]
      \/ \E sent \in SUBSET all :
           buffer' = [buffer EXCEPT ![a] = all \ sent] /\ SendRows(a, sent)
  BY DEF Collect
<1> QED
  BY <1>6, <1>7, <1>8, FlowFails
\* A sink is finalized: what it has kept is written, what the others keep still waits.
LEMMA FlowFinishCopy ==
  ASSUME WriteInv, NEW a \in Actions, FinishCopy(a)
  PROVE  FlowInv'
<1>1. /\ phase = "finish" /\ a \in left /\ CopyInv /\ active[a] /\ a \in {"insert", "update"}
      /\ PlaceInv /\ IsFor(received, a)
      /\ UNCHANGED <<table, rows, isolation, input, chunk, left, buffer>>
  BY DEF FinishCopy, WriteInv, SinkInv, CopyInv, FlowInv, Running, LostInv, Open
<1>2. received' = {} /\ phase' = phase /\ UNCHANGED <<tx, snap>>
  BY DEF FinishCopy, EndCopy, InsertRows
<1>3. Unsent("insert")' = Unsent("insert") /\ Unsent("update")' = Unsent("update")
      /\ Unsent("delete")' = Unsent("delete")
  BY <1>1, <1>2 DEF Unsent
<1>4. received' \cap Staged' = {} /\ Sent \cap (input \cup chunk) = {}
  BY <1>1, <1>2 DEF PlaceInv
<1>5. CASE a = "insert"
  <2>1. Apply(received, "written") /\ Staged' = Staged
    BY <1>1, <1>2, <1>5 DEF FinishCopy, EndCopy, InsertRows, Staged
  <2>2. received \cap (Unsent("insert") \cup Unsent("update") \cup Unsent("delete")) = {}
    <3>1. ~plain /\ \A b \in Actions : IsFor(buffer[b], b)
      BY <1>1, <1>5 DEF CopyInv, WriteInv, LostInv
    <3>2. buffer["insert"] = {}
      BY <1>1, <3>1 DEF CopyInv, Actions
    <3> QED
      BY <1>1, <1>5, <3>1, <3>2 DEF Unsent, IsFor, Actions
  <2>3. received \cap Staged = {} /\ received \subseteq Sent
    BY <1>1, SentIs DEF PlaceInv
  <2>4. Sent' = Sent \ received
    BY <1>2, <1>3, <2>1, <2>2, <2>3, SentIs
  <2>5. Waiting' = Waiting \ received /\ received \in SUBSET Waiting
    BY <1>1, <1>4, <2>3, <2>4 DEF Waiting
  <2>6. /\ \A k \in received : Written(k)'
        /\ \A k \in Keys \ received : own'[k] = own[k] /\ applied'[k] = applied[k]
    BY <1>1, <2>1, <2>5, InsertWrites DEF Running
  <2>7. Sent' \cap (input' \cup chunk') = {}
    BY <1>1, <1>4, <2>4
  <2> QED
    BY <1>1, <1>2, <1>4, <2>5, <2>6, <2>7, FlowWrites
<1>6. CASE a = "update"
  <2>1. temp' = temp \cup received /\ UNCHANGED <<own, applied>>
    BY <1>6 DEF FinishCopy, EndCopy
  <2>2. Staged' = Staged \cup received
    BY <1>1, <1>2, <1>6, <2>1 DEF Staged
  <2>3. Sent' = Sent
    BY <1>2, <1>3, <2>2, SentIs
  <2>4. Waiting' = Waiting /\ Sent' \cap (input' \cup chunk') = {}
    BY <1>1, <1>4, <2>3 DEF Waiting
  <2> QED
    BY <1>1, <1>2, <1>4, <2>1, <2>4, FlowMoves
<1> QED
  BY <1>1, <1>5, <1>6

\* The rows of the sinks that are not finalized, and what becomes of them when one is.
LEMMA FlowFinalized ==
  ASSUME WriteInv, phase = "finish", NEW a \in left, ~active[a], Finalized(a),
         phase' = phase, UNCHANGED <<received, temp>>,
         NEW done, done = IF a = "update" THEN temp ELSE buffer[a]
  PROVE  /\ done \in SUBSET Waiting /\ Waiting' = Waiting \ done /\ ~Open
         /\ Sent' \cap (input' \cup chunk') = {} /\ received' \cap Staged' = {}
         /\ UNCHANGED <<input, chunk>>
<1>1. /\ a \in Actions /\ a \in Sinks /\ CopyInv /\ PlaceInv
      /\ UNCHANGED <<input, chunk, buffer>> /\ left' = left \ {a}
  BY DEF WriteInv, SinkInv, CopyInv, ValuesOK, FlowInv, Running, Finalized
<1>2. ~Open
  BY <1>1, NotOpen DEF WriteInv
<1>3. /\ \A b, c \in Actions : b # c => buffer[b] \cap buffer[c] = {}
      /\ \A b \in Actions : buffer[b] \cap temp = {}
      /\ buffer["update"] = {} /\ received = {}
  BY <1>2, SentApart DEF WriteInv
<1>4. /\ Staged = (IF "update" \in left THEN temp ELSE {})
      /\ Staged' = (IF "update" \in left \ {a} THEN temp ELSE {})
      /\ \A b \in Actions : /\ Unsent(b) = IF b \in left THEN buffer[b] ELSE {}
                            /\ Unsent(b)' = IF b \in left \ {a} THEN buffer[b] ELSE {}
  BY <1>1 DEF Staged, Unsent
<1>5. ASSUME NEW k
      PROVE  k \in Sent' <=> k \in Sent /\ k \notin done
  <2>1. k \in Sent <=> k \in Staged \/ \E b \in Actions : k \in Unsent(b)
    BY <1>3 DEF Sent
  <2>2. k \in Sent' <=> k \in Staged' \/ \E b \in Actions : k \in Unsent(b)'
    BY <1>3 DEF Sent
  <2>3. CASE a = "update"
    BY <1>1, <1>3, <1>4, <2>1, <2>2, <2>3
  <2>4. CASE a # "update"
    BY <1>1, <1>3, <1>4, <2>1, <2>2, <2>4
  <2> QED
    BY <2>3, <2>4
<1>6. Sent' = Sent \ done
  BY <1>5
<1>7. done \subseteq Sent
  <2>1. CASE a = "update"
    BY <1>4, <2>1, SentIs
  <2>2. CASE a # "update"
    BY <1>1, <1>4, <2>2 DEF Sent
  <2> QED
    BY <2>1, <2>2
<1>8. done \in SUBSET Waiting /\ Waiting' = Waiting \ done
  BY <1>1, <1>6, <1>7 DEF Waiting, PlaceInv
<1> QED
  BY <1>1, <1>2, <1>3, <1>6, <1>8 DEF PlaceInv

LEMMA FlowFinalizeNothing ==
  ASSUME WriteInv, NEW a \in Actions, FinalizeNothing(a)
  PROVE  FlowInv'
<1>1. /\ phase = "finish" /\ a \in left /\ a # "update" /\ ~active[a] /\ buffer[a] = {}
      /\ Finalized(a) /\ phase' = phase
      /\ UNCHANGED <<table, rows, isolation, tx, snap, own, applied, received, temp>>
  BY DEF FinalizeNothing
<1>2. /\ Waiting' = Waiting \ {} /\ UNCHANGED <<input, chunk>>
      /\ Sent' \cap (input' \cup chunk') = {} /\ received' \cap Staged' = {}
  BY <1>1, FlowFinalized
<1> QED
  BY <1>1, <1>2, FlowMoves

LEMMA FlowFinalizeBuffered ==
  ASSUME WriteInv, NEW a \in Actions, FinalizeBuffered(a), phase' # "failed"
  PROVE  FlowInv'
<1>1. /\ phase = "finish" /\ a \in left /\ a \in {"insert", "delete"} /\ ~active[a]
      /\ CopyInv /\ Finalized(a) /\ SendRows(a, buffer[a]) /\ IsFor(buffer[a], a)
      /\ UNCHANGED <<table, rows, isolation>>
  <2>1. phase = "finish" /\ a \in left /\ buffer[a] # {} /\ Finalized(a)
        /\ SendRows(a, buffer[a]) /\ UNCHANGED <<table, rows, isolation>>
    BY DEF FinalizeBuffered
  <2>2. CopyInv /\ IsFor(buffer[a], a)
    BY <2>1 DEF WriteInv, SinkInv, LostInv
  <2> QED
    BY <2>1, <2>2 DEF CopyInv
<1>2. a \in Sinks /\ ~Open
  BY <1>1, NotOpen DEF WriteInv, CopyInv
<1>3. phase' = phase /\ UNCHANGED <<received, temp>>
  BY <1>1, <1>2 DEF SendRows, Command, WriteByCtid, Throw, InsertRows
<1>4. /\ buffer[a] \in SUBSET Waiting /\ Waiting' = Waiting \ buffer[a]
      /\ UNCHANGED <<input, chunk>>
      /\ Sent' \cap (input' \cup chunk') = {} /\ received' \cap Staged' = {}
  BY <1>1, <1>3, FlowFinalized
<1>5. /\ \A k \in buffer[a] : Written(k)'
      /\ \A k \in Keys \ buffer[a] : own'[k] = own[k] /\ applied'[k] = applied[k]
      /\ UNCHANGED <<tx, snap>>
  BY <1>1, <1>2, <1>4, SendRowsWrites DEF Running
<1> QED
  BY <1>1, <1>3, <1>4, <1>5, FlowWrites

LEMMA FlowFinalizeUpdate ==
  ASSUME WriteInv, FinalizeUpdate, phase' # "failed"
  PROVE  FlowInv'
<1>1. /\ phase = "finish" /\ "update" \in left /\ ~active["update"] /\ CopyInv
      /\ "update" \in Actions /\ Finalized("update") /\ Command(UpdateFromTemp)
      /\ IsFor(temp, "update") /\ UNCHANGED <<table, rows, isolation>>
  BY DEF FinalizeUpdate, WriteInv, SinkInv, LostInv, Actions
<1>2. ~Open
  BY <1>1, NotOpen DEF WriteInv, CopyInv
<1>3. WriteByCtid(temp, "written")
  BY <1>1, <1>2 DEF Command, UpdateFromTemp
<1>4. phase' = phase /\ UNCHANGED <<received, temp>>
  BY <1>3 DEF WriteByCtid, Throw
<1>5. /\ temp \in SUBSET Waiting /\ Waiting' = Waiting \ temp /\ UNCHANGED <<input, chunk>>
      /\ Sent' \cap (input' \cup chunk') = {} /\ received' \cap Staged' = {}
  BY <1>1, <1>4, FlowFinalized
<1>6. /\ \A k \in temp : Written(k)'
      /\ \A k \in Keys \ temp : own'[k] = own[k] /\ applied'[k] = applied[k]
      /\ UNCHANGED <<tx, snap>>
  BY <1>1, <1>3, <1>5, ByCtidWrites DEF Running, IsFor
<1> QED
  BY <1>1, <1>4, <1>5, <1>6, FlowWrites
\* All rows of the source are still to come, and are as the scan has read them.
LEMMA FlowReadSource ==
  ASSUME WriteInv, ReadSource
  PROVE  FlowInv'
<1>1. /\ phase = "source" /\ phase' = "chunks" /\ rows' \in [Keys -> RowType]
      /\ \A k \in Keys : rows'[k].act # "none" =>
           rows'[k].act \in ActionFor(k, View) /\ rows'[k].ver = View[k]
      /\ input' = {k \in Keys : rows'[k].act # "none"}
      /\ UNCHANGED <<isolation, tx, snap, own, table, received, temp, buffer, chunk, left, applied>>
  <2>1. PICK r \in [Keys -> [act : Actions \cup {"none"}, ver : Versions]] :
          /\ rows' = r
          /\ \A k \in Keys : IF r[k].act = "none" THEN r[k] = NoRow
                             ELSE r[k].act \in ActionFor(k, View) /\ r[k].ver = View[k]
    BY DEF ReadSource, Source
  <2> QED
    BY <2>1 DEF ReadSource, Source, RowType
<1>2. /\ tx = "started" /\ left = {} /\ chunk = {} /\ received = {} /\ temp = {}
      /\ \A a \in Actions : buffer[a] = {}
      /\ \A k \in Keys : applied[k] = 0
  <2>1. CopyInv /\ ~Open
    BY <1>1 DEF WriteInv, SinkInv, Types, CopyInv, Open
  <2> QED
    BY <1>1, <2>1 DEF WriteInv, FlowInv, LostInv, CountInv
<1>3. Sent' = {} /\ Waiting' = Rows'
  <2>1. Sent' = {}
    BY <1>1, <1>2 DEF Sent, Staged, Unsent
  <2> QED
    BY <1>1, <1>2, <2>1 DEF Waiting, Rows
<1>4. ASSUME NEW k \in Keys, rows'[k].act \in {"update", "delete"}
      PROVE  ReadAs(k)'
  <2>1. View[k] # 0 /\ rows'[k].ver = View[k]
    BY <1>1, <1>4, SinksOfKinds DEF ActionFor
  <2>2. View[k] = CASE own[k] = "written" -> MyVersion
                    [] own[k] = "gone"    -> 0
                    [] OTHER -> IF Repeatable /\ tx = "started" THEN snap[k] ELSE table[k]
    BY DEF View
  <2>3. own[k] \in {"same", "written", "gone"}
    BY DEF WriteInv, LostInv
  <2> QED
    BY <1>1, <1>2, <2>1, <2>2, <2>3 DEF ReadAs, Repeatable
<1>5. AppliedInv'
  BY <1>1, <1>2, <1>3, <1>4 DEF AppliedInv, Rows
<1>6. PlaceInv'
  BY <1>1, <1>2, <1>3 DEF PlaceInv
<1> QED
  BY <1>1, <1>2, <1>5, <1>6 DEF FlowInv, Running

\* Another client changes only rows that the transaction has not, and gives them a version
\* that no scan has read.
LEMMA FlowOtherCommits ==
  ASSUME WriteInv, NEW k \in Keys, OtherCommits(k)
  PROVE  FlowInv'
<1>1. /\ own[k] = "same" /\ table'[k] \in {0, nextVersion}
      /\ \A m \in Keys \ {k} : table'[m] = table[m]
      /\ UNCHANGED <<txVars, wireVars, planVars, flowVars, sinkVars, phase, applied>>
  BY DEF OtherCommits, WriteInv, ValuesOK
<1>2. Waiting' = Waiting /\ Sent' = Sent /\ Staged' = Staged /\ Rows' = Rows
  BY <1>1 DEF Waiting, Sent, Staged, Unsent, Rows
<1>3. nextVersion \in Int /\ rows[k].ver < nextVersion
  BY DEF WriteInv, VersionInv, ValuesOK
<1>4. CASE Running
  <2>1. PlaceInv'
    BY <1>1, <1>2, <1>4 DEF WriteInv, FlowInv, PlaceInv
  <2>2. ASSUME NEW m \in Keys, Written(m)
        PROVE  Written(m)'
    <3>1. Moved(m) => Moved(m)'
      <4>1. CASE m = k
        BY <1>1, <1>3, <4>1 DEF Moved
      <4>2. CASE m # k
        BY <1>1, <4>2 DEF Moved
      <4> QED
        BY <4>1, <4>2
    <3> QED
      BY <1>1, <2>2, <3>1 DEF Written, Repeatable
  <2>3. AppliedInv'
    <3>1. AppliedInv
      BY <1>4 DEF WriteInv, FlowInv
    <3>2. \A m \in Keys : ReadAs(m) => ReadAs(m)'
      BY <1>1 DEF ReadAs, Repeatable
    <3>3. Waiting \subseteq Keys
      BY <1>4 DEF WriteInv, FlowInv, PlaceInv, Rows
    <3> QED
      BY <1>1, <1>2, <2>2, <3>1, <3>2, <3>3 DEF AppliedInv
  <2> QED
    BY <1>1, <2>1, <2>3 DEF WriteInv, FlowInv
<1>5. CASE ~Running
  BY <1>1, <1>5 DEF WriteInv, FlowInv, Running
<1> QED
  BY <1>4, <1>5

LEMMA FlowStep ==
  ASSUME WriteInv, [Next]_vars
  PROVE  FlowInv'
<1>1. ASSUME NEW k \in Kinds, Start(k)
      PROVE  FlowInv'
  BY <1>1 DEF Start, Begin, WriteInv, FlowInv, Running
<1>2. CASE NextChunk
  <2>1. /\ phase = "chunks" /\ phase' = phase /\ input' \cup chunk' = input \cup chunk
        /\ UNCHANGED <<table, rows, isolation, txVars, received, temp, left, buffer, applied>>
    BY <1>2 DEF NextChunk
  <2>2. Sent' = Sent /\ Staged' = Staged
    BY <2>1 DEF Sent, Staged, Unsent
  <2>3. PlaceInv
    BY <2>1 DEF WriteInv, FlowInv, Running
  <2> QED
    BY <2>1, <2>2, <2>3, FlowMoves DEF Waiting, PlaceInv
<1>3. CASE SourceEnds
  <2>1. /\ phase = "chunks" /\ phase' = "finish" /\ input = {} /\ chunk = {}
        /\ left' = Sinks /\ CopyInv /\ PlaceInv /\ AppliedInv /\ tx = "started"
        /\ UNCHANGED <<table, rows, isolation, txVars, received, temp, buffer, applied>>
        /\ UNCHANGED <<input, chunk>>
    <3>1. /\ phase = "chunks" /\ phase' = "finish" /\ input = {} /\ chunk = {}
          /\ left' = ActionsOf[kind]
          /\ UNCHANGED <<table, rows, isolation, txVars, received, temp, buffer, applied>>
          /\ UNCHANGED <<input, chunk>>
      BY <1>3 DEF SourceEnds
    <3>2. CopyInv /\ PlaceInv /\ AppliedInv /\ tx = "started"
      BY <3>1 DEF WriteInv, SinkInv, FlowInv, Running
    <3>3. kind \in Kinds /\ kind # "none"
      BY <3>1, SinksOfKinds DEF WriteInv, SinkInv, Types
    <3> QED
      BY <3>1, <3>2, <3>3 DEF Sinks
  <2>2. \A a \in Actions : Unsent(a) = buffer[a] /\ Unsent(a)' = buffer[a]
    BY <2>1 DEF CopyInv, Unsent
  <2>3. Staged = temp /\ Staged' = temp
    <3>1. Rows = {k \in Keys : rows[k].act \in Sinks}
      <4>1. "none" \notin Sinks
        <5>1. kind \in {"insert", "ctas", "update", "delete", "merge"}
          BY <1>3, SinksOfKinds DEF SourceEnds, WriteInv, SinkInv, Types
        <5>2. "none" \notin ActionsOf[kind]
          BY <5>1, SinksOfKinds DEF Actions
        <5> QED
          BY <5>1, <5>2 DEF Sinks
      <4> QED
        BY <2>1, <4>1 DEF CopyInv, Rows
    <3>2. temp # {} => "update" \in Sinks
      <4>1. temp \subseteq Rows /\ IsFor(temp, "update")
        BY <2>1 DEF PlaceInv, Waiting, Sent, Staged, WriteInv, LostInv
      <4> QED
        BY <3>1, <4>1 DEF IsFor
    <3> QED
      BY <2>1, <3>2 DEF Staged
  <2>4. Sent' = Sent
    BY <2>1, <2>2, <2>3 DEF Sent
  <2>5. Waiting' = Waiting /\ Rows' = Rows
    BY <2>1, <2>4 DEF Waiting, Rows
  <2>6. PlaceInv'
    BY <2>1, <2>3, <2>4, <2>5 DEF PlaceInv
  <2>7. AppliedInv'
    BY <2>1, <2>5 DEF AppliedInv, Written, Moved, ReadAs, Repeatable
  <2> QED
    BY <2>1, <2>6, <2>7 DEF FlowInv
<1>4. CASE Done
  <2>1. /\ phase = "finish" /\ phase' = "done" /\ left = {}
        /\ PlaceInv /\ AppliedInv /\ tx = "started" /\ input = {} /\ chunk = {}
        /\ UNCHANGED <<table, rows, isolation, txVars, received, temp, buffer, applied>>
        /\ UNCHANGED <<input, chunk, left>>
    BY <1>4 DEF Done, WriteInv, FlowInv, Running
  <2>2. Sent' = Sent /\ Staged' = Staged
    BY <2>1 DEF Sent, Staged, Unsent
  <2>3. Waiting' = Waiting /\ Rows' = Rows
    BY <2>1, <2>2 DEF Waiting, Rows
  <2>4. PlaceInv'
    BY <2>1, <2>2, <2>3 DEF PlaceInv
  <2>5. AppliedInv'
    BY <2>1, <2>3 DEF AppliedInv, Written, Moved, ReadAs, Repeatable
  <2> QED
    BY <2>1, <2>4, <2>5 DEF FlowInv
<1>5. CASE Sink
  <2>1. CASE SinkCopy \/ SinkUpdate
    BY <2>1, FlowCopyChunk DEF SinkCopy, SinkUpdate
  <2>2. CASE SinkPlain \/ SinkDelete
    BY <2>2, FlowCollect DEF SinkPlain, SinkDelete
  <2> QED
    BY <1>5, <2>1, <2>2 DEF Sink
<1>6. ASSUME NEW a \in Actions, Finalize(a)
      PROVE  FlowInv'
  BY <1>6, FlowFinishCopy, FlowFinalizeNothing, FlowFinalizeBuffered, FlowFails DEF Finalize
<1>7. CASE FinalizeUpdate
  BY <1>7, FlowFinalizeUpdate, FlowFails
<1>8. CASE ServerRejects \/ SourceFails
  BY <1>8, FlowFails DEF ServerRejects, SourceFails
<1>9. CASE LoadSchemas
  <2>1. phase = "idle" /\ phase' \in {"idle", "failed"} /\ UNCHANGED left
    BY <1>9 DEF LoadSchemas
  <2> QED
    BY <2>1 DEF WriteInv, FlowInv, Running
<1>10. CASE StatementEnds \/ Commit \/ Rollback
  <2>1. phase' = "idle" /\ left' = {}
    BY <1>10 DEF StatementEnds, Commit, Rollback, EndTransaction, NoStatement
  <2> QED
    BY <2>1 DEF FlowInv, Running
<1>11. CASE UNCHANGED vars
  <2>1. /\ UNCHANGED <<table, rows, isolation, txVars, received, temp, buffer, applied>>
        /\ UNCHANGED <<input, chunk, left, phase>>
    BY <1>11 DEF vars
  <2>2. Sent' = Sent /\ Staged' = Staged /\ Waiting' = Waiting /\ Rows' = Rows
    BY <2>1 DEF Waiting, Sent, Staged, Unsent, Rows
  <2>3. (PlaceInv /\ AppliedInv) => (PlaceInv' /\ AppliedInv')
    BY <2>1, <2>2 DEF PlaceInv, AppliedInv, Written, Moved, ReadAs, Repeatable
  <2> QED
    BY <2>1, <2>3 DEF WriteInv, FlowInv, Running
<1> QED
  BY <1>1, <1>2, <1>3, <1>4, <1>5, <1>6, <1>7, <1>8, <1>9, <1>10, <1>11, FlowReadSource,
     FlowOtherCommits DEF Next

LEMMA WriteInvariant == Spec => []WriteInv
<1>1. WriteInv /\ [Next]_vars => WriteInv'
  BY SinkStep, LostStep, ValuesStep, CountStep, VersionStep, FlowStep DEF WriteInv
<1> QED
  BY <1>1, WriteInit, PTL DEF Spec

\* The variables keep their types; a count never exceeds the number of rows there are.
THEOREM WriteTypeOK == Spec => []TypeOK
<1>1. WriteInv => TypeOK
  <2> SUFFICES ASSUME WriteInv PROVE TypeOK
    OBVIOUS
  <2>1. count \in [Actions -> 0 .. Cardinality(Keys)]
    BY TakenFinite DEF WriteInv, CountInv
  <2> QED
    BY <2>1 DEF TypeOK, WriteInv, SinkInv, Types, Phases, LostInv, ValuesOK, RowType, Failures
<1> QED
  BY <1>1, WriteInvariant, PTL

LEMMA NothingWaits ==
  ASSUME WriteInv, phase = "done"
  PROVE  Waiting = {}
<1>1. left = {} /\ input = {} /\ chunk = {} /\ CopyInv
  BY DEF WriteInv, FlowInv, SinkInv
<1>2. received = {}
  <2>1. ~Open
    BY <1>1 DEF CopyInv, Open, WriteInv, SinkInv, Types
  <2> QED
    BY <2>1, SentApart DEF WriteInv
<1> QED
  BY <1>1, <1>2 DEF Waiting, Sent, Staged, Unsent

\* However chunks, flushes and the sinks of a MERGE interleave, a statement that reports
\* success has changed each row of its source once and no other (PostgresInsert, PostgresUpdate,
\* PostgresDelete: Sink and Finalize); only at READ COMMITTED it may miss one that another
\* client changed after the scan.
THEOREM WrittenOnceTheorem == Spec => []WrittenOnce
<1>1. WriteInv => WrittenOnce
  BY NothingWaits DEF WriteInv, FlowInv, Running, AppliedInv, Written, WrittenOnce
<1> QED
  BY <1>1, WriteInvariant, PTL

LEMMA DisjointUnion ==
  ASSUME NEW S, NEW T, IsFiniteSet(S), IsFiniteSet(T), S \cap T = {}
  PROVE  /\ IsFiniteSet(S \cup T)
         /\ Cardinality(S \cup T) = Cardinality(S) + Cardinality(T)
<1>1. /\ IsFiniteSet(S \cup T)
      /\ Cardinality(S \cup T) = Cardinality(S) + Cardinality(T) - Cardinality(S \cap T)
  BY FS_Union
<1>2. Cardinality(S \cap T) = 0 /\ Cardinality(S) \in Nat /\ Cardinality(T) \in Nat
  BY FS_EmptySet, FS_CardinalityType
<1> QED
  BY <1>1, <1>2

\* At REPEATABLE READ the count that a statement returns is that of the rows the server has
\* changed: the sinks count what they take (insert_count, update_count, delete_count), and all
\* of that is written.
THEOREM CountIsExactTheorem == Spec => []CountIsExact
<1>1. WriteInv => CountIsExact
  <2> SUFFICES ASSUME WriteInv, phase = "done", Repeatable
               PROVE  count["insert"] + count["update"] + count["delete"]
                        = Cardinality({k \in Keys : applied[k] > 0})
    BY DEF CountIsExact
  <2>1. input = {} /\ chunk = {} /\ Waiting = {} /\ AppliedInv
    BY NothingWaits DEF WriteInv, FlowInv, Running
  <2>2. {k \in Keys : applied[k] > 0} = Rows
    BY <2>1 DEF AppliedInv, Written, Rows
  <2>3. /\ Taken("insert") = RowsOf("insert") /\ Taken("update") = RowsOf("update")
        /\ Taken("delete") = RowsOf("delete")
    BY <2>1 DEF Taken
  <2>4. Rows = (RowsOf("insert") \cup RowsOf("update")) \cup RowsOf("delete")
    BY DEF Rows, RowsOf, WriteInv, ValuesOK, RowType, Actions
  <2>5. /\ RowsOf("insert") \cap RowsOf("update") = {}
        /\ (RowsOf("insert") \cup RowsOf("update")) \cap RowsOf("delete") = {}
    BY DEF RowsOf
  <2>6. /\ IsFiniteSet(RowsOf("insert")) /\ IsFiniteSet(RowsOf("update"))
        /\ IsFiniteSet(RowsOf("delete"))
        /\ Cardinality(RowsOf("insert")) \in Nat /\ Cardinality(RowsOf("update")) \in Nat
        /\ Cardinality(RowsOf("delete")) \in Nat
    BY <2>3, TakenFinite, FS_CardinalityType
  <2>7. \A S, T : IsFiniteSet(S) /\ IsFiniteSet(T) /\ S \cap T = {} =>
                  /\ IsFiniteSet(S \cup T)
                  /\ Cardinality(S \cup T) = Cardinality(S) + Cardinality(T)
    BY DisjointUnion
  <2>8. Cardinality(Rows) = Cardinality(RowsOf("insert") \cup RowsOf("update"))
                              + Cardinality(RowsOf("delete"))
    BY <2>4, <2>5, <2>6, <2>7
  <2>9. /\ count["insert"] = Cardinality(RowsOf("insert"))
        /\ count["update"] = Cardinality(RowsOf("update"))
        /\ count["delete"] = Cardinality(RowsOf("delete"))
    BY <2>3 DEF WriteInv, CountInv, Actions
  <2>10. Cardinality(RowsOf("insert") \cup RowsOf("update"))
           = Cardinality(RowsOf("insert")) + Cardinality(RowsOf("update"))
    BY <2>5, <2>6, <2>7
  <2> QED
    BY <2>2, <2>8, <2>9, <2>10
<1> QED
  BY <1>1, WriteInvariant, PTL
===============================================================================

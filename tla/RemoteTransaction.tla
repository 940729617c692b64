--------------------------- MODULE RemoteTransaction ---------------------------
(***************************************************************************)
(* PostgresTransaction over PostgresConnectionPool: how a DuckDB           *)
(* transaction maps to a remote one on a pooled libpq connection, what     *)
(* COMMIT, ROLLBACK and a lost backend leave behind, which further         *)
(* connections a statement takes, and what the pool hands to the next      *)
(* session.                                                                *)
(*                                                                         *)
(* The server is a set of durable writes and, per connection, the writes   *)
(* of its open transaction.  A write is a number.  DuckDB's own rule that  *)
(* a transaction is invalidated by any error but those of the binder, the  *)
(* waiting inside dbconnector's pool, and the server are external.         *)
(***************************************************************************)
EXTENDS Integers, FiniteSets

CONSTANTS
  Sessions,        \* DuckDB client contexts, one transaction each at a time
  Conns,           \* bound: connections that can exist at once
  OptionChoices,   \* ways to attach the database, see Options
  HealthQueries,   \* whether pg_pool_health_check_query is not empty; it may change
  BinderErrors,    \* a statement may fail in PQprepare, as a BinderException
  MaxWrites,       \* bound: statements that write
  MaxKills         \* bound: backends the server terminates

NoSession == "no_session"

\* pg_pool_acquire_mode; pg_pool_max_connections, 0 to disable pooling; the READ_ONLY
\* option of ATTACH; whether scans of several tables stream over the pool.
Options ==
  [mode : {"force", "wait", "try"}, max : Nat, readOnly : BOOLEAN, streams : BOOLEAN]

ASSUME TransactionAssumption ==
  /\ NoSession \notin Sessions
  /\ IsFiniteSet(Conns)
  /\ OptionChoices \subseteq Options
  /\ \A o \in OptionChoices : o.max = 0 => o.mode = "force"   \* ValidatePoolAcquireMode
  /\ MaxWrites \in Nat /\ MaxKills \in Nat
  /\ HealthQueries \subseteq BOOLEAN /\ BinderErrors \in BOOLEAN

VARIABLES
  options,   \* fixed by ATTACH
  place,     \* place[c]: "closed", "available", "tx", "extra" or "returning"
  owner,     \* the session that holds c
  libpq,     \* PQstatus: "ok" or "bad"
  backend,   \* the server's side: "idle", "in_transaction", "in_error" or "gone"
  work,      \* writes of the backend's open transaction
  dirt,      \* the backend has session state: settings, temporary tables, statements
  durable,   \* writes that have been committed
  pc,        \* "idle", "acquire", "open" or "acquire_extra"
  txState,   \* PostgresTransactionState, "none" outside a transaction
  valid,     \* DuckDB has not invalidated the transaction
  wrote,     \* writes the transaction has reported as done
  ended,     \* what ended transactions wrote, and how they ended: [writes, outcome]
  nextWrite,
  kills

poolVars    == <<options, place, owner>>
serverVars  == <<libpq, backend, work, dirt, durable, kills>>
sessionVars == <<pc, txState, valid, wrote, nextWrite>>
vars == <<poolVars, serverVars, sessionVars, ended>>

Writes == 1 .. MaxWrites

Init ==
  /\ options \in OptionChoices
  /\ place = [c \in Conns |-> "closed"]
  /\ owner = [c \in Conns |-> NoSession]
  /\ libpq = [c \in Conns |-> "ok"]
  /\ backend = [c \in Conns |-> "gone"]
  /\ work = [c \in Conns |-> {}]
  /\ dirt = [c \in Conns |-> FALSE]
  /\ durable = {}
  /\ pc = [s \in Sessions |-> "idle"]
  /\ txState = [s \in Sessions |-> "none"]
  /\ valid = [s \in Sessions |-> TRUE]
  /\ wrote = [s \in Sessions |-> {}]
  /\ ended = {}
  /\ nextWrite = 1
  /\ kills = 0

-------------------------------------------------------------------------------
(* The pool.                                                               *)

OpenConns   == {c \in Conns : place[c] # "closed"}
PoolEnabled == options.max > 0
Forced      == options.mode = "force"

\* Mutant: the limit counts one connection too many.
ObtainOffByOne(c, forced) ==
  \/ place[c] = "available"
  \/ /\ place[c] = "closed"
     /\ \A d \in Conns : place[d] # "available"
     /\ forced \/ Cardinality(OpenConns) + 1 < options.max

\* A cached connection, else a new one if the limit allows it or does not matter.
Obtain(c, forced) ==
  \/ place[c] = "available"
  \/ /\ place[c] = "closed"
     /\ \A d \in Conns : place[d] # "available"
     /\ forced \/ Cardinality(OpenConns) < options.max

Exhausted(forced) == \A c \in Conns : ~Obtain(c, forced)

\* c goes to session s.
Hand(c, s, use) ==
  /\ place' = [place EXCEPT ![c] = use]
  /\ owner' = [owner EXCEPT ![c] = s]
  /\ UNCHANGED options

\* CreateNewConnection gives a closed one a backend; a cached one may have lost its own.
Alive(c) == place[c] = "closed" \/ backend[c] # "gone"

Waiting(s)  == pc[s] \in {"acquire", "acquire_extra"}
Mine(c, s)  == place[c] = "tx" /\ owner[c] = s
NoExtras(s) == \A c \in Conns : ~(place[c] = "extra" /\ owner[c] = s)

\* CheckConnectionHealthy: without a query only PQstatus is looked at; in an aborted
\* transaction the query fails.
Healthy(c, query) ==
  libpq[c] = "ok" /\ (query => backend[c] \in {"idle", "in_transaction"})

Close(c) ==
  /\ place' = [place EXCEPT ![c] = "closed"]
  /\ owner' = [owner EXCEPT ![c] = NoSession]
  /\ backend' = [backend EXCEPT ![c] = "gone"]
  /\ work' = [work EXCEPT ![c] = {}]
  /\ dirt' = [dirt EXCEPT ![c] = FALSE]
  /\ libpq' = [libpq EXCEPT ![c] = "ok"]
  /\ UNCHANGED <<options, durable, kills, sessionVars, ended>>

\* A returned connection that is unhealthy, whose Reset throws because PQreset does not
\* reach the server, or that is not to be cached (too old, too many, pooling disabled).
ReturnClosed(c) == place[c] = "returning" /\ Close(c)

\* Mutant: Reset stops after ROLLBACK.
ResetRollbackOnly(c) ==
  /\ work' = [work EXCEPT ![c] = {}]
  /\ backend' = [backend EXCEPT ![c] = "idle"]
  /\ UNCHANGED <<libpq, dirt>>

\* PostgresConnection::Reset: ROLLBACK, DISCARD ALL; if that fails, PQreset connects to a
\* new backend.
Reset(c) ==
  /\ work' = [work EXCEPT ![c] = {}]
  /\ backend' = [backend EXCEPT ![c] = "idle"]
  /\ dirt' = [dirt EXCEPT ![c] = FALSE]
  /\ UNCHANGED libpq

ReturnCached(c) ==
  /\ place[c] = "returning" /\ PoolEnabled
  /\ \E query \in HealthQueries : Healthy(c, query)
  /\ place' = [place EXCEPT ![c] = "available"]
  /\ owner' = [owner EXCEPT ![c] = NoSession]
  /\ Reset(c)
  /\ UNCHANGED <<options, durable, kills, sessionVars, ended>>

\* The reaper thread, or the age check when a connection is taken.
Reap(c) == place[c] = "available" /\ Close(c)

\* The server terminates a backend: what it had not committed is lost.
Kill(c) ==
  /\ kills < MaxKills
  /\ place[c] # "closed" /\ backend[c] # "gone"
  /\ backend' = [backend EXCEPT ![c] = "gone"]
  /\ work' = [work EXCEPT ![c] = {}]
  /\ dirt' = [dirt EXCEPT ![c] = FALSE]
  /\ kills' = kills + 1
  /\ UNCHANGED <<poolVars, libpq, durable, sessionVars, ended>>

-------------------------------------------------------------------------------
(* The transaction's own connection.                                       *)

\* PostgresTransaction's constructor and Start.
StartTransaction(s, c) ==
  /\ pc[s] \in {"idle", "acquire"}
  /\ Obtain(c, Forced)
  /\ Hand(c, s, "tx")
  /\ backend' = [backend EXCEPT ![c] = IF Alive(c) THEN "idle" ELSE "gone"]
  /\ pc' = [pc EXCEPT ![s] = "open"]
  /\ txState' = [txState EXCEPT ![s] = "not_yet_started"]
  /\ UNCHANGED <<libpq, work, dirt, durable, kills, valid, wrote, nextWrite, ended>>

\* Acquire blocks in "wait" mode; in "try" mode it throws and nothing has happened.
WaitForConnection(s) ==
  /\ pc[s] = "idle" /\ options.mode = "wait" /\ Exhausted(FALSE)
  /\ pc' = [pc EXCEPT ![s] = "acquire"]
  /\ UNCHANGED <<poolVars, serverVars, txState, valid, wrote, nextWrite, ended>>

\* What a statement may write: nothing or something.
NewWrites == IF nextWrite <= MaxWrites THEN {{}, {nextWrite}} ELSE {{}}

\* Mutant: the first statement is sent without BEGIN.
StatementNoBegin(s, c) ==
  /\ pc[s] = "open" /\ valid[s] /\ Mine(c, s) /\ backend[c] \in {"idle", "in_transaction"}
  /\ txState' = [txState EXCEPT ![s] = "started"]
  /\ dirt' = [dirt EXCEPT ![c] = TRUE]
  /\ \E new \in IF options.readOnly THEN {{}} ELSE NewWrites :
       /\ durable' = durable \cup new
       /\ wrote' = [wrote EXCEPT ![s] = @ \cup new]
       /\ nextWrite' = nextWrite + Cardinality(new)
  /\ UNCHANGED <<poolVars, libpq, backend, work, kills, pc, valid, ended>>

\* Query, ExecuteQueries or a statement after GetConnection: the first sends BEGIN, with
\* READ ONLY for a database attached so.  A backend that is not in a transaction block
\* commits each statement by itself.
Statement(s, c) ==
  /\ pc[s] = "open" /\ valid[s] /\ Mine(c, s) /\ backend[c] \in {"idle", "in_transaction"}
  /\ txState' = [txState EXCEPT ![s] = "started"]
  /\ backend' = [backend EXCEPT ![c] = IF txState[s] = "started" THEN @ ELSE "in_transaction"]
  /\ dirt' = [dirt EXCEPT ![c] = TRUE]
  /\ \E new \in IF options.readOnly THEN {{}} ELSE NewWrites :
       /\ IF backend'[c] = "in_transaction"
          THEN work' = [work EXCEPT ![c] = @ \cup new] /\ UNCHANGED durable
          ELSE durable' = durable \cup new /\ UNCHANGED work
       /\ wrote' = [wrote EXCEPT ![s] = @ \cup new]
       /\ nextWrite' = nextWrite + Cardinality(new)
  /\ UNCHANGED <<poolVars, libpq, kills, pc, valid, ended>>

\* The server aborts the transaction of c.
Aborted(c, status) ==
  /\ backend' = [backend EXCEPT ![c] = status]
  /\ work' = [work EXCEPT ![c] = {}]
  /\ UNCHANGED <<poolVars, libpq, dirt, durable, kills>>

\* Mutant: transaction_state is set after BEGIN and the statement have succeeded.
StatementFailsUnmarked(s, c) ==
  /\ pc[s] = "open" /\ valid[s] /\ Mine(c, s) /\ backend[c] # "gone"
  /\ Aborted(c, "in_error")
  /\ valid' = [valid EXCEPT ![s] = FALSE]
  /\ UNCHANGED <<txState, pc, wrote, nextWrite, ended>>

\* PostgresConnection::Query throws std::runtime_error.  "BEGIN ...;" and a text the server
\* cannot parse go in one PQexec: then BEGIN has not run either.
StatementFails(s, c) ==
  /\ pc[s] = "open" /\ valid[s] /\ Mine(c, s) /\ backend[c] # "gone"
  /\ txState' = [txState EXCEPT ![s] = "started"]
  /\ \E status \in IF txState[s] = "started" THEN {"in_error"} ELSE {"in_error", "idle"} :
       Aborted(c, status)
  /\ valid' = [valid EXCEPT ![s] = FALSE]
  /\ UNCHANGED <<pc, wrote, nextWrite, ended>>

\* PGQueryBind: GetConnection sends BEGIN, then PQprepare fails and a BinderException is
\* thrown, which leaves DuckDB's transaction valid.
PrepareFails(s, c) ==
  /\ BinderErrors
  /\ pc[s] = "open" /\ valid[s] /\ Mine(c, s) /\ backend[c] # "gone"
  /\ txState' = [txState EXCEPT ![s] = "started"]
  /\ Aborted(c, "in_error")
  /\ UNCHANGED <<pc, valid, wrote, nextWrite, ended>>

\* Mutant: the lost connection is quietly opened again.
StatementLostReconnects(s, c) ==
  /\ pc[s] = "open" /\ valid[s] /\ Mine(c, s) /\ backend[c] = "gone"
  /\ backend' = [backend EXCEPT ![c] = "idle"]
  /\ UNCHANGED <<poolVars, libpq, work, dirt, durable, kills, sessionVars, ended>>

\* The statement finds the backend gone.
StatementLost(s, c) ==
  /\ pc[s] = "open" /\ valid[s] /\ Mine(c, s) /\ backend[c] = "gone"
  /\ libpq' = [libpq EXCEPT ![c] = "bad"]
  /\ txState' = [txState EXCEPT ![s] = "started"]
  /\ valid' = [valid EXCEPT ![s] = FALSE]
  /\ UNCHANGED <<poolVars, backend, work, dirt, durable, kills, pc, wrote, nextWrite, ended>>

\* The checks of GetConnectionWithoutTransaction and QueryWithoutTransaction.
MayRunWithout(s) == txState[s] # "started" /\ ~options.readOnly

\* use_transaction=FALSE: the server commits the statement by itself.
StatementWithoutTransaction(s, c) ==
  /\ pc[s] = "open" /\ valid[s] /\ Mine(c, s) /\ backend[c] = "idle"
  /\ MayRunWithout(s)
  /\ dirt' = [dirt EXCEPT ![c] = TRUE]
  /\ \E new \in NewWrites :
       /\ durable' = durable \cup new
       /\ nextWrite' = nextWrite + Cardinality(new)
  /\ UNCHANGED <<poolVars, libpq, backend, work, kills, pc, txState, valid, wrote, ended>>

WithoutTransactionRefused(s) ==
  /\ pc[s] = "open" /\ valid[s] /\ ~MayRunWithout(s)
  /\ valid' = [valid EXCEPT ![s] = FALSE]
  /\ UNCHANGED <<poolVars, serverVars, pc, txState, wrote, nextWrite, ended>>

-------------------------------------------------------------------------------
(* Commit and Rollback.  dbconnector's transaction manager destroys the    *)
(* transaction also when they throw, which returns its connection.         *)

Ended(s, outcome) ==
  ended' = ended \cup
    (IF wrote[s] = {} THEN {} ELSE {[writes |-> wrote[s], outcome |-> outcome]})

Destroy(s, outcome) ==
  /\ pc' = [pc EXCEPT ![s] = "idle"]
  /\ txState' = [txState EXCEPT ![s] = "none"]
  /\ valid' = [valid EXCEPT ![s] = TRUE]
  /\ wrote' = [wrote EXCEPT ![s] = {}]
  /\ Ended(s, outcome)
  /\ UNCHANGED nextWrite

\* Mutant: the transaction's state survives it.
ReturnFinished(s, c, outcome) ==
  /\ Hand(c, NoSession, "returning")
  /\ pc' = [pc EXCEPT ![s] = "idle"]
  /\ txState' = [txState EXCEPT ![s] = "finished"]
  /\ Ended(s, outcome)
  /\ UNCHANGED <<valid, wrote, nextWrite>>

Return(s, c, outcome) ==
  /\ Hand(c, NoSession, "returning")
  /\ Destroy(s, outcome)

MayEnd(s, c) == pc[s] = "open" /\ Mine(c, s) /\ NoExtras(s)

\* DuckDB refuses COMMIT in an invalidated transaction.
CommitNothing(s, c) ==
  /\ MayEnd(s, c) /\ valid[s] /\ txState[s] = "not_yet_started"
  /\ Return(s, c, "committed")
  /\ UNCHANGED serverVars

Commit(s, c) ==
  /\ MayEnd(s, c) /\ valid[s] /\ txState[s] = "started"
  /\ backend[c] \in {"in_transaction", "idle"}
  /\ durable' = durable \cup work[c]
  /\ work' = [work EXCEPT ![c] = {}]
  /\ backend' = [backend EXCEPT ![c] = "idle"]
  /\ Return(s, c, "committed")
  /\ UNCHANGED <<libpq, dirt, kills>>

\* COMMIT after PrepareFails: the server answers ROLLBACK, which is no error.
CommitAborted(s, c) ==
  /\ MayEnd(s, c) /\ valid[s] /\ txState[s] = "started" /\ backend[c] = "in_error"
  /\ backend' = [backend EXCEPT ![c] = "idle"]
  /\ Return(s, c, "committed_after_error")
  /\ UNCHANGED <<libpq, work, dirt, durable, kills>>

\* The server rejects COMMIT (a serialization failure, a deferred constraint).
CommitRejected(s, c) ==
  /\ MayEnd(s, c) /\ valid[s] /\ txState[s] = "started" /\ backend[c] = "in_transaction"
  /\ work' = [work EXCEPT ![c] = {}]
  /\ backend' = [backend EXCEPT ![c] = "idle"]
  /\ Return(s, c, "failed")
  /\ UNCHANGED <<libpq, dirt, durable, kills>>

\* The connection breaks under COMMIT, which the server may have done or not.
CommitUnanswered(s, c) ==
  /\ MayEnd(s, c) /\ valid[s] /\ txState[s] = "started" /\ backend[c] = "in_transaction"
  /\ kills < MaxKills
  /\ kills' = kills + 1
  /\ durable' \in {durable, durable \cup work[c]}
  /\ work' = [work EXCEPT ![c] = {}]
  /\ backend' = [backend EXCEPT ![c] = "gone"]
  /\ libpq' = [libpq EXCEPT ![c] = "bad"]
  /\ dirt' = [dirt EXCEPT ![c] = FALSE]
  /\ Return(s, c, "failed")

\* Mutants: the error is swallowed; the exception leaves the connection behind.
CommitLostSwallowed(s, c) ==
  /\ MayEnd(s, c) /\ valid[s] /\ txState[s] = "started" /\ backend[c] = "gone"
  /\ libpq' = [libpq EXCEPT ![c] = "bad"]
  /\ Return(s, c, "committed")
  /\ UNCHANGED <<backend, work, dirt, durable, kills>>
CommitLostLeaks(s, c) ==
  /\ MayEnd(s, c) /\ valid[s] /\ txState[s] = "started" /\ backend[c] = "gone"
  /\ libpq' = [libpq EXCEPT ![c] = "bad"]
  /\ Destroy(s, "failed")
  /\ UNCHANGED <<poolVars, backend, work, dirt, durable, kills>>

\* COMMIT finds the backend gone and throws.
CommitLost(s, c) ==
  /\ MayEnd(s, c) /\ valid[s] /\ txState[s] = "started" /\ backend[c] = "gone"
  /\ libpq' = [libpq EXCEPT ![c] = "bad"]
  /\ Return(s, c, "failed")
  /\ UNCHANGED <<backend, work, dirt, durable, kills>>

RollbackNothing(s, c) ==
  /\ MayEnd(s, c) /\ txState[s] = "not_yet_started"
  /\ Return(s, c, "rolled_back")
  /\ UNCHANGED serverVars

Rollback(s, c) ==
  /\ MayEnd(s, c) /\ txState[s] = "started" /\ backend[c] # "gone"
  /\ work' = [work EXCEPT ![c] = {}]
  /\ backend' = [backend EXCEPT ![c] = "idle"]
  /\ Return(s, c, "rolled_back")
  /\ UNCHANGED <<libpq, dirt, durable, kills>>

\* ROLLBACK throws as well.
RollbackLost(s, c) ==
  /\ MayEnd(s, c) /\ txState[s] = "started" /\ backend[c] = "gone"
  /\ libpq' = [libpq EXCEPT ![c] = "bad"]
  /\ Return(s, c, "rolled_back")
  /\ UNCHANGED <<backend, work, dirt, durable, kills>>

-------------------------------------------------------------------------------
(* Further connections of an open transaction.                             *)

\* RunStalenessQuery on a connection from Acquire, while a statement is bound: it
\* commits by itself.
StalenessConnection(s, c) ==
  /\ pc[s] \in {"open", "acquire_extra"} /\ valid[s] /\ NoExtras(s)
  /\ Obtain(c, Forced)
  /\ Hand(c, s, "extra")
  /\ backend' = [backend EXCEPT ![c] = IF Alive(c) THEN "idle" ELSE "gone"]
  /\ pc' = [pc EXCEPT ![s] = "open"]
  /\ UNCHANGED <<libpq, work, dirt, durable, kills, txState, valid, wrote, nextWrite, ended>>

WaitForExtra(s) ==
  /\ pc[s] = "open" /\ valid[s] /\ NoExtras(s)
  /\ options.mode = "wait" /\ Exhausted(FALSE)
  /\ pc' = [pc EXCEPT ![s] = "acquire_extra"]
  /\ UNCHANGED <<poolVars, serverVars, txState, valid, wrote, nextWrite, ended>>

\* PostgresScanConnect on the connection of another scan thread: BEGIN and settings.
ScanConnect(s, c, forced) ==
  /\ pc[s] = "open" /\ valid[s] /\ txState[s] = "started"
  /\ Obtain(c, forced)
  /\ Hand(c, s, "extra")
  /\ backend' = [backend EXCEPT ![c] = IF Alive(c) THEN "in_transaction" ELSE "gone"]
  /\ dirt' = [dirt EXCEPT ![c] = TRUE]
  /\ UNCHANGED <<libpq, work, durable, kills, sessionVars, ended>>

\* Mutant: the branches of TryGetConnection are swapped.
ScanConnectionForced(s, c) == ScanConnect(s, c, PoolEnabled)

\* TryGetConnection; where it fails, the thread takes no part.
ScanConnection(s, c) == ScanConnect(s, c, ~PoolEnabled)

\* The first thread of a scan that may not use the transaction's connection.
StreamConnection(s, c) == options.streams /\ ScanConnect(s, c, TRUE)

\* The thread or the staleness query is done, or has failed, and drops its connection.
ReleaseExtra(s, c) ==
  /\ place[c] = "extra" /\ owner[c] = s
  /\ Hand(c, NoSession, "returning")
  /\ libpq' = [libpq EXCEPT ![c] = IF backend[c] = "gone" THEN "bad" ELSE @]
  /\ valid' = [valid EXCEPT ![s] = @ /\ backend[c] # "gone"]
  /\ UNCHANGED <<backend, work, dirt, durable, kills, pc, txState, wrote, nextWrite, ended>>

\* pg_pool_wait_timeout_millis passes: Acquire throws.
AcquireTimeout(s) ==
  /\ Waiting(s) /\ Exhausted(FALSE)
  /\ pc' = [pc EXCEPT ![s] = IF @ = "acquire" THEN "idle" ELSE "open"]
  /\ valid' \in {valid, [valid EXCEPT ![s] = pc[s] = "acquire"]}
  /\ UNCHANGED <<poolVars, serverVars, txState, wrote, nextWrite, ended>>

-------------------------------------------------------------------------------
Execute(s, c) ==
  Statement(s, c) \/ StatementFails(s, c) \/ PrepareFails(s, c) \/ StatementLost(s, c)
  \/ StatementWithoutTransaction(s, c)

End(s, c) ==
  CommitNothing(s, c) \/ Commit(s, c) \/ CommitAborted(s, c) \/ CommitRejected(s, c)
  \/ CommitUnanswered(s, c) \/ CommitLost(s, c)
  \/ RollbackNothing(s, c) \/ Rollback(s, c) \/ RollbackLost(s, c)

Take(s, c) ==
  StartTransaction(s, c) \/ StalenessConnection(s, c) \/ ScanConnection(s, c)
  \/ StreamConnection(s, c)

Wait(s) == WaitForConnection(s) \/ WaitForExtra(s)

Next ==
  \/ \E s \in Sessions, c \in Conns :
       Take(s, c) \/ Execute(s, c) \/ End(s, c) \/ ReleaseExtra(s, c)
  \/ \E s \in Sessions : Wait(s) \/ AcquireTimeout(s) \/ WithoutTransactionRefused(s)
  \/ \E c \in Conns : ReturnClosed(c) \/ ReturnCached(c) \/ Reap(c) \/ Kill(c)

Spec == Init /\ [][Next]_vars
-------------------------------------------------------------------------------
(* Properties.                                                             *)

\* Type invariant of the pool, the server and the sessions.
TypeOK ==
  /\ options \in OptionChoices
  /\ place \in [Conns -> {"closed", "available", "tx", "extra", "returning"}]
  /\ owner \in [Conns -> Sessions \cup {NoSession}]
  /\ libpq \in [Conns -> {"ok", "bad"}]
  /\ backend \in [Conns -> {"idle", "in_transaction", "in_error", "gone"}]
  /\ work \in [Conns -> SUBSET Writes] /\ dirt \in [Conns -> BOOLEAN]
  /\ durable \subseteq Writes
  /\ pc \in [Sessions -> {"idle", "acquire", "open", "acquire_extra"}]
  /\ txState \in [Sessions -> {"none", "not_yet_started", "started"}]
  /\ valid \in [Sessions -> BOOLEAN] /\ wrote \in [Sessions -> SUBSET Writes]
  /\ ended \subseteq [writes : SUBSET Writes,
                     outcome : {"committed", "committed_after_error", "rolled_back", "failed"}]
  /\ nextWrite \in 1 .. MaxWrites + 1 /\ kills \in 0 .. MaxKills

\* transaction_state never lies about the server: before the first statement the backend
\* is in no transaction block, and a transaction DuckDB still lets go on is inside one
\* (or its backend is gone), so that BEGIN is sent once and nothing runs outside it.
StateMatchesServer ==
  \A s \in Sessions, c \in Conns :
    Mine(c, s) =>
      /\ txState[s] = "not_yet_started" => backend[c] \in {"idle", "gone"} /\ work[c] = {}
      /\ txState[s] = "started" /\ valid[s] => backend[c] # "idle"

\* After any COMMIT that reports no error the statements that reported none are there
\* (attach_transactions.test, "commit insert").
SuccessfulCommitIsDurable ==
  \A t \in ended :
    t.outcome \in {"committed", "committed_after_error"} => t.writes \subseteq durable

\* What a session is told; a COMMIT that rolls back an aborted transaction counts as a
\* ROLLBACK here, see SuccessfulCommitIsDurable.
Told(t) ==
  [writes |-> t.writes,
   outcome |-> IF t.outcome = "committed_after_error" THEN "rolled_back" ELSE t.outcome]

\* Transactions are atomic although their connection may break before, under or after
\* COMMIT, come back to life, or go to the pool with the transaction open
\* (PostgresTransaction, PostgresConnectionPool): all of a committed transaction is durable,
\* nothing of one that was rolled back ever is, and all or nothing when COMMIT throws.
Atomic == INSTANCE AtomicTransaction
            WITH ended <- {Told(t) : t \in ended}
IsAtomic == Atomic!Spec

\* A cached connection carries nothing of the session that used it: no open transaction,
\* no settings, no temporary tables.
CachedIsClean ==
  \A c \in Conns :
    place[c] = "available" => backend[c] \in {"idle", "gone"} /\ work[c] = {} /\ ~dirt[c]

\* "a throw on a server ROLLBACK or COMMIT does not leak a pool connection"
\* (attach_rollback_throws.test): a session outside a transaction holds no connection, one
\* inside a transaction holds exactly one for its statements.
NoConnectionLeaked ==
  \A s \in Sessions :
    IF txState[s] = "none" THEN \A c \in Conns : owner[c] # s
    ELSE \E c \in Conns : Mine(c, s) /\ \A d \in Conns : Mine(d, s) => d = c

\* A database attached READ_ONLY is never written, in a transaction or without.
ReadOnlyNeverWrites == options.readOnly => durable = {}

\* Outside "force" mode the pool does not exceed pg_pool_max_connections unless a scan of
\* several tables streams over it.
CapHeld == ~Forced /\ ~options.streams => Cardinality(OpenConns) <= options.max

\* "cap and wait instead" (README.md, Connection Pooling): while a session waits for a
\* connection, some connection is closing or held by a session that is not itself waiting.
NoWaitCycle ==
  (\E s \in Sessions : Waiting(s) /\ Exhausted(FALSE)) =>
    \E c \in OpenConns : owner[c] = NoSession \/ pc[owner[c]] = "open"
===============================================================================

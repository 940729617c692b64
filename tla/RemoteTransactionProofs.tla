------------------------ MODULE RemoteTransactionProofs ------------------------
(***************************************************************************)
(* Proofs about RemoteTransaction for any number of sessions, connections  *)
(* and failures, and any way to attach the database.                       *)
(***************************************************************************)
EXTENDS RemoteTransaction, FiniteSetTheorems, TLAPS

USE DEF poolVars, serverVars, sessionVars

-------------------------------------------------------------------------------
(* Who holds which connection.                                             *)

Places == {"closed", "available", "tx", "extra", "returning"}

\* A connection has an owner while a transaction uses it, and a session is inside a
\* transaction from when it gets its connection until it gives it back.
PoolInv ==
  /\ place \in [Conns -> Places]
  /\ owner \in [Conns -> Sessions \cup {NoSession}]
  /\ pc \in [Sessions -> {"idle", "acquire", "open", "acquire_extra"}]
  /\ txState \in [Sessions -> {"none", "not_yet_started", "started"}]
  /\ \A c \in Conns : owner[c] # NoSession <=> place[c] \in {"tx", "extra"}
  /\ \A s \in Sessions : txState[s] = "none" <=> pc[s] \in {"idle", "acquire"}
  /\ NoConnectionLeaked

LEMMA PoolInit == Init => PoolInv
BY TransactionAssumption DEF Init, PoolInv, Places, NoConnectionLeaked

\* The steps of an end that matter to the pool.
LEMMA EndGivesBack ==
  ASSUME NEW s \in Sessions, NEW c \in Conns, End(s, c)
  PROVE  /\ MayEnd(s, c)
         /\ \E outcome \in {"committed", "committed_after_error", "rolled_back", "failed"} :
              Return(s, c, outcome)
BY DEF End, CommitNothing, Commit, CommitAborted, CommitRejected, CommitUnanswered, CommitLost,
       RollbackNothing, Rollback, RollbackLost

LEMMA PoolStep ==
  ASSUME PoolInv, [Next]_vars
  PROVE  PoolInv'
<1> USE TransactionAssumption DEF PoolInv, Places, NoConnectionLeaked, Mine, Hand
<1>1. ASSUME NEW s \in Sessions, NEW c \in Conns, Take(s, c)
      PROVE  PoolInv'
  <2>1. CASE StartTransaction(s, c)
    BY <2>1 DEF StartTransaction, Obtain
  <2>2. CASE StalenessConnection(s, c)
    BY <2>2 DEF StalenessConnection, Obtain
  <2>3. ASSUME NEW forced, ScanConnect(s, c, forced)
        PROVE  PoolInv'
    BY <2>3 DEF ScanConnect, Obtain
  <2> QED
    BY <1>1, <2>1, <2>2, <2>3 DEF Take, ScanConnection, StreamConnection
<1>2. ASSUME NEW s \in Sessions, NEW c \in Conns, Execute(s, c)
      PROVE  PoolInv'
  BY <1>2 DEF Execute, Statement, StatementFails, PrepareFails, StatementLost,
              StatementWithoutTransaction, Aborted
<1>3. ASSUME NEW s \in Sessions, NEW c \in Conns, End(s, c)
      PROVE  PoolInv'
  <2>1. MayEnd(s, c) /\ \E outcome : Return(s, c, outcome)
    BY <1>3, EndGivesBack
  <2> QED
    BY <2>1 DEF MayEnd, NoExtras, Return, Destroy
<1>4. ASSUME NEW s \in Sessions, NEW c \in Conns, ReleaseExtra(s, c)
      PROVE  PoolInv'
  BY <1>4 DEF ReleaseExtra
<1>5. ASSUME NEW s \in Sessions, Wait(s) \/ AcquireTimeout(s) \/ WithoutTransactionRefused(s)
      PROVE  PoolInv'
  <2>1. /\ UNCHANGED <<place, owner, txState>>
        /\ \/ pc[s] \in {"idle", "acquire"} /\ pc' \in {[pc EXCEPT ![s] = "acquire"], [pc EXCEPT ![s] = "idle"]}
           \/ pc[s] \in {"open", "acquire_extra"}
              /\ pc' \in {pc, [pc EXCEPT ![s] = "acquire_extra"], [pc EXCEPT ![s] = "open"]}
    BY <1>5 DEF Wait, WaitForConnection, WaitForExtra, AcquireTimeout, Waiting,
                WithoutTransactionRefused
  <2> QED
    BY <2>1
<1>6. ASSUME NEW c \in Conns, ReturnClosed(c) \/ ReturnCached(c) \/ Reap(c) \/ Kill(c)
      PROVE  PoolInv'
  BY <1>6 DEF ReturnClosed, ReturnCached, Reap, Kill, Close
<1>7. CASE UNCHANGED vars
  BY <1>7 DEF vars
<1> QED
  BY <1>1, <1>2, <1>3, <1>4, <1>5, <1>6, <1>7 DEF Next

\* A session outside a transaction holds no connection and one inside holds exactly one for
\* its statements, however COMMIT, ROLLBACK and scans fail (PostgresTransaction,
\* PostgresConnectionPool).
THEOREM NoConnectionLeakedTheorem == Spec => []NoConnectionLeaked
<1>1. PoolInv => NoConnectionLeaked
  BY DEF PoolInv
<1> QED
  BY <1>1, PoolInit, PoolStep, PTL DEF Spec

-------------------------------------------------------------------------------
(* Types.                                                                  *)

LEMMA CardinalityOfNew ==
  ASSUME nextWrite \in 1 .. MaxWrites + 1, NEW new \in NewWrites
  PROVE  /\ new \subseteq Writes
         /\ nextWrite + Cardinality(new) \in 1 .. MaxWrites + 1
         /\ \A w \in Writes :
              w >= nextWrite + Cardinality(new) => w >= nextWrite /\ w \notin new
<1>1. new = {} \/ (nextWrite <= MaxWrites /\ new = {nextWrite})
  BY DEF NewWrites
<1>2. Cardinality({}) = 0 /\ Cardinality({nextWrite}) = 1
  BY FS_EmptySet, FS_Singleton
<1>3. CASE new = {}
  BY <1>2, <1>3, TransactionAssumption DEF Writes
<1>4. CASE nextWrite <= MaxWrites /\ new = {nextWrite}
  BY <1>2, <1>4, TransactionAssumption DEF Writes
<1> QED
  BY <1>1, <1>3, <1>4

LEMMA TypeInit == Init => TypeOK
BY TransactionAssumption DEF Init, TypeOK, Writes

LEMMA TypeStep ==
  ASSUME TypeOK, [Next]_vars
  PROVE  TypeOK'
<1> USE TransactionAssumption DEF TypeOK, Hand
<1>1. ASSUME NEW s \in Sessions, NEW c \in Conns, Take(s, c)
      PROVE  TypeOK'
  <2>1. CASE StartTransaction(s, c)
    BY <2>1 DEF StartTransaction
  <2>2. CASE StalenessConnection(s, c)
    BY <2>2 DEF StalenessConnection
  <2>3. ASSUME NEW forced, ScanConnect(s, c, forced)
        PROVE  TypeOK'
    BY <2>3 DEF ScanConnect
  <2> QED
    BY <1>1, <2>1, <2>2, <2>3 DEF Take, ScanConnection, StreamConnection
<1>2. ASSUME NEW s \in Sessions, NEW c \in Conns, Execute(s, c)
      PROVE  TypeOK'
  <2>1. CASE Statement(s, c)
    <3>1. PICK new \in NewWrites :
            /\ \/ work' = [work EXCEPT ![c] = @ \cup new] /\ UNCHANGED durable
               \/ durable' = durable \cup new /\ UNCHANGED work
            /\ wrote' = [wrote EXCEPT ![s] = @ \cup new]
            /\ nextWrite' = nextWrite + Cardinality(new)
      BY <2>1 DEF Statement, NewWrites
    <3>2. new \subseteq Writes /\ nextWrite' \in 1 .. MaxWrites + 1
      BY <3>1, CardinalityOfNew
    <3> QED
      BY <2>1, <3>1, <3>2 DEF Statement
  <2>2. CASE StatementWithoutTransaction(s, c)
    BY <2>2, CardinalityOfNew DEF StatementWithoutTransaction
  <2>3. CASE StatementFails(s, c)
    BY <2>3 DEF StatementFails, Aborted
  <2>4. CASE PrepareFails(s, c)
    BY <2>4 DEF PrepareFails, Aborted
  <2>5. CASE StatementLost(s, c)
    BY <2>5 DEF StatementLost
  <2> QED
    BY <1>2, <2>1, <2>2, <2>3, <2>4, <2>5 DEF Execute
<1>3. ASSUME NEW s \in Sessions, NEW c \in Conns, End(s, c)
      PROVE  TypeOK'
  <2>0. PICK outcome \in {"committed", "committed_after_error", "rolled_back", "failed"} :
          Return(s, c, outcome)
    BY <1>3, EndGivesBack
  <2>1. UNCHANGED <<options, nextWrite>>
        /\ place' \in [Conns -> {"closed", "available", "tx", "extra", "returning"}]
        /\ owner' \in [Conns -> Sessions \cup {NoSession}]
        /\ pc' \in [Sessions -> {"idle", "acquire", "open", "acquire_extra"}]
        /\ txState' \in [Sessions -> {"none", "not_yet_started", "started"}]
        /\ valid' \in [Sessions -> BOOLEAN] /\ wrote' \in [Sessions -> SUBSET Writes]
    BY <2>0 DEF Return, Destroy
  <2>3. ended' \subseteq [writes : SUBSET Writes,
               outcome : {"committed", "committed_after_error", "rolled_back", "failed"}]
    BY <2>0 DEF Return, Destroy, Ended
  <2>2. /\ libpq' \in [Conns -> {"ok", "bad"}]
        /\ backend' \in [Conns -> {"idle", "in_transaction", "in_error", "gone"}]
        /\ work' \in [Conns -> SUBSET Writes] /\ dirt' \in [Conns -> BOOLEAN]
        /\ durable' \subseteq Writes /\ kills' \in 0 .. MaxKills
    <3>1. CASE CommitNothing(s, c) \/ CommitLost(s, c) \/ RollbackNothing(s, c)
               \/ RollbackLost(s, c)
      BY <3>1 DEF CommitNothing, CommitLost, RollbackNothing, RollbackLost
    <3>2. CASE Commit(s, c)
      BY <3>2 DEF Commit
    <3>3. CASE CommitAborted(s, c) \/ CommitRejected(s, c) \/ Rollback(s, c)
      BY <3>3 DEF CommitAborted, CommitRejected, Rollback
    <3>4. CASE CommitUnanswered(s, c)
      BY <3>4 DEF CommitUnanswered
    <3> QED
      BY <1>3, <3>1, <3>2, <3>3, <3>4 DEF End
  <2> QED
    BY <2>1, <2>2, <2>3
<1>4. ASSUME NEW s \in Sessions, NEW c \in Conns, ReleaseExtra(s, c)
      PROVE  TypeOK'
  BY <1>4 DEF ReleaseExtra
<1>5. ASSUME NEW s \in Sessions, Wait(s) \/ AcquireTimeout(s) \/ WithoutTransactionRefused(s)
      PROVE  TypeOK'
  <2>1. CASE Wait(s)
    <3>1. /\ pc' \in [Sessions -> {"idle", "acquire", "open", "acquire_extra"}]
          /\ UNCHANGED <<poolVars, serverVars, txState, valid, wrote, nextWrite, ended>>
      BY <2>1 DEF Wait, WaitForConnection, WaitForExtra
    <3> QED
      BY <3>1
  <2>2. CASE AcquireTimeout(s)
    <3>1. /\ pc' \in [Sessions -> {"idle", "acquire", "open", "acquire_extra"}]
          /\ valid' \in [Sessions -> BOOLEAN]
          /\ UNCHANGED <<poolVars, serverVars, txState, wrote, nextWrite, ended>>
      BY <2>2 DEF AcquireTimeout
    <3> QED
      BY <3>1
  <2>3. CASE WithoutTransactionRefused(s)
    BY <2>3 DEF WithoutTransactionRefused
  <2> QED
    BY <1>5, <2>1, <2>2, <2>3
<1>6. ASSUME NEW c \in Conns, ReturnClosed(c) \/ ReturnCached(c) \/ Reap(c) \/ Kill(c)
      PROVE  TypeOK'
  <2>1. CASE ReturnClosed(c) \/ Reap(c)
    <3>1. Close(c)
      BY <2>1 DEF ReturnClosed, Reap
    <3>2. /\ place' \in [Conns -> {"closed", "available", "tx", "extra", "returning"}]
          /\ owner' \in [Conns -> Sessions \cup {NoSession}]
          /\ libpq' \in [Conns -> {"ok", "bad"}]
          /\ backend' \in [Conns -> {"idle", "in_transaction", "in_error", "gone"}]
          /\ work' \in [Conns -> SUBSET Writes] /\ dirt' \in [Conns -> BOOLEAN]
      BY <3>1 DEF Close
    <3> QED
      BY <3>1, <3>2 DEF Close
  <2>2. CASE ReturnCached(c)
    BY <2>2 DEF ReturnCached, Reset
  <2>3. CASE Kill(c)
    BY <2>3 DEF Kill
  <2> QED
    BY <1>6, <2>1, <2>2, <2>3
<1>7. CASE UNCHANGED vars
  BY <1>7 DEF vars
<1> QED
  BY <1>1, <1>2, <1>3, <1>4, <1>5, <1>6, <1>7 DEF Next

\* The variables of the pool, the server and the sessions keep their types.
THEOREM TypeCorrect == Spec => []TypeOK
BY TypeInit, TypeStep, PTL DEF Spec

-------------------------------------------------------------------------------
(* What the server has of a transaction.                                   *)

\* What is not in use has nothing left of who used it.
UnusedIsClean ==
  \A c \in Conns : place[c] \in {"closed", "available"} =>
    backend[c] \in {"idle", "gone"} /\ work[c] = {} /\ ~dirt[c]

\* As long as nothing has failed, the open transaction of the server is the session's.
WorkIsWrote ==
  \A s \in Sessions, c \in Conns :
    Mine(c, s) /\ txState[s] = "started" /\ valid[s] /\ backend[c] = "in_transaction" =>
      work[c] = wrote[s]

WroteInside == \A s \in Sessions : txState[s] # "started" => wrote[s] = {}

\* Writes are numbered in their order.
NumbersAhead ==
  \A w \in Writes : w >= nextWrite =>
    /\ w \notin durable
    /\ \A s \in Sessions : w \notin wrote[s]
    /\ \A c \in Conns : w \notin work[c]
    /\ \A t \in ended : w \notin t.writes

ReadOnlyWorksNot == options.readOnly => durable = {} /\ \A c \in Conns : work[c] = {}

TxInv ==
  UnusedIsClean /\ StateMatchesServer /\ WorkIsWrote /\ WroteInside /\ NumbersAhead
  /\ ReadOnlyWorksNot

LEMMA TxInit == Init => TxInv
BY TransactionAssumption DEF Init, TxInv, UnusedIsClean, StateMatchesServer, WorkIsWrote,
   WroteInside, NumbersAhead, ReadOnlyWorksNot, Mine

LEMMA TxStep ==
  ASSUME TypeOK, PoolInv, TxInv, [Next]_vars
  PROVE  TxInv'
<1> USE TransactionAssumption DEF TypeOK, PoolInv, NoConnectionLeaked, Mine, Hand, TxInv, UnusedIsClean,
        StateMatchesServer, WorkIsWrote, WroteInside, NumbersAhead, ReadOnlyWorksNot
<1>1. ASSUME NEW s \in Sessions, NEW c \in Conns, Take(s, c)
      PROVE  TxInv'
  <2>1. CASE StartTransaction(s, c)
    BY <2>1 DEF StartTransaction, Obtain, Alive
  <2>2. CASE StalenessConnection(s, c)
    BY <2>2 DEF StalenessConnection, Obtain, Alive
  <2>3. ASSUME NEW forced, ScanConnect(s, c, forced)
        PROVE  TxInv'
    BY <2>3 DEF ScanConnect, Obtain, Alive
  <2> QED
    BY <1>1, <2>1, <2>2, <2>3 DEF Take, ScanConnection, StreamConnection
<1>2. ASSUME NEW s \in Sessions, NEW c \in Conns, Execute(s, c)
      PROVE  TxInv'
  <2>1. CASE Statement(s, c)
    <3>1. PICK new \in IF options.readOnly THEN {{}} ELSE NewWrites :
            /\ IF backend'[c] = "in_transaction"
               THEN work' = [work EXCEPT ![c] = @ \cup new] /\ UNCHANGED durable
               ELSE durable' = durable \cup new /\ UNCHANGED work
            /\ wrote' = [wrote EXCEPT ![s] = @ \cup new]
            /\ nextWrite' = nextWrite + Cardinality(new)
      BY <2>1 DEF Statement
    <3>2. new \in NewWrites /\ (options.readOnly => new = {})
      BY <3>1 DEF NewWrites
    <3>3. /\ Mine(c, s) /\ valid[s] /\ backend[c] \in {"idle", "in_transaction"}
          /\ txState[s] = "started" \/ (txState[s] = "not_yet_started" /\ backend[c] = "idle")
          /\ txState[s] = "started" => backend[c] = "in_transaction"
          /\ work[c] = wrote[s]
      <4>1. pc[s] = "open" /\ Mine(c, s) /\ valid[s] /\ backend[c] \in {"idle", "in_transaction"}
        BY <2>1 DEF Statement
      <4>2. txState[s] # "none"
        BY <4>1
      <4>3. CASE txState[s] = "started"
        BY <4>1, <4>3
      <4>4. CASE txState[s] = "not_yet_started"
        <5>1. backend[c] = "idle" /\ work[c] = {} /\ wrote[s] = {}
          BY <4>1, <4>4
        <5> QED
          BY <4>1, <4>4, <5>1
      <4> QED
        BY <4>2, <4>3, <4>4
    <3>4. /\ backend' = [backend EXCEPT ![c] = "in_transaction"]
          /\ txState' = [txState EXCEPT ![s] = "started"]
          /\ dirt' = [dirt EXCEPT ![c] = TRUE]
          /\ UNCHANGED <<options, place, owner, valid, ended>>
      BY <2>1, <3>3 DEF Statement
    <3>5. work' = [work EXCEPT ![c] = @ \cup new] /\ UNCHANGED durable
      BY <3>1, <3>4
    <3>7. NumbersAhead'
      <4>1. \A w \in Writes : w >= nextWrite' => w >= nextWrite /\ w \notin new
        BY <3>1, <3>2, CardinalityOfNew
      <4> QED
        BY <3>1, <3>4, <3>5, <4>1
    <3>8. WorkIsWrote'
      BY <3>1, <3>3, <3>4, <3>5
    <3>6. UnusedIsClean' /\ StateMatchesServer' /\ WroteInside' /\ ReadOnlyWorksNot'
      BY <3>1, <3>2, <3>3, <3>4, <3>5
    <3> QED
      BY <3>6, <3>7, <3>8
  <2>2. CASE StatementWithoutTransaction(s, c)
    <3>1. PICK new \in NewWrites :
            durable' = durable \cup new /\ nextWrite' = nextWrite + Cardinality(new)
      BY <2>2 DEF StatementWithoutTransaction
    <3>2. NumbersAhead'
      <4>1. \A w \in Writes : w >= nextWrite' => w >= nextWrite /\ w \notin new
        BY <3>1, CardinalityOfNew
      <4> QED
        BY <2>2, <3>1, <4>1 DEF StatementWithoutTransaction
    <3> QED
      BY <2>2, <3>1, <3>2 DEF StatementWithoutTransaction, MayRunWithout
  <2>3. CASE StatementFails(s, c)
    BY <2>3 DEF StatementFails, Aborted
  <2>4. CASE PrepareFails(s, c)
    BY <2>4 DEF PrepareFails, Aborted
  <2>5. CASE StatementLost(s, c)
    BY <2>5 DEF StatementLost
  <2> QED
    BY <1>2, <2>1, <2>2, <2>3, <2>4, <2>5 DEF Execute
<1>3. ASSUME NEW s \in Sessions, NEW c \in Conns, End(s, c)
      PROVE  TxInv'
  <2>0. PICK outcome \in {"committed", "committed_after_error", "rolled_back", "failed"} :
          Return(s, c, outcome)
    BY <1>3, EndGivesBack
  <2>1. /\ MayEnd(s, c)
        /\ place' = [place EXCEPT ![c] = "returning"]
        /\ owner' = [owner EXCEPT ![c] = NoSession]
        /\ txState' = [txState EXCEPT ![s] = "none"]
        /\ wrote' = [wrote EXCEPT ![s] = {}]
        /\ valid' = [valid EXCEPT ![s] = TRUE]
        /\ UNCHANGED <<options, nextWrite>>
    BY <1>3, <2>0, EndGivesBack DEF Return, Destroy
  <2>2. \A t \in ended' : t \in ended \/ t.writes = wrote[s]
    BY <2>0 DEF Return, Destroy, Ended
  <2>3. /\ \A d \in Conns \ {c} : backend'[d] = backend[d] /\ work'[d] = work[d]
                                  /\ dirt'[d] = dirt[d]
        /\ work'[c] \subseteq work[c] /\ durable' \subseteq durable \cup work[c]
    <3>1. CASE CommitNothing(s, c) \/ CommitLost(s, c) \/ RollbackNothing(s, c)
               \/ RollbackLost(s, c)
      BY <3>1 DEF CommitNothing, CommitLost, RollbackNothing, RollbackLost
    <3>2. CASE Commit(s, c)
      BY <3>2 DEF Commit
    <3>3. CASE CommitAborted(s, c) \/ CommitRejected(s, c) \/ Rollback(s, c)
      BY <3>3 DEF CommitAborted, CommitRejected, Rollback
    <3>4. CASE CommitUnanswered(s, c)
      BY <3>4 DEF CommitUnanswered
    <3> QED
      BY <1>3, <3>1, <3>2, <3>3, <3>4 DEF End
  <2>4. NumbersAhead'
    BY <2>1, <2>2, <2>3
  <2>5. ReadOnlyWorksNot'
    <3>1. ASSUME options.readOnly
          PROVE  durable' = {} /\ \A d \in Conns : work'[d] = {}
      <4>1. durable = {} /\ \A d \in Conns : work[d] = {}
        BY <3>1
      <4> QED
        BY <2>3, <4>1
    <3> QED
      BY <2>1, <3>1
  <2>6. UnusedIsClean' /\ StateMatchesServer' /\ WorkIsWrote' /\ WroteInside'
    BY <2>1, <2>3 DEF MayEnd
  <2> QED
    BY <2>4, <2>5, <2>6
<1>4. ASSUME NEW s \in Sessions, NEW c \in Conns, ReleaseExtra(s, c)
      PROVE  TxInv'
  BY <1>4 DEF ReleaseExtra
<1>5. ASSUME NEW s \in Sessions, Wait(s) \/ AcquireTimeout(s) \/ WithoutTransactionRefused(s)
      PROVE  TxInv'
  <2>1. CASE Wait(s)
    <3>1. UNCHANGED <<poolVars, serverVars, txState, valid, wrote, nextWrite, ended>>
      BY <2>1 DEF Wait, WaitForConnection, WaitForExtra
    <3> QED
      BY <3>1
  <2>2. CASE AcquireTimeout(s)
    BY <2>2 DEF AcquireTimeout, Waiting
  <2>3. CASE WithoutTransactionRefused(s)
    BY <2>3 DEF WithoutTransactionRefused
  <2> QED
    BY <1>5, <2>1, <2>2, <2>3
<1>6. ASSUME NEW c \in Conns, ReturnClosed(c) \/ ReturnCached(c) \/ Reap(c) \/ Kill(c)
      PROVE  TxInv'
  <2>1. CASE ReturnClosed(c) \/ Reap(c)
    <3>1. Close(c) /\ place[c] \in {"returning", "available"}
      BY <2>1 DEF ReturnClosed, Reap
    <3> QED
      BY <3>1 DEF Close
  <2>2. CASE ReturnCached(c)
    BY <2>2 DEF ReturnCached, Reset
  <2>3. CASE Kill(c)
    BY <2>3 DEF Kill
  <2> QED
    BY <1>6, <2>1, <2>2, <2>3
<1>7. CASE UNCHANGED vars
  BY <1>7 DEF vars
<1> QED
  BY <1>1, <1>2, <1>3, <1>4, <1>5, <1>6, <1>7 DEF Next

LEMMA Safety == Spec => [](TypeOK /\ PoolInv /\ TxInv)
BY TypeInit, TypeStep, PoolInit, PoolStep, TxInit, TxStep, PTL DEF Spec

\* transaction_state never lies about the server, so that BEGIN is sent exactly once and no
\* statement of a transaction runs outside of it (PostgresTransaction::Query).
THEOREM StateMatchesServerTheorem == Spec => []StateMatchesServer
<1>1. TypeOK /\ PoolInv /\ TxInv => StateMatchesServer
  BY DEF TxInv
<1> QED
  BY <1>1, Safety, PTL

\* What the pool hands to the next session carries nothing of the last one
\* (PostgresConnection::Reset, PostgresConnectionPool).
THEOREM CachedIsCleanTheorem == Spec => []CachedIsClean
<1>1. TypeOK /\ PoolInv /\ TxInv => CachedIsClean
  BY DEF TxInv, UnusedIsClean, CachedIsClean
<1> QED
  BY <1>1, Safety, PTL

\* A database attached READ_ONLY is never written, however transactions and statements
\* without one are mixed (GetBeginTransactionQuery, GetConnectionWithoutTransaction).
THEOREM ReadOnlyNeverWritesTheorem == Spec => []ReadOnlyNeverWrites
<1>1. TypeOK /\ PoolInv /\ TxInv => ReadOnlyNeverWrites
  BY DEF TxInv, ReadOnlyWorksNot, ReadOnlyNeverWrites
<1> QED
  BY <1>1, Safety, PTL

-------------------------------------------------------------------------------
(* Atomicity.                                                              *)

\* What an end leaves on the server fits what the session is told.
LEMMA EndKeeps ==
  ASSUME TypeOK, PoolInv, TxInv, NEW s \in Sessions, NEW c \in Conns, End(s, c)
  PROVE  \E outcome \in {"committed", "committed_after_error", "rolled_back", "failed"} :
           /\ Return(s, c, outcome)
           /\ \/ outcome = "committed" /\ durable' = durable \cup wrote[s]
              \/ outcome \in {"rolled_back", "committed_after_error"} /\ durable' = durable
              \/ outcome = "failed" /\ durable' \in {durable, durable \cup wrote[s]}
           /\ outcome = "committed_after_error" => valid[s] /\ backend[c] = "in_error"
<1> USE DEF TxInv
<1>1. CASE CommitNothing(s, c) \/ RollbackNothing(s, c)
  BY <1>1 DEF CommitNothing, RollbackNothing, WroteInside
<1>2. CASE Commit(s, c)
  <2>1. Mine(c, s) /\ valid[s] /\ txState[s] = "started" /\ backend[c] = "in_transaction"
    BY <1>2 DEF Commit, MayEnd, StateMatchesServer
  <2>2. work[c] = wrote[s]
    BY <2>1 DEF WorkIsWrote
  <2> QED
    BY <1>2, <2>2 DEF Commit
<1>3. CASE CommitUnanswered(s, c)
  <2>1. work[c] = wrote[s]
    BY <1>3 DEF CommitUnanswered, MayEnd, WorkIsWrote
  <2> QED
    BY <1>3, <2>1 DEF CommitUnanswered
<1>4. CASE CommitAborted(s, c) \/ CommitRejected(s, c) \/ CommitLost(s, c)
           \/ Rollback(s, c) \/ RollbackLost(s, c)
  BY <1>4 DEF CommitAborted, CommitRejected, CommitLost, Rollback, RollbackLost
<1> QED
  BY <1>1, <1>2, <1>3, <1>4 DEF End

LEMMA NextIsUnused ==
  ASSUME TypeOK, TxInv, NEW new \in NewWrites, new # {}
  PROVE  /\ new = {nextWrite} /\ nextWrite \in Writes
         /\ Atomic!Unused(nextWrite)
<1>1. new = {nextWrite} /\ nextWrite \in Writes /\ nextWrite >= nextWrite
  BY TransactionAssumption DEF NewWrites, TypeOK, Writes
<1> QED
  BY <1>1 DEF TxInv, NumbersAhead, Atomic!Unused, Told

LEMMA AtomicStep ==
  ASSUME TypeOK, PoolInv, TxInv, [Next]_vars
  PROVE  [Atomic!Next]_(Atomic!vars)
<1> USE DEF Atomic!Next, Atomic!vars
<1>1. ASSUME UNCHANGED <<durable, wrote, ended>>
      PROVE  UNCHANGED Atomic!vars
  BY <1>1
<1>2. ASSUME NEW s \in Sessions, NEW c \in Conns, Statement(s, c)
      PROVE  Atomic!Write(s) \/ UNCHANGED Atomic!vars
  <2>1. PICK new \in NewWrites :
          /\ IF backend'[c] = "in_transaction" THEN UNCHANGED durable
             ELSE durable' = durable \cup new
          /\ wrote' = [wrote EXCEPT ![s] = @ \cup new] /\ UNCHANGED ended
    BY <1>2 DEF Statement, NewWrites
  <2>2. UNCHANGED durable
    <3>1. txState[s] # "started" \/ backend[c] = "in_transaction"
      BY <1>2 DEF Statement, TxInv, StateMatchesServer
    <3>2. backend'[c] = "in_transaction"
      BY <1>2, <3>1 DEF Statement, TypeOK
    <3> QED
      BY <2>1, <3>2
  <2>3. CASE new = {}
    BY <2>1, <2>2, <2>3 DEF TypeOK
  <2>4. CASE new # {}
    BY <2>1, <2>2, <2>4, NextIsUnused DEF Atomic!Write
  <2> QED
    BY <2>3, <2>4
<1>3. ASSUME NEW s \in Sessions, NEW c \in Conns, StatementWithoutTransaction(s, c)
      PROVE  Atomic!WriteAlone \/ UNCHANGED Atomic!vars
  <2>1. PICK new \in NewWrites : durable' = durable \cup new /\ UNCHANGED <<wrote, ended>>
    BY <1>3 DEF StatementWithoutTransaction
  <2>2. CASE new = {}
    BY <2>1, <2>2
  <2>3. CASE new # {}
    BY <2>1, <2>3, NextIsUnused DEF Atomic!WriteAlone
  <2> QED
    BY <2>2, <2>3
<1>4. ASSUME NEW s \in Sessions, NEW c \in Conns, End(s, c)
      PROVE  Atomic!End(s) \/ UNCHANGED Atomic!vars
  <2>1. PICK outcome \in {"committed", "committed_after_error", "rolled_back", "failed"} :
          /\ Return(s, c, outcome)
          /\ \/ outcome = "committed" /\ durable' = durable \cup wrote[s]
             \/ outcome \in {"rolled_back", "committed_after_error"} /\ durable' = durable
             \/ outcome = "failed" /\ durable' \in {durable, durable \cup wrote[s]}
    BY <1>4, EndKeeps
  <2>2. wrote' = [wrote EXCEPT ![s] = {}]
    BY <2>1 DEF Return, Destroy
  <2>3. CASE wrote[s] = {}
    <3>1. UNCHANGED <<durable, ended>>
      BY <2>1, <2>3 DEF Return, Destroy, Ended
    <3>2. wrote' = wrote
      BY <2>2, <2>3 DEF TypeOK
    <3> QED
      BY <3>1, <3>2
  <2>4. CASE wrote[s] # {}
    <3> DEFINE told == IF outcome = "committed_after_error" THEN "rolled_back" ELSE outcome
    <3>1. ended' = ended \cup {[writes |-> wrote[s], outcome |-> outcome]}
      BY <2>1, <2>4 DEF Return, Destroy, Ended
    <3>2. {Told(t) : t \in ended}' = {Told(t) : t \in ended}
                                       \cup {[writes |-> wrote[s], outcome |-> told]}
      <4> DEFINE new == [writes |-> wrote[s], outcome |-> outcome]
      <4>1. Told(new) = [writes |-> wrote[s], outcome |-> told]
        BY DEF Told
      <4> HIDE DEF new
      <4>2. {Told(t) : t \in ended \cup {new}} = {Told(t) : t \in ended} \cup {Told(new)}
        OBVIOUS
      <4>3. {Told(t) : t \in ended}' = {Told(t) : t \in ended \cup {new}}
        BY <3>1 DEF new, Told
      <4> QED
        BY <4>1, <4>2, <4>3
    <3>3. told \in Atomic!Outcomes
      BY DEF Atomic!Outcomes
    <3>4. \E kept \in Atomic!Kept(s, told) : durable' = durable \cup kept
      BY <2>1 DEF Atomic!Kept
    <3> QED
      BY <2>2, <2>4, <3>2, <3>3, <3>4 DEF Atomic!End
  <2> QED
    BY <2>3, <2>4
<1>5. ASSUME NEW s \in Sessions, NEW c \in Conns, Take(s, c) \/ ReleaseExtra(s, c)
      PROVE  UNCHANGED <<durable, wrote, ended>>
  BY <1>5 DEF Take, StartTransaction, StalenessConnection, ScanConnection, StreamConnection,
              ScanConnect, ReleaseExtra
<1>6. ASSUME NEW s \in Sessions, NEW c \in Conns,
             StatementFails(s, c) \/ PrepareFails(s, c) \/ StatementLost(s, c)
      PROVE  UNCHANGED <<durable, wrote, ended>>
  BY <1>6 DEF StatementFails, PrepareFails, StatementLost, Aborted
<1>7. ASSUME NEW s \in Sessions, Wait(s) \/ AcquireTimeout(s) \/ WithoutTransactionRefused(s)
      PROVE  UNCHANGED <<durable, wrote, ended>>
  BY <1>7 DEF Wait, WaitForConnection, WaitForExtra, AcquireTimeout, WithoutTransactionRefused
<1>8. ASSUME NEW c \in Conns, ReturnClosed(c) \/ ReturnCached(c) \/ Reap(c) \/ Kill(c)
      PROVE  UNCHANGED <<durable, wrote, ended>>
  BY <1>8 DEF ReturnClosed, ReturnCached, Reap, Kill, Close
<1> QED
  BY <1>1, <1>2, <1>3, <1>4, <1>5, <1>6, <1>7, <1>8 DEF Next, Execute, vars

\* Transactions are atomic whatever happens to their connection, before, under or after
\* COMMIT: what a session is told decides what stays (PostgresTransaction::Commit, Rollback).
THEOREM Atomicity == Spec => IsAtomic
<1>1. Init => Atomic!Init
  BY DEF Init, Atomic!Init
<1>2. TypeOK /\ PoolInv /\ TxInv /\ [Next]_vars => [Atomic!Next]_(Atomic!vars)
  BY AtomicStep
<1> QED
  BY <1>1, <1>2, Safety, PTL DEF Spec, IsAtomic, Atomic!Spec

-------------------------------------------------------------------------------
(* The exception.                                                          *)

\* Unless a statement fails as a BinderException, DuckDB never commits a transaction that
\* the server has aborted.
CommitInv ==
  /\ \A t \in ended : t.outcome = "committed" => t.writes \subseteq durable
  /\ ~BinderErrors =>
       /\ \A s \in Sessions, c \in Conns : Mine(c, s) /\ valid[s] => backend[c] # "in_error"
       /\ \A t \in ended : t.outcome # "committed_after_error"

LEMMA CommitStep ==
  ASSUME TypeOK, PoolInv, TxInv, CommitInv, [Next]_vars
  PROVE  CommitInv'
<1> USE TransactionAssumption DEF CommitInv, Mine, TypeOK, Hand
<1>1. ASSUME NEW s \in Sessions, NEW c \in Conns, Take(s, c)
      PROVE  CommitInv'
  <2>1. CASE StartTransaction(s, c)
    BY <2>1 DEF StartTransaction
  <2>2. CASE StalenessConnection(s, c)
    BY <2>2 DEF StalenessConnection
  <2>3. ASSUME NEW forced, ScanConnect(s, c, forced)
        PROVE  CommitInv'
    BY <2>3 DEF ScanConnect
  <2> QED
    BY <1>1, <2>1, <2>2, <2>3 DEF Take, ScanConnection, StreamConnection
<1>2. ASSUME NEW s \in Sessions, NEW c \in Conns, Execute(s, c)
      PROVE  CommitInv'
  <2>1. CASE Statement(s, c)
    <3>1. UNCHANGED <<place, owner, valid, ended>> /\ durable \subseteq durable'
      BY <2>1 DEF Statement
    <3>2. backend'[c] # "in_error" /\ \A d \in Conns \ {c} : backend'[d] = backend[d]
      BY <2>1 DEF Statement
    <3> QED
      BY <3>1, <3>2
  <2>2. CASE StatementWithoutTransaction(s, c)
    BY <2>2 DEF StatementWithoutTransaction
  <2>3. CASE StatementFails(s, c)
    BY <2>3 DEF StatementFails, Aborted
  <2>4. CASE PrepareFails(s, c)
    BY <2>4 DEF PrepareFails, Aborted
  <2>5. CASE StatementLost(s, c)
    BY <2>5 DEF StatementLost
  <2> QED
    BY <1>2, <2>1, <2>2, <2>3, <2>4, <2>5 DEF Execute
<1>3. ASSUME NEW s \in Sessions, NEW c \in Conns, End(s, c)
      PROVE  CommitInv'
  <2>1. PICK outcome \in {"committed", "committed_after_error", "rolled_back", "failed"} :
          /\ Return(s, c, outcome)
          /\ durable \subseteq durable' /\ (outcome = "committed" => wrote[s] \subseteq durable')
          /\ outcome = "committed_after_error" => valid[s] /\ backend[c] = "in_error"
    BY <1>3, EndKeeps
  <2>2. MayEnd(s, c)
    BY <1>3, EndGivesBack
  <2>3. ended' \subseteq ended \cup {[writes |-> wrote[s], outcome |-> outcome]}
    BY <2>1 DEF Return, Destroy, Ended
  <2>4. /\ place' = [place EXCEPT ![c] = "returning"]
        /\ owner' = [owner EXCEPT ![c] = NoSession]
        /\ valid' = [valid EXCEPT ![s] = TRUE]
    BY <2>1 DEF Return, Destroy
  <2>5. \A d \in Conns \ {c} : backend'[d] = backend[d]
    BY <1>3 DEF End, CommitNothing, Commit, CommitAborted, CommitRejected, CommitUnanswered,
                CommitLost, RollbackNothing, Rollback, RollbackLost
  <2>6. \A d \in Conns : Mine(d, s) => d = c
    BY <2>2 DEF MayEnd, PoolInv, NoConnectionLeaked
  <2>7. \A t \in ended' : t.outcome = "committed" => t.writes \subseteq durable'
    BY <2>1, <2>3
  <2>8. ASSUME ~BinderErrors
        PROVE  \A t \in ended' : t.outcome # "committed_after_error"
    BY <2>1, <2>2, <2>3, <2>8 DEF MayEnd
  <2>9. ASSUME ~BinderErrors
        PROVE  \A r \in Sessions, d \in Conns :
                 Mine(d, r)' /\ valid'[r] => backend'[d] # "in_error"
    BY <2>4, <2>5, <2>6, <2>9
  <2> QED
    BY <2>7, <2>8, <2>9
<1>4. ASSUME NEW s \in Sessions, NEW c \in Conns, ReleaseExtra(s, c)
      PROVE  CommitInv'
  BY <1>4 DEF ReleaseExtra
<1>5. ASSUME NEW s \in Sessions, Wait(s) \/ AcquireTimeout(s) \/ WithoutTransactionRefused(s)
      PROVE  CommitInv'
  <2>1. CASE Wait(s)
    <3>1. UNCHANGED <<poolVars, serverVars, valid, ended>>
      BY <2>1 DEF Wait, WaitForConnection, WaitForExtra
    <3> QED
      BY <3>1
  <2>2. CASE AcquireTimeout(s)
    BY <2>2 DEF AcquireTimeout, Waiting, PoolInv, NoConnectionLeaked
  <2>3. CASE WithoutTransactionRefused(s)
    BY <2>3 DEF WithoutTransactionRefused
  <2> QED
    BY <1>5, <2>1, <2>2, <2>3
<1>6. ASSUME NEW c \in Conns, ReturnClosed(c) \/ ReturnCached(c) \/ Reap(c) \/ Kill(c)
      PROVE  CommitInv'
  <2>1. CASE ReturnClosed(c) \/ Reap(c)
    <3>1. Close(c)
      BY <2>1 DEF ReturnClosed, Reap
    <3> QED
      BY <3>1 DEF Close
  <2>2. CASE ReturnCached(c)
    BY <2>2 DEF ReturnCached, Reset
  <2>3. CASE Kill(c)
    BY <2>3 DEF Kill
  <2> QED
    BY <1>6, <2>1, <2>2, <2>3
<1>7. CASE UNCHANGED vars
  BY <1>7 DEF vars
<1> QED
  BY <1>1, <1>2, <1>3, <1>4, <1>5, <1>6, <1>7 DEF Next

\* A COMMIT that reports no error is durable, were it not for PQprepare: only its error
\* leaves a transaction valid that the server has aborted (PGQueryBind).
THEOREM CommitDurableWithoutBinderErrors ==
  Spec => [](~BinderErrors => SuccessfulCommitIsDurable)
<1>1. Init => CommitInv
  BY DEF Init, CommitInv, Mine
<1>2. TypeOK /\ CommitInv => (~BinderErrors => SuccessfulCommitIsDurable)
  BY DEF CommitInv, SuccessfulCommitIsDurable
<1> QED
  BY <1>1, <1>2, Safety, CommitStep, PTL DEF Spec

-------------------------------------------------------------------------------
(* The limit.                                                              *)

LEMMA OptionsFixed ==
  ASSUME [Next]_vars
  PROVE  options' = options
<1>1. ASSUME NEW s \in Sessions, NEW c \in Conns,
             Take(s, c) \/ End(s, c) \/ ReleaseExtra(s, c)
      PROVE  options' = options
  <2>1. \E r, use : Hand(c, r, use)
    BY <1>1, EndGivesBack DEF Take, StartTransaction, StalenessConnection, ScanConnection,
       StreamConnection, ScanConnect, Return, ReleaseExtra
  <2> QED
    BY <2>1 DEF Hand
<1>2. ASSUME NEW s \in Sessions, NEW c \in Conns, Execute(s, c)
      PROVE  options' = options
  BY <1>2 DEF Execute, Statement, StatementFails, PrepareFails, StatementLost,
              StatementWithoutTransaction, Aborted
<1>3. ASSUME NEW s \in Sessions, Wait(s) \/ AcquireTimeout(s) \/ WithoutTransactionRefused(s)
      PROVE  options' = options
  BY <1>3 DEF Wait, WaitForConnection, WaitForExtra, AcquireTimeout, WithoutTransactionRefused
<1>4. ASSUME NEW c \in Conns, ReturnClosed(c) \/ ReturnCached(c) \/ Reap(c) \/ Kill(c)
      PROVE  options' = options
  BY <1>4 DEF ReturnClosed, ReturnCached, Reap, Kill, Close
<1> QED
  BY <1>1, <1>2, <1>3, <1>4 DEF Next, vars

LEMMA CapStep ==
  ASSUME TypeOK, CapHeld, [Next]_vars
  PROVE  CapHeld'
<1> USE TransactionAssumption DEF TypeOK
<1> SUFFICES ASSUME ~Forced', ~options'.streams
             PROVE  Cardinality(OpenConns') <= options'.max
  BY DEF CapHeld
<1>1. options' = options
  BY OptionsFixed
<1>2. /\ IsFiniteSet(OpenConns) /\ Cardinality(OpenConns) \in Nat
      /\ Cardinality(OpenConns) <= options.max /\ options.max \in Nat
  <2>1. IsFiniteSet(OpenConns)
    BY FS_Subset DEF OpenConns
  <2> QED
    BY <1>1, <2>1, FS_CardinalityType DEF CapHeld, Forced, Options
<1>3. ASSUME NEW s \in Sessions, NEW c \in Conns, NEW use \in {"tx", "extra", "returning"},
             Obtain(c, FALSE), Hand(c, s, use)
      PROVE  Cardinality(OpenConns') <= options'.max
  <2>1. CASE place[c] = "available"
    <3>1. OpenConns' = OpenConns
      BY <1>3, <2>1 DEF OpenConns, Hand
    <3> QED
      BY <1>1, <1>2, <3>1
  <2>2. CASE place[c] = "closed" /\ Cardinality(OpenConns) < options.max
    <3>1. OpenConns' = OpenConns \cup {c} /\ c \notin OpenConns
      BY <1>3, <2>2 DEF OpenConns, Hand
    <3>2. Cardinality(OpenConns') = Cardinality(OpenConns) + 1
      BY <1>2, <3>1, FS_AddElement
    <3> QED
      BY <1>1, <1>2, <2>2, <3>2
  <2> QED
    BY <1>3, <2>1, <2>2 DEF Obtain
<1>4. ASSUME OpenConns' \subseteq OpenConns
      PROVE  Cardinality(OpenConns') <= options'.max
  <2>1. Cardinality(OpenConns') \in Nat /\ Cardinality(OpenConns') <= Cardinality(OpenConns)
    BY <1>2, <1>4, FS_Subset, FS_CardinalityType
  <2> QED
    BY <1>1, <1>2, <2>1
<1>5. ASSUME NEW s \in Sessions, NEW c \in Conns, Take(s, c)
      PROVE  Cardinality(OpenConns') <= options'.max
  <2>1. ~Forced /\ ~options.streams /\ PoolEnabled
    BY <1>1 DEF Forced, PoolEnabled, Options
  <2>2. Obtain(c, FALSE) /\ (Hand(c, s, "tx") \/ Hand(c, s, "extra"))
    BY <1>5, <2>1 DEF Take, StartTransaction, StalenessConnection, ScanConnection,
                      StreamConnection, ScanConnect, Obtain
  <2> QED
    BY <1>3, <2>2
<1>6. ASSUME NEW s \in Sessions, NEW c \in Conns,
             Execute(s, c) \/ End(s, c) \/ ReleaseExtra(s, c)
      PROVE  OpenConns' \subseteq OpenConns
  <2>1. CASE Execute(s, c)
    BY <2>1 DEF Execute, Statement, StatementFails, PrepareFails, StatementLost,
                StatementWithoutTransaction, Aborted, poolVars, OpenConns
  <2>2. CASE End(s, c) \/ ReleaseExtra(s, c)
    <3>1. place[c] # "closed" /\ Hand(c, NoSession, "returning")
      BY <2>2, EndGivesBack DEF MayEnd, Mine, Return, ReleaseExtra
    <3> QED
      BY <3>1 DEF Hand, OpenConns
  <2> QED
    BY <1>6, <2>1, <2>2
<1>7. ASSUME NEW s \in Sessions, Wait(s) \/ AcquireTimeout(s) \/ WithoutTransactionRefused(s)
      PROVE  OpenConns' \subseteq OpenConns
  BY <1>7 DEF Wait, WaitForConnection, WaitForExtra, AcquireTimeout, WithoutTransactionRefused,
              poolVars, OpenConns
<1>8. ASSUME NEW c \in Conns, ReturnClosed(c) \/ ReturnCached(c) \/ Reap(c) \/ Kill(c)
      PROVE  OpenConns' \subseteq OpenConns
  BY <1>8 DEF ReturnClosed, ReturnCached, Reap, Kill, Close, poolVars, OpenConns
<1>9. CASE UNCHANGED vars
  BY <1>4, <1>9 DEF vars, poolVars, OpenConns
<1> QED
  BY <1>4, <1>5, <1>6, <1>7, <1>8, <1>9 DEF Next

\* The pool keeps to pg_pool_max_connections in the modes "wait" and "try", unless a scan
\* streams over it: threads of a scan that get no connection take no part (TryGetConnection).
THEOREM CapHeldTheorem == Spec => []CapHeld
<1>1. Init => CapHeld
  <2>1. ASSUME Init
        PROVE  OpenConns = {}
    BY <2>1 DEF Init, OpenConns
  <2>2. Init => options.max \in Nat
    BY TransactionAssumption DEF Init, Options
  <2>3. Cardinality({}) = 0
    BY FS_EmptySet
  <2> QED
    BY <2>1, <2>2, <2>3 DEF CapHeld
<1> QED
  BY <1>1, TypeInit, TypeStep, CapStep, PTL DEF Spec

-------------------------------------------------------------------------------
(* Waiting for a connection.                                               *)

\* In acquire mode "wait" the pool has a connection more than there are sessions; the other
\* modes need nothing.  What the model can open is no limit.
OneToSpare ==
  /\ IsFiniteSet(Sessions) /\ Cardinality(Conns) > Cardinality(Sessions)
  /\ \A o \in OptionChoices : o.mode = "wait" => o.max > Cardinality(Sessions)

\* Only Acquire in mode "wait" waits, and a session that waits there has no connection but
\* that of its transaction.
WaitInv == \A s \in Sessions : Waiting(s) => options.mode = "wait" /\ NoExtras(s)

LEMMA WaitStep ==
  ASSUME TypeOK, PoolInv, WaitInv, [Next]_vars
  PROVE  WaitInv'
<1> USE DEF TypeOK, PoolInv, WaitInv, Waiting, NoExtras, Hand
<1>1. options' = options
  BY OptionsFixed
<1>2. ASSUME NEW s \in Sessions, NEW c \in Conns, Take(s, c)
      PROVE  WaitInv'
  <2>1. CASE StartTransaction(s, c) \/ StalenessConnection(s, c)
    BY <1>1, <2>1 DEF StartTransaction, StalenessConnection
  <2>2. ASSUME NEW forced, ScanConnect(s, c, forced)
        PROVE  WaitInv'
    BY <1>1, <2>2 DEF ScanConnect
  <2> QED
    BY <1>2, <2>1, <2>2 DEF Take, ScanConnection, StreamConnection
<1>3. ASSUME NEW s \in Sessions, NEW c \in Conns, Execute(s, c)
      PROVE  WaitInv'
  BY <1>1, <1>3 DEF Execute, Statement, StatementFails, PrepareFails, StatementLost,
                    StatementWithoutTransaction, Aborted
<1>4. ASSUME NEW s \in Sessions, NEW c \in Conns, End(s, c)
      PROVE  WaitInv'
  BY <1>1, <1>4, EndGivesBack DEF Return, Destroy
<1>5. ASSUME NEW s \in Sessions, NEW c \in Conns, ReleaseExtra(s, c)
      PROVE  WaitInv'
  BY <1>1, <1>5 DEF ReleaseExtra
<1>6. ASSUME NEW s \in Sessions, Wait(s) \/ AcquireTimeout(s) \/ WithoutTransactionRefused(s)
      PROVE  WaitInv'
  <2>1. UNCHANGED <<place, owner>> /\ \A u \in Sessions : u # s => pc'[u] = pc[u]
    BY <1>6 DEF Wait, WaitForConnection, WaitForExtra, AcquireTimeout, WithoutTransactionRefused
  <2>2. Waiting(s)' => options.mode = "wait" /\ NoExtras(s)
    <3>1. CASE Wait(s)
      <4>1. pc[s] = "idle" => NoExtras(s)
        BY DEF NoConnectionLeaked
      <4> QED
        BY <3>1, <4>1 DEF Wait, WaitForConnection, WaitForExtra
    <3>2. CASE AcquireTimeout(s) \/ WithoutTransactionRefused(s)
      BY <3>2 DEF AcquireTimeout, WithoutTransactionRefused
    <3> QED
      BY <1>6, <3>1, <3>2
  <2> QED
    BY <1>1, <2>1, <2>2
<1>7. ASSUME NEW c \in Conns, ReturnClosed(c) \/ ReturnCached(c) \/ Reap(c) \/ Kill(c)
      PROVE  WaitInv'
  BY <1>1, <1>7 DEF ReturnClosed, ReturnCached, Reap, Kill, Close
<1>8. CASE UNCHANGED vars
  BY <1>8 DEF vars
<1> QED
  BY <1>2, <1>3, <1>4, <1>5, <1>6, <1>7, <1>8 DEF Next

\* If waiting sessions hold all connections that are open, there is one for each at most.
LEMMA HeldByWaiting ==
  ASSUME OneToSpare, PoolInv, WaitInv,
         \A c \in OpenConns : owner[c] # NoSession /\ pc[owner[c]] # "open"
  PROVE  IsFiniteSet(OpenConns) /\ Cardinality(OpenConns) <= Cardinality(Sessions)
<1> DEFINE holder == [c \in OpenConns |-> owner[c]]
<1>1. ASSUME NEW c \in OpenConns
      PROVE  owner[c] \in Sessions /\ Mine(c, owner[c])
  <2>1. owner[c] \in Sessions /\ place[c] \in {"tx", "extra"}
    BY <1>1 DEF PoolInv, OpenConns
  <2>2. pc[owner[c]] # "idle"
    BY <2>1, <1>1 DEF PoolInv, NoConnectionLeaked, OpenConns
  <2>3. NoExtras(owner[c])
    BY <2>1, <2>2, <1>1 DEF PoolInv, WaitInv, Waiting
  <2> QED
    BY <2>1, <2>3 DEF NoExtras, Mine, OpenConns
<1>2. ASSUME NEW c \in OpenConns, NEW d \in OpenConns, owner[c] = owner[d]
      PROVE  c = d
  BY <1>1, <1>2 DEF PoolInv, NoConnectionLeaked, OpenConns, Mine
<1>3. holder \in Injection(OpenConns, Sessions)
  BY <1>1, <1>2 DEF Injection, IsInjective
<1> QED
  BY <1>3, FS_Injection DEF OneToSpare

\* "cap and wait instead" (README.md, Connection Pooling) ends for any number of sessions, if
\* pg_pool_max_connections exceeds it: of those who wait, in the constructor of
\* PostgresTransaction or in RunStalenessQuery, somebody waits for a session that does not.
THEOREM NoWaitCycleTheorem ==
  ASSUME OneToSpare
  PROVE  Spec => []NoWaitCycle
<1>1. Init => WaitInv
  BY DEF Init, WaitInv, Waiting
<1>2. ASSUME TypeOK, PoolInv, WaitInv
      PROVE  NoWaitCycle
  <2> SUFFICES ASSUME NEW s \in Sessions, Waiting(s), Exhausted(FALSE),
                      \A c \in OpenConns : owner[c] # NoSession /\ pc[owner[c]] # "open"
               PROVE  FALSE
    BY DEF NoWaitCycle
  <2>1. IsFiniteSet(OpenConns) /\ Cardinality(OpenConns) <= Cardinality(Sessions)
    BY <1>2, HeldByWaiting
  <2>2. options.max \in Nat /\ options.max > Cardinality(Sessions)
    BY <1>2, TransactionAssumption DEF WaitInv, TypeOK, OneToSpare, Options
  <2>3. /\ Cardinality(OpenConns) \in Nat /\ Cardinality(Conns) \in Nat
        /\ Cardinality(Sessions) \in Nat
    BY <2>1, FS_CardinalityType, TransactionAssumption DEF OneToSpare
  <2>4. PICK c \in Conns : c \notin OpenConns
    <3>1. OpenConns # Conns
      BY <2>1, <2>3 DEF OneToSpare
    <3> QED
      BY <3>1 DEF OpenConns
  <2>5. Obtain(c, FALSE)
    BY <2>1, <2>2, <2>3, <2>4 DEF Exhausted, Obtain, OpenConns
  <2> QED
    BY <2>5 DEF Exhausted
<1> QED
  BY <1>1, <1>2, WaitStep, PoolInit, PoolStep, TypeInit, TypeStep, PTL DEF Spec
===============================================================================

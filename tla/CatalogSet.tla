------------------------------ MODULE CatalogSet ------------------------------
(***************************************************************************)
(* PostgresCatalogSet: the cache of the tables of one attached schema,     *)
(* shared by all DuckDB sessions, with its load lock, its reload of single *)
(* entries and its staleness signature.                                    *)
(*                                                                         *)
(* A definition is the stamp of the DDL statement that made it (what oid   *)
(* and xmin tell the staleness query), 0 where there is no table.  A remote*)
(* catalog, the cache and a signature are all functions from names to      *)
(* stamps.  Every session runs one remote transaction at a time, whose own *)
(* DDL the others do not see before COMMIT.  One session can stand for any *)
(* DuckDB ClientContext; a call is a statement's use of the set.           *)
(***************************************************************************)
EXTENDS Integers, Sequences, FiniteSets

CONSTANTS
  Sessions,
  Names,            \* spellings of table names
  Fold,             \* Fold[n]: the case-folded name, the key of entry_map
  Ops,              \* calls the sessions make
  StalenessEnabled, \* the sessions whose GetStalenessQuery() is not empty, by their settings
  RepeatableRead,   \* isolation of the remote transactions, else READ COMMITTED
  Sliced,           \* loading the schemas left a PostgresResultSlice in the set
  ChangesDuringCalls, \* other clients' DDL may commit while a session is in a call
  ExternalDrops,    \* other clients also drop tables
  OverlappingCalls, \* sessions may be in calls at the same time
  PoolMayFail,      \* acquiring a pooled connection may throw
  MaxStamp,         \* bound: DDL statements
  MaxPending        \* bound: signatures staged by one transaction

NoSession == "no_session"
NoName    == "no_name"
NoChange  == -1

ASSUME SetAssumption ==
  /\ NoSession \notin Sessions /\ NoName \notin Names
  /\ Fold \in [Names -> Names]
  /\ Ops \subseteq {"lookup", "scan", "create", "drop", "alter", "view"}
  /\ StalenessEnabled \subseteq Sessions
  /\ {RepeatableRead, Sliced, ChangesDuringCalls,
      ExternalDrops, OverlappingCalls, PoolMayFail} \subseteq BOOLEAN
  /\ MaxStamp \in Nat \ {0} /\ MaxPending \in Nat \ {0}

VARIABLES
  remote,        \* committed definitions on the server
  nextStamp,     \* stamp of the next DDL statement
  undone,        \* stamps of DDL that was rolled back
  own,           \* own[s]: uncommitted definitions of s's remote transaction
  snap,          \* snap[s]: its REPEATABLE READ snapshot
  tx,            \* tx[s]: PostgresTransactionState, "not_yet_started" or "started"
  entries,       \* entries
  entryMap,      \* entry_map
  loaded,        \* is_loaded
  sig,           \* staleness_signature
  slice,         \* table_result: the slice LoadEntries consumes, or NoSlice
  loadLock,      \* load_lock
  loadingThread, \* loading_thread
  pending,       \* pending[s]: pending_signatures of the transaction
  pc,            \* where the session is
  call,          \* its call, [op, name]
  chk,           \* signature read outside the lock by TryLoadEntries
  buf,           \* rows LoadEntries has read and not inserted yet
  ret,           \* definitions the call returned
  quiet          \* no DDL has committed since the session's call began

serverVars == <<remote, nextStamp, undone>>
txVars     == <<own, snap, tx, pending>>
cacheVars  == <<entries, entryMap, loaded, slice>>
lockVars   == <<loadLock, loadingThread>>
callVars   == <<call, chk, buf, ret>>
vars == <<serverVars, txVars, cacheVars, sig, lockVars, pc, callVars, quiet>>

Stamps  == 0 .. MaxStamp
Defs    == [Names -> Stamps]
NoDefs  == [n \in Names |-> 0]
NoSlice == [n \in Names |-> NoChange]
NoCall  == [op |-> "none", name |-> NoName]
NoOwn   == [n \in Names |-> NoChange]

Overlay(base, changes) ==
  [n \in Names |-> IF changes[n] = NoChange THEN base[n] ELSE changes[n]]

\* What a query of the session's transaction returns, and what its DDL is applied to.
View(s)   == Overlay(IF RepeatableRead /\ tx[s] = "started" THEN snap[s] ELSE remote, own[s])
Latest(s) == Overlay(remote, own[s])

\* PostgresTransaction::Query: the first one begins the remote transaction.
Begin(s) ==
  /\ tx' = [tx EXCEPT ![s] = "started"]
  /\ snap' = IF tx[s] = "started" \/ ~RepeatableRead THEN snap ELSE [snap EXCEPT ![s] = remote]

Goto(s, label) == pc' = [pc EXCEPT ![s] = label]

Return(s, defs) ==
  /\ Goto(s, "returned")
  /\ ret' = [ret EXCEPT ![s] = defs]

Unlocked(s) == IF loadLock = s THEN NoSession ELSE loadLock

Only(n, stamp) == [m \in Names |-> IF m = n THEN stamp ELSE 0]

Init ==
  /\ remote \in [Names -> {0, 1}]
  /\ nextStamp = 2
  /\ undone = {}
  /\ own = [s \in Sessions |-> NoOwn]
  /\ snap = [s \in Sessions |-> NoDefs]
  /\ tx = [s \in Sessions |-> "not_yet_started"]
  /\ pending = [s \in Sessions |-> <<>>]
  /\ entries = NoDefs
  /\ entryMap = [n \in Names |-> NoName]
  \* a set made without a slice (CREATE SCHEMA) counts as loaded
  /\ IF Sliced THEN loaded = FALSE /\ slice = remote
     ELSE loaded \in (IF remote = NoDefs THEN BOOLEAN ELSE {FALSE}) /\ slice = NoSlice
  /\ sig = NoDefs
  /\ loadLock = NoSession
  /\ loadingThread = NoSession
  /\ pc = [s \in Sessions |-> "idle"]
  /\ call = [s \in Sessions |-> NoCall]
  /\ chk = [s \in Sessions |-> NoDefs]
  /\ buf = [s \in Sessions |-> NoDefs]
  /\ ret = [s \in Sessions |-> NoDefs]
  /\ quiet = [s \in Sessions |-> TRUE]

-------------------------------------------------------------------------------
(* Operations on the maps, each under entry_lock.                          *)

\* CreateEntry: unordered_map::insert leaves an existing key alone.
CreateEntry(n, stamp) ==
  /\ entries' = IF entries[n] = 0 THEN [entries EXCEPT ![n] = stamp] ELSE entries
  /\ entryMap' = IF entryMap[Fold[n]] = NoName
                 THEN [entryMap EXCEPT ![Fold[n]] = n] ELSE entryMap

ClearEntries ==
  /\ entries' = NoDefs
  /\ entryMap' = [n \in Names |-> NoName]
  /\ loaded' = FALSE

\* The name under which GetEntry finds an entry for n, or NoName.
Found(n) ==
  LET other == entryMap[Fold[n]]
  IN IF entries[n] # 0 THEN n
     ELSE IF other # NoName /\ entries[other] # 0 THEN other
     ELSE NoName

\* Mutant: the signature takes effect at once, as outside a transaction.
RefreshUnstaged(s, signature) ==
  IF s \notin StalenessEnabled THEN UNCHANGED <<pending, sig>>
  ELSE sig' = signature /\ UNCHANGED pending

\* RefreshStalenessSignature: staged while the remote transaction is open.
RefreshStalenessSignature(s, signature) ==
  IF s \notin StalenessEnabled THEN UNCHANGED <<pending, sig>>
  ELSE IF tx[s] = "started"
  THEN /\ pending' = [pending EXCEPT ![s] = Append(@, signature)]
       /\ UNCHANGED sig
  ELSE sig' = signature /\ UNCHANGED pending

-------------------------------------------------------------------------------
(* Calls.                                                                  *)

\* One call stages at most a load, a reload and a DDL signature.
MaxStagedByCall == 3

Call(s) ==
  /\ pc[s] = "idle"
  /\ OverlappingCalls \/ \A u \in Sessions : pc[u] = "idle"
  /\ Len(pending[s]) + MaxStagedByCall <= MaxPending
  /\ \E op \in Ops \ {"clear"}, n \in Names :
       /\ op = "scan" => n = CHOOSE m \in Names : TRUE
       /\ op \in {"create", "drop", "alter", "view"} => nextStamp <= MaxStamp
       /\ call' = [call EXCEPT ![s] = [op |-> op, name |-> n]]
       /\ Goto(s, IF op \in {"create", "view"} THEN "ddl" ELSE "try")
  /\ UNCHANGED <<serverVars, txVars, cacheVars, sig, lockVars, chk, buf, ret, quiet>>

CallEnds(s) ==
  /\ pc[s] = "returned"
  /\ Goto(s, "idle")
  /\ call' = [call EXCEPT ![s] = NoCall]
  /\ ret' = [ret EXCEPT ![s] = NoDefs]
  /\ quiet' = [quiet EXCEPT ![s] = TRUE]
  /\ UNCHANGED <<serverVars, txVars, cacheVars, sig, lockVars, chk, buf>>

\* TryLoadEntries up to the lock.  A fresh set, or one that was cleared, waits for it.
TryUnloaded(s) ==
  /\ pc[s] = "try" /\ ~loaded
  /\ Goto(s, "wait")
  /\ UNCHANGED <<serverVars, txVars, cacheVars, sig, lockVars, callVars, quiet>>

TryUnchecked(s) ==
  /\ pc[s] = "try" /\ loaded /\ s \notin StalenessEnabled
  /\ Goto(s, "find")
  /\ UNCHANGED <<serverVars, txVars, cacheVars, sig, lockVars, callVars, quiet>>

\* RunStalenessQuery on a pooled connection, outside load_lock.
TryChecked(s) ==
  /\ pc[s] = "try" /\ loaded /\ s \in StalenessEnabled
  /\ chk' = [chk EXCEPT ![s] = remote]
  /\ Goto(s, "check")
  /\ UNCHANGED <<serverVars, txVars, cacheVars, sig, lockVars, call, buf, ret, quiet>>

StillCurrent(s) ==
  /\ pc[s] = "check" /\ loadLock = NoSession
  /\ loaded /\ chk[s] = sig
  /\ chk' = [chk EXCEPT ![s] = NoDefs]
  /\ Goto(s, "find")
  /\ UNCHANGED <<serverVars, txVars, cacheVars, sig, lockVars, call, buf, ret, quiet>>

TakeLoadLock(s) ==
  /\ loadLock = NoSession
  /\ loadLock' = s
  /\ loadingThread' = s
  /\ chk' = [chk EXCEPT ![s] = NoDefs]
  /\ Goto(s, "load")
  /\ UNCHANGED <<serverVars, txVars, sig, call, buf, ret, quiet>>

\* Mutant: a stale set is loaded again without being cleared.
StaleKeepsEntries(s) ==
  /\ pc[s] = "check" /\ ~(loaded /\ chk[s] = sig)
  /\ UNCHANGED cacheVars
  /\ TakeLoadLock(s)

\* The signature changed: clear and load.  If somebody else cleared the set during the
\* check, only load.
Stale(s) ==
  /\ pc[s] = "check" /\ ~(loaded /\ chk[s] = sig)
  /\ IF loaded THEN ClearEntries /\ UNCHANGED slice ELSE UNCHANGED cacheVars
  /\ TakeLoadLock(s)

LoadedMeanwhile(s) ==
  /\ pc[s] = "wait" /\ loadLock = NoSession /\ loaded
  /\ Goto(s, "find")
  /\ UNCHANGED <<serverVars, txVars, cacheVars, sig, lockVars, callVars, quiet>>

LockToLoad(s) ==
  /\ pc[s] = "wait" /\ ~loaded
  /\ TakeLoadLock(s)
  /\ UNCHANGED cacheVars

\* Mutant: the slice is read without a check.
LoadSliceUnchecked(s) ==
  /\ pc[s] = "load"
  /\ buf' = [buf EXCEPT ![s] = slice]
  /\ slice' = NoSlice
  /\ Goto(s, "insert")
  /\ UNCHANGED <<serverVars, txVars, entries, entryMap, loaded, sig, lockVars, call, chk, ret,
                 quiet>>

\* LoadEntries reads the slice of the schemas' query once, later the session's view.
LoadSlice(s) ==
  /\ pc[s] = "load" /\ slice # NoSlice
  /\ buf' = [buf EXCEPT ![s] = slice]
  /\ slice' = NoSlice
  /\ Goto(s, "insert")
  /\ UNCHANGED <<serverVars, txVars, entries, entryMap, loaded, sig, lockVars, call, chk, ret,
                 quiet>>

LoadQuery(s) ==
  /\ pc[s] = "load" /\ slice = NoSlice
  /\ buf' = [buf EXCEPT ![s] = View(s)]
  /\ Begin(s)
  /\ Goto(s, "insert")
  /\ UNCHANGED <<serverVars, own, pending, cacheVars, sig, lockVars, call, chk, ret, quiet>>

InsertLoaded(s) ==
  /\ pc[s] = "insert"
  /\ \E n \in Names :
       /\ buf[s][n] # 0
       /\ CreateEntry(n, buf[s][n])
       /\ buf' = [buf EXCEPT ![s][n] = 0]
  /\ UNCHANGED <<serverVars, txVars, loaded, slice, sig, lockVars, pc, call, chk, ret, quiet>>

\* The end of LoadEntriesLocked: a fresh signature on a pooled connection.
FinishLoad(s) ==
  /\ pc[s] = "insert" /\ buf[s] = NoDefs
  /\ RefreshStalenessSignature(s, remote)
  /\ loaded' = TRUE
  /\ loadLock' = NoSession
  /\ loadingThread' = NoSession
  /\ Goto(s, "find")
  /\ UNCHANGED <<serverVars, own, snap, tx, entries, entryMap, slice, callVars, quiet>>

\* Mutant: load_lock is not released on the way out.
PoolThrowsLocked(s) ==
  /\ PoolMayFail /\ s \in StalenessEnabled
  /\ \/ pc[s] = "try" /\ loaded
     \/ pc[s] = "insert" /\ buf[s] = NoDefs
     \/ pc[s] = "resign"
  /\ Return(s, NoDefs)
  /\ call' = [call EXCEPT ![s].op = "failed"]
  /\ buf' = [buf EXCEPT ![s] = NoDefs]
  /\ UNCHANGED <<serverVars, txVars, cacheVars, sig, lockVars, chk, quiet>>

\* The pooled connection of a staleness query cannot be had: the call throws.  At the
\* end of a load nothing resets loading_thread, and the new entries stay.
PoolThrows(s) ==
  /\ PoolMayFail /\ s \in StalenessEnabled
  /\ \/ pc[s] = "try" /\ loaded
     \/ pc[s] = "insert" /\ buf[s] = NoDefs
     \/ pc[s] = "resign"
  /\ loadLock' = Unlocked(s)
  /\ Return(s, NoDefs)
  /\ call' = [call EXCEPT ![s].op = "failed"]
  /\ buf' = [buf EXCEPT ![s] = NoDefs]
  /\ UNCHANGED <<serverVars, txVars, cacheVars, sig, loadingThread, chk, quiet>>

-------------------------------------------------------------------------------
(* GetEntry and Scan once the set is loaded.                               *)

ScanEntries(s) ==
  /\ pc[s] = "find" /\ call[s].op = "scan"
  /\ Return(s, entries)
  /\ UNCHANGED <<serverVars, txVars, cacheVars, sig, lockVars, call, chk, buf, quiet>>

\* The entry goes to the caller, or names the table an ALTER or DROP is about.
Answer(s, defs) ==
  IF call[s].op \in {"lookup", "view"} THEN Return(s, defs)
  ELSE IF defs = NoDefs
  THEN /\ Goto(s, "returned")
       /\ UNCHANGED ret
  ELSE Goto(s, "ddl") /\ UNCHANGED ret

\* Mutant: a miss is final.
FindEntryNoReload(s) ==
  /\ pc[s] = "find" /\ call[s].op # "scan"
  /\ LET found == Found(call[s].name)
     IN Answer(s, IF found # NoName THEN Only(found, entries[found]) ELSE NoDefs)
  /\ UNCHANGED <<serverVars, txVars, cacheVars, sig, lockVars, call, chk, buf, quiet>>

FindEntry(s) ==
  /\ pc[s] = "find" /\ call[s].op # "scan"
  /\ LET found == Found(call[s].name)
     IN /\ IF found # NoName
           THEN Answer(s, Only(found, entries[found]))
           ELSE Goto(s, "reload_wait") /\ UNCHANGED ret
        \* ALTER TABLE is written with the entry's own spelling
        /\ call' = IF call[s].op = "alter" /\ found # NoName
                   THEN [call EXCEPT ![s].name = found] ELSE call
  /\ UNCHANGED <<serverVars, txVars, cacheVars, sig, lockVars, chk, buf, quiet>>

LockToReload(s) ==
  /\ pc[s] = "reload_wait" /\ loadLock = NoSession
  /\ loadLock' = s
  /\ Goto(s, "reload")
  /\ UNCHANGED <<serverVars, txVars, cacheVars, sig, loadingThread, callVars, quiet>>

\* PostgresTableSet::ReloadEntry, for GetEntry with load_lock, for CREATE VIEW without.
ReloadNothing(s) ==
  /\ pc[s] = "reload" /\ View(s)[call[s].name] = 0
  /\ Begin(s)
  /\ loadLock' = Unlocked(s)
  /\ Answer(s, NoDefs)
  /\ UNCHANGED <<serverVars, own, pending, cacheVars, sig, loadingThread, call, chk, buf, quiet>>

ReloadEntry(s) ==
  /\ pc[s] = "reload" /\ View(s)[call[s].name] # 0
  /\ Begin(s)
  /\ CreateEntry(call[s].name, View(s)[call[s].name])
  /\ buf' = [buf EXCEPT ![s] = Only(call[s].name, View(s)[call[s].name])]
  /\ Goto(s, "resign")
  /\ UNCHANGED <<serverVars, own, pending, loaded, slice, sig, lockVars, call, chk, ret, quiet>>

FinishReload(s) ==
  /\ pc[s] = "resign"
  /\ RefreshStalenessSignature(s, remote)
  /\ loadLock' = Unlocked(s)
  /\ Answer(s, buf[s])
  /\ buf' = [buf EXCEPT ![s] = NoDefs]
  /\ UNCHANGED <<serverVars, own, snap, tx, cacheVars, loadingThread, call, chk, quiet>>

-------------------------------------------------------------------------------
(* DDL of the session.                                                     *)

\* The server locks a name until the transaction that changed it ends.
FreeFor(s, n) == \A u \in Sessions \ {s} : own[u][n] = NoChange

Ddl(s) ==
  /\ pc[s] = "ddl"
  /\ LET n == call[s].name
         creates == call[s].op \in {"create", "view"}
     IN /\ FreeFor(s, n)
        /\ creates <=> Latest(s)[n] = 0
        /\ IF call[s].op = "drop"
           THEN /\ own' = [own EXCEPT ![s][n] = 0]
                /\ UNCHANGED nextStamp
           ELSE /\ nextStamp <= MaxStamp
                /\ own' = [own EXCEPT ![s][n] = nextStamp]
                /\ nextStamp' = nextStamp + 1
  /\ Begin(s)
  /\ Goto(s, IF call[s].op = "view" THEN "reload" ELSE "apply")
  /\ UNCHANGED <<remote, undone, pending, cacheVars, sig, lockVars, callVars, quiet>>

\* What a rolled back or failed transaction leaves: nothing on the server, no signatures.
Discard(s) ==
  /\ undone' = undone \cup {own[s][n] : n \in {m \in Names : own[s][m] > 0}}
  /\ own' = [own EXCEPT ![s] = NoOwn]
  /\ tx' = [tx EXCEPT ![s] = "not_yet_started"]
  /\ snap' = [snap EXCEPT ![s] = NoDefs]
  /\ pending' = [pending EXCEPT ![s] = <<>>]

\* The server rejects the statement (no such table, or it exists): the statement's
\* exception ends in a rollback.
DdlFails(s) ==
  /\ pc[s] = "ddl"
  /\ FreeFor(s, call[s].name)
  /\ ~(call[s].op \in {"create", "view"} <=> Latest(s)[call[s].name] = 0)
  /\ Discard(s)
  /\ Goto(s, "returned")
  /\ UNCHANGED <<remote, nextStamp, cacheVars, sig, lockVars, callVars, quiet>>

\* CreateTable and DropEntry change the maps without load_lock, then stage a signature
\* read on the transaction's own connection; AlterTable clears the set.
ApplyCreate(s) ==
  /\ pc[s] = "apply" /\ call[s].op = "create"
  /\ CreateEntry(call[s].name, own[s][call[s].name])
  /\ Goto(s, "restage")
  /\ UNCHANGED <<serverVars, txVars, loaded, slice, sig, lockVars, callVars, quiet>>

ApplyDrop(s) ==
  /\ pc[s] = "apply" /\ call[s].op = "drop"
  /\ entries' = [entries EXCEPT ![call[s].name] = 0]
  /\ Goto(s, "restage")
  /\ UNCHANGED <<serverVars, txVars, entryMap, loaded, slice, sig, lockVars, callVars, quiet>>

Restage(s) ==
  /\ pc[s] = "restage"
  /\ RefreshStalenessSignature(s, View(s))
  /\ Goto(s, "returned")
  /\ UNCHANGED <<serverVars, own, snap, tx, cacheVars, lockVars, callVars, quiet>>

\* Mutant: the set is not cleared.
ApplyAlterKeeps(s) ==
  /\ pc[s] = "apply" /\ call[s].op = "alter"
  /\ Goto(s, "returned")
  /\ UNCHANGED <<serverVars, txVars, cacheVars, sig, lockVars, callVars, quiet>>

ApplyAlter(s) ==
  /\ pc[s] = "apply" /\ call[s].op = "alter"
  /\ ClearEntries
  /\ Goto(s, "returned")
  /\ UNCHANGED <<serverVars, txVars, slice, sig, lockVars, callVars, quiet>>

-------------------------------------------------------------------------------
(* The end of the session's transaction, and other clients.                *)

RemoteChanges(new) ==
  /\ remote' = new
  /\ quiet' = [s \in Sessions |-> pc[s] = "idle" \/ (quiet[s] /\ new = remote)]

Commit(s) ==
  /\ pc[s] = "idle" /\ tx[s] = "started"
  /\ OverlappingCalls \/ \A u \in Sessions : pc[u] = "idle"
  /\ RemoteChanges(Latest(s))
  /\ own' = [own EXCEPT ![s] = NoOwn]
  /\ tx' = [tx EXCEPT ![s] = "not_yet_started"]
  /\ snap' = [snap EXCEPT ![s] = NoDefs]
  /\ Goto(s, "promote")
  /\ UNCHANGED <<nextStamp, undone, pending, cacheVars, sig, lockVars, callVars>>

\* Mutant: promotion does not take load_lock.
PromoteUnlocked(s) ==
  /\ pc[s] = "promote" /\ pending[s] # <<>>
  /\ sig' = Head(pending[s])
  /\ pending' = [pending EXCEPT ![s] = Tail(@)]
  /\ UNCHANGED <<serverVars, own, snap, tx, cacheVars, lockVars, pc, callVars, quiet>>

\* PromoteStalenessSignature, once per staged signature, each under load_lock.
Promote(s) ==
  /\ pc[s] = "promote" /\ pending[s] # <<>>
  /\ loadLock = NoSession
  /\ sig' = Head(pending[s])
  /\ pending' = [pending EXCEPT ![s] = Tail(@)]
  /\ UNCHANGED <<serverVars, own, snap, tx, cacheVars, lockVars, pc, callVars, quiet>>

CommitEnds(s) ==
  /\ pc[s] = "promote" /\ pending[s] = <<>>
  /\ Goto(s, "idle")
  /\ UNCHANGED <<serverVars, txVars, cacheVars, sig, lockVars, callVars, quiet>>

Rollback(s) ==
  /\ pc[s] = "idle" /\ tx[s] = "started"
  /\ Discard(s)
  /\ UNCHANGED <<remote, nextStamp, cacheVars, sig, lockVars, pc, callVars, quiet>>

\* Another client creates, replaces or drops a table.
ExternalDdl ==
  /\ nextStamp <= MaxStamp
  /\ ChangesDuringCalls \/ \A s \in Sessions : pc[s] = "idle"
  /\ \E n \in Names, stamp \in {nextStamp} \cup (IF ExternalDrops THEN {0} ELSE {}) :
       /\ \A s \in Sessions : own[s][n] = NoChange
       /\ remote[n] # stamp
       /\ RemoteChanges([remote EXCEPT ![n] = stamp])
  /\ nextStamp' = nextStamp + 1
  /\ UNCHANGED <<undone, txVars, cacheVars, sig, lockVars, pc, callVars>>

-------------------------------------------------------------------------------
Load(s) ==
  LoadSlice(s) \/ LoadQuery(s) \/ InsertLoaded(s) \/ FinishLoad(s)

TryLoadEntries(s) ==
  TryUnloaded(s) \/ TryUnchecked(s) \/ TryChecked(s) \/ StillCurrent(s) \/ Stale(s)
  \/ LoadedMeanwhile(s) \/ LockToLoad(s) \/ Load(s)

Reload(s) == LockToReload(s) \/ ReloadNothing(s) \/ ReloadEntry(s) \/ FinishReload(s)

Change(s) ==
  Ddl(s) \/ DdlFails(s) \/ ApplyCreate(s) \/ ApplyDrop(s) \/ Restage(s) \/ ApplyAlter(s)

Progress(s) ==
  TryLoadEntries(s) \/ ScanEntries(s) \/ FindEntry(s) \/ Reload(s) \/ Change(s)
  \/ Promote(s) \/ CommitEnds(s) \/ CallEnds(s) \/ PoolThrows(s)

Next ==
  \/ \E s \in Sessions : Call(s) \/ Progress(s) \/ Commit(s) \/ Rollback(s)
  \/ ExternalDdl

\* A thread inside a call keeps running; nobody has to make a call, commit or change
\* the server.
Fairness == \A s \in Sessions : WF_vars(Progress(s))

Spec == Init /\ [][Next]_vars /\ Fairness
-------------------------------------------------------------------------------
(* Properties.                                                             *)

\* Type invariant of the set, the sessions and the server.
TypeOK ==
  /\ remote \in Defs /\ nextStamp \in 1 .. MaxStamp + 1 /\ undone \subseteq Stamps
  /\ own \in [Sessions -> [Names -> Stamps \cup {NoChange}]]
  /\ snap \in [Sessions -> Defs]
  /\ tx \in [Sessions -> {"not_yet_started", "started"}]
  /\ pending \in [Sessions -> Seq(Defs)]
  /\ \A s \in Sessions : Len(pending[s]) <= MaxPending
  /\ entries \in Defs /\ entryMap \in [Names -> Names \cup {NoName}]
  /\ loaded \in BOOLEAN /\ sig \in Defs /\ slice \in Defs \cup {NoSlice}
  /\ loadLock \in Sessions \cup {NoSession} /\ loadingThread \in Sessions \cup {NoSession}
  /\ pc \in [Sessions -> {"idle", "try", "check", "wait", "load", "insert", "find",
                          "reload_wait", "reload", "resign", "ddl", "apply", "restage",
                          "returned", "promote"}]
  /\ call \in [Sessions -> [op : Ops \cup {"none", "failed"}, name : Names \cup {NoName}]]
  /\ chk \in [Sessions -> Defs] /\ buf \in [Sessions -> Defs] /\ ret \in [Sessions -> Defs]
  /\ quiet \in [Sessions -> BOOLEAN]

Returns(s, op) == pc[s] = "returned" /\ call[s].op = op

\* A lookup never misses a table that was in the session's own view of the server from
\* the call's first step to its last, whatever the other sessions load, clear, reload,
\* drop or roll back meanwhile.
LookupFindsStable ==
  \A s \in Sessions :
    Returns(s, "lookup") /\ quiet[s] /\ View(s)[call[s].name] # 0 => ret[s] # NoDefs

\* A scan that no commit overlaps lists what the server has: "DDL from a separate
\* ClientContext must become visible without an explicit pg_clear_cache() call"
\* (catalog_cache_external_ddl_visibility.test).
ScanIsCurrent ==
  \A s \in Sessions :
    Returns(s, "scan") /\ quiet[s] /\ View(s) = remote => ret[s] = remote

\* A transaction sees the definitions its own DDL made.
OwnDdlVisible ==
  \A s \in Sessions :
    Returns(s, "lookup") /\ quiet[s] /\ own[s][call[s].name] > 0
      => ret[s][call[s].name] = own[s][call[s].name]

\* A definition that was rolled back is not handed out by a later call.
RolledBackNotServed ==
  \A s \in Sessions, n \in Names :
    Returns(s, "lookup") /\ quiet[s] => ret[s][n] \notin undone

\* "only valid on commit, since xmin reverts on rollback" (RefreshStalenessSignature):
\* the signature in force never contains DDL that is open or was rolled back.
SignatureCommitted ==
  \A n \in Names :
    /\ sig[n] \notin undone
    /\ \A s \in Sessions : own[s][n] > 0 => sig[n] # own[s][n]

\* staleness_signature is a plain string read under load_lock: it is only written by
\* the holder of load_lock, or by a promotion while nobody holds it.
SignatureWrittenUnderLock ==
  [][sig' # sig => IF pc' = pc THEN loadLock = NoSession
                   ELSE \E s \in Sessions : pc'[s] # pc[s] /\ loadLock = s]_vars

\* Nobody keeps load_lock: loads and reloads end, also when they throw.
LoadLockReleased == \A s \in Sessions : loadLock = s ~> loadLock # s
===============================================================================

--------------------------- MODULE CatalogSetProofs ---------------------------
(***************************************************************************)
(* Proofs about CatalogSet for every number of sessions, names and DDL     *)
(* statements: who may hold load_lock, who may write the signature and     *)
(* what it may contain, and what a lookup never misses.                    *)
(***************************************************************************)
EXTENDS CatalogSet, TLAPS

USE DEF serverVars, txVars, cacheVars, lockVars, callVars

\* load_lock is held exactly inside a load, or a reload that GetEntry started; a session
\* that writes the signature without it has begun its remote transaction.
LockInv ==
  \A s \in Sessions :
    /\ pc[s] \in {"load", "insert"} => loadLock = s
    /\ pc[s] \in {"reload", "resign"} => loadLock = s \/ tx[s] = "started"
    /\ pc[s] \in {"apply", "restage"} => tx[s] = "started"
    /\ loadLock = s => pc[s] \in {"load", "insert", "reload", "resign"}

Labels == {"idle", "try", "check", "wait", "load", "insert", "find", "reload_wait", "reload",
           "resign", "ddl", "apply", "restage", "returned", "promote"}

ControlOK ==
  /\ pc \in [Sessions -> Labels]
  /\ tx \in [Sessions -> {"not_yet_started", "started"}]

LockControl == ControlOK /\ LockInv

LEMMA LockInit == Init => LockControl
BY SetAssumption DEF Init, LockControl, ControlOK, LockInv, Labels

\* A step of s that ends at a label outside load_lock, and gives the lock back if s had it.
LEMMA StepOutside ==
  ASSUME LockControl, NEW s \in Sessions, NEW label \in Labels,
         Goto(s, label), UNCHANGED tx,
         loadLock' = Unlocked(s) \/ (loadLock # s /\ loadLock' = loadLock),
         label \notin {"load", "insert", "reload", "resign"},
         label \in {"apply", "restage"} => tx[s] = "started"
  PROVE  LockControl'
BY SetAssumption DEF LockControl, ControlOK, LockInv, Goto, Unlocked

LEMMA LockStep ==
  ASSUME LockControl, [Next]_vars
  PROVE  LockControl'
<1>1. ASSUME NEW s \in Sessions, TryLoadEntries(s)
      PROVE  LockControl'
  <2> USE DEF LockControl, ControlOK, LockInv, Goto, Labels
  <2>1. CASE TryUnloaded(s) \/ TryUnchecked(s) \/ TryChecked(s) \/ StillCurrent(s)
             \/ LoadedMeanwhile(s)
    BY <2>1 DEF TryUnloaded, TryUnchecked, TryChecked, StillCurrent, LoadedMeanwhile
  <2>2. ASSUME TakeLoadLock(s), pc[s] \in {"check", "wait"}
        PROVE  LockControl'
    BY <2>2, SetAssumption DEF TakeLoadLock
  <2>3. CASE Stale(s) \/ LockToLoad(s)
    BY <2>2, <2>3 DEF Stale, LockToLoad
  <2>4. CASE LoadSlice(s)
    BY <2>4 DEF LoadSlice
  <2>5. CASE LoadQuery(s)
    BY <2>5 DEF LoadQuery, Begin
  <2>6. CASE InsertLoaded(s)
    BY <2>6 DEF InsertLoaded
  <2>7. CASE FinishLoad(s)
    BY <2>7, SetAssumption DEF FinishLoad
  <2> QED
    BY <1>1, <2>1, <2>3, <2>4, <2>5, <2>6, <2>7 DEF TryLoadEntries, Load
<1>2. ASSUME NEW s \in Sessions, NEW defs, Answer(s, defs), UNCHANGED tx,
             loadLock' = Unlocked(s) \/ (loadLock # s /\ loadLock' = loadLock)
      PROVE  LockControl'
  <2>1. Goto(s, "returned") \/ Goto(s, "ddl")
    BY <1>2 DEF Answer, Return
  <2> QED
    BY <1>2, <2>1, StepOutside DEF Labels
<1>3. ASSUME NEW s \in Sessions, ScanEntries(s) \/ FindEntry(s)
      PROVE  LockControl'
  <2>1. loadLock # s /\ UNCHANGED tx /\ loadLock' = loadLock
    BY <1>3 DEF ScanEntries, FindEntry, LockControl, LockInv
  <2>2. (\E defs : Answer(s, defs)) \/ Goto(s, "returned") \/ Goto(s, "reload_wait")
    BY <1>3 DEF ScanEntries, FindEntry, Return
  <2> QED
    BY <1>2, <2>1, <2>2, StepOutside DEF Labels
<1>4. ASSUME NEW s \in Sessions, Reload(s)
      PROVE  LockControl'
  <2>1. CASE LockToReload(s)
    BY <2>1, SetAssumption DEF LockToReload, LockControl, ControlOK, LockInv, Goto, Labels
  <2>2. CASE ReloadNothing(s)
    <3>1. Goto(s, "returned") \/ Goto(s, "ddl")
      BY <2>2 DEF ReloadNothing, Answer, Return
    <3> QED
      BY <2>2, <3>1, SetAssumption
      DEF ReloadNothing, Begin, LockControl, ControlOK, LockInv, Goto, Labels, Unlocked
  <2>3. CASE ReloadEntry(s)
    BY <2>3 DEF ReloadEntry, Begin, LockControl, ControlOK, LockInv, Goto, Labels
  <2>4. CASE FinishReload(s)
    BY <1>2, <2>4 DEF FinishReload
  <2> QED
    BY <1>4, <2>1, <2>2, <2>3, <2>4 DEF Reload
<1>5. ASSUME NEW s \in Sessions, Change(s)
      PROVE  LockControl'
  <2> USE DEF LockControl, ControlOK, LockInv, Goto, Labels
  <2>1. CASE Ddl(s)
    BY <2>1 DEF Ddl, Begin
  <2>2. CASE DdlFails(s)
    BY <2>2 DEF DdlFails, Discard
  <2>3. CASE ApplyCreate(s) \/ ApplyDrop(s) \/ ApplyAlter(s)
    BY <2>3 DEF ApplyCreate, ApplyDrop, ApplyAlter
  <2>4. CASE Restage(s)
    BY <2>4 DEF Restage
  <2> QED
    BY <1>5, <2>1, <2>2, <2>3, <2>4 DEF Change
<1>6. ASSUME NEW s \in Sessions, PoolThrows(s)
      PROVE  LockControl'
  <2>1. Goto(s, "returned") /\ loadLock' = Unlocked(s) /\ UNCHANGED tx
    BY <1>6 DEF PoolThrows, Return
  <2> QED
    BY <2>1, StepOutside DEF Labels
<1>7. ASSUME NEW s \in Sessions,
             \/ Promote(s) \/ CommitEnds(s) \/ CallEnds(s) \/ Call(s) \/ Commit(s)
             \/ Rollback(s)
      PROVE  LockControl'
  <2> USE DEF LockControl, ControlOK, LockInv, Goto, Labels
  <2>1. CASE Promote(s)
    BY <2>1 DEF Promote
  <2>2. CASE CommitEnds(s) \/ CallEnds(s) \/ Commit(s)
    BY <2>2 DEF CommitEnds, CallEnds, Commit
  <2>3. CASE Call(s)
    <3>1. \E label \in {"ddl", "try"} : pc' = [pc EXCEPT ![s] = label]
      BY <2>3 DEF Call
    <3> QED
      BY <2>3, <3>1 DEF Call
  <2>4. CASE Rollback(s)
    BY <2>4 DEF Rollback, Discard
  <2> QED
    BY <1>7, <2>1, <2>2, <2>3, <2>4
<1>8. CASE ExternalDdl
  BY <1>8 DEF ExternalDdl, LockControl, ControlOK, LockInv
<1>9. CASE UNCHANGED vars
  BY <1>9 DEF vars, LockControl, ControlOK, LockInv
<1> QED
  BY <1>1, <1>3, <1>4, <1>5, <1>6, <1>7, <1>8, <1>9 DEF Next, Progress

LEMMA LockInvariant == Spec => []LockControl
BY LockInit, LockStep, PTL DEF Spec

-------------------------------------------------------------------------------
(* Types, and which call a session is in at each label.                    *)

ServerOK == remote \in Defs /\ nextStamp \in 1 .. MaxStamp + 1 /\ undone \subseteq Stamps

TxOK ==
  /\ own \in [Sessions -> [Names -> Stamps \cup {NoChange}]]
  /\ snap \in [Sessions -> Defs]
  /\ tx \in [Sessions -> {"not_yet_started", "started"}]
  /\ pending \in [Sessions -> Seq(Defs)]

CacheOK ==
  /\ entries \in Defs /\ entryMap \in [Names -> Names \cup {NoName}]
  /\ loaded \in BOOLEAN /\ sig \in Defs /\ slice \in Defs \cup {NoSlice}

LockOK == loadLock \in Sessions \cup {NoSession} /\ loadingThread \in Sessions \cup {NoSession}

CallOK ==
  /\ pc \in [Sessions -> Labels]
  /\ call \in [Sessions -> [op : Ops \cup {"none", "failed"}, name : Names \cup {NoName}]]
  /\ chk \in [Sessions -> Defs] /\ buf \in [Sessions -> Defs] /\ ret \in [Sessions -> Defs]
  /\ quiet \in [Sessions -> BOOLEAN]

\* Which call a session is in at each label.
CallAt(s) ==
  /\ pc[s] \notin {"idle", "promote", "returned"} => call[s].name \in Names
  /\ pc[s] \in {"try", "check", "wait", "load", "insert", "find"}
       => call[s].op \in {"lookup", "scan", "drop", "alter"}
  /\ pc[s] = "reload_wait" => call[s].op \in {"lookup", "drop", "alter"}
  /\ pc[s] \in {"reload", "resign"} => call[s].op \in {"lookup", "drop", "alter", "view"}
  /\ pc[s] = "ddl" => call[s].op \in {"create", "drop", "alter", "view"}
  /\ pc[s] \in {"apply", "restage"} => call[s].op \in {"create", "drop", "alter"}
  /\ pc[s] = "apply" /\ call[s].op = "create" => own[s][call[s].name] > 0
  /\ pc[s] = "resign" => buf[s] # NoDefs

\* The signatures that a call may still stage: one by a load, one by a reload, one by DDL.
StagedLater(s) ==
  CASE pc[s] \in {"try", "check", "wait", "load", "insert"} -> 3
    [] pc[s] \in {"find", "reload_wait"} -> 2
    [] pc[s] \in {"reload", "resign"} -> IF call[s].op = "view" THEN 1 ELSE 2
    [] pc[s] \in {"ddl", "apply", "restage"} -> 1
    [] OTHER -> 0

PendingAt(s) == Len(pending[s]) + StagedLater(s) <= MaxPending

ControlInv == \A s \in Sessions : CallAt(s) /\ PendingAt(s)

TypeInv == ServerOK /\ TxOK /\ CacheOK /\ LockOK /\ CallOK /\ ControlInv

LEMMA TypeInit == Init => TypeInv
<1> SUFFICES ASSUME Init PROVE TypeInv
  OBVIOUS
<1> USE SetAssumption DEF Init
<1>1. NoDefs \in Defs /\ remote \in Defs
  BY DEF NoDefs, Defs, Stamps
<1>2. ServerOK
  BY <1>1 DEF ServerOK
<1>3. TxOK
  BY <1>1 DEF TxOK, NoOwn
<1>4. CacheOK /\ LockOK
  BY <1>1 DEF CacheOK, LockOK
<1>5. CallOK
  BY <1>1 DEF CallOK, NoCall, Labels
<1>6. ControlInv
  BY DEF ControlInv, CallAt, PendingAt, StagedLater
<1> QED
  BY <1>2, <1>3, <1>4, <1>5, <1>6 DEF TypeInv

\* The definitions a session sees are a catalog.
LEMMA ViewType ==
  ASSUME ServerOK, TxOK, NEW s \in Sessions
  PROVE  View(s) \in Defs /\ Latest(s) \in Defs
BY DEF ServerOK, TxOK, View, Latest, Overlay, Defs

LEMMA OnlyType ==
  ASSUME NEW n, NEW stamp \in Stamps
  PROVE  Only(n, stamp) \in Defs /\ NoDefs \in Defs
BY SetAssumption DEF Only, NoDefs, Defs, Stamps

LEMMA BeginType ==
  ASSUME ServerOK, TxOK, NEW s \in Sessions, Begin(s)
  PROVE  /\ snap' \in [Sessions -> Defs]
         /\ tx' \in [Sessions -> {"not_yet_started", "started"}]
BY DEF ServerOK, TxOK, Begin

LEMMA CreateEntryType ==
  ASSUME CacheOK, NEW n \in Names, NEW stamp \in Stamps, CreateEntry(n, stamp)
  PROVE  entries' \in Defs /\ entryMap' \in [Names -> Names \cup {NoName}]
BY SetAssumption DEF CacheOK, CreateEntry, Defs

\* The name under which an entry is found is a name, and there is an entry under it.
LEMMA FoundType ==
  ASSUME CacheOK, NEW n \in Names, Found(n) # NoName
  PROVE  Found(n) \in Names /\ entries[Found(n)] # 0
BY SetAssumption DEF CacheOK, Found

\* At most one more signature is staged, for s only.
LEMMA RefreshType ==
  ASSUME TxOK, CacheOK, NEW s \in Sessions, NEW signature \in Defs,
         RefreshStalenessSignature(s, signature)
  PROVE  /\ pending' \in [Sessions -> Seq(Defs)] /\ sig' \in Defs
         /\ Len(pending'[s]) \in Len(pending[s]) .. Len(pending[s]) + 1
         /\ \A u \in Sessions \ {s} : pending'[u] = pending[u]
<1>1. pending[s] \in Seq(Defs) /\ Len(pending[s]) \in Nat
  BY DEF TxOK
<1>2. Append(pending[s], signature) \in Seq(Defs)
      /\ Len(Append(pending[s], signature)) = Len(pending[s]) + 1
  BY <1>1
<1>3. CASE UNCHANGED pending
  BY <1>1, <1>3 DEF TxOK, CacheOK, RefreshStalenessSignature
<1>4. CASE pending' = [pending EXCEPT ![s] = Append(@, signature)] /\ UNCHANGED sig
  <2>1. pending' \in [Sessions -> Seq(Defs)] /\ pending'[s] = Append(pending[s], signature)
    BY <1>2, <1>4 DEF TxOK
  <2> QED
    BY <1>1, <1>2, <1>4, <2>1 DEF TxOK, CacheOK
<1> QED
  BY <1>3, <1>4 DEF RefreshStalenessSignature

\* Steps that concern the call of s leave those of the other sessions alone.
OthersUnchanged(s) ==
  \A u \in Sessions \ {s} : UNCHANGED <<pc[u], call[u], own[u], buf[u], pending[u]>>

LEMMA ControlStep ==
  ASSUME ControlInv, NEW s \in Sessions, OthersUnchanged(s), CallAt(s)', PendingAt(s)'
  PROVE  ControlInv'
<1> SUFFICES ASSUME NEW u \in Sessions \ {s} PROVE CallAt(u)' /\ PendingAt(u)'
  BY DEF ControlInv
<1>1. UNCHANGED <<pc[u], call[u], own[u], buf[u], pending[u]>> /\ CallAt(u) /\ PendingAt(u)
  BY DEF ControlInv, OthersUnchanged
<1>2. CallAt(u)'
  BY <1>1 DEF CallAt
<1>3. StagedLater(u)' = StagedLater(u)
  BY <1>1 DEF StagedLater
<1> QED
  BY <1>1, <1>2, <1>3 DEF PendingAt

LEMMA AnswerType ==
  ASSUME CallOK, NEW s \in Sessions, NEW defs \in Defs, Answer(s, defs)
  PROVE  /\ pc' \in [Sessions -> Labels] /\ ret' \in [Sessions -> Defs]
         /\ \A u \in Sessions \ {s} : pc'[u] = pc[u]
         /\ pc'[s] = "ddl" => call[s].op \notin {"lookup", "view"}
         /\ pc'[s] \in {"ddl", "returned"}
BY DEF CallOK, Answer, Return, Goto, Labels

\* A step of s that stages nothing and leaves what it may still stage.
LEMMA MoveStep ==
  ASSUME TypeInv, NEW s \in Sessions, UNCHANGED pending,
         ServerOK', TxOK', CacheOK', LockOK', CallOK',
         OthersUnchanged(s), CallAt(s)', StagedLater(s)' <= StagedLater(s)
  PROVE  TypeInv'
<1>1. PendingAt(s)'
  <2>1. /\ Len(pending[s]) \in Nat /\ PendingAt(s)
        /\ StagedLater(s) \in Nat /\ StagedLater(s)' \in Nat /\ MaxPending \in Nat
    BY SetAssumption DEF TypeInv, TxOK, ControlInv, StagedLater
  <2> QED
    BY <2>1 DEF PendingAt
<1> QED
  BY <1>1, ControlStep DEF TypeInv

\* A step of s that stages one of the signatures it had left.
LEMMA StagedStep ==
  ASSUME TypeInv, NEW s \in Sessions, TxOK',
         Len(pending'[s]) \in Len(pending[s]) .. Len(pending[s]) + 1,
         StagedLater(s)' + 1 <= StagedLater(s)
  PROVE  PendingAt(s)'
<1>1. /\ Len(pending[s]) \in Nat /\ Len(pending'[s]) \in Nat /\ PendingAt(s)
      /\ StagedLater(s) \in Nat /\ StagedLater(s)' \in Nat /\ MaxPending \in Nat
  BY SetAssumption DEF TypeInv, TxOK, ControlInv, StagedLater
<1> QED
  BY <1>1 DEF PendingAt

LEMMA TryType ==
  ASSUME TypeInv, NEW s \in Sessions,
         \/ TryUnloaded(s) \/ TryUnchecked(s) \/ TryChecked(s) \/ StillCurrent(s)
         \/ LoadedMeanwhile(s)
  PROVE  TypeInv'
<1>1. PICK label \in {"wait", "find", "check"} :
        /\ Goto(s, label)
        /\ UNCHANGED <<serverVars, txVars, cacheVars, sig, lockVars, call, buf, ret, quiet>>
        /\ pc[s] \in {"try", "check", "wait"}
        /\ \/ UNCHANGED chk
           \/ \E defs \in {remote, NoDefs} : chk' = [chk EXCEPT ![s] = defs]
  BY DEF TryUnloaded, TryUnchecked, TryChecked, StillCurrent, LoadedMeanwhile
<1>2. ServerOK' /\ TxOK' /\ CacheOK' /\ LockOK'
  BY <1>1 DEF TypeInv, ServerOK, TxOK, CacheOK, LockOK
<1>3. CallOK' /\ OthersUnchanged(s) /\ pc'[s] = label
  <2>1. NoDefs \in Defs
    BY OnlyType, SetAssumption DEF Stamps
  <2> QED
    BY <1>1, <2>1 DEF TypeInv, ServerOK, CallOK, OthersUnchanged, Goto, Labels
<1>4. CallAt(s)' /\ StagedLater(s)' <= StagedLater(s)
  BY <1>1, <1>3 DEF TypeInv, ControlInv, CallAt, StagedLater
<1> QED
  BY <1>1, <1>2, <1>3, <1>4, MoveStep

LEMMA TakeLockType ==
  ASSUME TypeInv, NEW s \in Sessions, Stale(s) \/ LockToLoad(s)
  PROVE  TypeInv'
<1>1. TakeLoadLock(s) /\ pc[s] \in {"check", "wait"}
      /\ (UNCHANGED cacheVars \/ (ClearEntries /\ UNCHANGED slice))
  BY DEF Stale, LockToLoad
<1>2. NoDefs \in Defs
  BY OnlyType, SetAssumption DEF Stamps
<1>3. ServerOK' /\ TxOK' /\ CacheOK' /\ LockOK' /\ UNCHANGED pending
  BY <1>1, <1>2 DEF TypeInv, ServerOK, TxOK, CacheOK, LockOK, TakeLoadLock, ClearEntries
<1>4. CallOK' /\ OthersUnchanged(s) /\ pc'[s] = "load"
  BY <1>1, <1>2 DEF TypeInv, CallOK, OthersUnchanged, TakeLoadLock, Goto, Labels
<1>5. CallAt(s)' /\ StagedLater(s)' <= StagedLater(s)
  BY <1>1, <1>4 DEF TypeInv, ControlInv, CallAt, StagedLater, TakeLoadLock
<1> QED
  BY <1>3, <1>4, <1>5, MoveStep

LEMMA LoadType ==
  ASSUME TypeInv, NEW s \in Sessions, Load(s)
  PROVE  TypeInv'
<1>1. CASE LoadSlice(s)
  <2>1. ServerOK' /\ TxOK' /\ CacheOK' /\ LockOK' /\ UNCHANGED pending
    BY <1>1 DEF TypeInv, ServerOK, TxOK, CacheOK, LockOK, LoadSlice
  <2>2. CallOK' /\ OthersUnchanged(s) /\ pc'[s] = "insert"
    BY <1>1 DEF TypeInv, CacheOK, CallOK, OthersUnchanged, LoadSlice, Goto, Labels
  <2>3. CallAt(s)' /\ StagedLater(s)' <= StagedLater(s)
    BY <1>1, <2>2 DEF TypeInv, ControlInv, CallAt, StagedLater, LoadSlice
  <2> QED
    BY <2>1, <2>2, <2>3, MoveStep
<1>2. CASE LoadQuery(s)
  <2>1. ServerOK' /\ TxOK' /\ CacheOK' /\ LockOK' /\ UNCHANGED pending
    BY <1>2, BeginType DEF TypeInv, ServerOK, TxOK, CacheOK, LockOK, LoadQuery
  <2>2. CallOK' /\ OthersUnchanged(s) /\ pc'[s] = "insert"
    BY <1>2, ViewType DEF TypeInv, CallOK, OthersUnchanged, LoadQuery, Goto, Labels
  <2>3. CallAt(s)' /\ StagedLater(s)' <= StagedLater(s)
    BY <1>2, <2>2 DEF TypeInv, ControlInv, CallAt, StagedLater, LoadQuery
  <2> QED
    BY <2>1, <2>2, <2>3, MoveStep
<1>3. CASE InsertLoaded(s)
  <2>1. PICK n \in Names : CreateEntry(n, buf[s][n]) /\ buf' = [buf EXCEPT ![s][n] = 0]
    BY <1>3 DEF InsertLoaded
  <2>2. buf[s] \in Defs /\ buf[s][n] \in Stamps /\ 0 \in Stamps
    BY SetAssumption DEF TypeInv, CallOK, Defs, Stamps
  <2>3. ServerOK' /\ TxOK' /\ CacheOK' /\ LockOK' /\ UNCHANGED pending
    BY <1>3, <2>1, <2>2, CreateEntryType
    DEF TypeInv, ServerOK, TxOK, CacheOK, LockOK, InsertLoaded
  <2>4. CallOK' /\ OthersUnchanged(s)
    BY <1>3, <2>1, <2>2 DEF TypeInv, CallOK, Defs, OthersUnchanged, InsertLoaded
  <2>5. CallAt(s)' /\ StagedLater(s)' <= StagedLater(s)
    BY <1>3 DEF TypeInv, ControlInv, CallAt, StagedLater, InsertLoaded
  <2> QED
    BY <2>3, <2>4, <2>5, MoveStep
<1>4. CASE FinishLoad(s)
  <2>1. remote \in Defs /\ RefreshStalenessSignature(s, remote)
    BY <1>4 DEF TypeInv, ServerOK, FinishLoad
  <2>2. ServerOK' /\ TxOK' /\ CacheOK' /\ LockOK'
    BY <1>4, <2>1, RefreshType DEF TypeInv, ServerOK, TxOK, CacheOK, LockOK, FinishLoad
  <2>3. CallOK' /\ OthersUnchanged(s) /\ pc'[s] = "find"
    BY <1>4, <2>1, RefreshType DEF TypeInv, CallOK, OthersUnchanged, FinishLoad, Goto, Labels
  <2>4. CallAt(s)'
    BY <1>4, <2>3 DEF TypeInv, ControlInv, CallAt, FinishLoad
  <2>5. StagedLater(s)' + 1 <= StagedLater(s)
    BY <1>4, <2>3 DEF StagedLater, FinishLoad
  <2>6. PendingAt(s)'
    BY <2>1, <2>2, <2>5, RefreshType, StagedStep DEF TypeInv
  <2> QED
    BY <2>2, <2>3, <2>4, <2>6, ControlStep DEF TypeInv
<1> QED
  BY <1>1, <1>2, <1>3, <1>4 DEF Load

LEMMA FindType ==
  ASSUME TypeInv, NEW s \in Sessions, ScanEntries(s) \/ FindEntry(s)
  PROVE  TypeInv'
<1> DEFINE found == Found(call[s].name)
<1>1. pc[s] = "find" /\ call[s].name \in Names
  BY DEF TypeInv, ControlInv, CallAt, ScanEntries, FindEntry
<1>2. ServerOK' /\ TxOK' /\ CacheOK' /\ LockOK' /\ UNCHANGED <<own, buf, pending>>
  BY DEF TypeInv, ServerOK, TxOK, CacheOK, LockOK, ScanEntries, FindEntry
<1>3. /\ call' \in [Sessions -> [op : Ops \cup {"none", "failed"}, name : Names \cup {NoName}]]
      /\ call'[s].op = call[s].op /\ call'[s].name \in Names
      /\ \A u \in Sessions \ {s} : call'[u] = call[u]
  <2>1. CASE call' = call
    BY <1>1, <2>1 DEF TypeInv, CallOK
  <2>2. CASE found # NoName /\ call' = [call EXCEPT ![s].name = found]
    <3>1. found \in Names
      BY <1>1, <2>2, FoundType DEF TypeInv
    <3> QED
      BY <2>2, <3>1 DEF TypeInv, CallOK
  <2> QED
    BY <2>1, <2>2 DEF ScanEntries, FindEntry
<1>4. /\ pc' \in [Sessions -> Labels] /\ ret' \in [Sessions -> Defs]
      /\ \A u \in Sessions \ {s} : pc'[u] = pc[u]
      /\ pc'[s] \in {"returned", "ddl", "reload_wait"}
      /\ pc'[s] = "ddl" => call[s].op \notin {"lookup", "view", "scan"}
      /\ pc'[s] = "reload_wait" => call[s].op # "scan"
  <2>1. CASE ScanEntries(s)
    BY <2>1 DEF TypeInv, CacheOK, CallOK, ScanEntries, Return, Goto, Labels
  <2>2. CASE FindEntry(s) /\ found # NoName
    <3>1. Only(found, entries[found]) \in Defs
      BY <1>1, <2>2, FoundType, OnlyType DEF TypeInv, CacheOK, Defs
    <3> QED
      BY <2>2, <3>1, AnswerType DEF TypeInv, FindEntry
  <2>3. CASE FindEntry(s) /\ found = NoName
    BY <2>3 DEF TypeInv, CallOK, FindEntry, Goto, Labels
  <2> QED
    BY <2>1, <2>2, <2>3
<1>5. CallOK' /\ OthersUnchanged(s)
  BY <1>2, <1>3, <1>4 DEF TypeInv, CallOK, OthersUnchanged, ScanEntries, FindEntry
<1>6. CallAt(s)'
  BY <1>1, <1>3, <1>4 DEF TypeInv, ControlInv, CallAt
<1>7. StagedLater(s)' <= StagedLater(s)
  BY <1>1, <1>3, <1>4 DEF StagedLater
<1> QED
  BY <1>2, <1>5, <1>6, <1>7, MoveStep

LEMMA ReloadType ==
  ASSUME TypeInv, NEW s \in Sessions, Reload(s)
  PROVE  TypeInv'
<1>1. NoDefs \in Defs
  BY OnlyType, SetAssumption DEF Stamps
<1>2. CASE LockToReload(s)
  <2>1. ServerOK' /\ TxOK' /\ CacheOK' /\ LockOK' /\ UNCHANGED pending
    BY <1>2 DEF TypeInv, ServerOK, TxOK, CacheOK, LockOK, LockToReload
  <2>2. CallOK' /\ OthersUnchanged(s) /\ pc'[s] = "reload"
    BY <1>2 DEF TypeInv, CallOK, OthersUnchanged, LockToReload, Goto, Labels
  <2>3. CallAt(s)' /\ StagedLater(s)' <= StagedLater(s)
    BY <1>2, <2>2 DEF TypeInv, ControlInv, CallAt, StagedLater, LockToReload
  <2> QED
    BY <2>1, <2>2, <2>3, MoveStep
<1>3. CASE ReloadNothing(s)
  <2>1. ServerOK' /\ TxOK' /\ CacheOK' /\ LockOK' /\ UNCHANGED pending
    BY <1>3, BeginType DEF TypeInv, ServerOK, TxOK, CacheOK, LockOK, ReloadNothing, Unlocked
  <2>2. /\ CallOK' /\ OthersUnchanged(s) /\ pc'[s] \in {"ddl", "returned"}
        /\ pc'[s] = "ddl" => call[s].op \notin {"lookup", "view"}
    BY <1>1, <1>3, AnswerType DEF TypeInv, CallOK, OthersUnchanged, ReloadNothing
  <2>3. CallAt(s)' /\ StagedLater(s)' <= StagedLater(s)
    BY <1>3, <2>2 DEF TypeInv, ControlInv, CallAt, StagedLater, ReloadNothing
  <2> QED
    BY <2>1, <2>2, <2>3, MoveStep
<1>4. CASE ReloadEntry(s)
  <2> DEFINE n == call[s].name
             defs == Only(n, View(s)[n])
  <2>1. n \in Names /\ View(s)[n] \in Stamps /\ View(s)[n] # 0
    BY <1>4, ViewType DEF TypeInv, ControlInv, CallAt, ReloadEntry, Defs
  <2>2. defs \in Defs /\ defs # NoDefs
    BY <2>1, OnlyType DEF Only, NoDefs
  <2>3. ServerOK' /\ TxOK' /\ CacheOK' /\ LockOK' /\ UNCHANGED pending
    BY <1>4, <2>1, BeginType, CreateEntryType
    DEF TypeInv, ServerOK, TxOK, CacheOK, LockOK, ReloadEntry
  <2>4. CallOK' /\ OthersUnchanged(s) /\ pc'[s] = "resign" /\ buf'[s] = defs
    BY <1>4, <2>2 DEF TypeInv, CallOK, OthersUnchanged, ReloadEntry, Goto, Labels
  <2>5. CallAt(s)' /\ StagedLater(s)' <= StagedLater(s)
    BY <1>4, <2>2, <2>4 DEF TypeInv, ControlInv, CallAt, StagedLater, ReloadEntry
  <2> QED
    BY <2>3, <2>4, <2>5, MoveStep
<1>5. CASE FinishReload(s)
  <2>1. remote \in Defs /\ buf[s] \in Defs /\ RefreshStalenessSignature(s, remote)
    BY <1>5 DEF TypeInv, ServerOK, CallOK, FinishReload
  <2>2. ServerOK' /\ TxOK' /\ CacheOK' /\ LockOK'
    BY <1>5, <2>1, RefreshType
    DEF TypeInv, ServerOK, TxOK, CacheOK, LockOK, FinishReload, Unlocked
  <2>3. /\ CallOK' /\ OthersUnchanged(s) /\ pc'[s] \in {"ddl", "returned"}
        /\ pc'[s] = "ddl" => call[s].op \notin {"lookup", "view"}
    BY <1>1, <1>5, <2>1, AnswerType, RefreshType DEF TypeInv, CallOK, OthersUnchanged, FinishReload
  <2>4. CallAt(s)' /\ StagedLater(s)' + 1 <= StagedLater(s)
    BY <1>5, <2>3 DEF TypeInv, ControlInv, CallAt, StagedLater, FinishReload
  <2>5. PendingAt(s)'
    BY <2>1, <2>2, <2>4, RefreshType, StagedStep DEF TypeInv
  <2> QED
    BY <2>2, <2>3, <2>4, <2>5, ControlStep DEF TypeInv
<1> QED
  BY <1>2, <1>3, <1>4, <1>5 DEF Reload

LEMMA DiscardType ==
  ASSUME ServerOK, TxOK, NEW s \in Sessions, Discard(s), UNCHANGED <<remote, nextStamp>>
  PROVE  /\ ServerOK' /\ TxOK'
         /\ \A u \in Sessions \ {s} : own'[u] = own[u] /\ pending'[u] = pending[u]
         /\ Len(pending'[s]) = 0
<1>1. NoDefs \in Defs /\ NoOwn \in [Names -> Stamps \cup {NoChange}]
  BY OnlyType, SetAssumption DEF Stamps, NoOwn
<1>2. own[s] \in [Names -> Stamps \cup {NoChange}]
  BY DEF TxOK
<1>3. {own[s][n] : n \in {m \in Names : own[s][m] > 0}} \subseteq Stamps
  <2> SUFFICES ASSUME NEW n \in Names, own[s][n] > 0 PROVE own[s][n] \in Stamps
    OBVIOUS
  <2> QED
    BY <1>2 DEF NoChange, Stamps
<1>4. ServerOK'
  BY <1>3 DEF ServerOK, Discard
<1> QED
  BY <1>1, <1>4 DEF TxOK, Discard

LEMMA DdlType ==
  ASSUME TypeInv, NEW s \in Sessions, Ddl(s)
  PROVE  TypeInv'
<1> DEFINE n == call[s].name
<1>1. /\ pc[s] = "ddl" /\ n \in Names /\ call[s].op \in {"create", "drop", "alter", "view"}
      /\ UNCHANGED <<remote, undone, pending, cacheVars, sig, lockVars, callVars, quiet>>
      /\ Begin(s)
  BY DEF TypeInv, ControlInv, CallAt, Ddl
<1>2. PICK stamp \in Stamps :
        /\ own' = [own EXCEPT ![s][n] = stamp] /\ nextStamp' \in 1 .. MaxStamp + 1
        /\ call[s].op = "create" => stamp > 0
  <2>1. CASE call[s].op = "drop"
    BY <2>1, SetAssumption DEF TypeInv, ServerOK, Ddl, Stamps
  <2>2. CASE call[s].op # "drop"
    <3>1. /\ nextStamp \in 1 .. MaxStamp /\ MaxStamp \in Nat
          /\ own' = [own EXCEPT ![s][n] = nextStamp] /\ nextStamp' = nextStamp + 1
      BY <2>2, SetAssumption DEF TypeInv, ServerOK, Ddl
    <3>2. nextStamp \in Stamps /\ nextStamp > 0 /\ nextStamp' \in 1 .. MaxStamp + 1
      BY <3>1 DEF Stamps
    <3> QED
      BY <3>1, <3>2
  <2> QED
    BY <2>1, <2>2
<1>3. ServerOK' /\ TxOK' /\ CacheOK' /\ LockOK'
  <2>1. own' \in [Sessions -> [Names -> Stamps \cup {NoChange}]]
    BY <1>1, <1>2 DEF TypeInv, TxOK
  <2> QED
    BY <1>1, <1>2, <2>1, BeginType DEF TypeInv, ServerOK, TxOK, CacheOK, LockOK
<1>4. CallOK' /\ OthersUnchanged(s)
      /\ pc'[s] = IF call[s].op = "view" THEN "reload" ELSE "apply"
  <2>1. \A u \in Sessions \ {s} : own'[u] = own[u]
    BY <1>2 DEF TypeInv, TxOK
  <2> QED
    BY <1>1, <2>1 DEF TypeInv, CallOK, OthersUnchanged, Ddl, Goto, Labels
<1>5. own'[s][n] = stamp
  BY <1>1, <1>2 DEF TypeInv, TxOK
<1>6. CallAt(s)' /\ StagedLater(s)' <= StagedLater(s)
  BY <1>1, <1>2, <1>4, <1>5 DEF CallAt, StagedLater
<1> QED
  BY <1>1, <1>3, <1>4, <1>6, MoveStep

LEMMA ChangeType ==
  ASSUME TypeInv, NEW s \in Sessions, Change(s)
  PROVE  TypeInv'
<1>1. CASE DdlFails(s)
  <2>1. ServerOK' /\ TxOK' /\ CacheOK' /\ LockOK'
    BY <1>1, DiscardType DEF TypeInv, CacheOK, LockOK, DdlFails
  <2>2. CallOK' /\ OthersUnchanged(s) /\ pc'[s] = "returned"
    BY <1>1, DiscardType DEF TypeInv, CallOK, OthersUnchanged, DdlFails, Goto, Labels
  <2>3. CallAt(s)' /\ PendingAt(s)'
    BY <1>1, <2>2, DiscardType, SetAssumption
    DEF TypeInv, CallAt, PendingAt, StagedLater, DdlFails
  <2> QED
    BY <2>1, <2>2, <2>3, ControlStep DEF TypeInv
<1>2. CASE ApplyCreate(s) \/ ApplyDrop(s) \/ ApplyAlter(s)
  <2>1. pc[s] = "apply" /\ call[s].name \in Names /\ 0 \in Stamps
        /\ UNCHANGED <<serverVars, txVars, sig, slice, lockVars, callVars, quiet>>
        /\ (Goto(s, "restage") \/ Goto(s, "returned"))
    BY <1>2, SetAssumption
    DEF TypeInv, ControlInv, CallAt, ApplyCreate, ApplyDrop, ApplyAlter, Stamps
  <2>2. CacheOK'
    <3>1. CASE ApplyCreate(s)
      <4>1. own[s][call[s].name] \in Stamps
        BY <2>1, <3>1 DEF TypeInv, TxOK, ControlInv, CallAt, ApplyCreate, Stamps, NoChange
      <4> QED
        BY <2>1, <3>1, <4>1, CreateEntryType DEF TypeInv, CacheOK, ApplyCreate
    <3>2. CASE ApplyDrop(s)
      BY <2>1, <3>2 DEF TypeInv, CacheOK, Defs, ApplyDrop
    <3>3. CASE ApplyAlter(s)
      BY <2>1, <3>3, OnlyType DEF TypeInv, CacheOK, ApplyAlter, ClearEntries
    <3> QED
      BY <1>2, <3>1, <3>2, <3>3
  <2>3. ServerOK' /\ TxOK' /\ LockOK' /\ CallOK' /\ OthersUnchanged(s)
        /\ pc'[s] \in {"restage", "returned"}
    BY <2>1 DEF TypeInv, ServerOK, TxOK, LockOK, CallOK, OthersUnchanged, Goto, Labels
  <2>4. CallAt(s)' /\ StagedLater(s)' <= StagedLater(s)
    BY <2>1, <2>3 DEF TypeInv, ControlInv, CallAt, StagedLater
  <2> QED
    BY <2>1, <2>2, <2>3, <2>4, MoveStep
<1>3. CASE Restage(s)
  <2>1. View(s) \in Defs /\ RefreshStalenessSignature(s, View(s))
    BY <1>3, ViewType DEF TypeInv, Restage
  <2>2. ServerOK' /\ TxOK' /\ CacheOK' /\ LockOK'
    BY <1>3, <2>1, RefreshType DEF TypeInv, ServerOK, TxOK, CacheOK, LockOK, Restage
  <2>3. CallOK' /\ OthersUnchanged(s) /\ pc'[s] = "returned"
    BY <1>3, <2>1, RefreshType DEF TypeInv, CallOK, OthersUnchanged, Restage, Goto, Labels
  <2>4. CallAt(s)' /\ StagedLater(s)' + 1 <= StagedLater(s)
    BY <1>3, <2>3 DEF CallAt, StagedLater, Restage
  <2>5. PendingAt(s)'
    BY <2>1, <2>2, <2>4, RefreshType, StagedStep DEF TypeInv
  <2> QED
    BY <2>2, <2>3, <2>4, <2>5, ControlStep DEF TypeInv
<1> QED
  BY <1>1, <1>2, <1>3, DdlType DEF Change

LEMMA TransactionType ==
  ASSUME TypeInv, NEW s \in Sessions, Promote(s) \/ CommitEnds(s) \/ Commit(s) \/ Rollback(s)
  PROVE  TypeInv'
<1>1. NoDefs \in Defs
  BY OnlyType, SetAssumption DEF Stamps
<1>2. CASE Promote(s)
  <2>1. pending[s] \in Seq(Defs) /\ pending[s] # <<>>
    BY <1>2 DEF TypeInv, TxOK, Promote
  <2>2. Head(pending[s]) \in Defs /\ Tail(pending[s]) \in Seq(Defs)
        /\ Len(Tail(pending[s])) = Len(pending[s]) - 1
    BY <2>1
  <2>3. /\ TxOK' /\ pending'[s] = Tail(pending[s])
        /\ \A u \in Sessions \ {s} : pending'[u] = pending[u]
    BY <1>2, <2>2 DEF TypeInv, TxOK, Promote
  <2>4. ServerOK' /\ CacheOK' /\ LockOK' /\ CallOK' /\ OthersUnchanged(s)
    BY <1>2, <2>2, <2>3
    DEF TypeInv, ServerOK, CacheOK, LockOK, CallOK, OthersUnchanged, Promote
  <2>5. CallAt(s)'
    BY <1>2 DEF TypeInv, ControlInv, CallAt, Promote
  <2>6. PendingAt(s)'
    <3>1. StagedLater(s) = 0 /\ StagedLater(s)' = 0
      BY <1>2 DEF StagedLater, Promote
    <3>2. Len(pending[s]) \in Nat /\ PendingAt(s)
      BY <2>1 DEF TypeInv, ControlInv
    <3> QED
      BY <2>2, <2>3, <3>1, <3>2, SetAssumption DEF PendingAt
  <2> QED
    BY <2>3, <2>4, <2>5, <2>6, ControlStep DEF TypeInv
<1>3. CASE CommitEnds(s)
  <2>1. ServerOK' /\ TxOK' /\ CacheOK' /\ LockOK' /\ UNCHANGED pending
    BY <1>3 DEF TypeInv, ServerOK, TxOK, CacheOK, LockOK, CommitEnds
  <2>2. CallOK' /\ OthersUnchanged(s) /\ pc'[s] = "idle"
    BY <1>3 DEF TypeInv, CallOK, OthersUnchanged, CommitEnds, Goto, Labels
  <2>3. CallAt(s)' /\ StagedLater(s)' <= StagedLater(s)
    BY <1>3, <2>2 DEF CallAt, StagedLater, CommitEnds
  <2> QED
    BY <2>1, <2>2, <2>3, MoveStep
<1>4. CASE Commit(s)
  <2>1. ServerOK' /\ TxOK' /\ CacheOK' /\ LockOK' /\ UNCHANGED pending
    <3>1. NoOwn \in [Names -> Stamps \cup {NoChange}]
      BY DEF NoOwn
    <3> QED
      BY <1>1, <1>4, <3>1, ViewType
      DEF TypeInv, ServerOK, TxOK, CacheOK, LockOK, Commit, RemoteChanges
  <2>2. CallOK' /\ OthersUnchanged(s) /\ pc'[s] = "promote"
    <3>1. quiet' \in [Sessions -> BOOLEAN]
      BY <1>4 DEF TypeInv, CallOK, Commit, RemoteChanges
    <3> QED
      BY <1>4, <3>1 DEF TypeInv, TxOK, CallOK, OthersUnchanged, Commit, Goto, Labels
  <2>3. CallAt(s)' /\ StagedLater(s)' <= StagedLater(s)
    BY <1>4, <2>2 DEF CallAt, StagedLater, Commit
  <2> QED
    BY <2>1, <2>2, <2>3, MoveStep
<1>5. CASE Rollback(s)
  <2>1. ServerOK' /\ TxOK' /\ CacheOK' /\ LockOK' /\ CallOK' /\ OthersUnchanged(s)
    BY <1>5, DiscardType
    DEF TypeInv, CacheOK, LockOK, CallOK, OthersUnchanged, Rollback
  <2>2. CallAt(s)' /\ PendingAt(s)'
    <3>1. CallAt(s)' /\ StagedLater(s)' = 0
      BY <1>5 DEF CallAt, StagedLater, Rollback
    <3> QED
      BY <1>5, <3>1, DiscardType, SetAssumption DEF TypeInv, PendingAt, Rollback
  <2> QED
    BY <2>1, <2>2, ControlStep DEF TypeInv
<1> QED
  BY <1>2, <1>3, <1>4, <1>5

LEMMA CallType ==
  ASSUME TypeInv, NEW s \in Sessions, Call(s) \/ CallEnds(s) \/ PoolThrows(s)
  PROVE  TypeInv'
<1>1. NoDefs \in Defs
  BY OnlyType, SetAssumption DEF Stamps
<1>2. ServerOK' /\ TxOK' /\ CacheOK' /\ LockOK' /\ UNCHANGED <<own, pending>>
  BY DEF TypeInv, ServerOK, TxOK, CacheOK, LockOK, Call, CallEnds, PoolThrows, Unlocked
<1>3. CASE Call(s)
  <2>1. PICK op \in Ops \ {"clear"}, n \in Names :
          /\ call' = [call EXCEPT ![s] = [op |-> op, name |-> n]]
          /\ Goto(s, IF op \in {"create", "view"} THEN "ddl" ELSE "try")
    BY <1>3 DEF Call
  <2>2. op \in {"lookup", "scan", "create", "drop", "alter", "view"}
    BY SetAssumption
  <2>3. /\ CallOK' /\ OthersUnchanged(s) /\ call'[s] = [op |-> op, name |-> n]
        /\ pc'[s] = IF op \in {"create", "view"} THEN "ddl" ELSE "try"
    BY <1>2, <1>3, <2>1 DEF TypeInv, CallOK, OthersUnchanged, Call, Goto, Labels
  <2>4. CallAt(s)'
    BY <2>2, <2>3 DEF CallAt
  <2>5. PendingAt(s)'
    <3>1. Len(pending[s]) \in Nat /\ Len(pending[s]) + 3 <= MaxPending
      BY <1>3 DEF TypeInv, TxOK, Call, MaxStagedByCall
    <3>2. StagedLater(s)' \in {1, 3}
      BY <2>3 DEF StagedLater
    <3> QED
      BY <1>2, <3>1, <3>2, SetAssumption DEF PendingAt
  <2> QED
    BY <1>2, <2>3, <2>4, <2>5, ControlStep DEF TypeInv
<1>4. CASE CallEnds(s)
  <2>1. CallOK' /\ OthersUnchanged(s) /\ pc'[s] = "idle"
    BY <1>1, <1>2, <1>4 DEF TypeInv, CallOK, OthersUnchanged, CallEnds, Goto, Labels, NoCall
  <2>2. CallAt(s)' /\ StagedLater(s)' <= StagedLater(s)
    BY <1>4, <2>1 DEF CallAt, StagedLater, CallEnds
  <2> QED
    BY <1>2, <2>1, <2>2, MoveStep
<1>5. CASE PoolThrows(s)
  <2>1. CallOK' /\ OthersUnchanged(s) /\ pc'[s] = "returned"
    BY <1>1, <1>2, <1>5 DEF TypeInv, CallOK, OthersUnchanged, PoolThrows, Return, Goto, Labels
  <2>2. CallAt(s)' /\ StagedLater(s)' <= StagedLater(s)
    BY <1>5, <2>1 DEF CallAt, StagedLater, PoolThrows
  <2> QED
    BY <1>2, <2>1, <2>2, MoveStep
<1> QED
  BY <1>3, <1>4, <1>5

LEMMA ExternalType ==
  ASSUME TypeInv, ExternalDdl
  PROVE  TypeInv'
<1>1. ServerOK' /\ TxOK' /\ CacheOK' /\ LockOK'
  <2>1. remote' \in Defs
    BY SetAssumption DEF TypeInv, ServerOK, ExternalDdl, RemoteChanges, Defs, Stamps
  <2> QED
    BY <2>1, SetAssumption DEF TypeInv, ServerOK, TxOK, CacheOK, LockOK, ExternalDdl
<1>2. CallOK'
  <2>1. UNCHANGED <<pc, call, chk, buf, ret>> /\ quiet' \in [Sessions -> BOOLEAN]
    BY DEF TypeInv, CallOK, ExternalDdl, RemoteChanges
  <2> QED
    BY <2>1 DEF TypeInv, CallOK
<1>3. ControlInv'
  <2>1. UNCHANGED <<pc, call, own, buf, pending>>
    BY DEF ExternalDdl
  <2> QED
    BY <2>1 DEF TypeInv, ControlInv, CallAt, PendingAt, StagedLater
<1> QED
  BY <1>1, <1>2, <1>3 DEF TypeInv

LEMMA TypeStep ==
  ASSUME TypeInv, [Next]_vars
  PROVE  TypeInv'
<1>1. ASSUME NEW s \in Sessions, TryLoadEntries(s)
      PROVE  TypeInv'
  BY <1>1, TryType, TakeLockType, LoadType DEF TryLoadEntries
<1>2. ASSUME NEW s \in Sessions, Progress(s)
      PROVE  TypeInv'
  BY <1>1, <1>2, FindType, ReloadType, ChangeType, TransactionType, CallType DEF Progress
<1>3. CASE UNCHANGED vars
  BY <1>3 DEF vars, TypeInv, ServerOK, TxOK, CacheOK, LockOK, CallOK, ControlInv, CallAt,
              PendingAt, StagedLater
<1> QED
  BY <1>2, <1>3, CallType, TransactionType, ExternalType DEF Next

LEMMA TypeInvariant == Spec => []TypeInv
BY TypeInit, TypeStep, PTL DEF Spec

\* The set, the sessions and the server keep their types, and a transaction never stages
\* more signatures than its statements may.
THEOREM SetTypeOK == Spec => []TypeOK
<1>1. TypeInv => TypeOK
  <2> SUFFICES ASSUME TypeInv PROVE TypeOK
    OBVIOUS
  <2>1. \A s \in Sessions : Len(pending[s]) <= MaxPending
    <3> SUFFICES ASSUME NEW s \in Sessions PROVE Len(pending[s]) <= MaxPending
      OBVIOUS
    <3>1. Len(pending[s]) \in Nat /\ StagedLater(s) \in Nat /\ PendingAt(s)
      BY DEF TypeInv, TxOK, ControlInv, StagedLater
    <3> QED
      BY <3>1, SetAssumption DEF PendingAt
  <2> QED
    BY <2>1 DEF TypeInv, TypeOK, ServerOK, TxOK, CacheOK, LockOK, CallOK, Labels
<1> QED
  BY <1>1, TypeInvariant, PTL

-------------------------------------------------------------------------------
(* What a signature may contain.                                           *)

Everyone == Sessions \cup {NoSession}

\* The catalogs that hold no definition that was rolled back, none that is yet to come,
\* and no uncommitted one of another session than s; NoSession stands for the server.
KnownTo ==
  [s \in Everyone |->
     {defs \in Defs : \A n \in Names :
        /\ defs[n] < nextStamp /\ defs[n] \notin undone
        /\ \A u \in Sessions \ {s}, m \in Names : own[u][m] > 0 => defs[n] # own[u][m]}]

\* A stamp belongs to one transaction, and rolled back stamps to none.
OwnInv ==
  /\ \A stamp \in undone : stamp > 0 /\ stamp < nextStamp
  /\ \A s \in Sessions, n \in Names : own[s][n] > 0 =>
       /\ own[s][n] < nextStamp /\ own[s][n] \notin undone
       /\ \A u \in Sessions \ {s}, m \in Names : own[u][m] # own[s][n]

\* Only what a transaction staged holds uncommitted DDL, and only its own.
KnownInv ==
  /\ remote \in KnownTo[NoSession] /\ sig \in KnownTo[NoSession]
  /\ \A s \in Sessions :
       /\ snap[s] \in KnownTo[NoSession]
       /\ pc[s] = "promote" => own[s] = NoOwn
       /\ \A i \in 1 .. Len(pending[s]) : pending[s][i] \in KnownTo[s]

SignatureInv == TypeInv /\ LockControl /\ OwnInv /\ KnownInv

\* What is known to everyone is known to each session.
LEMMA KnownToAll ==
  ASSUME NEW s \in Sessions
  PROVE  KnownTo[NoSession] \subseteq KnownTo[s]
BY SetAssumption DEF KnownTo, Everyone

\* What a session sees is known to it, and what it commits too.
LEMMA ViewKnown ==
  ASSUME SignatureInv, NEW s \in Sessions
  PROVE  View(s) \in KnownTo[s] /\ Latest(s) \in KnownTo[s]
<1>1. ASSUME NEW base \in KnownTo[NoSession], Overlay(base, own[s]) \in Defs
      PROVE  Overlay(base, own[s]) \in KnownTo[s]
  <2>1. base \in KnownTo[s]
    BY <1>1, KnownToAll
  <2>2. /\ nextStamp \in Nat /\ nextStamp > 0 /\ 0 \notin undone
        /\ own[s] \in [Names -> Stamps \cup {NoChange}]
    BY SetAssumption DEF SignatureInv, TypeInv, ServerOK, TxOK, OwnInv
  <2>3. ASSUME NEW n \in Names, own[s][n] # NoChange
        PROVE  /\ own[s][n] < nextStamp /\ own[s][n] \notin undone
               /\ \A u \in Sessions \ {s}, m \in Names : own[u][m] > 0 => own[s][n] # own[u][m]
    <3>1. own[s][n] \in Stamps
      BY <2>2, <2>3
    <3>2. CASE own[s][n] = 0
      BY <2>2, <3>2
    <3>3. CASE own[s][n] > 0
      BY <3>3 DEF SignatureInv, OwnInv
    <3> QED
      BY <3>1, <3>2, <3>3 DEF Stamps
  <2> QED
    BY <1>1, <2>1, <2>3 DEF KnownTo, Everyone, Overlay
<1>2. remote \in KnownTo[NoSession] /\ snap[s] \in KnownTo[NoSession]
  BY DEF SignatureInv, KnownInv
<1> QED
  BY <1>1, <1>2, ViewType DEF SignatureInv, TypeInv, View, Latest

LEMMA KnownInit == Init => SignatureInv
<1> SUFFICES ASSUME Init PROVE SignatureInv
  OBVIOUS
<1>1. TypeInv /\ LockControl
  BY TypeInit, LockInit
<1>2. OwnInv
  BY DEF Init, OwnInv, NoOwn, NoChange
<1>3. KnownInv
  <2>1. ASSUME NEW defs \in [Names -> {0, 1}]
        PROVE  defs \in KnownTo[NoSession]
    BY SetAssumption DEF Init, KnownTo, Everyone, Defs, Stamps, NoOwn, NoChange
  <2>2. NoDefs \in [Names -> {0, 1}]
    BY DEF NoDefs
  <2> QED
    BY <2>1, <2>2 DEF Init, KnownInv
<1> QED
  BY <1>1, <1>2, <1>3 DEF SignatureInv

\* A step without DDL: what it stores was known before.
LEMMA KnownStep ==
  ASSUME SignatureInv, TypeInv', LockControl', UNCHANGED <<serverVars, own>>,
         sig' \in KnownTo[NoSession],
         \A s \in Sessions :
           /\ snap'[s] \in KnownTo[NoSession]
           /\ pc'[s] = "promote" => pc[s] = "promote"
           /\ \A i \in 1 .. Len(pending'[s]) : pending'[s][i] \in KnownTo[s]
  PROVE  SignatureInv'
<1>1. KnownTo' = KnownTo
  BY DEF KnownTo
<1>2. OwnInv'
  BY DEF SignatureInv, OwnInv
<1>3. KnownInv'
  BY <1>1 DEF SignatureInv, KnownInv
<1> QED
  BY <1>2, <1>3 DEF SignatureInv

\* Beginning a remote transaction takes a snapshot of what is committed.
LEMMA BeginKnown ==
  ASSUME SignatureInv, NEW s \in Sessions, Begin(s) \/ UNCHANGED snap
  PROVE  \A u \in Sessions : snap'[u] \in KnownTo[NoSession]
BY DEF SignatureInv, KnownInv, TypeInv, TxOK, Begin

\* A session stages what it knows, and what takes effect at once is known to everyone.
LEMMA RefreshKnown ==
  ASSUME SignatureInv, NEW s \in Sessions, NEW signature \in KnownTo[s],
         RefreshStalenessSignature(s, signature),
         tx[s] = "started" \/ signature \in KnownTo[NoSession]
  PROVE  /\ sig' \in KnownTo[NoSession]
         /\ \A u \in Sessions : \A i \in 1 .. Len(pending'[u]) : pending'[u][i] \in KnownTo[u]
<1>1. sig \in KnownTo[NoSession]
      /\ \A u \in Sessions : \A i \in 1 .. Len(pending[u]) : pending[u][i] \in KnownTo[u]
  BY DEF SignatureInv, KnownInv
<1>2. CASE UNCHANGED pending
  BY <1>1, <1>2 DEF RefreshStalenessSignature
<1>3. CASE pending' = [pending EXCEPT ![s] = Append(@, signature)] /\ UNCHANGED sig
  <2>1. pending[s] \in Seq(Defs)
    BY DEF SignatureInv, TypeInv, TxOK
  <2>2. /\ Len(Append(pending[s], signature)) = Len(pending[s]) + 1
        /\ Append(pending[s], signature)[Len(pending[s]) + 1] = signature
        /\ \A i \in 1 .. Len(pending[s]) : Append(pending[s], signature)[i] = pending[s][i]
    BY <2>1
  <2>3. pending'[s] = Append(pending[s], signature) /\ Len(pending[s]) \in Nat
    BY <1>3, <2>1 DEF SignatureInv, TypeInv, TxOK
  <2>4. \A i \in 1 .. Len(pending'[s]) : pending'[s][i] \in KnownTo[s]
    BY <1>1, <2>2, <2>3
  <2>5. \A u \in Sessions \ {s} : pending'[u] = pending[u]
    BY <1>3 DEF SignatureInv, TypeInv, TxOK
  <2> QED
    BY <1>1, <1>3, <2>4, <2>5
<1> QED
  BY <1>2, <1>3 DEF RefreshStalenessSignature

\* More stamps, and more DDL under new stamps, leave the catalogs that were known.
LEMMA NewStamp ==
  ASSUME SignatureInv, UNCHANGED undone, nextStamp' = nextStamp \/ nextStamp' = nextStamp + 1,
         \A u \in Sessions, n \in Names :
           own'[u][n] > 0 => own'[u][n] = own[u][n] \/ own'[u][n] = nextStamp
  PROVE  \A x \in Everyone : KnownTo[x] \subseteq KnownTo'[x]
<1> SUFFICES ASSUME NEW x \in Everyone, NEW defs \in KnownTo[x] PROVE defs \in KnownTo'[x]
  OBVIOUS
<1>1. /\ nextStamp \in Nat /\ defs \in Defs
      /\ \A n \in Names :
           /\ defs[n] \in Stamps /\ defs[n] < nextStamp /\ defs[n] \notin undone
           /\ \A u \in Sessions \ {x}, m \in Names : own[u][m] > 0 => defs[n] # own[u][m]
  BY DEF SignatureInv, TypeInv, ServerOK, KnownTo, Defs
<1>2. ASSUME NEW n \in Names
      PROVE  /\ defs[n] < nextStamp' /\ defs[n] \notin undone'
             /\ \A u \in Sessions \ {x}, m \in Names : own'[u][m] > 0 => defs[n] # own'[u][m]
  <2>1. defs[n] < nextStamp'
    BY <1>1 DEF Stamps
  <2>2. ASSUME NEW u \in Sessions \ {x}, NEW m \in Names, own'[u][m] > 0
        PROVE  defs[n] # own'[u][m]
    BY <1>1, <2>2 DEF Stamps
  <2> QED
    BY <1>1, <2>1, <2>2
<1> QED
  BY <1>1, <1>2 DEF KnownTo

LEMMA DdlKnown ==
  ASSUME SignatureInv, TypeInv', LockControl', NEW s \in Sessions, Ddl(s)
  PROVE  SignatureInv'
<1> DEFINE n == call[s].name
<1>1. /\ n \in Names /\ nextStamp \in Nat /\ nextStamp > 0
      /\ own \in [Sessions -> [Names -> Stamps \cup {NoChange}]]
      /\ UNCHANGED <<remote, undone, pending, sig>>
  <2>1. n \in Names
    BY DEF SignatureInv, TypeInv, ControlInv, CallAt, Ddl
  <2>2. UNCHANGED <<remote, undone, pending, sig>>
    BY DEF Ddl
  <2> QED
    BY <2>1, <2>2 DEF SignatureInv, TypeInv, ServerOK, TxOK
<1>2. \/ own' = [own EXCEPT ![s][n] = 0] /\ nextStamp' = nextStamp
      \/ own' = [own EXCEPT ![s][n] = nextStamp] /\ nextStamp' = nextStamp + 1
  BY DEF Ddl
<1>3. /\ nextStamp' = nextStamp \/ nextStamp' = nextStamp + 1
      /\ \A u \in Sessions, m \in Names :
           own'[u][m] > 0 => \/ own'[u][m] = own[u][m]
                             \/ u = s /\ m = n /\ own'[u][m] = nextStamp /\ nextStamp' = nextStamp + 1
  BY <1>1, <1>2
<1>4. \A x \in Everyone : KnownTo[x] \subseteq KnownTo'[x]
  BY <1>1, <1>3, NewStamp
<1>5. OwnInv'
  <2>1. \A stamp \in undone : stamp \in Nat /\ stamp > 0 /\ stamp < nextStamp
    BY DEF SignatureInv, OwnInv, TypeInv, ServerOK, Stamps
  <2>2. \A stamp \in undone : stamp > 0 /\ stamp < nextStamp'
    BY <1>1, <1>3, <2>1
  <2>3. ASSUME NEW u \in Sessions, NEW m \in Names, own'[u][m] > 0
        PROVE  /\ own'[u][m] < nextStamp' /\ own'[u][m] \notin undone
               /\ \A v \in Sessions \ {u}, k \in Names : own'[v][k] # own'[u][m]
    <3>1. /\ own[u][m] \in Stamps \cup {NoChange}
          /\ own[u][m] > 0 => own[u][m] < nextStamp /\ own[u][m] \notin undone
          /\ \A v \in Sessions, k \in Names :
               /\ own[v][k] \in Stamps \cup {NoChange}
               /\ own[v][k] > 0 => own[v][k] < nextStamp
               /\ v # u /\ own[u][m] > 0 => own[v][k] # own[u][m]
      BY <1>1 DEF SignatureInv, OwnInv
    <3>2. own'[u][m] < nextStamp' /\ own'[u][m] \notin undone
      BY <1>1, <1>3, <2>1, <2>3, <3>1 DEF Stamps, NoChange
    <3>3. ASSUME NEW v \in Sessions \ {u}, NEW k \in Names, own'[v][k] = own'[u][m]
          PROVE  FALSE
      BY <1>1, <1>3, <2>3, <3>1, <3>3 DEF Stamps, NoChange
    <3> QED
      BY <3>2, <3>3
  <2> QED
    BY <1>1, <2>2, <2>3 DEF OwnInv
<1>6. KnownInv'
  <2>1. \A u \in Sessions : snap'[u] \in KnownTo[NoSession]
    BY BeginKnown DEF Ddl
  <2>2. \A u \in Sessions : pc'[u] = "promote" => own'[u] = NoOwn
    <3>1. \A u \in Sessions \ {s} : pc'[u] = pc[u] /\ own'[u] = own[u]
      BY <1>1, <1>2 DEF SignatureInv, TypeInv, CallOK, Ddl, Goto
    <3>2. pc'[s] # "promote"
      BY DEF SignatureInv, TypeInv, CallOK, Ddl, Goto
    <3> QED
      BY <3>1, <3>2 DEF SignatureInv, KnownInv
  <2> QED
    BY <1>1, <1>4, <2>1, <2>2 DEF SignatureInv, KnownInv, Everyone
<1> QED
  BY <1>5, <1>6 DEF SignatureInv

\* Rolling back takes the DDL of s out of use, and its signatures with it.
LEMMA DiscardKnown ==
  ASSUME SignatureInv, TypeInv', LockControl', NEW s \in Sessions, Discard(s),
         UNCHANGED <<remote, nextStamp, sig>>, pc' = pc \/ Goto(s, "returned")
  PROVE  SignatureInv'
<1>1. /\ own \in [Sessions -> [Names -> Stamps \cup {NoChange}]]
      /\ own' = [own EXCEPT ![s] = NoOwn] /\ NoDefs \in Defs
      /\ undone' = undone \cup {own[s][n] : n \in {m \in Names : own[s][m] > 0}}
      /\ snap' = [snap EXCEPT ![s] = NoDefs] /\ pending' = [pending EXCEPT ![s] = <<>>]
  BY OnlyType, SetAssumption DEF SignatureInv, TypeInv, TxOK, Discard, Stamps
<1>2. \A m \in Names : own'[s][m] = NoChange
  BY <1>1 DEF NoOwn
<1>3. \A u \in Sessions \ {s} : own'[u] = own[u]
  BY <1>1
<1>4. ASSUME NEW x \in Everyone \ {s}
      PROVE  KnownTo[x] \subseteq KnownTo'[x]
  <2> SUFFICES ASSUME NEW defs \in KnownTo[x] PROVE defs \in KnownTo'[x]
    OBVIOUS
  <2>1. /\ defs \in Defs
        /\ \A n \in Names :
             /\ defs[n] < nextStamp /\ defs[n] \notin undone
             /\ \A u \in Sessions \ {x}, m \in Names : own[u][m] > 0 => defs[n] # own[u][m]
    BY DEF KnownTo
  <2>2. \A n \in Names : defs[n] \notin undone'
    BY <1>1, <2>1
  <2>3. \A n \in Names, u \in Sessions \ {x}, m \in Names :
          own'[u][m] > 0 => defs[n] # own'[u][m]
    BY <1>2, <1>3, <2>1 DEF NoChange
  <2> QED
    BY <2>1, <2>2, <2>3 DEF KnownTo
<1>5. OwnInv'
  <2>1. \A stamp \in undone' : stamp > 0 /\ stamp < nextStamp
    BY <1>1 DEF SignatureInv, OwnInv
  <2>2. ASSUME NEW u \in Sessions, NEW n \in Names, own'[u][n] > 0
        PROVE  /\ own'[u][n] < nextStamp /\ own'[u][n] \notin undone'
               /\ \A v \in Sessions \ {u}, m \in Names : own'[v][m] # own'[u][n]
    <3>1. u # s /\ own'[u][n] = own[u][n]
      BY <1>2, <1>3, <2>2 DEF NoChange
    <3>2. /\ own[u][n] < nextStamp /\ own[u][n] \notin undone
          /\ \A v \in Sessions \ {u}, m \in Names : own[v][m] # own[u][n]
      BY <2>2, <3>1 DEF SignatureInv, OwnInv
    <3>3. own[u][n] \notin undone'
      BY <1>1, <3>1, <3>2
    <3> QED
      BY <1>2, <1>3, <2>2, <3>1, <3>2, <3>3 DEF NoChange
  <2> QED
    BY <2>1, <2>2 DEF OwnInv
<1>6. NoDefs \in KnownTo'[NoSession]
  <2>1. \A n \in Names : NoDefs[n] = 0 /\ 0 < nextStamp /\ 0 \notin undone'
    BY <1>5 DEF OwnInv, NoDefs, SignatureInv, TypeInv, ServerOK
  <2> QED
    BY <1>1, <2>1 DEF KnownTo, Everyone
<1>7. KnownInv'
  <2>1. remote \in KnownTo'[NoSession] /\ sig \in KnownTo'[NoSession]
    BY <1>4, SetAssumption DEF SignatureInv, KnownInv, Everyone
  <2>2. ASSUME NEW u \in Sessions
        PROVE  /\ snap'[u] \in KnownTo'[NoSession]
               /\ pc'[u] = "promote" => own'[u] = NoOwn
               /\ \A i \in 1 .. Len(pending'[u]) : pending'[u][i] \in KnownTo'[u]
    <3>1. CASE u = s
      BY <1>1, <1>6, <3>1 DEF SignatureInv, TypeInv, TxOK
    <3>2. CASE u # s
      <4>1. snap'[u] = snap[u] /\ pending'[u] = pending[u] /\ pc'[u] = pc[u]
        BY <1>1, <3>2 DEF SignatureInv, TypeInv, TxOK, CallOK, Goto
      <4> QED
        BY <1>3, <1>4, <3>2, <4>1, SetAssumption DEF SignatureInv, KnownInv, Everyone
    <3> QED
      BY <3>1, <3>2
  <2> QED
    BY <2>1, <2>2 DEF KnownInv
<1> QED
  BY <1>5, <1>7 DEF SignatureInv

\* Committing makes the DDL of s, and with it what s has staged, known to everyone.
LEMMA CommitKnown ==
  ASSUME SignatureInv, TypeInv', LockControl', NEW s \in Sessions, Commit(s)
  PROVE  SignatureInv'
<1>1. /\ own \in [Sessions -> [Names -> Stamps \cup {NoChange}]]
      /\ own' = [own EXCEPT ![s] = NoOwn] /\ remote' = Latest(s) /\ NoDefs \in Defs
      /\ snap' = [snap EXCEPT ![s] = NoDefs] /\ UNCHANGED <<nextStamp, undone, pending, sig>>
      /\ Goto(s, "promote")
  BY OnlyType, SetAssumption
  DEF SignatureInv, TypeInv, TxOK, Commit, RemoteChanges, Stamps
<1>2. \A m \in Names : own'[s][m] = NoChange
  BY <1>1 DEF NoOwn
<1>3. \A u \in Sessions \ {s} : own'[u] = own[u]
  BY <1>1
<1>4. \A x \in Everyone : KnownTo[x] \subseteq KnownTo'[x]
  <2>1. \A u \in Sessions, n \in Names : own'[u][n] > 0 => own'[u][n] = own[u][n]
    BY <1>2, <1>3 DEF NoChange
  <2> QED
    BY <1>1, <2>1, NewStamp
<1>5. KnownTo[s] \subseteq KnownTo'[NoSession]
  <2> SUFFICES ASSUME NEW defs \in KnownTo[s] PROVE defs \in KnownTo'[NoSession]
    OBVIOUS
  <2>1. /\ defs \in Defs
        /\ \A n \in Names :
             /\ defs[n] < nextStamp /\ defs[n] \notin undone
             /\ \A u \in Sessions \ {s}, m \in Names : own[u][m] > 0 => defs[n] # own[u][m]
    BY DEF KnownTo, Everyone
  <2>2. \A n \in Names, u \in Sessions, m \in Names : own'[u][m] > 0 => defs[n] # own'[u][m]
    BY <1>2, <1>3, <2>1 DEF NoChange
  <2> QED
    BY <1>1, <2>1, <2>2 DEF KnownTo, Everyone
<1>6. OwnInv'
  <2>1. ASSUME NEW u \in Sessions, NEW n \in Names, own'[u][n] > 0
        PROVE  /\ own'[u][n] < nextStamp /\ own'[u][n] \notin undone
               /\ \A v \in Sessions \ {u}, m \in Names : own'[v][m] # own'[u][n]
    <3>1. u # s /\ own'[u][n] = own[u][n]
      BY <1>2, <1>3, <2>1 DEF NoChange
    <3>2. /\ own[u][n] < nextStamp /\ own[u][n] \notin undone
          /\ \A v \in Sessions \ {u}, m \in Names : own[v][m] # own[u][n]
      BY <2>1, <3>1 DEF SignatureInv, OwnInv
    <3> QED
      BY <1>2, <1>3, <2>1, <3>1, <3>2 DEF NoChange
  <2> QED
    BY <1>1, <2>1 DEF SignatureInv, OwnInv
<1>7. NoDefs \in KnownTo'[NoSession]
  <2>1. \A n \in Names : NoDefs[n] = 0 /\ 0 < nextStamp' /\ 0 \notin undone'
    BY <1>1, <1>6 DEF OwnInv, NoDefs, SignatureInv, TypeInv, ServerOK
  <2> QED
    BY <1>1, <2>1 DEF KnownTo, Everyone
<1>8. KnownInv'
  <2>1. remote' \in KnownTo'[NoSession] /\ sig' \in KnownTo'[NoSession]
    BY <1>1, <1>4, <1>5, ViewKnown DEF SignatureInv, KnownInv, Everyone
  <2>2. ASSUME NEW u \in Sessions
        PROVE  /\ snap'[u] \in KnownTo'[NoSession]
               /\ pc'[u] = "promote" => own'[u] = NoOwn
               /\ \A i \in 1 .. Len(pending'[u]) : pending'[u][i] \in KnownTo'[u]
    <3>1. snap'[u] \in KnownTo'[NoSession]
      BY <1>1, <1>4, <1>7 DEF SignatureInv, TypeInv, TxOK, KnownInv, Everyone
    <3>2. pc'[u] = "promote" => own'[u] = NoOwn
      BY <1>1 DEF SignatureInv, TypeInv, CallOK, KnownInv, Goto
    <3> QED
      BY <1>1, <1>4, <3>1, <3>2 DEF SignatureInv, KnownInv, Everyone
  <2> QED
    BY <2>1, <2>2 DEF KnownInv
<1> QED
  BY <1>6, <1>8 DEF SignatureInv

LEMMA ExternalKnown ==
  ASSUME SignatureInv, TypeInv', LockControl', ExternalDdl
  PROVE  SignatureInv'
<1>1. PICK n \in Names, stamp \in {nextStamp, 0} :
        /\ remote' = [remote EXCEPT ![n] = stamp]
        /\ nextStamp' = nextStamp + 1 /\ UNCHANGED <<undone, txVars, sig, pc>>
  BY DEF ExternalDdl, RemoteChanges
<1>2. /\ nextStamp \in Nat /\ remote \in KnownTo[NoSession]
      /\ own \in [Sessions -> [Names -> Stamps \cup {NoChange}]]
      /\ \A st \in undone : st \in Nat /\ st > 0 /\ st < nextStamp
      /\ \A u \in Sessions, m \in Names : own[u][m] > 0 => own[u][m] < nextStamp
  BY DEF SignatureInv, TypeInv, ServerOK, TxOK, KnownInv, OwnInv, Stamps
<1>3. \A x \in Everyone : KnownTo[x] \subseteq KnownTo'[x]
  BY <1>1, NewStamp
<1>4. OwnInv'
  <2>1. \A st \in undone : st < nextStamp'
    BY <1>1, <1>2
  <2>2. \A u \in Sessions, m \in Names : own[u][m] > 0 => own[u][m] < nextStamp'
    BY <1>1, <1>2 DEF Stamps, NoChange
  <2> QED
    BY <1>1, <2>1, <2>2 DEF SignatureInv, OwnInv
<1>5. remote' \in KnownTo'[NoSession]
  <2>1. /\ remote' \in Defs /\ remote \in KnownTo'[NoSession]
    BY <1>2, <1>3 DEF TypeInv, ServerOK, Everyone
  <2>2. /\ stamp < nextStamp' /\ stamp \notin undone'
        /\ \A u \in Sessions, m \in Names : own'[u][m] > 0 => stamp # own'[u][m]
    BY <1>1, <1>2 DEF Stamps, NoChange
  <2>3. \A m \in Names : remote'[m] = remote[m] \/ remote'[m] = stamp
    BY <1>1, <1>2 DEF KnownTo, Everyone, Defs
  <2> QED
    BY <2>1, <2>2, <2>3 DEF KnownTo, Everyone
<1>6. KnownInv'
  BY <1>1, <1>3, <1>5 DEF SignatureInv, KnownInv, Everyone
<1> QED
  BY <1>4, <1>6 DEF SignatureInv

LEMMA ProgressKnown ==
  ASSUME SignatureInv, TypeInv', LockControl', NEW s \in Sessions, Progress(s)
  PROVE  SignatureInv'
<1>1. /\ remote \in KnownTo[NoSession] /\ sig \in KnownTo[NoSession]
      /\ remote \in KnownTo[s] /\ View(s) \in KnownTo[s]
      /\ \A u \in Sessions : \A i \in 1 .. Len(pending[u]) : pending[u][i] \in KnownTo[u]
  BY KnownToAll, ViewKnown DEF SignatureInv, KnownInv
<1>2. ASSUME NEW label \in Labels \ {"promote"}, Goto(s, label) \/ UNCHANGED pc
      PROVE  \A u \in Sessions : pc'[u] = "promote" => pc[u] = "promote"
  BY <1>2 DEF SignatureInv, TypeInv, CallOK, Goto
<1>3. ASSUME UNCHANGED <<serverVars, own, pending, sig>>, Begin(s) \/ UNCHANGED snap,
             NEW label \in Labels \ {"promote"}, Goto(s, label) \/ UNCHANGED pc
      PROVE  SignatureInv'
  BY <1>1, <1>2, <1>3, BeginKnown, KnownStep
<1>4. ASSUME UNCHANGED <<serverVars, own, snap>>, NEW signature \in {remote, View(s)},
             RefreshStalenessSignature(s, signature), signature = remote \/ tx[s] = "started",
             NEW label \in Labels \ {"promote"}, Goto(s, label)
      PROVE  SignatureInv'
  BY <1>1, <1>2, <1>4, BeginKnown, RefreshKnown, KnownStep
<1>5. ASSUME NEW defs, Answer(s, defs)
      PROVE  \E label \in Labels \ {"promote"} : Goto(s, label)
  BY <1>5 DEF Answer, Return, Labels
<1>6. CASE TryLoadEntries(s) /\ ~FinishLoad(s)
  BY <1>3, <1>6
  DEF TryLoadEntries, TryUnloaded, TryUnchecked, TryChecked, StillCurrent, Stale, LoadedMeanwhile,
      LockToLoad, TakeLoadLock, Load, LoadSlice, LoadQuery, InsertLoaded, Labels
<1>7. CASE FinishLoad(s)
  BY <1>4, <1>7 DEF FinishLoad, Labels
<1>8. CASE ScanEntries(s) \/ FindEntry(s)
  BY <1>3, <1>5, <1>8 DEF ScanEntries, FindEntry, Return, Labels
<1>9. CASE LockToReload(s) \/ ReloadNothing(s) \/ ReloadEntry(s)
  BY <1>3, <1>5, <1>9 DEF LockToReload, ReloadNothing, ReloadEntry, Labels
<1>10. CASE FinishReload(s)
  BY <1>4, <1>5, <1>10 DEF FinishReload
<1>11. CASE Ddl(s)
  BY <1>11, DdlKnown
<1>12. CASE DdlFails(s)
  BY <1>12, DiscardKnown DEF DdlFails
<1>13. CASE ApplyCreate(s) \/ ApplyDrop(s) \/ ApplyAlter(s)
  BY <1>3, <1>13 DEF ApplyCreate, ApplyDrop, ApplyAlter, Labels
<1>14. CASE Restage(s)
  BY <1>4, <1>14 DEF Restage, Labels, SignatureInv, LockControl, LockInv
<1>15. CASE Promote(s)
  <2>1. /\ pending[s] \in Seq(Defs) /\ pending[s] # <<>> /\ sig' = Head(pending[s])
        /\ pending' = [pending EXCEPT ![s] = Tail(@)]
        /\ UNCHANGED <<serverVars, own, snap, tx, pc>> /\ own[s] = NoOwn
    BY <1>15 DEF SignatureInv, TypeInv, TxOK, KnownInv, Promote
  <2>2. /\ sig' = pending[s][1] /\ 1 \in 1 .. Len(pending[s])
        /\ \A i \in 1 .. Len(Tail(pending[s])) :
             i + 1 \in 1 .. Len(pending[s]) /\ Tail(pending[s])[i] = pending[s][i + 1]
    BY <2>1
  <2>3. KnownTo[s] \subseteq KnownTo[NoSession]
    BY <2>1 DEF KnownTo, Everyone, NoOwn, NoChange
  <2>4. /\ pending'[s] = Tail(pending[s])
        /\ \A u \in Sessions \ {s} : pending'[u] = pending[u]
    BY <2>1 DEF SignatureInv, TypeInv, TxOK
  <2>5. \A u \in Sessions : \A i \in 1 .. Len(pending'[u]) : pending'[u][i] \in KnownTo[u]
    <3>1. \A i \in 1 .. Len(pending'[s]) : pending'[s][i] \in KnownTo[s]
      BY <1>1, <2>2, <2>4
    <3> QED
      BY <1>1, <2>4, <3>1
  <2>6. sig' \in KnownTo[NoSession]
    BY <1>1, <2>2, <2>3
  <2> QED
    BY <2>1, <2>5, <2>6, BeginKnown, KnownStep
<1>16. CASE CommitEnds(s) \/ CallEnds(s) \/ PoolThrows(s)
  BY <1>3, <1>16 DEF CommitEnds, CallEnds, PoolThrows, Return, Labels
<1> QED
  BY <1>6, <1>7, <1>8, <1>9, <1>10, <1>11, <1>12, <1>13, <1>14, <1>15, <1>16
  DEF Progress, Reload, Change

LEMMA SignatureInvariant == Spec => []SignatureInv
<1>1. SignatureInv /\ [Next]_vars => SignatureInv'
  <2> SUFFICES ASSUME SignatureInv, [Next]_vars PROVE SignatureInv'
    OBVIOUS
  <2>1. TypeInv' /\ LockControl'
    BY TypeStep, LockStep DEF SignatureInv
  <2>2. ASSUME NEW s \in Sessions, Call(s)
        PROVE  SignatureInv'
    <3>1. \A u \in Sessions : pc'[u] = "promote" => pc[u] = "promote"
      BY <2>2 DEF SignatureInv, TypeInv, CallOK, Call, Goto
    <3> QED
      BY <2>1, <2>2, <3>1, KnownStep, BeginKnown DEF SignatureInv, KnownInv, Call
  <2>3. ASSUME NEW s \in Sessions, Rollback(s)
        PROVE  SignatureInv'
    BY <2>1, <2>3, DiscardKnown DEF Rollback
  <2>4. CASE UNCHANGED vars
    BY <2>1, <2>4, KnownStep DEF vars, SignatureInv, KnownInv
  <2> QED
    BY <2>1, <2>2, <2>3, <2>4, ProgressKnown, CommitKnown, ExternalKnown DEF Next
<1> QED
  BY <1>1, KnownInit, PTL DEF Spec

\* The signature in force never holds DDL that is open or was rolled back, however loads,
\* reloads, commits and rollbacks of the sessions interleave: a signature read while the
\* transaction is open waits in pending_signatures for its commit.
THEOREM SetSignatureCommitted == Spec => []SignatureCommitted
<1>1. SignatureInv => SignatureCommitted
  BY SetAssumption DEF SignatureInv, KnownInv, KnownTo, Everyone, SignatureCommitted
<1> QED
  BY <1>1, SignatureInvariant, PTL

-------------------------------------------------------------------------------
(* Lookups.                                                                *)

\* LookupFindsStable for one session.
FoundOrMissing(s) ==
  Returns(s, "lookup") /\ quiet[s] /\ View(s)[call[s].name] # 0 => ret[s] # NoDefs

\* A session keeps its view while nothing is committed, also when it begins its
\* remote transaction.
LEMMA ViewKept ==
  ASSUME TypeInv, NEW s \in Sessions, UNCHANGED <<remote, own[s]>>,
         UNCHANGED <<tx[s], snap[s]>> \/ Begin(s)
  PROVE  View(s)' = View(s)
BY DEF TypeInv, TxOK, Begin, View

\* What the others do while s has its answer: they commit, which s notes, or they leave
\* the view of s alone.
LEMMA AnswerKept ==
  ASSUME TypeInv, NEW s \in Sessions, FoundOrMissing(s),
         UNCHANGED <<pc[s], call[s], ret[s], own[s], tx[s], snap[s]>>,
         UNCHANGED <<remote, quiet[s]>> \/ \E new : RemoteChanges(new)
  PROVE  FoundOrMissing(s)'
<1>1. ASSUME pc[s] = "returned", quiet'[s]
      PROVE  quiet[s] /\ remote' = remote
  BY <1>1 DEF RemoteChanges
<1> QED
  BY <1>1, ViewKept DEF FoundOrMissing, Returns

LEMMA OtherAnswers ==
  ASSUME TypeInv, NEW s \in Sessions, NEW u \in Sessions \ {s}, FoundOrMissing(s),
         Call(u) \/ Progress(u) \/ Commit(u) \/ Rollback(u)
  PROVE  FoundOrMissing(s)'
<1> USE DEF TypeInv, TxOK, CallOK
<1>1. ASSUME NEW defs, Answer(u, defs)
      PROVE  UNCHANGED <<pc[s], ret[s]>>
  BY <1>1 DEF Answer, Return, Goto
<1>2. ASSUME Begin(u)
      PROVE  UNCHANGED <<tx[s], snap[s]>>
  BY <1>2 DEF Begin
<1>3. ASSUME Discard(u)
      PROVE  UNCHANGED <<own[s], tx[s], snap[s]>>
  BY <1>3 DEF Discard
<1>4. CASE TryLoadEntries(u)
  <2>1. UNCHANGED <<remote, own, call, ret, quiet>> /\ UNCHANGED <<pc[s], tx[s], snap[s]>>
    BY <1>2, <1>4
    DEF TryLoadEntries, TryUnloaded, TryUnchecked, TryChecked, StillCurrent, Stale,
        LoadedMeanwhile, LockToLoad, TakeLoadLock, Load, LoadSlice, LoadQuery, InsertLoaded,
        FinishLoad, Goto
  <2> QED
    BY <2>1, AnswerKept
<1>5. CASE ScanEntries(u) \/ FindEntry(u)
  <2>1. UNCHANGED <<remote, own, tx, snap, quiet>> /\ UNCHANGED <<pc[s], call[s], ret[s]>>
    BY <1>1, <1>5 DEF ScanEntries, FindEntry, Return, Goto
  <2> QED
    BY <2>1, AnswerKept
<1>6. CASE Reload(u)
  <2>1. UNCHANGED <<remote, own, call, quiet>> /\ UNCHANGED <<pc[s], ret[s], tx[s], snap[s]>>
    BY <1>1, <1>2, <1>6
    DEF Reload, LockToReload, ReloadNothing, ReloadEntry, FinishReload, Goto
  <2> QED
    BY <2>1, AnswerKept
<1>7. CASE Change(u)
  <2>1. UNCHANGED <<remote, call, ret, quiet>> /\ UNCHANGED <<pc[s], own[s], tx[s], snap[s]>>
    BY <1>2, <1>3, <1>7
    DEF Change, Ddl, DdlFails, ApplyCreate, ApplyDrop, ApplyAlter, Restage, Goto
  <2> QED
    BY <2>1, AnswerKept
<1>8. CASE Promote(u) \/ CommitEnds(u) \/ CallEnds(u) \/ PoolThrows(u) \/ Call(u) \/ Rollback(u)
  <2>1. UNCHANGED remote
        /\ UNCHANGED <<pc[s], call[s], ret[s], own[s], tx[s], snap[s], quiet[s]>>
    BY <1>3, <1>8 DEF Promote, CommitEnds, CallEnds, PoolThrows, Call, Rollback, Return, Goto
  <2> QED
    BY <2>1, AnswerKept
<1>9. CASE Commit(u)
  <2>1. UNCHANGED <<pc[s], call[s], ret[s], own[s], tx[s], snap[s]>>
    BY <1>9 DEF Commit, Goto
  <2> QED
    BY <1>9, <2>1, AnswerKept DEF Commit
<1> QED
  BY <1>4, <1>5, <1>6, <1>7, <1>8, <1>9 DEF Progress

\* The session itself: it misses a name only after it asked the server for it.
LEMMA OwnAnswer ==
  ASSUME TypeInv, NEW s \in Sessions, FoundOrMissing(s),
         Call(s) \/ Progress(s) \/ Commit(s) \/ Rollback(s)
  PROVE  FoundOrMissing(s)'
<1> SUFFICES ASSUME pc'[s] = "returned", call'[s].op = "lookup", quiet'[s],
                    View(s)'[call'[s].name] # 0
             PROVE  ret'[s] # NoDefs
  BY DEF FoundOrMissing, Returns
<1> USE DEF TypeInv, CallOK
<1>1. ASSUME NEW label \in Labels, Goto(s, label)
      PROVE  label = "returned"
  BY <1>1 DEF Goto
<1>2. CASE TryLoadEntries(s)
  <2>1. UNCHANGED pc /\ pc[s] = "insert"
    BY <1>1, <1>2
    DEF TryLoadEntries, TryUnloaded, TryUnchecked, TryChecked, StillCurrent, Stale,
        LoadedMeanwhile, LockToLoad, TakeLoadLock, Load, LoadSlice, LoadQuery, InsertLoaded,
        FinishLoad, Labels
  <2> QED
    BY <2>1
<1>3. CASE ScanEntries(s)
  BY <1>3 DEF ScanEntries
<1>4. CASE FindEntry(s)
  <2> DEFINE found == Found(call[s].name)
  <2>1. found # NoName /\ call[s].op = "lookup" /\ Answer(s, Only(found, entries[found]))
    BY <1>1, <1>4 DEF FindEntry, Labels
  <2>2. found \in Names /\ entries[found] # 0
    BY <1>4, <2>1, FoundType DEF FindEntry, ControlInv, CallAt
  <2>3. Only(found, entries[found]) # NoDefs
    BY <2>2 DEF Only, NoDefs
  <2> QED
    BY <2>1, <2>3 DEF Answer, Return
<1>5. CASE ReloadNothing(s)
  <2>1. View(s)' = View(s) /\ UNCHANGED call
    BY <1>5, ViewKept DEF ReloadNothing
  <2> QED
    BY <1>5, <2>1 DEF ReloadNothing
<1>6. CASE FinishReload(s)
  <2>1. buf[s] # NoDefs /\ call[s].op = "lookup" /\ Answer(s, buf[s])
    BY <1>6 DEF FinishReload, ControlInv, CallAt
  <2> QED
    BY <2>1 DEF Answer, Return
<1>7. CASE LockToReload(s) \/ ReloadEntry(s)
  BY <1>1, <1>7 DEF LockToReload, ReloadEntry, Labels
<1>8. CASE Change(s)
  <2>1. UNCHANGED call /\ pc[s] \in {"ddl", "apply", "restage"}
    BY <1>8 DEF Change, Ddl, DdlFails, ApplyCreate, ApplyDrop, ApplyAlter, Restage
  <2> QED
    BY <2>1 DEF ControlInv, CallAt
<1>9. CASE Promote(s) \/ CommitEnds(s) \/ CallEnds(s) \/ Call(s) \/ Commit(s) \/ Rollback(s)
  <2>1. (\E label \in {"idle", "ddl", "try", "promote"} : Goto(s, label))
        \/ (UNCHANGED pc /\ pc[s] \in {"promote", "idle"})
    BY <1>9 DEF Promote, CommitEnds, CallEnds, Call, Commit, Rollback
  <2> QED
    BY <1>1, <2>1 DEF Labels
<1>10. CASE PoolThrows(s)
  BY <1>10 DEF PoolThrows
<1> QED
  BY <1>2, <1>3, <1>4, <1>5, <1>6, <1>7, <1>8, <1>9, <1>10 DEF Progress, Reload

\* A lookup never misses a table that stays in its session's view of the server: whatever
\* the other sessions load, clear, reload, drop or roll back, a miss in the maps is
\* followed by a query of the session's own transaction.
THEOREM LookupsFind == Spec => []LookupFindsStable
<1>1. Init => LookupFindsStable
  BY DEF Init, LookupFindsStable, Returns
<1>2. TypeInv /\ LookupFindsStable /\ [Next]_vars => LookupFindsStable'
  <2> SUFFICES ASSUME TypeInv, \A s \in Sessions : FoundOrMissing(s), [Next]_vars,
                      NEW s \in Sessions
               PROVE  FoundOrMissing(s)'
    BY DEF LookupFindsStable, FoundOrMissing
  <2>1. ASSUME NEW u \in Sessions, Call(u) \/ Progress(u) \/ Commit(u) \/ Rollback(u)
        PROVE  FoundOrMissing(s)'
    <3>1. CASE u = s
      BY <2>1, <3>1, OwnAnswer
    <3>2. CASE u # s
      BY <2>1, <3>2, OtherAnswers
    <3> QED
      BY <3>1, <3>2
  <2>2. CASE ExternalDdl
    BY <2>2, AnswerKept DEF ExternalDdl
  <2>3. CASE UNCHANGED vars
    BY <2>3, AnswerKept DEF vars
  <2> QED
    BY <2>1, <2>2, <2>3 DEF Next
<1> QED
  BY <1>1, <1>2, TypeInvariant, PTL DEF Spec

-------------------------------------------------------------------------------
\* A session that refreshes the signature has load_lock, or only stages the signature.
LEMMA RefreshGuarded ==
  ASSUME NEW s \in Sessions, NEW signature, RefreshStalenessSignature(s, signature),
         tx[s] = "started" \/ loadLock = s, sig' # sig
  PROVE  loadLock = s
BY DEF RefreshStalenessSignature

\* staleness_signature is written by the holder of load_lock, or by a promotion while
\* nobody holds it: CREATE, DROP and CREATE VIEW, which take no lock, only stage theirs.
THEOREM SignatureGuarded == Spec => SignatureWrittenUnderLock
<1> DEFINE Guarded == IF pc' = pc THEN loadLock = NoSession
                      ELSE \E s \in Sessions : pc'[s] # pc[s] /\ loadLock = s
<1>1. LockControl /\ [Next]_vars => [sig' # sig => Guarded]_vars
  <2> SUFFICES ASSUME LockControl, Next, sig' # sig PROVE Guarded
    OBVIOUS
  <2> HIDE DEF Guarded
  <2>1. ASSUME NEW s \in Sessions, NEW label \in Labels, Goto(s, label), pc[s] # label, loadLock = s
        PROVE  Guarded
    BY <2>1 DEF Guarded, Goto, LockControl, ControlOK
  <2>2. ASSUME NEW s \in Sessions, FinishLoad(s)
        PROVE  Guarded
    BY <2>1, <2>2, RefreshGuarded DEF FinishLoad, LockControl, LockInv, Labels
  <2>3. ASSUME NEW s \in Sessions, FinishReload(s)
        PROVE  Guarded
    <3>1. loadLock = s /\ pc[s] = "resign"
      BY <2>3, RefreshGuarded DEF FinishReload, LockControl, LockInv
    <3>2. Goto(s, "returned") \/ Goto(s, "ddl")
      BY <2>3 DEF FinishReload, Answer, Return
    <3> QED
      BY <2>1, <3>1, <3>2 DEF Labels
  <2>4. ASSUME NEW s \in Sessions, Restage(s)
        PROVE  FALSE
    BY <2>4, RefreshGuarded DEF Restage, LockControl, LockInv, RefreshStalenessSignature
  <2>5. ASSUME NEW s \in Sessions, Promote(s)
        PROVE  Guarded
    BY <2>5 DEF Promote, Guarded
  <2>6. ASSUME NEW s \in Sessions, TryLoadEntries(s)
        PROVE  Guarded
    BY <2>2, <2>6 DEF TryLoadEntries, TryUnloaded, TryUnchecked, TryChecked, StillCurrent, Stale,
                      LoadedMeanwhile, LockToLoad, TakeLoadLock, Load, LoadSlice, LoadQuery,
                      InsertLoaded
  <2>7. ASSUME NEW s \in Sessions, ScanEntries(s) \/ FindEntry(s) \/ Reload(s)
        PROVE  Guarded
    BY <2>3, <2>7 DEF ScanEntries, FindEntry, Reload, LockToReload, ReloadNothing, ReloadEntry
  <2>8. ASSUME NEW s \in Sessions, Change(s)
        PROVE  Guarded
    BY <2>4, <2>8 DEF Change, Ddl, DdlFails, ApplyCreate, ApplyDrop, ApplyAlter
  <2>9. ASSUME NEW s \in Sessions,
               CommitEnds(s) \/ CallEnds(s) \/ PoolThrows(s) \/ Call(s) \/ Commit(s) \/ Rollback(s)
        PROVE  FALSE
    BY <2>9 DEF CommitEnds, CallEnds, PoolThrows, Call, Commit, Rollback
  <2>10. CASE ExternalDdl
    BY <2>10 DEF ExternalDdl
  <2> QED
    BY <2>5, <2>6, <2>7, <2>8, <2>9, <2>10 DEF Next, Progress
<1> QED
  BY <1>1, LockInvariant, PTL DEF Spec, SignatureWrittenUnderLock

\* load_lock is never left behind: its holder is inside a load or a reload, also after a
\* staleness query that threw.
THEOREM LoadLockInsideLoad ==
  Spec => [](\A s \in Sessions : loadLock = s => pc[s] \in {"load", "insert", "reload", "resign"})
<1>1. LockControl => \A s \in Sessions : loadLock = s => pc[s] \in {"load", "insert", "reload", "resign"}
  BY DEF LockControl, LockInv
<1> QED
  BY <1>1, LockInvariant, PTL
===============================================================================

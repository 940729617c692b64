------------------------- MODULE CatalogAnswersProofs -------------------------
(***************************************************************************)
(* Proofs about CatalogSet where not every answer is right, but those of   *)
(* some sessions are: what a session that works alone sees of its own DDL, *)
(* and what readers list whose calls do not overlap.                       *)
(***************************************************************************)
EXTENDS CatalogSetProofs

USE DEF serverVars, txVars, cacheVars, lockVars, callVars

-------------------------------------------------------------------------------
(* A session alone.                                                        *)

\* One session, which does not create tables or views; other clients may do what they like.
WorksAlone == (\A s, u \in Sessions : s = u) /\ Ops \cap {"create", "view"} = {}

Altered(s) == {n \in Names : own[s][n] > 0}

\* The slice of the schemas' query has been read before anything is altered, and a loaded
\* set holds what was altered, but for the moment between an ALTER and the clearing.
AloneAt(s) ==
  /\ pc[s] \notin {"idle", "try", "check", "wait", "load", "returned", "promote"} \/ loaded
       => slice = NoSlice
  /\ slice # NoSlice => Altered(s) = {}
  /\ pc[s] \in {"find", "reload_wait", "reload", "resign"} => loaded
  /\ ~(pc[s] = "apply" /\ call[s].op = "alter") =>
       \A n \in Altered(s) : entries[n] = own[s][n] \/ (entries[n] = 0 /\ ~loaded)
  /\ pc[s] \in {"load", "insert"} => ~loaded
  /\ pc[s] = "insert" =>
       \A n \in Altered(s) : /\ buf[s][n] \in {0, own[s][n]}
                             /\ entries[n] = 0 => buf[s][n] = own[s][n]
  /\ pc[s] \in {"reload_wait", "reload", "resign"} /\ call[s].op = "lookup"
       => call[s].name \notin Altered(s)
  /\ pc[s] = "apply" /\ call[s].op = "drop" => call[s].name \notin Altered(s)
  /\ Returns(s, "lookup") => call[s].name \in Names
  /\ Returns(s, "lookup") /\ call[s].name \in Altered(s)
       => ret[s][call[s].name] = own[s][call[s].name]

AloneInv == \A s \in Sessions : AloneAt(s)

\* Only what was not altered is left out of a reload.
LEMMA AloneAltered ==
  ASSUME TypeInv, NEW s \in Sessions
  PROVE  /\ \A n \in Altered(s) : View(s)[n] = own[s][n]
         /\ own[s] \in [Names -> Stamps \cup {NoChange}]
BY DEF TypeInv, TxOK, Altered, View, Overlay, NoChange

LEMMA AloneTries ==
  ASSUME TypeInv, NEW s \in Sessions, AloneAt(s),
         \/ TryUnloaded(s) \/ TryUnchecked(s) \/ TryChecked(s) \/ StillCurrent(s)
         \/ Stale(s) \/ LoadedMeanwhile(s) \/ LockToLoad(s)
  PROVE  AloneAt(s)'
<1> USE DEF TypeInv, CallOK, CacheOK, AloneAt, Altered, Returns, Goto
<1>1. CASE \/ TryUnloaded(s) \/ TryUnchecked(s) \/ TryChecked(s) \/ StillCurrent(s)
           \/ LoadedMeanwhile(s)
  BY <1>1 DEF TryUnloaded, TryUnchecked, TryChecked, StillCurrent, LoadedMeanwhile
<1>2. CASE Stale(s)
  BY <1>2 DEF Stale, TakeLoadLock, ClearEntries, NoDefs
<1>3. CASE LockToLoad(s)
  BY <1>3 DEF LockToLoad, TakeLoadLock
<1> QED
  BY <1>1, <1>2, <1>3

LEMMA AloneLoads ==
  ASSUME TypeInv, NEW s \in Sessions, AloneAt(s), Load(s)
  PROVE  AloneAt(s)'
<1> USE DEF TypeInv, CallOK, CacheOK, AloneAt, Altered, Returns, Goto
<1>1. CASE LoadSlice(s)
  BY <1>1 DEF LoadSlice
<1>2. CASE LoadQuery(s)
  <2>1. /\ pc[s] = "load" /\ slice = NoSlice /\ pc' = [pc EXCEPT ![s] = "insert"]
        /\ buf'[s] = View(s) /\ UNCHANGED <<own, entries, loaded, slice, call>>
    BY <1>2 DEF LoadQuery
  <2> QED
    BY <2>1, AloneAltered
<1>3. CASE InsertLoaded(s)
  <2>1. PICK m \in Names : /\ buf[s][m] # 0 /\ CreateEntry(m, buf[s][m])
                           /\ buf' = [buf EXCEPT ![s][m] = 0]
    BY <1>3 DEF InsertLoaded
  <2>2. pc[s] = "insert" /\ UNCHANGED <<own, loaded, slice, pc, call, ret>>
    BY <1>3 DEF InsertLoaded
  <2>3. \A n \in Names : /\ buf'[s][n] = IF n = m THEN 0 ELSE buf[s][n]
                         /\ entries'[n] = IF n = m /\ entries[m] = 0 THEN buf[s][m] ELSE entries[n]
    BY <2>1 DEF CreateEntry, Defs
  <2>4. \A n \in Altered(s) : /\ entries[n] = own[s][n] \/ entries[n] = 0
                              /\ buf[s][n] \in {0, own[s][n]}
                              /\ entries[n] = 0 => buf[s][n] = own[s][n]
    BY <2>2
  <2>5. ASSUME NEW n \in Altered(s)
        PROVE  /\ entries'[n] = own[s][n] \/ entries'[n] = 0
               /\ buf'[s][n] \in {0, own[s][n]}
               /\ entries'[n] = 0 => buf'[s][n] = own[s][n]
    BY <2>1, <2>3, <2>4, <2>5
  <2> QED
    BY <2>2, <2>5
<1>4. CASE FinishLoad(s)
  BY <1>4 DEF FinishLoad, NoDefs
<1> QED
  BY <1>1, <1>2, <1>3, <1>4 DEF Load

LEMMA AloneFinds ==
  ASSUME TypeInv, NEW s \in Sessions, AloneAt(s), ScanEntries(s) \/ FindEntry(s) \/ Reload(s)
  PROVE  AloneAt(s)'
<1> USE DEF TypeInv, CallOK, CacheOK, AloneAt, Altered, Returns, Goto, ControlInv, CallAt
<1>1. CASE ScanEntries(s)
  BY <1>1 DEF ScanEntries, Return
<1>2. CASE FindEntry(s)
  <2> DEFINE name == call[s].name
             found == Found(name)
  <2>1. /\ pc[s] = "find" /\ loaded /\ UNCHANGED <<own, entries, loaded, slice, buf>>
        /\ \A n \in Altered(s) : entries[n] = own[s][n]
    BY <1>2 DEF FindEntry
  <2>2. pc'[s] \in {"ddl", "returned", "reload_wait"}
    BY <1>2 DEF FindEntry, Answer, Return
  <2>3. ASSUME call'[s].op = "lookup", name \in Altered(s)
        PROVE  pc'[s] = "returned" /\ ret'[s][name] = own[s][name]
    <3>1. found = name /\ name \in Names /\ name # NoName
      BY <2>1, <2>3, SetAssumption DEF Found
    <3>2. call[s].op = "lookup"
      BY <1>2, <2>3 DEF FindEntry
    <3>3. Return(s, Only(name, entries[name]))
      BY <1>2, <3>1, <3>2 DEF FindEntry, Answer
    <3> QED
      BY <2>1, <2>3, <3>1, <3>3 DEF Return, Only
  <2>4. call'[s].op = "lookup" => call'[s].name = name
    BY <1>2 DEF FindEntry
  <2> QED
    BY <2>1, <2>2, <2>3, <2>4
<1>3. CASE LockToReload(s)
  BY <1>3 DEF LockToReload
<1>4. CASE ReloadNothing(s)
  BY <1>4 DEF ReloadNothing, Answer, Return
<1>5. CASE ReloadEntry(s)
  BY <1>5, AloneAltered DEF ReloadEntry, CreateEntry
<1>6. CASE FinishReload(s)
  BY <1>6 DEF FinishReload, Answer, Return
<1> QED
  BY <1>1, <1>2, <1>3, <1>4, <1>5, <1>6 DEF Reload

LEMMA AloneChanges ==
  ASSUME TypeInv, NEW s \in Sessions, WorksAlone, AloneAt(s), Change(s)
  PROVE  AloneAt(s)'
<1> USE DEF TypeInv, CallOK, CacheOK, ControlInv, CallAt, AloneAt, Altered, Returns, Goto,
            WorksAlone
<1>1. CASE Ddl(s)
  <2> DEFINE name == call[s].name
  <2>1. /\ pc[s] = "ddl" /\ call[s].op \in {"drop", "alter"} /\ name \in Names
        /\ pc'[s] = "apply" /\ slice = NoSlice
        /\ UNCHANGED <<entries, loaded, slice, call>>
    BY <1>1 DEF Ddl
  <2>2. CASE call[s].op = "alter"
    BY <2>1, <2>2
  <2>3. CASE call[s].op = "drop"
    <3>1. own' = [own EXCEPT ![s][name] = 0]
      BY <1>1, <2>3 DEF Ddl
    <3>2. \A n \in Names : own'[s][n] = IF n = name THEN 0 ELSE own[s][n]
      BY <3>1 DEF TxOK
    <3> QED
      BY <2>1, <2>3, <3>2
  <2> QED
    BY <2>1, <2>2, <2>3
<1>2. CASE DdlFails(s)
  BY <1>2 DEF DdlFails, Discard, NoOwn, NoChange
<1>3. CASE ApplyCreate(s)
  BY <1>3 DEF ApplyCreate
<1>4. CASE ApplyDrop(s)
  BY <1>4 DEF ApplyDrop
<1>5. CASE ApplyAlter(s)
  BY <1>5 DEF ApplyAlter, ClearEntries, NoDefs
<1>6. CASE Restage(s)
  BY <1>6 DEF Restage
<1> QED
  BY <1>1, <1>2, <1>3, <1>4, <1>5, <1>6 DEF Change

LEMMA AloneTransacts ==
  ASSUME TypeInv, NEW s \in Sessions, WorksAlone, AloneAt(s),
         \/ Promote(s) \/ CommitEnds(s) \/ CallEnds(s) \/ PoolThrows(s) \/ Call(s)
         \/ Commit(s) \/ Rollback(s)
  PROVE  AloneAt(s)'
<1> USE DEF TypeInv, CallOK, CacheOK, AloneAt, Altered, Returns, Goto, WorksAlone
<1>1. CASE Promote(s) \/ CommitEnds(s) \/ CallEnds(s)
  BY <1>1 DEF Promote, CommitEnds, CallEnds
<1>2. CASE PoolThrows(s)
  BY <1>2 DEF PoolThrows, Return
<1>3. CASE Call(s)
  BY <1>3 DEF Call
<1>4. CASE Commit(s)
  BY <1>4 DEF Commit, NoOwn, NoChange
<1>5. CASE Rollback(s)
  BY <1>5 DEF Rollback, Discard, NoOwn, NoChange
<1> QED
  BY <1>1, <1>2, <1>3, <1>4, <1>5

\* A session that works alone sees what its own ALTER TABLE made (AlterTable clears the
\* set), whatever other clients change and whichever queries fail.  With a second session,
\* or after CREATE, a lookup may still return the definition from before.
THEOREM OwnAlterVisible ==
  ASSUME WorksAlone
  PROVE  Spec => []OwnDdlVisible
<1>1. Init => AloneInv
  <2> SUFFICES ASSUME Init, NEW s \in Sessions PROVE AloneAt(s)
    BY DEF AloneInv
  <2>1. pc[s] = "idle"
    BY DEF Init
  <2>2. own[s] = NoOwn
    BY DEF Init
  <2>3. Altered(s) = {}
    BY <2>2 DEF Altered, NoOwn, NoChange
  <2>4. loaded => slice = NoSlice
    BY DEF Init
  <2> QED
    BY <2>1, <2>3, <2>4 DEF AloneAt, Returns
<1>2. TypeInv /\ AloneInv /\ [Next]_vars => AloneInv'
  <2> SUFFICES ASSUME TypeInv, AloneInv, [Next]_vars, NEW s \in Sessions
               PROVE  AloneAt(s)'
    BY DEF AloneInv
  <2>1. AloneAt(s)
    BY DEF AloneInv
  <2>2. ASSUME Call(s) \/ Progress(s) \/ Commit(s) \/ Rollback(s)
        PROVE  AloneAt(s)'
    BY <2>1, <2>2, AloneTries, AloneLoads, AloneFinds, AloneChanges, AloneTransacts
    DEF Progress, TryLoadEntries
  <2>3. CASE ExternalDdl
    BY <2>1, <2>3 DEF ExternalDdl, RemoteChanges, AloneAt, Altered, Returns
  <2>4. CASE UNCHANGED vars
    BY <2>1, <2>4 DEF vars, AloneAt, Altered, Returns
  <2> QED
    BY <2>2, <2>3, <2>4 DEF Next, WorksAlone
<1>3. AloneInv => OwnDdlVisible
  BY DEF AloneInv, AloneAt, OwnDdlVisible, Altered, Returns
<1> QED
  BY <1>1, <1>2, <1>3, TypeInvariant, PTL DEF Spec

-------------------------------------------------------------------------------
(* Readers whose calls do not overlap.                                     *)

\* The settings of the readers: they all check for staleness, at READ COMMITTED, on a set
\* that is loaded by its own query; the server changes between calls, and drops nothing.
ReadersTakeTurns ==
  /\ Ops \subseteq {"lookup", "scan"} /\ StalenessEnabled = Sessions
  /\ ~RepeatableRead /\ ~Sliced /\ ~PoolMayFail
  /\ ~ChangesDuringCalls /\ ~ExternalDrops /\ ~OverlappingCalls

\* Somebody has the server's state as the signature in force, or keeps it for the next COMMIT.
Signed == sig = remote \/ \E s \in Sessions : \E i \in 1 .. Len(pending[s]) : pending[s][i] = remote

ReaderAt(s) ==
  /\ own[s] = NoOwn
  /\ pc[s] \notin {"resign", "ddl", "apply", "restage"}
  /\ pc[s] # "idle" => \A u \in Sessions \ {s} : pc[u] = "idle"
  /\ pc[s] = "check" => chk[s] = remote
  /\ pc[s] \in {"wait", "load", "insert"} => ~loaded
  /\ pc[s] = "insert" =>
       \A n \in Names : /\ buf[s][n] \in {0, remote[n]}
                        /\ entries[n] = remote[n] \/ (entries[n] = 0 /\ buf[s][n] = remote[n])
  /\ pc[s] \in {"find", "reload_wait", "reload"} => loaded /\ entries = remote
  /\ pc[s] \in {"reload_wait", "reload"} => remote[call[s].name] = 0
  /\ Returns(s, "scan") => ret[s] = remote

\* A signature that equals the server's state is that of the loaded entries.
SignedInv == loaded /\ Signed => entries = remote
EmptyInv  == ~loaded /\ (\A s \in Sessions : pc[s] # "insert") => entries = NoDefs
ReaderInv == slice = NoSlice /\ (\A s \in Sessions : ReaderAt(s)) /\ SignedInv /\ EmptyInv

LEMMA ReaderSees ==
  ASSUME TypeInv, NEW s \in Sessions, own[s] = NoOwn, ~RepeatableRead
  PROVE  View(s) = remote /\ Latest(s) = remote
BY DEF TypeInv, ServerOK, Defs, View, Latest, Overlay, NoOwn

\* A step of one session, while the others have no call.
LEMMA ReaderTurn ==
  ASSUME TypeInv, TypeInv', ReaderInv, NEW s \in Sessions, pc[s] # "idle",
         UNCHANGED <<own, slice>>, \A u \in Sessions \ {s} : pc'[u] = pc[u],
         ReaderAt(s)', SignedInv', EmptyInv'
  PROVE  ReaderInv'
<1>1. ASSUME NEW u \in Sessions \ {s}
      PROVE  ReaderAt(u)'
  BY DEF ReaderInv, ReaderAt, Returns
<1> QED
  BY <1>1 DEF ReaderInv

\* One that leaves the set, the server and the signatures alone.
LEMMA ReaderMove ==
  ASSUME TypeInv, TypeInv', ReaderInv, NEW s \in Sessions, pc[s] \notin {"idle", "insert"},
         UNCHANGED <<remote, own, entries, loaded, slice, sig, pending>>,
         NEW label \in Labels, Goto(s, label), ReaderAt(s)'
  PROVE  ReaderInv'
<1>1. \A u \in Sessions \ {s} : pc'[u] = pc[u]
  BY DEF TypeInv, CallOK, Goto
<1>2. SignedInv'
  BY DEF ReaderInv, SignedInv, Signed
<1>3. EmptyInv'
  BY DEF ReaderInv, EmptyInv, ReaderAt
<1> QED
  BY <1>1, <1>2, <1>3, ReaderTurn

LEMMA ReaderTries ==
  ASSUME TypeInv, TypeInv', ReaderInv, ReadersTakeTurns, NEW s \in Sessions, TryLoadEntries(s)
  PROVE  ReaderInv'
<1> USE DEF TypeInv, CallOK, CacheOK
<1>1. ReaderAt(s) /\ slice = NoSlice
  BY DEF ReaderInv
<1>2. ASSUME NEW label \in Labels \ {"insert", "returned"}, Goto(s, label)
      PROVE  pc'[s] = label /\ \A u \in Sessions \ {s} : pc'[u] = pc[u]
  BY <1>2 DEF Goto
<1>3. CASE TryUnloaded(s)
  <2>1. ReaderAt(s)'
    BY <1>1, <1>2, <1>3 DEF TryUnloaded, ReaderAt, Returns, Labels
  <2> QED
    BY <1>3, <2>1, ReaderMove DEF TryUnloaded, Labels
<1>4. CASE TryUnchecked(s)
  BY <1>4 DEF TryUnchecked, ReadersTakeTurns
<1>5. CASE TryChecked(s)
  <2>1. ReaderAt(s)'
    BY <1>1, <1>2, <1>5 DEF TryChecked, ReaderAt, Returns, Labels
  <2> QED
    BY <1>5, <2>1, ReaderMove DEF TryChecked, Labels
<1>6. CASE StillCurrent(s)
  <2>1. loaded /\ entries = remote
    BY <1>1, <1>6 DEF StillCurrent, ReaderAt, ReaderInv, SignedInv, Signed
  <2>2. ReaderAt(s)'
    BY <1>1, <1>2, <1>6, <2>1 DEF StillCurrent, ReaderAt, Returns, Labels
  <2> QED
    BY <1>6, <2>2, ReaderMove DEF StillCurrent, Labels
<1>7. CASE LoadedMeanwhile(s)
  BY <1>1, <1>7 DEF LoadedMeanwhile, ReaderAt
<1>8. CASE Stale(s) \/ LockToLoad(s)
  <2>1. /\ pc[s] \in {"check", "wait"} /\ Goto(s, "load")
        /\ UNCHANGED <<remote, own, slice, call, ret>>
    BY <1>8 DEF Stale, LockToLoad, TakeLoadLock, ClearEntries
  <2>2. \A u \in Sessions : pc[u] # "insert"
    BY <1>1, <2>1 DEF ReaderAt
  <2>3. ~loaded' /\ entries' = NoDefs
    BY <1>1, <1>8, <2>2 DEF Stale, LockToLoad, ClearEntries, ReaderInv, EmptyInv, ReaderAt
  <2>4. ReaderAt(s)'
    BY <1>1, <1>2, <2>1, <2>3 DEF ReaderAt, Returns, Labels
  <2> QED
    BY <1>2, <2>1, <2>3, <2>4, ReaderTurn DEF SignedInv, EmptyInv, Labels
<1>9. CASE LoadSlice(s)
  BY <1>1, <1>9 DEF LoadSlice
<1>10. CASE LoadQuery(s)
  <2>1. /\ pc[s] = "load" /\ Goto(s, "insert") /\ buf'[s] = View(s)
        /\ UNCHANGED <<remote, own, entries, loaded, slice, sig, pending, call, ret>>
    BY <1>10 DEF LoadQuery
  <2>2. ~loaded /\ entries = NoDefs
    BY <1>1, <2>1 DEF ReaderAt, ReaderInv, EmptyInv
  <2>3. buf'[s] = remote
    BY <1>1, <2>1, ReaderSees DEF ReaderAt, ReadersTakeTurns
  <2>4. pc'[s] = "insert" /\ \A u \in Sessions \ {s} : pc'[u] = pc[u]
    BY <2>1 DEF Goto
  <2>5. ReaderAt(s)'
    BY <1>1, <2>1, <2>2, <2>3, <2>4 DEF ReaderAt, Returns, NoDefs
  <2> QED
    BY <2>1, <2>2, <2>4, <2>5, ReaderTurn DEF SignedInv, EmptyInv
<1>11. CASE InsertLoaded(s)
  <2>1. PICK m \in Names : /\ buf[s][m] # 0 /\ CreateEntry(m, buf[s][m])
                           /\ buf' = [buf EXCEPT ![s][m] = 0]
    BY <1>11 DEF InsertLoaded
  <2>2. pc[s] = "insert" /\ UNCHANGED <<remote, own, loaded, slice, pc, call, ret>>
    BY <1>11 DEF InsertLoaded
  <2>3. \A n \in Names : /\ buf'[s][n] = IF n = m THEN 0 ELSE buf[s][n]
                         /\ entries'[n] = IF n = m /\ entries[m] = 0 THEN buf[s][m] ELSE entries[n]
    BY <2>1 DEF CreateEntry, Defs
  <2>4. ~loaded /\ \A n \in Names :
          /\ buf[s][n] \in {0, remote[n]}
          /\ entries[n] = remote[n] \/ (entries[n] = 0 /\ buf[s][n] = remote[n])
    BY <1>1, <2>2 DEF ReaderAt
  <2>5. \A n \in Names :
          /\ buf'[s][n] \in {0, remote[n]}
          /\ entries'[n] = remote[n] \/ (entries'[n] = 0 /\ buf'[s][n] = remote[n])
    BY <2>1, <2>3, <2>4
  <2>6. ReaderAt(s)'
    BY <1>1, <2>2, <2>4, <2>5 DEF ReaderAt, Returns
  <2> QED
    BY <2>2, <2>4, <2>6, ReaderTurn DEF SignedInv, EmptyInv
<1>12. CASE FinishLoad(s)
  <2>1. /\ pc[s] = "insert" /\ buf[s] = NoDefs /\ loaded' /\ Goto(s, "find")
        /\ UNCHANGED <<remote, own, entries, slice, call, ret>>
    BY <1>12 DEF FinishLoad
  <2>2. \A n \in Names : entries[n] = remote[n]
    BY <1>1, <2>1 DEF ReaderAt, NoDefs
  <2>3. entries = remote
    BY <2>2 DEF ServerOK, Defs
  <2>4. ReaderAt(s)'
    BY <1>1, <1>2, <2>1, <2>3 DEF ReaderAt, Returns, Labels
  <2> QED
    BY <1>2, <2>1, <2>3, <2>4, ReaderTurn DEF SignedInv, EmptyInv, Labels
<1> QED
  BY <1>3, <1>4, <1>5, <1>6, <1>7, <1>8, <1>9, <1>10, <1>11, <1>12 DEF TryLoadEntries, Load

LEMMA ReaderFinds ==
  ASSUME TypeInv, TypeInv', ReaderInv, ReadersTakeTurns, NEW s \in Sessions,
         ScanEntries(s) \/ FindEntry(s) \/ Reload(s)
  PROVE  ReaderInv'
<1> USE DEF TypeInv, CallOK, CacheOK
<1>1. ReaderAt(s)
  BY DEF ReaderInv
<1>2. /\ pc[s] = "find" => call[s].op \in {"lookup", "scan"}
      /\ pc[s] = "reload" => call[s].op = "lookup"
  <2>1. call[s].op \in Ops \cup {"none", "failed"} /\ CallAt(s)
    BY DEF ControlInv
  <2> QED
    BY <2>1 DEF ReadersTakeTurns, CallAt
<1>3. ASSUME NEW label \in Labels, Goto(s, label)
      PROVE  pc'[s] = label
  BY <1>3 DEF Goto
<1>4. CASE ScanEntries(s)
  <2>1. pc'[s] = "returned" /\ ret'[s] = remote /\ Goto(s, "returned") /\ pc[s] = "find"
        /\ UNCHANGED <<remote, own, entries, loaded, slice, sig, pending>>
    BY <1>1, <1>3, <1>4 DEF ScanEntries, Return, ReaderAt, Labels
  <2>2. ReaderAt(s)'
    BY <1>1, <2>1 DEF ReaderAt, Goto
  <2> QED
    BY <2>1, <2>2, ReaderMove DEF Labels
<1>5. CASE FindEntry(s)
  <2>1. /\ pc[s] = "find" /\ call[s].op = "lookup"
        /\ UNCHANGED <<remote, own, entries, loaded, slice, sig, pending>>
    BY <1>2, <1>5 DEF FindEntry
  <2>2. UNCHANGED call
    BY <1>5, <2>1 DEF FindEntry
  <2>3. CASE Found(call[s].name) # NoName
    <3>1. Goto(s, "returned")
      BY <1>5, <2>1, <2>3 DEF FindEntry, Answer, Return
    <3>2. ReaderAt(s)'
      BY <1>1, <1>3, <2>1, <2>2, <3>1 DEF ReaderAt, Returns, Labels, Goto
    <3> QED
      BY <2>1, <3>1, <3>2, ReaderMove DEF Labels
  <2>4. CASE Found(call[s].name) = NoName
    <3>1. Goto(s, "reload_wait")
      BY <1>5, <2>4 DEF FindEntry
    <3>2. call[s].name \in Names
      BY <2>1 DEF ControlInv, CallAt
    <3>3. entries[call[s].name] = 0
      BY <2>4, <3>2, SetAssumption DEF Found
    <3>4. ReaderAt(s)'
      BY <1>1, <1>3, <2>1, <2>2, <3>1, <3>3 DEF ReaderAt, Returns, Labels, Goto
    <3> QED
      BY <2>1, <3>1, <3>4, ReaderMove DEF Labels
  <2> QED
    BY <2>3, <2>4
<1>6. CASE LockToReload(s)
  <2>1. ReaderAt(s)'
    BY <1>1, <1>6 DEF LockToReload, ReaderAt, Returns, Goto
  <2> QED
    BY <1>6, <2>1, ReaderMove DEF LockToReload, Labels
<1>7. CASE ReloadNothing(s)
  <2>1. pc[s] = "reload" /\ call[s].op = "lookup"
    BY <1>2, <1>7 DEF ReloadNothing
  <2>2. /\ Goto(s, "returned")
        /\ UNCHANGED <<remote, own, entries, loaded, slice, sig, pending, call>>
    BY <1>7, <2>1 DEF ReloadNothing, Answer, Return
  <2>3. ReaderAt(s)'
    BY <1>1, <2>1, <2>2 DEF ReaderAt, Returns, Goto
  <2> QED
    BY <2>1, <2>2, <2>3, ReaderMove DEF Labels
<1>8. CASE ReloadEntry(s)
  <2>1. pc[s] = "reload" /\ View(s)[call[s].name] # 0
    BY <1>8 DEF ReloadEntry
  <2> QED
    BY <1>1, <2>1, ReaderSees DEF ReaderAt, ReadersTakeTurns
<1>9. CASE FinishReload(s)
  BY <1>1, <1>9 DEF FinishReload, ReaderAt
<1> QED
  BY <1>4, <1>5, <1>6, <1>7, <1>8, <1>9 DEF Reload

LEMMA ReaderTransacts ==
  ASSUME TypeInv, TypeInv', ReaderInv, ReadersTakeTurns, NEW s \in Sessions,
         \/ Promote(s) \/ CommitEnds(s) \/ CallEnds(s) \/ PoolThrows(s) \/ Call(s)
         \/ Commit(s) \/ Rollback(s)
  PROVE  ReaderInv'
<1> USE DEF TypeInv, CallOK
<1>1. ReaderAt(s)
  BY DEF ReaderInv
<1>2. CASE Promote(s)
  <2>1. /\ pc[s] = "promote" /\ pending[s] \in Seq(Defs) /\ pending[s] # <<>>
        /\ sig' = Head(pending[s]) /\ pending' = [pending EXCEPT ![s] = Tail(@)]
        /\ UNCHANGED <<remote, own, entries, loaded, slice, pc, call, chk, buf, ret>>
    BY <1>2 DEF Promote, TxOK
  <2>2. /\ sig' = pending[s][1] /\ 1 \in 1 .. Len(pending[s])
        /\ \A i \in 1 .. Len(Tail(pending[s])) :
             i + 1 \in 1 .. Len(pending[s]) /\ Tail(pending[s])[i] = pending[s][i + 1]
    BY <2>1
  <2>3. pending'[s] = Tail(pending[s]) /\ \A u \in Sessions \ {s} : pending'[u] = pending[u]
    BY <2>1 DEF TxOK
  <2>4. Signed' => Signed
    BY <2>1, <2>2, <2>3 DEF Signed
  <2>5. SignedInv' /\ EmptyInv'
    BY <2>1, <2>4 DEF ReaderInv, SignedInv, EmptyInv
  <2>6. ReaderAt(s)'
    BY <1>1, <2>1 DEF ReaderAt, Returns
  <2> QED
    BY <2>1, <2>5, <2>6, ReaderTurn
<1>3. CASE CommitEnds(s) \/ CallEnds(s)
  <2>1. ReaderAt(s)'
    BY <1>1, <1>3 DEF CommitEnds, CallEnds, ReaderAt, Returns, Goto
  <2> QED
    BY <1>3, <2>1, ReaderMove DEF CommitEnds, CallEnds, Labels
<1>4. CASE PoolThrows(s)
  BY <1>4 DEF PoolThrows, ReadersTakeTurns
<1>5. CASE Call(s)
  <2>1. /\ \A u \in Sessions : pc[u] = "idle"
        /\ UNCHANGED <<remote, own, entries, loaded, slice, sig, pending, chk, buf, ret>>
    BY <1>5 DEF Call, ReadersTakeTurns
  <2>2. Goto(s, "try")
    BY <1>5 DEF Call, ReadersTakeTurns
  <2>3. ASSUME NEW u \in Sessions
        PROVE  ReaderAt(u)'
    BY <2>1, <2>2 DEF ReaderInv, ReaderAt, Returns, Goto
  <2> QED
    BY <2>1, <2>2, <2>3 DEF ReaderInv, SignedInv, Signed, EmptyInv, Goto
<1>6. CASE Commit(s)
  <2>1. /\ \A u \in Sessions : pc[u] = "idle"
        /\ own' = [own EXCEPT ![s] = NoOwn] /\ remote' = Latest(s) /\ Goto(s, "promote")
        /\ UNCHANGED <<entries, loaded, slice, sig, pending, call, chk, buf, ret>>
    BY <1>6 DEF Commit, RemoteChanges, ReadersTakeTurns
  <2>2. remote' = remote /\ own' = own
    BY <1>1, <2>1, ReaderSees DEF ReaderAt, ReadersTakeTurns, TxOK
  <2>3. ASSUME NEW u \in Sessions
        PROVE  ReaderAt(u)'
    BY <2>1, <2>2 DEF ReaderInv, ReaderAt, Returns, Goto
  <2> QED
    BY <2>1, <2>2, <2>3 DEF ReaderInv, SignedInv, Signed, EmptyInv, Goto
<1>7. CASE Rollback(s)
  <2>1. /\ own' = [own EXCEPT ![s] = NoOwn] /\ pending' = [pending EXCEPT ![s] = <<>>]
        /\ UNCHANGED <<remote, entries, loaded, slice, sig, pc, call, chk, buf, ret>>
    BY <1>7 DEF Rollback, Discard
  <2>2. own' = own
    BY <1>1, <2>1 DEF ReaderAt, TxOK
  <2>3. \A u \in Sessions : Len(pending'[u]) = 0 \/ pending'[u] = pending[u]
    BY <2>1 DEF TxOK
  <2>4. Signed' => Signed
    BY <2>1, <2>3 DEF Signed
  <2> QED
    BY <2>1, <2>2, <2>4 DEF ReaderInv, ReaderAt, Returns, SignedInv, EmptyInv
<1> QED
  BY <1>2, <1>3, <1>4, <1>5, <1>6, <1>7

\* No signature can be that of the server's new state, which holds a stamp nobody has read.
LEMMA ReaderExternal ==
  ASSUME SignatureInv, ReaderInv, ReadersTakeTurns, ExternalDdl
  PROVE  ReaderInv'
<1>1. \A u \in Sessions : pc[u] = "idle"
  BY DEF ExternalDdl, ReadersTakeTurns
<1>2. PICK n \in Names : remote' = [remote EXCEPT ![n] = nextStamp]
  BY DEF ExternalDdl, RemoteChanges, ReadersTakeTurns
<1>3. UNCHANGED <<own, entries, loaded, slice, sig, pending, pc, call, chk, buf, ret>>
  BY DEF ExternalDdl
<1>4. remote'[n] = nextStamp /\ nextStamp \in Nat
  BY <1>2 DEF SignatureInv, TypeInv, ServerOK, Defs
<1>5. \A u \in Everyone : \A defs \in KnownTo[u] : defs[n] < nextStamp
  BY DEF KnownTo
<1>6. ~Signed'
  BY <1>3, <1>4, <1>5 DEF Signed, SignatureInv, KnownInv, Everyone
<1>7. \A u \in Sessions : ReaderAt(u)'
  BY <1>1, <1>3 DEF ReaderInv, ReaderAt, Returns
<1> QED
  BY <1>3, <1>6, <1>7 DEF ReaderInv, SignedInv, EmptyInv

\* A scan lists what the server has (TryLoadEntries: the set is cleared when the staleness
\* query returns another signature), for any number of sessions that take turns, of tables
\* and of tables created or altered by other clients between the calls.
THEOREM ReadersSeeTheServer ==
  ASSUME ReadersTakeTurns
  PROVE  Spec => []ScanIsCurrent
<1>1. Init => ReaderInv
  <2> SUFFICES ASSUME Init PROVE ReaderInv
    OBVIOUS
  <2>1. slice = NoSlice /\ entries = NoDefs
    BY DEF Init, ReadersTakeTurns
  <2>2. \A s \in Sessions : ReaderAt(s)
    BY DEF Init, ReaderAt, Returns
  <2>3. Signed => remote = NoDefs
    BY DEF Init, Signed
  <2> QED
    BY <2>1, <2>2, <2>3 DEF ReaderInv, SignedInv, EmptyInv
<1>2. SignatureInv /\ SignatureInv' /\ ReaderInv /\ [Next]_vars => ReaderInv'
  <2> SUFFICES ASSUME SignatureInv, SignatureInv', ReaderInv, [Next]_vars
               PROVE  ReaderInv'
    OBVIOUS
  <2>1. TypeInv /\ TypeInv'
    BY DEF SignatureInv
  <2>2. ASSUME NEW s \in Sessions, Call(s) \/ Progress(s) \/ Commit(s) \/ Rollback(s)
        PROVE  ReaderInv'
    <3>1. ASSUME Change(s)
          PROVE  FALSE
      BY <3>1 DEF ReaderInv, ReaderAt, Change, Ddl, DdlFails, ApplyCreate, ApplyDrop,
                  ApplyAlter, Restage
    <3> QED
      BY <2>1, <2>2, <3>1, ReaderTries, ReaderFinds, ReaderTransacts DEF Progress
  <2>3. CASE ExternalDdl
    BY <2>3, ReaderExternal
  <2>4. CASE UNCHANGED vars
    BY <2>4 DEF vars, ReaderInv, ReaderAt, Returns, SignedInv, Signed, EmptyInv
  <2> QED
    BY <2>2, <2>3, <2>4 DEF Next
<1>3. ReaderInv => ScanIsCurrent
  BY DEF ReaderInv, ReaderAt, ScanIsCurrent
<1> QED
  BY <1>1, <1>2, <1>3, SignatureInvariant, PTL DEF Spec
===============================================================================

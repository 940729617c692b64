----------------------------- MODULE SchemaTypes -----------------------------
(***************************************************************************)
(* The catalog of an attached database as a whole: the set of schemas, and *)
(* in each schema the sets of its types, tables and indexes.               *)
(*                                                                         *)
(* The set of schemas is loaded by one command of five queries, whose      *)
(* results are cut into a slice for each set of each schema.  The sets     *)
(* below are loaded from their slices when they are first used, each under *)
(* its own load_lock.  While a table or a composite type is built, the     *)
(* types of its columns are looked up: in the set that is just being       *)
(* loaded, or in another schema, whose sets may have to be loaded first.   *)
(* A session keeps a stack of the sets it is working on.                   *)
(*                                                                         *)
(* A name is an oid, in the order of creation.  A resolved type is the set *)
(* of the types it is made of: one that is read as VARCHAR is missing.     *)
(* Statements commit by themselves; staleness is in CatalogSet.            *)
(***************************************************************************)
EXTENDS Integers, Sequences, SequencesExt, FiniteSets

CONSTANTS
  Sessions, NoSession,
  Schemas,      \* namespace oids
  Objects,      \* oids of types, tables and indexes
  KindOf,       \* "enum", "composite", "table" or "index"
  SchemaOf,     \* the schema of an object: that of a type is the first one of search_path
  NamedIn,      \* the schemas in which DuckDB's CREATE and DROP may name an object
  Refs,         \* the custom types of its attributes or columns, in their order
  Initial,      \* what exists at the start
  NameRank,     \* of a schema: the place of its name in the order of names
  Settings,     \* pairs of an isolation level and pg_use_information_schema_introspection
  OtherClients, \* what other clients may create and drop
  Wanted,       \* what DuckDB looks up
  OwnDdl,       \* what DuckDB creates and drops: schemas, enums and indexes
  MaxCalls,     \* bound: statements of a session
  MaxLoads,     \* bound: loads of the set of schemas
  MaxFailures   \* bound: queries that fail

ASSUME SchemaAssumption ==
  /\ NoSession \notin Sessions /\ IsFiniteSet(Schemas) /\ IsFiniteSet(Objects)
  /\ Schemas \subseteq Nat \ {0} /\ Objects \subseteq Nat \ {0} /\ Schemas \cap Objects = {}
  /\ \A o \in Objects :
       /\ KindOf[o] \in {"enum", "composite", "table", "index"} /\ SchemaOf[o] \in Schemas
       /\ Refs[o] \in Seq({r \in Objects : r < o /\ KindOf[r] \in {"enum", "composite"}})
       /\ KindOf[o] \in {"enum", "index"} => Refs[o] = <<>>
  /\ Initial \cup OtherClients \cup Wanted \cup OwnDdl \subseteq Schemas \cup Objects
  /\ \A o \in Initial \cap Objects : SchemaOf[o] \in Initial /\ ToSet(Refs[o]) \subseteq Initial
  /\ \A o \in OwnDdl \cap Objects :
       /\ KindOf[o] \in {"enum", "index"} /\ NamedIn[o] \subseteq Schemas
       /\ KindOf[o] = "index" => NamedIn[o] = {SchemaOf[o]}
  /\ \A a, b \in Schemas : NameRank[a] \in Nat /\ (a # b => NameRank[a] # NameRank[b])
  /\ Settings \subseteq {"repeatable_read", "read_committed"} \X BOOLEAN
  /\ {MaxCalls, MaxLoads, MaxFailures} \subseteq Nat

VARIABLES
  isolation, byName, \* the settings
  exists,     \* the schemas and objects on the server
  used,       \* those that have been created, maybe dropped again
  snapshot,   \* what a session's transaction sees, or Unstarted
  generation, \* counts the schema entries that were made for the same schema
  loaded, loadLock, loadingThread, entries, \* of each set
  slice,      \* of each set in a schema: its rows of the queries, those of types and tables
              \* that refer to types apart from the others
  stack,      \* of each session: the calls on sets it is in, the innermost first
  answers,    \* of each session: what the queries of its load of the schemas have seen
  calls,      \* of each session: the statements it may still start
  failures,
  due,        \* history: what the cache has to know
  missed,     \* history: whether a lookup has not found something due
  unfound     \* history: what lookups have not found although it was on the server

settingVars == <<isolation, byName>>
serverVars == <<exists, used>>
setVars == <<generation, loaded, loadLock, loadingThread, entries, slice>>
vars == <<settingVars, serverVars, snapshot, setVars, stack, answers, calls, failures, due, missed,
          unfound>>

SetKind(o) == CASE KindOf[o] = "table" -> "tables" [] KindOf[o] = "index" -> "indexes"
                [] OTHER -> "types"
Root == <<"schemas", 0, 0>>
Sets == {Root} \cup ({"types", "tables", "indexes"} \X Schemas \X (1 .. MaxLoads))
Unstarted == {0}
NoSlice == << <<>>, <<>> >>

Init ==
  /\ \E setting \in Settings : isolation = setting[1] /\ byName = setting[2]
  /\ exists = Initial /\ used = Initial
  /\ snapshot = [p \in Sessions |-> Unstarted]
  /\ generation = 0
  /\ loaded = [c \in Sets |-> FALSE]
  /\ loadLock = [c \in Sets |-> NoSession]
  /\ loadingThread = [c \in Sets |-> NoSession]
  /\ entries = [c \in Sets |-> <<>>]
  /\ slice = [c \in Sets |-> NoSlice]
  /\ stack = [p \in Sessions |-> <<>>]
  /\ answers = [p \in Sessions |-> <<>>]
  /\ calls = [p \in Sessions |-> MaxCalls]
  /\ failures = 0
  /\ due = {} /\ missed = FALSE /\ unfound = {}

At(p, pc) == stack[p] # <<>> /\ stack[p][1].pc = pc
Top(p) == stack[p][1]
Goto(p, pc) == stack' = [stack EXCEPT ![p][1] = [@ EXCEPT !.pc = pc]]
Release(locks, c) == [locks EXCEPT ![c] = NoSession]

-------------------------------------------------------------------------------
(* Calls.                                                                  *)

\* Mutants: another thread does not wait for the load; the loading thread waits for itself.
SkipsLoadOfAny(c, p)  == loaded[c] \/ (c[1] = "types" /\ loadingThread[c] # NoSession)
SkipsLoadNever(c, p)  == loaded[c]

\* Whether TryLoadEntries returns before it takes load_lock.
SkipsLoad(c, p) == loaded[c] \/ (c[1] = "types" /\ loadingThread[c] = p)

\* GetEntry on the set c, to find or drop want.
SetCall(p, c, verb, want) ==
  [set |-> c, name |-> want, verb |-> verb, want |-> want,
   pc |-> IF SkipsLoad(c, p) THEN "find" ELSE "lock",
   todo |-> <<>>, refs |-> <<>>, got |-> {}, built |-> <<>>]

\* The schema that is named with x: CREATE and DROP may name another one than that of x.
NamesOf(verb, x) == IF x \in Schemas THEN {x}
                    ELSE IF verb = "find" THEN {SchemaOf[x]} ELSE NamedIn[x]

\* GetEntry on the set of schemas for s, to go on with want in that schema.
SchemaCall(p, verb, want, s) == [SetCall(p, Root, verb, want) EXCEPT !.name = s]

\* Whether the set c belongs to an entry that is in the set of schemas.
Current(c) == c = Root \/ (c[2] \in DOMAIN entries[Root] /\ entries[Root][c[2]] = c[3])

\* Returns from the innermost call.  What it has found is part of the type that the
\* caller builds.
Return(p, got, found) ==
  LET f == Top(p)
      rest == Tail(stack[p])
  IN /\ stack' = [stack EXCEPT ![p] =
          IF rest = <<>> THEN <<>>
          ELSE <<[rest[1] EXCEPT !.refs = Tail(@), !.got = @ \cup got]>> \o Tail(rest)]
     /\ missed' = (missed \/ (~found /\ f.verb = "find" /\ f.want \in due /\ Current(f.set)))
     /\ unfound' = IF found \/ f.verb # "find" THEN unfound
                   ELSE unfound \cup ({f.want} \cap exists)

\* DuckDB asks for a schema or for an entry of one of its sets.
Lookup(p) ==
  /\ stack[p] = <<>> /\ calls[p] > 0
  /\ \E w \in Wanted, s \in Schemas :
       /\ s \in NamesOf("find", w)
       /\ stack' = [stack EXCEPT ![p] = <<SchemaCall(p, "find", w, s)>>]
  /\ calls' = [calls EXCEPT ![p] = @ - 1]
  /\ UNCHANGED <<settingVars, serverVars, snapshot, setVars, answers, failures, due,
                 missed, unfound>>

\* CREATE or DROP of a schema, a type or an index.
StartDdl(p) ==
  /\ stack[p] = <<>> /\ calls[p] > 0
  /\ \E verb \in {"create", "drop"}, x \in OwnDdl, s \in Schemas :
       /\ s \in NamesOf(verb, x)
       /\ stack' = [stack EXCEPT ![p] = <<SchemaCall(p, verb, x, s)>>]
  /\ calls' = [calls EXCEPT ![p] = @ - 1]
  /\ UNCHANGED <<settingVars, serverVars, snapshot, setVars, answers, failures, due,
                 missed, unfound>>

\* GetEntry of the set of schemas, once it is loaded.
FindSchema(p) ==
  LET f == Top(p)
      known == f.name \in DOMAIN entries[Root]
      c == <<SetKind(f.want), f.name, entries[Root][f.name]>>
  IN /\ At(p, "find") /\ f.set = Root
     /\ IF f.want = f.name
        THEN IF f.verb # "find" /\ (f.verb = "drop") = known
             THEN Goto(p, "ddl") /\ UNCHANGED <<missed, unfound>> ELSE Return(p, {}, known)
        ELSE IF ~known THEN Return(p, {}, FALSE)
             ELSE /\ stack' = [stack EXCEPT ![p][1] =
                       IF f.verb = "create" THEN [f EXCEPT !.set = c, !.pc = "ddl"]
                       ELSE SetCall(p, c, f.verb, f.want)]
                  /\ UNCHANGED <<missed, unfound>>
     /\ UNCHANGED <<settingVars, serverVars, snapshot, setVars, answers, calls, failures, due>>

\* GetEntry of a set in a schema; only tables are looked up on the server again.
FindEntry(p) ==
  LET f == Top(p)
      known == f.want \in DOMAIN entries[f.set]
  IN /\ At(p, "find") /\ f.set # Root
     /\ CASE known /\ f.verb = "drop" -> Goto(p, "ddl") /\ UNCHANGED <<missed, unfound>>
          [] known /\ f.verb = "find" -> Return(p, entries[f.set][f.want], TRUE)
          [] ~known /\ f.set[1] = "tables" -> Goto(p, "relock") /\ UNCHANGED <<missed, unfound>>
          [] OTHER -> Return(p, {}, FALSE)
     /\ UNCHANGED <<settingVars, serverVars, snapshot, setVars, answers, calls, failures, due>>

-------------------------------------------------------------------------------
(* Loading.                                                                *)

\* What a query of p sees; the first one starts the transaction.
View(p) == IF isolation = "repeatable_read" /\ snapshot[p] # Unstarted THEN snapshot[p]
           ELSE exists
Started(p) == snapshot' = IF isolation = "repeatable_read"
                          THEN [snapshot EXCEPT ![p] = View(p)] ELSE snapshot

\* insert leaves an entry of the same name alone.
Joined(old, new) == [x \in DOMAIN old \cup DOMAIN new |->
                       IF x \in DOMAIN old THEN old[x] ELSE new[x]]
Insert(c, new) == entries' = [entries EXCEPT ![c] = Joined(@, new)]
Entry(x, value) == [y \in {x} |-> value]

\* information_schema does not tell the schema of a type: it is not looked up.
RefsOfFirst(todo) == IF todo = <<>> \/ byName THEN <<>> ELSE Refs[todo[1]]

\* The entries that need no other type.
InitializeEnums(rows) == [o \in ToSet(rows) |-> {o}]
LoadIndexes(rows)     == [o \in ToSet(rows) |-> {}]

\* LoadEntriesLocked, once load_lock is there and the set still is not loaded.  Composites
\* and tables are then built one by one.
LockToLoad(p) ==
  LET c    == Top(p).set
      rows == slice[c][1]
      todo == slice[c][2]
  IN /\ At(p, "lock") /\ loadLock[c] = NoSession
     /\ IF loaded[c]
        THEN Goto(p, "find") /\ UNCHANGED <<loadLock, loadingThread, entries>>
        ELSE /\ loadLock' = [loadLock EXCEPT ![c] = p]
             /\ loadingThread' = [loadingThread EXCEPT ![c] = p]
             /\ Insert(c, IF c[1] = "types" THEN InitializeEnums(rows) ELSE LoadIndexes(rows))
             /\ stack' = [stack EXCEPT ![p][1] =
                  [@ EXCEPT !.pc = IF c = Root THEN "query" ELSE "load",
                            !.todo = todo, !.refs = RefsOfFirst(todo)]]
     /\ UNCHANGED <<settingVars, serverVars, snapshot, generation, loaded, slice, answers, calls,
                    failures, due, missed, unfound>>

\* Mutant: the types are read before the tables that use them.
AnswerToTypesFirst == <<"schema", "enum", "composite", "table", "index">>

\* The order of the queries.
AnswerTo == <<"schema", "table", "enum", "composite", "index">>

\* What the queries look for: through information_schema neither types nor indexes.
Listed == Schemas \cup {o \in Objects : byName => KindOf[o] = "table"}

\* ExecuteQueries, one query after the other.  The first answer is kept whole for due.
QuerySchemas(p) ==
  LET kind == AnswerTo[Len(answers[p]) + 1]
  IN /\ At(p, "query") /\ generation < MaxLoads
     /\ answers' = [answers EXCEPT ![p] =
          Append(@, {x \in View(p) \cap Listed :
                       kind # "schema" => x \in Objects /\ KindOf[x] = kind})]
     /\ Started(p)
     /\ IF Len(answers'[p]) = Len(AnswerTo) THEN Goto(p, "slice") ELSE UNCHANGED stack
     /\ UNCHANGED <<settingVars, serverVars, setVars, calls, failures, due, missed, unfound>>

\* The namespaces are ordered by oid, or by name.
Before(a, b) == IF byName THEN NameRank[a] < NameRank[b] ELSE a < b

\* ORDER BY: the row of x comes after those of all that precede it.
Ordered(set, Precedes(_, _)) ==
  [i \in 1 .. Cardinality(set) |->
     CHOOSE x \in set : Cardinality({y \in set : Precedes(y, x)}) = i - 1]

\* Mutant: the schemas come in another order than the rows.
SchemaRowsReversed(view) == Ordered(view \cap Schemas, LAMBDA a, b : Before(b, a))

\* The rows of the queries, in the order of their namespace.
SchemaRows(view) == Ordered(view \cap Schemas, Before)
RowBefore(a, b) == \/ Before(SchemaOf[a], SchemaOf[b])
                   \/ SchemaOf[a] = SchemaOf[b] /\ a < b
Rows(objects) == Ordered(objects, RowBefore)

\* SliceResult, SliceResultByName: row i of the schemas gets the rows that follow those of the
\* schema before, as long as they are its own.
IsEnd(end, schemas, rows) ==
  /\ end[0] = 0
  /\ \A i \in DOMAIN schemas :
       /\ end[i - 1] <= end[i]
       /\ \A j \in end[i - 1] + 1 .. end[i] : SchemaOf[rows[j]] = schemas[i]
       /\ end[i] < Len(rows) => SchemaOf[rows[end[i] + 1]] # schemas[i]
SliceResult(schemas, rows) ==
  LET end == CHOOSE e \in [0 .. Len(schemas) -> 0 .. Len(rows)] : IsEnd(e, schemas, rows)
  IN [i \in DOMAIN schemas |-> SubSeq(rows, end[i - 1] + 1, end[i])]

\* LoadEntries of the schemas: new schema entries, none of whose sets is loaded.  From now
\* on the cache has to know the schemas, and what its queries have all seen.
LoadSchemas(p) ==
  LET view    == answers[p][1]
      schemas == SchemaRows(view)
      g       == generation + 1
      of(kind) == SliceResult(schemas,
                    Rows(answers[p][CHOOSE i \in DOMAIN AnswerTo : AnswerTo[i] = kind]))
      tables  == of("table")
      enums   == of("enum")
      composites == of("composite")
      indexes == of("index")
      rows(kind, i) == CASE kind = "tables"  -> << <<>>, tables[i] >>
                         [] kind = "indexes" -> << indexes[i], <<>> >>
                         [] OTHER -> << enums[i], composites[i] >>
  IN /\ At(p, "slice")
     /\ generation' = g
     /\ slice' = [c \in Sets |->
          IF c[3] = g /\ c[2] \in ToSet(schemas)
          THEN rows(c[1], CHOOSE i \in DOMAIN schemas : schemas[i] = c[2]) ELSE slice[c]]
     /\ Insert(Root, [s \in ToSet(schemas) |-> g])
     /\ due' = due \cup {x \in exists \cap Listed :
          \/ x \in view
          \/ \E i \in DOMAIN tables : x \in ToSet(tables[i])}
     /\ answers' = [answers EXCEPT ![p] = <<>>]
     /\ Goto(p, "load")
     /\ UNCHANGED <<settingVars, serverVars, snapshot, loaded, loadLock, loadingThread, calls,
                    failures, missed, unfound>>

Building(p) == At(p, "load") \/ At(p, "rebuild")

\* TypeToLogicalType for the next attribute: in the types of the same schema entry, or in
\* the schema that the catalog has under the name of the other one.
ResolveType(p) ==
  LET f == Top(p)
      r == f.refs[1]
  IN /\ Building(p) /\ f.refs # <<>>
     /\ stack' = [stack EXCEPT ![p] =
          <<IF SchemaOf[r] = f.set[2] THEN SetCall(p, <<"types", f.set[2], f.set[3]>>, "find", r)
            ELSE SchemaCall(p, "find", r, SchemaOf[r])>> \o @]
     /\ UNCHANGED <<settingVars, serverVars, snapshot, setVars, answers, calls, failures, due,
                    missed, unfound>>

\* The next object, once the types of all attributes of the first one are there.
NextObject(p, built) ==
  LET f == Top(p)
  IN stack' = [stack EXCEPT ![p][1] =
       [f EXCEPT !.todo = Tail(@), !.refs = RefsOfFirst(Tail(f.todo)), !.got = {},
                 !.built = built]]

\* A composite type is put into its set at once.
CreateCompositeType(p) ==
  LET f == Top(p)
      o == f.todo[1]
  IN /\ Building(p) /\ f.set[1] = "types" /\ f.todo # <<>> /\ f.refs = <<>>
     /\ Insert(f.set, Entry(o, {o} \cup f.got))
     /\ NextObject(p, f.built)
     /\ UNCHANGED <<settingVars, serverVars, snapshot, generation, loaded, loadLock, loadingThread,
                    slice, answers, calls, failures, due, missed, unfound>>

\* CreateEntries of tables: they are put into the set together, when the last one is built.
BuildTable(p) ==
  LET f == Top(p)
  IN /\ Building(p) /\ f.set[1] = "tables" /\ f.todo # <<>> /\ f.refs = <<>>
     /\ NextObject(p, Joined(f.built, Entry(f.todo[1], f.got)))
     /\ UNCHANGED <<settingVars, serverVars, snapshot, setVars, answers, calls, failures, due,
                    missed, unfound>>

FinishLoad(p) ==
  LET f == Top(p)
      c == f.set
  IN /\ At(p, "load") /\ f.todo = <<>>
     /\ Insert(c, f.built)
     /\ slice' = [slice EXCEPT ![c] = NoSlice]
     /\ loaded' = [loaded EXCEPT ![c] = TRUE]
     /\ loadLock' = Release(loadLock, c)
     /\ loadingThread' = Release(loadingThread, c)
     /\ stack' = [stack EXCEPT ![p][1] = [f EXCEPT !.pc = "find", !.built = <<>>]]
     /\ UNCHANGED <<settingVars, serverVars, snapshot, generation, answers, calls, failures, due,
                    missed, unfound>>

-------------------------------------------------------------------------------
(* ReloadEntry of a table that is not in the set.                          *)

LockToReload(p) ==
  LET c == Top(p).set
  IN /\ At(p, "relock") /\ loadLock[c] = NoSession
     /\ loadLock' = [loadLock EXCEPT ![c] = p]
     /\ Goto(p, "requery")
     /\ UNCHANGED <<settingVars, serverVars, snapshot, generation, loaded, loadingThread, entries,
                    slice, answers, calls, failures, due, missed, unfound>>

\* GetTableInfo.
QueryTable(p) ==
  LET f == Top(p)
  IN /\ At(p, "requery")
     /\ IF f.want \in View(p)
        THEN /\ stack' = [stack EXCEPT ![p][1] =
                  [f EXCEPT !.pc = "rebuild", !.todo = <<f.want>>,
                            !.refs = RefsOfFirst(<<f.want>>)]]
             /\ UNCHANGED <<loadLock, missed, unfound>>
        ELSE Return(p, {}, FALSE) /\ loadLock' = Release(loadLock, f.set)
     /\ Started(p)
     /\ UNCHANGED <<settingVars, serverVars, generation, loaded, loadingThread, entries, slice,
                    answers, calls, failures, due>>

FinishReload(p) ==
  LET f == Top(p)
  IN /\ At(p, "rebuild") /\ f.todo = <<>>
     /\ Insert(f.set, f.built)
     /\ Return(p, {}, TRUE)
     /\ loadLock' = Release(loadLock, f.set)
     /\ UNCHANGED <<settingVars, serverVars, snapshot, generation, loaded, loadingThread, slice,
                    answers, calls, failures, due>>

-------------------------------------------------------------------------------
(* DDL.                                                                    *)

\* What the server accepts; oids grow.
CanCreate(x) ==
  /\ \A y \in used : y < x
  /\ x \in Objects => SchemaOf[x] \in exists /\ ToSet(Refs[x]) \subseteq exists
CanDrop(x) ==
  /\ x \in exists
  /\ \A o \in exists \cap Objects : x \notin ToSet(Refs[o]) /\ x # SchemaOf[o]

\* The statement succeeds.  The entry is added to the set even where that has not been
\* loaded.
Created(p, entry) ==
  LET f == Top(p)
      x == f.want
  IN /\ At(p, "ddl") /\ f.verb = "create" /\ CanCreate(x)
     /\ exists' = exists \cup {x} /\ used' = used \cup {x}
     /\ Insert(f.set, Entry(x, entry))
     /\ due' = IF Current(f.set) THEN due \cup {x} ELSE due
     /\ snapshot' = [snapshot EXCEPT ![p] = Unstarted]
     /\ Return(p, {}, TRUE)
     /\ UNCHANGED <<settingVars, generation, loadLock, loadingThread, slice, answers, calls,
                    failures>>

\* A schema entry that is made without slices has sets that count as loaded.
CreateSchema(p) ==
  /\ Created(p, generation) /\ Top(p).set = Root
  /\ loaded' = [c \in Sets |-> loaded[c] \/ (c[2] = Top(p).want /\ c[3] = generation)]
\* CREATE TYPE names the type alone: the server puts it into SchemaOf, whatever schema the
\* entry goes to.
CreateType(p)  == Created(p, {Top(p).want}) /\ Top(p).set[1] = "types" /\ UNCHANGED loaded
CreateIndex(p) == Created(p, {}) /\ Top(p).set[1] = "indexes" /\ UNCHANGED loaded

\* DropEntry names the schema too: the server has to have the object there.
NamedWell(f) == f.set # Root => f.set[2] = SchemaOf[f.want]
Drop(p) ==
  LET f == Top(p)
      x == f.want
  IN /\ At(p, "ddl") /\ f.verb = "drop" /\ CanDrop(x) /\ NamedWell(f)
     /\ exists' = exists \ {x}
     /\ entries' = [entries EXCEPT ![f.set] = [y \in DOMAIN @ \ {x} |-> @[y]]]
     /\ due' = due \ {x}
     /\ snapshot' = [snapshot EXCEPT ![p] = Unstarted]
     /\ Return(p, {}, TRUE)
     /\ UNCHANGED <<settingVars, used, generation, loaded, loadLock, loadingThread, slice, answers,
                    calls, failures>>

\* Mutant: LoadEntriesLocked does not reset loading_thread.
ThreadAfterThrowStays(p) == loadingThread
ThreadAfterThrow(p) == [c \in Sets |-> IF loadingThread[c] = p THEN NoSession ELSE loadingThread[c]]

\* An exception out of a query: the locks are released, loading_thread is reset, what has
\* been created stays, and the transaction has to be rolled back.
Throw(p) ==
  /\ stack' = [stack EXCEPT ![p] = <<>>]
  /\ loadLock' = [c \in Sets |-> IF loadLock[c] = p THEN NoSession ELSE loadLock[c]]
  /\ loadingThread' = ThreadAfterThrow(p)
  /\ answers' = [answers EXCEPT ![p] = <<>>]
  /\ snapshot' = [snapshot EXCEPT ![p] = Unstarted]
  /\ UNCHANGED <<settingVars, serverVars, generation, loaded, entries, slice, calls, due,
                 missed, unfound>>

QueryFails(p) ==
  /\ At(p, "query") \/ At(p, "requery")
  /\ failures < MaxFailures /\ failures' = failures + 1
  /\ Throw(p)

DdlFails(p) ==
  /\ At(p, "ddl")
  /\ IF Top(p).verb = "create" THEN ~CanCreate(Top(p).want)
     ELSE ~(CanDrop(Top(p).want) /\ NamedWell(Top(p)))
  /\ Throw(p) /\ UNCHANGED failures

-------------------------------------------------------------------------------
(* Everybody else.                                                         *)

\* The end of the transaction that a lookup has started.
EndTransaction(p) ==
  /\ stack[p] = <<>> /\ snapshot[p] # Unstarted
  /\ snapshot' = [snapshot EXCEPT ![p] = Unstarted]
  /\ UNCHANGED <<settingVars, serverVars, setVars, stack, answers, calls, failures, due,
                 missed, unfound>>

\* pg_clear_cache: ClearEntries of the set of schemas, at any time.  Nothing is due then:
\* where a load is about to end, the set will count as loaded and be empty.
ClearCache ==
  /\ loaded[Root] \/ entries[Root] # <<>>
  /\ entries' = [entries EXCEPT ![Root] = <<>>]
  /\ loaded' = [loaded EXCEPT ![Root] = FALSE]
  /\ due' = {}
  /\ UNCHANGED <<settingVars, serverVars, snapshot, generation, loadLock, loadingThread, slice, stack,
                 answers, calls, failures, missed, unfound>>

OtherClient ==
  /\ \E x \in OtherClients :
       \/ CanCreate(x) /\ exists' = exists \cup {x} /\ used' = used \cup {x} /\ UNCHANGED due
       \/ CanDrop(x) /\ exists' = exists \ {x} /\ due' = due \ {x} /\ UNCHANGED used
  /\ UNCHANGED <<settingVars, snapshot, setVars, stack, answers, calls, failures,
                 missed, unfound>>

-------------------------------------------------------------------------------
Load(p) == \/ LockToLoad(p) \/ QuerySchemas(p) \/ LoadSchemas(p) \/ ResolveType(p)
           \/ CreateCompositeType(p) \/ BuildTable(p) \/ FinishLoad(p)
Reload(p) == LockToReload(p) \/ QueryTable(p) \/ FinishReload(p)
Ddl(p) == CreateSchema(p) \/ CreateType(p) \/ CreateIndex(p) \/ Drop(p) \/ DdlFails(p)

Session(p) ==
  \/ Lookup(p) \/ StartDdl(p) \/ FindSchema(p) \/ FindEntry(p)
  \/ Load(p) \/ Reload(p) \/ Ddl(p) \/ QueryFails(p) \/ EndTransaction(p)

Next == (\E p \in Sessions : Session(p)) \/ ClearCache \/ OtherClient

Spec == Init /\ [][Next]_vars
-------------------------------------------------------------------------------
(* Properties.                                                             *)

Definition[o \in Objects] ==
  (IF SetKind(o) = "types" THEN {o} ELSE {}) \cup UNION {Definition[r] : r \in ToSet(Refs[o])}

\* The types of the variables.  loading_thread names whoever holds load_lock
\* (LoadEntriesLocked), so that it never lets a thread in that has left.
TypeOK ==
  /\ exists \subseteq used /\ used \subseteq Schemas \cup Objects
  /\ generation \in 0 .. MaxLoads /\ failures \in 0 .. MaxFailures
  /\ loaded \in [Sets -> BOOLEAN]
  /\ loadLock \in [Sets -> Sessions \cup {NoSession}]
  /\ \A c \in Sets : loadingThread[c] \in {NoSession, loadLock[c]}
  /\ \A p \in Sessions : Len(answers[p]) <= 5 /\ calls[p] \in 0 .. MaxCalls

\* "composite types can refer to other types" (HasInternalDependencies): a type or table that
\* existed when the schemas were loaded, and still does, has every type it is made of,
\* whichever thread loads whichever set first.  This is where a column silently becomes
\* VARCHAR, as every custom type does with information_schema.
TypesAsDefined ==
  \A c \in Sets : c[1] \in {"types", "tables"} /\ Current(c) =>
    \A o \in DOMAIN entries[c] \cap due :
      entries[c][o] = Definition[o] \cap (IF byName THEN {o} ELSE Objects)

\* Every set of a schema is loaded from the rows of that schema, and from all of them
\* (SliceResult): what exists since before the schemas were loaded is in its slice.
SlicesComplete ==
  \A c \in Sets \ {Root} : Current(c) /\ ~loaded[c] =>
    \A o \in Initial \cap exists \cap Listed \cap Objects :
      SchemaOf[o] = c[2] /\ SetKind(o) = c[1] => o \in ToSet(slice[c][1]) \cup ToSet(slice[c][2])

\* Without pg_clear_cache a lookup finds what existed when the schemas were loaded, or what
\* a session has created since, no matter what is half loaded meanwhile (TryLoadEntries,
\* GetEntry).  Only what is due counts: pg_clear_cache lets the cache forget everything, and
\* a lookup that it meets on its way may miss what it is looking for.
LookupFindsUnlessCleared == ~missed

\* A lookup finds what is on the server from the start, also while another session calls
\* pg_clear_cache (concurrent_clear_cache.test).  The code does not keep that: no run checks
\* it, README has the constants with which TLC violates it.
LookupSurvivesClear == unfound \cap Initial \cap exists \cap Listed = {}

\* Nobody waits for a load_lock in a cycle, although loading one set loads others
\* (LoadEntriesLocked, TypeToLogicalType).
Waiting(p) == At(p, "lock") \/ At(p, "relock")
NoLockCycle ==
  \A P \in (SUBSET Sessions) \ {{}} :
    ~ \A p \in P : Waiting(p) /\ loadLock[Top(p).set] \in P
===============================================================================

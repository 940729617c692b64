-------------------------- MODULE SchemaLookupsProofs --------------------------
(***************************************************************************)
(* Proofs about SchemaTypes: a lookup finds what the cache has to know,    *)
(* whatever is half loaded meanwhile, and finds types as they are defined. *)
(***************************************************************************)
EXTENDS SchemaSlicesProofs

USE DEF settingVars, serverVars, setVars

-------------------------------------------------------------------------------
(* What a type is made of.                                                 *)

\* A set of objects that has whatever its objects refer to.
Closed(view) == \A o \in view \cap Objects : ToSet(Refs[o]) \subseteq view
Made(refs) == UNION {Definition[r] : r \in ToSet(refs)}

LEMMA RefsAreOlder ==
  \A o \in Objects : /\ o \in Nat
                     /\ \A r \in ToSet(Refs[o]) : r \in Objects /\ r \in Types /\ r < o
<1> TAKE o \in Objects
<1> DEFINE S == {r \in Objects : r < o /\ KindOf[r] \in {"enum", "composite"}}
<1>1. o \in Nat /\ Refs[o] \in Seq(S)
  BY SchemaAssumption
<1> HIDE DEF S
<1>2. \A i \in DOMAIN Refs[o] : Refs[o][i] \in S
  BY <1>1
<1> QED BY <1>1, <1>2 DEF ToSet, S, Types

\* The recursion ends: the types that can be reached from an object solve its equation.
LEMMA DefinitionOf ==
  \A o \in Objects :
    Definition[o] = (IF SetKind(o) = "types" THEN {o} ELSE {}) \cup Made(Refs[o])
<1> DEFINE Reach(o) == {x \in Objects : \A V \in SUBSET Objects : o \in V /\ Closed(V) => x \in V}
           own(o) == IF SetKind(o) = "types" THEN {o} ELSE {}
           f == [o \in Objects |-> {x \in Reach(o) : SetKind(x) = "types"}]
<1>1. ASSUME NEW o \in Objects PROVE o \in Reach(o) /\ Closed(Reach(o))
  BY RefsAreOlder DEF Closed
<1>2. ASSUME NEW o \in Objects, NEW r \in ToSet(Refs[o]) PROVE Reach(r) \subseteq Reach(o)
  BY DEF Closed
<1>3. ASSUME NEW o \in Objects, NEW x \in Reach(o), x # o
      PROVE  \E r \in ToSet(Refs[o]) : x \in Reach(r)
  <2> DEFINE V == {o} \cup UNION {Reach(r) : r \in ToSet(Refs[o])}
  <2>1. V \in SUBSET Objects /\ o \in V
    OBVIOUS
  <2>2. \A r \in ToSet(Refs[o]) : r \in Objects /\ r \in Reach(r) /\ Closed(Reach(r))
    BY <1>1, RefsAreOlder
  <2>3. ASSUME NEW y \in V \cap Objects, NEW r \in ToSet(Refs[y]) PROVE r \in V
    <3>1. CASE y = o
      BY <2>2, <3>1
    <3>2. CASE y # o
      <4>1. PICK q \in ToSet(Refs[o]) : y \in Reach(q)
        BY <3>2
      <4>2. r \in Reach(q)
        BY <2>2, <2>3, <4>1 DEF Closed
      <4> QED BY <4>2
    <3> QED BY <3>1, <3>2
  <2>4. Closed(V)
    BY <2>3 DEF Closed
  <2>5. x \in V
    BY <2>1, <2>4
  <2> QED BY <1>3, <2>5
<1>4. \A o \in Objects : \A r \in ToSet(Refs[o]) : r \in Objects
  BY RefsAreOlder
<1> HIDE DEF Reach
<1>5. ASSUME NEW o \in Objects
      PROVE  f[o] = own(o) \cup UNION {f[r] : r \in ToSet(Refs[o])}
  <2>1. f[o] = {x \in Reach(o) : SetKind(x) = "types"}
    OBVIOUS
  <2>2. \A r \in ToSet(Refs[o]) : f[r] = {x \in Reach(r) : SetKind(x) = "types"}
    BY <1>4
  <2> HIDE DEF f
  <2>3. own(o) \cup UNION {f[r] : r \in ToSet(Refs[o])} \subseteq f[o]
    BY <1>1, <1>2, <2>1, <2>2
  <2>4. ASSUME NEW x \in f[o], x # o PROVE x \in UNION {f[r] : r \in ToSet(Refs[o])}
    <3>1. x \in Reach(o) /\ SetKind(x) = "types"
      BY <2>1
    <3>2. PICK r \in ToSet(Refs[o]) : x \in Reach(r)
      BY <1>3, <2>4, <3>1
    <3> QED BY <2>2, <3>1, <3>2
  <2>5. o \in f[o] => o \in own(o)
    BY <2>1
  <2> QED BY <2>3, <2>4, <2>5
<1>6. f = [o \in Objects |-> own(o) \cup UNION {f[r] : r \in ToSet(Refs[o])}]
  <2>1. f = [o \in Objects |-> f[o]]
    OBVIOUS
  <2> HIDE DEF f
  <2> QED BY <1>5, <2>1
<1> HIDE DEF f
<1>7. Definition = [o \in Objects |-> own(o) \cup UNION {Definition[r] : r \in ToSet(Refs[o])}]
  BY <1>6 DEF Definition
<1> QED BY <1>7 DEF Made

\* A type is made of what a closed set that has it has.
LEMMA DefinitionWithin ==
  ASSUME NEW V, Closed(V), NEW o \in V \cap Objects
  PROVE  Definition[o] \subseteq V
<1> DEFINE Bad == {x \in V \cap Objects : ~(Definition[x] \subseteq V)}
<1> SUFFICES ASSUME Bad # {} PROVE FALSE
  OBVIOUS
<1>1. Bad \in SUBSET Nat
  BY RefsAreOlder
<1>2. PICK x \in Bad : \A y \in Bad : x <= y
  BY <1>1, Smallest
<1>3. ASSUME NEW r \in ToSet(Refs[x]) PROVE Definition[r] \subseteq V
  <2>1. r \in V \cap Objects /\ r \in Nat /\ x \in Nat /\ r < x
    BY RefsAreOlder DEF Closed
  <2>2. ~(x <= r)
    BY <2>1
  <2> QED BY <1>2, <2>1, <2>2
<1>4. Definition[x] \subseteq V
  BY <1>3, DefinitionOf DEF Made
<1> QED BY <1>4

LEMMA DefinitionFacts ==
  \A o \in Objects :
    /\ Definition[o] \subseteq Types
    /\ \A r \in Definition[o] : r \in Objects /\ Definition[r] \subseteq Definition[o]
    /\ \A r \in ToSet(Refs[o]) : r \in Definition[o]
    /\ KindOf[o] = "enum" => Definition[o] = {o}
    /\ KindOf[o] = "index" => Definition[o] = {}
<1>1. ASSUME NEW o \in Objects PROVE Definition[o] \subseteq Types
  <2> DEFINE Bad == {x \in Objects : ~(Definition[x] \subseteq Types)}
  <2> SUFFICES ASSUME Bad # {} PROVE FALSE
    OBVIOUS
  <2>1. Bad \in SUBSET Nat
    BY RefsAreOlder
  <2>2. PICK x \in Bad : \A y \in Bad : x <= y
    BY <2>1, Smallest
  <2>3. ASSUME NEW r \in ToSet(Refs[x]) PROVE Definition[r] \subseteq Types
    <3>1. r \in Objects /\ r \in Nat /\ x \in Nat /\ r < x
      BY RefsAreOlder
    <3>2. ~(x <= r)
      BY <3>1
    <3> QED BY <2>2, <3>1, <3>2
  <2>4. SetKind(x) = "types" => x \in Types
    BY SchemaAssumption DEF SetKind, Types
  <2>5. Definition[x] \subseteq Types
    BY <2>3, <2>4, DefinitionOf DEF Made
  <2> QED BY <2>5
<1>2. ASSUME NEW o \in Objects, NEW q \in Definition[o] PROVE Definition[q] \subseteq Definition[o]
  <2> DEFINE Bad == {x \in Objects : \E r \in Definition[x] : ~(Definition[r] \subseteq Definition[x])}
  <2> SUFFICES ASSUME Bad # {} PROVE FALSE
    BY <1>2
  <2>1. Bad \in SUBSET Nat
    BY RefsAreOlder
  <2>2. PICK x \in Bad : \A y \in Bad : x <= y
    BY <2>1, Smallest
  <2>3. PICK r \in Definition[x] : ~(Definition[r] \subseteq Definition[x])
    OBVIOUS
  <2>4. PICK y \in ToSet(Refs[x]) : r \in Definition[y]
    BY <2>3, DefinitionOf DEF Made
  <2>5. y \in Objects /\ y \in Nat /\ x \in Nat /\ y < x
    BY RefsAreOlder
  <2>6. ~(x <= y)
    BY <2>5
  <2>7. Definition[r] \subseteq Definition[y]
    BY <2>2, <2>4, <2>5, <2>6
  <2>8. Definition[y] \subseteq Definition[x]
    BY <2>4, DefinitionOf DEF Made
  <2> QED BY <2>3, <2>7, <2>8
<1>3. ASSUME NEW o \in Objects, NEW r \in ToSet(Refs[o]) PROVE r \in Definition[o]
  <2>1. r \in Objects /\ SetKind(r) = "types"
    BY RefsAreOlder DEF Types, SetKind
  <2>2. r \in Definition[r]
    BY <2>1, DefinitionOf
  <2> QED BY <2>2, DefinitionOf DEF Made
<1>4. ASSUME NEW o \in Objects, KindOf[o] \in {"enum", "index"}
      PROVE  Definition[o] = IF KindOf[o] = "enum" THEN {o} ELSE {}
  <2>1. Refs[o] = <<>>
    BY <1>4, SchemaAssumption
  <2>2. Made(Refs[o]) = {}
    BY <2>1 DEF Made, ToSet
  <2> QED BY <1>4, <2>2, DefinitionOf DEF SetKind
<1> QED BY <1>1, <1>2, <1>3, <1>4 DEF Types

-------------------------------------------------------------------------------
(* The rows of a slice come in the order of their oids.                    *)

Ascending(s) == \A i, j \in DOMAIN s : i < j => s[i] < s[j]

LEMMA SliceAscends ==
  ASSUME NEW schemas \in Seq(Schemas), NEW rows \in Seq(Objects), NEW i \in DOMAIN schemas,
         \A m, n \in DOMAIN rows :
           m < n /\ SchemaOf[rows[m]] = SchemaOf[rows[n]] => rows[m] < rows[n]
  PROVE  Ascending(SliceResult(schemas, rows)[i])
<1> DEFINE end == CHOOSE e \in [0 .. Len(schemas) -> 0 .. Len(rows)] : IsEnd(e, schemas, rows)
           part == SubSeq(rows, end[i - 1] + 1, end[i])
<1>1. end \in [0 .. Len(schemas) -> 0 .. Len(rows)] /\ IsEnd(end, schemas, rows)
  BY EndsExist
<1>2. SliceResult(schemas, rows)[i] = part
  BY DEF SliceResult
<1> HIDE DEF end
<1>3. i \in 1 .. Len(schemas) /\ Len(schemas) \in Nat /\ Len(rows) \in Nat
      /\ DOMAIN rows = 1 .. Len(rows)
  OBVIOUS
<1>4. end[i - 1] \in 0 .. Len(rows) /\ end[i] \in 0 .. Len(rows) /\ end[i - 1] <= end[i]
  BY <1>1, <1>3 DEF IsEnd
<1>5. \A j \in end[i - 1] + 1 .. end[i] : SchemaOf[rows[j]] = schemas[i]
  BY <1>1, <1>3 DEF IsEnd
<1>6. /\ DOMAIN part = 1 .. end[i] - end[i - 1]
      /\ \A j \in 1 .. end[i] - end[i - 1] : part[j] = rows[end[i - 1] + j]
  <2>1. \A j \in end[i - 1] + 1 .. end[i] : rows[j] \in Objects
    BY <1>3, <1>4
  <2>2. end[i - 1] + 1 \in Int /\ end[i] \in Int /\ end[i - 1] \in Int
    BY <1>4
  <2>8. part \in Seq(Objects)
    BY <2>1, <2>2, SubSeqProperties
  <2>3. /\ Len(part) = IF end[i - 1] + 1 <= end[i] THEN end[i] - (end[i - 1] + 1) + 1 ELSE 0
        /\ \A j \in 1 .. end[i] - (end[i - 1] + 1) + 1 : part[j] = rows[(end[i - 1] + 1) + j - 1]
    BY <2>1, <2>2, SubSeqProperties
  <2> HIDE DEF part
  <2>4. end[i] - (end[i - 1] + 1) + 1 = end[i] - end[i - 1]
    BY <2>2
  <2>5. \A j \in 1 .. end[i] - end[i - 1] : (end[i - 1] + 1) + j - 1 = end[i - 1] + j
    BY <1>4
  <2>6. Len(part) = end[i] - end[i - 1]
    BY <1>4, <2>3, <2>4
  <2>7. DOMAIN part = 1 .. Len(part)
    BY <2>8
  <2> QED BY <2>3, <2>4, <2>5, <2>6, <2>7
<1> HIDE DEF part
<1>7. ASSUME NEW m \in DOMAIN part, NEW n \in DOMAIN part, m < n PROVE part[m] < part[n]
  <2> DEFINE b == end[i - 1]
             e == end[i]
  <2>1. /\ b \in Int /\ e \in Int /\ 0 <= b /\ e <= Len(rows) /\ Len(rows) \in Int
        /\ m \in 1 .. e - b /\ n \in 1 .. e - b
    BY <1>3, <1>4, <1>6
  <2> HIDE DEF b, e
  <2>2. /\ b + m \in b + 1 .. e /\ b + n \in b + 1 .. e /\ b + m < b + n
        /\ b + m \in 1 .. Len(rows) /\ b + n \in 1 .. Len(rows)
    BY <1>7, <2>1
  <2>3. part[m] = rows[b + m] /\ part[n] = rows[b + n]
    BY <1>6, <2>1 DEF b, e
  <2>4. SchemaOf[rows[b + m]] = SchemaOf[rows[b + n]]
    BY <1>5, <2>2 DEF b, e
  <2> QED BY <1>3, <2>2, <2>3, <2>4
<1> QED BY <1>2, <1>7 DEF Ascending

\* What is cut out of the k-th answer for the i-th schema.
Part(p, k, i) == SliceResult(SchemaRows(answers[p][1]), Rows(answers[p][k]))[i]

LEMMA PartFacts ==
  ASSUME LocksInv, NEW p \in Sessions, LoadSchemas(p), NEW k \in 2 .. 5,
         NEW i \in DOMAIN SchemaRows(answers[p][1])
  PROVE  /\ Part(p, k, i) \in Seq(Objects) /\ Ascending(Part(p, k, i))
         /\ \A o \in ToSet(Part(p, k, i)) :
              /\ o \in answers[p][k] /\ o \in Objects /\ KindOf[o] = AnswerTo[k]
              /\ SchemaOf[o] = SchemaRows(answers[p][1])[i]
<1> DEFINE a == answers[p]
           S == a[k]
           schemas == SchemaRows(a[1])
           rows == Rows(S)
<1>1. stack[p] # <<>> /\ stack[p][1].pc = "slice"
  BY DEF LoadSchemas, At
<1>2. /\ a \in Seq(SUBSET Known) /\ Len(a) = 5 /\ byName \in BOOLEAN
      /\ \A n \in DOMAIN a \ {1} : a[n] \subseteq {x \in Objects : KindOf[x] = AnswerTo[n]}
  BY <1>1, TopFacts DEF AnswersOK, LocksInv, DataOK
<1>3. S \subseteq Objects /\ \A o \in S : KindOf[o] = AnswerTo[k]
  <2>1. k \in DOMAIN a \ {1}
    BY <1>2
  <2> QED BY <1>2, <2>1
<1>4. schemas \in Seq(Schemas) /\ i \in DOMAIN schemas
  BY <1>2, SchemaRowsOrdered
<1>5. /\ rows \in Seq(Objects) /\ ToSet(rows) = S
      /\ \A m, n \in DOMAIN rows :
           m < n /\ SchemaOf[rows[m]] = SchemaOf[rows[n]] => rows[m] < rows[n]
  BY <1>2, <1>3, RowsOrdered
<1>6. rows \in Seq(S)
  BY <1>2, <1>3, RowsType
<1> HIDE DEF a, S, schemas, rows
<1>7. Ascending(SliceResult(schemas, rows)[i])
  BY <1>4, <1>5, SliceAscends
<1>8. SliceResult(schemas, rows)[i] \in Seq({o \in S : SchemaOf[o] = schemas[i]})
  BY <1>3, <1>4, <1>6, SlicesOwnRows
<1> DEFINE part == SliceResult(schemas, rows)[i]
<1>9. Part(p, k, i) = part
  BY DEF Part, a, S, schemas, rows
<1> HIDE DEF part
<1>10. \A n \in DOMAIN part : part[n] \in S /\ SchemaOf[part[n]] = schemas[i]
  BY <1>8 DEF part
<1>11. part \in Seq(Objects)
  BY <1>3, <1>8 DEF part
<1>12. \A o \in ToSet(part) : o \in S /\ SchemaOf[o] = schemas[i]
  BY <1>10 DEF ToSet
<1>13. Ascending(part)
  BY <1>7 DEF part
<1> QED BY <1>3, <1>9, <1>11, <1>12, <1>13 DEF a, S, schemas
-------------------------------------------------------------------------------
(* What the cache has to hold, where it holds it, and who is about to put  *)
(* it there.                                                               *)

\* Nobody but DuckDB creates objects in a schema that DuckDB creates.  Where pg_clear_cache
\* comes before CREATE SCHEMA has put its entry into the set, that entry outlives the next
\* load, and its sets count as loaded.
OthersKeepOut == \A o \in OtherClients \cap Objects : SchemaOf[o] \notin OwnDdl \ Initial

\* CREATE TYPE names no schema, so that the server chooses one: no statement names another.
NamedWhereCreated == \A x \in OwnDdl \cap Objects : NamedIn[x] \subseteq {SchemaOf[x]}

\* The types of a table that only the second query has seen are in schemas that the first
\* one has seen.
TypesCovered ==
  <<"read_committed", FALSE>> \in Settings =>
    \A r \in Types \cap (OtherClients \cup OwnDdl) : SchemaOf[r] \in Initial

\* The set of schemas is not loaded, and no load is about to end.
AboutToEnd(p) == At(p, "load") /\ Top(p).set = Root
Cleared == ~loaded[Root] /\ \A p \in Sessions : ~AboutToEnd(p)

\* What is due, the types it is made of, and what DuckDB has created in a schema whose entry
\* the next load leaves alone.
Parts(o) == IF byName \/ ~TypesCovered THEN {} ELSE Definition[o]
Kept == {o \in exists \cap Objects : \/ o \in due
                                     \/ \E t \in due \cap Objects : o \in Parts(t)
                                     \/ Cleared /\ SchemaOf[o] \in DOMAIN entries[Root]}

\* The server, as the cache may know it.
HistoryInv ==
  /\ due \subseteq exists /\ Whole(used) /\ Closed(exists)
  /\ \A p \in Sessions : snapshot[p] # Unstarted => Closed(snapshot[p]) /\ snapshot[p] \subseteq used

\* What the queries of a load have returned so far.  What the first one has seen is in the
\* later ones too, and so are the types of the tables of the second one.
ReadAt(p) ==
  LET seen == answers[p]
  IN /\ \A i \in DOMAIN seen : /\ seen[i] \subseteq used
                               /\ isolation = "repeatable_read" => seen[i] \subseteq snapshot[p]
     /\ Whole(seen[1]) /\ (~byName => Closed(seen[1])) /\ seen[1] \subseteq Listed
     /\ \A i \in DOMAIN seen \ {1} : \A o \in exists \cap Objects : KindOf[o] = AnswerTo[i] =>
          /\ o \in seen[1] => o \in seen[i]
          /\ ~byName /\ i > 2 => \A t \in seen[2] \cap exists : o \in Definition[t] => o \in seen[i]
     /\ ~byName /\ TypesCovered /\ Len(seen) >= 2 =>
          \A t \in seen[2] \cap exists : \A o \in Definition[t] : SchemaOf[o] \in seen[1]
ReadInv == \A p \in Sessions : answers[p] # <<>> => ReadAt(p)

Placed(c) == {o \in Objects : SchemaOf[o] = c[2] /\ SetKind(o) = c[1]}
Sliced(c) == ToSet(slice[c][1]) \cup ToSet(slice[c][2])

\* A set in a schema holds its own objects, in its entries or, as long as it is not loaded,
\* in its slice.
Holds(c) ==
  /\ Current(c) => \A o \in Kept \cap Placed(c) :
                     o \in DOMAIN entries[c] \/ (~loaded[c] /\ o \in Sliced(c))
  /\ DOMAIN entries[c] \cup Sliced(c) \subseteq Placed(c) \cap used
  /\ c[3] > generation => ~loaded[c] /\ DOMAIN entries[c] = {}
  /\ c[1] = "types" => /\ Ascending(slice[c][2])
                       /\ \A o \in ToSet(slice[c][1]) : KindOf[o] = "enum"
  /\ c[1] = "tables" => slice[c][1] = <<>>

CacheInv ==
  /\ due \cap Schemas \subseteq DOMAIN entries[Root] /\ DOMAIN entries[Root] \subseteq used
  /\ Cleared => DOMAIN entries[Root] \subseteq OwnDdl \ Initial
  /\ \A o \in Kept : SchemaOf[o] \in DOMAIN entries[Root]
  /\ \A c \in Sets \ {Root} : Holds(c)

\* A call has its set, and has all that its set is to hold in the entries, among what it has
\* built, or still to build.
CallHas(f) ==
  /\ f.want \in Placed(f.set) /\ f.set[2] \in used /\ f.set[3] <= generation
  /\ ToSet(f.todo) \cup DOMAIN f.built \subseteq Placed(f.set) \cap used
  /\ f.set[1] = "types" => f.built = <<>> /\ Ascending(f.todo)
  /\ Current(f.set) /\ f.pc \in {"relock", "requery", "rebuild"} => f.want \notin Kept
  /\ Current(f.set) /\ f.pc = "load" =>
       Kept \cap Placed(f.set) \subseteq DOMAIN entries[f.set] \cup DOMAIN f.built \cup ToSet(f.todo)
  /\ Cleared /\ f.set[2] \in DOMAIN entries[Root] => Current(f.set)

CallInv(f) ==
  /\ f.refs # <<>> => f.todo # <<>> /\ ToSet(f.refs) \subseteq ToSet(Refs[f.todo[1]])
  /\ f.set = Root /\ f.pc \in {"query", "slice", "load"} => ~loaded[Root]
  /\ f.set # Root => CallHas(f)

\* A call looks up the next type of the call below it, and does not look into a set that
\* somebody else is loading.
Linked(s) == \A i \in DOMAIN s : i + 1 \in DOMAIN s => s[i].want = s[i + 1].refs[1]
StackInv(p) ==
  /\ \A f \in ToSet(stack[p]) : CallInv(f)
  /\ Linked(stack[p])
  /\ At(p, "find") /\ Top(p).set # Root => SkipsLoad(Top(p).set, p)

LookupInv ==
  /\ HistoryInv /\ ReadInv /\ CacheInv
  /\ \A p \in Sessions : StackInv(p)
  /\ ~missed

LEMMA LookupInit == Init => LookupInv
<1> SUFFICES ASSUME Init PROVE LookupInv
  OBVIOUS
<1>1. /\ due = {} /\ exists = Initial /\ used = Initial /\ ~missed
      /\ \A p \in Sessions : snapshot[p] = Unstarted /\ stack[p] = <<>> /\ answers[p] = <<>>
  BY DEF Init
<1>2. \A c \in Sets : /\ entries[c] = <<>> /\ ~loaded[c] /\ slice[c] = NoSlice
  BY DEF Init
<1>3. HistoryInv
  BY <1>1, SchemaAssumption DEF HistoryInv, Whole, Closed
<1>4. ReadInv
  BY <1>1 DEF ReadInv
<1>5. DOMAIN entries[Root] = {} /\ Kept = {}
  <2>1. DOMAIN entries[Root] = {}
    BY <1>2, SetFacts
  <2> QED BY <1>1, <2>1 DEF Kept
<1>6. ASSUME NEW c \in Sets PROVE Holds(c)
  <2>1. DOMAIN entries[c] = {} /\ ~loaded[c] /\ slice[c][1] = <<>> /\ slice[c][2] = <<>>
    BY <1>2 DEF NoSlice
  <2>2. Sliced(c) = {} /\ Ascending(<<>>)
    BY <2>1 DEF Sliced, ToSet, Ascending
  <2>3. ToSet(slice[c][1]) = {}
    BY <2>1 DEF ToSet
  <2> QED BY <1>5, <2>1, <2>2, <2>3 DEF Holds
<1>7. CacheInv
  BY <1>1, <1>5, <1>6 DEF CacheInv
<1>8. ASSUME NEW p \in Sessions PROVE StackInv(p)
  BY <1>1 DEF StackInv, Linked, ToSet, At
<1> QED BY <1>1, <1>3, <1>4, <1>7, <1>8 DEF LookupInv

-------------------------------------------------------------------------------
(* What the server has, and what the queries of a load return.             *)

\* What a step does to the cache's duties.
LEMMA DueStays ==
  ASSUME LocksInv, HistoryInv, [Next]_vars
  PROVE  due' \subseteq exists'
<1>0. exists \subseteq used /\ due \subseteq exists
  BY DEF LocksInv, DataOK, TypeOK, HistoryInv
<1>1. ASSUME NEW p \in Sessions, Session(p)
      PROVE  due' \subseteq exists'
  <2>1. CASE \/ Lookup(p) \/ StartDdl(p) \/ FindSchema(p) \/ FindEntry(p)
             \/ LockToLoad(p) \/ ResolveType(p) \/ CreateCompositeType(p) \/ BuildTable(p)
             \/ FinishLoad(p) \/ LockToReload(p) \/ FinishReload(p)
    BY <1>0, <2>1 DEF Lookup, StartDdl, FindSchema, FindEntry, LockToLoad, ResolveType,
                CreateCompositeType, BuildTable, FinishLoad, LockToReload, FinishReload
  <2>2. CASE QuerySchemas(p) \/ QueryTable(p)
    BY <1>0, <2>2 DEF QuerySchemas, QueryTable
  <2>3. CASE LoadSchemas(p)
    BY <1>0, <2>3 DEF LoadSchemas
  <2>4. CASE CreateSchema(p) \/ CreateType(p) \/ CreateIndex(p)
    BY <1>0, <2>4 DEF CreateSchema, CreateType, CreateIndex, Created
  <2>5. CASE Drop(p)
    BY <1>0, <2>5 DEF Drop
  <2>6. CASE DdlFails(p) \/ QueryFails(p) \/ EndTransaction(p)
    BY <1>0, <2>6 DEF DdlFails, QueryFails, Throw, EndTransaction
  <2> QED BY <1>1, <2>1, <2>2, <2>3, <2>4, <2>5, <2>6 DEF Session, Load, Reload, Ddl
<1>2. CASE ClearCache
  BY <1>0, <1>2 DEF ClearCache
<1>3. CASE OtherClient
  BY <1>0, <1>3 DEF OtherClient
<1>4. CASE UNCHANGED vars
  BY <1>0, <1>4 DEF vars
<1> QED BY <1>1, <1>2, <1>3, <1>4 DEF Next

LEMMA ClosedStays ==
  ASSUME LocksInv, HistoryInv, ServerSteps
  PROVE  /\ Closed(exists)' /\ Whole(used)' /\ used \subseteq used'
         /\ \A x \in exists' \ exists : x \notin used
<1>1. exists \subseteq used /\ used \subseteq Schemas \cup Objects
  BY DEF LocksInv, DataOK, TypeOK
<1>2. CASE UNCHANGED serverVars
  BY <1>1, <1>2 DEF HistoryInv, Whole, Closed
<1>3. ASSUME NEW x \in Schemas \cup Objects, CanCreate(x), exists' = exists \cup {x},
             used' = used \cup (exists' \ exists)
      PROVE  /\ Closed(exists)' /\ Whole(used)' /\ used \subseteq used'
             /\ \A y \in exists' \ exists : y \notin used
  <2>1. x \notin used
    BY <1>3, OidsAreNumbers DEF CanCreate
  <2>2. x \in Objects => SchemaOf[x] \in exists /\ ToSet(Refs[x]) \subseteq exists
    BY <1>3 DEF CanCreate
  <2>3. Closed(exists)'
    BY <1>3, <2>2 DEF HistoryInv, Closed
  <2>4. Whole(used)'
    BY <1>1, <1>3, <2>2 DEF HistoryInv, Whole
  <2> QED BY <1>3, <2>1, <2>3, <2>4
<1>4. ASSUME NEW x \in Schemas \cup Objects, CanDrop(x), exists' = exists \ {x},
             used' = used \cup (exists' \ exists)
      PROVE  /\ Closed(exists)' /\ Whole(used)' /\ used \subseteq used'
             /\ \A y \in exists' \ exists : y \notin used
  BY <1>1, <1>4 DEF HistoryInv, Whole, Closed, CanDrop
<1> QED BY <1>2, <1>3, <1>4 DEF ServerSteps

LEMMA ViewIsClosed ==
  ASSUME LocksInv, HistoryInv, NEW p \in Sessions
  PROVE  Closed(View(p)) /\ View(p) \subseteq used
BY DEF LocksInv, DataOK, TypeOK, HistoryInv, View

LEMMA HistoryNext ==
  ASSUME LocksInv, HistoryInv, [Next]_vars
  PROVE  HistoryInv'
<1>1. ServerSteps /\ \A p \in Sessions : ReadsOn(p)
  BY Effects
<1>2. Closed(exists)' /\ Whole(used)' /\ used \subseteq used' /\ due' \subseteq exists'
  BY <1>1, ClosedStays, DueStays
<1>3. ASSUME NEW p \in Sessions
      PROVE  snapshot'[p] \in {snapshot[p], Unstarted, View(p)}
  <2>1. snapshot \in [Sessions -> (SUBSET Known) \cup {Unstarted}]
    BY DEF LocksInv, DataOK
  <2>2. QuerySchemas(p) => snapshot'[p] \in {snapshot[p], View(p)}
    BY <2>1 DEF QuerySchemas, Started
  <2> QED BY <1>1, <2>2 DEF ReadsOn
<1>4. ASSUME NEW p \in Sessions, snapshot'[p] # Unstarted
      PROVE  Closed(snapshot[p])' /\ snapshot'[p] \subseteq used'
  <2>1. \/ snapshot'[p] = snapshot[p] /\ snapshot[p] # Unstarted
        \/ snapshot'[p] = View(p)
    BY <1>3, <1>4
  <2>2. Closed(View(p)) /\ View(p) \subseteq used
    BY ViewIsClosed
  <2> QED BY <1>2, <2>1, <2>2 DEF HistoryInv, Closed
<1> QED BY <1>2, <1>4 DEF HistoryInv

\* What the queries have returned stays right, whatever is created or dropped meanwhile.
LEMMA ReadKeeps ==
  ASSUME LocksInv, HistoryInv, NEW p \in Sessions, answers[p] # <<>>, ReadAt(p),
         UNCHANGED settingVars, ServerSteps,
         answers'[p] = answers[p], snapshot'[p] = snapshot[p]
  PROVE  ReadAt(p)'
<1> DEFINE seen == answers[p]
<1>1. /\ used \subseteq used' /\ \A x \in exists' \ exists : x \notin used
  BY ClosedStays
<1>2. answers[p] \in Seq(SUBSET Known) /\ 1 \in DOMAIN seen
  BY StateFacts
<1>3. AnswersOK(stack[p], answers[p], generation)
  BY DEF LocksInv
<1>4. Closed(exists) /\ exists \subseteq used
  BY DEF HistoryInv, LocksInv, DataOK, TypeOK
<1>5. \A i \in DOMAIN seen : seen[i] \subseteq used
  BY DEF ReadAt
<1>6. Len(seen) \in Nat /\ DOMAIN seen = 1 .. Len(seen)
  BY <1>2
<1>7. \A i \in DOMAIN seen : \A t \in seen[i] \cap exists' : t \in exists
  BY <1>1, <1>5
<1>8. ASSUME NEW i \in DOMAIN seen \ {1}, NEW t \in seen[i] \cap exists, NEW o \in Definition[t]
      PROVE  o \in exists
  <2>1. t \in Objects
    BY <1>3 DEF AnswersOK
  <2> QED BY <1>4, <1>8, <2>1, DefinitionWithin
<1>9. Listed' = Listed
  BY DEF Listed
<1>10. answers' [p] = seen /\ isolation' = isolation /\ byName' = byName
  OBVIOUS
<1>11. Whole(seen[1]) /\ (~byName => Closed(seen[1])) /\ seen[1] \subseteq Listed
  BY DEF ReadAt
<1>12. ASSUME NEW i \in DOMAIN seen \ {1}, NEW o \in exists' \cap Objects, KindOf[o] = AnswerTo[i]
       PROVE  /\ o \in seen[1] => o \in seen[i]
              /\ ~byName /\ i > 2 => \A t \in seen[2] \cap exists' : o \in Definition[t] => o \in seen[i]
  <2>1. o \in seen[1] => o \in seen[i]
    BY <1>2, <1>7, <1>12 DEF ReadAt
  <2>2. ASSUME ~byName, i > 2, NEW t \in seen[2] \cap exists', o \in Definition[t] PROVE o \in seen[i]
    <3>1. 2 \in DOMAIN seen \ {1}
      BY <1>6, <2>2
    <3>2. t \in exists /\ o \in exists
      BY <1>7, <1>8, <2>2, <3>1
    <3> QED BY <1>12, <2>2, <3>2 DEF ReadAt
  <2> QED BY <2>1, <2>2
<1>13. ASSUME ~byName, TypesCovered, Len(seen) >= 2, NEW t \in seen[2] \cap exists', NEW o \in Definition[t]
       PROVE  SchemaOf[o] \in seen[1]
  <2>1. t \in exists
    BY <1>6, <1>7, <1>13
  <2> QED BY <1>13, <2>1 DEF ReadAt
<1>14. \A i \in DOMAIN seen : /\ seen[i] \subseteq used'
                              /\ isolation = "repeatable_read" => seen[i] \subseteq snapshot[p]
  BY <1>1 DEF ReadAt
<1>15. Whole(seen[1])' /\ (~byName => Closed(seen[1])') /\ seen'[1] \subseteq Listed'
  BY <1>9, <1>10, <1>11 DEF Whole, Closed
<1> QED BY <1>9, <1>10, <1>12, <1>13, <1>14, <1>15 DEF ReadAt, TypesCovered

\* The types of what exists are in schemas that were there from the start, or that all
\* sessions of the same isolation level see.
LEMMA TypeSchemas ==
  ASSUME LocksInv, ServerInv, HistoryInv, TypesCovered, isolation # "repeatable_read", ~byName,
         NEW t \in exists \cap Objects, NEW o \in Definition[t]
  PROVE  SchemaOf[o] \in Lasting \cap Schemas
<1>1. o \in exists /\ o \in Types /\ o \in Objects
  BY DefinitionWithin, DefinitionFacts DEF HistoryInv
<1>2. o \in Known /\ SchemaOf[o] \in exists /\ SchemaOf[o] \in Schemas
  BY <1>1, SchemaOfType DEF LocksInv, DataOK, TypeOK, ServerInv, Whole
<1>3. <<"read_committed", FALSE>> \in Settings
  <2>1. isolation = "read_committed" /\ byName = FALSE
    BY SchemaAssumption DEF ServerInv, LocksInv, DataOK
  <2> QED BY <2>1 DEF ServerInv
<1>4. SchemaOf[o] \in Initial
  BY <1>1, <1>2, <1>3, SchemaAssumption DEF TypesCovered, Known
<1> QED BY <1>2, <1>4 DEF Lasting

LEMMA ReadQueried ==
  ASSUME LocksInv, SliceInv, HistoryInv, ReadInv, NEW p \in Sessions, QuerySchemas(p)
  PROVE  ReadAt(p)'
<1> DEFINE n == Len(answers[p])
           kind == AnswerTo[n + 1]
           view == View(p)
           seen == {x \in view \cap Listed : kind # "schema" => x \in Objects /\ KindOf[x] = kind}
<1>1. /\ answers \in [Sessions -> Seq(SUBSET Known)] /\ snapshot \in [Sessions -> (SUBSET Known) \cup {Unstarted}]
      /\ exists \subseteq used /\ ServerInv /\ used \subseteq Schemas \cup Objects
      /\ Closed(exists)
  BY DEF LocksInv, DataOK, TypeOK, SliceInv, HistoryInv
<1>2. /\ answers'[p] = Append(answers[p], seen)
      /\ UNCHANGED <<isolation, byName, exists, used>>
      /\ isolation = "repeatable_read" => snapshot'[p] = view
      /\ isolation # "repeatable_read" => snapshot'[p] = snapshot[p]
  BY <1>1 DEF QuerySchemas, Started
<1>3. n \in Nat /\ n < 5 /\ AnswersOK(stack[p], answers[p], generation)
  <2>1. stack[p] # <<>> /\ stack[p][1].pc = "query"
    BY DEF QuerySchemas, At
  <2>2. AnswersOK(stack[p], answers[p], generation)
    BY DEF LocksInv
  <2> QED BY <1>1, <2>1, <2>2 DEF AnswersOK
<1>4. /\ DOMAIN answers'[p] = 1 .. n + 1 /\ answers'[p][n + 1] = seen /\ Len(answers'[p]) = n + 1
      /\ \A i \in 1 .. n : answers'[p][i] = answers[p][i]
      /\ answers[p] \in Seq(SUBSET Known) /\ DOMAIN answers[p] = 1 .. n
  BY <1>1, <1>2, <1>3
<1>5. Listed' = Listed
  BY <1>2 DEF Listed
<1>6. Whole(view) /\ Closed(view) /\ view \subseteq used
  BY <1>1, ViewIsWhole, ViewIsClosed
<1>7. isolation # "repeatable_read" => view = exists
  BY DEF View
<1>8. seen \subseteq view /\ seen \subseteq Listed
  OBVIOUS
<1> HIDE DEF view
<1>9. CASE n = 0
  <2>1. kind = "schema"
    BY <1>9 DEF AnswerTo
  <2>2. answers'[p][1] = view \cap Listed /\ DOMAIN answers'[p] = {1} /\ ~(Len(answers'[p]) >= 2)
    BY <1>4, <1>9, <2>1
  <2>3. Whole(view \cap Listed)
    BY <1>6, SchemaOfType DEF Whole, Listed
  <2>4. ~byName => Closed(view \cap Listed)
    BY <1>6, RefsAreOlder DEF Closed, Listed
  <2> HIDE DEF seen, kind, n
  <2>5. Whole(answers[p][1])' /\ (~byName => Closed(answers[p][1])')
    BY <2>2, <2>3, <2>4 DEF Whole, Closed
  <2>6. \A i \in DOMAIN answers'[p] : i = 1
    BY <2>2
  <2>7. answers'[p][1] \subseteq used /\ (isolation = "repeatable_read" => answers'[p][1] \subseteq view)
    BY <1>6, <2>2
  <2>8. answers'[p][1] \subseteq Listed
    BY <2>2
  <2> QED BY <1>2, <1>5, <2>2, <2>5, <2>6, <2>7, <2>8 DEF ReadAt
<1>10. CASE n # 0
  <2>1. ReadAt(p) /\ AnswersAt(p) /\ answers'[p][1] = answers[p][1] /\ 1 \in DOMAIN answers[p]
    <3>1. answers[p] # <<>>
      BY <1>10
    <3>2. 1 \in 1 .. n
      BY <1>3, <1>10
    <3> QED BY <1>4, <3>1, <3>2 DEF SliceInv, ReadInv
  <2>2. kind # "schema"
    <3>1. n + 1 \in 2 .. 5
      BY <1>3, <1>10
    <3> QED BY <3>1 DEF AnswerTo
  <2>3. seen = {x \in view \cap Listed : x \in Objects /\ KindOf[x] = kind}
    BY <2>2
  <2>4. isolation = "repeatable_read" =>
          /\ view = snapshot[p] /\ answers[p][1] \cap Schemas = view \cap Schemas
          /\ snapshot'[p] = snapshot[p]
    BY <1>2, <2>1 DEF AnswersAt, View, view
  <2>5. \A x \in exists : (x \in answers[p][1] => x \in view)
    BY <1>7, <2>1, <2>4 DEF ReadAt
  <2>6. answers[p][1] \subseteq Listed /\ Whole(answers[p][1]) /\ (~byName => Closed(answers[p][1]))
    BY <2>1 DEF ReadAt
  <2> HIDE DEF seen, kind
  <2>7. ASSUME NEW o \in exists \cap Objects, KindOf[o] = kind, o \in answers[p][1]
        PROVE  o \in seen
    BY <2>3, <2>5, <2>6, <2>7
  <2>8. ASSUME ~byName, n + 1 > 2, NEW o \in exists \cap Objects, KindOf[o] = kind,
               NEW t \in answers[p][2] \cap exists, o \in Definition[t]
        PROVE  o \in seen
    <3>1. 2 \in DOMAIN answers[p] \ {1}
      BY <1>3, <1>4, <2>8
    <3>2. t \in Objects
      BY <1>3, <3>1 DEF AnswersOK
    <3>3. t \in view
      BY <1>7, <2>1, <2>4, <3>1 DEF ReadAt
    <3>4. o \in view
      BY <1>6, <2>8, <3>2, <3>3, DefinitionWithin
    <3>5. o \in Listed
      BY <2>8 DEF Listed
    <3> QED BY <2>3, <2>8, <3>4, <3>5
  <2>9. ASSUME ~byName, TypesCovered, n = 1, NEW t \in seen \cap exists, NEW o \in Definition[t]
        PROVE  SchemaOf[o] \in answers[p][1]
    <3>1. t \in view /\ t \in Objects
      BY <2>3
    <3>2. CASE isolation = "repeatable_read"
      <4>1. o \in view /\ o \in Objects
        BY <1>6, <2>9, <3>1, DefinitionWithin, DefinitionFacts
      <4>2. SchemaOf[o] \in view \cap Schemas
        BY <1>6, <4>1, SchemaOfType DEF Whole
      <4> QED BY <2>4, <3>2, <4>2
    <3>3. CASE isolation # "repeatable_read"
      <4>1. SchemaOf[o] \in Lasting \cap Schemas
        BY <1>1, <2>9, <3>1, <3>3, TypeSchemas
      <4> QED BY <2>1, <4>1 DEF AnswersAt
    <3> QED BY <3>2, <3>3
  <2> DEFINE all == answers'[p]
  <2>10. /\ DOMAIN all = 1 .. n + 1 /\ all[n + 1] = seen /\ Len(all) = n + 1 /\ n >= 1
         /\ \A i \in 1 .. n : all[i] = answers[p][i]
         /\ all[1] = answers[p][1]
         /\ n >= 2 => all[2] = answers[p][2]
         /\ n = 1 => all[2] = seen
    BY <1>3, <1>4, <1>10, <2>1
  <2> HIDE DEF all, n
  <2>11. ASSUME NEW i \in DOMAIN all
         PROVE  all[i] \subseteq used /\ (isolation = "repeatable_read" => all[i] \subseteq view)
    <3>1. CASE i = n + 1
      BY <1>6, <1>8, <2>10, <3>1
    <3>2. CASE i # n + 1
      <4>1. i \in DOMAIN answers[p] /\ all[i] = answers[p][i]
        BY <1>3, <1>4, <2>10, <2>11, <3>2
      <4> QED BY <2>1, <2>4, <4>1 DEF ReadAt
    <3> QED BY <3>1, <3>2
  <2>12. ASSUME NEW i \in DOMAIN all \ {1}, NEW o \in exists \cap Objects, KindOf[o] = AnswerTo[i]
         PROVE  /\ o \in all[1] => o \in all[i]
                /\ ~byName /\ i > 2 => \A t \in all[2] \cap exists : o \in Definition[t] => o \in all[i]
    <3>1. CASE i = n + 1
      <4>1. KindOf[o] = kind /\ all[i] = seen
        BY <2>10, <2>12, <3>1 DEF kind
      <4>2. i > 2 => all[2] = answers[p][2] /\ n + 1 > 2
        BY <1>3, <2>10, <3>1
      <4> QED BY <2>7, <2>8, <2>10, <4>1, <4>2
    <3>2. CASE i # n + 1
      <4>1. i \in DOMAIN answers[p] \ {1} /\ all[i] = answers[p][i]
        BY <1>3, <1>4, <2>10, <2>12, <3>2
      <4>2. i > 2 => all[2] = answers[p][2]
        BY <1>3, <2>10, <2>12, <3>2
      <4> QED BY <2>1, <2>10, <2>12, <4>1, <4>2 DEF ReadAt
    <3> QED BY <3>1, <3>2
  <2>13. ASSUME ~byName, TypesCovered, NEW t \in all[2] \cap exists, NEW o \in Definition[t]
         PROVE  SchemaOf[o] \in all[1]
    <3>1. CASE n = 1
      BY <2>9, <2>10, <2>13, <3>1
    <3>2. CASE n # 1
      <4>1. n >= 2 /\ t \in answers[p][2] \cap exists
        BY <1>3, <2>10, <2>13, <3>2
      <4>2. SchemaOf[o] \in answers[p][1]
        BY <2>1, <2>13, <4>1 DEF ReadAt, n
      <4> QED BY <2>10, <4>2
    <3> QED BY <3>1, <3>2
  <2>14. Whole(answers[p][1])' /\ (~byName => Closed(answers[p][1])')
    BY <2>1, <2>6 DEF Whole, Closed
  <2>15. /\ isolation' = isolation /\ byName' = byName /\ exists' = exists /\ used' = used
         /\ isolation = "repeatable_read" => snapshot'[p] = view
    BY <1>2
  <2>16. /\ \A i \in DOMAIN answers'[p] : /\ answers'[p][i] \subseteq used'
                                          /\ isolation' = "repeatable_read" => answers'[p][i] \subseteq snapshot'[p]
         /\ answers'[p][1] \subseteq Listed'
    BY <1>5, <2>1, <2>6, <2>11, <2>15 DEF all
  <2>17. \A i \in DOMAIN answers'[p] \ {1} : \A o \in exists' \cap Objects : KindOf[o] = AnswerTo[i] =>
          /\ o \in answers'[p][1] => o \in answers'[p][i]
          /\ ~byName' /\ i > 2 => \A t \in answers'[p][2] \cap exists' : o \in Definition[t] => o \in answers'[p][i]
    BY <2>12, <2>15 DEF all
  <2>18. ~byName' /\ TypesCovered =>
          \A t \in answers'[p][2] \cap exists' : \A o \in Definition[t] : SchemaOf[o] \in answers'[p][1]
    BY <2>13, <2>15 DEF all
  <2> QED BY <2>14, <2>15, <2>16, <2>17, <2>18 DEF ReadAt, TypesCovered
<1> QED BY <1>9, <1>10

LEMMA ReadNext ==
  ASSUME LocksInv, SliceInv, HistoryInv, ReadInv, [Next]_vars
  PROVE  ReadInv'
<1> SUFFICES ASSUME NEW p \in Sessions, answers'[p] # <<>>
             PROVE  ReadAt(p)'
  BY DEF ReadInv
<1>1. UNCHANGED settingVars /\ ServerSteps /\ ReadsOn(p)
  BY Effects
<1>2. CASE answers'[p] = answers[p] /\ snapshot'[p] = snapshot[p]
  BY <1>1, <1>2, ReadKeeps DEF ReadInv
<1>3. CASE QuerySchemas(p)
  BY <1>3, ReadQueried
<1> QED BY <1>1, <1>2, <1>3 DEF ReadsOn

-------------------------------------------------------------------------------
(* What a step leaves of the calls that it does not take part in.          *)

\* No entry is lost that is to stay, a set that has been current is not current again, and
\* what it has to hold on top of what it had to is there.
Steady ==
  /\ used \subseteq used' /\ generation' \in {generation, generation + 1}
  /\ \A c \in Sets \ {Root} :
       /\ DOMAIN entries[c] \cap Kept' \subseteq DOMAIN entries'[c]
       /\ loaded[c] => loaded'[c]
       /\ c[2] \in used /\ c[3] <= generation =>
            /\ Current(c)' => Current(c)
            /\ Current(c)' => \A o \in Kept' \cap Placed(c) :
                 o \in Kept \/ (o \notin used /\ c[1] # "tables" /\ o \in DOMAIN entries'[c])
            /\ Current(c) /\ c[2] \in DOMAIN entries'[Root] => Current(c)'
            /\ Cleared' /\ c[2] \in DOMAIN entries'[Root] =>
                 Cleared /\ c[2] \in DOMAIN entries[Root]

LEMMA CallStays ==
  ASSUME LocksInv, Steady, NEW f \in Frame, CallInv(f),
         f.pc \in {"relock", "requery", "rebuild"} => f.set[1] = "tables",
         f.set # Root \/ (loaded'[Root] => loaded[Root])
  PROVE  CallInv(f)'
<1>1. CASE f.set = Root
  BY <1>1 DEF CallInv
<1>2. CASE f.set # Root
  <2> DEFINE c == f.set
  <2>1. c \in Sets \ {Root}
    BY <1>2, FrameFacts
  <2>2. /\ f.want \in Placed(c) /\ c[2] \in used /\ c[3] <= generation
        /\ ToSet(f.todo) \cup DOMAIN f.built \subseteq Placed(c) \cap used
        /\ c[1] = "types" => f.built = <<>> /\ Ascending(f.todo)
        /\ Current(c) /\ f.pc \in {"relock", "requery", "rebuild"} => f.want \notin Kept
        /\ Current(c) /\ f.pc = "load" =>
             Kept \cap Placed(c) \subseteq DOMAIN entries[c] \cup DOMAIN f.built \cup ToSet(f.todo)
        /\ Cleared /\ c[2] \in DOMAIN entries[Root] => Current(c)
    BY <1>2 DEF CallInv, CallHas
  <2> HIDE DEF c
  <2>3. c[3] <= generation'
    <3>1. generation \in Nat /\ MaxLoads \in Nat /\ generation' \in {generation, generation + 1}
      BY StateFacts DEF Steady
    <3>2. c[3] \in 1 .. MaxLoads
      BY <2>1, SetFacts
    <3> QED BY <2>2, <3>1, <3>2
  <2>4. /\ used \subseteq used'
        /\ DOMAIN entries[c] \cap Kept' \subseteq DOMAIN entries'[c]
        /\ Current(c)' => Current(c)
        /\ Current(c)' => \A o \in Kept' \cap Placed(c) :
                            o \in Kept \/ (c[1] # "tables" /\ o \in DOMAIN entries'[c])
        /\ Current(c) /\ c[2] \in DOMAIN entries'[Root] => Current(c)'
        /\ Cleared' /\ c[2] \in DOMAIN entries'[Root] =>
             Cleared /\ c[2] \in DOMAIN entries[Root]
    BY <2>1, <2>2 DEF Steady
  <2>5. Current(c)' /\ f.pc \in {"relock", "requery", "rebuild"} => f.want \notin Kept'
    BY <2>2, <2>4 DEF c
  <2>6. Current(c)' /\ f.pc = "load" =>
          Kept' \cap Placed(c) \subseteq DOMAIN entries'[c] \cup DOMAIN f.built \cup ToSet(f.todo)
    BY <2>2, <2>4
  <2>7. Cleared' /\ c[2] \in DOMAIN entries'[Root] => Current(c)'
    BY <2>2, <2>4
  <2>8. CallHas(f)'
    BY <2>2, <2>3, <2>4, <2>5, <2>6, <2>7 DEF CallHas, Placed, c
  <2> QED BY <1>2, <2>8 DEF CallInv
<1> QED BY <1>1, <1>2

\* A call that differs from another one in what it has found of a type only.
LEMMA SameCall ==
  ASSUME NEW f, NEW h, CallInv(h), f.set = h.set, f.want = h.want, f.pc = h.pc, f.todo = h.todo,
         f.built = h.built, f.refs # <<>> => h.refs # <<>> /\ ToSet(f.refs) \subseteq ToSet(h.refs)
  PROVE  CallInv(f)
<1>1. f.set # Root => CallHas(f)
  BY DEF CallInv, CallHas
<1> QED BY <1>1 DEF CallInv

\* The calls of p below the innermost one are on sets of schemas.
LEMMA CallFacts ==
  ASSUME LocksInv, NEW p \in Sessions
  PROVE  /\ stack[p] \in Seq(Frame)
         /\ \A f \in ToSet(stack[p]) :
              /\ f \in Frame /\ FrameOK(p, f, loadLock, loadingThread, generation)
              /\ f # Top(p) => f.set # Root
         /\ \A i \in DOMAIN stack[p] : i # 1 => Suspended(stack[p][i]) /\ stack[p][i].set # Root
<1>1. stack[p] \in Seq(Frame) /\ CallsOK(p, stack[p], loadLock, loadingThread, generation)
  BY StateFacts DEF LocksInv
<1>2. ASSUME NEW i \in DOMAIN stack[p]
      PROVE  /\ stack[p][i] \in Frame /\ FrameOK(p, stack[p][i], loadLock, loadingThread, generation)
             /\ i # 1 => Suspended(stack[p][i]) /\ stack[p][i].set # Root
  <2>1. stack[p][i] \in Frame /\ FrameOK(p, stack[p][i], loadLock, loadingThread, generation)
    BY <1>1, FrameFacts DEF CallsOK
  <2>2. i # 1 => Suspended(stack[p][i])
    BY <1>1 DEF CallsOK
  <2> QED BY <2>1, <2>2 DEF FrameOK, Suspended
<1>3. ASSUME NEW f \in ToSet(stack[p])
      PROVE  /\ f \in Frame /\ FrameOK(p, f, loadLock, loadingThread, generation)
             /\ f # Top(p) => f.set # Root
  <2>1. PICK i \in DOMAIN stack[p] : f = stack[p][i]
    BY DEF ToSet
  <2> QED BY <1>2, <2>1 DEF Top
<1> QED BY <1>1, <1>2, <1>3

\* The calls of p after a step, where its innermost call is replaced,
LEMMA CallReplaced ==
  ASSUME LocksInv, NEW p \in Sessions, stack[p] # <<>>, NEW g \in Frame,
         Linked(stack[p]), g.want = Top(p).want
  PROVE  LET s == [stack[p] EXCEPT ![1] = g]
         IN /\ s \in Seq(Frame) /\ s # <<>> /\ s[1] = g /\ Linked(s)
            /\ \A f \in ToSet(s) : f = g \/ (f \in ToSet(stack[p]) /\ f.set # Root)
<1> DEFINE s == [stack[p] EXCEPT ![1] = g]
<1>1. /\ stack[p] \in Seq(Frame)
      /\ \A i \in DOMAIN stack[p] : i # 1 => stack[p][i].set # Root
  BY CallFacts
<1>2. /\ s \in Seq(Frame) /\ s # <<>> /\ s[1] = g /\ DOMAIN s = DOMAIN stack[p]
      /\ \A i \in DOMAIN s : i # 1 => s[i] = stack[p][i]
      /\ DOMAIN s \subseteq Nat \ {0}
  BY <1>1
<1> HIDE DEF s
<1>3. Linked(s)
  <2> SUFFICES ASSUME NEW i \in DOMAIN s, i + 1 \in DOMAIN s PROVE s[i].want = s[i + 1].refs[1]
    BY DEF Linked
  <2>1. i + 1 # 1
    BY <1>2
  <2>2. s[i].want = stack[p][i].want
    BY <1>2 DEF Top
  <2> QED BY <1>2, <2>1, <2>2 DEF Linked
<1>4. \A f \in ToSet(s) : f = g \/ (f \in ToSet(stack[p]) /\ f.set # Root)
  BY <1>1, <1>2 DEF ToSet
<1> QED BY <1>2, <1>3, <1>4 DEF s

\* where it starts another one,
LEMMA CallPushed ==
  ASSUME LocksInv, NEW p \in Sessions, NEW g \in Frame, Linked(stack[p]),
         stack[p] = <<>> \/ (g.want = Top(p).refs[1] /\ Top(p).set # Root)
  PROVE  LET s == <<g>> \o stack[p]
         IN /\ s \in Seq(Frame) /\ s # <<>> /\ s[1] = g /\ Linked(s)
            /\ \A f \in ToSet(s) : f = g \/ (f \in ToSet(stack[p]) /\ f.set # Root)
<1> DEFINE s == <<g>> \o stack[p]
           old == stack[p]
<1>1. /\ old \in Seq(Frame)
      /\ \A i \in DOMAIN old : i # 1 => old[i].set # Root
      /\ old = <<>> \/ (g.want = old[1].refs[1] /\ old[1].set # Root)
  BY CallFacts DEF Top
<1> HIDE DEF old
<1>2. /\ <<g>> \o old \in Seq(Frame) /\ <<g>> \o old # <<>> /\ (<<g>> \o old)[1] = g
      /\ DOMAIN (<<g>> \o old) = 1 .. Len(old) + 1
      /\ DOMAIN old = 1 .. Len(old) /\ Len(old) \in Nat
      /\ \A i \in 1 .. Len(old) : (<<g>> \o old)[i + 1] = old[i]
  BY <1>1
<1>3. /\ s \in Seq(Frame) /\ s # <<>> /\ s[1] = g /\ DOMAIN s = 1 .. Len(old) + 1
      /\ \A i \in 1 .. Len(old) : s[i + 1] = old[i]
  BY <1>2 DEF old
<1> HIDE DEF s
<1>4. \A j \in DOMAIN s : j # 1 => j - 1 \in DOMAIN old /\ s[j] = old[j - 1]
  <2> SUFFICES ASSUME NEW j \in DOMAIN s, j # 1 PROVE j - 1 \in DOMAIN old /\ s[j] = old[j - 1]
    OBVIOUS
  <2>1. j - 1 \in 1 .. Len(old) /\ (j - 1) + 1 = j
    BY <1>2, <1>3
  <2> QED BY <1>2, <1>3, <2>1
<1>5. Linked(s)
  <2> SUFFICES ASSUME NEW i \in DOMAIN s, i + 1 \in DOMAIN s PROVE s[i].want = s[i + 1].refs[1]
    BY DEF Linked
  <2>1. /\ i + 1 # 1 /\ (i + 1) - 1 = i /\ i \in DOMAIN old /\ s[i + 1] = old[i]
        /\ old # <<>>
    BY <1>2, <1>3
  <2>2. CASE i = 1
    BY <1>1, <1>3, <2>1, <2>2
  <2>3. CASE i # 1
    <3>1. i - 1 \in DOMAIN old /\ s[i] = old[i - 1] /\ (i - 1) + 1 = i
      BY <1>2, <1>3, <1>4, <2>3
    <3> QED BY <2>1, <3>1 DEF Linked, old
  <2> QED BY <2>2, <2>3
<1>6. ASSUME NEW f \in ToSet(s) PROVE f = g \/ (f \in ToSet(stack[p]) /\ f.set # Root)
  <2>1. PICK j \in DOMAIN s : f = s[j]
    BY DEF ToSet
  <2>2. CASE j = 1
    BY <1>3, <2>1, <2>2
  <2>3. CASE j # 1
    <3>1. j - 1 \in DOMAIN old /\ f = old[j - 1]
      BY <1>4, <2>1, <2>3
    <3>2. f \in ToSet(old) /\ f.set # Root
      BY <1>1, <3>1 DEF ToSet
    <3> QED BY <3>2 DEF old
  <2> QED BY <2>2, <2>3
<1> QED BY <1>3, <1>5, <1>6 DEF s

\* and where it returns.
LEMMA CallPopped ==
  ASSUME LocksInv, NEW p \in Sessions, stack[p] # <<>>, NEW got \in SUBSET Objects,
         Linked(stack[p])
  PROVE  LET s == Returned(stack[p], got)
         IN /\ s \in Seq(Frame) /\ Linked(s) /\ (s # <<>> => s[1].pc # "find")
            /\ \A f \in ToSet(s) : \E h \in ToSet(stack[p]) :
                 /\ h.set # Root /\ f.set = h.set /\ f.want = h.want /\ f.pc = h.pc
                 /\ f.todo = h.todo /\ f.built = h.built
                 /\ h.refs # <<>> /\ ToSet(f.refs) \subseteq ToSet(h.refs)
<1> DEFINE s == Returned(stack[p], got)
           old == stack[p]
<1>1. /\ old \in Seq(Frame)
      /\ \A i \in DOMAIN old : i # 1 => Suspended(old[i]) /\ old[i].set # Root
  BY CallFacts
<1>2. /\ s \in Seq(Frame) /\ DOMAIN old = 1 .. Len(old) /\ Len(old) \in Nat
      /\ DOMAIN s = 1 .. Len(old) - 1
      /\ \A i \in DOMAIN old : i # 1 =>
           /\ i - 1 \in DOMAIN s
           /\ s[i - 1] = IF i = 2 THEN [old[2] EXCEPT !.refs = Tail(@), !.got = @ \cup got] ELSE old[i]
      /\ \A i \in DOMAIN s : i + 1 \in DOMAIN old
  BY <1>1, ReturnedFrames
<1> HIDE DEF s, old
<1>3. ASSUME NEW i \in DOMAIN s
      PROVE  LET h == old[i + 1]
                 f == s[i]
             IN /\ i + 1 \in DOMAIN old /\ h.set # Root /\ f.set = h.set /\ f.want = h.want
                /\ f.pc = h.pc /\ f.todo = h.todo /\ f.built = h.built
                /\ f.pc \in {"load", "rebuild"} /\ (i # 1 => f.refs = h.refs)
                /\ h.refs # <<>> /\ ToSet(f.refs) \subseteq ToSet(h.refs)
  <2>1. i + 1 \in DOMAIN old /\ i + 1 # 1 /\ (i + 1) - 1 = i /\ (i + 1 = 2 <=> i = 1)
    BY <1>2
  <2> DEFINE h == old[i + 1]
  <2>2. h \in Frame /\ h.refs \in Seq(Types) /\ h.refs # <<>> /\ h.set # Root /\ h.pc \in {"load", "rebuild"}
    BY <1>1, <2>1, FrameFacts DEF Suspended
  <2>3. s[i] = IF i = 1 THEN [h EXCEPT !.refs = Tail(@), !.got = @ \cup got] ELSE h
    BY <1>2, <2>1
  <2>4. ToSet(Tail(h.refs)) \subseteq ToSet(h.refs)
    <3> SUFFICES ASSUME NEW n \in DOMAIN Tail(h.refs) PROVE Tail(h.refs)[n] \in ToSet(h.refs)
      BY DEF ToSet
    <3>1. n + 1 \in DOMAIN h.refs /\ Tail(h.refs)[n] = h.refs[n + 1]
      BY <2>2
    <3> QED BY <3>1 DEF ToSet
  <2> HIDE DEF h
  <2>5. /\ s[i].set = h.set /\ s[i].want = h.want /\ s[i].pc = h.pc /\ s[i].todo = h.todo
        /\ s[i].built = h.built /\ (i # 1 => s[i].refs = h.refs)
        /\ s[i].refs \in {h.refs, Tail(h.refs)}
    BY <2>2, <2>3 DEF Frame
  <2> QED BY <2>1, <2>2, <2>4, <2>5 DEF h
<1>4. Linked(s)
  <2> SUFFICES ASSUME NEW i \in DOMAIN s, i + 1 \in DOMAIN s PROVE s[i].want = s[i + 1].refs[1]
    BY DEF Linked
  <2>1. i + 1 # 1 /\ i + 1 \in DOMAIN old /\ (i + 1) + 1 \in DOMAIN old
    BY <1>2
  <2>2. s[i].want = old[i + 1].want /\ s[i + 1].refs = old[(i + 1) + 1].refs
    BY <1>3, <2>1
  <2> QED BY <2>1, <2>2 DEF Linked, old
<1>5. s # <<>> => s[1].pc # "find"
  <2>1. s # <<>> => 1 \in DOMAIN s
    BY <1>2
  <2> QED BY <1>3, <2>1
<1>6. ASSUME NEW f \in ToSet(s)
      PROVE  \E h \in ToSet(old) :
                 /\ h.set # Root /\ f.set = h.set /\ f.want = h.want /\ f.pc = h.pc
                 /\ f.todo = h.todo /\ f.built = h.built
                 /\ h.refs # <<>> /\ ToSet(f.refs) \subseteq ToSet(h.refs)
  <2>1. PICK i \in DOMAIN s : f = s[i]
    BY DEF ToSet
  <2>2. old[i + 1] \in ToSet(old)
    BY <1>3 DEF ToSet
  <2> QED BY <1>3, <2>1, <2>2
<1> QED BY <1>2, <1>4, <1>5, <1>6 DEF s, old

\* Where a step of p is steady, it has to be right about the calls of p that it changes.
LEMMA StacksNext ==
  ASSUME LocksInv, \A q \in Sessions : StackInv(q), Steady, NEW p \in Sessions, NEW s \in Seq(Frame),
         stack' = [stack EXCEPT ![p] = s],
         loaded'[Root] => loaded[Root] \/ loadLock[Root] = p,
         \A c \in Sets : loadingThread'[c] = loadingThread[c] \/ loadingThread[c] \in {p, NoSession},
         \A f \in ToSet(s) :
           \/ f \in ToSet(stack[p]) /\ (f.set # Root \/ (loaded'[Root] => loaded[Root]))
           \/ CallInv(f)',
         Linked(s),
         s # <<>> /\ s[1].pc = "find" /\ s[1].set # Root =>
           loaded'[s[1].set] \/ (s[1].set[1] = "types" /\ loadingThread'[s[1].set] = p)
  PROVE  (\A q \in Sessions : StackInv(q))'
<1>1. stack'[p] = s /\ \A q \in Sessions : q # p => stack'[q] = stack[q]
  BY StateFacts
<1>2. ASSUME NEW q \in Sessions, NEW f \in ToSet(stack[q]), f.set # Root \/ (loaded'[Root] => loaded[Root])
      PROVE  CallInv(f)'
  <2>1. f \in Frame /\ FrameOK(q, f, loadLock, loadingThread, generation) /\ CallInv(f)
    BY CallFacts DEF StackInv
  <2>2. f.pc \in {"relock", "requery", "rebuild"} => f.set[1] = "tables"
    BY <2>1 DEF FrameOK
  <2> QED BY <1>2, <2>1, <2>2, CallStays
<1>3. ASSUME NEW q \in Sessions, q # p PROVE StackInv(q)'
  <2>1. ASSUME NEW f \in ToSet(stack[q]) PROVE CallInv(f)'
    <3>1. CASE f.set # Root \/ (loaded'[Root] => loaded[Root])
      BY <1>2, <3>1
    <3>2. CASE f.set = Root /\ loaded'[Root] /\ ~loaded[Root]
      <4>1. loadLock[Root] = p /\ FrameOK(q, f, loadLock, loadingThread, generation) /\ CallInv(f)
        BY <3>2, CallFacts DEF StackInv
      <4>2. f.pc \notin {"query", "slice", "load"}
        BY <1>3, <3>2, <4>1 DEF FrameOK, Holding
      <4> QED BY <3>2, <4>1, <4>2 DEF CallInv
    <3> QED BY <3>1, <3>2
  <2>2. Linked(stack[q])'
    BY <1>1, <1>3 DEF StackInv, Linked
  <2>3. At(q, "find")' /\ Top(q)'.set # Root => SkipsLoad(Top(q).set, q)'
    <3> SUFFICES ASSUME stack[q] # <<>>, stack[q][1].pc = "find", stack[q][1].set # Root
                 PROVE  LET c == stack[q][1].set
                        IN loaded'[c] \/ (c[1] = "types" /\ loadingThread'[c] = q)
      BY <1>1, <1>3 DEF At, Top, SkipsLoad
    <3> DEFINE c == stack[q][1].set
    <3>1. c \in Sets \ {Root} /\ q # NoSession
      BY TopFacts, SchemaAssumption
    <3>2. loaded[c] \/ (c[1] = "types" /\ loadingThread[c] = q)
      BY DEF StackInv, At, Top, SkipsLoad
    <3> HIDE DEF c
    <3> QED BY <1>3, <3>1, <3>2 DEF Steady, c
  <2> QED BY <1>1, <1>3, <2>1, <2>2, <2>3 DEF StackInv
<1>4. StackInv(p)'
  <2>1. ASSUME NEW f \in ToSet(s) PROVE CallInv(f)'
    BY <1>2
  <2>2. Linked(stack[p])'
    BY <1>1 DEF Linked
  <2>3. At(p, "find")' /\ Top(p)'.set # Root => SkipsLoad(Top(p).set, p)'
    BY <1>1 DEF At, Top, SkipsLoad
  <2> QED BY <1>1, <2>1, <2>2, <2>3 DEF StackInv
<1> QED BY <1>3, <1>4

\* Where the server and the set of schemas stay, the sets below them may only grow.
LEMMA CacheGrows ==
  ASSUME LocksInv, CacheInv, UNCHANGED <<byName, exists, used, due, generation>>,
         entries'[Root] = entries[Root], Cleared' => Cleared,
         \A c \in Sets \ {Root} :
           /\ DOMAIN entries[c] \subseteq DOMAIN entries'[c] /\ (loaded[c] => loaded'[c])
           /\ \/ Holds(c)'
              \/ entries'[c] = entries[c] /\ loaded'[c] = loaded[c] /\ slice'[c] = slice[c]
  PROVE  CacheInv' /\ Steady /\ Kept' \subseteq Kept
<1>1. Kept' \subseteq Kept
  BY DEF Kept, Parts, TypesCovered
<1>2. \A c : Current(c)' <=> Current(c)
  BY DEF Current
<1>3. ASSUME NEW c \in Sets \ {Root} PROVE Holds(c)'
  <2>1. CASE entries'[c] = entries[c] /\ loaded'[c] = loaded[c] /\ slice'[c] = slice[c]
    <3>1. Holds(c) /\ (Current(c)' <=> Current(c))
      BY <1>2 DEF CacheInv
    <3> QED BY <1>1, <2>1, <3>1 DEF Holds, Placed, Sliced, Ascending
  <2> QED BY <2>1
<1>4. CacheInv'
  BY <1>1, <1>3 DEF CacheInv
<1>5. Steady
  BY <1>1, <1>2 DEF Steady
<1> QED BY <1>1, <1>4, <1>5

-------------------------------------------------------------------------------
(* Steps that leave the sets as they are.                                  *)

\* What the calls of p that stay say of the sets holds for the ones that p has afterwards.
SoundCalls(s) ==
  \A f \in ToSet(s) : CallInv(f) /\ (f.pc \in {"relock", "requery", "rebuild"} => f.set[1] = "tables")

LEMMA CallsAreSound ==
  ASSUME LocksInv, NEW p \in Sessions, StackInv(p)
  PROVE  SoundCalls(stack[p])
<1> SUFFICES ASSUME NEW f \in ToSet(stack[p])
             PROVE  CallInv(f) /\ (f.pc \in {"relock", "requery", "rebuild"} => f.set[1] = "tables")
  BY DEF SoundCalls
<1>1. FrameOK(p, f, loadLock, loadingThread, generation)
  BY CallFacts
<1> QED BY <1>1 DEF FrameOK, StackInv

LEMMA PoppedCalls ==
  ASSUME LocksInv, NEW p \in Sessions, StackInv(p), stack[p] # <<>>, NEW got \in SUBSET Objects
  PROVE  LET s == Returned(stack[p], got)
         IN s \in Seq(Frame) /\ Linked(s) /\ (s # <<>> => s[1].pc # "find") /\ SoundCalls(s)
<1> DEFINE s == Returned(stack[p], got)
<1>1. /\ s \in Seq(Frame) /\ Linked(s) /\ (s # <<>> => s[1].pc # "find")
      /\ \A f \in ToSet(s) : \E h \in ToSet(stack[p]) :
           /\ h.set # Root /\ f.set = h.set /\ f.want = h.want /\ f.pc = h.pc
           /\ f.todo = h.todo /\ f.built = h.built
           /\ h.refs # <<>> /\ ToSet(f.refs) \subseteq ToSet(h.refs)
  BY CallPopped DEF StackInv
<1> HIDE DEF s
<1>2. ASSUME NEW f \in ToSet(s)
      PROVE  CallInv(f) /\ (f.pc \in {"relock", "requery", "rebuild"} => f.set[1] = "tables")
  <2>1. PICK h \in ToSet(stack[p]) :
           /\ h.set # Root /\ f.set = h.set /\ f.want = h.want /\ f.pc = h.pc
           /\ f.todo = h.todo /\ f.built = h.built
           /\ h.refs # <<>> /\ ToSet(f.refs) \subseteq ToSet(h.refs)
    BY <1>1
  <2>2. CallInv(h) /\ (h.pc \in {"relock", "requery", "rebuild"} => h.set[1] = "tables")
    BY CallsAreSound DEF SoundCalls
  <2>3. CallInv(f)
    BY <2>1, <2>2, SameCall
  <2> QED BY <2>1, <2>2, <2>3
<1> QED BY <1>1, <1>2 DEF SoundCalls, s

LEMMA QuietCalls ==
  ASSUME LocksInv, LookupInv, NEW p \in Sessions, NEW s \in Seq(Frame),
         stack' = [stack EXCEPT ![p] = s],
         UNCHANGED <<byName, exists, used, due, generation, loaded, slice>>,
         \A c \in Sets : entries'[c] = entries[c],
         \A c \in Sets : loadingThread'[c] = loadingThread[c] \/ loadingThread[c] \in {p, NoSession},
         ~AboutToEnd(p), SoundCalls(s), Linked(s),
         s # <<>> /\ s[1].pc = "find" /\ s[1].set # Root =>
           loaded'[s[1].set] \/ (s[1].set[1] = "types" /\ loadingThread'[s[1].set] = p)
  PROVE  CacheInv' /\ Steady /\ (\A q \in Sessions : StackInv(q))'
<1>1. Cleared' => Cleared
  <2> SUFFICES ASSUME Cleared', NEW q \in Sessions PROVE ~loaded[Root] /\ ~AboutToEnd(q)
    BY DEF Cleared
  <2>1. q # p => stack'[q] = stack[q]
    BY StateFacts
  <2> QED BY <2>1 DEF Cleared, AboutToEnd, At, Top
<1>2. CacheInv' /\ Steady
  <2>1. entries'[Root] = entries[Root]
    BY SetFacts
  <2>2. \A c \in Sets \ {Root} :
          /\ DOMAIN entries[c] \subseteq DOMAIN entries'[c] /\ (loaded[c] => loaded'[c])
          /\ entries'[c] = entries[c] /\ loaded'[c] = loaded[c] /\ slice'[c] = slice[c]
    OBVIOUS
  <2> QED BY <1>1, <2>1, <2>2, CacheGrows DEF LookupInv
<1>3. ASSUME NEW f \in ToSet(s) PROVE CallInv(f)'
  <2>1. f \in Frame
    <3>1. \A i \in DOMAIN s : s[i] \in Frame
      BY FrameFacts
    <3> QED BY <3>1 DEF ToSet
  <2> QED BY <1>2, <1>3, <2>1, CallStays DEF SoundCalls
<1> QED BY <1>2, <1>3, StacksNext DEF LookupInv

\* The innermost call is replaced by one that says no more of its set.
LEMMA QuietTop ==
  ASSUME LocksInv, LookupInv, NEW p \in Sessions, stack[p] # <<>>, NEW g \in Frame,
         stack' = [stack EXCEPT ![p][1] = g],
         UNCHANGED <<byName, exists, used, due, generation, loaded, slice>>,
         \A c \in Sets : entries'[c] = entries[c],
         \A c \in Sets : loadingThread'[c] = loadingThread[c] \/ loadingThread[c] \in {p, NoSession},
         ~AboutToEnd(p), g.want = Top(p).want, CallInv(g),
         g.pc \in {"relock", "requery", "rebuild"} => g.set[1] = "tables",
         g.pc = "find" /\ g.set # Root =>
           loaded'[g.set] \/ (g.set[1] = "types" /\ loadingThread'[g.set] = p)
  PROVE  CacheInv' /\ Steady /\ (\A q \in Sessions : StackInv(q))'
<1> DEFINE s == [stack[p] EXCEPT ![1] = g]
<1>1. /\ s \in Seq(Frame) /\ s # <<>> /\ s[1] = g /\ Linked(s)
      /\ \A f \in ToSet(s) : f = g \/ f \in ToSet(stack[p])
  BY CallReplaced DEF LookupInv, StackInv
<1>2. stack' = [stack EXCEPT ![p] = s]
  OBVIOUS
<1> HIDE DEF s
<1>3. SoundCalls(s)
  <2>1. SoundCalls(stack[p])
    BY CallsAreSound DEF LookupInv
  <2> QED BY <1>1, <2>1 DEF SoundCalls
<1> QED BY <1>1, <1>2, <1>3, QuietCalls

LEMMA QuietReturned ==
  ASSUME LocksInv, LookupInv, NEW p \in Sessions, stack[p] # <<>>, NEW got \in SUBSET Objects,
         NEW found, Return(p, got, found),
         UNCHANGED <<byName, exists, used, due, generation, loaded, entries, slice, loadingThread>>,
         ~AboutToEnd(p),
         Top(p).verb = "find" /\ Top(p).want \in due /\ Current(Top(p).set) => found
  PROVE  CacheInv' /\ Steady /\ (\A q \in Sessions : StackInv(q))' /\ ~missed'
<1> DEFINE s == Returned(stack[p], got)
<1>1. s \in Seq(Frame) /\ Linked(s) /\ (s # <<>> => s[1].pc # "find") /\ SoundCalls(s)
  BY PoppedCalls DEF LookupInv
<1>2. stack' = [stack EXCEPT ![p] = s]
  BY ReturnStack
<1> HIDE DEF s
<1>3. CacheInv' /\ Steady /\ (\A q \in Sessions : StackInv(q))'
  BY <1>1, <1>2, QuietCalls
<1>4. ~missed'
  BY DEF Return, LookupInv
<1> QED BY <1>3, <1>4

LEMMA FoundAfterStart ==
  ASSUME LocksInv, LookupInv, NEW p \in Sessions, Lookup(p) \/ StartDdl(p)
  PROVE  CacheInv' /\ Steady /\ (\A q \in Sessions : StackInv(q))' /\ ~missed'
<1>1. PICK verb \in {"find", "create", "drop"}, want \in Schemas \cup Objects, s \in Schemas :
        /\ verb # "find" => want \in OwnDdl
        /\ s \in NamesOf(verb, want)
        /\ stack' = [stack EXCEPT ![p] = <<SchemaCall(p, verb, want, s)>>]
  BY SchemaAssumption DEF Lookup, StartDdl
<1> DEFINE g == SchemaCall(p, verb, want, s)
<1>2. g \in Frame /\ g.pc \in {"find", "lock"}
  BY <1>1, NewCalls
<1>3. g.set = Root /\ g.refs = <<>>
  BY DEF SchemaCall, SetCall
<1>4. stack[p] = <<>> /\ UNCHANGED <<settingVars, serverVars, setVars, due, missed>>
  BY DEF Lookup, StartDdl
<1> HIDE DEF g
<1>5. ToSet(<<g>>) = {g} /\ <<g>> \in Seq(Frame) /\ <<g>>[1] = g /\ DOMAIN <<g>> = {1}
  BY <1>2 DEF ToSet
<1>6. SoundCalls(<<g>>) /\ Linked(<<g>>)
  BY <1>2, <1>3, <1>5 DEF SoundCalls, CallInv, Linked
<1>7. ~AboutToEnd(p)
  BY <1>4 DEF AboutToEnd, At
<1>8. stack' = [stack EXCEPT ![p] = <<g>>]
  BY <1>1 DEF g
<1>9. CacheInv' /\ Steady /\ (\A q \in Sessions : StackInv(q))'
  BY <1>3, <1>4, <1>5, <1>6, <1>7, <1>8, QuietCalls
<1> QED BY <1>4, <1>9 DEF LookupInv

LEMMA FoundInSchemas ==
  ASSUME NamedWhereCreated, LocksInv, SliceInv, LookupInv, NEW p \in Sessions, FindSchema(p)
  PROVE  CacheInv' /\ Steady /\ (\A q \in Sessions : StackInv(q))' /\ ~missed'
<1> DEFINE f == Top(p)
           known == f.name \in DOMAIN entries[Root]
           c == <<SetKind(f.want), f.name, entries[Root][f.name]>>
<1>1. /\ stack[p] # <<>> /\ f = stack[p][1] /\ f.pc = "find" /\ f.set = Root
      /\ UNCHANGED <<settingVars, serverVars, setVars, due>>
  BY DEF FindSchema, At, Top
<1>2. /\ f \in Frame /\ f.want \in Schemas \cup Objects /\ f.verb \in {"find", "create", "drop"}
      /\ f.todo = <<>> /\ f.refs = <<>> /\ f.built = <<>>
      /\ f.name = (IF f.want \in Schemas THEN f.want ELSE SchemaOf[f.want])
      /\ f.name \in Schemas /\ f.name \in NamesOf(f.verb, f.want)
      /\ f.verb # "find" => f.want \in OwnDdl
  BY <1>1, TopFacts, FrameFacts DEF FrameOK, NamesOf, NamedWhereCreated
<1>3. f.name \in Schemas /\ (f.want = f.name => f.want \in Schemas)
      /\ (f.want # f.name => f.want \in Objects /\ f.name = SchemaOf[f.want])
  BY <1>2, SchemaOfType
<1>4. ~AboutToEnd(p)
  BY <1>1 DEF AboutToEnd, At
<1>5. f.want \in due => known
  <2>1. CASE f.want \in Schemas
    BY <1>2, <2>1 DEF LookupInv, CacheInv
  <2>2. CASE f.want \in Objects
    <3>1. f.want \in due => f.want \in Kept
      BY <2>2 DEF LookupInv, HistoryInv, Kept
    <3> QED BY <1>2, <2>2, <3>1, SchemaOfType DEF LookupInv, CacheInv
  <2> QED BY <1>2, <2>1, <2>2
<1>6. ASSUME NEW found, Return(p, {}, found), known => found
      PROVE  CacheInv' /\ Steady /\ (\A q \in Sessions : StackInv(q))' /\ ~missed'
  BY <1>1, <1>4, <1>5, <1>6, QuietReturned
<1>7. CASE f.want = f.name
  <2>1. CASE f.verb # "find" /\ (f.verb = "drop") = known
    <3> DEFINE g == [f EXCEPT !.pc = "ddl"]
    <3>1. stack' = [stack EXCEPT ![p][1] = g] /\ missed' = missed
      BY <1>1, <1>7, <2>1 DEF FindSchema, Goto
    <3>2. g \in Frame /\ g.set = Root /\ g.pc = "ddl" /\ g.refs = <<>> /\ g.want = f.want
      BY <1>1, <1>2 DEF Frame, Pcs
    <3> HIDE DEF g, f
    <3>3. CallInv(g)
      BY <3>2 DEF CallInv
    <3>4. CacheInv' /\ Steady /\ (\A q \in Sessions : StackInv(q))'
      BY <1>1, <1>4, <3>1, <3>2, <3>3, QuietTop DEF f
    <3> QED BY <3>1, <3>4 DEF LookupInv
  <2>2. CASE ~(f.verb # "find" /\ (f.verb = "drop") = known)
    <3>1. Return(p, {}, known)
      BY <1>7, <2>2 DEF FindSchema
    <3> QED BY <1>6, <3>1
  <2> QED BY <2>1, <2>2
<1>8. CASE f.want # f.name /\ ~known
  <2>1. Return(p, {}, FALSE)
    BY <1>8 DEF FindSchema
  <2> QED BY <1>6, <1>8, <2>1
<1>9. CASE f.want # f.name /\ known
  <2> DEFINE g == IF f.verb = "create" THEN [f EXCEPT !.set = c, !.pc = "ddl"]
                  ELSE SetCall(p, c, f.verb, f.want)
  <2>1. stack' = [stack EXCEPT ![p][1] = g] /\ missed' = missed
    BY <1>9 DEF FindSchema
  <2>2. /\ c[1] = SetKind(f.want) /\ c[2] = f.name /\ c[3] = entries[Root][f.name]
        /\ c[1] \in {"types", "tables", "indexes"}
    BY DEF SetKind
  <2>3. c[3] \in 1 .. MaxLoads /\ c[3] <= generation /\ f.name \in used
    <3>1. entries[Root] \in MapsInto(Schemas, 1 .. MaxLoads)
      BY SetFacts DEF LocksInv, DataOK, EntriesOf
    <3> QED BY <1>9, <3>1, MapFacts DEF SliceInv, LookupInv, CacheInv
  <2>4. c \in Sets \ {Root}
    BY <1>3, <2>2, <2>3, SetFacts
  <2>5. Current(c) /\ f.want \in Placed(c)
    BY <1>3, <1>9, <2>2 DEF Current, Placed
  <2> HIDE DEF c
  <2>6. /\ g \in Frame /\ g.set = c /\ g.want = f.want /\ g.refs = <<>> /\ g.todo = <<>>
        /\ g.built = <<>> /\ g.pc \in {"find", "lock", "ddl"}
        /\ g.pc = "find" => SkipsLoad(c, p)
    <3>1. CASE f.verb = "create"
      BY <1>2, <2>4, <3>1 DEF Frame, Pcs
    <3>2. CASE f.verb # "create"
      <4>1. /\ SetCall(p, c, f.verb, f.want) \in Frame
            /\ SetCall(p, c, f.verb, f.want).pc \in {"find", "lock"}
        BY <1>2, <1>3, <1>9, <2>4, NewCalls
      <4> QED BY <3>2, <4>1 DEF SetCall
    <3> QED BY <3>1, <3>2
  <2> HIDE DEF g, f
  <2>7. CallInv(g)
    <3>1. ToSet(g.todo) = {} /\ DOMAIN g.built = {} /\ Ascending(g.todo)
      BY <2>6 DEF ToSet, Ascending
    <3>2. CallHas(g)
      BY <2>2, <2>3, <2>5, <2>6, <3>1 DEF CallHas
    <3> QED BY <2>6, <3>2 DEF CallInv
  <2>8. g.want = Top(p).want /\ (g.pc \in {"relock", "requery", "rebuild"} => g.set[1] = "tables")
        /\ (g.pc = "find" /\ g.set # Root =>
             loaded'[g.set] \/ (g.set[1] = "types" /\ loadingThread'[g.set] = p))
    BY <1>1, <2>6 DEF f, SkipsLoad
  <2>9. CacheInv' /\ Steady /\ (\A q \in Sessions : StackInv(q))'
    BY <1>1, <1>4, <2>1, <2>6, <2>7, <2>8, QuietTop
  <2> QED BY <2>1, <2>9 DEF LookupInv
<1> QED BY <1>7, <1>8, <1>9

\* A session that is loading the types of a schema has those already that it looks up among
\* them: they are older than the one it is building.
LEMMA OldTypesAreThere ==
  ASSUME TypesInOrder, LocksInv, OrderInv, LookupInv, NEW p \in Sessions,
         At(p, "find"), Top(p).set # Root, ~loaded[Top(p).set],
         Top(p).want \in Kept, Current(Top(p).set)
  PROVE  Top(p).want \in DOMAIN entries[Top(p).set]
<1> DEFINE s == stack[p]
           f == Top(p)
           c == f.set
<1>1. /\ s \in Seq(Frame) /\ s # <<>> /\ f = s[1] /\ f.pc = "find" /\ 1 \in DOMAIN s
      /\ f \in Frame /\ c \in Sets \ {Root} /\ f \in ToSet(s)
      /\ CallsOK(p, s, loadLock, loadingThread, generation)
      /\ StackInv(p) /\ StackOrder(s) /\ p # NoSession
  BY TopFacts, SchemaAssumption DEF At, Top, ToSet, LookupInv, OrderInv
<1>2. c[1] = "types" /\ loadingThread[c] = p /\ loadLock[c] = p
  <2>1. c[1] = "types" /\ loadingThread[c] = p
    BY <1>1 DEF StackInv, SkipsLoad
  <2> QED BY <1>1, <2>1, StateFacts
<1>3. f.want \in Objects /\ SchemaOf[f.want] = c[2] /\ f.want \in Placed(c)
  BY <1>1 DEF StackInv, CallInv, CallHas, Placed
<1> HIDE DEF s, f, c
<1>4. PICK i \in DOMAIN s : Holding(s[i]) /\ s[i].set = c
  BY <1>1, <1>2 DEF CallsOK
<1> DEFINE h == s[i]
<1>5. /\ i # 1 /\ h.set = c /\ h \in Frame /\ Suspended(h) /\ FrameOK(p, h, loadLock, loadingThread, generation)
      /\ CallInv(h)
  <2>1. i # 1
    BY <1>1, <1>4 DEF Holding
  <2>2. h \in Frame /\ h \in ToSet(s)
    BY <1>1, FrameFacts DEF ToSet
  <2> QED BY <1>1, <1>4, <2>1, <2>2 DEF CallsOK, StackInv, s
<1>6. h.pc = "load" /\ h.refs # <<>> /\ h.refs \in Seq(Types) /\ h.todo \in Seq(Objects)
  <2>1. h.pc \in {"load", "rebuild"}
    BY <1>5 DEF Suspended
  <2>2. h.pc # "rebuild"
    BY <1>2, <1>5 DEF FrameOK
  <2> QED BY <1>5, <2>1, <2>2, FrameFacts DEF Suspended
<1> HIDE DEF h
<1>7. i = 2
  <2> SUFFICES ASSUME i # 2 PROVE FALSE
    OBVIOUS
  <2> DEFINE e == s[2]
  <2>1. 2 \in DOMAIN s /\ 1 < 2 /\ 2 < i
    <3>1. i \in 1 .. Len(s) /\ Len(s) \in Nat /\ DOMAIN s = 1 .. Len(s)
      BY <1>1
    <3> QED BY <1>5, <3>1
  <2>2. e \in Frame /\ e.set # Root /\ e.pc # "find" /\ Above(f, e) /\ Above(e, h)
    <3>1. e \in Frame
      BY <1>1, <2>1, FrameFacts
    <3>2. e.set # Root /\ Suspended(e)
      BY <2>1, CallFacts DEF s
    <3>3. Above(f, e) /\ Above(e, h)
      BY <1>1, <1>4, <2>1 DEF StackOrder, h
    <3> QED BY <3>1, <3>2, <3>3 DEF Suspended
  <2> HIDE DEF e
  <2>3. /\ SchemaRank[SchemaOf[e.want]] < SchemaRank[c[2]]
        /\ e.set[1] = "types" /\ e.set[2] = SchemaOf[e.want]
    BY <1>2, <1>5, <2>2 DEF Above
  <2>4. SchemaRank[c[2]] < SchemaRank[e.set[2]] \/ c = e.set
    BY <1>3, <2>2, <2>3 DEF Above, c
  <2>5. SchemaRank[c[2]] \in Nat /\ SchemaRank[e.set[2]] \in Nat
    <3>1. c[2] \in Schemas /\ e.set[2] \in Schemas
      BY <1>1, <2>2, FrameFacts, SetFacts
    <3> QED BY <3>1, RankFacts
  <2> QED BY <2>3, <2>4, <2>5
<1>8. f.want = h.refs[1]
  <2>1. 1 + 1 = 2
    OBVIOUS
  <2> QED BY <1>1, <1>4, <1>7, <2>1 DEF StackInv, Linked, h, s
<1>9. h.todo # <<>> /\ ToSet(h.refs) \subseteq ToSet(Refs[h.todo[1]])
  BY <1>5, <1>6 DEF CallInv
<1>10. /\ h.todo[1] \in Nat /\ f.want \in Nat /\ f.want < h.todo[1]
       /\ \A n \in DOMAIN h.todo : h.todo[n] \in Nat
  <2>1. h.todo[1] \in Objects /\ \A n \in DOMAIN h.todo : h.todo[n] \in Objects
    BY <1>6, <1>9
  <2>2. h.refs[1] \in ToSet(h.refs)
    BY <1>6 DEF ToSet
  <2> QED BY <1>3, <1>8, <1>9, <2>1, <2>2, RefsAreOlder
<1>11. /\ Ascending(h.todo) /\ h.built = <<>>
       /\ Kept \cap Placed(c) \subseteq DOMAIN entries[c] \cup DOMAIN h.built \cup ToSet(h.todo)
  BY <1>1, <1>2, <1>5, <1>6 DEF CallInv, CallHas, c, f
<1>12. f.want \notin ToSet(h.todo)
  <2> SUFFICES ASSUME NEW n \in DOMAIN h.todo, h.todo[n] = f.want PROVE FALSE
    BY DEF ToSet
  <2>1. 1 \in DOMAIN h.todo /\ n \in Nat \ {0}
    BY <1>6, <1>9
  <2>2. CASE n = 1
    BY <1>10, <2>2
  <2>3. CASE n # 1
    <3>1. 1 < n
      BY <2>1, <2>3
    <3>2. h.todo[1] < h.todo[n]
      BY <1>11, <2>1, <3>1 DEF Ascending
    <3> QED BY <1>10, <3>2
  <2> QED BY <2>2, <2>3
<1>13. f.want \in Kept
  BY DEF f
<1>14. DOMAIN h.built = {}
  BY <1>11
<1> QED BY <1>3, <1>11, <1>12, <1>13, <1>14 DEF c, f

\* What a lookup has not found in a set is not there to stay.
LEMMA NotFoundNotKept ==
  ASSUME TypesInOrder, LocksInv, OrderInv, LookupInv, NEW p \in Sessions,
         At(p, "find"), Top(p).set # Root, Current(Top(p).set),
         Top(p).want \notin DOMAIN entries[Top(p).set]
  PROVE  Top(p).want \notin Kept
<1> DEFINE f == Top(p)
           c == f.set
<1>1. f \in ToSet(stack[p]) /\ c \in Sets \ {Root}
  BY TopFacts DEF At, Top, ToSet
<1>2. f.want \in Placed(c) /\ Holds(c)
  BY <1>1 DEF LookupInv, StackInv, CallInv, CallHas, CacheInv
<1> SUFFICES ASSUME f.want \in Kept PROVE FALSE
  OBVIOUS
<1>3. ~loaded[c]
  BY <1>2 DEF Holds
<1> QED BY <1>3, OldTypesAreThere

LEMMA FoundInSet ==
  ASSUME TypesInOrder, LocksInv, OrderInv, LookupInv, NEW p \in Sessions, FindEntry(p)
  PROVE  CacheInv' /\ Steady /\ (\A q \in Sessions : StackInv(q))' /\ ~missed'
<1> DEFINE f == Top(p)
           c == f.set
           known == f.want \in DOMAIN entries[c]
<1>1. /\ stack[p] # <<>> /\ f = stack[p][1] /\ f.pc = "find" /\ c # Root /\ At(p, "find")
      /\ UNCHANGED <<settingVars, serverVars, setVars, due>>
  BY DEF FindEntry, At, Top
<1>2. /\ f \in Frame /\ f.want \in Objects /\ f.verb \in {"find", "create", "drop"}
      /\ f \in ToSet(stack[p]) /\ CallHas(f) /\ CallInv(f) /\ c \in Sets \ {Root}
  <2>1. f \in Frame /\ f \in ToSet(stack[p]) /\ f.set \in Sets
    BY <1>1, TopFacts DEF ToSet
  <2>2. CallHas(f) /\ CallInv(f)
    BY <1>1, <2>1 DEF LookupInv, StackInv, CallInv
  <2> QED BY <1>1, <2>1, <2>2, FrameFacts DEF CallHas, Placed
<1>3. ~AboutToEnd(p)
  BY <1>1 DEF AboutToEnd, At
<1>4. Current(c) /\ ~known => f.want \notin Kept
  BY <1>1, NotFoundNotKept
<1>5. f.want \in due => f.want \in Kept
  BY <1>2 DEF LookupInv, HistoryInv, Kept
<1>6. ASSUME NEW got \in SUBSET Objects, NEW found, Return(p, got, found),
             f.verb = "find" /\ known => found
      PROVE  CacheInv' /\ Steady /\ (\A q \in Sessions : StackInv(q))' /\ ~missed'
  <2>1. f.verb = "find" /\ f.want \in due /\ Current(c) => found
    BY <1>4, <1>5, <1>6
  <2> QED BY <1>1, <1>3, <1>6, <2>1, QuietReturned
<1>7. ASSUME NEW pc \in {"ddl", "relock"}, Goto(p, pc), missed' = missed,
             pc = "relock" => ~known /\ c[1] = "tables"
      PROVE  CacheInv' /\ Steady /\ (\A q \in Sessions : StackInv(q))' /\ ~missed'
  <2> DEFINE g == [f EXCEPT !.pc = pc]
  <2>1. stack' = [stack EXCEPT ![p][1] = g]
    BY <1>1, <1>7 DEF Goto
  <2>2. /\ g \in Frame /\ g.set = c /\ g.want = f.want /\ g.refs = f.refs /\ g.todo = f.todo
        /\ g.built = f.built /\ g.pc = pc
    BY <1>2 DEF Frame, Pcs
  <2>3. /\ \/ pc = "ddl"
           \/ pc = "relock" /\ c[1] = "tables" /\ (Current(c) => f.want \notin Kept)
    BY <1>4, <1>7
  <2> HIDE DEF g, c, f
  <2>4. CallHas(g)
    BY <1>2, <2>2, <2>3 DEF CallHas, c
  <2>5. CallInv(g)
    BY <1>1, <1>2, <2>2, <2>4 DEF CallInv
  <2>6. CacheInv' /\ Steady /\ (\A q \in Sessions : StackInv(q))'
    BY <1>1, <1>3, <2>1, <2>2, <2>3, <2>5, QuietTop DEF f
  <2> QED BY <1>7, <2>6 DEF LookupInv
<1>8. CASE known /\ f.verb = "drop"
  <2>1. Goto(p, "ddl") /\ missed' = missed
    BY <1>8 DEF FindEntry
  <2> QED BY <1>7, <2>1
<1>9. CASE known /\ f.verb = "find"
  <2>1. Return(p, entries[c][f.want], TRUE)
    BY <1>9 DEF FindEntry
  <2>2. entries[c][f.want] \in SUBSET Objects
    <3>1. entries[c] \in MapsInto(Objects, SUBSET Objects)
      BY <1>2 DEF LocksInv, DataOK, EntriesOf
    <3> QED BY <1>9, <3>1, MapFacts
  <2> QED BY <1>6, <2>1, <2>2
<1>10. CASE ~known /\ c[1] = "tables"
  <2>1. Goto(p, "relock") /\ missed' = missed
    BY <1>10 DEF FindEntry
  <2> QED BY <1>7, <1>10, <2>1
<1>11. CASE ~(known /\ f.verb = "drop") /\ ~(known /\ f.verb = "find") /\ ~(~known /\ c[1] = "tables")
  <2>1. Return(p, {}, FALSE)
    BY <1>11 DEF FindEntry
  <2> QED BY <1>6, <1>11, <2>1
<1> QED BY <1>8, <1>9, <1>10, <1>11

\* The type that is looked up next has its place in the set that it is looked up in.
LEMMA FoundNextType ==
  ASSUME LocksInv, LookupInv, NEW p \in Sessions, ResolveType(p)
  PROVE  CacheInv' /\ Steady /\ (\A q \in Sessions : StackInv(q))' /\ ~missed'
<1> DEFINE f == Top(p)
           r == f.refs[1]
           c == <<"types", f.set[2], f.set[3]>>
           g == IF SchemaOf[r] = f.set[2] THEN SetCall(p, c, "find", r)
                ELSE SchemaCall(p, "find", r, SchemaOf[r])
<1>1. /\ stack[p] # <<>> /\ f = stack[p][1] /\ f.pc \in {"load", "rebuild"} /\ f.refs # <<>>
      /\ stack' = [stack EXCEPT ![p] = <<g>> \o stack[p]]
      /\ UNCHANGED <<settingVars, serverVars, setVars, due, missed>>
  BY DEF ResolveType, Building, At, Top
<1>2. /\ f \in Frame /\ f.set \in Sets \ {Root} /\ f.refs \in Seq(Types) /\ CallHas(f)
      /\ StackInv(p)
  <2>1. f \in Frame /\ f \in ToSet(stack[p]) /\ f.set \in Sets /\ f.set # Root
        /\ f.refs \in Seq(Types)
    BY <1>1, TopFacts, FrameFacts DEF ToSet, FrameOK
  <2>2. CallInv(f) /\ StackInv(p)
    BY <2>1 DEF LookupInv, StackInv
  <2> QED BY <2>1, <2>2 DEF CallInv
<1>3. /\ r \in Types /\ r \in Objects /\ SetKind(r) = "types"
      /\ SchemaOf[r] \in Schemas /\ SchemaOf[r] \in NamesOf("find", r)
  <2>1. r \in Types
    BY <1>1, <1>2
  <2> QED BY <2>1, SchemaOfType DEF Types, SetKind, NamesOf
<1>4. c \in Sets \ {Root} /\ c[1] = "types" /\ c[2] = f.set[2] /\ c[3] = f.set[3]
  BY <1>2, SetFacts
<1>5. Current(c) <=> Current(f.set)
  BY <1>2, <1>4 DEF Current
<1> HIDE DEF c, r, f
<1>6. /\ g \in Frame /\ g.want = r /\ g.refs = <<>> /\ g.pc \in {"find", "lock"}
      /\ g.set # Root => /\ g.set = c /\ SchemaOf[r] = f.set[2] /\ g.todo = <<>> /\ g.built = <<>>
                         /\ g.pc = "find" => SkipsLoad(c, p)
  <2>1. CASE SchemaOf[r] = f.set[2]
    <3>1. SetCall(p, c, "find", r) \in Frame /\ SetCall(p, c, "find", r).pc \in {"find", "lock"}
      BY <1>3, <1>4, NewCalls
    <3> QED BY <2>1, <3>1 DEF SetCall
  <2>2. CASE SchemaOf[r] # f.set[2]
    <3>1. /\ SchemaCall(p, "find", r, SchemaOf[r]) \in Frame
          /\ SchemaCall(p, "find", r, SchemaOf[r]).pc \in {"find", "lock"}
      BY <1>3, NewCalls
    <3> QED BY <2>2, <3>1 DEF SchemaCall, SetCall
  <2> QED BY <2>1, <2>2
<1> HIDE DEF g
<1>7. CallInv(g)
  <2>1. ASSUME g.set # Root PROVE CallHas(g)
    <3>1. ToSet(g.todo) = {} /\ DOMAIN g.built = {} /\ Ascending(g.todo)
      BY <1>6, <2>1 DEF ToSet, Ascending
    <3>2. r \in Placed(c)
      BY <1>3, <1>4, <1>6, <2>1 DEF Placed
    <3>3. /\ c[2] \in used /\ c[3] <= generation
          /\ Cleared /\ c[2] \in DOMAIN entries[Root] => Current(c)
      BY <1>2, <1>4, <1>5 DEF CallHas
    <3> QED BY <1>6, <2>1, <3>1, <3>2, <3>3 DEF CallHas
  <2> QED BY <1>6, <2>1 DEF CallInv
<1> DEFINE s == <<g>> \o stack[p]
<1>8. /\ s \in Seq(Frame) /\ s # <<>> /\ s[1] = g /\ Linked(s)
      /\ \A h \in ToSet(s) : h = g \/ h \in ToSet(stack[p])
  <2>1. g.want = Top(p).refs[1] /\ Top(p).set # Root
    BY <1>2, <1>6 DEF r, f
  <2> QED BY <1>2, <1>6, <2>1, CallPushed DEF StackInv
<1>9. stack' = [stack EXCEPT ![p] = s]
  BY <1>1
<1> HIDE DEF s
<1>10. SoundCalls(s)
  <2>1. SoundCalls(stack[p])
    BY <1>2, CallsAreSound
  <2> QED BY <1>6, <1>7, <1>8, <2>1 DEF SoundCalls
<1>11. ~AboutToEnd(p)
  BY <1>2 DEF AboutToEnd, f
<1>12. s # <<>> /\ s[1].pc = "find" /\ s[1].set # Root =>
         loaded'[s[1].set] \/ (s[1].set[1] = "types" /\ loadingThread'[s[1].set] = p)
  BY <1>1, <1>6, <1>8 DEF SkipsLoad
<1>13. CacheInv' /\ Steady /\ (\A q \in Sessions : StackInv(q))'
  BY <1>1, <1>8, <1>9, <1>10, <1>11, <1>12, QuietCalls
<1> QED BY <1>1, <1>13 DEF LookupInv

\* What an object that is built refers to.
LEMMA RefsOfNext ==
  \A todo \in Seq(Objects) : RefsOfFirst(todo) # <<>> =>
    todo # <<>> /\ ToSet(RefsOfFirst(todo)) \subseteq ToSet(Refs[todo[1]])
BY DEF RefsOfFirst

LEMMA AfterFirst ==
  ASSUME NEW todo \in Seq(Objects), todo # <<>>
  PROVE  /\ Tail(todo) \in Seq(Objects) /\ todo[1] \in ToSet(todo)
         /\ ToSet(todo) = {todo[1]} \cup ToSet(Tail(todo))
         /\ Ascending(todo) => Ascending(Tail(todo))
<1>1. /\ Tail(todo) \in Seq(Objects) /\ DOMAIN todo = 1 .. Len(todo) /\ Len(todo) \in Nat
      /\ DOMAIN Tail(todo) = 1 .. Len(todo) - 1 /\ 1 \in DOMAIN todo
      /\ \A n \in 1 .. Len(todo) - 1 : Tail(todo)[n] = todo[n + 1] /\ n + 1 \in 1 .. Len(todo)
  OBVIOUS
<1>2. \A n \in DOMAIN todo : n # 1 => n - 1 \in DOMAIN Tail(todo) /\ Tail(todo)[n - 1] = todo[n]
  <2> SUFFICES ASSUME NEW n \in DOMAIN todo, n # 1
               PROVE  n - 1 \in DOMAIN Tail(todo) /\ Tail(todo)[n - 1] = todo[n]
    OBVIOUS
  <2>1. n - 1 \in 1 .. Len(todo) - 1 /\ (n - 1) + 1 = n
    BY <1>1
  <2> QED BY <1>1, <2>1
<1>3. ToSet(todo) = {todo[1]} \cup ToSet(Tail(todo))
  <2>1. ASSUME NEW n \in DOMAIN todo PROVE todo[n] \in {todo[1]} \cup ToSet(Tail(todo))
    BY <1>2 DEF ToSet
  <2>2. ASSUME NEW n \in DOMAIN Tail(todo) PROVE Tail(todo)[n] \in ToSet(todo)
    BY <1>1 DEF ToSet
  <2>3. todo[1] \in ToSet(todo)
    BY <1>1 DEF ToSet
  <2> QED BY <2>1, <2>2, <2>3 DEF ToSet
<1>4. ASSUME Ascending(todo), NEW m \in DOMAIN Tail(todo), NEW n \in DOMAIN Tail(todo), m < n
      PROVE  Tail(todo)[m] < Tail(todo)[n]
  <2>1. m + 1 \in DOMAIN todo /\ n + 1 \in DOMAIN todo /\ m + 1 < n + 1
    BY <1>1, <1>4
  <2>2. todo[m + 1] < todo[n + 1]
    BY <1>4, <2>1 DEF Ascending
  <2> QED BY <1>1, <2>2
<1> QED BY <1>1, <1>3, <1>4 DEF Ascending, ToSet

\* Tables wait among what the call has built until all of them are.
LEMMA FoundWhileBuilding ==
  ASSUME LocksInv, LookupInv, NEW p \in Sessions, BuildTable(p)
  PROVE  CacheInv' /\ Steady /\ (\A q \in Sessions : StackInv(q))' /\ ~missed'
<1> DEFINE f == Top(p)
           c == f.set
           built == Joined(f.built, Entry(f.todo[1], f.got))
           g == [f EXCEPT !.todo = Tail(@), !.refs = RefsOfFirst(Tail(f.todo)), !.got = {},
                          !.built = built]
<1>1. /\ stack[p] # <<>> /\ f = stack[p][1] /\ f.pc \in {"load", "rebuild"} /\ f.refs = <<>>
      /\ c[1] = "tables" /\ f.todo # <<>> /\ stack' = [stack EXCEPT ![p][1] = g]
      /\ UNCHANGED <<settingVars, serverVars, setVars, due, missed>>
  BY DEF BuildTable, Building, NextObject, At, Top
<1>2. /\ f \in Frame /\ c \in Sets \ {Root} /\ CallHas(f)
      /\ f.todo \in Seq(Objects) /\ f.built \in MapsInto(Objects, SUBSET Objects) /\ f.got \in SUBSET Objects
  <2>1. f \in Frame /\ f \in ToSet(stack[p]) /\ c \in Sets /\ c # Root
    BY <1>1, TopFacts, SetFacts DEF ToSet
  <2> QED BY <2>1, FrameFacts DEF LookupInv, StackInv, CallInv
<1>3. /\ Tail(f.todo) \in Seq(Objects) /\ f.todo[1] \in Objects
      /\ ToSet(f.todo) = {f.todo[1]} \cup ToSet(Tail(f.todo))
  BY <1>1, <1>2, AfterFirst
<1>4. built \in MapsInto(Objects, SUBSET Objects) /\ DOMAIN built = DOMAIN f.built \cup {f.todo[1]}
  <2>1. Entry(f.todo[1], f.got) \in MapsInto(Objects, SUBSET Objects)
    BY <1>2, <1>3, EntryType
  <2> QED BY <1>2, <2>1, JoinedType DEF Joined, Entry
<1> HIDE DEF built
<1>5. RefsOfFirst(Tail(f.todo)) \in Seq(Types)
  BY <1>3, RefsType
<1>6. /\ g \in Frame /\ g.set = c /\ g.want = f.want /\ g.pc = f.pc /\ g.todo = Tail(f.todo)
      /\ g.refs = RefsOfFirst(Tail(f.todo)) /\ g.built = built
  BY <1>2, <1>3, <1>4, <1>5 DEF Frame
<1> HIDE DEF g, c, f
<1>7. CallHas(g)
  <2>1. ToSet(g.todo) \cup DOMAIN g.built = ToSet(f.todo) \cup DOMAIN f.built
    BY <1>3, <1>4, <1>6
  <2> QED BY <1>1, <1>2, <1>6, <2>1 DEF CallHas, c
<1>8. CallInv(g)
  <2>1. g.refs # <<>> => g.todo # <<>> /\ ToSet(g.refs) \subseteq ToSet(Refs[g.todo[1]])
    BY <1>3, <1>6, RefsOfNext
  <2> QED BY <1>2, <1>6, <1>7, <2>1 DEF CallInv
<1>9. ~AboutToEnd(p)
  BY <1>2 DEF AboutToEnd, c, f
<1>10. CacheInv' /\ Steady /\ (\A q \in Sessions : StackInv(q))'
  BY <1>1, <1>6, <1>8, <1>9, QuietTop DEF f
<1> QED BY <1>1, <1>10 DEF LookupInv

LEMMA FoundBeforeReload ==
  ASSUME LocksInv, LookupInv, NEW p \in Sessions, LockToReload(p) \/ QuerySchemas(p)
  PROVE  CacheInv' /\ Steady /\ (\A q \in Sessions : StackInv(q))' /\ ~missed'
<1> DEFINE f == Top(p)
<1>1. /\ stack[p] # <<>> /\ f = stack[p][1]
      /\ UNCHANGED <<settingVars, serverVars, generation, loaded, loadingThread, entries, slice, due, missed>>
  BY DEF LockToReload, QuerySchemas, At, Top
<1>2. /\ f \in Frame /\ f \in ToSet(stack[p]) /\ CallInv(f) /\ StackInv(p)
      /\ FrameOK(p, f, loadLock, loadingThread, generation)
  BY <1>1, TopFacts DEF ToSet, LookupInv, StackInv
<1>3. f.pc \in {"relock", "query"}
  BY <1>1 DEF LockToReload, QuerySchemas, At
<1>4. ~AboutToEnd(p)
  BY <1>1, <1>3 DEF AboutToEnd, At
<1>5. ASSUME NEW pc \in {"requery", "slice"}, Goto(p, pc),
             pc = "requery" <=> f.pc = "relock"
      PROVE  CacheInv' /\ Steady /\ (\A q \in Sessions : StackInv(q))'
  <2> DEFINE g == [f EXCEPT !.pc = pc]
  <2>1. stack' = [stack EXCEPT ![p][1] = g]
    BY <1>1, <1>5 DEF Goto
  <2>2. /\ g \in Frame /\ g.set = f.set /\ g.want = f.want /\ g.refs = f.refs /\ g.todo = f.todo
        /\ g.built = f.built /\ g.pc = pc
    BY <1>2 DEF Frame, Pcs
  <2> HIDE DEF g, f
  <2>3. f.set # Root => CallHas(g)
    BY <1>2, <1>3, <1>5, <2>2 DEF CallInv, CallHas, FrameOK
  <2>4. f.pc = "query" <=> f.set = Root
    BY <1>2, <1>3, SetFacts DEF FrameOK
  <2>5. CallInv(g)
    BY <1>2, <1>3, <1>5, <2>2, <2>3, <2>4 DEF CallInv
  <2>6. pc = "requery" => g.set[1] = "tables"
    BY <1>2, <1>3, <1>5, <2>2 DEF FrameOK
  <2> QED BY <1>1, <1>4, <1>5, <2>1, <2>2, <2>5, <2>6, QuietTop DEF f
<1>6. CASE LockToReload(p)
  <2>1. Goto(p, "requery") /\ f.pc = "relock"
    BY <1>1, <1>6 DEF LockToReload, At
  <2>2. CacheInv' /\ Steady /\ (\A q \in Sessions : StackInv(q))'
    BY <1>5, <2>1
  <2> QED BY <1>1, <2>2 DEF LookupInv
<1>7. CASE QuerySchemas(p)
  <2>1. f.pc = "query"
    BY <1>1, <1>7 DEF QuerySchemas, At
  <2>2. CASE Goto(p, "slice")
    <3>1. CacheInv' /\ Steady /\ (\A q \in Sessions : StackInv(q))'
      BY <1>5, <2>1, <2>2
    <3> QED BY <1>1, <3>1 DEF LookupInv
  <2>3. CASE stack' = stack
    <3>1. stack[p] \in Seq(Frame) /\ stack' = [stack EXCEPT ![p] = stack[p]]
      BY <2>3, StateFacts
    <3>2. SoundCalls(stack[p]) /\ Linked(stack[p])
      BY <1>2, CallsAreSound DEF StackInv
    <3>3. stack[p][1].pc # "find"
      BY <1>1, <2>1
    <3> DEFINE s == stack[p]
    <3> HIDE DEF s
    <3>4. s \in Seq(Frame) /\ stack' = [stack EXCEPT ![p] = s] /\ SoundCalls(s) /\ Linked(s) /\ s[1].pc # "find"
      BY <3>1, <3>2, <3>3 DEF s
    <3>5. CacheInv' /\ Steady /\ (\A q \in Sessions : StackInv(q))'
      BY <1>1, <1>4, <3>4, QuietCalls
    <3> QED BY <1>1, <3>5 DEF LookupInv
  <2> QED BY <1>7, <2>2, <2>3 DEF QuerySchemas
<1> QED BY <1>6, <1>7

\* The server does not have a table that the set does not know: then nothing of it is due.
LEMMA FoundOnServer ==
  ASSUME LocksInv, LookupInv, NEW p \in Sessions, QueryTable(p)
  PROVE  CacheInv' /\ Steady /\ (\A q \in Sessions : StackInv(q))' /\ ~missed'
<1> DEFINE f == Top(p)
           c == f.set
           g == [f EXCEPT !.pc = "rebuild", !.todo = <<f.want>>, !.refs = RefsOfFirst(<<f.want>>)]
<1>1. /\ stack[p] # <<>> /\ f = stack[p][1] /\ f.pc = "requery"
      /\ UNCHANGED <<settingVars, serverVars, generation, loaded, loadingThread, entries, slice, due>>
  BY DEF QueryTable, At, Top
<1>2. /\ f \in Frame /\ c \in Sets \ {Root} /\ c[1] = "tables" /\ CallHas(f) /\ f.want \in Objects
  <2>1. f \in Frame /\ f \in ToSet(stack[p]) /\ c \in Sets /\ c[1] = "tables" /\ c # Root
    BY <1>1, TopFacts, SetFacts DEF ToSet, FrameOK
  <2>2. CallHas(f)
    BY <2>1 DEF LookupInv, StackInv, CallInv
  <2> QED BY <2>1, <2>2 DEF CallHas, Placed
<1>3. ~AboutToEnd(p)
  BY <1>1 DEF AboutToEnd, At
<1>4. Current(c) => f.want \notin due
  BY <1>1, <1>2 DEF CallHas, LookupInv, HistoryInv, Kept
<1>5. CASE f.want \in View(p)
  <2>1. stack' = [stack EXCEPT ![p][1] = g] /\ missed' = missed
    BY <1>5 DEF QueryTable
  <2>2. <<f.want>> \in Seq(Objects) /\ <<f.want>> # <<>> /\ ToSet(<<f.want>>) = {f.want}
    BY <1>2 DEF ToSet
  <2>3. RefsOfFirst(<<f.want>>) \in Seq(Types)
    BY <2>2, RefsType
  <2>4. /\ g \in Frame /\ g.set = c /\ g.want = f.want /\ g.pc = "rebuild" /\ g.todo = <<f.want>>
        /\ g.refs = RefsOfFirst(<<f.want>>) /\ g.built = f.built
    BY <1>2, <2>2, <2>3 DEF Frame, Pcs
  <2>5. f.want \in used
    BY <1>5, ViewIsClosed DEF LookupInv
  <2> HIDE DEF g, c, f
  <2>6. CallHas(g)
    BY <1>1, <1>2, <2>2, <2>4, <2>5 DEF CallHas, c
  <2>7. CallInv(g)
    <3>1. g.refs # <<>> => g.todo # <<>> /\ ToSet(g.refs) \subseteq ToSet(Refs[g.todo[1]])
      BY <2>2, <2>4, RefsOfNext
    <3> QED BY <1>2, <2>4, <2>6, <3>1 DEF CallInv
  <2>8. CacheInv' /\ Steady /\ (\A q \in Sessions : StackInv(q))'
    BY <1>1, <1>2, <1>3, <2>1, <2>4, <2>7, QuietTop DEF f, c
  <2> QED BY <2>1, <2>8 DEF LookupInv
<1>6. CASE f.want \notin View(p)
  <2>1. Return(p, {}, FALSE)
    BY <1>6 DEF QueryTable
  <2> QED BY <1>1, <1>3, <1>4, <2>1, QuietReturned
<1> QED BY <1>5, <1>6

LEMMA FoundAfterThrow ==
  ASSUME LocksInv, LookupInv, NEW p \in Sessions, QueryFails(p) \/ DdlFails(p)
  PROVE  CacheInv' /\ Steady /\ (\A q \in Sessions : StackInv(q))' /\ ~missed'
<1>1. /\ stack' = [stack EXCEPT ![p] = <<>>]
      /\ loadingThread' = [c \in Sets |-> IF loadingThread[c] = p THEN NoSession ELSE loadingThread[c]]
      /\ UNCHANGED <<settingVars, serverVars, generation, loaded, entries, slice, due, missed>>
  BY DEF QueryFails, DdlFails, Throw, ThreadAfterThrow
<1>2. ~AboutToEnd(p)
  BY DEF QueryFails, DdlFails, AboutToEnd, At
<1>3. SoundCalls(<<>>) /\ Linked(<<>>) /\ <<>> \in Seq(Frame)
  BY DEF SoundCalls, Linked, ToSet
<1>4. CacheInv' /\ Steady /\ (\A q \in Sessions : StackInv(q))'
  BY <1>1, <1>2, <1>3, QuietCalls
<1> QED BY <1>1, <1>4 DEF LookupInv

LEMMA FoundMeanwhile ==
  ASSUME LocksInv, LookupInv, (\E p \in Sessions : EndTransaction(p)) \/ UNCHANGED vars
  PROVE  CacheInv' /\ Steady /\ (\A q \in Sessions : StackInv(q))' /\ ~missed'
<1>1. UNCHANGED <<settingVars, serverVars, setVars, stack, due, missed>>
  BY DEF EndTransaction, vars
<1>2. Cleared' = Cleared /\ \A c : Current(c)' = Current(c)
  BY <1>1 DEF Cleared, AboutToEnd, At, Top, Current
<1>3. Kept' = Kept
  BY <1>1, <1>2 DEF Kept, Parts, TypesCovered
<1>4. \A c : Holds(c) => Holds(c)'
  BY <1>1, <1>2, <1>3 DEF Holds, Placed, Sliced, Ascending
<1>5. CacheInv'
  BY <1>1, <1>2, <1>3, <1>4 DEF CacheInv, LookupInv
<1>6. \A f : CallInv(f) => CallInv(f)'
  BY <1>1, <1>2, <1>3 DEF CallInv, CallHas, Placed, Ascending
<1>7. ASSUME NEW q \in Sessions PROVE StackInv(q)'
  BY <1>1, <1>6 DEF LookupInv, StackInv, Linked, At, Top, SkipsLoad
<1>8. Steady
  BY <1>1, <1>2, <1>3 DEF Steady
<1> QED BY <1>1, <1>5, <1>7, <1>8 DEF LookupInv

-------------------------------------------------------------------------------
(* Steps that put entries into a set of a schema.                          *)

LEMMA Inserted ==
  ASSUME LocksInv, NEW c \in Sets, NEW new, Insert(c, new)
  PROVE  /\ DOMAIN entries'[c] = DOMAIN entries[c] \cup DOMAIN new
         /\ \A x \in DOMAIN entries[c] : entries'[c][x] = entries[c][x]
         /\ \A x \in DOMAIN new \ DOMAIN entries[c] : entries'[c][x] = new[x]
         /\ \A d \in Sets : d # c => entries'[d] = entries[d]
         /\ DOMAIN new = {} => entries'[c] = entries[c]
<1>1. DOMAIN entries = Sets /\ entries[c] \in EntriesOf(c)
  BY DEF LocksInv, DataOK
<1>2. entries' = [entries EXCEPT ![c] = Joined(entries[c], new)]
  BY DEF Insert
<1>3. entries'[c] = Joined(entries[c], new) /\ \A d \in Sets : d # c => entries'[d] = entries[d]
  BY <1>1, <1>2
<1>4. DOMAIN new = {} => Joined(entries[c], new) = entries[c]
  <2>1. PICK D, V : entries[c] \in MapsInto(D, V)
    BY <1>1 DEF EntriesOf
  <2>2. PICK E \in SUBSET D : entries[c] \in [E -> V]
    BY <2>1 DEF MapsInto
  <2> DEFINE m == entries[c]
  <2>3. m = [x \in DOMAIN m |-> m[x]]
    BY <2>2
  <2> HIDE DEF m
  <2>4. DOMAIN new = {} => Joined(m, new) = m
    BY <2>3 DEF Joined
  <2> QED BY <2>4 DEF m
<1> QED BY <1>3, <1>4 DEF Joined

LEMMA ClearedStays ==
  ASSUME LocksInv, NEW p \in Sessions, NEW s \in Seq(Frame), stack' = [stack EXCEPT ![p] = s],
         UNCHANGED <<byName, exists, due>>, entries'[Root] = entries[Root],
         loaded'[Root] = loaded[Root], ~AboutToEnd(p)
  PROVE  (Cleared' => Cleared) /\ Kept' \subseteq Kept /\ \A d : Current(d)' <=> Current(d)
<1>1. Cleared' => Cleared
  <2> SUFFICES ASSUME Cleared', NEW q \in Sessions PROVE ~loaded[Root] /\ ~AboutToEnd(q)
    BY DEF Cleared
  <2>1. q # p => stack'[q] = stack[q]
    BY StateFacts
  <2> QED BY <2>1 DEF Cleared, AboutToEnd, At, Top
<1>2. Kept' \subseteq Kept
  BY <1>1 DEF Kept, Parts, TypesCovered
<1>3. \A d : Current(d)' <=> Current(d)
  BY DEF Current
<1> QED BY <1>1, <1>2, <1>3

LEMMA GrownCalls ==
  ASSUME LocksInv, LookupInv, NEW p \in Sessions, NEW s \in Seq(Frame),
         stack' = [stack EXCEPT ![p] = s], NEW c \in Sets \ {Root},
         UNCHANGED <<byName, exists, used, due, generation>>, ~AboutToEnd(p),
         \A d \in Sets : d # c =>
           entries'[d] = entries[d] /\ loaded'[d] = loaded[d] /\ slice'[d] = slice[d],
         DOMAIN entries[c] \subseteq DOMAIN entries'[c], loaded[c] => loaded'[c],
         \A d : d = c => Holds(d)',
         \A d \in Sets : loadingThread'[d] = loadingThread[d] \/ loadingThread[d] \in {p, NoSession},
         \A f \in ToSet(s) :
           \/ CallInv(f) /\ (f.pc \in {"relock", "requery", "rebuild"} => f.set[1] = "tables")
           \/ CallInv(f)',
         Linked(s),
         s # <<>> /\ s[1].pc = "find" /\ s[1].set # Root =>
           loaded'[s[1].set] \/ (s[1].set[1] = "types" /\ loadingThread'[s[1].set] = p)
  PROVE  CacheInv' /\ Steady /\ (\A q \in Sessions : StackInv(q))'
<1>1. entries'[Root] = entries[Root] /\ loaded'[Root] = loaded[Root]
  BY SetFacts
<1>2. Cleared' => Cleared
  BY <1>1, ClearedStays
<1>3. CacheInv' /\ Steady
  <2>1. ASSUME NEW d \in Sets \ {Root}
        PROVE  /\ DOMAIN entries[d] \subseteq DOMAIN entries'[d] /\ (loaded[d] => loaded'[d])
               /\ \/ Holds(d)'
                  \/ entries'[d] = entries[d] /\ loaded'[d] = loaded[d] /\ slice'[d] = slice[d]
    <3>1. CASE d = c
      BY <3>1
    <3>2. CASE d # c
      BY <3>2
    <3> QED BY <3>1, <3>2
  <2> QED BY <1>1, <1>2, <2>1, CacheGrows DEF LookupInv
<1>4. ASSUME NEW f \in ToSet(s) PROVE CallInv(f)'
  <2>1. f \in Frame
    <3>1. \A i \in DOMAIN s : s[i] \in Frame
      BY FrameFacts
    <3> QED BY <3>1 DEF ToSet
  <2> QED BY <1>1, <1>3, <1>4, <2>1, CallStays
<1> QED BY <1>1, <1>3, <1>4, StacksNext DEF LookupInv

\* The innermost call goes on with a set that has grown.
LEMMA GrownTop ==
  ASSUME LocksInv, LookupInv, NEW p \in Sessions, stack[p] # <<>>, NEW g \in Frame,
         stack' = [stack EXCEPT ![p][1] = g], g.want = Top(p).want,
         NEW c \in Sets \ {Root},
         UNCHANGED <<byName, exists, used, due, generation>>, ~AboutToEnd(p),
         \A d \in Sets : d # c =>
           entries'[d] = entries[d] /\ loaded'[d] = loaded[d] /\ slice'[d] = slice[d],
         DOMAIN entries[c] \subseteq DOMAIN entries'[c], loaded[c] => loaded'[c],
         \A d : d = c => Holds(d)',
         \A d \in Sets : loadingThread'[d] = loadingThread[d] \/ loadingThread[d] \in {p, NoSession},
         \A f : f = g => CallInv(f)',
         g.pc = "find" /\ g.set # Root =>
           loaded'[g.set] \/ (g.set[1] = "types" /\ loadingThread'[g.set] = p)
  PROVE  CacheInv' /\ Steady /\ (\A q \in Sessions : StackInv(q))'
<1> DEFINE s == [stack[p] EXCEPT ![1] = g]
<1>1. /\ s \in Seq(Frame) /\ s # <<>> /\ s[1] = g /\ Linked(s)
      /\ \A f \in ToSet(s) : f = g \/ f \in ToSet(stack[p])
  BY CallReplaced DEF LookupInv, StackInv
<1>2. stack' = [stack EXCEPT ![p] = s]
  OBVIOUS
<1> HIDE DEF s
<1>3. SoundCalls(stack[p])
  BY CallsAreSound DEF LookupInv
<1>4. \A f \in ToSet(s) :
           \/ CallInv(f) /\ (f.pc \in {"relock", "requery", "rebuild"} => f.set[1] = "tables")
           \/ CallInv(f)'
  BY <1>1, <1>3 DEF SoundCalls
<1> QED BY <1>1, <1>2, <1>4, GrownCalls

\* Enums and indexes are there at once; what has to be built is what the slice has besides.
LEMMA FoundWhenLocked ==
  ASSUME LocksInv, LookupInv, NEW p \in Sessions, LockToLoad(p)
  PROVE  CacheInv' /\ Steady /\ (\A q \in Sessions : StackInv(q))' /\ ~missed'
<1> DEFINE f == Top(p)
           c == f.set
           rows == slice[c][1]
           todo == slice[c][2]
           new == IF c[1] = "types" THEN InitializeEnums(rows) ELSE LoadIndexes(rows)
           g == [f EXCEPT !.pc = IF c = Root THEN "query" ELSE "load", !.todo = todo, !.refs = RefsOfFirst(todo)]
<1>1. /\ stack[p] # <<>> /\ f = stack[p][1] /\ f.pc = "lock" /\ loadLock[c] = NoSession
      /\ UNCHANGED <<settingVars, serverVars, generation, loaded, slice, due, missed>>
  BY DEF LockToLoad, At, Top
<1>2. /\ f \in Frame /\ f \in ToSet(stack[p]) /\ CallInv(f) /\ c \in Sets
      /\ slice[c] \in Seq(Objects) \X Seq(Own(c)) /\ slice[Root] = NoSlice
  <2>1. f \in Frame /\ f \in ToSet(stack[p]) /\ c \in Sets
    BY <1>1, TopFacts DEF ToSet
  <2> QED BY <2>1 DEF LookupInv, StackInv, LocksInv, DataOK
<1>3. ~AboutToEnd(p)
  BY <1>1 DEF AboutToEnd, At
<1>4. loadingThread[c] = NoSession
  BY <1>1, <1>2, StateFacts
<1>5. CASE loaded[c]
  <2> DEFINE h == [f EXCEPT !.pc = "find"]
  <2>1. /\ stack' = [stack EXCEPT ![p][1] = h]
        /\ UNCHANGED <<loadLock, loadingThread, entries>>
    BY <1>1, <1>5 DEF LockToLoad, Goto
  <2>2. /\ h \in Frame /\ h.set = c /\ h.want = f.want /\ h.refs = f.refs /\ h.todo = f.todo
        /\ h.built = f.built /\ h.pc = "find"
    BY <1>2 DEF Frame, Pcs
  <2> HIDE DEF h, c, f
  <2>3. CallInv(h)
    <3>1. c # Root => CallHas(h)
      BY <1>2, <2>2 DEF CallInv, CallHas, c
    <3> QED BY <1>2, <2>2, <3>1 DEF CallInv
  <2>4. CacheInv' /\ Steady /\ (\A q \in Sessions : StackInv(q))'
    BY <1>1, <1>3, <1>5, <2>1, <2>2, <2>3, QuietTop DEF f
  <2> QED BY <1>1, <2>4 DEF LookupInv
<1>6. CASE ~loaded[c]
  <2>1. /\ loadingThread' = [loadingThread EXCEPT ![c] = p] /\ Insert(c, new)
        /\ stack' = [stack EXCEPT ![p][1] = g]
    <3>1. stack' = [stack EXCEPT ![p][1] =
                  [@ EXCEPT !.pc = IF c = Root THEN "query" ELSE "load",
                            !.todo = todo, !.refs = RefsOfFirst(todo)]]
      BY <1>6 DEF LockToLoad
    <3> QED BY <1>1, <1>6, <3>1 DEF LockToLoad
  <2>2. todo \in Seq(Objects) /\ rows \in Seq(Objects)
    BY <1>2 DEF Own
  <2>3. RefsOfFirst(todo) \in Seq(Types)
    BY <2>2, RefsType
  <2>4. DOMAIN new = ToSet(rows)
    BY DEF InitializeEnums, LoadIndexes
  <2>5. /\ g \in Frame /\ g.set = c /\ g.want = f.want /\ g.todo = todo
        /\ g.refs = RefsOfFirst(todo) /\ g.built = f.built
        /\ g.pc = IF c = Root THEN "query" ELSE "load"
    BY <1>2, <2>2, <2>3 DEF Frame, Pcs
  <2>6. \A d \in Sets : loadingThread'[d] = loadingThread[d] \/ loadingThread[d] \in {p, NoSession}
    BY <1>2, <1>4, <2>1, StateFacts
  <2> HIDE DEF g, new
  <2>7. g.refs # <<>> => g.todo # <<>> /\ ToSet(g.refs) \subseteq ToSet(Refs[g.todo[1]])
    BY <2>2, <2>5, RefsOfNext
  <2>8. CASE c = Root
    <3>1. rows = <<>> /\ ToSet(rows) = {}
      BY <1>2, <2>8 DEF NoSlice, ToSet
    <3>2. \A d \in Sets : entries'[d] = entries[d]
      BY <1>2, <2>1, <2>4, <3>1, Inserted
    <3>3. CallInv(g)
      BY <1>6, <2>5, <2>7, <2>8 DEF CallInv
    <3>4. CacheInv' /\ Steady /\ (\A q \in Sessions : StackInv(q))'
      <4> HIDE DEF f, c
      <4> QED BY <1>1, <1>3, <2>1, <2>5, <2>6, <2>8, <3>2, <3>3, QuietTop DEF f
    <3> QED BY <1>1, <3>4 DEF LookupInv
  <2>9. CASE c # Root
    <3>1. /\ DOMAIN entries'[c] = DOMAIN entries[c] \cup ToSet(rows)
          /\ \A d \in Sets : d # c => entries'[d] = entries[d]
      BY <1>2, <2>1, <2>4, Inserted
    <3>2. Holds(c) /\ CallHas(f)
      BY <1>2, <2>9 DEF LookupInv, CacheInv, CallInv
    <3> DEFINE s == [stack[p] EXCEPT ![1] = g]
    <3>3. s \in Seq(Frame) /\ stack' = [stack EXCEPT ![p] = s]
      <4>1. g.want = Top(p).want
        BY <2>5
      <4> HIDE DEF f, c
      <4> QED BY <1>1, <2>1, <2>5, <4>1, CallReplaced DEF LookupInv, StackInv
    <3>4. entries'[Root] = entries[Root]
      BY <2>9, <3>1, SetFacts
    <3> HIDE DEF s
    <3>5. (Cleared' => Cleared) /\ Kept' \subseteq Kept /\ \A d : Current(d)' <=> Current(d)
      BY <1>1, <1>3, <3>3, <3>4, ClearedStays
    <3>6. Sliced(c) = ToSet(rows) \cup ToSet(todo)
      BY DEF Sliced
    <3>7. ToSet(g.todo) \cup DOMAIN g.built \subseteq Placed(c) \cap used
      BY <2>5, <3>2, <3>6 DEF Holds, CallHas
    <3>8. c[1] = "types" => g.built = <<>> /\ Ascending(g.todo)
      BY <2>5, <3>2 DEF Holds, CallHas
    <3>9. Current(c) => Kept \cap Placed(c) \subseteq DOMAIN entries'[c] \cup ToSet(g.todo)
      BY <2>5, <3>1, <3>2, <3>6 DEF Holds
    <3>10. DOMAIN entries'[c] \cup Sliced(c) \subseteq Placed(c) \cap used
      BY <3>1, <3>2, <3>6 DEF Holds
    <3>11. c[3] \in Nat /\ generation \in Nat /\ c[3] <= generation
      <4>1. generation \in Nat /\ MaxLoads \in Nat
        BY StateFacts
      <4>2. c[3] \in 1 .. MaxLoads
        BY <1>2, <2>9, SetFacts
      <4> QED BY <3>2, <4>1, <4>2 DEF CallHas
    <3>12. \A d : d = c => Holds(d)'
      <4> TAKE d
      <4> HAVE d = c
      <4>1. /\ DOMAIN entries'[d] \cup ToSet(slice'[d][1]) \cup ToSet(slice'[d][2]) \subseteq Placed(d) \cap used'
            /\ ~(d[3] > generation')
        BY <1>1, <3>10, <3>11 DEF Sliced
      <4>2. /\ d[1] = "types" => /\ Ascending(slice'[d][2])
                                 /\ \A o \in ToSet(slice'[d][1]) : KindOf[o] = "enum"
            /\ d[1] = "tables" => slice'[d][1] = <<>>
        BY <1>1, <3>2 DEF Holds
      <4>3. Current(d)' => \A o \in Kept' \cap Placed(d) :
                   o \in DOMAIN entries'[d] \/ (~loaded'[d] /\ o \in ToSet(slice'[d][1]) \cup ToSet(slice'[d][2]))
        BY <1>1, <1>6, <2>5, <3>5, <3>9
      <4> HIDE DEF c
      <4> QED BY ONLY <4>1, <4>2, <4>3 DEF Holds, Placed, Sliced, Ascending
    <3>13. \A h : h = g => CallInv(h)'
      <4> TAKE h
      <4> HAVE h = g
      <4>1. /\ h.want \in Placed(h.set) /\ h.set[2] \in used' /\ h.set[3] <= generation'
            /\ ToSet(h.todo) \cup DOMAIN h.built \subseteq Placed(h.set) \cap used'
            /\ h.set[1] = "types" => h.built = <<>> /\ Ascending(h.todo)
            /\ h.pc = "load" /\ h.set = c
        BY <1>1, <2>5, <2>9, <3>2, <3>7, <3>8 DEF CallHas
      <4>2. \A d : d = c =>
              /\ Current(d)' => Kept' \cap Placed(d) \subseteq DOMAIN entries'[d] \cup DOMAIN h.built \cup ToSet(h.todo)
              /\ Cleared' /\ d[2] \in DOMAIN entries'[Root] => Current(d)'
        <5> TAKE d
        <5> HAVE d = c
        <5>1. Current(d)' <=> Current(d)
          BY <3>5
        <5>2. Current(d) => Kept \cap Placed(d) \subseteq DOMAIN entries'[d] \cup ToSet(h.todo)
          BY <3>9
        <5>3. Cleared /\ d[2] \in DOMAIN entries[Root] => Current(d)
          BY <3>2 DEF CallHas
        <5> HIDE DEF c
        <5> QED BY <3>4, <3>5, <5>1, <5>2, <5>3
      <4>3. /\ Current(h.set)' => Kept' \cap Placed(h.set) \subseteq DOMAIN entries'[h.set] \cup DOMAIN h.built \cup ToSet(h.todo)
            /\ Cleared' /\ h.set[2] \in DOMAIN entries'[Root] => Current(h.set)'
        BY <4>1, <4>2
      <4> HIDE DEF c
      <4>4. CallHas(h)'
        BY <4>1, <4>3 DEF CallHas, Placed, Ascending
      <4>5. h.refs # <<>> => h.todo # <<>> /\ ToSet(h.refs) \subseteq ToSet(Refs[h.todo[1]])
        BY <2>7
      <4>6. h.set # Root
        BY <2>9, <4>1
      <4> QED BY <4>4, <4>5, <4>6 DEF CallInv
    <3>14. CacheInv' /\ Steady /\ (\A q \in Sessions : StackInv(q))'
      <4> HIDE DEF f, c
      <4>1. g.want = Top(p).want /\ g.pc # "find"
        BY <2>5, <2>9 DEF f
      <4>2. c \in Sets \ {Root}
        BY <1>2, <2>9
      <4>3. \A d \in Sets : d # c => entries'[d] = entries[d] /\ loaded'[d] = loaded[d] /\ slice'[d] = slice[d]
        BY <1>1, <3>1
      <4>4. DOMAIN entries[c] \subseteq DOMAIN entries'[c] /\ (loaded[c] => loaded'[c])
        BY <1>1, <3>1
      <4>5. UNCHANGED <<byName, exists, used, due, generation>>
        BY <1>1
      <4> QED BY ONLY LocksInv, LookupInv, p \in Sessions, <1>1, <1>3, <2>1, <2>5, <2>6, <3>12, <3>13,
                      <4>1, <4>2, <4>3, <4>4, <4>5, GrownTop
    <3> QED BY <1>1, <3>14 DEF LookupInv
  <2> QED BY <2>8, <2>9
<1> QED BY <1>5, <1>6

\* A composite type is in its set before the next one is built.
LEMMA FoundAsBuilt ==
  ASSUME LocksInv, LookupInv, NEW p \in Sessions, CreateCompositeType(p)
  PROVE  CacheInv' /\ Steady /\ (\A q \in Sessions : StackInv(q))' /\ ~missed'
<1> DEFINE f == Top(p)
           c == f.set
           o == f.todo[1]
           new == Entry(o, {o} \cup f.got)
           g == [f EXCEPT !.todo = Tail(@), !.refs = RefsOfFirst(Tail(f.todo)), !.got = {},
                          !.built = f.built]
<1>1. /\ stack[p] # <<>> /\ f = stack[p][1] /\ f.pc \in {"load", "rebuild"} /\ f.refs = <<>>
      /\ c[1] = "types" /\ f.todo # <<>> /\ stack' = [stack EXCEPT ![p][1] = g] /\ Insert(c, new)
      /\ UNCHANGED <<settingVars, serverVars, generation, loaded, loadingThread, slice, due, missed>>
  BY DEF CreateCompositeType, Building, NextObject, At, Top
<1>2. /\ f \in Frame /\ c \in Sets \ {Root} /\ CallHas(f) /\ Holds(c)
      /\ f.todo \in Seq(Objects) /\ f.got \in SUBSET Objects /\ f.pc = "load"
  <2>1. f \in Frame /\ f \in ToSet(stack[p]) /\ c \in Sets /\ c # Root /\ f.pc # "rebuild"
    BY <1>1, TopFacts, SetFacts DEF ToSet, FrameOK
  <2>2. CallHas(f) /\ Holds(c)
    BY <2>1 DEF LookupInv, StackInv, CallInv, CacheInv
  <2> QED BY <1>1, <2>1, <2>2, FrameFacts
<1>3. /\ Tail(f.todo) \in Seq(Objects) /\ o \in Objects
      /\ ToSet(f.todo) = {o} \cup ToSet(Tail(f.todo))
      /\ Ascending(f.todo) => Ascending(Tail(f.todo))
  BY <1>1, <1>2, AfterFirst
<1>4. RefsOfFirst(Tail(f.todo)) \in Seq(Types)
  BY <1>3, RefsType
<1>5. /\ g \in Frame /\ g.set = c /\ g.want = f.want /\ g.pc = "load" /\ g.todo = Tail(f.todo)
      /\ g.refs = RefsOfFirst(Tail(f.todo)) /\ g.built = f.built
  BY <1>2, <1>3, <1>4 DEF Frame
<1>6. DOMAIN new = {o}
  BY DEF Entry
<1> HIDE DEF g, new
<1>7. /\ DOMAIN entries'[c] = DOMAIN entries[c] \cup {o}
      /\ \A d \in Sets : d # c => entries'[d] = entries[d]
  BY <1>1, <1>2, <1>6, Inserted
<1> DEFINE s == [stack[p] EXCEPT ![1] = g]
<1>8. s \in Seq(Frame) /\ stack' = [stack EXCEPT ![p] = s]
  <2> HIDE DEF c, f
  <2>1. f = Top(p)
    BY DEF f
  <2> QED BY <1>1, <1>5, <2>1, CallReplaced DEF LookupInv, StackInv
<1> HIDE DEF s
<1>9. entries'[Root] = entries[Root]
  BY <1>2, <1>7, SetFacts
<1>10. ~AboutToEnd(p)
  BY <1>2 DEF AboutToEnd
<1>11. (Cleared' => Cleared) /\ Kept' \subseteq Kept /\ \A d : Current(d)' <=> Current(d)
  <2>1. UNCHANGED <<byName, exists, due>> /\ loaded'[Root] = loaded[Root]
    BY <1>1
  <2> QED BY ONLY LocksInv, p \in Sessions, <1>8, <1>9, <1>10, <2>1, ClearedStays
<1>12. ToSet(f.todo) \cup DOMAIN f.built \subseteq Placed(c) \cap used /\ f.built = <<>>
       /\ Ascending(f.todo)
  BY <1>1, <1>2 DEF CallHas
<1>13. c[3] \in Nat /\ generation \in Nat /\ c[3] <= generation
  <2>1. generation \in Nat /\ MaxLoads \in Nat
    BY StateFacts
  <2>2. c[3] \in 1 .. MaxLoads
    BY <1>2, SetFacts
  <2> QED BY <1>2, <2>1, <2>2 DEF CallHas
<1>14. \A d : d = c => Holds(d)'
  <2> TAKE d
  <2> HAVE d = c
  <2>1. /\ DOMAIN entries'[d] \cup ToSet(slice'[d][1]) \cup ToSet(slice'[d][2]) \subseteq Placed(d) \cap used'
        /\ ~(d[3] > generation')
    BY <1>1, <1>2, <1>3, <1>7, <1>12, <1>13 DEF Holds, Sliced
  <2>2. /\ d[1] = "types" => /\ Ascending(slice'[d][2])
                             /\ \A x \in ToSet(slice'[d][1]) : KindOf[x] = "enum"
        /\ d[1] = "tables" => slice'[d][1] = <<>>
    BY <1>1, <1>2 DEF Holds
  <2>3. Current(d)' => \A x \in Kept' \cap Placed(d) :
               x \in DOMAIN entries'[d] \/ (~loaded'[d] /\ x \in ToSet(slice'[d][1]) \cup ToSet(slice'[d][2]))
    BY <1>1, <1>2, <1>7, <1>11 DEF Holds, Sliced
  <2> HIDE DEF c, f
  <2> QED BY ONLY <2>1, <2>2, <2>3 DEF Holds, Placed, Sliced, Ascending
<1>15. \A h : h = g => CallInv(h)'
  <2> TAKE h
  <2> HAVE h = g
  <2>1. /\ h.want \in Placed(h.set) /\ h.set[2] \in used' /\ h.set[3] <= generation'
        /\ ToSet(h.todo) \cup DOMAIN h.built \subseteq Placed(h.set) \cap used'
        /\ h.set[1] = "types" => h.built = <<>> /\ Ascending(h.todo)
        /\ h.pc = "load" /\ h.set = c
    <3>1. ToSet(h.todo) \subseteq ToSet(f.todo) /\ Ascending(h.todo) /\ h.built = f.built
          /\ h.set = c /\ h.pc = "load" /\ h.want = f.want
      BY <1>3, <1>5, <1>12
    <3> QED BY <1>1, <1>2, <1>12, <3>1 DEF CallHas
  <2>2. \A d : d = c =>
          /\ Current(d)' => Kept' \cap Placed(d) \subseteq DOMAIN entries'[d] \cup DOMAIN h.built \cup ToSet(h.todo)
          /\ Cleared' /\ d[2] \in DOMAIN entries'[Root] => Current(d)'
    <3> TAKE d
    <3> HAVE d = c
    <3>1. Current(d)' <=> Current(d)
      BY <1>11
    <3>2. Current(d) => Kept \cap Placed(d) \subseteq DOMAIN entries'[d] \cup ToSet(h.todo)
      <4>1. Current(d) => Kept \cap Placed(d) \subseteq DOMAIN entries[d] \cup DOMAIN f.built \cup ToSet(f.todo)
        BY <1>2 DEF CallHas
      <4>2. DOMAIN f.built = {} /\ DOMAIN entries'[d] = DOMAIN entries[d] \cup {o}
        BY <1>7, <1>12
      <4>3. ToSet(f.todo) = {o} \cup ToSet(h.todo)
        BY <1>3, <1>5
      <4> HIDE DEF c, o, f
      <4> QED BY <4>1, <4>2, <4>3
    <3>3. Cleared /\ d[2] \in DOMAIN entries[Root] => Current(d)
      BY <1>2 DEF CallHas
    <3> HIDE DEF c
    <3> QED BY <1>9, <1>11, <3>1, <3>2, <3>3
  <2>3. /\ Current(h.set)' => Kept' \cap Placed(h.set) \subseteq DOMAIN entries'[h.set] \cup DOMAIN h.built \cup ToSet(h.todo)
        /\ Cleared' /\ h.set[2] \in DOMAIN entries'[Root] => Current(h.set)'
    BY <2>1, <2>2
  <2>4. h.refs # <<>> => h.todo # <<>> /\ ToSet(h.refs) \subseteq ToSet(Refs[h.todo[1]])
    BY <1>3, <1>5, RefsOfNext
  <2>5. h.set # Root
    BY <1>2, <2>1
  <2> HIDE DEF c, o, f
  <2>6. CallHas(h)'
    BY <2>1, <2>3 DEF CallHas, Placed, Ascending
  <2> QED BY <2>4, <2>5, <2>6 DEF CallInv
<1>16. CacheInv' /\ Steady /\ (\A q \in Sessions : StackInv(q))'
  <2>1. g.want = Top(p).want /\ g.pc # "find"
    BY <1>5
  <2>2. c \in Sets \ {Root}
    BY <1>2
  <2>3. \A d \in Sets : d # c => entries'[d] = entries[d] /\ loaded'[d] = loaded[d] /\ slice'[d] = slice[d]
    BY <1>1, <1>7
  <2>4. DOMAIN entries[c] \subseteq DOMAIN entries'[c] /\ (loaded[c] => loaded'[c])
    BY <1>1, <1>7
  <2>5. UNCHANGED <<byName, exists, used, due, generation>> /\ UNCHANGED loadingThread
    BY <1>1
  <2>6. stack[p] # <<>> /\ stack' = [stack EXCEPT ![p][1] = g] /\ g \in Frame
    BY <1>1, <1>5
  <2> HIDE DEF c, o, f
  <2> QED BY ONLY LocksInv, LookupInv, p \in Sessions, <1>10, <1>14, <1>15,
                  <2>1, <2>2, <2>3, <2>4, <2>5, <2>6, GrownTop
<1> QED BY <1>1, <1>16 DEF LookupInv

\* The end of a load: what has been built is in the set, so the slice is not needed any more.
LEMMA FoundWhenLoaded ==
  ASSUME LocksInv, LookupInv, NEW p \in Sessions, FinishLoad(p)
  PROVE  CacheInv' /\ Steady /\ (\A q \in Sessions : StackInv(q))' /\ ~missed'
<1> DEFINE f == Top(p)
           c == f.set
           g == [f EXCEPT !.pc = "find", !.built = <<>>]
           s == [stack[p] EXCEPT ![1] = g]
<1>1. /\ stack[p] # <<>> /\ f = stack[p][1] /\ f.pc = "load" /\ f.todo = <<>>
      /\ stack' = [stack EXCEPT ![p][1] = g] /\ Insert(c, f.built)
      /\ slice' = [slice EXCEPT ![c] = NoSlice] /\ loaded' = [loaded EXCEPT ![c] = TRUE]
      /\ loadingThread' = Release(loadingThread, c)
      /\ UNCHANGED <<settingVars, serverVars, generation, due, missed>>
  BY DEF FinishLoad, At, Top
<1>2. /\ f \in Frame /\ c \in Sets /\ CallInv(f) /\ StackInv(p) /\ f.refs = <<>>
      /\ loadLock[c] = p /\ loadingThread[c] = p /\ (c = Root => f.built = <<>>)
  <2>1. f \in Frame /\ f \in ToSet(stack[p]) /\ c \in Sets /\ FrameOK(p, f, loadLock, loadingThread, generation)
    BY <1>1, TopFacts DEF ToSet
  <2>2. CallInv(f) /\ StackInv(p)
    BY <2>1 DEF LookupInv, StackInv
  <2>3. f.refs = <<>>
    BY <1>1, <2>2 DEF CallInv
  <2> QED BY <1>1, <2>1, <2>2, <2>3 DEF FrameOK, Holding
<1>3. /\ g \in Frame /\ g.set = c /\ g.want = f.want /\ g.pc = "find" /\ g.todo = <<>>
      /\ g.refs = <<>> /\ g.built = <<>>
  BY <1>1, <1>2, NoEntries DEF Frame, Pcs
<1> HIDE DEF g
<1>4. /\ DOMAIN entries'[c] = DOMAIN entries[c] \cup DOMAIN f.built
      /\ \A d \in Sets : d # c => entries'[d] = entries[d]
      /\ DOMAIN f.built = {} => entries'[c] = entries[c]
  BY <1>1, <1>2, Inserted
<1>5. /\ loaded'[c] /\ slice'[c] = NoSlice
      /\ \A d \in Sets : d # c => loaded'[d] = loaded[d] /\ slice'[d] = slice[d]
      /\ \A d \in Sets : loadingThread'[d] = loadingThread[d] \/ loadingThread[d] \in {p, NoSession}
  <2>1. DOMAIN loaded = Sets /\ DOMAIN slice = Sets /\ DOMAIN loadingThread = Sets
    BY DEF LocksInv, DataOK, TypeOK
  <2> QED BY <1>1, <1>2, <2>1 DEF Release
<1>6. /\ s \in Seq(Frame) /\ s # <<>> /\ s[1] = g /\ Linked(s) /\ stack' = [stack EXCEPT ![p] = s]
      /\ \A h \in ToSet(s) : h = g \/ (h \in ToSet(stack[p]) /\ h.set # Root)
  <2>1. g.want = Top(p).want /\ Linked(stack[p])
    BY <1>2, <1>3 DEF StackInv
  <2> HIDE DEF c, f
  <2> QED BY <1>1, <1>3, <2>1, CallReplaced
<1> HIDE DEF s
<1>7. CASE c = Root
  <2>1. DOMAIN f.built = {}
    BY <1>2, <1>7
  <2>2. \A d \in Sets : entries'[d] = entries[d]
    BY <1>4, <2>1
  <2>3. loaded'[Root] /\ entries'[Root] = entries[Root] /\ loadLock[Root] = p
    BY <1>2, <1>5, <1>7, <2>2, SetFacts
  <2>4. Cleared' => Cleared
    BY <2>3 DEF Cleared
  <2>5. \A d \in Sets \ {Root} :
           /\ DOMAIN entries[d] \subseteq DOMAIN entries'[d] /\ (loaded[d] => loaded'[d])
           /\ entries'[d] = entries[d] /\ loaded'[d] = loaded[d] /\ slice'[d] = slice[d]
    BY <1>5, <1>7, <2>2
  <2>6. UNCHANGED <<byName, exists, used, due, generation>>
    BY <1>1
  <2>7. CacheInv' /\ Steady
    BY ONLY LocksInv, LookupInv, <2>3, <2>4, <2>5, <2>6, CacheGrows DEF LookupInv
  <2>8. g.set = Root
    BY <1>3, <1>7
  <2>9. \A h : h = g => CallInv(h)'
    BY <1>3, <2>8 DEF CallInv
  <2>10. \A h \in ToSet(s) : \/ h \in ToSet(stack[p]) /\ (h.set # Root \/ (loaded'[Root] => loaded[Root]))
                             \/ CallInv(h)'
    BY <1>6, <2>9
  <2>11. (\A q \in Sessions : StackInv(q))'
    <3> HIDE DEF c, f
    <3>1. \A q \in Sessions : StackInv(q)
      BY DEF LookupInv
    <3> QED BY ONLY LocksInv, p \in Sessions, <3>1, <1>5, <1>6, <2>3, <2>7, <2>8, <2>10, StacksNext
  <2> QED BY <1>1, <2>7, <2>11 DEF LookupInv
<1>8. CASE c # Root
  <2>1. c \in Sets \ {Root} /\ CallHas(f) /\ Holds(c)
    BY <1>2, <1>8 DEF LookupInv, CacheInv, CallInv
  <2>2. ~AboutToEnd(p)
    BY <1>8 DEF AboutToEnd
  <2>3. entries'[Root] = entries[Root] /\ loaded'[Root] = loaded[Root]
    BY <1>4, <1>5, <1>8, SetFacts
  <2>4. UNCHANGED <<byName, exists, used, due, generation>>
    BY <1>1
  <2>5. (Cleared' => Cleared) /\ Kept' \subseteq Kept /\ \A d : Current(d)' <=> Current(d)
    BY ONLY LocksInv, p \in Sessions, <1>6, <2>2, <2>3, <2>4, ClearedStays
  <2>6. ToSet(f.todo) = {} /\ ToSet(NoSlice[1]) = {} /\ ToSet(NoSlice[2]) = {} /\ Ascending(<<>>)
        /\ NoSlice[1] = <<>> /\ NoSlice[2] = <<>>
    BY <1>1 DEF ToSet, Ascending, NoSlice
  <2>7. Current(c) => Kept \cap Placed(c) \subseteq DOMAIN entries'[c]
    BY <1>1, <1>4, <2>1, <2>6 DEF CallHas
  <2>8. DOMAIN entries'[c] \subseteq Placed(c) \cap used
    BY <1>4, <2>1 DEF CallHas, Holds
  <2>9. c[3] \in Nat /\ generation \in Nat /\ c[3] <= generation
    <3>1. generation \in Nat /\ MaxLoads \in Nat
      BY StateFacts
    <3>2. c[3] \in 1 .. MaxLoads
      BY <2>1, SetFacts
    <3> QED BY <2>1, <3>1, <3>2 DEF CallHas
  <2>10. \A d : d = c => Holds(d)'
    <3> TAKE d
    <3> HAVE d = c
    <3>1. /\ DOMAIN entries'[d] \cup ToSet(slice'[d][1]) \cup ToSet(slice'[d][2]) \subseteq Placed(d) \cap used'
          /\ ~(d[3] > generation')
      BY <1>1, <1>5, <2>6, <2>8, <2>9
    <3>2. slice'[d][1] = <<>> /\ slice'[d][2] = <<>> /\ ToSet(slice'[d][1]) = {} /\ Ascending(<<>>)
      BY <1>5, <2>6
    <3>3. Current(d)' => \A o \in Kept' \cap Placed(d) : o \in DOMAIN entries'[d]
      BY <2>5, <2>7
    <3> HIDE DEF c, f
    <3>4. d[1] = "types" => /\ Ascending(slice'[d][2])
                            /\ \A x \in ToSet(slice'[d][1]) : KindOf[x] = "enum"
      BY ONLY <3>2
    <3> QED BY ONLY <3>1, <3>2, <3>3, <3>4 DEF Holds, Placed, Sliced, Ascending
  <2>11. \A h : h = g => CallInv(h)'
    <3> TAKE h
    <3> HAVE h = g
    <3>1. ToSet(h.todo) = {} /\ DOMAIN h.built = {} /\ Ascending(h.todo) /\ h.built = <<>>
      BY <1>3, <2>6 DEF ToSet
    <3>2. /\ h.want \in Placed(h.set) /\ h.set[2] \in used' /\ h.set[3] <= generation'
          /\ h.pc = "find" /\ h.set = c /\ h.refs = <<>> /\ h.set # Root
      BY <1>1, <1>3, <1>8, <2>1 DEF CallHas
    <3>3. \A d : d = c => (Cleared' /\ d[2] \in DOMAIN entries'[Root] => Current(d)')
      BY <2>1, <2>3, <2>5 DEF CallHas
    <3>4. Cleared' /\ h.set[2] \in DOMAIN entries'[Root] => Current(h.set)'
      BY <3>2, <3>3
    <3> HIDE DEF c, f
    <3>5. CallHas(h)'
      BY <3>1, <3>2, <3>4 DEF CallHas, Placed, Ascending
    <3> QED BY <3>2, <3>5 DEF CallInv
  <2>12. CacheInv' /\ Steady /\ (\A q \in Sessions : StackInv(q))'
    <3>1. g.want = Top(p).want /\ stack[p] # <<>> /\ stack' = [stack EXCEPT ![p][1] = g] /\ g \in Frame
      BY <1>1, <1>3
    <3>2. \A d \in Sets : d # c => entries'[d] = entries[d] /\ loaded'[d] = loaded[d] /\ slice'[d] = slice[d]
      BY <1>4, <1>5
    <3>3. DOMAIN entries[c] \subseteq DOMAIN entries'[c] /\ (loaded[c] => loaded'[c])
      BY <1>4, <1>5
    <3>4. g.pc = "find" /\ g.set # Root => loaded'[g.set]
      BY <1>3, <1>5
    <3>5. c \in Sets \ {Root}
      BY <2>1
    <3> HIDE DEF c, f
    <3> QED BY ONLY LocksInv, LookupInv, p \in Sessions, <1>5, <2>2, <2>4, <2>10, <2>11,
                    <3>1, <3>2, <3>3, <3>4, <3>5, GrownTop
  <2> QED BY <1>1, <2>12 DEF LookupInv
<1> QED BY <1>7, <1>8

\* A table that has been reloaded is one more entry of its set.
LEMMA FoundWhenReloaded ==
  ASSUME LocksInv, LookupInv, NEW p \in Sessions, FinishReload(p)
  PROVE  CacheInv' /\ Steady /\ (\A q \in Sessions : StackInv(q))' /\ ~missed'
<1> DEFINE f == Top(p)
           c == f.set
           s == Returned(stack[p], {})
<1>1. /\ stack[p] # <<>> /\ f = stack[p][1] /\ f.pc = "rebuild" /\ f.todo = <<>>
      /\ Insert(c, f.built) /\ Return(p, {}, TRUE)
      /\ UNCHANGED <<settingVars, serverVars, generation, loaded, loadingThread, slice, due>>
  BY DEF FinishReload, At, Top
<1>2. f \in Frame /\ c \in Sets \ {Root} /\ CallHas(f) /\ Holds(c)
  <2>1. f \in Frame /\ f \in ToSet(stack[p]) /\ c \in Sets /\ FrameOK(p, f, loadLock, loadingThread, generation)
    BY <1>1, TopFacts DEF ToSet
  <2>2. c # Root
    BY <1>1, <2>1, SetFacts DEF FrameOK
  <2> QED BY <2>1, <2>2 DEF LookupInv, StackInv, CallInv, CacheInv
<1>3. s \in Seq(Frame) /\ Linked(s) /\ (s # <<>> => s[1].pc # "find") /\ SoundCalls(s)
  BY <1>1, PoppedCalls DEF LookupInv
<1>4. stack' = [stack EXCEPT ![p] = s] /\ ~missed'
  BY <1>1, ReturnStack DEF Return, LookupInv
<1> HIDE DEF s
<1>5. /\ DOMAIN entries'[c] = DOMAIN entries[c] \cup DOMAIN f.built
      /\ \A d \in Sets : d # c => entries'[d] = entries[d]
  BY <1>1, <1>2, Inserted
<1>6. ~AboutToEnd(p)
  BY <1>1 DEF AboutToEnd, At
<1>7. entries'[Root] = entries[Root]
  BY <1>2, <1>5, SetFacts
<1>8. UNCHANGED <<byName, exists, used, due, generation>> /\ UNCHANGED <<loaded, slice, loadingThread>>
  BY <1>1
<1>9. (Cleared' => Cleared) /\ Kept' \subseteq Kept /\ \A d : Current(d)' <=> Current(d)
  BY ONLY LocksInv, p \in Sessions, <1>3, <1>4, <1>6, <1>7, <1>8, ClearedStays
<1>10. c[3] \in Nat /\ generation \in Nat /\ c[3] <= generation
  <2>1. generation \in Nat /\ MaxLoads \in Nat
    BY StateFacts
  <2>2. c[3] \in 1 .. MaxLoads
    BY <1>2, SetFacts
  <2> QED BY <1>2, <2>1, <2>2 DEF CallHas
<1>11. \A d : d = c => Holds(d)'
  <2> TAKE d
  <2> HAVE d = c
  <2>1. /\ DOMAIN entries'[d] \cup ToSet(slice'[d][1]) \cup ToSet(slice'[d][2]) \subseteq Placed(d) \cap used'
        /\ ~(d[3] > generation')
    BY <1>2, <1>5, <1>8, <1>10 DEF CallHas, Holds, Sliced
  <2>2. /\ d[1] = "types" => /\ Ascending(slice'[d][2])
                             /\ \A x \in ToSet(slice'[d][1]) : KindOf[x] = "enum"
        /\ d[1] = "tables" => slice'[d][1] = <<>>
    BY <1>2, <1>8 DEF Holds
  <2>3. Current(d)' => \A x \in Kept' \cap Placed(d) :
               x \in DOMAIN entries'[d] \/ (~loaded'[d] /\ x \in ToSet(slice'[d][1]) \cup ToSet(slice'[d][2]))
    BY <1>2, <1>5, <1>8, <1>9 DEF Holds, Sliced
  <2> HIDE DEF c, f
  <2> QED BY ONLY <2>1, <2>2, <2>3 DEF Holds, Placed, Sliced, Ascending
<1>12. CacheInv' /\ Steady /\ (\A q \in Sessions : StackInv(q))'
  <2>1. \A d \in Sets : d # c => entries'[d] = entries[d] /\ loaded'[d] = loaded[d] /\ slice'[d] = slice[d]
    BY <1>5, <1>8
  <2>2. DOMAIN entries[c] \subseteq DOMAIN entries'[c] /\ (loaded[c] => loaded'[c])
    BY <1>5, <1>8
  <2>3. \A h \in ToSet(s) : \/ CallInv(h) /\ (h.pc \in {"relock", "requery", "rebuild"} => h.set[1] = "tables")
                            \/ CallInv(h)'
    BY <1>3 DEF SoundCalls
  <2> HIDE DEF c, f
  <2> QED BY ONLY LocksInv, LookupInv, p \in Sessions, <1>2, <1>3, <1>4, <1>6, <1>8, <1>11,
                  <2>1, <2>2, <2>3, GrownCalls
<1> QED BY <1>4, <1>12

-------------------------------------------------------------------------------
(* The end of the queries: the set of schemas, and the slices below it.    *)

\* What the answers of p say of an object that p is to know.
InAnswers(p, o) ==
  /\ o \in Objects /\ SchemaOf[o] \in answers[p][1] \cap Schemas
  /\ \E k \in 2 .. 5 : AnswerTo[k] = KindOf[o] /\ o \in answers[p][k]

LEMMA AnsweredFacts ==
  ASSUME LocksInv, LookupInv, NEW p \in Sessions, LoadSchemas(p)
  PROVE  /\ answers[p] \in Seq(SUBSET Known) /\ Len(answers[p]) = 5 /\ answers[p] # <<>>
         /\ DOMAIN answers[p] = 1 .. 5 /\ ReadAt(p)
         /\ \A k \in 1 .. 5 : answers[p][k] \subseteq used
         /\ \A k \in 2 .. 5 : k \in DOMAIN answers[p] \ {1}
         /\ ToSet(SchemaRows(answers[p][1])) = answers[p][1] \cap Schemas
<1>1. stack[p] # <<>> /\ stack[p][1].pc = "slice"
  BY DEF LoadSchemas, At
<1>2. answers[p] \in Seq(SUBSET Known) /\ Len(answers[p]) = 5 /\ byName \in BOOLEAN
  BY <1>1, TopFacts DEF AnswersOK, LocksInv, DataOK
<1>3. answers[p] # <<>> /\ DOMAIN answers[p] = 1 .. 5
  <2> DEFINE a == answers[p]
             S == SUBSET Known
  <2>1. a \in Seq(S) /\ Len(a) = 5
    BY <1>2
  <2> HIDE DEF a, S
  <2>2. a # <<>> /\ DOMAIN a = 1 .. 5
    BY <2>1
  <2> QED BY <2>2 DEF a
<1>4. ReadAt(p)
  BY <1>3 DEF LookupInv, ReadInv
<1>5. \A k \in 1 .. 5 : answers[p][k] \subseteq used
  BY <1>3, <1>4 DEF ReadAt
<1>6. ToSet(SchemaRows(answers[p][1])) = answers[p][1] \cap Schemas
  BY <1>2, SchemaRowsOrdered
<1> QED BY <1>2, <1>3, <1>4, <1>5, <1>6

\* What the first query has seen of an object, the query for its kind has seen.
LEMMA SeenIsAnswered ==
  ASSUME LocksInv, LookupInv, NEW p \in Sessions, LoadSchemas(p),
         NEW o \in exists \cap Objects, o \in answers[p][1]
  PROVE  InAnswers(p, o)
<1>1. ReadAt(p) /\ \A k \in 2 .. 5 : k \in DOMAIN answers[p] \ {1}
  BY AnsweredFacts
<1>2. SchemaOf[o] \in answers[p][1] \cap Schemas
  BY <1>1, SchemaOfType DEF ReadAt, Whole
<1>3. PICK k \in 2 .. 5 : AnswerTo[k] = KindOf[o]
  <2>1. KindOf[o] \in {"enum", "composite", "table", "index"}
    BY SchemaAssumption
  <2>2. AnswerTo[2] = "table" /\ AnswerTo[3] = "enum" /\ AnswerTo[4] = "composite" /\ AnswerTo[5] = "index"
    BY DEF AnswerTo
  <2> QED BY <2>1, <2>2
<1>4. o \in answers[p][k]
  BY <1>1, <1>3 DEF ReadAt
<1> QED BY <1>2, <1>3, <1>4 DEF InAnswers

\* What becomes due, besides.
LEMMA NewlyDue ==
  ASSUME LocksInv, LookupInv, NEW p \in Sessions, LoadSchemas(p), NEW x \in due', x \notin due
  PROVE  /\ x \in exists
         /\ \/ x \in answers[p][1]
            \/ x \in answers[p][2] /\ x \in Objects /\ KindOf[x] = "table" /\ SchemaOf[x] \in answers[p][1] \cap Schemas
<1> DEFINE a == answers[p]
           schemas == SchemaRows(a[1])
           place == CHOOSE i \in DOMAIN AnswerTo : AnswerTo[i] = "table"
           tables == SliceResult(schemas, Rows(a[place]))
<1>1. x \in exists /\ (x \in a[1] \/ \E i \in DOMAIN tables : x \in ToSet(tables[i]))
  BY DEF LoadSchemas
<1>2. place = 2
  BY DEF AnswerTo
<1>3. DOMAIN tables = DOMAIN schemas
  BY DEF SliceResult
<1>4. CASE \E i \in DOMAIN tables : x \in ToSet(tables[i])
  <2>1. PICK i \in DOMAIN schemas : x \in ToSet(tables[i])
    BY <1>3, <1>4
  <2>2. tables[i] = Part(p, 2, i)
    BY <1>2 DEF Part
  <2>3. x \in a[2] /\ x \in Objects /\ KindOf[x] = AnswerTo[2] /\ SchemaOf[x] = schemas[i]
    BY <2>1, <2>2, PartFacts
  <2>4. schemas[i] \in ToSet(schemas)
    BY <2>1 DEF ToSet
  <2>5. schemas[i] \in a[1] \cap Schemas
    BY <2>4, AnsweredFacts
  <2> QED BY <1>1, <2>3, <2>5 DEF AnswerTo
<1> QED BY <1>1, <1>4

\* What the cache is to hold from now on, it has held before, or the answers have it.
LEMMA KeptIsAnswered ==
  ASSUME LocksInv, LookupInv, NEW p \in Sessions, LoadSchemas(p), NEW o \in Kept', o \notin Kept
  PROVE  InAnswers(p, o)
<1>1. /\ UNCHANGED <<byName, exists>>
      /\ Goto(p, "load")
  BY DEF LoadSchemas
<1>2. ~Cleared'
  <2>1. /\ stack[p] # <<>> /\ stack[p][1] \in Frame /\ stack[p] \in Seq(Frame)
        /\ stack[p][1].set = Root /\ stack \in [Sessions -> Seq(Frame)]
    <3>1. stack[p] # <<>> /\ stack[p][1].pc = "slice"
      BY DEF LoadSchemas, At
    <3> QED BY <3>1, TopFacts, StateFacts DEF FrameOK
  <2> DEFINE h == [stack[p][1] EXCEPT !.pc = "load"]
  <2>2. stack'[p] = [stack[p] EXCEPT ![1] = h]
    BY <1>1, <2>1 DEF Goto
  <2>3. h.pc = "load" /\ h.set = Root
    BY <2>1 DEF Frame
  <2> HIDE DEF h
  <2>4. stack'[p] # <<>> /\ stack'[p][1] = h
    BY <2>1, <2>2
  <2>5. AboutToEnd(p)'
    BY <2>3, <2>4 DEF AboutToEnd, At, Top
  <2> QED BY <2>5 DEF Cleared
<1>3. \A t : Parts(t)' = Parts(t)
  BY <1>1 DEF Parts, TypesCovered
<1>4. o \in exists \cap Objects /\ (o \in due' \/ \E t \in due' \cap Objects : o \in Parts(t))
  BY <1>1, <1>2, <1>3 DEF Kept
<1>5. o \notin due /\ ~ \E t \in due \cap Objects : o \in Parts(t)
  BY <1>4 DEF Kept
<1>6. ReadAt(p) /\ \A k \in 2 .. 5 : k \in DOMAIN answers[p] \ {1}
  BY AnsweredFacts
<1>7. Len(answers[p]) = 5
  BY AnsweredFacts
<1>8. CASE o \in due'
  <2>1. CASE o \in answers[p][1]
    BY <1>4, <2>1, SeenIsAnswered
  <2>2. CASE o \notin answers[p][1]
    <3>1. o \in answers[p][2] /\ KindOf[o] = "table" /\ SchemaOf[o] \in answers[p][1] \cap Schemas
      BY <1>5, <1>8, <2>2, NewlyDue
    <3>2. AnswerTo[2] = KindOf[o] /\ 2 \in 2 .. 5
      BY <3>1 DEF AnswerTo
    <3> QED BY <1>4, <3>1, <3>2 DEF InAnswers
  <2> QED BY <2>1, <2>2
<1>9. CASE o \notin due'
  <2>1. PICK t \in due' \cap Objects : o \in Parts(t)
    BY <1>4, <1>9
  <2>2. ~byName /\ TypesCovered /\ o \in Definition[t] /\ t \notin due
    BY <1>5, <2>1 DEF Parts
  <2>3. t \in exists
    BY <2>1, <2>2, NewlyDue
  <2>4. CASE t \in answers[p][1]
    <3>1. Closed(answers[p][1])
      BY <1>6, <2>2 DEF ReadAt
    <3>2. o \in answers[p][1]
      BY <2>1, <2>2, <2>4, <3>1, DefinitionWithin
    <3> QED BY <1>4, <3>2, SeenIsAnswered
  <2>5. CASE t \notin answers[p][1]
    <3>1. t \in answers[p][2] \cap exists
      BY <2>1, <2>2, <2>3, <2>5, NewlyDue
    <3>2. SchemaOf[o] \in answers[p][1] \cap Schemas
      <4>1. SchemaOf[o] \in answers[p][1]
        BY <1>6, <1>7, <2>2, <3>1 DEF ReadAt
      <4> QED BY <1>4, <4>1, SchemaOfType
    <3>3. PICK k \in {3, 4} : AnswerTo[k] = KindOf[o]
      <4>1. KindOf[o] \in {"enum", "composite"}
        BY <2>1, <2>2, DefinitionFacts DEF Types
      <4>2. AnswerTo[3] = "enum" /\ AnswerTo[4] = "composite"
        BY DEF AnswerTo
      <4> QED BY <4>1, <4>2
    <3>4. k \in DOMAIN answers[p] \ {1} /\ k > 2 /\ k \in 2 .. 5
      BY <1>6, <3>3
    <3>5. o \in answers[p][k]
      BY <1>4, <1>6, <2>2, <3>1, <3>3, <3>4 DEF ReadAt
    <3> QED BY <1>4, <3>2, <3>3, <3>4, <3>5 DEF InAnswers
  <2> QED BY <2>4, <2>5
<1> QED BY <1>8, <1>9

\* The schemas of the first answer join the others, with sets of their own.
LEMMA SchemasJoin ==
  ASSUME LocksInv, SliceInv, LookupInv, NEW p \in Sessions, LoadSchemas(p)
  PROVE  LET known == answers[p][1] \cap Schemas
             g == generation + 1
         IN /\ DOMAIN entries'[Root] = DOMAIN entries[Root] \cup known
            /\ \A s \in DOMAIN entries[Root] : entries'[Root][s] = entries[Root][s]
            /\ \A s \in known \ DOMAIN entries[Root] : entries'[Root][s] = g
            /\ \A c \in Sets \ {Root} : entries'[c] = entries[c]
            /\ generation \in Nat /\ generation' = g
            /\ UNCHANGED <<settingVars, serverVars, loaded, loadLock, loadingThread, missed>>
            /\ Cleared /\ Top(p).set = Root /\ loadLock[Root] = p
            /\ \A c \in Sets \ {Root} : c[3] # g =>
                 /\ slice'[c] = slice[c]
                 /\ Current(c)' => Current(c) /\ c[2] \in DOMAIN entries[Root]
            /\ \A c \in Sets \ {Root} : Current(c)' => c[3] # g \/ c[2] \in known \ DOMAIN entries[Root]
            /\ \A c : Current(c) => Current(c)'
<1> DEFINE schemas == SchemaRows(answers[p][1])
           known == answers[p][1] \cap Schemas
           g == generation + 1
           new == [s \in ToSet(schemas) |-> g]
<1>1. /\ generation' = g /\ Insert(Root, new)
      /\ UNCHANGED <<settingVars, serverVars, loaded, loadLock, loadingThread, missed>>
      /\ stack[p] # <<>> /\ Top(p).pc = "slice" /\ Top(p) = stack[p][1]
  BY DEF LoadSchemas, At, Top
<1>2. ToSet(schemas) = known
  BY AnsweredFacts
<1>3. generation \in Nat /\ \A s \in DOMAIN entries[Root] : entries[Root][s] <= generation /\ entries[Root][s] \in Nat
  <2>1. entries[Root] \in MapsInto(Schemas, 1 .. MaxLoads)
    BY SetFacts DEF LocksInv, DataOK, EntriesOf
  <2>2. \A s \in DOMAIN entries[Root] : entries[Root][s] \in 1 .. MaxLoads
    BY <2>1, MapFacts
  <2> QED BY <2>2, StateFacts DEF SliceInv
<1>4. \A c \in Sets \ {Root} : slice'[c] = slice[c] \/ c[3] = g
  <2> SUFFICES ASSUME NEW c \in Sets \ {Root}, c[3] # g PROVE slice'[c] = slice[c]
    OBVIOUS
  <2> QED BY SlicesAre
<1> HIDE DEF schemas, known
<1>5. DOMAIN new = known /\ \A s \in known : new[s] = g
  BY <1>2
<1> HIDE DEF new
<1>6. /\ DOMAIN entries'[Root] = DOMAIN entries[Root] \cup known
      /\ \A s \in DOMAIN entries[Root] : entries'[Root][s] = entries[Root][s]
      /\ \A s \in known \ DOMAIN entries[Root] : entries'[Root][s] = g
      /\ \A c \in Sets : c # Root => entries'[c] = entries[c]
  BY <1>1, <1>5, SetFacts, Inserted
<1>7. ASSUME NEW c \in Sets \ {Root}, Current(c)'
      PROVE  \/ c[3] # g /\ Current(c) /\ c[2] \in DOMAIN entries[Root]
             \/ c[3] = g /\ c[2] \in known \ DOMAIN entries[Root]
  <2>1. c[2] \in DOMAIN entries'[Root] /\ entries'[Root][c[2]] = c[3]
    BY <1>7 DEF Current
  <2>2. CASE c[2] \in DOMAIN entries[Root]
    <3>1. Current(c) /\ c[3] <= generation /\ c[3] \in Nat
      BY <1>3, <1>6, <2>1, <2>2 DEF Current
    <3> QED BY <1>3, <2>2, <3>1
  <2>3. CASE c[2] \notin DOMAIN entries[Root]
    BY <1>6, <2>1, <2>3
  <2> QED BY <2>2, <2>3
<1>8. Top(p).set = Root /\ loadLock[Root] = p /\ Top(p) \in ToSet(stack[p])
  BY <1>1, TopFacts DEF FrameOK, Holding, ToSet
<1>9. Cleared
  <2>1. ~loaded[Root]
    <3>1. CallInv(Top(p))
      BY <1>8 DEF LookupInv, StackInv
    <3> QED BY <1>1, <1>8, <3>1 DEF CallInv
  <2>2. ASSUME NEW q \in Sessions, AboutToEnd(q) PROVE FALSE
    <3>1. stack[q] # <<>> /\ Top(q).pc = "load" /\ Top(q).set = Root
      BY <2>2 DEF AboutToEnd, At, Top
    <3>2. loadLock[Root] = q
      BY <3>1, TopFacts DEF FrameOK, Holding, Top
    <3> QED BY <1>1, <1>8, <3>1, <3>2
  <2> QED BY <2>1, <2>2 DEF Cleared
<1>10. \A c \in Sets \ {Root} : c[3] # g =>
                 /\ slice'[c] = slice[c]
                 /\ Current(c)' => Current(c) /\ c[2] \in DOMAIN entries[Root]
  BY <1>4, <1>7
<1>11. \A c \in Sets \ {Root} : Current(c)' => c[3] # g \/ c[2] \in known \ DOMAIN entries[Root]
  BY <1>7
<1>12. \A c : Current(c) => Current(c)'
  BY <1>6 DEF Current
<1> QED BY ONLY <1>1, <1>3, <1>6, <1>8, <1>9, <1>10, <1>11, <1>12 DEF known

\* The set of a new schema entry has its objects in its slice; the others are as they were.
LEMMA SetsHoldSlices ==
  ASSUME LocksInv, SliceInv, LookupInv, NEW p \in Sessions, LoadSchemas(p), NEW c \in Sets \ {Root}
  PROVE  Holds(c)'
<1> DEFINE known == answers[p][1] \cap Schemas
           g == generation + 1
<1>1. /\ entries'[c] = entries[c] /\ generation \in Nat /\ generation' = g
      /\ UNCHANGED <<settingVars, serverVars, loaded>> /\ Cleared
      /\ c[3] # g => slice'[c] = slice[c] /\ (Current(c)' => Current(c) /\ c[2] \in DOMAIN entries[Root])
      /\ Current(c)' => c[3] # g \/ c[2] \in known \ DOMAIN entries[Root]
  BY SchemasJoin
<1>2. Holds(c) /\ c[3] \in Nat /\ \A o \in Kept : SchemaOf[o] \in DOMAIN entries[Root]
  <2>1. c[3] \in 1 .. MaxLoads /\ MaxLoads \in Nat
    BY SetFacts, StateFacts
  <2> QED BY <2>1 DEF LookupInv, CacheInv
<1>3. \A o \in Kept' : o \in exists \cap Objects
  BY <1>1 DEF Kept
<1>4. CASE ~(c[3] = g /\ c[2] \in known)
  <2>1. slice'[c] = slice[c]
    <3>1. c[2] \notin ToSet(SchemaRows(answers[p][1])) \/ c[3] # g
      BY <1>4, AnsweredFacts
    <3> QED BY <3>1, SlicesAre
  <2>2. Current(c)' => Current(c) /\ c[2] \in DOMAIN entries[Root]
    BY <1>1, <1>4
  <2>3. c[2] \in DOMAIN entries[Root] => \A o \in Kept' \cap Placed(c) : o \in Kept
    BY <1>1, <1>3 DEF Kept, Placed
  <2> HIDE DEF known
  <2>4. c[3] > generation' => ~loaded'[c] /\ DOMAIN entries'[c] = {}
    BY <1>1, <1>2 DEF Holds
  <2> QED BY <1>1, <1>2, <2>1, <2>2, <2>3, <2>4 DEF Holds, Placed, Sliced, Ascending
<1>5. CASE c[3] = g /\ c[2] \in known
  <2> DEFINE schemas == SchemaRows(answers[p][1])
  <2>1. PICK i \in DOMAIN schemas :
          /\ schemas[i] = c[2]
          /\ c[1] = "tables" => slice'[c] = << <<>>, Part(p, 2, i) >>
          /\ c[1] = "indexes" => slice'[c] = << Part(p, 5, i), <<>> >>
          /\ c[1] = "types" => slice'[c] = << Part(p, 3, i), Part(p, 4, i) >>
    <3>1. c[2] \in ToSet(schemas)
      BY <1>5, AnsweredFacts
    <3> QED BY <1>5, <3>1, SlicesAre DEF Part
  <2>2. \A k \in 2 .. 5 : /\ Ascending(Part(p, k, i))
                          /\ \A o \in ToSet(Part(p, k, i)) :
                               /\ o \in answers[p][k] /\ o \in Objects /\ KindOf[o] = AnswerTo[k]
                               /\ SchemaOf[o] = c[2]
    BY <2>1, PartFacts
  <2>3. \A k \in 2 .. 5 : answers[p][k] \subseteq used
    BY AnsweredFacts
  <2>4. /\ AnswerTo[2] = "table" /\ AnswerTo[3] = "enum" /\ AnswerTo[4] = "composite" /\ AnswerTo[5] = "index"
        /\ 2 \in 2 .. 5 /\ 3 \in 2 .. 5 /\ 4 \in 2 .. 5 /\ 5 \in 2 .. 5
    BY DEF AnswerTo
  <2>5. ToSet(<<>>) = {} /\ c[1] \in {"types", "tables", "indexes"}
    <3>1. ToSet(<<>>) = {}
      BY DEF ToSet
    <3> QED BY <3>1, SetFacts
  <2> DEFINE part(k) == Part(p, k, i)
  <2> HIDE DEF schemas
  <2>6. /\ c[1] = "tables" => slice'[c][1] = <<>> /\ slice'[c][2] = part(2)
        /\ c[1] = "indexes" => slice'[c][1] = part(5) /\ slice'[c][2] = <<>>
        /\ c[1] = "types" => slice'[c][1] = part(3) /\ slice'[c][2] = part(4)
    BY <2>1
  <2>7. \A k \in 2 .. 5 : \A o \in ToSet(part(k)) : o \in used /\ o \in Objects /\ KindOf[o] = AnswerTo[k] /\ SchemaOf[o] = c[2]
    BY <2>2, <2>3
  <2>8. Ascending(part(4))
    BY <2>2, <2>4
  <2>9. ASSUME NEW o \in Kept', o \in Placed(c) , Current(c)'
        PROVE  o \in Sliced(c)'
    <3>1. c[2] \notin DOMAIN entries[Root]
      BY <1>1, <1>5, <2>9
    <3>2. o \notin Kept /\ o \in Objects /\ SchemaOf[o] = c[2] /\ SetKind(o) = c[1]
      BY <1>2, <2>9, <3>1 DEF Placed
    <3>3. PICK k \in 2 .. 5 : AnswerTo[k] = KindOf[o] /\ o \in answers[p][k]
      BY <2>9, <3>2, KeptIsAnswered DEF InAnswers
    <3>4. o \in ToSet(part(k))
      BY <2>1, <3>2, <3>3, RowIsSliced DEF Part, schemas
    <3>5. /\ k = 2 => c[1] = "tables"
          /\ k \in {3, 4} => c[1] = "types"
          /\ k = 5 => c[1] = "indexes"
      BY <2>4, <3>2, <3>3 DEF SetKind
    <3> HIDE DEF part
    <3>6. k \in {2, 3, 4, 5}
      OBVIOUS
    <3>7. part(k) \in {slice'[c][1], slice'[c][2]}
      BY <2>6, <3>5, <3>6
    <3> QED BY <3>4, <3>7 DEF Sliced
  <2> HIDE DEF part
  <2>10. \A o \in Sliced(c)' : o \in Placed(c) \cap used
    <3> SUFFICES ASSUME NEW o, o \in ToSet(slice'[c][1]) \cup ToSet(slice'[c][2])
                 PROVE  o \in Placed(c) \cap used
      BY DEF Sliced
    <3>1. CASE c[1] = "tables"
      BY <2>4, <2>5, <2>6, <2>7, <3>1 DEF Placed, SetKind
    <3>2. CASE c[1] = "indexes"
      BY <2>4, <2>5, <2>6, <2>7, <3>2 DEF Placed, SetKind
    <3>3. CASE c[1] = "types"
      BY <2>4, <2>6, <2>7, <3>3 DEF Placed, SetKind
    <3> QED BY <2>5, <3>1, <3>2, <3>3
  <2>11. c[3] > generation /\ ~(c[3] > generation')
    BY <1>1, <1>2, <1>5
  <2>12. ~loaded[c] /\ DOMAIN entries[c] = {}
    BY <1>2, <2>11 DEF Holds
  <2>13. c[1] = "types" => /\ Ascending(slice'[c][2])
                           /\ \A o \in ToSet(slice'[c][1]) : KindOf[o] = "enum"
    BY <2>4, <2>6, <2>7, <2>8
  <2>14. c[1] = "tables" => slice'[c][1] = <<>>
    BY <2>6
  <2>15. used' = used /\ entries'[c] = entries[c] /\ loaded' = loaded
    BY <1>1
  <2>16. \A o \in Kept' : o \in Placed(c) /\ Current(c)' => o \in Sliced(c)'
    BY <2>9
  <2> HIDE DEF known
  <2> QED BY ONLY <2>10, <2>11, <2>12, <2>13, <2>14, <2>15, <2>16 DEF Holds, Placed, Ascending
<1> QED BY <1>4, <1>5

\* The end of the queries.
LEMMA FoundInAnswers ==
  ASSUME LocksInv, SliceInv, LookupInv, NEW p \in Sessions, LoadSchemas(p)
  PROVE  CacheInv' /\ Steady /\ (\A q \in Sessions : StackInv(q))' /\ ~missed'
<1> DEFINE known == answers[p][1] \cap Schemas
           f == Top(p)
           g == [f EXCEPT !.pc = "load"]
           s == [stack[p] EXCEPT ![1] = g]
<1>1. /\ DOMAIN entries'[Root] = DOMAIN entries[Root] \cup known
      /\ \A c \in Sets \ {Root} : entries'[c] = entries[c]
      /\ generation \in Nat /\ generation' = generation + 1
      /\ UNCHANGED <<settingVars, serverVars, loaded, loadLock, loadingThread, missed>>
      /\ Cleared /\ f.set = Root /\ loadLock[Root] = p
      /\ \A c \in Sets \ {Root} : c[3] # generation + 1 =>
           (Current(c)' => Current(c) /\ c[2] \in DOMAIN entries[Root])
      /\ \A c : Current(c) => Current(c)'
  BY SchemasJoin
<1>2. /\ stack[p] # <<>> /\ f = stack[p][1] /\ f.pc = "slice" /\ stack' = [stack EXCEPT ![p][1] = g]
  BY DEF LoadSchemas, At, Top, Goto
<1>3. f \in Frame /\ CallInv(f) /\ StackInv(p)
  BY <1>2, TopFacts DEF LookupInv, StackInv, ToSet
<1>4. g \in Frame /\ g.set = Root /\ g.want = f.want /\ g.pc = "load" /\ g.refs = f.refs /\ g.todo = f.todo
  BY <1>1, <1>3 DEF Frame, Pcs
<1> HIDE DEF g
<1>5. /\ s \in Seq(Frame) /\ s # <<>> /\ s[1] = g /\ Linked(s) /\ stack' = [stack EXCEPT ![p] = s]
      /\ \A h \in ToSet(s) : h = g \/ (h \in ToSet(stack[p]) /\ h.set # Root)
  BY <1>2, <1>3, <1>4, CallReplaced DEF StackInv
<1> HIDE DEF s
<1>6. ~Cleared'
  <2>1. stack'[p] = s
    BY <1>5, StateFacts
  <2>2. AboutToEnd(p)'
    BY <1>4, <1>5, <2>1 DEF AboutToEnd, At, Top
  <2> QED BY <2>2 DEF Cleared
<1>7. \A o \in Kept' : o \in Kept \/ SchemaOf[o] \in known
  BY KeptIsAnswered DEF InAnswers
<1>8. \A o \in Kept' : o \in exists \cap Objects
  BY <1>1 DEF Kept
<1>9. CacheInv /\ \A q \in Sessions : StackInv(q)
  BY DEF LookupInv
<1>10. CacheInv'
  <2>1. due' \cap Schemas \subseteq DOMAIN entries'[Root]
    <3> SUFFICES ASSUME NEW x \in due', x \in Schemas PROVE x \in DOMAIN entries'[Root]
      OBVIOUS
    <3>1. x \in due \/ x \in answers[p][1]
      BY NewlyDue, SchemaOfType
    <3> QED BY <1>1, <1>9, <3>1 DEF CacheInv
  <2>2. DOMAIN entries'[Root] \subseteq used
    <3>1. answers[p][1] \subseteq used
      BY AnsweredFacts
    <3> QED BY <1>1, <1>9, <3>1 DEF CacheInv
  <2>3. \A o \in Kept' : SchemaOf[o] \in DOMAIN entries'[Root]
    BY <1>1, <1>7, <1>9 DEF CacheInv
  <2>4. \A c \in Sets \ {Root} : Holds(c)'
    BY SetsHoldSlices
  <2> QED BY <1>1, <1>6, <2>1, <2>2, <2>3, <2>4 DEF CacheInv
<1>11. Steady
  <2>1. ASSUME NEW c \in Sets \ {Root}, c[3] <= generation
        PROVE  /\ Current(c)' => Current(c)
               /\ Current(c)' => \A o \in Kept' \cap Placed(c) : o \in Kept
    <3>1. c[3] # generation + 1
      <4>1. c[3] \in 1 .. MaxLoads /\ MaxLoads \in Nat
        BY SetFacts, StateFacts
      <4> QED BY <1>1, <2>1, <4>1
    <3>2. Current(c)' => Current(c) /\ c[2] \in DOMAIN entries[Root]
      BY <1>1, <3>1
    <3>3. c[2] \in DOMAIN entries[Root] => \A o \in Kept' \cap Placed(c) : o \in Kept
      BY <1>1, <1>8 DEF Kept, Placed
    <3> QED BY <3>2, <3>3
  <2>2. used \subseteq used' /\ generation' \in {generation, generation + 1} /\ loaded' = loaded
    BY <1>1
  <2> QED BY <1>1, <1>6, <2>1, <2>2 DEF Steady
<1>12. \A h : h = g => CallInv(h)'
  <2>1. ~loaded'[Root]
    BY <1>1 DEF Cleared
  <2>2. g.refs # <<>> => g.todo # <<>> /\ ToSet(g.refs) \subseteq ToSet(Refs[g.todo[1]])
    BY <1>3, <1>4 DEF CallInv
  <2> QED BY <1>4, <2>1, <2>2 DEF CallInv
<1>13. (\A q \in Sessions : StackInv(q))'
  <2>1. \A h \in ToSet(s) : \/ h \in ToSet(stack[p]) /\ (h.set # Root \/ (loaded'[Root] => loaded[Root]))
                            \/ CallInv(h)'
    BY <1>5, <1>12
  <2>2. loaded' = loaded /\ loadingThread' = loadingThread
    BY <1>1
  <2> QED BY ONLY LocksInv, p \in Sessions, <1>4, <1>5, <1>9, <1>11, <2>1, <2>2, StacksNext
<1> QED BY <1>1, <1>10, <1>11, <1>13 DEF LookupInv

-------------------------------------------------------------------------------
(* Steps that create and drop.                                             *)

\* A statement returns: the calls of p that stay are those that a steady step leaves.
LEMMA ReturnedSteady ==
  ASSUME LocksInv, LookupInv, NEW p \in Sessions, stack[p] # <<>>, Return(p, {}, TRUE), Steady,
         loaded'[Root] <=> loaded[Root], loadingThread' = loadingThread
  PROVE  (\A q \in Sessions : StackInv(q))' /\ ~missed'
<1> DEFINE s == Returned(stack[p], {})
<1>1. s \in Seq(Frame) /\ Linked(s) /\ (s # <<>> => s[1].pc # "find") /\ SoundCalls(s)
  BY PoppedCalls DEF LookupInv
<1>2. stack' = [stack EXCEPT ![p] = s] /\ ~missed'
  BY ReturnStack DEF Return, LookupInv
<1> HIDE DEF s
<1>3. ASSUME NEW h \in ToSet(s) PROVE CallInv(h)'
  <2>1. h \in Frame
    <3>1. \A i \in DOMAIN s : s[i] \in Frame
      BY <1>1, FrameFacts
    <3> QED BY <3>1 DEF ToSet
  <2> QED BY <1>1, <1>3, <2>1, CallStays DEF SoundCalls
<1>4. \A q \in Sessions : StackInv(q)
  BY DEF LookupInv
<1>5. (\A q \in Sessions : StackInv(q))'
  BY <1>1, <1>2, <1>3, <1>4, StacksNext
<1> QED BY <1>2, <1>5

\* What a statement that is about to return makes of the history.
LEMMA ClearedBefore ==
  ASSUME LocksInv, NEW p \in Sessions, stack[p] # <<>>, Return(p, {}, TRUE), At(p, "ddl"),
         loaded'[Root] <=> loaded[Root]
  PROVE  Cleared' => Cleared
<1> SUFFICES ASSUME Cleared', NEW q \in Sessions PROVE ~loaded[Root] /\ ~AboutToEnd(q)
  BY DEF Cleared
<1>1. q # p => stack'[q] = stack[q]
  <2>1. stack' = [stack EXCEPT ![p] = Returned(stack[p], {})]
    BY ReturnStack
  <2> QED BY <2>1, StateFacts
<1>2. ~AboutToEnd(p)
  BY DEF AboutToEnd, At
<1> QED BY <1>1, <1>2 DEF Cleared, AboutToEnd, At, Top

LEMMA NewOid ==
  ASSUME LocksInv, NEW x, CanCreate(x), x \in OwnDdl \cup OtherClients
  PROVE  x \notin used /\ x \in Schemas \cup Objects
<1>1. x \in Schemas \cup Objects
  BY SchemaAssumption
<1> QED BY <1>1, OidsAreNumbers DEF CanCreate

\* The sets of a schema that DuckDB creates count as loaded: there is nothing in the schema.
LEMMA FoundInNewSchema ==
  ASSUME LocksInv, SliceInv, LookupInv, NEW p \in Sessions, CreateSchema(p)
  PROVE  CacheInv' /\ Steady /\ (\A q \in Sessions : StackInv(q))' /\ ~missed'
<1> DEFINE f == Top(p)
           x == f.want
           new == Entry(x, generation)
<1>1. /\ stack[p] # <<>> /\ f = stack[p][1] /\ f.pc = "ddl" /\ f.set = Root /\ At(p, "ddl")
      /\ f.verb = "create" /\ CanCreate(x) /\ exists' = exists \cup {x} /\ used' = used \cup {x}
      /\ Insert(Root, new) /\ due' = due \cup {x} /\ Return(p, {}, TRUE)
      /\ loaded' = [c \in Sets |-> loaded[c] \/ (c[2] = x /\ c[3] = generation)]
      /\ UNCHANGED <<settingVars, generation, loadLock, loadingThread, slice>>
  BY DEF CreateSchema, Created, At, Top, Current
<1>2. /\ x \in OwnDdl /\ x \in Schemas /\ x \notin Objects /\ x \notin used /\ x # 0
  <2>1. FrameOK(p, f, loadLock, loadingThread, generation)
    BY <1>1, TopFacts
  <2>2. x \in OwnDdl /\ x \in Schemas
    BY <1>1, <2>1 DEF FrameOK
  <2> QED BY <1>1, <2>2, NewOid, SchemaAssumption
<1>3. /\ HistoryInv /\ CacheInv /\ exists \subseteq used /\ due \subseteq exists /\ Whole(exists)
      /\ Initial \subseteq used
  BY DEF LookupInv, LocksInv, DataOK, TypeOK, HistoryInv, SliceInv, ServerInv
<1> HIDE DEF x, f
<1>4. DOMAIN new = {x}
  BY DEF Entry
<1> HIDE DEF new
<1>5. /\ DOMAIN entries'[Root] = DOMAIN entries[Root] \cup {x}
      /\ \A s \in DOMAIN entries[Root] : entries'[Root][s] = entries[Root][s]
      /\ \A c \in Sets : c # Root => entries'[c] = entries[c]
  BY <1>1, <1>4, SetFacts, Inserted
<1>6. /\ loaded'[Root] <=> loaded[Root]
      /\ \A c \in Sets : (loaded[c] => loaded'[c])
      /\ \A c \in Sets : c[2] # x \/ c[3] # generation => (loaded'[c] <=> loaded[c])
  <2>1. Root[2] = 0
    BY DEF Root
  <2> QED BY <1>1, <1>2, <2>1, SetFacts
<1>7. Cleared' => Cleared
  BY <1>1, <1>6, ClearedBefore
<1>8. \A o \in exists \cap Objects : SchemaOf[o] # x
  BY <1>2, <1>3 DEF Whole
<1>9. Kept' \subseteq Kept
  <2>1. \A t : Parts(t)' = Parts(t)
    BY <1>1 DEF Parts, TypesCovered
  <2>2. \A o \in Kept' : o \in exists \cap Objects
    BY <1>1, <1>2 DEF Kept
  <2> QED BY <1>1, <1>2, <1>5, <1>7, <1>8, <2>1, <2>2 DEF Kept
<1>10. ASSUME NEW c \in Sets \ {Root}, c[2] # x
       PROVE  Current(c)' <=> Current(c)
  BY <1>5, <1>10 DEF Current
<1>11. ASSUME NEW c \in Sets \ {Root} PROVE Holds(c)'
  <2>1. Holds(c)
    BY <1>3 DEF CacheInv
  <2>2. Current(c)' => \A o \in Kept' \cap Placed(c) :
          o \in DOMAIN entries'[c] \/ (~loaded'[c] /\ o \in Sliced(c))
    <3>1. CASE c[2] = x
      <4>1. \A o \in Kept : o \in exists \cap Objects
        BY DEF Kept
      <4> QED BY <1>8, <1>9, <3>1, <4>1 DEF Placed
    <3>2. CASE c[2] # x
      <4>1. Current(c)' <=> Current(c)
        BY <1>10, <3>2
      <4> QED BY <1>5, <1>6, <1>9, <2>1, <3>2, <4>1 DEF Holds
    <3> QED BY <3>1, <3>2
  <2>3. c[3] > generation => ~loaded'[c] /\ DOMAIN entries'[c] = {}
    <3>1. c[3] \in 1 .. MaxLoads /\ MaxLoads \in Nat /\ generation \in Nat
      BY SetFacts, StateFacts
    <3>2. c[3] > generation => c[3] # generation
      BY <3>1
    <3> QED BY <1>5, <1>6, <2>1, <3>2 DEF Holds
  <2>4. Sliced(c)' = Sliced(c)
    BY <1>1 DEF Sliced
  <2>5. DOMAIN entries'[c] \cup Sliced(c) \subseteq Placed(c) \cap used'
    BY <1>1, <1>5, <2>1 DEF Holds
  <2>6. UNCHANGED <<slice, generation>>
    BY <1>1
  <2>7. /\ c[1] = "types" => /\ Ascending(slice[c][2])
                             /\ \A o \in ToSet(slice[c][1]) : KindOf[o] = "enum"
        /\ c[1] = "tables" => slice[c][1] = <<>>
    BY <2>1 DEF Holds
  <2> QED BY ONLY <2>2, <2>3, <2>4, <2>5, <2>6, <2>7 DEF Holds, Placed, Ascending
<1>12. CacheInv'
  <2>1. due' \cap Schemas \subseteq DOMAIN entries'[Root] /\ DOMAIN entries'[Root] \subseteq used'
    BY <1>1, <1>3, <1>5 DEF CacheInv
  <2>2. Cleared' => DOMAIN entries'[Root] \subseteq OwnDdl \ Initial
    BY <1>2, <1>3, <1>5, <1>7 DEF CacheInv
  <2>3. \A o \in Kept' : SchemaOf[o] \in DOMAIN entries'[Root]
    BY <1>3, <1>5, <1>9 DEF CacheInv
  <2> QED BY <1>11, <2>1, <2>2, <2>3 DEF CacheInv
<1>13. Steady
  <2>1. ASSUME NEW c \in Sets \ {Root}, c[2] \in used
        PROVE  /\ Current(c)' => Current(c)
               /\ Current(c)' => \A o \in Kept' \cap Placed(c) : o \in Kept
               /\ Current(c) => Current(c)'
               /\ Cleared' /\ c[2] \in DOMAIN entries'[Root] => Cleared /\ c[2] \in DOMAIN entries[Root]
    <3>1. c[2] # x
      BY <1>2, <2>1
    <3> QED BY <1>5, <1>7, <1>9, <1>10, <3>1
  <2>2. used \subseteq used' /\ generation' = generation
    BY <1>1
  <2> QED BY <1>5, <1>6, <2>1, <2>2 DEF Steady
<1>14. (\A q \in Sessions : StackInv(q))' /\ ~missed'
  BY <1>1, <1>6, <1>13, ReturnedSteady
<1> QED BY <1>12, <1>13, <1>14

\* A type or index that DuckDB creates is due only where its set is the one that is looked into.
LEMMA FoundOnceCreated ==
  ASSUME LocksInv, SliceInv, LookupInv, NEW p \in Sessions, CreateType(p) \/ CreateIndex(p)
  PROVE  CacheInv' /\ Steady /\ (\A q \in Sessions : StackInv(q))' /\ ~missed'
<1> DEFINE f == Top(p)
           c == f.set
           x == f.want
<1>1. PICK entry :
      /\ stack[p] # <<>> /\ f = stack[p][1] /\ f.pc = "ddl" /\ c[1] \in {"types", "indexes"} /\ At(p, "ddl")
      /\ f.verb = "create" /\ CanCreate(x) /\ exists' = exists \cup {x} /\ used' = used \cup {x}
      /\ Insert(c, Entry(x, entry)) /\ due' = (IF Current(c) THEN due \cup {x} ELSE due)
      /\ Return(p, {}, TRUE)
      /\ UNCHANGED <<settingVars, generation, loaded, loadLock, loadingThread, slice>>
  BY DEF CreateType, CreateIndex, Created, At, Top
<1> DEFINE new == Entry(x, entry)
<1>2. /\ c \in Sets \ {Root} /\ x \in OwnDdl /\ x \in Objects /\ x \notin used /\ CallHas(f) /\ Holds(c)
  <2>1. FrameOK(p, f, loadLock, loadingThread, generation) /\ f \in ToSet(stack[p]) /\ c \in Sets
    BY <1>1, TopFacts DEF ToSet
  <2>2. c # Root
    BY <1>1, SetFacts
  <2>3. x \in OwnDdl /\ x \in Objects
    BY <1>1, <2>1, <2>2 DEF FrameOK
  <2> QED BY <1>1, <2>1, <2>2, <2>3, NewOid DEF LookupInv, StackInv, CallInv, CacheInv
<1>3. /\ HistoryInv /\ CacheInv /\ exists \subseteq used /\ due \subseteq exists /\ Closed(exists)
  BY DEF LookupInv, LocksInv, DataOK, TypeOK, HistoryInv
<1>4. x \in Placed(c) /\ c[2] = SchemaOf[x] /\ c[1] = SetKind(x)
  BY <1>2 DEF CallHas, Placed
<1>5. Cleared /\ c[2] \in DOMAIN entries[Root] => Current(c)
  BY <1>2 DEF CallHas
<1>6. Definition[x] \subseteq {x}
  <2>1. KindOf[x] \in {"enum", "index"}
    BY <1>2, SchemaAssumption
  <2> QED BY <1>2, <2>1, DefinitionFacts
<1>7. DOMAIN new = {x} /\ Insert(c, new)
  BY <1>1 DEF Entry
<1> HIDE DEF new
<1>8. /\ DOMAIN entries'[c] = DOMAIN entries[c] \cup {x}
      /\ \A d \in Sets : d # c => entries'[d] = entries[d]
  BY <1>1, <1>2, <1>7, Inserted
<1> HIDE DEF f, c, x
<1>9. entries'[Root] = entries[Root]
  BY <1>2, <1>8, SetFacts
<1>10. \A d : Current(d)' <=> Current(d)
  BY <1>9 DEF Current
<1>11. Cleared' => Cleared
  BY <1>1, ClearedBefore
<1>12. ASSUME NEW o \in Kept' PROVE o \in Kept \/ (o = x /\ Current(c))
  <2>1. \A t : Parts(t)' = Parts(t)
    BY <1>1 DEF Parts, TypesCovered
  <2>2. /\ o \in (exists \cup {x}) \cap Objects
        /\ \/ o \in due'
           \/ \E t \in due' \cap Objects : o \in Parts(t)
           \/ Cleared /\ SchemaOf[o] \in DOMAIN entries[Root]
    BY <1>1, <1>9, <1>11, <1>12, <2>1 DEF Kept
  <2>3. CASE o = x
    <3>1. ASSUME NEW t \in due \cap Objects PROVE x \notin Parts(t)
      <4>1. Definition[t] \subseteq exists
        BY <1>3, DefinitionWithin
      <4> QED BY <1>2, <1>3, <4>1 DEF Parts
    <3> QED BY <1>1, <1>2, <1>3, <1>4, <1>5, <2>2, <2>3, <3>1
  <2>4. CASE o # x
    <3>1. o \notin Parts(x)
      BY <1>6, <2>4 DEF Parts
    <3> QED BY <1>1, <2>2, <2>4, <3>1 DEF Kept
  <2> QED BY <2>3, <2>4
<1>13. ASSUME NEW d \in Sets \ {Root}, d # c, Current(d), Current(c), x \in Placed(d) PROVE FALSE
  <2>1. d[1] = c[1] /\ d[2] = c[2]
    BY <1>4, <1>13 DEF Placed
  <2>2. d[3] = c[3]
    BY <1>2, <1>13, <2>1 DEF Current
  <2>3. c \in {"types", "tables", "indexes"} \X Schemas \X (1 .. MaxLoads)
        /\ d \in {"types", "tables", "indexes"} \X Schemas \X (1 .. MaxLoads)
    BY <1>2 DEF Sets
  <2> QED BY <1>13, <2>1, <2>2, <2>3
<1>14. ASSUME NEW d \in Sets \ {Root}, Current(d), NEW o \in Kept', o \in Placed(d)
       PROVE  o \in Kept \/ (d = c /\ o = x)
  BY <1>12, <1>13, <1>14
<1>15. ASSUME NEW d \in Sets \ {Root} PROVE Holds(d)'
  <2>1. Holds(d)
    BY <1>3 DEF CacheInv
  <2>2. DOMAIN entries[d] \subseteq DOMAIN entries'[d] /\ (d = c => x \in DOMAIN entries'[d])
    BY <1>8
  <2>3. Current(d)' => \A o \in Kept' \cap Placed(d) :
          o \in DOMAIN entries'[d] \/ (~loaded'[d] /\ o \in Sliced(d))
    BY <1>1, <1>10, <1>14, <2>1, <2>2 DEF Holds
  <2>4. DOMAIN entries'[d] \cup Sliced(d) \subseteq Placed(d) \cap used'
    BY <1>1, <1>4, <1>8, <2>1 DEF Holds
  <2>5. d[3] > generation => ~loaded'[d] /\ DOMAIN entries'[d] = {}
    <3>1. d # c => entries'[d] = entries[d]
      BY <1>8
    <3>2. d = c => ~(d[3] > generation)
      <4>1. c[3] \in 1 .. MaxLoads /\ MaxLoads \in Nat /\ generation \in Nat /\ c[3] <= generation
        BY <1>2, SetFacts, StateFacts DEF CallHas, c
      <4> QED BY <4>1
    <3> QED BY <1>1, <2>1, <3>1, <3>2 DEF Holds
  <2>6. Sliced(d)' = Sliced(d)
    BY <1>1 DEF Sliced
  <2>7. UNCHANGED <<slice, generation>>
    BY <1>1
  <2>8. /\ d[1] = "types" => /\ Ascending(slice[d][2])
                             /\ \A o \in ToSet(slice[d][1]) : KindOf[o] = "enum"
        /\ d[1] = "tables" => slice[d][1] = <<>>
    BY <2>1 DEF Holds
  <2> QED BY ONLY <2>3, <2>4, <2>5, <2>6, <2>7, <2>8 DEF Holds, Placed, Ascending
<1>16. CacheInv'
  <2>1. due' \cap Schemas \subseteq DOMAIN entries'[Root] /\ DOMAIN entries'[Root] \subseteq used'
    BY <1>1, <1>2, <1>3, <1>9, SchemaOfType DEF CacheInv
  <2>2. Cleared' => DOMAIN entries'[Root] \subseteq OwnDdl \ Initial
    BY <1>3, <1>9, <1>11 DEF CacheInv
  <2>3. \A o \in Kept' : SchemaOf[o] \in DOMAIN entries'[Root]
    BY <1>2, <1>3, <1>4, <1>9, <1>12 DEF CacheInv, Current
  <2> QED BY <1>15, <2>1, <2>2, <2>3 DEF CacheInv
<1>17. Steady
  <2>1. ASSUME NEW d \in Sets \ {Root}
        PROVE  /\ DOMAIN entries[d] \subseteq DOMAIN entries'[d]
               /\ Current(d)' => \A o \in Kept' \cap Placed(d) :
                    o \in Kept \/ (o \notin used /\ d[1] # "tables" /\ o \in DOMAIN entries'[d])
    BY <1>1, <1>2, <1>8, <1>10, <1>14
  <2>2. used \subseteq used' /\ generation' = generation /\ loaded' = loaded
    BY <1>1
  <2> QED BY <1>9, <1>10, <1>11, <2>1, <2>2 DEF Steady
<1>18. (\A q \in Sessions : StackInv(q))' /\ ~missed'
  BY <1>1, <1>17, ReturnedSteady
<1> QED BY <1>16, <1>17, <1>18

\* What DuckDB drops is not due any more.
LEMMA FoundOnceDropped ==
  ASSUME LocksInv, LookupInv, NEW p \in Sessions, Drop(p)
  PROVE  CacheInv' /\ Steady /\ (\A q \in Sessions : StackInv(q))' /\ ~missed'
<1> DEFINE f == Top(p)
           c == f.set
           x == f.want
           left == [y \in DOMAIN entries[c] \ {x} |-> entries[c][y]]
<1>1. /\ stack[p] # <<>> /\ f = stack[p][1] /\ f.pc = "ddl" /\ At(p, "ddl") /\ f.verb = "drop"
      /\ CanDrop(x) /\ exists' = exists \ {x} /\ due' = due \ {x}
      /\ entries' = [entries EXCEPT ![c] = left] /\ Return(p, {}, TRUE)
      /\ UNCHANGED <<settingVars, used, generation, loaded, loadLock, loadingThread, slice>>
  BY DEF Drop, At, Top
<1>2. c \in Sets /\ (c = Root => x \in Schemas /\ x \notin Objects) /\ DOMAIN entries = Sets
  <2>1. FrameOK(p, f, loadLock, loadingThread, generation) /\ c \in Sets
    BY <1>1, TopFacts
  <2>2. c = Root => x \in Schemas
    BY <1>1, <2>1 DEF FrameOK
  <2> QED BY <2>1, <2>2, SchemaAssumption DEF LocksInv, DataOK
<1>3. HistoryInv /\ CacheInv /\ due \subseteq exists
  BY DEF LookupInv, HistoryInv
<1>4. entries'[c] = left /\ \A d \in Sets : d # c => entries'[d] = entries[d]
  BY <1>1, <1>2
<1>5. DOMAIN left = DOMAIN entries[c] \ {x} /\ \A y \in DOMAIN left : left[y] = entries[c][y]
  OBVIOUS
<1>6. \A o \in exists \cap Objects : SchemaOf[o] # x
  BY <1>1 DEF CanDrop
<1> HIDE DEF f, c, x, left
<1>7. /\ DOMAIN entries'[Root] \subseteq DOMAIN entries[Root]
      /\ \A s \in DOMAIN entries'[Root] : entries'[Root][s] = entries[Root][s]
      /\ \A s \in DOMAIN entries[Root] : s # x => s \in DOMAIN entries'[Root]
      /\ x \notin Schemas => DOMAIN entries'[Root] = DOMAIN entries[Root]
      /\ c = Root => x \notin DOMAIN entries'[Root]
  <2>1. CASE c = Root
    BY <1>2, <1>4, <1>5, <2>1
  <2>2. CASE c # Root
    <3>1. entries'[Root] = entries[Root]
      BY <1>4, <2>2, SetFacts
    <3> QED BY <2>2, <3>1
  <2> QED BY <2>1, <2>2
<1>8. \A d \in Sets \ {Root} : /\ DOMAIN entries'[d] \subseteq DOMAIN entries[d]
                               /\ \A o \in DOMAIN entries[d] : o # x => o \in DOMAIN entries'[d]
  BY <1>2, <1>4, <1>5
<1>9. Cleared' => Cleared
  BY <1>1, ClearedBefore
<1>10. /\ Kept' \subseteq Kept
       /\ \A o \in Kept' : o \in exists \cap Objects /\ o # x
  <2>1. \A t : Parts(t)' = Parts(t)
    BY <1>1 DEF Parts, TypesCovered
  <2> QED BY <1>1, <1>7, <1>9, <2>1 DEF Kept
<1>11. ASSUME NEW d \in Sets \ {Root}
       PROVE  /\ Current(d)' => Current(d)
              /\ d[2] \in DOMAIN entries'[Root] => (Current(d) => Current(d)')
  BY <1>7 DEF Current
<1>12. ASSUME NEW d \in Sets \ {Root} PROVE Holds(d)'
  <2>1. Holds(d)
    BY <1>3 DEF CacheInv
  <2>2. Current(d)' => \A o \in Kept' \cap Placed(d) :
          o \in DOMAIN entries'[d] \/ (~loaded'[d] /\ o \in Sliced(d))
    BY <1>1, <1>8, <1>10, <1>11, <2>1 DEF Holds
  <2>3. DOMAIN entries'[d] \cup Sliced(d) \subseteq Placed(d) \cap used'
    BY <1>1, <1>8, <2>1 DEF Holds
  <2>4. d[3] > generation => ~loaded'[d] /\ DOMAIN entries'[d] = {}
    BY <1>1, <1>8, <2>1 DEF Holds
  <2>5. Sliced(d)' = Sliced(d)
    BY <1>1 DEF Sliced
  <2>6. UNCHANGED <<slice, generation>>
    BY <1>1
  <2>7. /\ d[1] = "types" => /\ Ascending(slice[d][2])
                             /\ \A o \in ToSet(slice[d][1]) : KindOf[o] = "enum"
        /\ d[1] = "tables" => slice[d][1] = <<>>
    BY <2>1 DEF Holds
  <2> QED BY ONLY <2>2, <2>3, <2>4, <2>5, <2>6, <2>7 DEF Holds, Placed, Ascending
<1>13. CacheInv'
  <2>1. due' \cap Schemas \subseteq DOMAIN entries'[Root] /\ DOMAIN entries'[Root] \subseteq used'
    BY <1>1, <1>3, <1>7 DEF CacheInv
  <2>2. Cleared' => DOMAIN entries'[Root] \subseteq OwnDdl \ Initial
    BY <1>3, <1>7, <1>9 DEF CacheInv
  <2>3. \A o \in Kept' : SchemaOf[o] \in DOMAIN entries'[Root]
    BY <1>3, <1>6, <1>7, <1>10 DEF CacheInv
  <2> QED BY <1>12, <2>1, <2>2, <2>3 DEF CacheInv
<1>14. Steady
  <2>1. \A d \in Sets \ {Root} :
          /\ DOMAIN entries[d] \cap Kept' \subseteq DOMAIN entries'[d]
          /\ Current(d)' => Current(d)
          /\ d[2] \in DOMAIN entries'[Root] => d[2] \in DOMAIN entries[Root] /\ (Current(d) => Current(d)')
    BY <1>7, <1>8, <1>10, <1>11
  <2>2. used \subseteq used' /\ generation' = generation /\ loaded' = loaded
    BY <1>1
  <2> QED BY <1>9, <1>10, <2>1, <2>2 DEF Steady
<1>15. (\A q \in Sessions : StackInv(q))' /\ ~missed'
  BY <1>1, <1>14, ReturnedSteady
<1> QED BY <1>13, <1>14, <1>15

-------------------------------------------------------------------------------
(* What everybody else does.                                               *)

\* An emptied cache has to know nothing.
LEMMA NothingDue ==
  ASSUME LocksInv, LookupInv, ClearCache
  PROVE  CacheInv' /\ Steady /\ (\A q \in Sessions : StackInv(q))' /\ ~missed'
<1>1. /\ entries' = [entries EXCEPT ![Root] = <<>>]
      /\ loaded' = [loaded EXCEPT ![Root] = FALSE]
      /\ UNCHANGED <<settingVars, serverVars, generation, loadLock, loadingThread, slice, stack, missed>>
  BY DEF ClearCache
<1>2. DOMAIN entries = Sets /\ DOMAIN loaded = Sets /\ CacheInv
  BY DEF LocksInv, DataOK, TypeOK, LookupInv
<1>3. /\ entries'[Root] = <<>> /\ ~loaded'[Root]
      /\ \A c \in Sets : c # Root => entries'[c] = entries[c] /\ loaded'[c] = loaded[c]
  BY <1>1, <1>2, SetFacts
<1>4. DOMAIN entries'[Root] = {}
  BY <1>3
<1>5. due' = {}
  BY DEF ClearCache
<1>6. Kept' = {}
  BY <1>4, <1>5 DEF Kept
<1>7. \A c : c # Root => ~Current(c)'
  BY <1>4 DEF Current
<1>8. ASSUME NEW c \in Sets \ {Root} PROVE Holds(c)'
  <2>1. Holds(c)
    BY <1>2 DEF CacheInv
  <2> QED BY <1>1, <1>3, <1>7, <2>1 DEF Holds, Placed, Sliced, Ascending
<1>9. CacheInv'
  BY <1>4, <1>5, <1>6, <1>8 DEF CacheInv
<1>10. ASSUME NEW h, CallInv(h) PROVE CallInv(h)'
  <2>1. h.set # Root => CallHas(h)'
    <3> SUFFICES ASSUME h.set # Root PROVE CallHas(h)'
      OBVIOUS
    <3>1. CallHas(h)
      BY <1>10 DEF CallInv
    <3>2. ~Current(h.set)' /\ h.set[2] \notin DOMAIN entries'[Root]
      BY <1>4, <1>7
    <3> QED BY <1>1, <3>1, <3>2 DEF CallHas, Placed, Ascending
  <2> QED BY <1>3, <1>10, <2>1 DEF CallInv
<1>11. ASSUME NEW q \in Sessions PROVE StackInv(q)'
  <2>1. StackInv(q)
    BY DEF LookupInv
  <2>2. stack' = stack /\ loadingThread' = loadingThread
    BY <1>1
  <2>3. \A h \in ToSet(stack[q]) : CallInv(h)'
    BY <1>10, <2>1 DEF StackInv
  <2>4. At(q, "find")' /\ Top(q)'.set # Root => SkipsLoad(Top(q).set, q)'
    <3> SUFFICES ASSUME stack[q] # <<>>, stack[q][1].pc = "find", stack[q][1].set # Root
                 PROVE  LET c == stack[q][1].set
                        IN loaded'[c] \/ (c[1] = "types" /\ loadingThread'[c] = q)
      BY <2>2 DEF At, Top, SkipsLoad
    <3> DEFINE c == stack[q][1].set
    <3>1. c \in Sets \ {Root}
      BY TopFacts
    <3>2. loaded[c] \/ (c[1] = "types" /\ loadingThread[c] = q)
      BY <2>1 DEF StackInv, At, Top, SkipsLoad
    <3> HIDE DEF c
    <3> QED BY <1>3, <2>2, <3>1, <3>2 DEF c
  <2> QED BY <2>1, <2>2, <2>3, <2>4 DEF StackInv, Linked
<1>12. Steady
  BY <1>1, <1>3, <1>4, <1>6, <1>7 DEF Steady
<1> QED BY <1>1, <1>9, <1>11, <1>12 DEF LookupInv

\* What others create is not due, and is in no schema whose entry outlives the next load.
LEMMA OthersLeaveKept ==
  ASSUME OthersKeepOut, LocksInv, LookupInv, OtherClient
  PROVE  /\ Kept' \subseteq Kept /\ due' \subseteq due /\ used \subseteq used' /\ (Cleared' <=> Cleared)
         /\ UNCHANGED <<settingVars, setVars, stack, missed>>
<1>1. UNCHANGED <<settingVars, setVars, stack, missed>>
  BY DEF OtherClient
<1>2. PICK x \in OtherClients :
        \/ CanCreate(x) /\ exists' = exists \cup {x} /\ used' = used \cup {x} /\ UNCHANGED due
        \/ CanDrop(x) /\ exists' = exists \ {x} /\ due' = due \ {x} /\ UNCHANGED used
  BY DEF OtherClient
<1>3. Cleared' <=> Cleared
  BY <1>1 DEF Cleared, AboutToEnd, At, Top
<1>4. \A t : Parts(t)' = Parts(t)
  BY <1>1 DEF Parts, TypesCovered
<1>5. /\ HistoryInv /\ CacheInv /\ exists \subseteq used /\ due \subseteq exists /\ Closed(exists)
  BY DEF LookupInv, LocksInv, DataOK, TypeOK, HistoryInv
<1>6. CASE CanDrop(x) /\ exists' = exists \ {x} /\ due' = due \ {x} /\ UNCHANGED used
  <2>1. Kept' \subseteq Kept
    BY <1>1, <1>3, <1>4, <1>6 DEF Kept
  <2> QED BY <1>1, <1>3, <1>6, <2>1
<1>7. CASE CanCreate(x) /\ exists' = exists \cup {x} /\ used' = used \cup {x} /\ UNCHANGED due
  <2>1. x \notin used
    BY <1>7, NewOid
  <2>2. x \notin Kept'
    <3> SUFFICES ASSUME x \in Kept' PROVE FALSE
      OBVIOUS
    <3>1. x \in Objects /\ (x \in due \/ (\E t \in due \cap Objects : x \in Parts(t))
                            \/ (Cleared /\ SchemaOf[x] \in DOMAIN entries[Root]))
      BY <1>1, <1>3, <1>4, <1>7 DEF Kept
    <3>2. ASSUME NEW t \in due \cap Objects PROVE x \notin Parts(t)
      <4>1. Definition[t] \subseteq exists
        BY <1>5, DefinitionWithin
      <4> QED BY <1>5, <2>1, <4>1 DEF Parts
    <3>3. Cleared /\ SchemaOf[x] \in OwnDdl \ Initial
      BY <1>5, <2>1, <3>1, <3>2 DEF CacheInv
    <3> QED BY <3>1, <3>3 DEF OthersKeepOut
  <2>3. Kept' \subseteq Kept
    BY <1>1, <1>3, <1>4, <1>7, <2>2 DEF Kept
  <2> QED BY <1>1, <1>3, <1>7, <2>3
<1> QED BY <1>2, <1>6, <1>7

LEMMA FoundDespiteOthers ==
  ASSUME OthersKeepOut, LocksInv, LookupInv, OtherClient
  PROVE  CacheInv' /\ Steady /\ (\A q \in Sessions : StackInv(q))' /\ ~missed'
<1>1. /\ Kept' \subseteq Kept /\ due' \subseteq due /\ used \subseteq used' /\ (Cleared' <=> Cleared)
      /\ UNCHANGED <<settingVars, setVars, stack, missed>>
  BY OthersLeaveKept
<1>2. \A c : Current(c)' <=> Current(c)
  BY <1>1 DEF Current
<1>3. CacheInv
  BY DEF LookupInv
<1>4. ASSUME NEW c \in Sets \ {Root} PROVE Holds(c)'
  <2>1. Holds(c)
    BY <1>3 DEF CacheInv
  <2> QED BY <1>1, <1>2, <2>1 DEF Holds, Placed, Sliced, Ascending
<1>5. CacheInv'
  BY <1>1, <1>3, <1>4 DEF CacheInv
<1>6. Steady
  BY <1>1, <1>2 DEF Steady
<1>7. ASSUME NEW p \in Sessions PROVE (\A q \in Sessions : StackInv(q))'
  <2> DEFINE s == stack[p]
  <2>1. s \in Seq(Frame) /\ stack' = [stack EXCEPT ![p] = s] /\ StackInv(p)
    BY <1>1, StateFacts DEF LookupInv
  <2>2. \A q \in Sessions : StackInv(q)
    BY DEF LookupInv
  <2>3. s # <<>> /\ s[1].pc = "find" /\ s[1].set # Root =>
          loaded'[s[1].set] \/ (s[1].set[1] = "types" /\ loadingThread'[s[1].set] = p)
    BY <1>1, <2>1 DEF StackInv, At, Top, SkipsLoad
  <2>4. Linked(s)
    BY <2>1 DEF StackInv
  <2>5. loaded' = loaded /\ loadingThread' = loadingThread
    BY <1>1
  <2>6. \A h \in ToSet(s) : h \in ToSet(stack[p]) /\ (h.set # Root \/ (loaded'[Root] => loaded[Root]))
    BY <2>5
  <2> HIDE DEF s
  <2> QED BY ONLY LocksInv, p \in Sessions, <1>6, <2>1, <2>2, <2>3, <2>4, <2>5, <2>6, StacksNext
<1>8. (\A q \in Sessions : StackInv(q))'
  BY <1>7
<1> QED BY <1>1, <1>5, <1>6, <1>8 DEF LookupInv

-------------------------------------------------------------------------------
(* Lookups.                                                                *)

LEMMA LookupNext ==
  ASSUME TypesInOrder, OthersKeepOut, NamedWhereCreated, LocksInv, OrderInv, SliceInv, LookupInv,
         [Next]_vars
  PROVE  LookupInv' /\ Steady
<1>1. HistoryInv' /\ ReadInv'
  BY HistoryNext, ReadNext DEF LookupInv
<1> DEFINE Goal == CacheInv' /\ Steady /\ (\A q \in Sessions : StackInv(q))' /\ ~missed'
<1>2. ASSUME NEW p \in Sessions, Session(p) PROVE Goal
  <2>1. CASE Lookup(p) \/ StartDdl(p)
    BY <2>1, FoundAfterStart
  <2>2. CASE FindSchema(p)
    BY <2>2, FoundInSchemas
  <2>3. CASE FindEntry(p)
    BY <2>3, FoundInSet
  <2>4. CASE LockToLoad(p)
    BY <2>4, FoundWhenLocked
  <2>5. CASE QuerySchemas(p) \/ LockToReload(p)
    BY <2>5, FoundBeforeReload
  <2>6. CASE LoadSchemas(p)
    BY <2>6, FoundInAnswers
  <2>7. CASE ResolveType(p)
    BY <2>7, FoundNextType
  <2>8. CASE CreateCompositeType(p)
    BY <2>8, FoundAsBuilt
  <2>9. CASE BuildTable(p)
    BY <2>9, FoundWhileBuilding
  <2>10. CASE FinishLoad(p)
    BY <2>10, FoundWhenLoaded
  <2>11. CASE QueryTable(p)
    BY <2>11, FoundOnServer
  <2>12. CASE FinishReload(p)
    BY <2>12, FoundWhenReloaded
  <2>13. CASE CreateSchema(p)
    BY <2>13, FoundInNewSchema
  <2>14. CASE CreateType(p) \/ CreateIndex(p)
    BY <2>14, FoundOnceCreated
  <2>15. CASE Drop(p)
    BY <2>15, FoundOnceDropped
  <2>16. CASE QueryFails(p) \/ DdlFails(p)
    BY <2>16, FoundAfterThrow
  <2>17. CASE EndTransaction(p)
    BY <2>17, FoundMeanwhile
  <2> HIDE DEF Goal
  <2> QED BY <1>2, <2>1, <2>2, <2>3, <2>4, <2>5, <2>6, <2>7, <2>8, <2>9, <2>10, <2>11, <2>12, <2>13,
             <2>14, <2>15, <2>16, <2>17 DEF Session, Load, Reload, Ddl
<1>3. Goal
  <2>1. CASE ClearCache
    BY <2>1, NothingDue
  <2>2. CASE OtherClient
    BY <2>2, FoundDespiteOthers
  <2>3. CASE UNCHANGED vars
    BY <2>3, FoundMeanwhile
  <2> HIDE DEF Goal
  <2> QED BY <1>2, <2>1, <2>2, <2>3 DEF Next
<1> QED BY <1>1, <1>3 DEF LookupInv

\* Without pg_clear_cache a lookup finds what existed when the schemas were loaded, or what a
\* session has created since, while other threads load the same sets, fail, create and drop
\* (TryLoadEntries, GetEntry), with any number of sessions, schemas and objects.  The thread
\* that loads a set of types looks into what it has loaded so far; what it looks for there is
\* older than the type that it builds, as CreateEntries goes by the oid.  pg_clear_cache may
\* come at any time; from then on nothing is due until the next load.
THEOREM LookupsFindUnlessCleared ==
  ASSUME TypesInOrder, NewSchemasLast, OthersKeepOut, NamedWhereCreated
  PROVE  Spec => []LookupFindsUnlessCleared
<1> DEFINE Inv == LocksInv /\ OrderInv /\ SliceInv /\ LookupInv
<1>1. Init => Inv
  <2>1. Init => OrderInv
    BY DEF Init, OrderInv, StackOrder
  <2> QED BY <2>1, LocksInit, SliceInit, LookupInit
<1>2. Inv /\ [Next]_vars => Inv'
  BY LocksNext, OrderNext, SliceNext, LookupNext
<1>3. Inv => LookupFindsUnlessCleared
  BY DEF LookupInv, LookupFindsUnlessCleared
<1> QED BY <1>1, <1>2, <1>3, PTL DEF Spec

-------------------------------------------------------------------------------
(* Types are made of what they are defined as.                             *)

\* The entry of o; with information_schema the types it refers to are VARCHAR.
Value(o) == Definition[o] \cap (IF byName THEN {o} ELSE Objects)

\* What a call has built, and what it has collected of the types of the next object.
TypeBuilt(f) ==
  /\ f.got # {} => f.pc \in {"load", "rebuild"} /\ f.todo # <<>>
  /\ Current(f.set) =>
       /\ \A o \in Kept \cap DOMAIN f.built : f.built[o] = Value(o)
       /\ f.todo # <<>> /\ f.todo[1] \in Kept =>
            f.got \cup Made(f.refs) = IF byName THEN {} ELSE Made(Refs[f.todo[1]])

\* Where g builds what is to stay in a set in use, f looks up the next type in one in use.
Upholds(f, g) ==
  /\ f.verb = "find"
  /\ Current(g.set) /\ g.todo[1] \in Kept => Current(f.set)

CallsRight(s) ==
  /\ \A f \in ToSet(s) : TypeBuilt(f)
  /\ \A i \in DOMAIN s : i + 1 \in DOMAIN s => Upholds(s[i], s[i + 1])

\* What is to stay refers to what is to stay.
KeptClosed == ~byName => \A o \in Kept : ToSet(Refs[o]) \subseteq Kept

EntriesRight ==
  \A c \in Sets \ {Root} : Current(c) =>
    \A o \in Kept \cap DOMAIN entries[c] : entries[c][o] = Value(o)

ValueInv == KeptClosed /\ EntriesRight /\ \A p \in Sessions : CallsRight(stack[p])

LEMMA ValueInit == Init => ValueInv
<1> SUFFICES ASSUME Init PROVE ValueInv
  OBVIOUS
<1>1. LookupInv
  BY LookupInit
<1>2. \A p \in Sessions : stack[p] = <<>>
  BY DEF Init
<1>3. due = {} /\ DOMAIN entries[Root] = {}
  BY SetFacts DEF Init
<1>4. Kept = {}
  BY <1>3 DEF Kept
<1>5. \A p \in Sessions : CallsRight(stack[p])
  <2>1. ToSet(<<>>) = {} /\ DOMAIN <<>> = {}
    BY DEF ToSet
  <2> QED BY <1>2, <2>1 DEF CallsRight
<1> QED BY <1>4, <1>5 DEF ValueInv, KeptClosed, EntriesRight

LEMMA KeptClosedNext ==
  ASSUME OthersKeepOut, TypesCovered, LocksInv', LookupInv'
  PROVE  KeptClosed'
<1> SUFFICES ASSUME ~byName', NEW o \in Kept', NEW r \in ToSet(Refs[o]) PROVE r \in Kept'
  BY DEF KeptClosed
<1>1. /\ exists' \subseteq used' /\ used' \subseteq Known /\ Closed(exists)' /\ CacheInv'
  BY DEF LocksInv, DataOK, TypeOK, LookupInv, HistoryInv
<1>2. /\ o \in exists' \cap Objects
      /\ \/ o \in due'
         \/ \E t \in due' \cap Objects : o \in Parts(t)'
         \/ Cleared' /\ SchemaOf[o] \in DOMAIN entries'[Root]
  BY DEF Kept
<1>3. r \in exists' \cap Objects
  BY <1>1, <1>2, RefsAreOlder DEF Closed
<1>4. \A t \in Objects : Parts(t)' = Definition[t]
  BY DEF Parts, TypesCovered
<1>5. CASE o \in due'
  <2>1. r \in Parts(o)'
    BY <1>2, <1>4, DefinitionFacts
  <2> QED BY <1>2, <1>3, <1>5, <2>1 DEF Kept
<1>6. ASSUME NEW t \in due' \cap Objects, o \in Parts(t)' PROVE r \in Kept'
  <2>1. r \in Parts(t)'
    BY <1>2, <1>4, <1>6, DefinitionFacts
  <2> QED BY <1>3, <1>6, <2>1 DEF Kept
<1>7. CASE Cleared' /\ SchemaOf[o] \in DOMAIN entries'[Root]
  <2>1. SchemaOf[o] \in OwnDdl \ Initial /\ o \in Known
    BY <1>1, <1>2, <1>7 DEF CacheInv
  <2>2. o \notin OtherClients /\ o \notin Initial
    BY <1>2, <2>1, SchemaAssumption DEF OthersKeepOut
  <2>3. KindOf[o] \in {"enum", "index"}
    BY <1>2, <2>1, <2>2, SchemaAssumption DEF Known
  <2>4. Refs[o] = <<>>
    BY <1>2, <2>3, SchemaAssumption
  <2>5. ToSet(Refs[o]) = {}
    BY <2>4 DEF ToSet
  <2> QED BY <2>5
<1> QED BY <1>2, <1>5, <1>6, <1>7

\* What an object is that is not made of several types.
LEMMA Simple ==
  \A o \in Objects :
    /\ Value(o) = IF byName THEN (IF SetKind(o) = "types" THEN {o} ELSE {}) ELSE Definition[o]
    /\ KindOf[o] = "enum" => Value(o) = {o}
    /\ KindOf[o] = "index" => Value(o) = {}
<1> TAKE o \in Objects
<1>1. Definition[o] = (IF SetKind(o) = "types" THEN {o} ELSE {}) \cup Made(Refs[o])
  BY DefinitionOf
<1>2. \A r \in ToSet(Refs[o]) : r \in Objects /\ o \notin Definition[r]
  <2> SUFFICES ASSUME NEW r \in ToSet(Refs[o]), o \in Definition[r] PROVE FALSE
    BY RefsAreOlder
  <2> DEFINE V == {x \in Objects : x <= r}
  <2>1. o \in Nat /\ r \in Nat /\ r \in Objects /\ r < o
    BY RefsAreOlder
  <2>2. Closed(V)
    <3> SUFFICES ASSUME NEW x \in Objects, x <= r, NEW y \in ToSet(Refs[x]) PROVE y \in V
      BY DEF Closed
    <3>1. x \in Nat /\ y \in Nat /\ y \in Objects /\ y < x
      BY RefsAreOlder
    <3> QED BY <2>1, <3>1
  <2>3. Definition[r] \subseteq V
    BY <2>1, <2>2, DefinitionWithin
  <2> QED BY <2>1, <2>3
<1>3. o \notin Made(Refs[o])
  BY <1>2 DEF Made
<1>4. Definition[o] \subseteq Objects
  BY DefinitionFacts
<1>5. Value(o) = IF byName THEN (IF SetKind(o) = "types" THEN {o} ELSE {}) ELSE Definition[o]
  <2>1. CASE byName
    BY <1>1, <1>3, <2>1 DEF Value
  <2>2. CASE ~byName
    BY <1>4, <2>2 DEF Value
  <2> QED BY <2>1, <2>2
<1>6. KindOf[o] \in {"enum", "index"} => Definition[o] = (IF SetKind(o) = "types" THEN {o} ELSE {})
  <2> SUFFICES ASSUME KindOf[o] \in {"enum", "index"}
               PROVE  Definition[o] = (IF SetKind(o) = "types" THEN {o} ELSE {})
    OBVIOUS
  <2>1. KindOf[o] = "enum" => SetKind(o) = "types"
    BY DEF SetKind
  <2>2. KindOf[o] = "index" => SetKind(o) = "indexes"
    BY DEF SetKind
  <2> QED BY <2>1, <2>2, DefinitionFacts
<1>7. KindOf[o] = "enum" => SetKind(o) = "types"
  BY DEF SetKind
<1>8. KindOf[o] = "index" => SetKind(o) = "indexes"
  BY DEF SetKind
<1> QED BY <1>5, <1>6, <1>7, <1>8

\* The set and the objects of a call are known already.
Sited(f) ==
  f.set # Root =>
    /\ f.set[2] \in used /\ f.set[3] <= generation
    /\ ToSet(f.todo) \cup DOMAIN f.built \subseteq used

\* A steady step leaves what a call has built,
LEMMA BuiltStays ==
  ASSUME LocksInv, Steady, byName' = byName, NEW f \in Frame, TypeBuilt(f), Sited(f),
         f.set = Root => f.todo = <<>> /\ f.built = <<>>,
         f.set # Root => ToSet(f.todo) \cup DOMAIN f.built \subseteq Placed(f.set)
  PROVE  TypeBuilt(f)'
<1>1. ASSUME Current(f.set)', NEW o \in Kept', o \in ToSet(f.todo) \cup DOMAIN f.built
      PROVE  o \in Kept /\ Current(f.set)
  <2>1. f.set # Root
    <3>1. ToSet(<<>>) = {} /\ DOMAIN <<>> = {}
      BY DEF ToSet
    <3> QED BY <1>1, <3>1
  <2>2. f.set \in Sets \ {Root}
    BY <2>1, FrameFacts
  <2> QED BY <1>1, <2>1, <2>2 DEF Steady, Sited
<1>2. ASSUME Current(f.set)', NEW o \in Kept', o \in DOMAIN f.built PROVE f.built[o] = Value(o)'
  BY <1>1, <1>2 DEF TypeBuilt, Value
<1>3. ASSUME Current(f.set)', f.todo # <<>>, f.todo[1] \in Kept'
      PROVE  f.got \cup Made(f.refs) = IF byName' THEN {} ELSE Made(Refs[f.todo[1]])
  <2>1. f.todo[1] \in ToSet(f.todo)
    BY <1>3, FrameFacts, AfterFirst
  <2> QED BY <1>1, <1>3, <2>1 DEF TypeBuilt
<1> QED BY <1>2, <1>3 DEF TypeBuilt

\* and the call above it where it is to look.
LEMMA UpholdsStays ==
  ASSUME LocksInv, LookupInv', KeptClosed', Steady, byName' = byName,
         NEW f \in Frame, NEW g \in Frame, Upholds(f, g), TypeBuilt(g), Sited(f), Sited(g),
         f.set # Root => f.want \in Placed(f.set),
         g.set # Root, ToSet(g.todo) \subseteq Placed(g.set),
         g.refs # <<>>, g.todo # <<>>, ToSet(g.refs) \subseteq ToSet(Refs[g.todo[1]]),
         f.want = g.refs[1]
  PROVE  Upholds(f, g)'
<1> SUFFICES ASSUME Current(g.set)', g.todo[1] \in Kept', f.set # Root PROVE Current(f.set)'
  BY DEF Upholds, Current
<1>1. g.todo \in Seq(Objects) /\ g.todo[1] \in ToSet(g.todo) /\ g.set \in Sets \ {Root} /\ f.set \in Sets \ {Root}
      /\ g.refs \in Seq(Types)
  BY FrameFacts, AfterFirst
<1>2. g.todo[1] \in Kept /\ Current(g.set)
  BY <1>1 DEF Steady, Sited
<1>3. Current(f.set)
  BY <1>2 DEF Upholds
<1>4. f.want \in ToSet(g.refs) /\ f.want \in Types
  BY <1>1 DEF ToSet
<1>5. ~byName
  <2> SUFFICES ASSUME byName PROVE FALSE
    OBVIOUS
  <2>1. Made(g.refs) = {}
    BY <1>2 DEF TypeBuilt
  <2>2. f.want \in Definition[f.want]
    <3>1. f.want \in Objects /\ SetKind(f.want) = "types"
      BY <1>4 DEF Types, SetKind
    <3> QED BY <3>1, DefinitionOf
  <2> QED BY <1>4, <2>1, <2>2 DEF Made
<1>6. f.want \in Kept'
  BY <1>4, <1>5 DEF KeptClosed
<1>7. SchemaOf[f.want] \in DOMAIN entries'[Root] /\ SchemaOf[f.want] = f.set[2]
  BY <1>6 DEF LookupInv, CacheInv, Placed
<1> QED BY <1>1, <1>3, <1>7 DEF Steady, Sited

LEMMA CallsStayRight ==
  ASSUME LocksInv, LocksInv', LookupInv', KeptClosed', Steady, byName' = byName,
         NEW q \in Sessions, NEW s, stack'[q] = s, CallsRight(s), \A f \in ToSet(s) : Sited(f)
  PROVE  CallsRight(s)'
<1>1. /\ s \in Seq(Frame) /\ Linked(s)
      /\ \A i \in DOMAIN s : \A lock, thread, gen :
           lock = loadLock' /\ thread = loadingThread' /\ gen = generation' =>
             FrameOK(q, s[i], lock, thread, gen)
      /\ \A i \in DOMAIN s : i # 1 => Suspended(s[i])
  <2>1. stack'[q] \in Seq(Frame)
    BY DEF LocksInv, DataOK
  <2>2. CallsOK(q, stack[q], loadLock, loadingThread, generation)'
    BY DEF LocksInv
  <2>3. Linked(stack[q])'
    BY DEF LookupInv, StackInv
  <2> QED BY <2>1, <2>2, <2>3 DEF CallsOK, Linked
<1>2. ASSUME NEW i \in DOMAIN s
      PROVE  LET f == s[i]
             IN /\ f \in Frame /\ f \in ToSet(s) /\ Sited(f) /\ TypeBuilt(f)
                /\ f.set = Root => f.todo = <<>> /\ f.built = <<>> /\ f.refs = <<>>
                /\ f.refs # <<>> => f.todo # <<>> /\ ToSet(f.refs) \subseteq ToSet(Refs[f.todo[1]])
                /\ f.set # Root => /\ f.want \in Placed(f.set)
                                   /\ ToSet(f.todo) \cup DOMAIN f.built \subseteq Placed(f.set)
  <2>1. s[i] \in Frame /\ s[i] \in ToSet(s)
    BY <1>1, FrameFacts DEF ToSet
  <2>2. \A f : f = s[i] => CallInv(f)'
    BY <2>1 DEF LookupInv, StackInv
  <2>3. \A f : f = s[i] =>
          /\ f.refs # <<>> => f.todo # <<>> /\ ToSet(f.refs) \subseteq ToSet(Refs[f.todo[1]])
          /\ f.set # Root => /\ f.want \in Placed(f.set)
                             /\ ToSet(f.todo) \cup DOMAIN f.built \subseteq Placed(f.set)
    BY <2>2 DEF CallInv, CallHas, Placed
  <2>4. s[i].set = Root => s[i].todo = <<>> /\ s[i].built = <<>> /\ s[i].refs = <<>>
    BY <1>1 DEF FrameOK
  <2> QED BY <2>1, <2>3, <2>4 DEF CallsRight
<1>3. \A f \in ToSet(s) : TypeBuilt(f)'
  <2> SUFFICES ASSUME NEW f \in ToSet(s) PROVE TypeBuilt(f)'
    OBVIOUS
  <2>1. PICK i \in DOMAIN s : f = s[i]
    BY DEF ToSet
  <2> QED BY <1>2, <2>1, BuiltStays
<1>4. ASSUME NEW i \in DOMAIN s, i + 1 \in DOMAIN s PROVE \A f, g : f = s[i] /\ g = s[i + 1] => Upholds(f, g)'
  <2> SUFFICES ASSUME NEW f, NEW g, f = s[i], g = s[i + 1] PROVE Upholds(f, g)'
    OBVIOUS
  <2>1. Upholds(f, g) /\ f.want = g.refs[1]
    BY <1>1, <1>4 DEF CallsRight, Linked
  <2>2. g.refs # <<>>
    <3>1. i + 1 # 1
      <4>1. DOMAIN s \subseteq Nat \ {0}
        BY <1>1
      <4> QED BY <4>1
    <3> QED BY <1>1, <1>4, <3>1 DEF Suspended
  <2> QED BY <1>2, <1>4, <2>1, <2>2, UpholdsStays
<1> QED BY <1>3, <1>4 DEF CallsRight

\* What a step has to be right about: the entries that it adds, and the calls it changes.
CallsFit(s) == CallsRight(s) /\ \A f \in ToSet(s) : Sited(f)

LEMMA ValuesStay ==
  ASSUME OthersKeepOut, TypesCovered, LocksInv, LookupInv, ValueInv, LocksInv', LookupInv', Steady,
         byName' = byName,
         \A c \in Sets \ {Root} : \A o \in DOMAIN entries'[c] :
           \/ o \in DOMAIN entries[c] /\ entries'[c][o] = entries[c][o]
           \/ Current(c)' /\ o \in Kept' => entries'[c][o] = Value(o),
         \A q \in Sessions : stack'[q] = stack[q] \/ CallsFit(stack'[q])
  PROVE  ValueInv'
<1>1. KeptClosed'
  BY KeptClosedNext
<1>2. EntriesRight'
  <2> SUFFICES ASSUME NEW c \in Sets \ {Root}, Current(c)', NEW o \in Kept', o \in DOMAIN entries'[c],
                      o \in DOMAIN entries[c], entries'[c][o] = entries[c][o]
               PROVE  entries'[c][o] = Value(o)
    BY DEF EntriesRight, Value
  <2>1. Holds(c) /\ Whole(used)
    BY DEF LookupInv, CacheInv, HistoryInv
  <2>2. o \in Placed(c) \cap used
    BY <2>1 DEF Holds
  <2>3. c[2] \in used
    BY <2>1, <2>2 DEF Whole, Placed
  <2>4. c[3] <= generation
    <3>1. ~(c[3] > generation)
      BY <2>1 DEF Holds
    <3>2. c[3] \in 1 .. MaxLoads /\ MaxLoads \in Nat /\ generation \in Nat
      BY SetFacts, StateFacts
    <3> QED BY <3>1, <3>2
  <2>5. Current(c) /\ o \in Kept
    BY <2>2, <2>3, <2>4 DEF Steady
  <2> QED BY <2>5 DEF ValueInv, EntriesRight
<1>3. ASSUME NEW q \in Sessions PROVE CallsRight(stack[q])'
  <2>1. CASE stack'[q] = stack[q]
    <3>1. ASSUME NEW f \in ToSet(stack[q]) PROVE Sited(f)
      <4>1. CallInv(f)
        BY DEF LookupInv, StackInv
      <4> QED BY <4>1 DEF CallInv, CallHas, Sited
    <3>2. \A s : s = stack[q] => CallsRight(s)'
      BY <1>1, <2>1, <3>1, CallsStayRight DEF ValueInv
    <3> QED BY <2>1, <3>2 DEF CallsRight
  <2>2. CASE CallsFit(stack'[q])
    <3>1. \A s : s = stack'[q] => CallsRight(s)'
      BY <1>1, <2>2, CallsStayRight DEF CallsFit
    <3> QED BY <3>1 DEF CallsRight
  <2> QED BY <2>1, <2>2
<1> QED BY <1>1, <1>2, <1>3 DEF ValueInv

LEMMA CallsAreFit ==
  ASSUME LookupInv, ValueInv, NEW p \in Sessions
  PROVE  CallsFit(stack[p])
<1>1. ASSUME NEW f \in ToSet(stack[p]) PROVE Sited(f)
  <2>1. CallInv(f)
    BY DEF LookupInv, StackInv
  <2> QED BY <2>1 DEF CallInv, CallHas, Sited
<1> QED BY <1>1 DEF CallsFit, ValueInv

\* The innermost call is replaced by one that goes on with the same, or is on a set in use,
LEMMA FitReplaced ==
  ASSUME LocksInv, LookupInv, ValueInv, NEW p \in Sessions, stack[p] # <<>>, NEW g \in Frame,
         TypeBuilt(g), Sited(g), g.verb = Top(p).verb, g.set = Top(p).set \/ Current(g.set),
         stack' = [stack EXCEPT ![p][1] = g]
  PROVE  \A q \in Sessions : stack'[q] = stack[q] \/ CallsFit(stack'[q])
<1> DEFINE s == [stack[p] EXCEPT ![1] = g]
<1>1. /\ stack[p] \in Seq(Frame) /\ CallsFit(stack[p])
      /\ stack'[p] = s /\ \A q \in Sessions : q # p => stack'[q] = stack[q]
  BY StateFacts, CallsAreFit
<1>2. /\ s[1] = g /\ DOMAIN s = DOMAIN stack[p] /\ 1 \in DOMAIN s /\ DOMAIN s \subseteq Nat \ {0}
      /\ \A i \in DOMAIN s : i # 1 => s[i] = stack[p][i]
  BY <1>1
<1> HIDE DEF s
<1>3. \A f \in ToSet(s) : f = g \/ f \in ToSet(stack[p])
  BY <1>2 DEF ToSet
<1>4. ASSUME NEW i \in DOMAIN s, i + 1 \in DOMAIN s PROVE Upholds(s[i], s[i + 1])
  <2>1. i + 1 # 1 /\ Upholds(stack[p][i], stack[p][i + 1])
    BY <1>1, <1>2, <1>4 DEF CallsFit, CallsRight
  <2>2. CASE i = 1
    BY <1>2, <1>4, <2>1, <2>2 DEF Upholds, Top
  <2>3. CASE i # 1
    BY <1>2, <1>4, <2>1, <2>3
  <2> QED BY <2>2, <2>3
<1>5. CallsFit(s)
  BY <1>1, <1>3, <1>4 DEF CallsFit, CallsRight
<1> QED BY <1>1, <1>5

\* another one starts, to look up the next type of the innermost,
LEMMA FitPushed ==
  ASSUME LocksInv, LookupInv, ValueInv, NEW p \in Sessions, NEW g \in Frame,
         TypeBuilt(g), Sited(g), stack[p] # <<>> => Upholds(g, Top(p)),
         stack' = [stack EXCEPT ![p] = <<g>> \o stack[p]]
  PROVE  \A q \in Sessions : stack'[q] = stack[q] \/ CallsFit(stack'[q])
<1> DEFINE s == <<g>> \o stack[p]
           old == stack[p]
<1>1. /\ old \in Seq(Frame) /\ CallsFit(old) /\ (old # <<>> => Upholds(g, old[1]))
      /\ stack'[p] = s /\ \A q \in Sessions : q # p => stack'[q] = stack[q]
  BY StateFacts, CallsAreFit DEF Top
<1> HIDE DEF old
<1>2. /\ <<g>> \o old \in Seq(Frame) /\ (<<g>> \o old)[1] = g
      /\ DOMAIN (<<g>> \o old) = 1 .. Len(old) + 1
      /\ DOMAIN old = 1 .. Len(old) /\ Len(old) \in Nat
      /\ \A i \in 1 .. Len(old) : (<<g>> \o old)[i + 1] = old[i]
  BY <1>1
<1>3. /\ s[1] = g /\ DOMAIN s = 1 .. Len(old) + 1
      /\ \A i \in 1 .. Len(old) : s[i + 1] = old[i]
  BY <1>2 DEF old
<1> HIDE DEF s
<1>4. \A j \in DOMAIN s : j # 1 => j - 1 \in DOMAIN old /\ s[j] = old[j - 1]
  <2> SUFFICES ASSUME NEW j \in DOMAIN s, j # 1 PROVE j - 1 \in DOMAIN old /\ s[j] = old[j - 1]
    OBVIOUS
  <2>1. j - 1 \in 1 .. Len(old) /\ (j - 1) + 1 = j
    BY <1>2, <1>3
  <2> QED BY <1>2, <1>3, <2>1
<1>5. \A f \in ToSet(s) : f = g \/ f \in ToSet(old)
  BY <1>3, <1>4 DEF ToSet
<1>6. ASSUME NEW i \in DOMAIN s, i + 1 \in DOMAIN s PROVE Upholds(s[i], s[i + 1])
  <2>1. i \in DOMAIN old /\ s[i + 1] = old[i] /\ i \in Nat
    BY <1>2, <1>3, <1>6
  <2>2. CASE i = 1
    <3>1. old # <<>>
      BY <2>1
    <3> QED BY <1>1, <1>3, <2>1, <2>2, <3>1
  <2>3. CASE i # 1
    <3>1. i - 1 \in DOMAIN old /\ s[i] = old[i - 1] /\ (i - 1) + 1 = i
      BY <1>4, <1>6, <2>1, <2>3
    <3> QED BY <1>1, <2>1, <3>1 DEF CallsFit, CallsRight
  <2> QED BY <2>2, <2>3
<1>7. CallsFit(s)
  BY <1>1, <1>5, <1>6 DEF CallsFit, CallsRight
<1> QED BY <1>1, <1>7

\* and the innermost returns: what it has found is what the type is made of.
LEMMA FitReturned ==
  ASSUME LocksInv, LookupInv, ValueInv, NEW p \in Sessions, stack[p] # <<>>,
         NEW got \in SUBSET Objects, NEW found, Return(p, got, found),
         Top(p).verb = "find" /\ Top(p).want \in Kept /\ Current(Top(p).set) /\ ~byName =>
           got = Definition[Top(p).want]
  PROVE  \A q \in Sessions : stack'[q] = stack[q] \/ CallsFit(stack'[q])
<1> DEFINE s == Returned(stack[p], got)
           old == stack[p]
<1>1. /\ old \in Seq(Frame) /\ CallsFit(old) /\ Linked(old)
      /\ \A i \in DOMAIN old : i # 1 => Suspended(old[i])
      /\ \A f \in ToSet(old) : CallInv(f)
      /\ stack'[p] = s /\ \A q \in Sessions : q # p => stack'[q] = stack[q]
  <2>1. stack' = [stack EXCEPT ![p] = s]
    BY ReturnStack
  <2> QED BY <2>1, StateFacts, CallFacts, CallsAreFit DEF LookupInv, StackInv
<1>2. /\ s \in Seq(Frame) /\ DOMAIN old = 1 .. Len(old) /\ Len(old) \in Nat
      /\ DOMAIN s = 1 .. Len(old) - 1
      /\ \A i \in DOMAIN old : i # 1 =>
           /\ i - 1 \in DOMAIN s
           /\ s[i - 1] = IF i = 2 THEN [old[2] EXCEPT !.refs = Tail(@), !.got = @ \cup got] ELSE old[i]
      /\ \A i \in DOMAIN s : i + 1 \in DOMAIN old
  BY <1>1, ReturnedFrames
<1>3. old # <<>> /\ old[1] = Top(p)
  BY DEF Top
<1> HIDE DEF s, old
<1>4. ASSUME NEW h, 2 \in DOMAIN old, h = [old[2] EXCEPT !.refs = Tail(@), !.got = @ \cup got]
      PROVE  TypeBuilt(h)
  <2> DEFINE k == old[2]
             f == old[1]
  <2>1. /\ k \in Frame /\ k \in ToSet(old) /\ 1 \in DOMAIN old /\ 1 + 1 = 2
        /\ k.refs \in Seq(Types) /\ k.refs # <<>> /\ k.pc \in {"load", "rebuild"}
    BY <1>1, <1>2, <1>4, FrameFacts DEF Suspended, ToSet
  <2>2. /\ TypeBuilt(k) /\ CallInv(k) /\ Upholds(f, k) /\ f.want = k.refs[1]
    BY <1>1, <1>4, <2>1 DEF CallsFit, CallsRight, Linked
  <2> HIDE DEF k
  <2>3. /\ h.set = k.set /\ h.pc = k.pc /\ h.todo = k.todo /\ h.built = k.built
        /\ h.refs = Tail(k.refs) /\ h.got = k.got \cup got
    BY <1>4, <2>1 DEF Frame, k
  <2>4. k.todo # <<>> /\ ToSet(k.refs) \subseteq ToSet(Refs[k.todo[1]])
    BY <2>1, <2>2 DEF CallInv
  <2>5. Made(k.refs) = Definition[f.want] \cup Made(Tail(k.refs)) /\ f.want \in ToSet(k.refs)
        /\ f.want \in Types
    <3>1. k.refs \in Seq(Objects) /\ f.want \in Types
      BY <2>1, <2>2 DEF Types
    <3>2. ToSet(k.refs) = {f.want} \cup ToSet(Tail(k.refs))
      BY <2>1, <2>2, <3>1, AfterFirst
    <3> QED BY <3>1, <3>2 DEF Made
  <2>6. ASSUME Current(k.set), k.todo[1] \in Kept
        PROVE  (k.got \cup got) \cup Made(Tail(k.refs)) = IF byName THEN {} ELSE Made(Refs[k.todo[1]])
    <3>1. k.got \cup Made(k.refs) = IF byName THEN {} ELSE Made(Refs[k.todo[1]])
      BY <2>2, <2>4, <2>6 DEF TypeBuilt
    <3>2. ~byName
      <4> SUFFICES ASSUME byName PROVE FALSE
        OBVIOUS
      <4>1. f.want \in Objects /\ SetKind(f.want) = "types"
        BY <2>5 DEF Types, SetKind
      <4>2. f.want \in Definition[f.want]
        BY <4>1, DefinitionOf
      <4> QED BY <2>5, <3>1, <4>2
    <3>3. f.want \in Kept
      BY <2>4, <2>5, <2>6, <3>2 DEF ValueInv, KeptClosed
    <3>4. got = Definition[f.want]
      BY <1>3, <2>2, <2>6, <3>2, <3>3 DEF Upholds
    <3> QED BY <2>5, <3>1, <3>4
  <2> QED BY <2>1, <2>2, <2>3, <2>4, <2>6 DEF TypeBuilt
<1>5. ASSUME NEW i \in DOMAIN s
      PROVE  /\ i + 1 \in DOMAIN old /\ TypeBuilt(s[i]) /\ Sited(s[i])
             /\ s[i].set = old[i + 1].set /\ s[i].verb = old[i + 1].verb
             /\ i # 1 => s[i] = old[i + 1]
  <2>1. i + 1 \in DOMAIN old /\ i + 1 # 1 /\ (i + 1) - 1 = i /\ (i + 1 = 2 <=> i = 1)
    BY <1>2
  <2>2. old[i + 1] \in Frame /\ TypeBuilt(old[i + 1]) /\ Sited(old[i + 1])
    BY <1>1, <2>1, FrameFacts DEF CallsFit, CallsRight, ToSet
  <2>3. s[i] = IF i = 1 THEN [old[2] EXCEPT !.refs = Tail(@), !.got = @ \cup got] ELSE old[i + 1]
    BY <1>2, <2>1
  <2>4. CASE i # 1
    BY <2>1, <2>2, <2>3, <2>4
  <2>5. CASE i = 1
    <3>1. i + 1 = 2 /\ TypeBuilt(s[i])
      BY <1>4, <2>1, <2>3, <2>5
    <3>2. /\ s[i].set = old[2].set /\ s[i].verb = old[2].verb /\ s[i].todo = old[2].todo
          /\ s[i].built = old[2].built
      BY <2>2, <2>3, <2>5, <3>1 DEF Frame
    <3> QED BY <2>1, <2>2, <2>5, <3>1, <3>2 DEF Sited
  <2> QED BY <2>4, <2>5
<1>6. ASSUME NEW i \in DOMAIN s, i + 1 \in DOMAIN s PROVE Upholds(s[i], s[i + 1])
  <2>1. Upholds(old[i + 1], old[(i + 1) + 1]) /\ i + 1 # 1
    BY <1>1, <1>2, <1>5, <1>6 DEF CallsFit, CallsRight
  <2> QED BY <1>5, <1>6, <2>1 DEF Upholds
<1>7. CallsFit(s)
  BY <1>5, <1>6 DEF CallsFit, CallsRight, ToSet
<1> QED BY <1>1, <1>7

-------------------------------------------------------------------------------
(* The steps, one by one.                                                  *)

\* What a step is right about.
EntriesFit ==
  \A c \in Sets \ {Root} : \A o \in DOMAIN entries'[c] :
    \/ o \in DOMAIN entries[c] /\ entries'[c][o] = entries[c][o]
    \/ Current(c)' /\ o \in Kept' => entries'[c][o] = Value(o)
StepFits == EntriesFit /\ \A q \in Sessions : stack'[q] = stack[q] \/ CallsFit(stack'[q])

LEMMA TopFits ==
  ASSUME LocksInv, LookupInv, ValueInv, NEW p \in Sessions, stack[p] # <<>>
  PROVE  /\ Top(p) \in Frame /\ Top(p) \in ToSet(stack[p]) /\ Top(p) = stack[p][1]
         /\ TypeBuilt(Top(p)) /\ Sited(Top(p)) /\ CallInv(Top(p))
         /\ FrameOK(p, Top(p), loadLock, loadingThread, generation)
<1>1. Top(p) \in Frame /\ Top(p) \in ToSet(stack[p]) /\ Top(p) = stack[p][1]
      /\ FrameOK(p, Top(p), loadLock, loadingThread, generation)
  BY TopFacts DEF ToSet, Top
<1>2. CallsFit(stack[p]) /\ CallInv(Top(p))
  BY <1>1, CallsAreFit DEF LookupInv, StackInv
<1> QED BY <1>1, <1>2 DEF CallsFit, CallsRight

LEMMA FitSteps ==
  ASSUME LocksInv, LookupInv, ValueInv, NEW p \in Sessions, stack[p] # <<>>,
         Top(p).pc \notin {"load", "rebuild"}, NEW pc \in Pcs, Goto(p, pc)
  PROVE  \A q \in Sessions : stack'[q] = stack[q] \/ CallsFit(stack'[q])
<1> DEFINE f == Top(p)
           g == [f EXCEPT !.pc = pc]
<1>1. f \in Frame /\ TypeBuilt(f) /\ Sited(f) /\ stack' = [stack EXCEPT ![p][1] = g]
  BY TopFits DEF Goto
<1>2. /\ g \in Frame /\ g.set = f.set /\ g.verb = f.verb /\ g.todo = f.todo /\ g.refs = f.refs
      /\ g.got = f.got /\ g.built = f.built /\ f.pc \notin {"load", "rebuild"}
  BY <1>1 DEF Frame
<1> HIDE DEF f, g
<1>3. TypeBuilt(g) /\ Sited(g)
  BY <1>1, <1>2 DEF TypeBuilt, Sited
<1> QED BY <1>1, <1>2, <1>3, FitReplaced DEF f

LEMMA SameEntries ==
  ASSUME \A c \in Sets \ {Root} : \A o \in DOMAIN entries'[c] :
           o \in DOMAIN entries[c] /\ entries'[c][o] = entries[c][o]
  PROVE  EntriesFit
BY DEF EntriesFit

\* A call that has just started has built nothing.
LEMMA FreshCall ==
  ASSUME NEW g \in Frame, g.todo = <<>>, g.refs = <<>>, g.got = {}, g.built = <<>>
  PROVE  /\ TypeBuilt(g)
         /\ (g.set # Root => g.set[2] \in used /\ g.set[3] <= generation) => Sited(g)
<1>1. ToSet(<<>>) = {} /\ DOMAIN <<>> = {}
  BY DEF ToSet
<1> QED BY <1>1 DEF TypeBuilt, Sited

LEMMA StartFits ==
  ASSUME LocksInv, LookupInv, ValueInv, NEW p \in Sessions, Lookup(p) \/ StartDdl(p)
  PROVE  StepFits
<1>1. PICK verb \in {"find", "create", "drop"}, want \in Schemas \cup Objects, s \in Schemas :
        /\ verb # "find" => want \in OwnDdl
        /\ s \in NamesOf(verb, want)
        /\ stack' = [stack EXCEPT ![p] = <<SchemaCall(p, verb, want, s)>>]
  BY SchemaAssumption DEF Lookup, StartDdl
<1> DEFINE g == SchemaCall(p, verb, want, s)
<1>2. g \in Frame
  BY <1>1, NewCalls
<1>3. g.set = Root /\ g.refs = <<>> /\ g.todo = <<>> /\ g.got = {} /\ g.built = <<>>
  BY DEF SchemaCall, SetCall
<1>4. stack[p] = <<>> /\ UNCHANGED entries
  BY DEF Lookup, StartDdl
<1> HIDE DEF g
<1>5. TypeBuilt(g) /\ Sited(g)
  BY <1>2, <1>3, FreshCall
<1>6. stack' = [stack EXCEPT ![p] = <<g>> \o stack[p]]
  <2>1. <<g>> \o <<>> = <<g>>
    BY <1>2
  <2> QED BY <1>1, <1>4, <2>1 DEF g
<1>7. \A q \in Sessions : stack'[q] = stack[q] \/ CallsFit(stack'[q])
  BY <1>2, <1>4, <1>5, <1>6, FitPushed
<1> QED BY <1>4, <1>7, SameEntries DEF StepFits

LEMMA FindSchemaFits ==
  ASSUME NamedWhereCreated, LocksInv, SliceInv, LookupInv, ValueInv,
         NEW p \in Sessions, FindSchema(p)
  PROVE  StepFits
<1> DEFINE f == Top(p)
           known == f.name \in DOMAIN entries[Root]
           c == <<SetKind(f.want), f.name, entries[Root][f.name]>>
<1>1. stack[p] # <<>> /\ f.pc = "find" /\ f.set = Root /\ UNCHANGED entries
  BY DEF FindSchema, At, Top
<1>2. /\ f \in Frame /\ f.todo = <<>> /\ f.refs = <<>> /\ f.built = <<>> /\ f.got = {}
      /\ f.name = (IF f.want \in Schemas THEN f.want ELSE SchemaOf[f.want])
      /\ f.name \in Schemas /\ f.name \in NamesOf(f.verb, f.want)
      /\ f.want \in Schemas \cup Objects /\ f.verb \in {"find", "create", "drop"}
      /\ f.verb # "find" => f.want \in OwnDdl
  BY <1>1, TopFits, FrameFacts DEF FrameOK, TypeBuilt, NamesOf, NamedWhereCreated
<1>3. EntriesFit
  BY <1>1, SameEntries
<1>4. f.want \in Kept => f.want # f.name /\ known
  <2> SUFFICES ASSUME f.want \in Kept PROVE f.want # f.name /\ known
    OBVIOUS
  <2>1. f.want \in Objects
    BY DEF Kept
  <2> QED BY <1>2, <2>1, SchemaOfType DEF LookupInv, CacheInv
<1>5. CASE \E found : Return(p, {}, found) /\ (f.want = f.name \/ ~known)
  BY <1>1, <1>3, <1>4, <1>5, FitReturned DEF StepFits
<1>6. CASE Goto(p, "ddl")
  BY <1>1, <1>3, <1>6, FitSteps DEF StepFits, Pcs
<1>7. CASE f.want # f.name /\ known
  <2> DEFINE g == IF f.verb = "create" THEN [f EXCEPT !.set = c, !.pc = "ddl"]
                  ELSE SetCall(p, c, f.verb, f.want)
  <2>1. stack' = [stack EXCEPT ![p][1] = g]
    BY <1>7 DEF FindSchema
  <2>2. /\ c[1] = SetKind(f.want) /\ c[2] = f.name /\ c[3] = entries[Root][f.name]
        /\ c[1] \in {"types", "tables", "indexes"} /\ f.want \in Objects /\ f.name \in Schemas
    BY <1>2, <1>7, SchemaOfType DEF SetKind
  <2>3. c[3] \in 1 .. MaxLoads /\ c[3] <= generation /\ f.name \in used
    <3>1. entries[Root] \in MapsInto(Schemas, 1 .. MaxLoads)
      BY SetFacts DEF LocksInv, DataOK, EntriesOf
    <3> QED BY <1>7, <3>1, MapFacts DEF SliceInv, LookupInv, CacheInv
  <2>4. c \in Sets \ {Root} /\ Current(c)
    BY <1>7, <2>2, <2>3, SetFacts DEF Current
  <2> HIDE DEF c
  <2>5. /\ g \in Frame /\ g.set = c /\ g.verb = f.verb /\ g.refs = <<>> /\ g.todo = <<>>
        /\ g.got = {} /\ g.built = <<>>
    <3>1. CASE f.verb = "create"
      BY <1>2, <2>4, <3>1 DEF Frame, Pcs
    <3>2. CASE f.verb # "create"
      <4>1. SetCall(p, c, f.verb, f.want) \in Frame
        BY <1>2, <2>2, <2>4, NewCalls
      <4> QED BY <3>2, <4>1 DEF SetCall
    <3> QED BY <3>1, <3>2
  <2> HIDE DEF g
  <2>6. TypeBuilt(g) /\ Sited(g)
    BY <2>2, <2>3, <2>5, FreshCall
  <2>7. \A q \in Sessions : stack'[q] = stack[q] \/ CallsFit(stack'[q])
    BY <1>1, <2>1, <2>4, <2>5, <2>6, FitReplaced
  <2> QED BY <1>3, <2>7 DEF StepFits
<1> QED BY <1>5, <1>6, <1>7 DEF FindSchema

\* A type that is found is what it is defined as; one that is not found is not to stay.
LEMMA FindEntryFits ==
  ASSUME TypesInOrder, LocksInv, OrderInv, LookupInv, ValueInv, NEW p \in Sessions, FindEntry(p)
  PROVE  StepFits
<1> DEFINE f == Top(p)
           c == f.set
           known == f.want \in DOMAIN entries[c]
<1>1. stack[p] # <<>> /\ f.pc = "find" /\ At(p, "find") /\ c # Root /\ UNCHANGED entries
  BY DEF FindEntry, At, Top
<1>2. f \in Frame /\ c \in Sets \ {Root} /\ f.want \in Objects /\ f.verb \in {"find", "create", "drop"}
  BY <1>1, TopFits, FrameFacts DEF FrameOK
<1>3. EntriesFit
  BY <1>1, SameEntries
<1>4. CASE Goto(p, "ddl") \/ Goto(p, "relock")
  BY <1>1, <1>3, <1>4, FitSteps DEF StepFits, Pcs
<1>5. CASE known /\ f.verb = "find" /\ Return(p, entries[c][f.want], TRUE)
  <2>1. entries[c][f.want] \in SUBSET Objects
    <3>1. entries[c] \in MapsInto(Objects, SUBSET Objects)
      BY <1>2 DEF LocksInv, DataOK, EntriesOf
    <3> QED BY <1>5, <3>1, MapFacts
  <2>2. f.want \in Kept /\ Current(c) /\ ~byName => entries[c][f.want] = Definition[f.want]
    BY <1>2, <1>5, Simple DEF ValueInv, EntriesRight
  <2>3. \A q \in Sessions : stack'[q] = stack[q] \/ CallsFit(stack'[q])
    BY <1>1, <1>5, <2>1, <2>2, FitReturned
  <2> QED BY <1>3, <2>3 DEF StepFits
<1>6. CASE (~known \/ f.verb # "find") /\ Return(p, {}, FALSE)
  <2>1. ~(f.verb = "find" /\ f.want \in Kept /\ Current(c))
    BY <1>1, <1>6, NotFoundNotKept
  <2>2. \A q \in Sessions : stack'[q] = stack[q] \/ CallsFit(stack'[q])
    BY <1>1, <1>6, <2>1, FitReturned
  <2> QED BY <1>3, <2>2 DEF StepFits
<1> QED BY <1>2, <1>4, <1>5, <1>6 DEF FindEntry

LEMMA ResolveFits ==
  ASSUME LocksInv, LookupInv, ValueInv, NEW p \in Sessions, ResolveType(p)
  PROVE  StepFits
<1> DEFINE f == Top(p)
           r == f.refs[1]
           c == <<"types", f.set[2], f.set[3]>>
           g == IF SchemaOf[r] = f.set[2] THEN SetCall(p, c, "find", r)
                ELSE SchemaCall(p, "find", r, SchemaOf[r])
<1>1. /\ stack[p] # <<>> /\ f.refs # <<>> /\ UNCHANGED entries
      /\ stack' = [stack EXCEPT ![p] = <<g>> \o stack[p]]
  BY DEF ResolveType, Building, At, Top
<1>2. f \in Frame /\ f.set \in Sets \ {Root} /\ f.refs \in Seq(Types) /\ Sited(f)
  BY <1>1, TopFits, FrameFacts DEF FrameOK
<1>3. r \in Objects /\ SchemaOf[r] \in Schemas /\ SchemaOf[r] \in NamesOf("find", r)
  <2>1. r \in Objects
    BY <1>1, <1>2 DEF Types
  <2> QED BY <2>1, SchemaOfType DEF NamesOf
<1>4. c \in Sets \ {Root} /\ c[2] = f.set[2] /\ c[3] = f.set[3]
  BY <1>2, SetFacts
<1>5. Current(c) <=> Current(f.set)
  BY <1>2, <1>4 DEF Current
<1> HIDE DEF c, r, f
<1>6. /\ g \in Frame /\ g.verb = "find" /\ g.refs = <<>> /\ g.todo = <<>> /\ g.got = {} /\ g.built = <<>>
      /\ g.set \in {c, Root}
  <2>1. CASE SchemaOf[r] = f.set[2]
    <3>1. SetCall(p, c, "find", r) \in Frame
      BY <1>3, <1>4, NewCalls
    <3> QED BY <2>1, <3>1 DEF SetCall
  <2>2. CASE SchemaOf[r] # f.set[2]
    <3>1. SchemaCall(p, "find", r, SchemaOf[r]) \in Frame
      BY <1>3, NewCalls
    <3> QED BY <2>2, <3>1 DEF SchemaCall, SetCall
  <2> QED BY <2>1, <2>2
<1> HIDE DEF g
<1>7. TypeBuilt(g) /\ Sited(g)
  BY <1>2, <1>4, <1>6, FreshCall DEF Sited
<1>8. Upholds(g, Top(p))
  BY <1>5, <1>6 DEF Upholds, Current, f
<1>9. \A q \in Sessions : stack'[q] = stack[q] \/ CallsFit(stack'[q])
  BY <1>1, <1>6, <1>7, <1>8, FitPushed
<1> QED BY <1>1, <1>9, SameEntries DEF StepFits

\* What a call collects for the next object that it builds.
LEMMA NextFits ==
  ASSUME LocksInv, LookupInv, ValueInv, NEW p \in Sessions, stack[p] # <<>>,
         NEW g \in Frame, g.set = Top(p).set, g.verb = Top(p).verb, g.got = {},
         g.refs = RefsOfFirst(g.todo), Sited(g),
         Current(g.set) => \A o \in Kept \cap DOMAIN g.built : g.built[o] = Value(o),
         stack' = [stack EXCEPT ![p][1] = g]
  PROVE  \A q \in Sessions : stack'[q] = stack[q] \/ CallsFit(stack'[q])
<1>1. g.todo # <<>> => {} \cup Made(g.refs) = IF byName THEN {} ELSE Made(Refs[g.todo[1]])
  <2>1. Made(<<>>) = {}
    BY DEF Made, ToSet
  <2> QED BY <2>1 DEF RefsOfFirst
<1>2. TypeBuilt(g)
  BY <1>1 DEF TypeBuilt
<1> QED BY <1>2, FitReplaced

\* The steps that add no entry and build nothing.
LEMMA QuietFits ==
  ASSUME LocksInv, SliceInv, LookupInv, ValueInv, NEW p \in Sessions,
         QuerySchemas(p) \/ LockToReload(p) \/ LoadSchemas(p) \/ QueryFails(p) \/ DdlFails(p)
           \/ EndTransaction(p)
  PROVE  StepFits
<1>1. EntriesFit
  <2>1. \A c \in Sets \ {Root} : entries'[c] = entries[c]
    <3>1. CASE LoadSchemas(p)
      BY <3>1, SchemasJoin
    <3>2. CASE ~LoadSchemas(p)
      BY <3>2 DEF QuerySchemas, LockToReload, QueryFails, DdlFails, Throw, EndTransaction, setVars
    <3> QED BY <3>1, <3>2
  <2> QED BY <2>1, SameEntries
<1>2. CASE QuerySchemas(p) \/ LockToReload(p) \/ LoadSchemas(p)
  <2>1. stack[p] # <<>> /\ Top(p).pc \in {"query", "relock", "slice"}
    BY <1>2 DEF QuerySchemas, LockToReload, LoadSchemas, At, Top
  <2>2. stack' = stack \/ \E pc \in Pcs : Goto(p, pc)
    BY <1>2 DEF QuerySchemas, LockToReload, LoadSchemas, Pcs
  <2>3. CASE stack' = stack
    BY <1>1, <2>3 DEF StepFits
  <2>4. CASE \E pc \in Pcs : Goto(p, pc)
    BY <1>1, <2>1, <2>4, FitSteps DEF StepFits
  <2> QED BY <2>2, <2>3, <2>4
<1>3. CASE QueryFails(p) \/ DdlFails(p)
  <2>1. CallsFit(<<>>)
    BY DEF CallsFit, CallsRight, ToSet
  <2>2. stack' = [stack EXCEPT ![p] = <<>>]
    BY <1>3 DEF QueryFails, DdlFails, Throw
  <2>3. \A q \in Sessions : stack'[q] = IF q = p THEN <<>> ELSE stack[q]
    BY <2>2, StateFacts
  <2> QED BY <1>1, <2>1, <2>3 DEF StepFits
<1>4. CASE EndTransaction(p)
  BY <1>1, <1>4 DEF EndTransaction, StepFits
<1> QED BY <1>2, <1>3, <1>4

\* Enums and indexes are made of nothing else.
LEMMA LockFits ==
  ASSUME LocksInv, LookupInv, ValueInv, NEW p \in Sessions, LockToLoad(p)
  PROVE  StepFits
<1> DEFINE f == Top(p)
           c == f.set
           rows == slice[c][1]
           todo == slice[c][2]
           new == IF c[1] = "types" THEN InitializeEnums(rows) ELSE LoadIndexes(rows)
           g == [f EXCEPT !.pc = IF c = Root THEN "query" ELSE "load", !.todo = todo, !.refs = RefsOfFirst(todo)]
<1>1. stack[p] # <<>> /\ f.pc = "lock"
  BY DEF LockToLoad, At, Top
<1>2. /\ f \in Frame /\ TypeBuilt(f) /\ Sited(f) /\ CallInv(f) /\ c \in Sets /\ f.got = {}
      /\ slice[c] \in Seq(Objects) \X Seq(Own(c)) /\ slice[Root] = NoSlice
  <2>1. f \in Frame /\ TypeBuilt(f) /\ Sited(f) /\ CallInv(f) /\ c \in Sets
    BY <1>1, TopFits, FrameFacts
  <2> QED BY <1>1, <2>1 DEF TypeBuilt, LocksInv, DataOK
<1>3. CASE loaded[c]
  <2>1. Goto(p, "find") /\ UNCHANGED entries
    BY <1>3 DEF LockToLoad
  <2>2. \A q \in Sessions : stack'[q] = stack[q] \/ CallsFit(stack'[q])
    BY <1>1, <2>1, FitSteps DEF Pcs
  <2> QED BY <2>1, <2>2, SameEntries DEF StepFits
<1>4. CASE ~loaded[c]
  <2>1. Insert(c, new) /\ stack' = [stack EXCEPT ![p][1] = g]
    <3>1. stack' = [stack EXCEPT ![p][1] =
                  [@ EXCEPT !.pc = IF c = Root THEN "query" ELSE "load",
                            !.todo = todo, !.refs = RefsOfFirst(todo)]]
      BY <1>4 DEF LockToLoad
    <3> QED BY <1>1, <1>4, <3>1 DEF LockToLoad, Top
  <2>2. todo \in Seq(Objects) /\ rows \in Seq(Objects)
    BY <1>2 DEF Own
  <2>3. RefsOfFirst(todo) \in Seq(Types)
    BY <2>2, RefsType
  <2>4. /\ DOMAIN new = ToSet(rows)
        /\ \A o \in ToSet(rows) : new[o] = IF c[1] = "types" THEN {o} ELSE {}
    BY DEF InitializeEnums, LoadIndexes
  <2>5. /\ g \in Frame /\ g.set = c /\ g.verb = f.verb /\ g.todo = todo /\ g.got = {}
        /\ g.refs = RefsOfFirst(todo) /\ g.built = f.built
    BY <1>2, <2>2, <2>3 DEF Frame, Pcs
  <2> HIDE DEF g, new
  <2>6. /\ \A d \in Sets : d # c => entries'[d] = entries[d]
        /\ \A o \in DOMAIN entries'[c] :
             \/ o \in DOMAIN entries[c] /\ entries'[c][o] = entries[c][o]
             \/ o \in ToSet(rows) /\ entries'[c][o] = new[o]
    BY <1>2, <2>1, <2>4, Inserted
  <2>7. c # Root => /\ Holds(c) /\ ToSet(rows) \cup ToSet(todo) \subseteq Placed(c) \cap used
    BY <1>2 DEF LookupInv, CacheInv, Holds, Sliced
  <2>8. c # Root => \A o \in ToSet(rows) : new[o] = Value(o)
    <3> SUFFICES ASSUME c # Root, NEW o \in ToSet(rows) PROVE new[o] = Value(o)
      OBVIOUS
    <3>1. o \in Objects /\ SetKind(o) = c[1] /\ KindOf[o] \in {"enum", "composite", "table", "index"}
      BY <2>7, SchemaAssumption DEF Placed
    <3>2. CASE c[1] = "types"
      <4>1. KindOf[o] = "enum"
        BY <2>7, <3>2 DEF Holds
      <4> QED BY <2>4, <3>1, <3>2, <4>1, Simple
    <3>3. CASE c[1] = "tables"
      <4>1. rows = <<>>
        BY <2>7, <3>3 DEF Holds
      <4> QED BY <4>1 DEF ToSet
    <3>4. CASE c[1] # "types" /\ c[1] # "tables"
      <4>1. KindOf[o] = "index"
        BY <3>1, <3>4 DEF SetKind
      <4> QED BY <2>4, <3>1, <3>4, <4>1, Simple
    <3> QED BY <3>2, <3>3, <3>4
  <2>9. EntriesFit
    <3> HIDE DEF c, f, rows
    <3> QED BY <2>6, <2>8 DEF EntriesFit
  <2>10. Sited(g)
    BY <1>2, <2>5, <2>7 DEF Sited
  <2>11. Current(g.set) => \A o \in Kept \cap DOMAIN g.built : g.built[o] = Value(o)
    BY <1>2, <2>5 DEF TypeBuilt
  <2>12. \A q \in Sessions : stack'[q] = stack[q] \/ CallsFit(stack'[q])
    <3>1. g.set = Top(p).set /\ g.verb = Top(p).verb /\ g.refs = RefsOfFirst(g.todo)
      BY <2>5
    <3> HIDE DEF c, f, todo, rows
    <3> QED BY <1>1, <2>1, <2>5, <2>10, <2>11, <3>1, NextFits
  <2> QED BY <2>9, <2>12 DEF StepFits
<1> QED BY <1>3, <1>4

\* What is inserted is right after a steady step if it was right before.
LEMMA InsertFits ==
  ASSUME LocksInv, Steady, NEW f \in Frame, f.set # Root, CallHas(f), NEW new, Insert(f.set, new),
         DOMAIN new \subseteq Placed(f.set) \cap used,
         Current(f.set) => \A o \in Kept \cap DOMAIN new : new[o] = Value(o)
  PROVE  EntriesFit
<1> DEFINE c == f.set
<1>1. c \in Sets \ {Root} /\ c[2] \in used /\ c[3] <= generation
  BY FrameFacts DEF CallHas
<1>2. /\ \A d \in Sets : d # c => entries'[d] = entries[d]
      /\ \A o \in DOMAIN entries'[c] :
           \/ o \in DOMAIN entries[c] /\ entries'[c][o] = entries[c][o]
           \/ o \in DOMAIN new /\ entries'[c][o] = new[o]
  BY <1>1, Inserted
<1>3. ASSUME NEW o \in DOMAIN new, \E d : d = c /\ Current(d)', o \in Kept' PROVE new[o] = Value(o)
  <2>1. o \in Placed(c) /\ o \in used
    OBVIOUS
  <2>2. \A d \in Sets \ {Root} : d[2] \in used /\ d[3] <= generation /\ Current(d)' =>
          Current(d) /\ \A x \in Kept' \cap Placed(d) : x \in Kept \/ x \notin used
    BY DEF Steady
  <2>3. Current(c) /\ o \in Kept
    <3> HIDE DEF c
    <3> QED BY <1>1, <1>3, <2>1, <2>2
  <2> QED BY <2>3
<1> HIDE DEF c
<1> QED BY <1>2, <1>3 DEF EntriesFit

\* The first object is done when no type is left to be looked up.
LEMMA ObjectMade ==
  ASSUME NEW f, TypeBuilt(f), f.todo # <<>>, f.refs = <<>>, Current(f.set), f.todo[1] \in Kept
  PROVE  Value(f.todo[1]) = (IF SetKind(f.todo[1]) = "types" THEN {f.todo[1]} ELSE {}) \cup f.got
<1>1. Made(<<>>) = {}
  BY DEF Made, ToSet
<1>2. f.got = IF byName THEN {} ELSE Made(Refs[f.todo[1]])
  BY <1>1 DEF TypeBuilt
<1>3. f.todo[1] \in Objects
  BY DEF Kept
<1> QED BY <1>2, <1>3, Simple, DefinitionOf

LEMMA CompositeFits ==
  ASSUME LocksInv, LookupInv, ValueInv, Steady, NEW p \in Sessions, CreateCompositeType(p)
  PROVE  StepFits
<1> DEFINE f == Top(p)
           c == f.set
           o == f.todo[1]
           new == Entry(o, {o} \cup f.got)
           g == [f EXCEPT !.todo = Tail(@), !.refs = RefsOfFirst(Tail(f.todo)), !.got = {},
                          !.built = f.built]
<1>1. /\ stack[p] # <<>> /\ f.refs = <<>> /\ c[1] = "types" /\ f.todo # <<>>
      /\ stack' = [stack EXCEPT ![p][1] = g] /\ Insert(c, new)
  BY DEF CreateCompositeType, Building, NextObject, At, Top
<1>2. /\ f \in Frame /\ c # Root /\ CallHas(f) /\ TypeBuilt(f) /\ Sited(f) /\ f.todo \in Seq(Objects)
  <2>1. f \in Frame /\ TypeBuilt(f) /\ Sited(f) /\ CallInv(f) /\ f.todo \in Seq(Objects) /\ c \in Sets
    BY <1>1, TopFits, FrameFacts
  <2> QED BY <1>1, <2>1, SetFacts DEF CallInv
<1>3. /\ Tail(f.todo) \in Seq(Objects) /\ o \in ToSet(f.todo)
      /\ ToSet(f.todo) = {o} \cup ToSet(Tail(f.todo)) /\ RefsOfFirst(Tail(f.todo)) \in Seq(Types)
  BY <1>1, <1>2, AfterFirst, RefsType
<1>4. /\ g \in Frame /\ g.set = c /\ g.verb = f.verb /\ g.todo = Tail(f.todo) /\ g.got = {}
      /\ g.refs = RefsOfFirst(Tail(f.todo)) /\ g.built = f.built
  BY <1>2, <1>3 DEF Frame
<1>5. DOMAIN new = {o} /\ new[o] = {o} \cup f.got
  BY DEF Entry
<1> HIDE DEF g, new
<1>6. EntriesFit
  <2>1. o \in Placed(c) \cap used /\ SetKind(o) = "types"
    BY <1>1, <1>2, <1>3 DEF CallHas, Placed
  <2>2. Current(c) => \A x \in Kept \cap DOMAIN new : new[x] = Value(x)
    BY <1>1, <1>2, <1>5, <2>1, ObjectMade
  <2> HIDE DEF o
  <2> QED BY <1>1, <1>2, <1>5, <2>1, <2>2, InsertFits
<1>7. \A q \in Sessions : stack'[q] = stack[q] \/ CallsFit(stack'[q])
  <2>1. Sited(g)
    BY <1>2, <1>3, <1>4 DEF Sited
  <2>2. Current(g.set) => \A x \in Kept \cap DOMAIN g.built : g.built[x] = Value(x)
    BY <1>2, <1>4 DEF TypeBuilt
  <2>3. g.set = Top(p).set /\ g.verb = Top(p).verb /\ g.refs = RefsOfFirst(g.todo)
    BY <1>4
  <2> HIDE DEF f, c, o
  <2> QED BY <1>1, <1>4, <2>1, <2>2, <2>3, NextFits
<1> QED BY <1>6, <1>7 DEF StepFits

LEMMA TableFits ==
  ASSUME LocksInv, LookupInv, ValueInv, NEW p \in Sessions, BuildTable(p)
  PROVE  StepFits
<1> DEFINE f == Top(p)
           c == f.set
           o == f.todo[1]
           built == Joined(f.built, Entry(o, f.got))
           g == [f EXCEPT !.todo = Tail(@), !.refs = RefsOfFirst(Tail(f.todo)), !.got = {},
                          !.built = built]
<1>1. /\ stack[p] # <<>> /\ f.refs = <<>> /\ c[1] = "tables" /\ f.todo # <<>>
      /\ stack' = [stack EXCEPT ![p][1] = g] /\ UNCHANGED entries
  BY DEF BuildTable, Building, NextObject, At, Top, setVars
<1>2. /\ f \in Frame /\ c # Root /\ CallHas(f) /\ TypeBuilt(f) /\ Sited(f) /\ f.todo \in Seq(Objects)
      /\ f.built \in MapsInto(Objects, SUBSET Objects) /\ f.got \in SUBSET Objects
  <2>1. /\ f \in Frame /\ TypeBuilt(f) /\ Sited(f) /\ CallInv(f) /\ c \in Sets /\ f.todo \in Seq(Objects)
        /\ f.built \in MapsInto(Objects, SUBSET Objects) /\ f.got \in SUBSET Objects
    BY <1>1, TopFits, FrameFacts
  <2> QED BY <1>1, <2>1, SetFacts DEF CallInv
<1>3. /\ Tail(f.todo) \in Seq(Objects) /\ o \in ToSet(f.todo) /\ o \in Objects
      /\ ToSet(f.todo) = {o} \cup ToSet(Tail(f.todo)) /\ RefsOfFirst(Tail(f.todo)) \in Seq(Types)
  <2>1. /\ Tail(f.todo) \in Seq(Objects) /\ o \in ToSet(f.todo)
        /\ ToSet(f.todo) = {o} \cup ToSet(Tail(f.todo))
    BY <1>1, <1>2, AfterFirst
  <2>2. o \in Objects
    BY <1>2, <2>1 DEF CallHas, Placed
  <2> QED BY <2>1, <2>2, RefsType
<1>4. /\ built \in MapsInto(Objects, SUBSET Objects) /\ DOMAIN built = DOMAIN f.built \cup {o}
      /\ \A x \in DOMAIN built : built[x] = IF x \in DOMAIN f.built THEN f.built[x] ELSE f.got
  <2>1. Entry(o, f.got) \in MapsInto(Objects, SUBSET Objects)
    BY <1>2, <1>3, EntryType
  <2> QED BY <1>2, <2>1, JoinedType DEF Joined, Entry
<1> HIDE DEF built
<1>5. /\ g \in Frame /\ g.set = c /\ g.verb = f.verb /\ g.todo = Tail(f.todo) /\ g.got = {}
      /\ g.refs = RefsOfFirst(Tail(f.todo)) /\ g.built = built
  BY <1>2, <1>3, <1>4 DEF Frame
<1> HIDE DEF g
<1>6. Current(c) => \A x \in Kept \cap DOMAIN built : built[x] = Value(x)
  <2> SUFFICES ASSUME Current(c), NEW x \in Kept \cap DOMAIN built PROVE built[x] = Value(x)
    OBVIOUS
  <2>1. CASE x \in DOMAIN f.built
    BY <1>2, <1>4, <2>1 DEF TypeBuilt
  <2>2. CASE x \notin DOMAIN f.built
    <3>1. x = o
      BY <1>4, <2>2
    <3>2. SetKind(o) = "tables"
      <4>1. ToSet(f.todo) \subseteq Placed(c)
        BY <1>2 DEF CallHas
      <4>2. o \in Placed(c)
        BY <1>3, <4>1
      <4> HIDE DEF o
      <4> QED BY <1>1, <4>2 DEF Placed
    <3>3. Value(o) = (IF SetKind(o) = "types" THEN {o} ELSE {}) \cup f.got
      <4>1. Current(f.set) /\ o \in Kept /\ TypeBuilt(f) /\ f.todo # <<>> /\ f.refs = <<>>
        BY <1>1, <1>2, <3>1
      <4> HIDE DEF f
      <4> QED BY <4>1, ObjectMade
    <3>4. built[x] = f.got
      BY <1>4, <2>2
    <3> HIDE DEF o, f
    <3> QED BY <3>1, <3>2, <3>3, <3>4
  <2> QED BY <2>1, <2>2
<1>7. \A q \in Sessions : stack'[q] = stack[q] \/ CallsFit(stack'[q])
  <2>1. Sited(g)
    BY <1>2, <1>3, <1>4, <1>5 DEF Sited
  <2>2. Current(g.set) => \A x \in Kept \cap DOMAIN g.built : g.built[x] = Value(x)
    BY <1>5, <1>6
  <2>3. g.set = Top(p).set /\ g.verb = Top(p).verb /\ g.refs = RefsOfFirst(g.todo)
    BY <1>5
  <2> HIDE DEF f, c, o
  <2> QED BY <1>1, <1>5, <2>1, <2>2, <2>3, NextFits
<1> QED BY <1>1, <1>7, SameEntries DEF StepFits

\* What has been built goes into the set.
LEMMA LoadedFits ==
  ASSUME LocksInv, LookupInv, ValueInv, Steady, NEW p \in Sessions, FinishLoad(p)
  PROVE  StepFits
<1> DEFINE f == Top(p)
           c == f.set
           g == [f EXCEPT !.pc = "find", !.built = <<>>]
<1>1. /\ stack[p] # <<>> /\ f.todo = <<>> /\ stack' = [stack EXCEPT ![p][1] = g] /\ Insert(c, f.built)
  BY DEF FinishLoad, At, Top
<1>2. /\ f \in Frame /\ CallInv(f) /\ TypeBuilt(f) /\ Sited(f) /\ f.refs = <<>> /\ f.got = {} /\ c \in Sets
      /\ c = Root => f.built = <<>>
  <2>1. /\ f \in Frame /\ CallInv(f) /\ TypeBuilt(f) /\ Sited(f) /\ c \in Sets
        /\ FrameOK(p, f, loadLock, loadingThread, generation)
    BY <1>1, TopFits, FrameFacts
  <2> QED BY <1>1, <2>1 DEF CallInv, TypeBuilt, FrameOK
<1>3. /\ g \in Frame /\ g.set = c /\ g.verb = f.verb /\ g.todo = <<>> /\ g.got = {} /\ g.refs = <<>>
      /\ g.built = <<>>
  BY <1>1, <1>2, NoEntries DEF Frame, Pcs
<1> HIDE DEF g
<1>4. EntriesFit
  <2>1. CASE c = Root
    <3>1. \A d \in Sets \ {Root} : entries'[d] = entries[d]
      BY <1>1, <1>2, <2>1, Inserted
    <3> QED BY <3>1, SameEntries
  <2>2. CASE c # Root
    <3>1. CallHas(f)
      BY <1>2, <2>2 DEF CallInv
    <3>2. DOMAIN f.built \subseteq Placed(f.set) \cap used
      BY <3>1 DEF CallHas
    <3>3. Current(f.set) => \A o \in Kept \cap DOMAIN f.built : f.built[o] = Value(o)
      BY <1>2 DEF TypeBuilt
    <3> HIDE DEF f
    <3> QED BY <1>1, <1>2, <2>2, <3>1, <3>2, <3>3, InsertFits
  <2> QED BY <2>1, <2>2
<1>5. \A q \in Sessions : stack'[q] = stack[q] \/ CallsFit(stack'[q])
  <2>1. DOMAIN g.built = {} /\ ToSet(g.todo) = {}
    BY <1>3 DEF ToSet
  <2>2. Sited(g)
    BY <1>2, <1>3, <2>1 DEF Sited
  <2>3. g.refs = RefsOfFirst(g.todo) /\ g.set = Top(p).set /\ g.verb = Top(p).verb
    BY <1>3 DEF RefsOfFirst
  <2> HIDE DEF f, c
  <2> QED BY <1>1, <1>3, <2>1, <2>2, <2>3, NextFits
<1> QED BY <1>4, <1>5 DEF StepFits

\* A table that the set does not know is not to stay, so it does not matter what is returned.
LEMMA OnServerFits ==
  ASSUME LocksInv, LookupInv, ValueInv, NEW p \in Sessions, QueryTable(p)
  PROVE  StepFits
<1> DEFINE f == Top(p)
           g == [f EXCEPT !.pc = "rebuild", !.todo = <<f.want>>, !.refs = RefsOfFirst(<<f.want>>)]
<1>1. stack[p] # <<>> /\ f.pc = "requery" /\ UNCHANGED entries
  BY DEF QueryTable, At, Top
<1>2. /\ f \in Frame /\ f.set # Root /\ CallHas(f) /\ TypeBuilt(f) /\ Sited(f) /\ f.want \in Objects
  <2>1. /\ f \in Frame /\ TypeBuilt(f) /\ Sited(f) /\ CallInv(f)
        /\ FrameOK(p, f, loadLock, loadingThread, generation)
    BY <1>1, TopFits
  <2>2. f.set # Root
    BY <1>1, <2>1, SetFacts DEF FrameOK
  <2> QED BY <2>1, <2>2 DEF CallInv, CallHas, Placed
<1>3. CASE f.want \in View(p)
  <2>1. stack' = [stack EXCEPT ![p][1] = g]
    BY <1>3 DEF QueryTable
  <2>2. <<f.want>> \in Seq(Objects) /\ ToSet(<<f.want>>) = {f.want}
    BY <1>2 DEF ToSet
  <2>3. RefsOfFirst(<<f.want>>) \in Seq(Types)
    BY <2>2, RefsType
  <2>4. /\ g \in Frame /\ g.set = f.set /\ g.verb = f.verb /\ g.todo = <<f.want>>
        /\ g.refs = RefsOfFirst(<<f.want>>) /\ g.built = f.built /\ g.got = f.got
    BY <1>2, <2>2, <2>3 DEF Frame, Pcs
  <2>5. f.want \in used /\ f.got = {}
    BY <1>1, <1>2, <1>3, ViewIsClosed DEF LookupInv, TypeBuilt
  <2> HIDE DEF g
  <2>6. Sited(g)
    BY <1>2, <2>2, <2>4, <2>5 DEF Sited
  <2>7. Current(g.set) => \A x \in Kept \cap DOMAIN g.built : g.built[x] = Value(x)
    BY <1>2, <2>4 DEF TypeBuilt
  <2>8. g.refs = RefsOfFirst(g.todo) /\ g.set = Top(p).set /\ g.verb = Top(p).verb /\ g.got = {}
    BY <2>4, <2>5
  <2>9. \A q \in Sessions : stack'[q] = stack[q] \/ CallsFit(stack'[q])
    <3> HIDE DEF f
    <3> QED BY <1>1, <2>1, <2>4, <2>6, <2>7, <2>8, NextFits
  <2> QED BY <1>1, <2>9, SameEntries DEF StepFits
<1>4. CASE f.want \notin View(p)
  <2>1. Return(p, {}, FALSE)
    BY <1>4 DEF QueryTable
  <2>2. ~(f.want \in Kept /\ Current(f.set))
    BY <1>1, <1>2 DEF CallHas
  <2>3. \A q \in Sessions : stack'[q] = stack[q] \/ CallsFit(stack'[q])
    BY <1>1, <2>1, <2>2, FitReturned
  <2> QED BY <1>1, <2>3, SameEntries DEF StepFits
<1> QED BY <1>3, <1>4

LEMMA ReloadedFits ==
  ASSUME LocksInv, LookupInv, ValueInv, Steady, NEW p \in Sessions, FinishReload(p)
  PROVE  StepFits
<1> DEFINE f == Top(p)
<1>1. stack[p] # <<>> /\ f.pc = "rebuild" /\ Insert(f.set, f.built) /\ Return(p, {}, TRUE)
  BY DEF FinishReload, At, Top
<1>2. f \in Frame /\ f.set # Root /\ CallHas(f) /\ TypeBuilt(f)
  <2>1. /\ f \in Frame /\ TypeBuilt(f) /\ CallInv(f)
        /\ FrameOK(p, f, loadLock, loadingThread, generation)
    BY <1>1, TopFits
  <2>2. f.set # Root
    BY <1>1, <2>1, SetFacts DEF FrameOK
  <2> QED BY <2>1, <2>2 DEF CallInv
<1>3. EntriesFit
  <2>1. DOMAIN f.built \subseteq Placed(f.set) \cap used
    BY <1>2 DEF CallHas
  <2>2. Current(f.set) => \A o \in Kept \cap DOMAIN f.built : f.built[o] = Value(o)
    BY <1>2 DEF TypeBuilt
  <2> HIDE DEF f
  <2> QED BY <1>1, <1>2, <2>1, <2>2, InsertFits
<1>4. ~(f.want \in Kept /\ Current(f.set))
  BY <1>1, <1>2 DEF CallHas
<1>5. \A q \in Sessions : stack'[q] = stack[q] \/ CallsFit(stack'[q])
  BY <1>1, <1>4, FitReturned
<1> QED BY <1>3, <1>5 DEF StepFits

\* DDL: DuckDB creates what is made of nothing else.
LEMMA DdlFits ==
  ASSUME LocksInv, LookupInv, ValueInv, NEW p \in Sessions,
         CreateSchema(p) \/ CreateType(p) \/ CreateIndex(p) \/ Drop(p)
  PROVE  StepFits
<1> DEFINE f == Top(p)
           c == f.set
           x == f.want
<1>1. stack[p] # <<>> /\ f.pc = "ddl" /\ f.verb \in {"create", "drop"} /\ Return(p, {}, TRUE)
  BY DEF CreateSchema, CreateType, CreateIndex, Created, Drop, At, Top
<1>2. f \in Frame /\ c \in Sets /\ CallInv(f) /\ x \in OwnDdl
  <2>1. f \in Frame /\ CallInv(f) /\ FrameOK(p, f, loadLock, loadingThread, generation)
    BY <1>1, TopFits
  <2> QED BY <1>1, <2>1, FrameFacts DEF FrameOK
<1>3. \A q \in Sessions : stack'[q] = stack[q] \/ CallsFit(stack'[q])
  BY <1>1, FitReturned
<1>4. ASSUME NEW value, Insert(c, Entry(x, value)), c # Root => value = Value(x)
      PROVE  EntriesFit
  <2> DEFINE new == Entry(x, value)
  <2>1. DOMAIN new = {x} /\ new[x] = value
    BY DEF Entry
  <2> HIDE DEF new
  <2>2. /\ \A d \in Sets : d # c => entries'[d] = entries[d]
        /\ \A o \in DOMAIN entries'[c] :
             \/ o \in DOMAIN entries[c] /\ entries'[c][o] = entries[c][o]
             \/ o = x /\ entries'[c][o] = value
    <3>1. Insert(c, new)
      BY <1>4 DEF new
    <3> QED BY <1>2, <2>1, <3>1, Inserted
  <2> HIDE DEF f, c, x
  <2> QED BY <1>4, <2>2 DEF EntriesFit
<1>5. ASSUME c # Root PROVE x \in Objects /\ SetKind(x) = c[1] /\ KindOf[x] \in {"enum", "index"}
  <2>1. CallHas(f)
    BY <1>2, <1>5 DEF CallInv
  <2>2. x \in Placed(c)
    BY <2>1 DEF CallHas
  <2>3. x \in Objects /\ SetKind(x) = c[1]
    BY <2>2 DEF Placed
  <2> QED BY <1>2, <2>3, SchemaAssumption
<1>6. CASE CreateSchema(p)
  BY <1>3, <1>4, <1>6 DEF CreateSchema, Created, StepFits
<1>7. CASE CreateType(p)
  <2>1. Insert(c, Entry(x, {x})) /\ c[1] = "types"
    BY <1>7 DEF CreateType, Created
  <2>2. c # Root
    BY <2>1, SetFacts
  <2>3. x \in Objects /\ KindOf[x] = "enum"
    BY <1>5, <2>1, <2>2 DEF SetKind
  <2>4. Value(x) = {x}
    BY <2>3, Simple
  <2>5. EntriesFit
    BY <1>4, <2>1, <2>4
  <2> QED BY <1>3, <2>5 DEF StepFits
<1>8. CASE CreateIndex(p)
  <2>1. Insert(c, Entry(x, {})) /\ c[1] = "indexes"
    BY <1>8 DEF CreateIndex, Created
  <2>2. c # Root
    BY <2>1, SetFacts
  <2>3. x \in Objects /\ KindOf[x] = "index"
    BY <1>5, <2>1, <2>2 DEF SetKind
  <2>4. Value(x) = {}
    BY <2>3, Simple
  <2>5. EntriesFit
    BY <1>4, <2>1, <2>4
  <2> QED BY <1>3, <2>5 DEF StepFits
<1>9. CASE Drop(p)
  <2>1. entries' = [entries EXCEPT ![c] = [y \in DOMAIN entries[c] \ {x} |-> entries[c][y]]]
    BY <1>9 DEF Drop
  <2>2. DOMAIN entries = Sets
    BY DEF LocksInv, DataOK
  <2>3. \A d \in Sets : \A o \in DOMAIN entries'[d] :
          o \in DOMAIN entries[d] /\ entries'[d][o] = entries[d][o]
    BY <1>2, <2>1, <2>2
  <2>4. EntriesFit
    BY <2>3, SameEntries
  <2> QED BY <1>3, <2>4 DEF StepFits
<1> QED BY <1>6, <1>7, <1>8, <1>9

LEMMA OthersFit ==
  ASSUME LocksInv, ClearCache \/ OtherClient \/ UNCHANGED vars
  PROVE  StepFits
<1>1. stack' = stack /\ \A c \in Sets \ {Root} : entries'[c] = entries[c]
  <2>1. DOMAIN entries = Sets
    BY DEF LocksInv, DataOK
  <2> QED BY <2>1 DEF ClearCache, OtherClient, vars, setVars
<1> QED BY <1>1, SameEntries DEF StepFits

LEMMA ValueNext ==
  ASSUME TypesInOrder, NewSchemasLast, OthersKeepOut, NamedWhereCreated, TypesCovered,
         LocksInv, OrderInv, SliceInv, LookupInv, ValueInv, [Next]_vars
  PROVE  ValueInv'
<1>1. LocksInv' /\ LookupInv' /\ Steady /\ byName' = byName
  BY LocksNext, LookupNext, Effects DEF settingVars
<1>2. ASSUME NEW p \in Sessions, Session(p) PROVE StepFits
  <2>1. CASE Lookup(p) \/ StartDdl(p)
    BY <2>1, StartFits
  <2>2. CASE FindSchema(p)
    BY <2>2, FindSchemaFits
  <2>3. CASE FindEntry(p)
    BY <2>3, FindEntryFits
  <2>4. CASE LockToLoad(p)
    BY <2>4, LockFits
  <2>5. CASE QuerySchemas(p) \/ LockToReload(p) \/ LoadSchemas(p) \/ QueryFails(p) \/ DdlFails(p)
               \/ EndTransaction(p)
    BY <2>5, QuietFits
  <2>6. CASE ResolveType(p)
    BY <2>6, ResolveFits
  <2>7. CASE CreateCompositeType(p)
    BY <1>1, <2>7, CompositeFits
  <2>8. CASE BuildTable(p)
    BY <2>8, TableFits
  <2>9. CASE FinishLoad(p)
    BY <1>1, <2>9, LoadedFits
  <2>10. CASE QueryTable(p)
    BY <2>10, OnServerFits
  <2>11. CASE FinishReload(p)
    BY <1>1, <2>11, ReloadedFits
  <2>12. CASE CreateSchema(p) \/ CreateType(p) \/ CreateIndex(p) \/ Drop(p)
    BY <2>12, DdlFits
  <2> QED BY <1>2, <2>1, <2>2, <2>3, <2>4, <2>5, <2>6, <2>7, <2>8, <2>9, <2>10, <2>11, <2>12
          DEF Session, Load, Reload, Ddl
<1>3. StepFits
  BY <1>2, OthersFit DEF Next
<1> QED BY <1>1, <1>3, ValuesStay DEF StepFits, EntriesFit

\* A type or table that existed when the schemas were loaded, and still does, has every type
\* it is made of (HasInternalDependencies, CreateEntries, TypeToLogicalType), with any number
\* of sessions, schemas and objects, whichever thread loads whichever set first: no column of
\* a custom type becomes VARCHAR, unless it is read through information_schema, where every
\* one does.
THEOREM TypesAreAsDefined ==
  ASSUME TypesInOrder, NewSchemasLast, OthersKeepOut, NamedWhereCreated, TypesCovered
  PROVE  Spec => []TypesAsDefined
<1> DEFINE Inv == LocksInv /\ OrderInv /\ SliceInv /\ LookupInv /\ ValueInv
<1>1. Init => Inv
  <2>1. Init => OrderInv
    BY DEF Init, OrderInv, StackOrder
  <2> QED BY <2>1, LocksInit, SliceInit, LookupInit, ValueInit
<1>2. Inv /\ [Next]_vars => Inv'
  BY LocksNext, OrderNext, SliceNext, LookupNext, ValueNext
<1>3. Inv => TypesAsDefined
  <2> SUFFICES ASSUME Inv, NEW c \in Sets, c[1] \in {"types", "tables"}, Current(c),
                      NEW o \in DOMAIN entries[c] \cap due
               PROVE  entries[c][o] = Value(o)
    BY DEF TypesAsDefined, Value
  <2>1. c \in Sets \ {Root}
    BY SetFacts
  <2>2. o \in Placed(c) /\ o \in exists
    BY <2>1 DEF LookupInv, HistoryInv, CacheInv, Holds
  <2>3. o \in Kept
    BY <2>2 DEF Placed, Kept
  <2> QED BY <2>1, <2>3 DEF ValueInv, EntriesRight
<1> QED BY <1>1, <1>2, <1>3, PTL DEF Spec

===============================================================================

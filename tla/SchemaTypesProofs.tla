--------------------------- MODULE SchemaTypesProofs ---------------------------
(***************************************************************************)
(* Proofs about SchemaTypes for every catalog, any number of sessions and  *)
(* of loads: the order of rows, who holds which load_lock, and why nobody  *)
(* waits for a load_lock in a cycle.                                       *)
(***************************************************************************)
EXTENDS SchemaTypes, FiniteSetTheorems, SequenceTheorems, WellFoundedInduction, TLAPS

-------------------------------------------------------------------------------
(* The rows of a query.                                                    *)

\* ORDER BY has a row for every place: in a finite set with a linear order, exactly
\* n - 1 elements precede some element, for every n.
LEMMA PlacesTaken ==
  ASSUME NEW S, IsFiniteSet(S), NEW R,
         \A x \in S : <<x, x>> \notin R,
         \A x, y \in S : x # y => <<x, y>> \in R \/ <<y, x>> \in R,
         \A x, y, z \in S : <<x, y>> \in R /\ <<y, z>> \in R => <<x, z>> \in R
  PROVE  \A n \in 1 .. Cardinality(S) :
           \E x \in S : Cardinality({y \in S : <<y, x>> \in R}) = n - 1
<1> DEFINE below(x) == {y \in S : <<y, x>> \in R}
           place == [x \in S |-> Cardinality(below(x))]
           places == 0 .. Cardinality(S) - 1
<1>1. Cardinality(S) \in Nat
  BY FS_CardinalityType
<1>2. ASSUME NEW x \in S PROVE place[x] \in places
  <2>1. IsFiniteSet(below(x)) /\ Cardinality(below(x)) <= Cardinality(S)
        /\ (Cardinality(S) = Cardinality(below(x)) => S = below(x))
    BY FS_Subset
  <2>2. Cardinality(below(x)) \in Nat
    BY <2>1, FS_CardinalityType
  <2>3. x \notin below(x)
    OBVIOUS
  <2> QED BY <1>1, <2>1, <2>2, <2>3
<1>3. ASSUME NEW x \in S, NEW y \in S, <<x, y>> \in R PROVE place[x] # place[y]
  <2>1. below(x) \in SUBSET below(y)
    <3>1. ASSUME NEW z \in S, <<z, x>> \in R PROVE <<z, y>> \in R
      BY <1>3, <3>1
    <3> QED BY <3>1
  <2>2. x \in below(y) /\ x \notin below(x)
    BY <1>3
  <2>3. IsFiniteSet(below(y))
    BY FS_Subset
  <2>4. Cardinality(below(x)) # Cardinality(below(y))
    BY <2>1, <2>2, <2>3, FS_Subset
  <2> QED BY <2>4
<1>4. place \in Injection(S, places)
  <2>1. place \in [S -> places]
    BY <1>2
  <2> HIDE DEF place
  <2>2. ASSUME NEW x \in S, NEW y \in S, place[x] = place[y], x # y PROVE FALSE
    <3>1. CASE <<x, y>> \in R
      BY <1>3, <2>2, <3>1
    <3>2. CASE <<y, x>> \in R
      BY <1>3, <2>2, <3>2
    <3> QED BY <2>2, <3>1, <3>2
  <2> QED BY <2>1, <2>2 DEF Injection, IsInjective
<1>5. IsFiniteSet(places) /\ Cardinality(places) = Cardinality(S)
  <2>1. 0 \in Int /\ Cardinality(S) - 1 \in Int
    BY <1>1
  <2>2. /\ IsFiniteSet(places)
        /\ Cardinality(places) = IF 0 > Cardinality(S) - 1 THEN 0 ELSE (Cardinality(S) - 1) - 0 + 1
    BY <2>1, FS_Interval
  <2> HIDE DEF places
  <2> QED BY <1>1, <2>2
<1>6. place \in Surjection(S, places)
  BY <1>4, <1>5, FS_Injection
<1> TAKE n \in 1 .. Cardinality(S)
<1>7. n - 1 \in places
  BY <1>1
<1>8. PICK x \in S : place[x] = n - 1
  BY <1>6, <1>7 DEF Surjection
<1> QED BY <1>8

\* The namespaces are in a linear order, by oid and by name.
LEMMA NamespacesOrdered ==
  ASSUME byName \in BOOLEAN, NEW a \in Schemas
  PROVE  /\ ~Before(a, a)
         /\ \A b \in Schemas : a # b => Before(a, b) \/ Before(b, a)
         /\ \A b, c \in Schemas : Before(a, b) /\ Before(b, c) => Before(a, c)
<1>1. CASE byName
  <2>1. \A b \in Schemas : NameRank[b] \in Nat /\ (a # b => NameRank[a] # NameRank[b])
    BY SchemaAssumption
  <2>2. NameRank[a] \in Nat
    BY <2>1
  <2> QED BY <1>1, <2>1, <2>2 DEF Before
<1>2. CASE ~byName
  <2>1. \A b \in Schemas : b \in Nat
    BY SchemaAssumption
  <2> QED BY <1>2, <2>1 DEF Before
<1> QED BY <1>1, <1>2

\* The rows of the schemas are schemas.
LEMMA SchemaRowsType ==
  ASSUME NEW view, byName \in BOOLEAN
  PROVE  SchemaRows(view) \in Seq(view \cap Schemas)
<1> DEFINE S == view \cap Schemas
           R == {e \in S \X S : Before(e[1], e[2])}
<1>1. IsFiniteSet(S) /\ Cardinality(S) \in Nat
  BY SchemaAssumption, FS_Intersection, FS_CardinalityType
<1>2. \A x, y \in S : <<x, y>> \in R <=> Before(x, y)
  BY DEF Before
<1> HIDE DEF R
<1>3. \A x \in S : <<x, x>> \notin R
  BY <1>2, NamespacesOrdered
<1>4. \A x, y \in S : x # y => <<x, y>> \in R \/ <<y, x>> \in R
  BY <1>2, NamespacesOrdered
<1>5. \A x, y, z \in S : <<x, y>> \in R /\ <<y, z>> \in R => <<x, z>> \in R
  BY <1>2, NamespacesOrdered
<1>6. \A x \in S : {y \in S : <<y, x>> \in R} = {y \in S : Before(y, x)}
  BY <1>2
<1> HIDE DEF S
<1>7. \A n \in 1 .. Cardinality(S) : \E x \in S : Cardinality({y \in S : <<y, x>> \in R}) = n - 1
  BY <1>1, <1>3, <1>4, <1>5, PlacesTaken
<1>8. \A n \in 1 .. Cardinality(S) : \E x \in S : Cardinality({y \in S : Before(y, x)}) = n - 1
  BY <1>6, <1>7
<1>9. SchemaRows(view) = [i \in 1 .. Cardinality(S) |->
        CHOOSE x \in S : Cardinality({y \in S : Before(y, x)}) = i - 1]
  BY DEF SchemaRows, Ordered, S
<1>10. SchemaRows(view) \in [1 .. Cardinality(S) -> S]
  BY <1>8, <1>9
<1>11. SchemaRows(view) \in Seq(S)
  BY <1>1, <1>10
<1> QED BY <1>11 DEF S

\* The rows of objects are objects.
LEMMA RowsType ==
  ASSUME NEW S, S \subseteq Objects, byName \in BOOLEAN
  PROVE  Rows(S) \in Seq(S)
<1> DEFINE R == {e \in S \X S : RowBefore(e[1], e[2])}
<1>1. IsFiniteSet(S) /\ Cardinality(S) \in Nat
  BY SchemaAssumption, FS_Subset, FS_CardinalityType
<1>2. \A x, y \in S : <<x, y>> \in R <=> RowBefore(x, y)
  BY DEF RowBefore
<1> HIDE DEF R
<1>3. \A x \in S : x \in Nat /\ SchemaOf[x] \in Schemas
  BY SchemaAssumption
<1>4. \A x \in S : ~RowBefore(x, x)
  BY <1>3, NamespacesOrdered DEF RowBefore
<1>5. \A x, y \in S : x # y => RowBefore(x, y) \/ RowBefore(y, x)
  BY <1>3, NamespacesOrdered DEF RowBefore
<1>6. \A x, y, z \in S : RowBefore(x, y) /\ RowBefore(y, z) => RowBefore(x, z)
  BY <1>3, NamespacesOrdered DEF RowBefore
<1>7. \A x \in S : {y \in S : <<y, x>> \in R} = {y \in S : RowBefore(y, x)}
  BY <1>2
<1>8. \A n \in 1 .. Cardinality(S) : \E x \in S : Cardinality({y \in S : <<y, x>> \in R}) = n - 1
  <2>1. \A x \in S : <<x, x>> \notin R
    BY <1>2, <1>4
  <2>2. \A x, y \in S : x # y => <<x, y>> \in R \/ <<y, x>> \in R
    BY <1>2, <1>5
  <2>3. \A x, y, z \in S : <<x, y>> \in R /\ <<y, z>> \in R => <<x, z>> \in R
    BY <1>2, <1>6
  <2> QED BY <1>1, <2>1, <2>2, <2>3, PlacesTaken
<1>9. \A n \in 1 .. Cardinality(S) : \E x \in S : Cardinality({y \in S : RowBefore(y, x)}) = n - 1
  BY <1>7, <1>8
<1>10. Rows(S) = [i \in 1 .. Cardinality(S) |->
         CHOOSE x \in S : Cardinality({y \in S : RowBefore(y, x)}) = i - 1]
  BY DEF Rows, Ordered
<1>11. Rows(S) \in [1 .. Cardinality(S) -> S]
  BY <1>9, <1>10
<1> QED BY <1>1, <1>11

\* SliceResult cuts the rows into slices, one after the other, and each holds rows of its
\* schema only.
LEMMA Smallest ==
  ASSUME NEW T \in SUBSET Nat, T # {}
  PROVE  \E n \in T : \A m \in T : n <= m
<1>1. PICK n \in T : \A m \in T : <<m, n>> \notin OpToRel(<, Nat)
  BY NatLessThanWellFounded, WFMin
<1>2. ASSUME NEW m \in T, m < n PROVE FALSE
  <2> DEFINE e == <<m, n>>
  <2>1. e \in Nat \X Nat /\ e[1] < e[2]
    BY <1>2
  <2>2. e \in OpToRel(<, Nat)
    BY <2>1 DEF OpToRel
  <2> QED BY <1>1, <2>2
<1>3. \A m \in T : m \in Nat /\ n \in Nat
  OBVIOUS
<1> QED BY <1>2, <1>3

\* One more slice.
LEMMA NextEnd ==
  ASSUME NEW s, NEW rows \in Seq(Objects), NEW a \in 0 .. Len(rows)
  PROVE  \E k \in a .. Len(rows) :
           /\ \A j \in a + 1 .. k : SchemaOf[rows[j]] = s
           /\ k < Len(rows) => SchemaOf[rows[k + 1]] # s
<1> DEFINE Stops == {k \in a .. Len(rows) : k < Len(rows) => SchemaOf[rows[k + 1]] # s}
<1>1. Len(rows) \in Stops /\ Stops \in SUBSET Nat
  OBVIOUS
<1>2. PICK k \in Stops : \A m \in Stops : k <= m
  BY <1>1, Smallest
<1>3. ASSUME NEW j \in a + 1 .. k PROVE SchemaOf[rows[j]] = s
  <2>1. j - 1 \in a .. Len(rows) /\ j - 1 < k /\ j - 1 < Len(rows) /\ (j - 1) + 1 = j
    BY <1>2
  <2>2. j - 1 \notin Stops
    BY <1>2, <2>1
  <2> QED BY <2>1, <2>2
<1> QED BY <1>2, <1>3

LEMMA EndsExist ==
  ASSUME NEW schemas \in Seq(Schemas), NEW rows \in Seq(Objects)
  PROVE  \E e \in [0 .. Len(schemas) -> 0 .. Len(rows)] : IsEnd(e, schemas, rows)
<1> DEFINE Cut(e, i) ==
             /\ e[i - 1] <= e[i]
             /\ \A j \in e[i - 1] + 1 .. e[i] : SchemaOf[rows[j]] = schemas[i]
             /\ e[i] < Len(rows) => SchemaOf[rows[e[i] + 1]] # schemas[i]
           Possible(n) == \E e \in [0 .. n -> 0 .. Len(rows)] :
                            e[0] = 0 /\ \A i \in 1 .. n : Cut(e, i)
           Bad == {n \in 0 .. Len(schemas) : ~Possible(n)}
<1>1. Len(schemas) \in Nat /\ Len(rows) \in Nat
  OBVIOUS
<1>2. Possible(0)
  <2>1. [i \in 0 .. 0 |-> 0] \in [0 .. 0 -> 0 .. Len(rows)]
    BY <1>1
  <2>2. [i \in 0 .. 0 |-> 0][0] = 0 /\ 1 .. 0 = {}
    OBVIOUS
  <2> HIDE DEF Cut
  <2> QED BY <2>1, <2>2
<1>3. ASSUME NEW n \in 1 .. Len(schemas), Possible(n - 1) PROVE Possible(n)
  <2>1. PICK e \in [0 .. n - 1 -> 0 .. Len(rows)] : e[0] = 0 /\ \A i \in 1 .. n - 1 : Cut(e, i)
    BY <1>3
  <2>2. e[n - 1] \in 0 .. Len(rows)
    OBVIOUS
  <2>3. PICK k \in e[n - 1] .. Len(rows) :
          /\ \A j \in e[n - 1] + 1 .. k : SchemaOf[rows[j]] = schemas[n]
          /\ k < Len(rows) => SchemaOf[rows[k + 1]] # schemas[n]
    BY <2>2, NextEnd
  <2> DEFINE g == [i \in 0 .. n |-> IF i = n THEN k ELSE e[i]]
  <2>4. g \in [0 .. n -> 0 .. Len(rows)]
    BY <2>2, <2>3
  <2>5. g[0] = 0 /\ g[n] = k /\ \A i \in 0 .. n - 1 : g[i] = e[i]
    BY <2>1
  <2>6. ASSUME NEW i \in 1 .. n - 1 PROVE Cut(g, i)
    <3>1. i \in 0 .. n - 1 /\ i - 1 \in 0 .. n - 1
      BY <1>1
    <3>2. Cut(e, i)
      BY <2>1
    <3> HIDE DEF g, Cut
    <3>3. g[i] = e[i] /\ g[i - 1] = e[i - 1]
      BY <2>5, <3>1
    <3> USE DEF Cut
    <3> QED BY <3>2, <3>3
  <2>7. Cut(g, n)
    <3>1. g[n] = k /\ g[n - 1] = e[n - 1]
      BY <2>5
    <3> HIDE DEF g
    <3> QED BY <2>2, <2>3, <3>1
  <2> HIDE DEF g, Cut
  <2>8. \A i \in 1 .. n : Cut(g, i)
    BY <2>6, <2>7
  <2> QED BY <2>4, <2>5, <2>8
<1>4. Bad = {}
  <2> SUFFICES ASSUME Bad # {} PROVE FALSE
    OBVIOUS
  <2> HIDE DEF Possible
  <2>1. Bad \in SUBSET Nat
    OBVIOUS
  <2>2. PICK n \in Bad : \A m \in Bad : n <= m
    BY <2>1, Smallest
  <2>3. n # 0
    BY <1>2
  <2>4. n \in 1 .. Len(schemas) /\ n - 1 \in 0 .. Len(schemas) /\ n - 1 < n
    BY <1>1, <2>3
  <2>5. Possible(n - 1)
    BY <2>2, <2>4
  <2> QED BY <1>3, <2>4, <2>5
<1>5. Possible(Len(schemas))
  <2> HIDE DEF Possible
  <2>1. Len(schemas) \in 0 .. Len(schemas)
    BY <1>1
  <2> QED BY <1>4, <2>1
<1>6. DOMAIN schemas = 1 .. Len(schemas)
  OBVIOUS
<1> QED BY <1>5, <1>6 DEF IsEnd

LEMMA SlicesOwnRows ==
  ASSUME NEW S, S \subseteq Objects, NEW rows \in Seq(S), NEW schemas \in Seq(Schemas),
         NEW i \in DOMAIN schemas
  PROVE  SliceResult(schemas, rows)[i] \in Seq({o \in S : SchemaOf[o] = schemas[i]})
<1> DEFINE end == CHOOSE e \in [0 .. Len(schemas) -> 0 .. Len(rows)] : IsEnd(e, schemas, rows)
           own == {o \in S : SchemaOf[o] = schemas[i]}
<1>1. rows \in Seq(Objects)
  OBVIOUS
<1>2. end \in [0 .. Len(schemas) -> 0 .. Len(rows)] /\ IsEnd(end, schemas, rows)
  BY <1>1, EndsExist
<1>3. SliceResult(schemas, rows)[i] = SubSeq(rows, end[i - 1] + 1, end[i])
  BY DEF SliceResult
<1> HIDE DEF end
<1>4. i \in 1 .. Len(schemas) /\ Len(schemas) \in Nat /\ Len(rows) \in Nat
  OBVIOUS
<1>5. end[i - 1] \in 0 .. Len(rows) /\ end[i] \in 0 .. Len(rows) /\ end[i - 1] <= end[i]
  BY <1>2, <1>4 DEF IsEnd
<1>6. \A j \in end[i - 1] + 1 .. end[i] : rows[j] \in own
  <2>1. \A j \in end[i - 1] + 1 .. end[i] : SchemaOf[rows[j]] = schemas[i]
    BY <1>2 DEF IsEnd
  <2>2. \A j \in end[i - 1] + 1 .. end[i] : j \in 1 .. Len(rows)
    BY <1>5
  <2> QED BY <2>1, <2>2
<1> HIDE DEF own
<1>7. SubSeq(rows, end[i - 1] + 1, end[i]) \in Seq(own)
  BY <1>5, <1>6, SubSeqProperties
<1> QED BY <1>3, <1>7 DEF own

-------------------------------------------------------------------------------
(* Types, and who holds which load_lock.                                   *)

USE DEF settingVars, serverVars, setVars

\* What may ever exist on the server.
Known == Initial \cup OtherClients \cup OwnDdl

MapsInto(D, V) == UNION {[E -> V] : E \in SUBSET D}
EntriesOf(c) == IF c = Root THEN MapsInto(Schemas, 1 .. MaxLoads)
                            ELSE MapsInto(Objects, SUBSET Objects)

Types == {o \in Objects : KindOf[o] \in {"enum", "composite"}}

\* The objects that one set builds from its slice.
Own(c) == {o \in Objects \cap Known :
             SchemaOf[o] = c[2] /\ (c[1] = "types" => KindOf[o] = "composite")}

Pcs == {"find", "lock", "query", "slice", "load", "relock", "requery", "rebuild", "ddl"}
Frame == [set : Sets, name : Schemas \cup Objects, verb : {"find", "create", "drop"},
          want : Schemas \cup Objects, pc : Pcs, todo : Seq(Objects), refs : Seq(Types),
          got : SUBSET Objects, built : MapsInto(Objects, SUBSET Objects)]

DataOK ==
  /\ TypeOK
  /\ byName \in BOOLEAN /\ used \subseteq Known
  /\ snapshot \in [Sessions -> (SUBSET Known) \cup {Unstarted}]
  /\ loaded[Root] => generation >= 1
  /\ loadingThread \in [Sets -> Sessions \cup {NoSession}]
  /\ DOMAIN entries = Sets /\ \A c \in Sets : entries[c] \in EntriesOf(c)
  /\ DOMAIN slice = Sets /\ \A c \in Sets : slice[c] \in Seq(Objects) \X Seq(Own(c))
  /\ slice[Root] = NoSlice
  /\ stack \in [Sessions -> Seq(Frame)]
  /\ answers \in [Sessions -> Seq(SUBSET Known)]
  /\ calls \in [Sessions -> 0 .. MaxCalls]

\* A call holds load_lock of its set while it loads or reloads it.
Holding(f) == f.pc \in {"query", "slice", "load", "requery", "rebuild"}
\* A call that waits for the call above it, which looks up the next type.
Suspended(f) == f.pc \in {"load", "rebuild"} /\ f.refs # <<>>

FrameOK(p, f, locks, threads, gen) ==
  /\ Holding(f) => locks[f.set] = p
  /\ f.pc \in {"query", "slice", "load"} => threads[f.set] = p
  /\ f.pc \in {"requery", "rebuild"} => threads[f.set] = NoSession
  /\ f.pc \in {"relock", "requery", "rebuild"} => f.set[1] = "tables"
  /\ f.pc \in {"query", "slice"} => f.set = Root
  /\ f.verb # "find" => f.want \in OwnDdl
  /\ f.set = Root =>
       /\ f.todo = <<>> /\ f.refs = <<>> /\ f.built = <<>>
       /\ f.pc \in {"load", "find", "ddl"} => gen >= 1
       /\ f.name \in Schemas \cap NamesOf(f.verb, f.want)
       /\ f.pc = "ddl" => f.want \in Schemas
  /\ f.set # Root => f.want \in Objects

\* The calls of p: a set that p has locked is that of exactly one of them.
CallsOK(p, s, locks, threads, gen) ==
  /\ \A i \in DOMAIN s : FrameOK(p, s[i], locks, threads, gen) /\ (i # 1 => Suspended(s[i]))
  /\ \A i, j \in DOMAIN s : i # j /\ Holding(s[i]) /\ Holding(s[j]) => s[i].set # s[j].set
  /\ \A c \in Sets : locks[c] = p => \E i \in DOMAIN s : Holding(s[i]) /\ s[i].set = c

AnswersOK(s, seen, gen) ==
  LET pc == IF s = <<>> THEN "find" ELSE s[1].pc
  IN /\ pc = "query" => Len(seen) < 5
     /\ pc = "slice" => Len(seen) = 5 /\ gen < MaxLoads
     /\ pc \notin {"query", "slice"} => seen = <<>>
     /\ \A i \in DOMAIN seen \ {1} : seen[i] \subseteq {o \in Objects : KindOf[o] = AnswerTo[i]}

LocksInv ==
  /\ DataOK
  /\ \A p \in Sessions : /\ CallsOK(p, stack[p], loadLock, loadingThread, generation)
                         /\ AnswersOK(stack[p], answers[p], generation)

\* Maps from a set, as CreateEntry and DropEntry change them.
LEMMA MapFacts ==
  ASSUME NEW D, NEW V, NEW m \in MapsInto(D, V)
  PROVE  /\ DOMAIN m \subseteq D
         /\ \A x \in DOMAIN m : m[x] \in V
         /\ \A x : [y \in DOMAIN m \ {x} |-> m[y]] \in MapsInto(D, V)
<1>1. PICK E \in SUBSET D : m \in [E -> V]
  BY DEF MapsInto
<1>2. ASSUME NEW x PROVE [y \in DOMAIN m \ {x} |-> m[y]] \in MapsInto(D, V)
  <2>1. [y \in DOMAIN m \ {x} |-> m[y]] \in [E \ {x} -> V]
    BY <1>1
  <2>2. E \ {x} \in SUBSET D
    OBVIOUS
  <2> QED BY <2>1, <2>2 DEF MapsInto
<1> QED BY <1>1, <1>2

LEMMA IsMap ==
  ASSUME NEW D, NEW V, NEW E \in SUBSET D, NEW m \in [E -> V]
  PROVE  m \in MapsInto(D, V)
BY DEF MapsInto

LEMMA NoEntries == \A D, V : <<>> \in MapsInto(D, V)
<1> TAKE D, V
<1>1. <<>> \in [{} -> V] /\ {} \in SUBSET D
  OBVIOUS
<1> QED BY <1>1 DEF MapsInto

LEMMA JoinedType ==
  ASSUME NEW D, NEW V, NEW m \in MapsInto(D, V), NEW n \in MapsInto(D, V)
  PROVE  Joined(m, n) \in MapsInto(D, V)
<1>1. DOMAIN m \cup DOMAIN n \in SUBSET D
  BY MapFacts
<1>2. Joined(m, n) \in [DOMAIN m \cup DOMAIN n -> V]
  BY MapFacts DEF Joined
<1> QED BY <1>1, <1>2, IsMap

LEMMA EntryType ==
  ASSUME NEW D, NEW V, NEW x \in D, NEW v \in V
  PROVE  Entry(x, v) \in MapsInto(D, V)
<1>1. Entry(x, v) \in [{x} -> V] /\ {x} \in SUBSET D
  BY DEF Entry
<1> QED BY <1>1, IsMap

LEMMA SetFacts ==
  /\ Root \in Sets /\ Root[1] = "schemas" /\ Root[3] = 0
  /\ \A c \in Sets : c # Root =>
       /\ c[1] \in {"types", "tables", "indexes"} /\ c[2] \in Schemas /\ c[3] \in 1 .. MaxLoads
       /\ <<"types", c[2], c[3]>> \in Sets
  /\ \A k \in {"types", "tables", "indexes"}, s \in Schemas, g \in 1 .. MaxLoads :
       <<k, s, g>> \in Sets /\ <<k, s, g>> # Root
BY DEF Sets, Root

LEMMA RefsType == \A todo \in Seq(Objects) : RefsOfFirst(todo) \in Seq(Types)
<1> TAKE todo \in Seq(Objects)
<1>1. CASE todo = <<>> \/ byName
  BY <1>1 DEF RefsOfFirst
<1>2. CASE ~(todo = <<>> \/ byName)
  <2>1. todo[1] \in Objects
    BY <1>2
  <2>2. Refs[todo[1]] \in Seq({r \in Objects : r < todo[1] /\ KindOf[r] \in {"enum", "composite"}})
    BY <2>1, SchemaAssumption
  <2>3. {r \in Objects : r < todo[1] /\ KindOf[r] \in {"enum", "composite"}} \subseteq Types
    BY DEF Types
  <2>4. Refs[todo[1]] \in Seq(Types)
    BY <2>2, <2>3
  <2> QED BY <1>2, <2>4 DEF RefsOfFirst
<1> QED BY <1>1, <1>2

LEMMA SchemaOfType == \A o \in Objects : SchemaOf[o] \in Schemas /\ o \notin Schemas
BY SchemaAssumption

LEMMA LocksInit == Init => LocksInv
<1> SUFFICES ASSUME Init PROVE LocksInv
  OBVIOUS
<1>1. snapshot \in [Sessions -> (SUBSET Known) \cup {Unstarted}]
  <2>1. Unstarted \in (SUBSET Known) \cup {Unstarted}
    OBVIOUS
  <2>2. snapshot = [q \in Sessions |-> Unstarted]
    BY DEF Init
  <2> QED BY <2>1, <2>2
<1> USE SchemaAssumption, SetFacts DEF Init
<1>7. TypeOK
  BY DEF TypeOK
<1>2. \A c \in Sets : entries[c] \in EntriesOf(c)
  BY NoEntries DEF EntriesOf
<1>3. \A c \in Sets : slice[c] \in Seq(Objects) \X Seq(Own(c))
  <2> TAKE c \in Sets
  <2>1. <<>> \in Seq(Objects) /\ <<>> \in Seq(Own(c))
    OBVIOUS
  <2> QED BY <2>1 DEF NoSlice
<1>4. used \subseteq Known /\ byName \in BOOLEAN
  BY DEF Known
<1>5. DataOK
  <2>1. snapshot \in [Sessions -> (SUBSET Known) \cup {Unstarted}]
    BY <1>1
  <2>2. stack \in [Sessions -> Seq(Frame)] /\ answers \in [Sessions -> Seq(SUBSET Known)]
    OBVIOUS
  <2>3. loadingThread \in [Sets -> Sessions \cup {NoSession}] /\ ~loaded[Root]
        /\ DOMAIN entries = Sets /\ DOMAIN slice = Sets /\ slice[Root] = NoSlice
        /\ calls \in [Sessions -> 0 .. MaxCalls]
    OBVIOUS
  <2> QED BY <1>7, <1>2, <1>3, <1>4, <2>1, <2>2, <2>3 DEF DataOK
<1>6. ASSUME NEW p \in Sessions
      PROVE  /\ CallsOK(p, stack[p], loadLock, loadingThread, generation)
             /\ AnswersOK(stack[p], answers[p], generation)
  BY DEF CallsOK, AnswersOK
<1> QED BY <1>5, <1>6 DEF LocksInv

LEMMA FrameFacts ==
  /\ \A f \in Frame : f.set \in Sets /\ f.want \in Schemas \cup Objects /\ f.pc \in Pcs
                    /\ f.todo \in Seq(Objects) /\ f.refs \in Seq(Types) /\ f.got \subseteq Objects
                    /\ f.built \in MapsInto(Objects, SUBSET Objects)
                    /\ f.verb \in {"find", "create", "drop"}
  /\ \A s \in Seq(Frame) : \A i \in DOMAIN s : s[i] \in Frame
<1>1. \A s \in Seq(Frame) : \A i \in DOMAIN s : s[i] \in Frame
  OBVIOUS
<1> QED BY <1>1 DEF Frame

\* What p does leaves the calls of q alone.
LEMMA OtherCalls ==
  ASSUME NEW p \in Sessions, NEW q \in Sessions, q # p, NEW s \in Seq(Frame),
         NEW locks, NEW threads, NEW gen \in Nat, NEW locks2, NEW threads2, NEW gen2 \in Nat,
         CallsOK(q, s, locks, threads, gen), gen2 >= gen,
         \A c \in Sets : \/ locks2[c] = locks[c] /\ threads2[c] = threads[c]
                         \/ locks[c] \in {p, NoSession} /\ locks2[c] \in {p, NoSession}
  PROVE  CallsOK(q, s, locks2, threads2, gen2)
<1>1. q # NoSession
  BY SchemaAssumption
<1>2. ASSUME NEW i \in DOMAIN s PROVE FrameOK(q, s[i], locks2, threads2, gen2)
  <2>1. s[i] \in Frame /\ s[i].set \in Sets
    BY FrameFacts
  <2>2. FrameOK(q, s[i], locks, threads, gen)
    BY DEF CallsOK
  <2> QED BY <1>1, <2>1, <2>2 DEF FrameOK, Holding
<1>3. \A c \in Sets : locks2[c] = q => locks[c] = q
  BY <1>1
<1> QED BY <1>2, <1>3 DEF CallsOK

\* The innermost call goes on, takes load_lock of its set or gives it back.
LEMMA TopGoesOn ==
  ASSUME NEW p \in Sessions, NEW s \in Seq(Frame), s # <<>>, NEW f \in Frame,
         NEW locks, NEW threads, NEW gen \in Nat, NEW locks2, NEW threads2, NEW gen2 \in Nat,
         CallsOK(p, s, locks, threads, gen), gen2 >= gen,
         FrameOK(p, f, locks2, threads2, gen2),
         \A c \in Sets : c # s[1].set => locks2[c] = locks[c] /\ threads2[c] = threads[c],
         \/ /\ locks2[s[1].set] = locks[s[1].set] /\ threads2[s[1].set] = threads[s[1].set]
            /\ Holding(f) <=> Holding(s[1])
            /\ Holding(f) => f.set = s[1].set
         \/ locks[s[1].set] = NoSession /\ Holding(f) /\ f.set = s[1].set
         \/ Holding(s[1]) /\ ~Holding(f) /\ locks2[s[1].set] = NoSession
  PROVE  /\ [s EXCEPT ![1] = f] \in Seq(Frame)
         /\ CallsOK(p, [s EXCEPT ![1] = f], locks2, threads2, gen2)
<1> DEFINE t == [s EXCEPT ![1] = f]
<1>1. t \in Seq(Frame) /\ DOMAIN t = DOMAIN s /\ 1 \in DOMAIN s /\ t[1] = f
      /\ \A i \in DOMAIN s : i # 1 => t[i] = s[i]
  OBVIOUS
<1>2. p # NoSession
  BY SchemaAssumption
<1>3. \A i \in DOMAIN s : s[i].set \in Sets
  BY FrameFacts
<1>4. ASSUME NEW i \in DOMAIN s, i # 1
      PROVE  /\ Suspended(s[i]) /\ Holding(s[i]) /\ FrameOK(p, s[i], locks, threads, gen)
             /\ locks[s[i].set] = p
             /\ Holding(s[1]) => s[i].set # s[1].set
  <2>1. Suspended(s[i]) /\ FrameOK(p, s[i], locks, threads, gen)
    BY <1>4 DEF CallsOK
  <2>2. Holding(s[i])
    BY <2>1 DEF Suspended, Holding
  <2>3. locks[s[i].set] = p
    BY <2>1, <2>2 DEF FrameOK
  <2> QED BY <1>1, <1>4, <2>1, <2>2, <2>3 DEF CallsOK
<1>5. ASSUME NEW i \in DOMAIN s, i # 1
      PROVE  /\ locks2[s[i].set] = locks[s[i].set] /\ threads2[s[i].set] = threads[s[i].set]
             /\ Holding(f) => f.set # s[i].set
  <2>1. /\ s[i].set \in Sets /\ Holding(s[i]) /\ locks[s[i].set] = p
        /\ Holding(s[1]) => s[i].set # s[1].set
    BY <1>3, <1>4, <1>5
  <2>2. CASE s[i].set # s[1].set
    BY <1>2, <2>1, <2>2
  <2>3. CASE s[i].set = s[1].set
    BY <1>2, <2>1, <2>3
  <2> QED BY <2>2, <2>3
<1>6. ASSUME NEW i \in DOMAIN s, i # 1 PROVE FrameOK(p, s[i], locks2, threads2, gen2)
  <2>1. FrameOK(p, s[i], locks, threads, gen)
    BY <1>4, <1>6
  <2>2. locks2[s[i].set] = locks[s[i].set] /\ threads2[s[i].set] = threads[s[i].set]
    BY <1>5, <1>6
  <2> QED BY <2>1, <2>2 DEF FrameOK
<1>7. ASSUME NEW c \in Sets, locks2[c] = p
      PROVE  \E i \in DOMAIN s : Holding(t[i]) /\ t[i].set = c
  <2>1. CASE c = s[1].set /\ Holding(f) /\ f.set = c
    BY <1>1, <2>1
  <2>2. CASE ~(c = s[1].set /\ Holding(f) /\ f.set = c)
    <3>1. locks[c] = p /\ (c = s[1].set => ~Holding(s[1]))
      BY <1>2, <1>7, <2>2
    <3>2. PICK i \in DOMAIN s : Holding(s[i]) /\ s[i].set = c
      BY <3>1 DEF CallsOK
    <3>3. i # 1
      BY <3>1, <3>2
    <3> QED BY <1>1, <3>2, <3>3
  <2> QED BY <2>1, <2>2
<1> HIDE DEF t
<1>8. \A i \in DOMAIN t : FrameOK(p, t[i], locks2, threads2, gen2) /\ (i # 1 => Suspended(t[i]))
  BY <1>1, <1>4, <1>6
<1>9. \A i, j \in DOMAIN t : i # j /\ Holding(t[i]) /\ Holding(t[j]) => t[i].set # t[j].set
  BY <1>1, <1>4, <1>5 DEF CallsOK
<1>10. CallsOK(p, t, locks2, threads2, gen2)
  BY <1>1, <1>7, <1>8, <1>9 DEF CallsOK
<1> QED BY <1>1, <1>10 DEF t

\* The innermost call starts another one, to look up a type.
LEMMA CallStarts ==
  ASSUME NEW p \in Sessions, NEW s \in Seq(Frame), NEW f \in Frame,
         NEW locks, NEW threads, NEW gen,
         CallsOK(p, s, locks, threads, gen), s # <<>> => Suspended(s[1]),
         FrameOK(p, f, locks, threads, gen), ~Holding(f)
  PROVE  /\ <<f>> \o s \in Seq(Frame)
         /\ CallsOK(p, <<f>> \o s, locks, threads, gen)
<1> DEFINE t == <<f>> \o s
<1>1. /\ t \in Seq(Frame) /\ DOMAIN t = 1 .. Len(s) + 1 /\ t[1] = f
      /\ DOMAIN s = 1 .. Len(s) /\ Len(s) \in Nat
      /\ \A i \in 1 .. Len(s) : t[i + 1] = s[i]
  OBVIOUS
<1> HIDE DEF t
<1>2. \A j \in DOMAIN t : j # 1 => j - 1 \in DOMAIN s /\ t[j] = s[j - 1] /\ (j - 1 = 1 <=> j = 2)
  <2> SUFFICES ASSUME NEW j \in DOMAIN t, j # 1
               PROVE  j - 1 \in DOMAIN s /\ t[j] = s[j - 1] /\ (j - 1 = 1 <=> j = 2)
    OBVIOUS
  <2>1. j - 1 \in 1 .. Len(s) /\ (j - 1) + 1 = j /\ (j - 1 = 1 <=> j = 2)
    BY <1>1
  <2> QED BY <1>1, <2>1
<1>3. \A i \in DOMAIN s : FrameOK(p, s[i], locks, threads, gen) /\ Suspended(s[i])
  BY <1>1 DEF CallsOK
<1>4. \A j \in DOMAIN t : FrameOK(p, t[j], locks, threads, gen) /\ (j # 1 => Suspended(t[j]))
  BY <1>1, <1>2, <1>3
<1>5. \A i, j \in DOMAIN t : i # j /\ Holding(t[i]) /\ Holding(t[j]) => t[i].set # t[j].set
  <2> SUFFICES ASSUME NEW i \in DOMAIN t, NEW j \in DOMAIN t, i # j, Holding(t[i]), Holding(t[j])
               PROVE  t[i].set # t[j].set
    OBVIOUS
  <2>1. i # 1 /\ j # 1
    BY <1>1
  <2>2. i - 1 # j - 1
    BY <1>1
  <2> QED BY <1>2, <2>1, <2>2 DEF CallsOK
<1>6. ASSUME NEW c \in Sets, locks[c] = p
      PROVE  \E j \in DOMAIN t : Holding(t[j]) /\ t[j].set = c
  <2>1. PICK i \in DOMAIN s : Holding(s[i]) /\ s[i].set = c
    BY <1>6 DEF CallsOK
  <2>2. i + 1 \in DOMAIN t /\ t[i + 1] = s[i]
    BY <1>1
  <2> QED BY <2>1, <2>2
<1>7. CallsOK(p, t, locks, threads, gen)
  BY <1>4, <1>5, <1>6 DEF CallsOK
<1> QED BY <1>1, <1>7 DEF t

\* The innermost call returns: the one below it goes on with the next type.
Returned(s, got) ==
  IF Tail(s) = <<>> THEN <<>>
  ELSE <<[Tail(s)[1] EXCEPT !.refs = Tail(@), !.got = @ \cup got]>> \o Tail(Tail(s))

LEMMA ReturnedFrames ==
  ASSUME NEW p \in Sessions, NEW s \in Seq(Frame), s # <<>>, NEW got \in SUBSET Objects,
         \A i \in DOMAIN s : i # 1 => Suspended(s[i])
  PROVE  /\ Returned(s, got) \in Seq(Frame)
         /\ DOMAIN s = 1 .. Len(s) /\ Len(s) \in Nat
         /\ DOMAIN Returned(s, got) = 1 .. Len(s) - 1
         /\ \A i \in DOMAIN s : i # 1 =>
              /\ i - 1 \in DOMAIN Returned(s, got)
              /\ Returned(s, got)[i - 1]
                   = IF i = 2 THEN [s[2] EXCEPT !.refs = Tail(@), !.got = @ \cup got] ELSE s[i]
         /\ \A i \in DOMAIN Returned(s, got) : i + 1 \in DOMAIN s
<1>1. CASE Tail(s) = <<>>
  <2>1. Len(Tail(s)) = Len(s) - 1
    BY HeadTailProperties
  <2>2. Len(Tail(s)) = 0
    <3>1. Len(<<>>) = 0
      OBVIOUS
    <3> QED BY <1>1, <3>1, Zenon
  <2>3. Len(s) \in Nat /\ DOMAIN s = 1 .. Len(s)
    OBVIOUS
  <2>4. Len(s) = 1
    BY <2>1, <2>2, <2>3
  <2>5. Returned(s, got) = <<>>
    BY <1>1 DEF Returned
  <2> QED BY <2>3, <2>4, <2>5
<1>2. CASE Tail(s) # <<>>
  <2> DEFINE u == Tail(s)
             h == [u[1] EXCEPT !.refs = Tail(@), !.got = @ \cup got]
  <2>1. /\ u \in Seq(Frame) /\ u # <<>> /\ Len(u) = Len(s) - 1 /\ 2 \in DOMAIN s /\ u[1] = s[2]
        /\ DOMAIN s = 1 .. Len(s) /\ Len(s) \in Nat /\ Len(s) >= 2
        /\ \A i \in 1 .. Len(s) - 1 : u[i] = s[i + 1]
    BY <1>2
  <2>2. u[1] \in Frame /\ u[1].refs # <<>>
    <3>1. Suspended(s[2]) /\ s[2] \in Frame
      BY <2>1, FrameFacts
    <3> QED BY <2>1, <3>1 DEF Suspended
  <2>3. u[1].refs \in Seq(Types) /\ Tail(u[1].refs) \in Seq(Types)
        /\ u[1].got \cup got \in SUBSET Objects
    <3>1. u[1].refs \in Seq(Types) /\ u[1].got \subseteq Objects
      BY <2>2, FrameFacts
    <3>2. \A refs \in Seq(Types) : refs # <<>> => Tail(refs) \in Seq(Types)
      OBVIOUS
    <3>3. Tail(u[1].refs) \in Seq(Types)
      BY <2>2, <3>1, <3>2
    <3>4. u[1].got \cup got \in SUBSET Objects
      BY <3>1
    <3> QED BY <3>1, <3>3, <3>4
  <2>4. h \in Frame
    BY <2>2, <2>3 DEF Frame
  <2> HIDE DEF u, h
  <2>5. /\ Tail(u) \in Seq(Frame) /\ Len(Tail(u)) = Len(u) - 1
        /\ \A i \in 1 .. Len(u) - 1 : Tail(u)[i] = u[i + 1]
    BY <2>1
  <2> DEFINE t == <<h>> \o Tail(u)
  <2>6. /\ t \in Seq(Frame) /\ Len(t) = Len(u) /\ DOMAIN t = 1 .. Len(u) /\ t[1] = h
        /\ \A i \in 1 .. Len(u) - 1 : t[i + 1] = Tail(u)[i]
    BY <2>4, <2>5
  <2>7. Returned(s, got) = t
    BY <1>2 DEF Returned, u, h
  <2> HIDE DEF t
  <2>8. ASSUME NEW i \in DOMAIN s, i # 1
        PROVE  i - 1 \in DOMAIN t /\ t[i - 1] = IF i = 2 THEN h ELSE s[i]
    <3>1. CASE i = 2
      BY <2>1, <2>6, <3>1
    <3>2. CASE i # 2
      <4>1. i - 2 \in 1 .. Len(u) - 1 /\ i - 1 \in 1 .. Len(u) /\ (i - 2) + 1 = i - 1
            /\ (i - 1) + 1 = i /\ i - 1 \in 1 .. Len(s) - 1
        BY <2>1, <2>8, <3>2
      <4> QED BY <2>1, <2>5, <2>6, <3>2, <4>1
    <3> QED BY <3>1, <3>2
  <2>9. h = [s[2] EXCEPT !.refs = Tail(@), !.got = @ \cup got]
    BY <2>1 DEF h
  <2> QED BY <2>1, <2>6, <2>7, <2>8, <2>9
<1> QED BY <1>1, <1>2

LEMMA CallReturns ==
  ASSUME NEW p \in Sessions, NEW s \in Seq(Frame), s # <<>>, NEW got \in SUBSET Objects,
         NEW locks, NEW threads, NEW gen, NEW locks2, NEW threads2,
         CallsOK(p, s, locks, threads, gen),
         \A c \in Sets : c # s[1].set => locks2[c] = locks[c],
         threads2 = threads,
         \/ locks2 = locks /\ ~Holding(s[1])
         \/ Holding(s[1]) /\ locks2[s[1].set] = NoSession
  PROVE  /\ Returned(s, got) \in Seq(Frame)
         /\ CallsOK(p, Returned(s, got), locks2, threads2, gen)
         /\ Returned(s, got) # <<>> => Returned(s, got)[1].pc \in {"load", "rebuild"}
<1> DEFINE t == Returned(s, got)
<1>1. p # NoSession /\ \A i \in DOMAIN s : i # 1 => Suspended(s[i])
  BY SchemaAssumption DEF CallsOK
<1>2. /\ t \in Seq(Frame) /\ DOMAIN s = 1 .. Len(s) /\ Len(s) \in Nat /\ DOMAIN t = 1 .. Len(s) - 1
      /\ \A i \in DOMAIN s : i # 1 =>
           /\ i - 1 \in DOMAIN t
           /\ t[i - 1] = IF i = 2 THEN [s[2] EXCEPT !.refs = Tail(@), !.got = @ \cup got] ELSE s[i]
      /\ \A i \in DOMAIN t : i + 1 \in DOMAIN s
  BY <1>1, ReturnedFrames
<1> HIDE DEF t
<1>3. ASSUME NEW i \in DOMAIN t
      PROVE  /\ i + 1 \in DOMAIN s /\ i + 1 # 1 /\ t[i].set = s[i + 1].set /\ t[i].pc = s[i + 1].pc
             /\ t[i].verb = s[i + 1].verb /\ t[i].want = s[i + 1].want
             /\ i # 1 => t[i] = s[i + 1]
  <2>1. i + 1 \in DOMAIN s /\ i + 1 # 1 /\ (i + 1) - 1 = i /\ (i + 1 = 2 <=> i = 1)
    BY <1>2
  <2>2. s[i + 1] \in Frame
    BY <2>1, FrameFacts
  <2>3. t[i] = IF i = 1 THEN [s[i + 1] EXCEPT !.refs = Tail(@), !.got = @ \cup got] ELSE s[i + 1]
    BY <1>2, <2>1
  <2> QED BY <2>1, <2>2, <2>3 DEF Frame
<1>4. ASSUME NEW i \in DOMAIN s, i # 1
      PROVE  /\ Suspended(s[i]) /\ Holding(s[i]) /\ FrameOK(p, s[i], locks, threads, gen)
             /\ s[i].set \in Sets /\ s[i].set # Root /\ locks2[s[i].set] = locks[s[i].set]
  <2>1. Suspended(s[i]) /\ FrameOK(p, s[i], locks, threads, gen) /\ s[i].set \in Sets
    BY <1>4, FrameFacts DEF CallsOK
  <2>2. Holding(s[i]) /\ s[i].set # Root
    BY <2>1 DEF Suspended, Holding, FrameOK
  <2>3. Holding(s[1]) => s[i].set # s[1].set
    BY <1>2, <1>4, <2>2 DEF CallsOK
  <2> QED BY <2>1, <2>2, <2>3
<1>5. ASSUME NEW i \in DOMAIN t
      PROVE  FrameOK(p, t[i], locks2, threads2, gen) /\ Holding(t[i]) /\ (i # 1 => Suspended(t[i]))
  <2>1. /\ i + 1 \in DOMAIN s /\ i + 1 # 1 /\ t[i].set = s[i + 1].set /\ t[i].pc = s[i + 1].pc
        /\ t[i].verb = s[i + 1].verb /\ t[i].want = s[i + 1].want /\ (i # 1 => t[i] = s[i + 1])
    BY <1>3
  <2>2. /\ Suspended(s[i + 1]) /\ Holding(s[i + 1]) /\ FrameOK(p, s[i + 1], locks, threads, gen)
        /\ s[i + 1].set # Root /\ locks2[s[i + 1].set] = locks[s[i + 1].set]
    BY <1>4, <2>1
  <2> QED BY <2>1, <2>2 DEF FrameOK, Holding
<1>6. \A i, j \in DOMAIN t : i # j => t[i].set # t[j].set
  <2> SUFFICES ASSUME NEW i \in DOMAIN t, NEW j \in DOMAIN t, i # j PROVE t[i].set # t[j].set
    OBVIOUS
  <2>1. i + 1 # j + 1 /\ i + 1 \in DOMAIN s /\ j + 1 \in DOMAIN s
    BY <1>2
  <2>2. s[i + 1].set # s[j + 1].set
    BY <1>3, <1>4, <2>1 DEF CallsOK
  <2> QED BY <1>3, <2>2
<1>7. ASSUME NEW c \in Sets, locks2[c] = p
      PROVE  \E i \in DOMAIN t : Holding(t[i]) /\ t[i].set = c
  <2>1. locks[c] = p /\ ~(Holding(s[1]) /\ c = s[1].set)
    BY <1>1, <1>7
  <2>2. PICK i \in DOMAIN s : Holding(s[i]) /\ s[i].set = c
    BY <2>1 DEF CallsOK
  <2>3. i # 1 /\ i - 1 \in DOMAIN t /\ (i - 1) + 1 = i
    BY <1>2, <2>1, <2>2
  <2>4. t[i - 1].set = c
    BY <1>3, <2>2, <2>3
  <2> QED BY <1>5, <2>3, <2>4
<1>8. CallsOK(p, t, locks2, threads2, gen)
  BY <1>5, <1>6, <1>7 DEF CallsOK
<1>9. t # <<>> => t[1].pc \in {"load", "rebuild"}
  <2> SUFFICES ASSUME t # <<>> PROVE t[1].pc \in {"load", "rebuild"}
    OBVIOUS
  <2>1. 1 \in DOMAIN t
    BY <1>2
  <2>2. t[1].pc = s[2].pc /\ 2 \in DOMAIN s
    BY <1>3, <2>1
  <2> QED BY <1>4, <2>2 DEF Suspended
<1> QED BY <1>2, <1>8, <1>9 DEF t

-------------------------------------------------------------------------------
(* Every step keeps the types and the locks.                               *)

LEMMA StateFacts ==
  ASSUME LocksInv
  PROVE  /\ stack \in [Sessions -> Seq(Frame)] /\ answers \in [Sessions -> Seq(SUBSET Known)]
         /\ calls \in [Sessions -> 0 .. MaxCalls]
         /\ generation \in 0 .. MaxLoads /\ generation \in Nat /\ MaxLoads \in Nat
         /\ DOMAIN loadLock = Sets /\ DOMAIN loadingThread = Sets
         /\ \A c \in Sets : loadingThread[c] \in {NoSession, loadLock[c]}
<1>1. DataOK /\ TypeOK
  BY DEF LocksInv, DataOK
<1>2. MaxLoads \in Nat
  BY SchemaAssumption
<1> QED BY <1>1, <1>2 DEF DataOK, TypeOK

LEMMA TopFacts ==
  ASSUME LocksInv, NEW p \in Sessions, stack[p] # <<>>
  PROVE  /\ stack[p] \in Seq(Frame) /\ stack[p][1] \in Frame /\ 1 \in DOMAIN stack[p]
         /\ stack[p][1].set \in Sets
         /\ FrameOK(p, stack[p][1], loadLock, loadingThread, generation)
         /\ CallsOK(p, stack[p], loadLock, loadingThread, generation)
         /\ AnswersOK(stack[p], answers[p], generation)
<1>1. stack[p] \in Seq(Frame) /\ CallsOK(p, stack[p], loadLock, loadingThread, generation)
      /\ AnswersOK(stack[p], answers[p], generation)
  BY DEF LocksInv, DataOK
<1>2. 1 \in DOMAIN stack[p]
  BY <1>1
<1>3. stack[p][1] \in Frame /\ stack[p][1].set \in Sets
  BY <1>1, <1>2, FrameFacts
<1> QED BY <1>1, <1>2, <1>3 DEF CallsOK

\* A step of p that keeps the types and is right about the calls of p.
LEMMA SessionStep ==
  ASSUME LocksInv, NEW p \in Sessions, DataOK', NEW s \in Seq(Frame),
         stack' = [stack EXCEPT ![p] = s],
         \A q \in Sessions : q # p => answers'[q] = answers[q],
         generation' >= generation, generation' = generation \/ loadLock[Root] = p,
         \A c \in Sets : \/ loadLock'[c] = loadLock[c] /\ loadingThread'[c] = loadingThread[c]
                         \/ loadLock[c] \in {p, NoSession} /\ loadLock'[c] \in {p, NoSession},
         CallsOK(p, s, loadLock', loadingThread', generation'),
         AnswersOK(s, answers'[p], generation')
  PROVE  LocksInv'
<1>1. generation \in Nat /\ generation' \in Nat /\ stack \in [Sessions -> Seq(Frame)]
  BY SchemaAssumption DEF LocksInv, DataOK, TypeOK
<1>2. stack'[p] = s /\ \A q \in Sessions : q # p => stack'[q] = stack[q]
  BY <1>1
<1>3. ASSUME NEW q \in Sessions, q # p
      PROVE  /\ CallsOK(q, stack[q], loadLock', loadingThread', generation')
             /\ AnswersOK(stack[q], answers[q], generation')
  <2>1. /\ stack[q] \in Seq(Frame) /\ CallsOK(q, stack[q], loadLock, loadingThread, generation)
        /\ AnswersOK(stack[q], answers[q], generation)
    BY <1>1 DEF LocksInv
  <2>2. CallsOK(q, stack[q], loadLock', loadingThread', generation')
    BY <1>1, <1>3, <2>1, OtherCalls
  <2>3. stack[q] # <<>> /\ stack[q][1].pc = "slice" => loadLock[Root] = q
    BY <2>1, TopFacts DEF FrameOK, Holding
  <2>4. AnswersOK(stack[q], answers[q], generation')
    BY <1>3, <2>1, <2>3 DEF AnswersOK
  <2> QED BY <2>2, <2>4
<1>4. ASSUME NEW q \in Sessions
      PROVE  /\ CallsOK(q, stack'[q], loadLock', loadingThread', generation')
             /\ AnswersOK(stack'[q], answers'[q], generation')
  <2>1. CASE q = p
    BY <1>2, <2>1
  <2>2. CASE q # p
    BY <1>2, <1>3, <2>2
  <2> QED BY <2>1, <2>2
<1>5. (\A q \in Sessions : /\ CallsOK(q, stack[q], loadLock, loadingThread, generation)
                           /\ AnswersOK(stack[q], answers[q], generation))'
  BY <1>4 DEF CallsOK, FrameOK, AnswersOK
<1> QED BY <1>5 DEF LocksInv

\* Where only the calls change, the types are those of the calls.
LEMMA CallStep ==
  ASSUME LocksInv, NEW p \in Sessions, NEW s \in Seq(Frame),
         stack' = [stack EXCEPT ![p] = s],
         UNCHANGED <<byName, serverVars, snapshot, setVars, answers, failures>>,
         calls' \in [Sessions -> 0 .. MaxCalls],
         CallsOK(p, s, loadLock, loadingThread, generation),
         AnswersOK(s, answers[p], generation)
  PROVE  LocksInv'
<1>1. stack' \in [Sessions -> Seq(Frame)] /\ generation \in Nat
  BY SchemaAssumption DEF LocksInv, DataOK, TypeOK
<1>2. TypeOK'
  BY DEF LocksInv, DataOK, TypeOK
<1>3. DataOK'
  BY <1>1, <1>2 DEF LocksInv, DataOK
<1>4. CallsOK(p, s, loadLock', loadingThread', generation') /\ AnswersOK(s, answers'[p], generation')
  OBVIOUS
<1>5. /\ generation' = generation /\ generation' >= generation /\ answers' = answers
      /\ loadLock' = loadLock /\ loadingThread' = loadingThread
  BY <1>1
<1> QED BY <1>3, <1>4, <1>5, SessionStep

LEMMA NewCalls ==
  ASSUME LocksInv, NEW p \in Sessions, NEW verb \in {"find", "create", "drop"},
         NEW want \in Schemas \cup Objects, verb # "find" => want \in OwnDdl,
         NEW s \in Schemas, s \in NamesOf(verb, want)
  PROVE  /\ SchemaCall(p, verb, want, s) \in Frame
         /\ SchemaCall(p, verb, want, s).pc \in {"find", "lock"}
         /\ FrameOK(p, SchemaCall(p, verb, want, s), loadLock, loadingThread, generation)
         /\ \A c \in Sets \ {Root} : want \in Objects =>
              /\ SetCall(p, c, verb, want) \in Frame
              /\ SetCall(p, c, verb, want).pc \in {"find", "lock"}
              /\ FrameOK(p, SetCall(p, c, verb, want), loadLock, loadingThread, generation)
<1>1. ASSUME NEW c \in Sets
      PROVE  /\ SetCall(p, c, verb, want) \in Frame
             /\ SetCall(p, c, verb, want).pc \in {"find", "lock"}
  BY NoEntries DEF SetCall, Frame, Pcs
<1>2. ASSUME NEW c \in Sets \ {Root}, want \in Objects
      PROVE  FrameOK(p, SetCall(p, c, verb, want), loadLock, loadingThread, generation)
  BY <1>2 DEF SetCall, FrameOK, Holding
<1>3. Root \in Sets /\ Root[1] # "types" /\ (loaded[Root] => generation >= 1)
  BY SetFacts DEF LocksInv, DataOK
<1>4. SchemaCall(p, verb, want, s) \in Frame /\ SchemaCall(p, verb, want, s).pc \in {"find", "lock"}
  BY <1>1, <1>3, SchemaOfType DEF SchemaCall, SetCall, Frame
<1>5. FrameOK(p, SchemaCall(p, verb, want, s), loadLock, loadingThread, generation)
  BY <1>3 DEF SchemaCall, SetCall, SkipsLoad, FrameOK, Holding
<1> QED BY <1>1, <1>2, <1>4, <1>5

LEMMA StatementStarts ==
  ASSUME LocksInv, NEW p \in Sessions, Lookup(p) \/ StartDdl(p)
  PROVE  LocksInv'
<1>1. PICK verb \in {"find", "create", "drop"}, want \in Schemas \cup Objects, s \in Schemas :
        /\ verb # "find" => want \in OwnDdl
        /\ s \in NamesOf(verb, want)
        /\ stack' = [stack EXCEPT ![p] = <<SchemaCall(p, verb, want, s)>>]
  BY SchemaAssumption DEF Lookup, StartDdl
<1>2. /\ stack[p] = <<>> /\ calls[p] > 0 /\ calls' = [calls EXCEPT ![p] = @ - 1]
      /\ UNCHANGED <<byName, serverVars, snapshot, setVars, answers, failures>>
  BY DEF Lookup, StartDdl
<1> DEFINE f == SchemaCall(p, verb, want, s)
<1>3. /\ f \in Frame /\ f.pc \in {"find", "lock"}
      /\ FrameOK(p, f, loadLock, loadingThread, generation)
  BY <1>1, NewCalls
<1> HIDE DEF f
<1>4. /\ CallsOK(p, stack[p], loadLock, loadingThread, generation)
      /\ AnswersOK(stack[p], answers[p], generation)
  BY DEF LocksInv
<1>5. <<f>> \o <<>> = <<f>> /\ <<>> \in Seq(Frame) /\ ~Holding(f)
  BY <1>3 DEF Holding
<1>6. <<f>> \in Seq(Frame) /\ CallsOK(p, <<f>>, loadLock, loadingThread, generation)
  BY <1>2, <1>3, <1>4, <1>5, CallStarts
<1>7. AnswersOK(<<f>>, answers[p], generation)
  BY <1>2, <1>3, <1>4 DEF AnswersOK
<1>8. calls' \in [Sessions -> 0 .. MaxCalls]
  BY <1>2, SchemaAssumption DEF LocksInv, DataOK
<1> QED BY <1>1, <1>2, <1>6, <1>7, <1>8, CallStep DEF f

\* A call that returns without having held load_lock.
LEMMA QuietReturn ==
  ASSUME LocksInv, NEW p \in Sessions, stack[p] # <<>>, NEW got \in SUBSET Objects,
         ~Holding(Top(p))
  PROVE  /\ Returned(stack[p], got) \in Seq(Frame)
         /\ CallsOK(p, Returned(stack[p], got), loadLock, loadingThread, generation)
         /\ AnswersOK(Returned(stack[p], got), answers[p], generation)
<1>1. /\ stack[p] \in Seq(Frame) /\ ~Holding(stack[p][1])
      /\ CallsOK(p, stack[p], loadLock, loadingThread, generation)
      /\ AnswersOK(stack[p], answers[p], generation)
  BY TopFacts DEF Top
<1>2. /\ Returned(stack[p], got) \in Seq(Frame)
      /\ CallsOK(p, Returned(stack[p], got), loadLock, loadingThread, generation)
      /\ Returned(stack[p], got) # <<>> => Returned(stack[p], got)[1].pc \in {"load", "rebuild"}
  BY <1>1, CallReturns
<1>3. stack[p][1].pc \notin {"query", "slice"}
  BY <1>1 DEF Holding
<1>4. AnswersOK(Returned(stack[p], got), answers[p], generation)
  BY <1>1, <1>2, <1>3 DEF AnswersOK
<1> QED BY <1>2, <1>4

LEMMA ReturnStack ==
  ASSUME NEW p \in Sessions, NEW got, NEW found, Return(p, got, found)
  PROVE  stack' = [stack EXCEPT ![p] = Returned(stack[p], got)]
BY DEF Return, Returned

\* The innermost call goes on without a lock: its new frame decides.
LEMMA QuietStep ==
  ASSUME LocksInv, NEW p \in Sessions, stack[p] # <<>>, NEW f \in Frame,
         ~Holding(Top(p)), ~Holding(f),
         FrameOK(p, f, loadLock, loadingThread, generation)
  PROVE  /\ [stack[p] EXCEPT ![1] = f] \in Seq(Frame)
         /\ CallsOK(p, [stack[p] EXCEPT ![1] = f], loadLock, loadingThread, generation)
         /\ AnswersOK([stack[p] EXCEPT ![1] = f], answers[p], generation)
<1>1. /\ stack[p] \in Seq(Frame) /\ ~Holding(stack[p][1]) /\ 1 \in DOMAIN stack[p]
      /\ CallsOK(p, stack[p], loadLock, loadingThread, generation)
      /\ AnswersOK(stack[p], answers[p], generation)
  BY TopFacts DEF Top
<1>2. generation \in Nat /\ generation >= generation
  BY SchemaAssumption DEF LocksInv, DataOK, TypeOK
<1> DEFINE t == [stack[p] EXCEPT ![1] = f]
<1>3. t \in Seq(Frame) /\ CallsOK(p, t, loadLock, loadingThread, generation)
  BY <1>1, <1>2, TopGoesOn
<1>4. t # <<>> /\ t[1] = f
  BY <1>1
<1>5. stack[p][1].pc \notin {"query", "slice"} /\ f.pc \notin {"query", "slice"}
  BY <1>1 DEF Holding
<1> HIDE DEF t
<1>6. AnswersOK(t, answers[p], generation)
  BY <1>1, <1>4, <1>5 DEF AnswersOK
<1> QED BY <1>3, <1>6 DEF t

LEMMA SchemaFound ==
  ASSUME LocksInv, NEW p \in Sessions, FindSchema(p)
  PROVE  LocksInv'
<1> DEFINE f == Top(p)
           known == f.name \in DOMAIN entries[Root]
           c == <<SetKind(f.want), f.name, entries[Root][f.name]>>
<1>1. stack[p] # <<>> /\ f = stack[p][1] /\ f.pc = "find" /\ f.set = Root
      /\ UNCHANGED <<byName, serverVars, snapshot, setVars, answers, failures, calls>>
  BY DEF FindSchema, At, Top
<1>2. f \in Frame /\ FrameOK(p, f, loadLock, loadingThread, generation) /\ ~Holding(f)
  BY <1>1, TopFacts DEF Holding
<1>3. calls' \in [Sessions -> 0 .. MaxCalls]
  BY <1>1, StateFacts
<1>4. ASSUME NEW g \in Frame, ~Holding(g), FrameOK(p, g, loadLock, loadingThread, generation),
             stack' = [stack EXCEPT ![p][1] = g]
      PROVE  LocksInv'
  <2>1. stack' = [stack EXCEPT ![p] = [stack[p] EXCEPT ![1] = g]]
    BY <1>4
  <2> QED BY <1>1, <1>2, <1>3, <1>4, <2>1, QuietStep, CallStep
<1>5. ASSUME NEW got \in SUBSET Objects, NEW found, Return(p, got, found)
      PROVE  LocksInv'
  BY <1>1, <1>2, <1>3, <1>5, ReturnStack, QuietReturn, CallStep
<1>6. CASE f.want = f.name /\ Goto(p, "ddl") /\ f.verb # "find"
  <2>1. f.want \in Schemas
    BY <1>1, <1>2, <1>6, FrameFacts, SchemaOfType DEF FrameOK
  <2> DEFINE g == [f EXCEPT !.pc = "ddl"]
  <2>2. g \in Frame /\ ~Holding(g) /\ FrameOK(p, g, loadLock, loadingThread, generation)
    BY <1>1, <1>2, <2>1 DEF Frame, Pcs, FrameOK, Holding
  <2>3. stack' = [stack EXCEPT ![p][1] = g]
    BY <1>1, <1>6 DEF Goto
  <2> QED BY <1>4, <2>2, <2>3
<1>7. CASE f.want # f.name /\ known
            /\ stack' = [stack EXCEPT ![p][1] =
                 IF f.verb = "create" THEN [f EXCEPT !.set = c, !.pc = "ddl"]
                 ELSE SetCall(p, c, f.verb, f.want)]
  <2>1. f.want \in Objects /\ f.name \in Schemas
    BY <1>1, <1>2, <1>7, FrameFacts, SchemaOfType DEF FrameOK, NamesOf
  <2>2. entries[Root] \in MapsInto(Schemas, 1 .. MaxLoads)
    BY SetFacts DEF LocksInv, DataOK, EntriesOf
  <2>3. entries[Root][f.name] \in 1 .. MaxLoads
    BY <1>7, <2>2, MapFacts
  <2>4. c \in Sets \ {Root}
    BY <2>1, <2>3, SetFacts DEF SetKind
  <2> HIDE DEF c
  <2>5. CASE f.verb = "create"
    <3> DEFINE g == [f EXCEPT !.set = c, !.pc = "ddl"]
    <3>1. g \in Frame
      BY <1>2, <2>4 DEF Frame, Pcs
    <3>2. /\ g.set = c /\ g.pc = "ddl" /\ g.verb = f.verb /\ g.want = f.want
      BY <1>2 DEF Frame
    <3> HIDE DEF g
    <3>3. ~Holding(g) /\ FrameOK(p, g, loadLock, loadingThread, generation)
      BY <1>2, <2>1, <2>4, <3>2 DEF FrameOK, Holding
    <3>4. stack' = [stack EXCEPT ![p][1] = g]
      BY <1>7, <2>5 DEF g
    <3> QED BY <1>4, <3>1, <3>3, <3>4
  <2>6. CASE f.verb # "create"
    <3>1. /\ f.verb \in {"find", "create", "drop"} /\ (f.verb # "find" => f.want \in OwnDdl)
          /\ f.name \in NamesOf(f.verb, f.want)
      BY <1>1, <1>2, FrameFacts DEF FrameOK
    <3> DEFINE g == SetCall(p, c, f.verb, f.want)
    <3>2. g \in Frame /\ ~Holding(g) /\ FrameOK(p, g, loadLock, loadingThread, generation)
      BY <2>1, <2>4, <3>1, NewCalls DEF Holding
    <3>3. stack' = [stack EXCEPT ![p][1] = g]
      BY <1>7, <2>6
    <3> HIDE DEF g
    <3> QED BY <1>4, <3>2, <3>3
  <2> QED BY <2>5, <2>6
<1>8. {} \in SUBSET Objects
  OBVIOUS
<1> QED BY <1>5, <1>6, <1>7, <1>8 DEF FindSchema

LEMMA EntryFound ==
  ASSUME LocksInv, NEW p \in Sessions, FindEntry(p)
  PROVE  LocksInv'
<1> DEFINE f == Top(p)
           known == f.want \in DOMAIN entries[f.set]
<1>1. stack[p] # <<>> /\ f = stack[p][1] /\ f.pc = "find" /\ f.set # Root
      /\ UNCHANGED <<byName, serverVars, snapshot, setVars, answers, failures, calls>>
  BY DEF FindEntry, At, Top
<1>2. f \in Frame /\ FrameOK(p, f, loadLock, loadingThread, generation) /\ ~Holding(f)
  BY <1>1, TopFacts DEF Holding
<1>3. calls' \in [Sessions -> 0 .. MaxCalls]
  BY <1>1, StateFacts
<1>4. \/ Goto(p, "ddl")
      \/ known /\ Return(p, entries[f.set][f.want], TRUE)
      \/ f.set[1] = "tables" /\ Goto(p, "relock")
      \/ Return(p, {}, FALSE)
  BY DEF FindEntry
<1>5. ASSUME NEW pc \in {"ddl", "relock"}, Goto(p, pc), pc = "relock" => f.set[1] = "tables"
      PROVE  LocksInv'
  <2> DEFINE g == [f EXCEPT !.pc = pc]
  <2>1. g \in Frame /\ ~Holding(g) /\ FrameOK(p, g, loadLock, loadingThread, generation)
    BY <1>1, <1>2, <1>5 DEF Frame, Pcs, FrameOK, Holding
  <2>2. stack' = [stack EXCEPT ![p] = [stack[p] EXCEPT ![1] = g]]
    BY <1>1, <1>5 DEF Goto
  <2> HIDE DEF g
  <2> QED BY <1>1, <1>2, <1>3, <2>1, <2>2, QuietStep, CallStep
<1>6. ASSUME NEW got \in SUBSET Objects, NEW found, Return(p, got, found)
      PROVE  LocksInv'
  BY <1>1, <1>2, <1>3, <1>6, ReturnStack, QuietReturn, CallStep
<1>7. known => entries[f.set][f.want] \in SUBSET Objects
  <2>1. entries[f.set] \in MapsInto(Objects, SUBSET Objects)
    BY <1>1, <1>2, FrameFacts DEF LocksInv, DataOK, EntriesOf
  <2> QED BY <2>1, MapFacts
<1>8. {} \in SUBSET Objects
  OBVIOUS
<1> QED BY <1>4, <1>5, <1>6, <1>7, <1>8

LEMMA TypeLookedUp ==
  ASSUME LocksInv, NEW p \in Sessions, ResolveType(p)
  PROVE  LocksInv'
<1> DEFINE f == Top(p)
           r == f.refs[1]
           g == IF SchemaOf[r] = f.set[2] THEN SetCall(p, <<"types", f.set[2], f.set[3]>>, "find", r)
                ELSE SchemaCall(p, "find", r, SchemaOf[r])
<1>1. /\ stack[p] # <<>> /\ f = stack[p][1] /\ f.pc \in {"load", "rebuild"} /\ f.refs # <<>>
      /\ stack' = [stack EXCEPT ![p] = <<g>> \o @]
      /\ UNCHANGED <<byName, serverVars, snapshot, setVars, answers, failures, calls>>
  BY DEF ResolveType, Building, At, Top
<1>2. /\ f \in Frame /\ FrameOK(p, f, loadLock, loadingThread, generation) /\ Suspended(f)
      /\ stack[p] \in Seq(Frame) /\ CallsOK(p, stack[p], loadLock, loadingThread, generation)
      /\ AnswersOK(stack[p], answers[p], generation)
  BY <1>1, TopFacts DEF Suspended
<1>3. r \in Objects
  <2>1. f.refs \in Seq(Types)
    BY <1>2, FrameFacts
  <2> QED BY <1>1, <2>1 DEF Types
<1>4. f.set \in Sets \ {Root} /\ <<"types", f.set[2], f.set[3]>> \in Sets \ {Root}
  BY <1>1, <1>2, FrameFacts, SetFacts DEF FrameOK
<1>5. /\ g \in Frame /\ g.pc \in {"find", "lock"}
      /\ FrameOK(p, g, loadLock, loadingThread, generation)
  <2>1. SchemaOf[r] \in Schemas /\ SchemaOf[r] \in NamesOf("find", r)
    BY <1>3, SchemaOfType DEF NamesOf
  <2> QED BY <1>3, <1>4, <2>1, NewCalls
<1> HIDE DEF g
<1>6. <<g>> \o stack[p] \in Seq(Frame)
      /\ CallsOK(p, <<g>> \o stack[p], loadLock, loadingThread, generation)
  BY <1>1, <1>2, <1>5, CallStarts DEF Holding
<1>7. AnswersOK(<<g>> \o stack[p], answers[p], generation)
  <2>1. (<<g>> \o stack[p])[1] = g /\ <<g>> \o stack[p] # <<>>
    BY <1>2
  <2>2. answers[p] = <<>>
    BY <1>1, <1>2 DEF AnswersOK
  <2> QED BY <1>5, <2>1, <2>2 DEF AnswersOK
<1>8. stack' = [stack EXCEPT ![p] = <<g>> \o stack[p]] /\ calls' \in [Sessions -> 0 .. MaxCalls]
  BY <1>1, StateFacts
<1> QED BY <1>1, <1>6, <1>7, <1>8, CallStep

\* The innermost call of p takes load_lock of its set, gives it back, or keeps what it has.
LEMMA LockStep ==
  ASSUME LocksInv, NEW p \in Sessions, stack[p] # <<>>, NEW f \in Frame, DataOK',
         stack' = [stack EXCEPT ![p][1] = f],
         \A q \in Sessions : q # p => answers'[q] = answers[q],
         generation' >= generation, generation' = generation \/ loadLock[Root] = p,
         \A c \in Sets : c # Top(p).set =>
           loadLock'[c] = loadLock[c] /\ loadingThread'[c] = loadingThread[c],
         LET c == Top(p).set
         IN  \/ /\ loadLock'[c] = loadLock[c] /\ loadingThread'[c] = loadingThread[c]
                /\ Holding(f) <=> Holding(Top(p))
                /\ Holding(f) => f.set = c
             \/ loadLock[c] = NoSession /\ loadLock'[c] = p /\ Holding(f) /\ f.set = c
             \/ Holding(Top(p)) /\ ~Holding(f) /\ loadLock'[c] = NoSession,
         FrameOK(p, f, loadLock', loadingThread', generation'),
         AnswersOK(<<f>>, answers'[p], generation')
  PROVE  LocksInv'
<1> DEFINE s == [stack[p] EXCEPT ![1] = f]
<1>1. /\ stack[p] \in Seq(Frame) /\ 1 \in DOMAIN stack[p] /\ Top(p) = stack[p][1]
      /\ Top(p).set \in Sets /\ FrameOK(p, Top(p), loadLock, loadingThread, generation)
      /\ CallsOK(p, stack[p], loadLock, loadingThread, generation)
  BY TopFacts DEF Top
<1>2. generation \in Nat /\ generation' \in Nat
  BY SchemaAssumption DEF LocksInv, DataOK, TypeOK
<1>3. s \in Seq(Frame) /\ CallsOK(p, s, loadLock', loadingThread', generation')
  <2> DEFINE c == stack[p][1].set
  <2>1. CASE /\ loadLock'[c] = loadLock[c] /\ loadingThread'[c] = loadingThread[c]
             /\ Holding(f) <=> Holding(stack[p][1])
             /\ Holding(f) => f.set = c
    <3>1. \A d \in Sets : d # stack[p][1].set =>
            loadLock'[d] = loadLock[d] /\ loadingThread'[d] = loadingThread[d]
      BY <1>1
    <3>2. stack[p] # <<>> /\ generation' >= generation
      OBVIOUS
    <3> QED BY ONLY <1>1, <1>2, <2>1, <3>1, <3>2, TopGoesOn,
               FrameOK(p, f, loadLock', loadingThread', generation')
  <2>2. CASE loadLock[c] = NoSession /\ loadLock'[c] = p /\ Holding(f) /\ f.set = c
    <3>1. loadLock[stack[p][1].set] = NoSession /\ Holding(f) /\ f.set = stack[p][1].set
      BY <2>2
    <3>2. \A d \in Sets : d # stack[p][1].set =>
            loadLock'[d] = loadLock[d] /\ loadingThread'[d] = loadingThread[d]
      BY <1>1
    <3>3. stack[p] # <<>> /\ generation' >= generation
      OBVIOUS
    <3> QED BY ONLY <1>1, <1>2, <3>1, <3>2, <3>3, TopGoesOn,
               FrameOK(p, f, loadLock', loadingThread', generation')
  <2>3. CASE Holding(stack[p][1]) /\ ~Holding(f) /\ loadLock'[c] = NoSession
    <3>1. \A d \in Sets : d # stack[p][1].set =>
            loadLock'[d] = loadLock[d] /\ loadingThread'[d] = loadingThread[d]
      BY <1>1
    <3>2. stack[p] # <<>> /\ generation' >= generation
      OBVIOUS
    <3> QED BY ONLY <1>1, <1>2, <2>3, <3>1, <3>2, TopGoesOn,
               FrameOK(p, f, loadLock', loadingThread', generation')
  <2> QED BY <1>1, <2>1, <2>2, <2>3
<1>4. s # <<>> /\ s[1] = f /\ <<f>> # <<>> /\ <<f>>[1] = f
  BY <1>1
<1>5. stack' = [stack EXCEPT ![p] = s]
  OBVIOUS
<1> HIDE DEF s
<1>6. AnswersOK(s, answers'[p], generation')
  BY <1>4 DEF AnswersOK
<1>7. \A c \in Sets : \/ loadLock'[c] = loadLock[c] /\ loadingThread'[c] = loadingThread[c]
                      \/ loadLock[c] \in {p, NoSession} /\ loadLock'[c] \in {p, NoSession}
  BY <1>1 DEF FrameOK
<1> QED BY <1>3, <1>5, <1>6, <1>7, SessionStep

LEMMA InsertType ==
  ASSUME LocksInv, NEW c \in Sets, NEW new \in EntriesOf(c), Insert(c, new)
  PROVE  DOMAIN entries' = Sets /\ \A d \in Sets : entries'[d] \in EntriesOf(d)
<1>1. DOMAIN entries = Sets /\ \A d \in Sets : entries[d] \in EntriesOf(d)
  BY DEF LocksInv, DataOK
<1>2. entries' = [entries EXCEPT ![c] = Joined(entries[c], new)]
  BY DEF Insert
<1>3. Joined(entries[c], new) \in EntriesOf(c)
  BY <1>1, JoinedType DEF EntriesOf
<1> QED BY <1>1, <1>2, <1>3

LEMMA ListedType ==
  ASSUME NEW c \in Sets, NEW rows \in Seq(Objects), c = Root => rows = <<>>
  PROVE  (IF c[1] = "types" THEN InitializeEnums(rows) ELSE LoadIndexes(rows)) \in EntriesOf(c)
<1>1. ToSet(rows) \in SUBSET Objects
  BY DEF ToSet
<1>2. c = Root => ToSet(rows) = {}
  BY DEF ToSet
<1>3. InitializeEnums(rows) \in [ToSet(rows) -> SUBSET Objects]
  BY <1>1 DEF InitializeEnums
<1>4. LoadIndexes(rows) \in [ToSet(rows) -> SUBSET Objects]
  BY DEF LoadIndexes
<1>5. CASE c = Root
  <2>1. LoadIndexes(rows) \in [{} -> 1 .. MaxLoads] /\ {} \in SUBSET Schemas
    BY <1>2, <1>5 DEF LoadIndexes
  <2>2. c[1] # "types"
    BY <1>5, SetFacts
  <2> QED BY <1>5, <2>1, <2>2, IsMap DEF EntriesOf
<1>6. CASE c # Root
  BY <1>1, <1>3, <1>4, <1>6, IsMap DEF EntriesOf
<1> QED BY <1>5, <1>6

LEMMA LoadBegins ==
  ASSUME LocksInv, NEW p \in Sessions, LockToLoad(p)
  PROVE  LocksInv'
<1> DEFINE f == Top(p)
           c == f.set
           todo == slice[c][2]
           g == [f EXCEPT !.pc = IF c = Root THEN "query" ELSE "load",
                          !.todo = todo, !.refs = RefsOfFirst(todo)]
<1>1. /\ stack[p] # <<>> /\ f = stack[p][1] /\ f.pc = "lock" /\ loadLock[c] = NoSession
      /\ UNCHANGED <<byName, serverVars, snapshot, generation, loaded, slice, answers, calls,
                     failures>>
  BY DEF LockToLoad, At, Top
<1>2. /\ f \in Frame /\ c \in Sets /\ FrameOK(p, f, loadLock, loadingThread, generation)
      /\ ~Holding(f) /\ AnswersOK(stack[p], answers[p], generation)
  BY <1>1, TopFacts DEF Holding
<1>3. answers[p] = <<>>
  BY <1>1, <1>2 DEF AnswersOK
<1>4. CASE loaded[c] /\ Goto(p, "find") /\ UNCHANGED <<loadLock, loadingThread, entries>>
  <2> DEFINE h == [f EXCEPT !.pc = "find"]
  <2>1. c = Root => generation >= 1
    BY <1>4 DEF LocksInv, DataOK
  <2>2. h \in Frame /\ ~Holding(h) /\ FrameOK(p, h, loadLock, loadingThread, generation)
    BY <1>1, <1>2, <2>1 DEF Frame, Pcs, FrameOK, Holding
  <2>3. stack' = [stack EXCEPT ![p] = [stack[p] EXCEPT ![1] = h]]
    BY <1>1, <1>4 DEF Goto
  <2>4. calls' \in [Sessions -> 0 .. MaxCalls]
    BY <1>1, StateFacts
  <2> HIDE DEF h
  <2> QED BY <1>1, <1>2, <1>4, <2>2, <2>3, <2>4, QuietStep, CallStep
<1>5. CASE ~loaded[c]
  <2>1. /\ loadLock' = [loadLock EXCEPT ![c] = p]
        /\ loadingThread' = [loadingThread EXCEPT ![c] = p]
        /\ Insert(c, IF c[1] = "types" THEN InitializeEnums(slice[c][1])
                     ELSE LoadIndexes(slice[c][1]))
        /\ stack' = [stack EXCEPT ![p][1] = g]
    BY <1>1, <1>5 DEF LockToLoad
  <2>2. slice[c] \in Seq(Objects) \X Seq(Own(c)) /\ (c = Root => slice[c] = << <<>>, <<>> >>)
    BY <1>2 DEF LocksInv, DataOK, NoSlice
  <2>3. slice[c][1] \in Seq(Objects) /\ todo \in Seq(Objects)
        /\ (c = Root => slice[c][1] = <<>> /\ todo = <<>>)
    <3>1. \A t \in Seq(Own(c)) : t \in Seq(Objects)
      BY DEF Own
    <3> QED BY <2>2, <3>1
  <2>4. DOMAIN entries' = Sets /\ \A d \in Sets : entries'[d] \in EntriesOf(d)
    BY <1>2, <2>1, <2>3, ListedType, InsertType
  <2> HIDE DEF todo
  <2>5. RefsOfFirst(todo) \in Seq(Types) /\ (c = Root => RefsOfFirst(todo) = <<>>)
    BY <2>3, RefsType DEF RefsOfFirst
  <2>6. g \in Frame
    BY <1>2, <2>3, <2>5 DEF Frame, Pcs
  <2>7. /\ g.set = c /\ Holding(g) /\ g.pc = (IF c = Root THEN "query" ELSE "load")
        /\ g.verb = f.verb /\ g.want = f.want /\ g.name = f.name /\ g.built = f.built
        /\ g.todo = todo /\ g.refs = RefsOfFirst(todo)
    BY <1>2 DEF Frame, Holding
  <2> HIDE DEF g
  <2>8. loadLock'[c] = p /\ loadingThread'[c] = p
        /\ \A d \in Sets : d # c => loadLock'[d] = loadLock[d] /\ loadingThread'[d] = loadingThread[d]
    BY <1>2, <2>1 DEF LocksInv, DataOK, TypeOK
  <2>9. FrameOK(p, g, loadLock', loadingThread', generation')
    BY <1>2, <2>3, <2>5, <2>7, <2>8 DEF FrameOK
  <2>10. AnswersOK(<<g>>, answers'[p], generation')
    BY <1>1, <1>3, <2>7 DEF AnswersOK
  <2>11. TypeOK'
    BY <1>1, <1>2, <2>1, <2>8 DEF LocksInv, DataOK, TypeOK
  <2>12. stack' \in [Sessions -> Seq(Frame)]
    <3>1. stack \in [Sessions -> Seq(Frame)] /\ [stack[p] EXCEPT ![1] = g] \in Seq(Frame)
      BY <1>1, <2>6 DEF LocksInv, DataOK
    <3> QED BY <2>1, <3>1
  <2>13. loadingThread' \in [Sets -> Sessions \cup {NoSession}]
    BY <2>1 DEF LocksInv, DataOK
  <2>14. DataOK'
    BY <1>1, <2>4, <2>11, <2>12, <2>13 DEF LocksInv, DataOK
  <2>15. generation' >= generation
    BY <1>1, SchemaAssumption DEF LocksInv, DataOK, TypeOK
  <2> QED BY <1>1, <2>1, <2>6, <2>7, <2>8, <2>9, <2>10, <2>14, <2>15, LockStep
<1> QED BY <1>4, <1>5, <1>1 DEF LockToLoad

LEMMA SnapshotType ==
  ASSUME LocksInv, NEW p \in Sessions
  PROVE  /\ View(p) \subseteq Known
         /\ Started(p) => snapshot' \in [Sessions -> (SUBSET Known) \cup {Unstarted}]
<1>1. /\ snapshot \in [Sessions -> (SUBSET Known) \cup {Unstarted}]
      /\ exists \subseteq Known
  BY DEF LocksInv, DataOK, TypeOK
<1>2. View(p) \subseteq Known
  BY <1>1 DEF View
<1> QED BY <1>1, <1>2 DEF Started

LEMMA QueryAnswered ==
  ASSUME LocksInv, NEW p \in Sessions, QuerySchemas(p)
  PROVE  LocksInv'
<1> DEFINE f == Top(p)
           n == Len(answers[p])
           kind == AnswerTo[n + 1]
           seen == {x \in View(p) \cap Listed : kind # "schema" => x \in Objects /\ KindOf[x] = kind}
           g == IF n + 1 = 5 THEN [f EXCEPT !.pc = "slice"] ELSE f
<1>1. /\ stack[p] # <<>> /\ f = stack[p][1] /\ f.pc = "query" /\ generation < MaxLoads
      /\ answers' = [answers EXCEPT ![p] = Append(answers[p], seen)]
      /\ Started(p)
      /\ UNCHANGED <<byName, serverVars, setVars, calls, failures>>
  BY DEF QuerySchemas, At, Top
<1>2. /\ f \in Frame /\ f.set \in Sets /\ FrameOK(p, f, loadLock, loadingThread, generation)
      /\ AnswersOK(stack[p], answers[p], generation) /\ Holding(f) /\ f.set = Root
      /\ answers \in [Sessions -> Seq(SUBSET Known)] /\ stack \in [Sessions -> Seq(Frame)]
  BY <1>1, TopFacts, StateFacts DEF Holding, FrameOK
<1>3. n \in Nat /\ n < 5 /\ answers[p] \in Seq(SUBSET Known)
  BY <1>1, <1>2 DEF AnswersOK
<1>4. seen \in SUBSET Known /\ snapshot' \in [Sessions -> (SUBSET Known) \cup {Unstarted}]
  BY <1>1, SnapshotType
<1>5. \A i \in 2 .. 5 : AnswerTo[i] # "schema"
  BY DEF AnswerTo
<1>6. n > 0 => seen \subseteq {o \in Objects : KindOf[o] = kind}
  BY <1>3, <1>5
<1> HIDE DEF seen
<1>7. /\ answers'[p] = Append(answers[p], seen) /\ Len(answers'[p]) = n + 1
      /\ answers'[p] \in Seq(SUBSET Known) /\ DOMAIN answers'[p] = 1 .. n + 1
      /\ \A i \in 1 .. n : answers'[p][i] = answers[p][i]
      /\ answers'[p][n + 1] = seen /\ DOMAIN answers[p] = 1 .. n
  <2>1. answers'[p] = Append(answers[p], seen)
    BY <1>1, <1>2
  <2> QED BY <1>3, <1>4, <2>1
<1>8. stack' = [stack EXCEPT ![p][1] = g]
  <2>1. CASE n + 1 = 5
    <3>1. Len(answers'[p]) = Len(AnswerTo)
      BY <1>7, <2>1 DEF AnswerTo
    <3>2. Goto(p, "slice")
      BY <3>1 DEF QuerySchemas
    <3> QED BY <1>1, <2>1, <3>2 DEF Goto
  <2>2. CASE n + 1 # 5
    <3>1. Len(answers'[p]) # Len(AnswerTo)
      BY <1>7, <2>2 DEF AnswerTo
    <3>2. stack' = stack
      BY <3>1 DEF QuerySchemas
    <3>3. [stack EXCEPT ![p][1] = f] = stack
      BY <1>1, <1>2, TopFacts
    <3> QED BY <2>2, <3>2, <3>3
  <2> QED BY <2>1, <2>2
<1>9. /\ g \in Frame /\ g.set = f.set /\ g.pc = (IF n + 1 = 5 THEN "slice" ELSE "query")
      /\ g.verb = f.verb /\ g.want = f.want /\ g.name = f.name /\ g.built = f.built
      /\ g.todo = f.todo /\ g.refs = f.refs
  BY <1>1, <1>2 DEF Frame, Pcs
<1> HIDE DEF g
<1>10. Holding(g) /\ FrameOK(p, g, loadLock', loadingThread', generation')
  BY <1>1, <1>2, <1>9 DEF FrameOK, Holding
<1>11. AnswersOK(<<g>>, answers'[p], generation')
  <2>1. ASSUME NEW i \in DOMAIN answers'[p] \ {1}
        PROVE  answers'[p][i] \subseteq {o \in Objects : KindOf[o] = AnswerTo[i]}
    <3>1. CASE i = n + 1
      <4>1. n > 0
        BY <1>3, <1>7, <2>1, <3>1
      <4> QED BY <1>6, <1>7, <3>1, <4>1
    <3>2. CASE i # n + 1
      <4>1. i \in DOMAIN answers[p] \ {1} /\ answers'[p][i] = answers[p][i]
        BY <1>3, <1>7, <2>1, <3>2
      <4> QED BY <1>2, <4>1 DEF AnswersOK
    <3> QED BY <3>1, <3>2
  <2>2. <<g>> # <<>> /\ <<g>>[1] = g
    OBVIOUS
  <2>3. g.pc = "query" => Len(answers'[p]) < 5
    BY <1>3, <1>7, <1>9
  <2>4. g.pc = "slice" => Len(answers'[p]) = 5 /\ generation' < MaxLoads
    BY <1>1, <1>7, <1>9
  <2> QED BY <1>9, <2>1, <2>2, <2>3, <2>4 DEF AnswersOK
<1>12. TypeOK'
  <2>1. \A q \in Sessions : Len(answers'[q]) <= 5
    BY <1>1, <1>2, <1>3, <1>7 DEF LocksInv, DataOK, TypeOK
  <2> QED BY <1>1, <2>1 DEF LocksInv, DataOK, TypeOK
<1>13. stack' \in [Sessions -> Seq(Frame)] /\ answers' \in [Sessions -> Seq(SUBSET Known)]
  <2>1. [stack[p] EXCEPT ![1] = g] \in Seq(Frame)
    BY <1>1, <1>2, <1>9
  <2>2. Append(answers[p], seen) \in Seq(SUBSET Known)
    BY <1>3, <1>4
  <2> QED BY <1>1, <1>2, <1>8, <2>1, <2>2
<1>14. DataOK'
  BY <1>1, <1>4, <1>12, <1>13 DEF LocksInv, DataOK
<1>15. /\ \A q \in Sessions : q # p => answers'[q] = answers[q]
       /\ generation' >= generation /\ generation' = generation
       /\ loadLock' = loadLock /\ loadingThread' = loadingThread
  BY <1>1, <1>2, SchemaAssumption DEF LocksInv, DataOK, TypeOK
<1> QED BY <1>1, <1>2, <1>8, <1>9, <1>10, <1>11, <1>14, <1>15, LockStep

LEMMA Pair ==
  ASSUME NEW A, NEW B, NEW x \in A, NEW y \in B, NEW z, z = <<x, y>>
  PROVE  z \in A \X B
OBVIOUS

\* The slices that a load of the schemas cuts belong to the sets that get them.
LEMMA SlicesCut ==
  ASSUME LocksInv, NEW p \in Sessions, LoadSchemas(p)
  PROVE  /\ SchemaRows(answers[p][1]) \in Seq(Schemas)
         /\ slice' = [c \in Sets |-> slice'[c]]
         /\ \A c \in Sets : slice'[c] \in Seq(Objects) \X Seq(Own(c))
         /\ slice'[Root] = slice[Root]
<1> DEFINE a == answers[p]
           schemas == SchemaRows(a[1])
           g == generation + 1
           place(kind) == CHOOSE i \in DOMAIN AnswerTo : AnswerTo[i] = kind
           of(kind) == SliceResult(schemas, Rows(a[place(kind)]))
           rows(kind, i) == CASE kind = "tables"  -> << <<>>, of("table")[i] >>
                              [] kind = "indexes" -> << of("index")[i], <<>> >>
                              [] OTHER -> << of("enum")[i], of("composite")[i] >>
           index(s) == CHOOSE i \in DOMAIN schemas : schemas[i] = s
<1>1. slice' = [c \in Sets |-> IF c[3] = g /\ c[2] \in ToSet(schemas)
                               THEN rows(c[1], index(c[2])) ELSE slice[c]]
  BY DEF LoadSchemas
<1>2. stack[p] # <<>> /\ stack[p][1].pc = "slice"
  BY DEF LoadSchemas, At
<1>3. /\ a \in Seq(SUBSET Known) /\ Len(a) = 5 /\ byName \in BOOLEAN
      /\ \A i \in DOMAIN a \ {1} : a[i] \subseteq {o \in Objects : KindOf[o] = AnswerTo[i]}
  BY <1>2, TopFacts DEF AnswersOK, LocksInv, DataOK
<1>4. schemas \in Seq(Schemas)
  <2>1. schemas \in Seq(a[1] \cap Schemas)
    BY <1>3, SchemaRowsType
  <2> HIDE DEF schemas
  <2> QED BY <2>1
<1> HIDE DEF schemas
<1>5. /\ place("table") = 2 /\ place("enum") = 3 /\ place("composite") = 4 /\ place("index") = 5
      /\ AnswerTo[2] = "table" /\ AnswerTo[3] = "enum"
      /\ AnswerTo[4] = "composite" /\ AnswerTo[5] = "index"
  BY DEF AnswerTo
<1> HIDE DEF place
<1>6. ASSUME NEW k \in 2 .. 5, NEW i \in DOMAIN schemas
      PROVE  SliceResult(schemas, Rows(a[k]))[i]
               \in Seq({o \in Objects \cap Known : SchemaOf[o] = schemas[i]
                                                   /\ KindOf[o] = AnswerTo[k]})
  <2>1. a[k] \subseteq Objects /\ a[k] \subseteq Known /\ \A o \in a[k] : KindOf[o] = AnswerTo[k]
    <3>1. k \in DOMAIN a \ {1} /\ a[k] \in SUBSET Known
      BY <1>3
    <3> QED BY <1>3, <3>1
  <2>2. Rows(a[k]) \in Seq(a[k])
    BY <1>3, <2>1, RowsType
  <2>3. SliceResult(schemas, Rows(a[k]))[i] \in Seq({o \in a[k] : SchemaOf[o] = schemas[i]})
    <3> DEFINE S == a[k]
               r == Rows(S)
    <3>1. S \subseteq Objects /\ r \in Seq(S)
      BY <2>1, <2>2
    <3> HIDE DEF S, r
    <3>2. SliceResult(schemas, r)[i] \in Seq({o \in S : SchemaOf[o] = schemas[i]})
      BY ONLY <1>4, <1>6, <3>1, SlicesOwnRows
    <3> QED BY <3>2 DEF S, r
  <2>4. {o \in a[k] : SchemaOf[o] = schemas[i]}
          \subseteq {o \in Objects \cap Known : SchemaOf[o] = schemas[i] /\ KindOf[o] = AnswerTo[k]}
    BY <2>1
  <2> QED BY <2>3, <2>4
<1>7. ASSUME NEW c \in Sets, c[3] = g, c[2] \in ToSet(schemas)
      PROVE  rows(c[1], index(c[2])) \in Seq(Objects) \X Seq(Own(c))
  <2> DEFINE i == index(c[2])
  <2>1. i \in DOMAIN schemas /\ schemas[i] = c[2]
    BY <1>7 DEF ToSet
  <2> HIDE DEF i
  <2> DEFINE slices(kind) == Seq({o \in Objects \cap Known : SchemaOf[o] = schemas[i] /\ KindOf[o] = kind})
  <2>2. /\ of("table")[i] \in slices("table") /\ of("index")[i] \in slices("index")
        /\ of("enum")[i] \in slices("enum") /\ of("composite")[i] \in slices("composite")
    <3>1. /\ of("table") = SliceResult(schemas, Rows(a[2]))
          /\ of("enum") = SliceResult(schemas, Rows(a[3]))
          /\ of("composite") = SliceResult(schemas, Rows(a[4]))
          /\ of("index") = SliceResult(schemas, Rows(a[5]))
      BY <1>5
    <3>2. 2 \in 2 .. 5 /\ 3 \in 2 .. 5 /\ 4 \in 2 .. 5 /\ 5 \in 2 .. 5
      OBVIOUS
    <3> HIDE DEF of, a, rows, index
    <3>3. ASSUME NEW k \in 2 .. 5
          PROVE  SliceResult(schemas, Rows(a[k]))[i] \in slices(AnswerTo[k])
      BY <1>6, <2>1
    <3> HIDE DEF slices
    <3> QED BY <1>5, <3>1, <3>2, <3>3
  <2>3. \A kind : \A t \in slices(kind) : t \in Seq(Objects)
    OBVIOUS
  <2>4. \A t \in slices("composite") : t \in Seq(Own(c))
    BY <2>1 DEF Own
  <2>5. c[1] # "types" => \A t \in slices("table") : t \in Seq(Own(c))
    BY <2>1 DEF Own
  <2> HIDE DEF of, slices
  <2>9. <<>> \in Seq(Objects) /\ <<>> \in Seq(Own(c))
    OBVIOUS
  <2>6. CASE c[1] = "tables"
    <3>1. rows(c[1], index(c[2])) = << <<>>, of("table")[i] >>
      BY <2>6 DEF i
    <3>2. of("table")[i] \in Seq(Own(c))
      BY <2>2, <2>5, <2>6
    <3> HIDE DEF rows, index
    <3> QED BY <2>9, <3>1, <3>2, Pair
  <2>7. CASE c[1] = "indexes"
    <3>1. rows(c[1], index(c[2])) = << of("index")[i], <<>> >>
      BY <2>7 DEF i
    <3>2. of("index")[i] \in Seq(Objects)
      BY <2>2, <2>3
    <3> HIDE DEF rows, index
    <3> QED BY <2>9, <3>1, <3>2, Pair
  <2>8. CASE c[1] \notin {"tables", "indexes"}
    BY <2>2, <2>3, <2>4, <2>8 DEF i
  <2> QED BY <2>6, <2>7, <2>8
<1>8. \A c \in Sets : slice[c] \in Seq(Objects) \X Seq(Own(c))
  BY DEF LocksInv, DataOK
<1>9. Root[3] # g
  BY SetFacts, SchemaAssumption DEF LocksInv, DataOK, TypeOK
<1> HIDE DEF rows, index
<1>10. slice' = [c \in Sets |-> slice'[c]]
  BY <1>1
<1>11. \A c \in Sets : slice'[c] \in Seq(Objects) \X Seq(Own(c))
  BY <1>1, <1>7, <1>8
<1>12. slice'[Root] = slice[Root]
  BY <1>1, <1>9, SetFacts
<1> QED BY <1>4, <1>10, <1>11, <1>12 DEF schemas

LEMMA SchemasLoaded ==
  ASSUME LocksInv, NEW p \in Sessions, LoadSchemas(p)
  PROVE  LocksInv'
<1> DEFINE f == Top(p)
           schemas == SchemaRows(answers[p][1])
           g == generation + 1
           h == [f EXCEPT !.pc = "load"]
<1>1. /\ stack[p] # <<>> /\ f = stack[p][1] /\ f.pc = "slice" /\ generation' = g
      /\ Insert(Root, [s \in ToSet(schemas) |-> g])
      /\ answers' = [answers EXCEPT ![p] = <<>>]
      /\ stack' = [stack EXCEPT ![p][1] = h]
      /\ UNCHANGED <<byName, serverVars, snapshot, loaded, loadLock, loadingThread, calls, failures>>
  BY DEF LoadSchemas, At, Top, Goto
<1>2. /\ f \in Frame /\ f.set \in Sets /\ FrameOK(p, f, loadLock, loadingThread, generation)
      /\ AnswersOK(stack[p], answers[p], generation) /\ Holding(f) /\ f.set = Root
      /\ loadLock[Root] = p
      /\ answers \in [Sessions -> Seq(SUBSET Known)] /\ stack \in [Sessions -> Seq(Frame)]
  BY <1>1, TopFacts, StateFacts DEF Holding, FrameOK
<1>3. generation \in Nat /\ generation < MaxLoads /\ g \in 1 .. MaxLoads /\ g >= generation
  <2>1. stack[p] # <<>> /\ stack[p][1].pc = "slice" => generation < MaxLoads
    BY <1>2 DEF AnswersOK
  <2> QED BY <1>1, <2>1, StateFacts
<1>4. /\ schemas \in Seq(Schemas) /\ DOMAIN slice' = Sets /\ slice'[Root] = NoSlice
      /\ \A c \in Sets : slice'[c] \in Seq(Objects) \X Seq(Own(c))
  BY SlicesCut DEF LocksInv, DataOK
<1> HIDE DEF schemas
<1>5. DOMAIN entries' = Sets /\ \A c \in Sets : entries'[c] \in EntriesOf(c)
  <2>1. ToSet(schemas) \in SUBSET Schemas
    BY <1>4 DEF ToSet
  <2>2. [s \in ToSet(schemas) |-> g] \in [ToSet(schemas) -> 1 .. MaxLoads]
    BY <1>3
  <2>3. [s \in ToSet(schemas) |-> g] \in EntriesOf(Root)
    BY <2>1, <2>2, IsMap DEF EntriesOf
  <2> QED BY <1>1, <2>3, SetFacts, InsertType
<1>6. /\ h \in Frame /\ h.set = f.set /\ h.pc = "load" /\ Holding(h)
      /\ h.verb = f.verb /\ h.want = f.want /\ h.name = f.name /\ h.built = f.built
      /\ h.todo = f.todo /\ h.refs = f.refs
  BY <1>1, <1>2 DEF Frame, Pcs, Holding
<1> HIDE DEF h
<1>7. FrameOK(p, h, loadLock', loadingThread', generation')
  BY <1>1, <1>2, <1>3, <1>6 DEF FrameOK, Holding
<1>8. answers'[p] = <<>> /\ \A q \in Sessions : q # p => answers'[q] = answers[q]
  BY <1>1, <1>2
<1>9. AnswersOK(<<h>>, answers'[p], generation')
  BY <1>6, <1>8 DEF AnswersOK
<1>10. TypeOK'
  BY <1>1, <1>2, <1>3, <1>8 DEF LocksInv, DataOK, TypeOK
<1>11. stack' \in [Sessions -> Seq(Frame)] /\ answers' \in [Sessions -> Seq(SUBSET Known)]
  <2>1. [stack[p] EXCEPT ![1] = h] \in Seq(Frame)
    BY <1>1, <1>2, <1>6
  <2> QED BY <1>1, <1>2, <2>1
<1>12. DataOK'
  BY <1>1, <1>3, <1>4, <1>5, <1>10, <1>11 DEF LocksInv, DataOK
<1> QED BY <1>1, <1>2, <1>3, <1>6, <1>7, <1>8, <1>9, <1>12, LockStep

\* One object of a load or reload is built.
LEMMA ObjectBuilt ==
  ASSUME LocksInv, NEW p \in Sessions, Building(p), Top(p).todo # <<>>,
         NEW built \in MapsInto(Objects, SUBSET Objects), NextObject(p, built),
         NEW new \in MapsInto(Objects, SUBSET Objects),
         entries' = entries \/ Insert(Top(p).set, new),
         UNCHANGED <<byName, serverVars, snapshot, generation, loaded, loadLock, loadingThread,
                     slice, answers, calls, failures>>
  PROVE  LocksInv'
<1> DEFINE f == Top(p)
           g == [f EXCEPT !.todo = Tail(@), !.refs = RefsOfFirst(Tail(f.todo)), !.got = {},
                          !.built = built]
<1>1. /\ stack[p] # <<>> /\ f = stack[p][1] /\ f.pc \in {"load", "rebuild"} /\ f.todo # <<>>
      /\ stack' = [stack EXCEPT ![p][1] = g]
  BY DEF Building, At, Top, NextObject
<1>2. /\ f \in Frame /\ f.set \in Sets /\ FrameOK(p, f, loadLock, loadingThread, generation)
      /\ AnswersOK(stack[p], answers[p], generation) /\ Holding(f) /\ f.set # Root
      /\ stack \in [Sessions -> Seq(Frame)]
  BY <1>1, TopFacts, StateFacts DEF Holding, FrameOK
<1>3. f.todo \in Seq(Objects) /\ Tail(f.todo) \in Seq(Objects)
  <2>1. f.todo \in Seq(Objects) /\ f.todo # <<>>
    BY <1>1, <1>2, FrameFacts
  <2> HIDE DEF f
  <2> QED BY <2>1
<1>4. RefsOfFirst(Tail(f.todo)) \in Seq(Types)
  BY <1>3, RefsType
<1>5. /\ g \in Frame /\ g.set = f.set /\ g.pc = f.pc /\ Holding(g)
      /\ g.verb = f.verb /\ g.want = f.want /\ g.name = f.name
  BY <1>1, <1>2, <1>3, <1>4 DEF Frame, Holding
<1> HIDE DEF g
<1>6. /\ loadLock' = loadLock /\ loadingThread' = loadingThread /\ answers' = answers
      /\ generation' = generation /\ generation' >= generation
  BY SchemaAssumption DEF LocksInv, DataOK, TypeOK
<1>7. FrameOK(p, g, loadLock', loadingThread', generation')
  BY <1>1, <1>2, <1>5, <1>6 DEF FrameOK, Holding
<1>8. AnswersOK(<<g>>, answers'[p], generation')
  BY <1>1, <1>2, <1>5, <1>6 DEF AnswersOK
<1>9. DOMAIN entries' = Sets /\ \A c \in Sets : entries'[c] \in EntriesOf(c)
  <2>1. CASE entries' = entries
    BY <2>1 DEF LocksInv, DataOK
  <2>2. CASE Insert(f.set, new)
    BY <1>2, <2>2, InsertType DEF EntriesOf
  <2> QED BY <2>1, <2>2
<1>10. stack' \in [Sessions -> Seq(Frame)]
  <2>1. [stack[p] EXCEPT ![1] = g] \in Seq(Frame)
    BY <1>1, <1>2, <1>5
  <2> QED BY <1>1, <1>2, <2>1
<1>11. DataOK'
  BY <1>6, <1>9, <1>10 DEF LocksInv, DataOK, TypeOK
<1> QED BY <1>1, <1>2, <1>5, <1>6, <1>7, <1>8, <1>11, LockStep

LEMMA CompositeBuilt ==
  ASSUME LocksInv, NEW p \in Sessions, CreateCompositeType(p)
  PROVE  LocksInv'
<1> DEFINE f == Top(p)
           o == f.todo[1]
           new == Entry(o, {o} \cup f.got)
<1>1. /\ Building(p) /\ f.todo # <<>> /\ Insert(f.set, new) /\ NextObject(p, f.built)
      /\ UNCHANGED <<byName, serverVars, snapshot, generation, loaded, loadLock, loadingThread,
                     slice, answers, calls, failures>>
  BY DEF CreateCompositeType
<1>2. f \in Frame
  BY <1>1, TopFacts DEF Building, At, Top
<1>3. /\ f.todo \in Seq(Objects) /\ f.got \subseteq Objects
      /\ f.built \in MapsInto(Objects, SUBSET Objects)
  BY <1>2, FrameFacts
<1>4. o \in Objects
  <2>1. \A t \in Seq(Objects) : t # <<>> => t[1] \in Objects
    OBVIOUS
  <2> QED BY <1>1, <1>3, <2>1
<1> HIDE DEF o
<1>5. new \in MapsInto(Objects, SUBSET Objects)
  BY <1>3, <1>4, EntryType
<1> HIDE DEF new
<1> QED BY <1>1, <1>3, <1>5, ObjectBuilt

LEMMA TableBuilt ==
  ASSUME LocksInv, NEW p \in Sessions, BuildTable(p)
  PROVE  LocksInv'
<1> DEFINE f == Top(p)
           new == Entry(f.todo[1], f.got)
           built == Joined(f.built, new)
<1>1. /\ Building(p) /\ f.todo # <<>> /\ NextObject(p, built)
      /\ UNCHANGED <<byName, serverVars, snapshot, setVars, answers, calls, failures>>
  BY DEF BuildTable
<1>2. f \in Frame
  BY <1>1, TopFacts DEF Building, At, Top
<1>3. /\ f.todo \in Seq(Objects) /\ f.got \subseteq Objects
      /\ f.built \in MapsInto(Objects, SUBSET Objects)
  BY <1>2, FrameFacts
<1>4. f.todo[1] \in Objects
  <2>1. \A t \in Seq(Objects) : t # <<>> => t[1] \in Objects
    OBVIOUS
  <2> QED BY <1>1, <1>3, <2>1
<1>5. new \in MapsInto(Objects, SUBSET Objects)
  BY <1>3, <1>4, EntryType
<1>6. built \in MapsInto(Objects, SUBSET Objects)
  BY <1>3, <1>5, JoinedType
<1> HIDE DEF new, built
<1> QED BY <1>1, <1>5, <1>6, ObjectBuilt

LEMMA LoadEnds ==
  ASSUME LocksInv, NEW p \in Sessions, FinishLoad(p)
  PROVE  LocksInv'
<1> DEFINE f == Top(p)
           c == f.set
           g == [f EXCEPT !.pc = "find", !.built = <<>>]
<1>1. /\ stack[p] # <<>> /\ f = stack[p][1] /\ f.pc = "load"
      /\ Insert(c, f.built)
      /\ slice' = [slice EXCEPT ![c] = NoSlice]
      /\ loaded' = [loaded EXCEPT ![c] = TRUE]
      /\ loadLock' = [loadLock EXCEPT ![c] = NoSession]
      /\ loadingThread' = [loadingThread EXCEPT ![c] = NoSession]
      /\ stack' = [stack EXCEPT ![p][1] = g]
      /\ UNCHANGED <<byName, serverVars, snapshot, generation, answers, calls, failures>>
  BY DEF FinishLoad, At, Top, Release
<1>2. /\ f \in Frame /\ c \in Sets /\ FrameOK(p, f, loadLock, loadingThread, generation)
      /\ AnswersOK(stack[p], answers[p], generation) /\ Holding(f)
      /\ stack \in [Sessions -> Seq(Frame)] /\ loadLock[c] = p
  BY <1>1, TopFacts, StateFacts DEF Holding, FrameOK
<1>3. /\ g \in Frame /\ g.set = f.set /\ g.pc = "find" /\ ~Holding(g) /\ g.built = <<>>
      /\ g.verb = f.verb /\ g.want = f.want /\ g.name = f.name /\ g.todo = f.todo
      /\ g.refs = f.refs
  BY <1>1, <1>2, NoEntries DEF Frame, Holding, Pcs
<1> HIDE DEF g
<1>4. /\ DOMAIN loadLock = Sets /\ DOMAIN loadingThread = Sets /\ DOMAIN loaded = Sets
      /\ DOMAIN slice = Sets
  BY DEF LocksInv, DataOK, TypeOK
<1>5. /\ loadLock'[c] = NoSession
      /\ \A d \in Sets : d # c => loadLock'[d] = loadLock[d] /\ loadingThread'[d] = loadingThread[d]
      /\ generation' = generation /\ generation' >= generation /\ answers' = answers
  BY <1>1, <1>2, <1>4, SchemaAssumption DEF LocksInv, DataOK, TypeOK
<1>6. FrameOK(p, g, loadLock', loadingThread', generation')
  BY <1>1, <1>2, <1>3, <1>5 DEF FrameOK, Holding
<1>7. AnswersOK(<<g>>, answers'[p], generation')
  BY <1>1, <1>2, <1>3, <1>5 DEF AnswersOK
<1>8. DOMAIN entries' = Sets /\ \A d \in Sets : entries'[d] \in EntriesOf(d)
  <2>1. f.built \in EntriesOf(c)
    BY <1>2, FrameFacts, NoEntries DEF FrameOK, EntriesOf
  <2> QED BY <1>1, <1>2, <2>1, InsertType
<1>9. DOMAIN slice' = Sets /\ (\A d \in Sets : slice'[d] \in Seq(Objects) \X Seq(Own(d)))
      /\ slice'[Root] = NoSlice
  <2>1. \A d \in Sets : slice[d] \in Seq(Objects) \X Seq(Own(d))
    BY DEF LocksInv, DataOK
  <2>2. NoSlice \in Seq(Objects) \X Seq(Own(c))
    <3>1. <<>> \in Seq(Objects) /\ <<>> \in Seq(Own(c))
      OBVIOUS
    <3> QED BY <3>1, Pair DEF NoSlice
  <2>3. slice[Root] = NoSlice
    BY DEF LocksInv, DataOK
  <2> QED BY <1>1, <1>2, <1>4, <2>1, <2>2, <2>3, SetFacts
<1>10. loaded' \in [Sets -> BOOLEAN] /\ (loaded'[Root] => generation' >= 1)
  <2>1. c = Root => generation >= 1
    BY <1>1, <1>2 DEF FrameOK
  <2> QED BY <1>1, <1>2, <2>1 DEF LocksInv, DataOK, TypeOK
<1>11. TypeOK'
  BY <1>1, <1>2, <1>5, <1>10 DEF LocksInv, DataOK, TypeOK
<1>12. stack' \in [Sessions -> Seq(Frame)]
  <2>1. [stack[p] EXCEPT ![1] = g] \in Seq(Frame)
    BY <1>1, <1>2, <1>3
  <2> QED BY <1>1, <1>2, <2>1
<1>13. loadingThread' \in [Sets -> Sessions \cup {NoSession}]
  BY <1>1 DEF LocksInv, DataOK
<1>14. DataOK'
  BY <1>1, <1>8, <1>9, <1>10, <1>11, <1>12, <1>13 DEF LocksInv, DataOK
<1> QED BY <1>1, <1>2, <1>3, <1>5, <1>6, <1>7, <1>14, LockStep

LEMMA ReloadBegins ==
  ASSUME LocksInv, NEW p \in Sessions, LockToReload(p)
  PROVE  LocksInv'
<1> DEFINE f == Top(p)
           c == f.set
           g == [f EXCEPT !.pc = "requery"]
<1>1. /\ stack[p] # <<>> /\ f = stack[p][1] /\ f.pc = "relock" /\ loadLock[c] = NoSession
      /\ loadLock' = [loadLock EXCEPT ![c] = p]
      /\ stack' = [stack EXCEPT ![p][1] = g]
      /\ UNCHANGED <<byName, serverVars, snapshot, generation, loaded, loadingThread, entries,
                     slice, answers, calls, failures>>
  BY DEF LockToReload, At, Top, Goto
<1>2. /\ f \in Frame /\ c \in Sets /\ FrameOK(p, f, loadLock, loadingThread, generation)
      /\ AnswersOK(stack[p], answers[p], generation) /\ ~Holding(f)
      /\ stack \in [Sessions -> Seq(Frame)] /\ loadingThread[c] = NoSession
  BY <1>1, TopFacts, StateFacts DEF Holding, FrameOK
<1>3. /\ g \in Frame /\ g.set = f.set /\ g.pc = "requery" /\ Holding(g) /\ g.built = f.built
      /\ g.verb = f.verb /\ g.want = f.want /\ g.name = f.name /\ g.todo = f.todo
      /\ g.refs = f.refs
  BY <1>1, <1>2 DEF Frame, Holding, Pcs
<1> HIDE DEF g
<1>4. /\ loadLock'[c] = p /\ loadingThread' = loadingThread
      /\ \A d \in Sets : d # c => loadLock'[d] = loadLock[d]
      /\ generation' = generation /\ generation' >= generation /\ answers' = answers
  BY <1>1, <1>2, SchemaAssumption DEF LocksInv, DataOK, TypeOK
<1>5. FrameOK(p, g, loadLock', loadingThread', generation')
  BY <1>1, <1>2, <1>3, <1>4 DEF FrameOK, Holding
<1>6. AnswersOK(<<g>>, answers'[p], generation')
  BY <1>1, <1>2, <1>3, <1>4 DEF AnswersOK
<1>7. TypeOK'
  BY <1>1, <1>2, <1>4 DEF LocksInv, DataOK, TypeOK
<1>8. stack' \in [Sessions -> Seq(Frame)]
  <2>1. [stack[p] EXCEPT ![1] = g] \in Seq(Frame)
    BY <1>1, <1>2, <1>3
  <2> QED BY <1>1, <1>2, <2>1
<1>9. DataOK'
  BY <1>1, <1>7, <1>8 DEF LocksInv, DataOK
<1> QED BY <1>1, <1>2, <1>3, <1>4, <1>5, <1>6, <1>9, LockStep

\* The reload of a table returns, and gives load_lock back.
LEMMA ReloadReturns ==
  ASSUME LocksInv, NEW p \in Sessions, stack[p] # <<>>, Top(p).pc \in {"requery", "rebuild"},
         NEW found, Return(p, {}, found), loadLock' = Release(loadLock, Top(p).set),
         snapshot' \in [Sessions -> (SUBSET Known) \cup {Unstarted}],
         NEW new \in MapsInto(Objects, SUBSET Objects),
         entries' = entries \/ Insert(Top(p).set, new),
         UNCHANGED <<byName, serverVars, generation, loaded, loadingThread, slice, answers, calls,
                     failures>>
  PROVE  LocksInv'
<1> DEFINE f == Top(p)
           c == f.set
           s == Returned(stack[p], {})
<1>1. /\ f = stack[p][1] /\ f.pc \in {"requery", "rebuild"} /\ Holding(f)
      /\ loadLock' = [loadLock EXCEPT ![c] = NoSession]
      /\ stack' = [stack EXCEPT ![p] = s]
  BY ReturnStack DEF Top, Release, Holding
<1>2. /\ f \in Frame /\ c \in Sets /\ FrameOK(p, f, loadLock, loadingThread, generation)
      /\ AnswersOK(stack[p], answers[p], generation) /\ c # Root /\ loadLock[c] = p
      /\ stack[p] \in Seq(Frame) /\ CallsOK(p, stack[p], loadLock, loadingThread, generation)
      /\ stack \in [Sessions -> Seq(Frame)] /\ loadingThread[c] = NoSession
  BY <1>1, TopFacts, SetFacts, StateFacts DEF FrameOK
<1>3. /\ loadLock'[c] = NoSession /\ loadingThread' = loadingThread
      /\ \A d \in Sets : d # c => loadLock'[d] = loadLock[d]
      /\ generation' = generation /\ generation' >= generation /\ answers' = answers
  BY <1>1, <1>2, SchemaAssumption DEF LocksInv, DataOK, TypeOK
<1>4. /\ s \in Seq(Frame) /\ CallsOK(p, s, loadLock', loadingThread', generation')
      /\ s # <<>> => s[1].pc \in {"load", "rebuild"}
  <2>1. {} \in SUBSET Objects
    OBVIOUS
  <2>2. CallsOK(p, s, loadLock', loadingThread', generation)
        /\ s \in Seq(Frame) /\ (s # <<>> => s[1].pc \in {"load", "rebuild"})
    BY <1>1, <1>2, <1>3, <2>1, CallReturns
  <2> QED BY <1>3, <2>2
<1> HIDE DEF s
<1>5. AnswersOK(s, answers'[p], generation')
  BY <1>1, <1>2, <1>3, <1>4 DEF AnswersOK
<1>6. DOMAIN entries' = Sets /\ \A d \in Sets : entries'[d] \in EntriesOf(d)
  <2>1. CASE entries' = entries
    BY <2>1 DEF LocksInv, DataOK
  <2>2. CASE Insert(c, new)
    BY <1>2, <2>2, InsertType DEF EntriesOf
  <2> QED BY <2>1, <2>2
<1>7. TypeOK'
  BY <1>1, <1>2, <1>3 DEF LocksInv, DataOK, TypeOK
<1>8. stack' \in [Sessions -> Seq(Frame)]
  BY <1>1, <1>2, <1>4
<1>9. DataOK'
  BY <1>6, <1>7, <1>8 DEF LocksInv, DataOK
<1>10. \A d \in Sets : \/ loadLock'[d] = loadLock[d] /\ loadingThread'[d] = loadingThread[d]
                       \/ loadLock[d] \in {p, NoSession} /\ loadLock'[d] \in {p, NoSession}
  BY <1>2, <1>3
<1> QED BY <1>1, <1>3, <1>4, <1>5, <1>9, <1>10, SessionStep

LEMMA TableQueried ==
  ASSUME LocksInv, NEW p \in Sessions, QueryTable(p)
  PROVE  LocksInv'
<1> DEFINE f == Top(p)
           g == [f EXCEPT !.pc = "rebuild", !.todo = <<f.want>>, !.refs = RefsOfFirst(<<f.want>>)]
<1>1. /\ stack[p] # <<>> /\ f = stack[p][1] /\ f.pc = "requery" /\ Started(p)
      /\ UNCHANGED <<byName, serverVars, generation, loaded, loadingThread, entries, slice,
                     answers, calls, failures>>
  BY DEF QueryTable, At, Top
<1>2. snapshot' \in [Sessions -> (SUBSET Known) \cup {Unstarted}]
  BY <1>1, SnapshotType
<1>3. CASE Return(p, {}, FALSE) /\ loadLock' = Release(loadLock, f.set)
  <2>1. <<>> \in MapsInto(Objects, SUBSET Objects)
    BY NoEntries
  <2> QED BY <1>1, <1>2, <1>3, <2>1, ReloadReturns
<1>4. CASE stack' = [stack EXCEPT ![p][1] = g] /\ UNCHANGED <<loadLock, missed, unfound>>
  <2>1. /\ f \in Frame /\ f.set \in Sets /\ FrameOK(p, f, loadLock, loadingThread, generation)
        /\ AnswersOK(stack[p], answers[p], generation) /\ Holding(f) /\ f.set # Root
        /\ stack \in [Sessions -> Seq(Frame)]
    BY <1>1, TopFacts, SetFacts, StateFacts DEF Holding, FrameOK
  <2>2. f.want \in Objects
    BY <2>1, FrameFacts DEF FrameOK
  <2>3. <<f.want>> \in Seq(Objects)
    BY <2>2
  <2>4. RefsOfFirst(<<f.want>>) \in Seq(Types)
    BY <2>3, RefsType
  <2>5. /\ g \in Frame /\ g.set = f.set /\ g.pc = "rebuild" /\ Holding(g) /\ g.built = f.built
        /\ g.verb = f.verb /\ g.want = f.want /\ g.name = f.name
    BY <1>1, <2>1, <2>3, <2>4 DEF Frame, Holding, Pcs
  <2> HIDE DEF g
  <2>6. /\ loadLock' = loadLock /\ loadingThread' = loadingThread /\ answers' = answers
        /\ generation' = generation /\ generation' >= generation
    BY <1>1, <1>4, SchemaAssumption DEF LocksInv, DataOK, TypeOK
  <2>7. FrameOK(p, g, loadLock', loadingThread', generation')
    BY <1>1, <2>1, <2>5, <2>6 DEF FrameOK, Holding
  <2>8. AnswersOK(<<g>>, answers'[p], generation')
    BY <1>1, <2>1, <2>5, <2>6 DEF AnswersOK
  <2>9. TypeOK'
    BY <1>1, <1>4 DEF LocksInv, DataOK, TypeOK
  <2>10. stack' \in [Sessions -> Seq(Frame)]
    <3>1. [stack[p] EXCEPT ![1] = g] \in Seq(Frame)
      BY <1>1, TopFacts, <2>5
    <3> QED BY <1>4, <2>1, <3>1
  <2>11. DataOK'
    BY <1>1, <1>2, <1>4, <2>9, <2>10 DEF LocksInv, DataOK
  <2> QED BY <1>1, <1>4, <2>1, <2>5, <2>6, <2>7, <2>8, <2>11, LockStep
<1> QED BY <1>3, <1>4 DEF QueryTable

LEMMA ReloadEnds ==
  ASSUME LocksInv, NEW p \in Sessions, FinishReload(p)
  PROVE  LocksInv'
<1> DEFINE f == Top(p)
<1>1. /\ stack[p] # <<>> /\ f = stack[p][1] /\ f.pc = "rebuild"
      /\ Insert(f.set, f.built) /\ Return(p, {}, TRUE) /\ loadLock' = Release(loadLock, f.set)
      /\ UNCHANGED <<byName, serverVars, snapshot, generation, loaded, loadingThread, slice,
                     answers, calls, failures>>
  BY DEF FinishReload, At, Top
<1>2. f.built \in MapsInto(Objects, SUBSET Objects)
  BY <1>1, TopFacts, FrameFacts
<1>3. snapshot' \in [Sessions -> (SUBSET Known) \cup {Unstarted}]
  BY <1>1 DEF LocksInv, DataOK
<1> QED BY <1>1, <1>2, <1>3, ReloadReturns

\* A statement that has created or dropped something returns.
LEMMA StatementReturns ==
  ASSUME LocksInv, NEW p \in Sessions, At(p, "ddl"), Return(p, {}, TRUE),
         TypeOK', used' \subseteq Known,
         snapshot' = [snapshot EXCEPT ![p] = Unstarted],
         loaded'[Root] => generation >= 1,
         DOMAIN entries' = Sets, \A c \in Sets : entries'[c] \in EntriesOf(c),
         UNCHANGED <<byName, generation, loadLock, loadingThread, slice, answers, calls, failures>>
  PROVE  LocksInv'
<1> DEFINE f == Top(p)
           s == Returned(stack[p], {})
<1>1. stack[p] # <<>> /\ f = stack[p][1] /\ ~Holding(f) /\ stack' = [stack EXCEPT ![p] = s]
  BY ReturnStack DEF At, Top, Holding
<1>2. {} \in SUBSET Objects
  OBVIOUS
<1>3. /\ s \in Seq(Frame)
      /\ CallsOK(p, s, loadLock, loadingThread, generation)
      /\ AnswersOK(s, answers[p], generation)
  BY <1>1, <1>2, QuietReturn
<1> HIDE DEF s
<1>4. snapshot' \in [Sessions -> (SUBSET Known) \cup {Unstarted}]
  <2>1. Unstarted \in (SUBSET Known) \cup {Unstarted}
    OBVIOUS
  <2> QED BY <2>1 DEF LocksInv, DataOK
<1>5. stack' \in [Sessions -> Seq(Frame)]
  BY <1>1, <1>3 DEF LocksInv, DataOK
<1>6. DataOK'
  BY <1>4, <1>5 DEF LocksInv, DataOK
<1>7. /\ loadLock' = loadLock /\ loadingThread' = loadingThread /\ answers' = answers
      /\ generation' = generation /\ generation' >= generation
  BY SchemaAssumption DEF LocksInv, DataOK, TypeOK
<1>8. CallsOK(p, s, loadLock', loadingThread', generation')
      /\ AnswersOK(s, answers'[p], generation')
  BY <1>3, <1>7
<1> QED BY <1>1, <1>3, <1>6, <1>7, <1>8, SessionStep

LEMMA Creation ==
  ASSUME LocksInv, NEW p \in Sessions, CreateSchema(p) \/ CreateType(p) \/ CreateIndex(p)
  PROVE  LocksInv'
<1> DEFINE f == Top(p)
           x == f.want
<1>1. PICK entry :
        /\ Created(p, entry)
        /\ \/ f.set = Root /\ entry = generation
           \/ f.set # Root /\ entry = {x}
           \/ f.set # Root /\ entry = {}
        /\ loaded' \in [Sets -> BOOLEAN] /\ loaded'[Root] = loaded[Root]
  <2>1. CASE CreateSchema(p)
    <3>1. Created(p, generation) /\ f.set = Root
          /\ loaded' = [c \in Sets |-> loaded[c] \/ (c[2] = Top(p).want /\ c[3] = generation)]
      BY <2>1 DEF CreateSchema
    <3>2. stack[p] # <<>> /\ f = stack[p][1] /\ f.pc = "ddl"
      BY <3>1 DEF Created, At, Top
    <3>3. FrameOK(p, f, loadLock, loadingThread, generation)
      BY <3>2, TopFacts
    <3>4. generation >= 1 /\ generation \in Nat
      BY <3>1, <3>2, <3>3, SchemaAssumption DEF FrameOK, LocksInv, DataOK, TypeOK
    <3>5. Root[3] # generation /\ Root \in Sets
      BY <3>4, SetFacts
    <3>6. loaded \in [Sets -> BOOLEAN]
      BY DEF LocksInv, DataOK, TypeOK
    <3>7. loaded'[Root] = loaded[Root] /\ loaded' \in [Sets -> BOOLEAN]
      BY <3>1, <3>5, <3>6
    <3> QED BY <3>1, <3>7
  <2>2. CASE CreateType(p)
    <3>1. Created(p, {x}) /\ f.set # Root /\ loaded' = loaded
      BY <2>2, SetFacts DEF CreateType
    <3> QED BY <3>1 DEF LocksInv, DataOK, TypeOK
  <2>3. CASE CreateIndex(p)
    <3>1. Created(p, {}) /\ f.set # Root /\ loaded' = loaded
      BY <2>3, SetFacts DEF CreateIndex
    <3> QED BY <3>1 DEF LocksInv, DataOK, TypeOK
  <2> QED BY <2>1, <2>2, <2>3
<1>2. /\ At(p, "ddl") /\ f.verb = "create" /\ stack[p] # <<>> /\ f = stack[p][1] /\ f.pc = "ddl"
      /\ exists' = exists \cup {x} /\ used' = used \cup {x}
      /\ Insert(f.set, Entry(x, entry))
      /\ snapshot' = [snapshot EXCEPT ![p] = Unstarted]
      /\ Return(p, {}, TRUE)
      /\ UNCHANGED <<byName, generation, loadLock, loadingThread, slice, answers, calls, failures>>
  BY <1>1 DEF Created, At, Top
<1>3. f \in Frame /\ f.set \in Sets /\ FrameOK(p, f, loadLock, loadingThread, generation)
  BY <1>2, TopFacts
<1>4. x \in OwnDdl /\ x \in Known /\ x \in Schemas \cup Objects
  BY <1>2, <1>3, FrameFacts DEF FrameOK, Known
<1>5. Entry(x, entry) \in EntriesOf(f.set)
  <2>1. CASE f.set = Root /\ entry = generation
    <3>1. x \in Schemas /\ generation \in 1 .. MaxLoads
      BY <1>2, <1>3, <2>1, SchemaAssumption DEF FrameOK, LocksInv, DataOK, TypeOK
    <3> QED BY <2>1, <3>1, EntryType DEF EntriesOf
  <2>2. CASE f.set # Root /\ entry \in {{x}, {}}
    <3>1. x \in Objects /\ entry \in SUBSET Objects
      BY <1>3, <2>2 DEF FrameOK
    <3> QED BY <2>2, <3>1, EntryType DEF EntriesOf
  <2> QED BY <1>1, <2>1, <2>2
<1>6. DOMAIN entries' = Sets /\ \A c \in Sets : entries'[c] \in EntriesOf(c)
  BY <1>2, <1>3, <1>5, InsertType
<1>7. TypeOK' /\ used' \subseteq Known
  BY <1>1, <1>2, <1>4 DEF LocksInv, DataOK, TypeOK
<1>8. loaded'[Root] => generation >= 1
  BY <1>1 DEF LocksInv, DataOK
<1> QED BY <1>2, <1>6, <1>7, <1>8, StatementReturns

LEMMA Dropped ==
  ASSUME LocksInv, NEW p \in Sessions, Drop(p)
  PROVE  LocksInv'
<1> DEFINE f == Top(p)
           c == f.set
<1>1. /\ At(p, "ddl") /\ stack[p] # <<>> /\ f = stack[p][1]
      /\ exists' = exists \ {f.want}
      /\ entries' = [entries EXCEPT ![c] = [y \in DOMAIN entries[c] \ {f.want} |-> entries[c][y]]]
      /\ snapshot' = [snapshot EXCEPT ![p] = Unstarted]
      /\ Return(p, {}, TRUE)
      /\ UNCHANGED <<byName, used, generation, loaded, loadLock, loadingThread, slice, answers,
                     calls, failures>>
  BY DEF Drop, At, Top
<1>2. c \in Sets
  BY <1>1, TopFacts
<1>3. DOMAIN entries = Sets /\ \A d \in Sets : entries[d] \in EntriesOf(d)
  BY DEF LocksInv, DataOK
<1>4. [y \in DOMAIN entries[c] \ {f.want} |-> entries[c][y]] \in EntriesOf(c)
  <2> HIDE DEF f, c
  <2>1. CASE c = Root
    <3>1. entries[c] \in MapsInto(Schemas, 1 .. MaxLoads)
      BY <1>2, <1>3, <2>1 DEF EntriesOf
    <3> QED BY <2>1, <3>1, MapFacts DEF EntriesOf
  <2>2. CASE c # Root
    <3>1. entries[c] \in MapsInto(Objects, SUBSET Objects)
      BY <1>2, <1>3, <2>2 DEF EntriesOf
    <3> QED BY <2>2, <3>1, MapFacts DEF EntriesOf
  <2> QED BY <2>1, <2>2
<1>5. DOMAIN entries' = Sets /\ \A d \in Sets : entries'[d] \in EntriesOf(d)
  BY <1>1, <1>2, <1>3, <1>4
<1>6. TypeOK' /\ used' \subseteq Known /\ (loaded'[Root] => generation >= 1)
  BY <1>1 DEF LocksInv, DataOK, TypeOK
<1> QED BY <1>1, <1>5, <1>6, StatementReturns

LEMMA Thrown ==
  ASSUME LocksInv, NEW p \in Sessions, Throw(p), failures' \in 0 .. MaxFailures
  PROVE  LocksInv'
<1>1. /\ stack' = [stack EXCEPT ![p] = <<>>]
      /\ loadLock' = [c \in Sets |-> IF loadLock[c] = p THEN NoSession ELSE loadLock[c]]
      /\ loadingThread' = [c \in Sets |-> IF loadingThread[c] = p THEN NoSession
                                          ELSE loadingThread[c]]
      /\ answers' = [answers EXCEPT ![p] = <<>>]
      /\ snapshot' = [snapshot EXCEPT ![p] = Unstarted]
      /\ UNCHANGED <<byName, serverVars, generation, loaded, entries, slice, calls>>
  BY DEF Throw, ThreadAfterThrow
<1>2. p # NoSession /\ generation \in Nat
  BY SchemaAssumption DEF LocksInv, DataOK, TypeOK
<1>3. \A c \in Sets : loadingThread[c] \in {NoSession, loadLock[c]}
  BY DEF LocksInv, DataOK, TypeOK
<1>4. ASSUME NEW c \in Sets
      PROVE  /\ loadLock'[c] # p /\ loadingThread'[c] \in {NoSession, loadLock'[c]}
             /\ \/ loadLock'[c] = loadLock[c] /\ loadingThread'[c] = loadingThread[c]
                \/ loadLock[c] \in {p, NoSession} /\ loadLock'[c] \in {p, NoSession}
  BY <1>1, <1>2, <1>3
<1>5. /\ <<>> \in Seq(Frame) /\ generation' = generation /\ generation' >= generation
      /\ CallsOK(p, <<>>, loadLock', loadingThread', generation')
  BY <1>1, <1>2, <1>4 DEF CallsOK
<1>6. answers'[p] = <<>> /\ \A q \in Sessions : q # p => answers'[q] = answers[q]
  BY <1>1 DEF LocksInv, DataOK
<1>7. AnswersOK(<<>>, answers'[p], generation')
  BY <1>6 DEF AnswersOK
<1>8. snapshot' \in [Sessions -> (SUBSET Known) \cup {Unstarted}]
  <2>1. Unstarted \in (SUBSET Known) \cup {Unstarted}
    OBVIOUS
  <2> QED BY <1>1, <2>1 DEF LocksInv, DataOK
<1>9. stack' \in [Sessions -> Seq(Frame)] /\ answers' \in [Sessions -> Seq(SUBSET Known)]
      /\ loadingThread' \in [Sets -> Sessions \cup {NoSession}]
  <2>1. loadingThread \in [Sets -> Sessions \cup {NoSession}]
    BY DEF LocksInv, DataOK
  <2>2. loadingThread' \in [Sets -> Sessions \cup {NoSession}]
    BY <1>1, <2>1
  <2>3. <<>> \in Seq(SUBSET Known)
    OBVIOUS
  <2> QED BY <1>1, <1>5, <2>2, <2>3 DEF LocksInv, DataOK
<1>10. TypeOK'
  <2>1. loadLock' \in [Sets -> Sessions \cup {NoSession}]
    BY <1>1 DEF LocksInv, DataOK, TypeOK
  <2> QED BY <1>1, <1>4, <1>6, <2>1 DEF LocksInv, DataOK, TypeOK
<1>11. DataOK'
  BY <1>1, <1>8, <1>9, <1>10 DEF LocksInv, DataOK
<1> QED BY <1>1, <1>4, <1>5, <1>6, <1>7, <1>11, SessionStep

LEMMA Failed ==
  ASSUME LocksInv, NEW p \in Sessions, QueryFails(p) \/ DdlFails(p)
  PROVE  LocksInv'
<1>1. Throw(p) /\ failures' \in 0 .. MaxFailures
  BY SchemaAssumption DEF QueryFails, DdlFails, LocksInv, DataOK, TypeOK
<1> QED BY <1>1, Thrown

\* Where neither the calls nor the locks change.
LEMMA OthersStep ==
  ASSUME LocksInv, DataOK',
         UNCHANGED <<generation, loadLock, loadingThread, stack, answers>>
  PROVE  LocksInv'
<1>1. (\A q \in Sessions : /\ CallsOK(q, stack[q], loadLock, loadingThread, generation)
                           /\ AnswersOK(stack[q], answers[q], generation))'
  BY DEF LocksInv, CallsOK, FrameOK, AnswersOK
<1> QED BY <1>1 DEF LocksInv

LEMMA OthersAct ==
  ASSUME LocksInv, (\E p \in Sessions : EndTransaction(p)) \/ ClearCache \/ OtherClient
  PROVE  LocksInv'
<1>1. CASE \E p \in Sessions : EndTransaction(p)
  <2>1. PICK p \in Sessions : EndTransaction(p)
    BY <1>1
  <2>2. snapshot' = [snapshot EXCEPT ![p] = Unstarted]
        /\ UNCHANGED <<byName, serverVars, setVars, stack, answers, calls, failures>>
    BY <2>1 DEF EndTransaction
  <2>3. snapshot' \in [Sessions -> (SUBSET Known) \cup {Unstarted}]
    <3>1. Unstarted \in (SUBSET Known) \cup {Unstarted}
      OBVIOUS
    <3> QED BY <2>2, <3>1 DEF LocksInv, DataOK
  <2>4. DataOK'
    BY <2>2, <2>3 DEF LocksInv, DataOK, TypeOK
  <2> QED BY <2>2, <2>4, OthersStep
<1>2. CASE ClearCache
  <2>1. /\ entries' = [entries EXCEPT ![Root] = <<>>]
        /\ loaded' = [loaded EXCEPT ![Root] = FALSE]
        /\ UNCHANGED <<byName, serverVars, snapshot, generation, loadLock, loadingThread, slice,
                       stack, answers, calls, failures>>
    BY <1>2 DEF ClearCache
  <2>2. DOMAIN entries' = Sets /\ \A c \in Sets : entries'[c] \in EntriesOf(c)
    BY <2>1, NoEntries, SetFacts DEF LocksInv, DataOK, EntriesOf
  <2>3. loaded' \in [Sets -> BOOLEAN] /\ ~loaded'[Root]
    BY <2>1, SetFacts DEF LocksInv, DataOK, TypeOK
  <2>4. TypeOK'
    BY <2>1, <2>3 DEF LocksInv, DataOK, TypeOK
  <2>5. DataOK'
    BY <2>1, <2>2, <2>3, <2>4 DEF LocksInv, DataOK
  <2> QED BY <2>1, <2>5, OthersStep
<1>3. CASE OtherClient
  <2>1. PICK x \in OtherClients :
          \/ exists' = exists \cup {x} /\ used' = used \cup {x}
          \/ exists' = exists \ {x} /\ used' = used
    BY <1>3 DEF OtherClient
  <2>2. UNCHANGED <<byName, snapshot, setVars, stack, answers, calls, failures>>
    BY <1>3 DEF OtherClient
  <2>3. used' \subseteq Known /\ exists' \subseteq used' /\ used' \subseteq Schemas \cup Objects
    <3>1. x \in Known /\ x \in Schemas \cup Objects
      BY SchemaAssumption DEF Known
    <3>2. used \subseteq Known /\ exists \subseteq used /\ used \subseteq Schemas \cup Objects
      BY DEF LocksInv, DataOK, TypeOK
    <3> QED BY <2>1, <3>1, <3>2
  <2>4. TypeOK'
    BY <2>2, <2>3 DEF LocksInv, DataOK, TypeOK
  <2>5. DataOK'
    BY <2>2, <2>3, <2>4 DEF LocksInv, DataOK
  <2> QED BY <2>2, <2>5, OthersStep
<1> QED BY <1>1, <1>2, <1>3

LEMMA LocksNext == LocksInv /\ [Next]_vars => LocksInv'
<1> SUFFICES ASSUME LocksInv, [Next]_vars PROVE LocksInv'
  OBVIOUS
<1>1. CASE UNCHANGED vars
  <2>1. UNCHANGED <<byName, serverVars, snapshot, setVars, stack, answers, calls, failures>>
    BY <1>1 DEF vars
  <2>2. DataOK'
    BY <2>1 DEF LocksInv, DataOK, TypeOK
  <2> QED BY <2>1, <2>2, OthersStep
<1>2. ASSUME NEW p \in Sessions, Session(p) PROVE LocksInv'
  <2>1. CASE Lookup(p) \/ StartDdl(p)
    BY <2>1, StatementStarts
  <2>2. CASE FindSchema(p)
    BY <2>2, SchemaFound
  <2>3. CASE FindEntry(p)
    BY <2>3, EntryFound
  <2>4. CASE Load(p)
    BY <2>4, LoadBegins, QueryAnswered, SchemasLoaded, TypeLookedUp, CompositeBuilt, TableBuilt,
       LoadEnds DEF Load
  <2>5. CASE Reload(p)
    BY <2>5, ReloadBegins, TableQueried, ReloadEnds DEF Reload
  <2>6. CASE Ddl(p)
    BY <2>6, Creation, Dropped, Failed DEF Ddl
  <2>7. CASE QueryFails(p)
    BY <2>7, Failed
  <2>8. CASE EndTransaction(p)
    BY <2>8, OthersAct
  <2> QED BY <1>2, <2>1, <2>2, <2>3, <2>4, <2>5, <2>6, <2>7, <2>8 DEF Session
<1>3. CASE ClearCache \/ OtherClient
  BY <1>3, OthersAct
<1> QED BY <1>1, <1>2, <1>3 DEF Next

\* The variables have their types, and loading_thread names whoever holds load_lock
\* (LoadEntriesLocked), for any number of sessions and whatever the catalog holds: a thread
\* that skips the load of the types as its own loading thread really is loading them.
THEOREM LoadingThreadHoldsTheLock == Spec => []TypeOK
<1>1. Spec => []LocksInv
  BY LocksInit, LocksNext, PTL DEF Spec
<1>2. LocksInv => TypeOK
  BY DEF LocksInv, DataOK
<1> QED BY <1>1, <1>2, PTL

-------------------------------------------------------------------------------
(* The order in which load_locks are taken.                                *)

\* Each composite refers to types of its own schema and of schemas of lower rank only.
InOrder(rank) ==
  \A o \in Objects \cap Known : KindOf[o] = "composite" =>
    \A r \in ToSet(Refs[o]) : SchemaOf[r] = SchemaOf[o] \/ rank[SchemaOf[r]] < rank[SchemaOf[o]]
TypesInOrder == \E rank \in [Schemas -> Nat] : InOrder(rank)
SchemaRank == CHOOSE rank \in [Schemas -> Nat] : InOrder(rank)

\* The call f was started, directly or not, to build what the call h builds.
Above(f, h) ==
  /\ f.verb = "find" /\ f.want \in Types
  /\ f.set # Root => f.set[1] = "types" /\ f.set[2] = SchemaOf[f.want]
  /\ h.set[1] = "types" => \/ SchemaRank[SchemaOf[f.want]] < SchemaRank[h.set[2]]
                           \/ f.set = h.set /\ f.pc = "find"

\* A call on types builds those of its schema, out of types of schemas of lower rank.
Sorted(f) ==
  f.set[1] = "types" =>
    /\ f.todo \in Seq(Own(f.set))
    /\ \A r \in ToSet(f.refs) : \/ SchemaOf[r] = f.set[2]
                                \/ SchemaRank[SchemaOf[r]] < SchemaRank[f.set[2]]

StackOrder(s) ==
  /\ \A i \in DOMAIN s : Sorted(s[i])
  /\ \A i, j \in DOMAIN s : i < j => Above(s[i], s[j])

OrderInv == \A p \in Sessions : StackOrder(stack[p])

LEMMA RankFacts == TypesInOrder => SchemaRank \in [Schemas -> Nat] /\ InOrder(SchemaRank)
BY DEF TypesInOrder, SchemaRank

LEMMA RefsSorted ==
  ASSUME TypesInOrder, NEW c \in Sets, c[1] = "types", NEW todo \in Seq(Own(c)),
         NEW r \in ToSet(RefsOfFirst(todo))
  PROVE  SchemaOf[r] = c[2] \/ SchemaRank[SchemaOf[r]] < SchemaRank[c[2]]
<1>1. CASE todo = <<>> \/ byName
  BY <1>1 DEF RefsOfFirst, ToSet
<1>2. CASE ~(todo = <<>> \/ byName)
  <2>1. todo[1] \in Own(c)
    BY <1>2
  <2>2. todo[1] \in Objects \cap Known /\ SchemaOf[todo[1]] = c[2] /\ KindOf[todo[1]] = "composite"
    BY <2>1 DEF Own
  <2>3. r \in ToSet(Refs[todo[1]])
    BY <1>2 DEF RefsOfFirst
  <2> QED BY <2>2, <2>3, RankFacts DEF InOrder
<1> QED BY <1>1, <1>2

LEMMA TopReplaced ==
  ASSUME NEW s \in Seq(Frame), s # <<>>, StackOrder(s), NEW g, Sorted(g),
         \A h : Above(s[1], h) => Above(g, h)
  PROVE  StackOrder([s EXCEPT ![1] = g])
<1> DEFINE t == [s EXCEPT ![1] = g]
<1>1. /\ DOMAIN t = DOMAIN s /\ 1 \in DOMAIN s /\ t[1] = g
      /\ \A i \in DOMAIN s : i # 1 => t[i] = s[i]
      /\ DOMAIN s = 1 .. Len(s) /\ Len(s) \in Nat
  OBVIOUS
<1> HIDE DEF t
<1>2. \A i \in DOMAIN t : Sorted(t[i])
  BY <1>1 DEF StackOrder
<1>3. ASSUME NEW i \in DOMAIN t, NEW j \in DOMAIN t, i < j PROVE Above(t[i], t[j])
  <2>1. Above(s[i], s[j]) /\ t[j] = s[j]
    <3>1. j # 1
      BY <1>1, <1>3
    <3> QED BY <1>1, <1>3, <3>1 DEF StackOrder
  <2> QED BY <1>1, <2>1
<1> QED BY <1>2, <1>3 DEF StackOrder, t

\* The call h of the stack below f is built from what f looks up.
LEMMA Transitive ==
  ASSUME TypesInOrder, NEW f, f.verb = "find", f.want \in Types,
         f.set # Root => f.set[1] = "types" /\ f.set[2] = SchemaOf[f.want],
         NEW e \in Frame, e.set # Root, e.pc # "find",
         e.set[1] = "types" => \/ SchemaRank[SchemaOf[f.want]] < SchemaRank[e.set[2]]
                               \/ SchemaOf[f.want] = e.set[2],
         NEW h \in Frame, Above(e, h)
  PROVE  Above(f, h)
<1>1. CASE h.set[1] = "types"
  <2>1. /\ e.set[1] = "types" /\ e.set[2] = SchemaOf[e.want] /\ e.want \in Objects
        /\ SchemaRank[e.set[2]] < SchemaRank[h.set[2]]
    BY <1>1 DEF Above, Types
  <2>2. h.set # Root
    BY <1>1, SetFacts
  <2>3. /\ SchemaRank[SchemaOf[f.want]] \in Nat /\ SchemaRank[e.set[2]] \in Nat
        /\ SchemaRank[h.set[2]] \in Nat
    <3>1. SchemaOf[f.want] \in Schemas /\ e.set[2] \in Schemas /\ h.set[2] \in Schemas
      BY <2>2, FrameFacts, SetFacts, SchemaOfType DEF Types
    <3> QED BY <3>1, RankFacts
  <2>4. SchemaRank[SchemaOf[f.want]] < SchemaRank[h.set[2]]
    BY <2>1, <2>3
  <2> QED BY <2>4 DEF Above
<1>2. CASE h.set[1] # "types"
  BY <1>2 DEF Above
<1> QED BY <1>1, <1>2

LEMMA TypeStarted ==
  ASSUME TypesInOrder, NEW s \in Seq(Frame), s # <<>>, StackOrder(s),
         s[1].set # Root, s[1].pc # "find",
         NEW f \in Frame, Above(f, s[1]), f.set[1] = "types" => f.todo = <<>> /\ f.refs = <<>>
  PROVE  StackOrder(<<f>> \o s)
<1> DEFINE t == <<f>> \o s
<1>1. /\ t \in Seq(Frame) /\ DOMAIN t = 1 .. Len(s) + 1 /\ t[1] = f
      /\ DOMAIN s = 1 .. Len(s) /\ Len(s) \in Nat /\ 1 \in DOMAIN s
      /\ \A i \in 1 .. Len(s) : t[i + 1] = s[i]
  OBVIOUS
<1> HIDE DEF t
<1>2. \A j \in DOMAIN t : j # 1 => j - 1 \in DOMAIN s /\ t[j] = s[j - 1]
  <2> SUFFICES ASSUME NEW j \in DOMAIN t, j # 1 PROVE j - 1 \in DOMAIN s /\ t[j] = s[j - 1]
    OBVIOUS
  <2>1. j - 1 \in 1 .. Len(s) /\ (j - 1) + 1 = j
    BY <1>1
  <2> QED BY <1>1, <2>1
<1>3. Sorted(f)
  <2>1. <<>> \in Seq(Own(f.set)) /\ ToSet(<<>>) = {}
    BY DEF ToSet
  <2> QED BY <2>1 DEF Sorted
<1>4. \A j \in DOMAIN t : Sorted(t[j])
  BY <1>1, <1>2, <1>3 DEF StackOrder
<1>5. ASSUME NEW i \in DOMAIN t, NEW j \in DOMAIN t, i < j PROVE Above(t[i], t[j])
  <2>1. j # 1 /\ j - 1 \in DOMAIN s /\ t[j] = s[j - 1]
    BY <1>1, <1>2, <1>5
  <2>2. CASE i # 1
    <3>1. i - 1 \in DOMAIN s /\ t[i] = s[i - 1] /\ i - 1 < j - 1
      BY <1>1, <1>2, <1>5, <2>2
    <3> QED BY <2>1, <3>1 DEF StackOrder
  <2>3. CASE i = 1 /\ j = 2
    BY <1>1, <2>1, <2>3
  <2>4. CASE i = 1 /\ j # 2
    <3>1. 1 < j - 1
      BY <1>1, <1>5, <2>4
    <3>2. Above(s[1], s[j - 1]) /\ s[1] \in Frame /\ s[j - 1] \in Frame
      BY <1>1, <2>1, <3>1 DEF StackOrder
    <3>3. s[1].set[1] = "types" => \/ SchemaRank[SchemaOf[f.want]] < SchemaRank[s[1].set[2]]
                                   \/ SchemaOf[f.want] = s[1].set[2]
      BY DEF Above
    <3>4. /\ f.verb = "find" /\ f.want \in Types
          /\ f.set # Root => f.set[1] = "types" /\ f.set[2] = SchemaOf[f.want]
      BY DEF Above
    <3>5. Above(f, s[j - 1])
      BY <3>2, <3>3, <3>4, Transitive
    <3> QED BY <1>1, <2>1, <2>4, <3>5
  <2> QED BY <2>2, <2>3, <2>4
<1> QED BY <1>4, <1>5 DEF StackOrder, t

LEMMA TypeReturned ==
  ASSUME NEW p \in Sessions, NEW s \in Seq(Frame), s # <<>>, StackOrder(s),
         NEW got \in SUBSET Objects, \A i \in DOMAIN s : i # 1 => Suspended(s[i])
  PROVE  StackOrder(Returned(s, got))
<1> DEFINE t == Returned(s, got)
<1>1. /\ t \in Seq(Frame) /\ DOMAIN s = 1 .. Len(s) /\ Len(s) \in Nat /\ DOMAIN t = 1 .. Len(s) - 1
      /\ \A i \in DOMAIN s : i # 1 =>
           /\ i - 1 \in DOMAIN t
           /\ t[i - 1] = IF i = 2 THEN [s[2] EXCEPT !.refs = Tail(@), !.got = @ \cup got] ELSE s[i]
      /\ \A i \in DOMAIN t : i + 1 \in DOMAIN s
  BY ReturnedFrames
<1> HIDE DEF t
<1>2. ASSUME NEW i \in DOMAIN t
      PROVE  /\ i + 1 \in DOMAIN s /\ t[i].set = s[i + 1].set /\ t[i].pc = s[i + 1].pc
             /\ t[i].verb = s[i + 1].verb /\ t[i].want = s[i + 1].want
             /\ t[i].todo = s[i + 1].todo
             /\ t[i].refs = s[i + 1].refs \/ t[i].refs = Tail(s[i + 1].refs)
             /\ s[i + 1].refs \in Seq(Types) /\ s[i + 1].refs # <<>>
  <2>1. i + 1 \in DOMAIN s /\ i + 1 # 1 /\ (i + 1) - 1 = i /\ (i + 1 = 2 <=> i = 1)
    BY <1>1
  <2>2. s[i + 1] \in Frame /\ s[i + 1].refs \in Seq(Types) /\ s[i + 1].refs # <<>>
    BY <2>1, FrameFacts DEF Suspended
  <2>3. t[i] = IF i = 1 THEN [s[i + 1] EXCEPT !.refs = Tail(@), !.got = @ \cup got] ELSE s[i + 1]
    BY <1>1, <2>1
  <2> QED BY <2>1, <2>2, <2>3 DEF Frame
<1>3. \A refs \in Seq(Types) : refs # <<>> => ToSet(Tail(refs)) \subseteq ToSet(refs)
  <2> SUFFICES ASSUME NEW refs \in Seq(Types), refs # <<>>, NEW i \in DOMAIN Tail(refs)
               PROVE  Tail(refs)[i] \in ToSet(refs)
    BY DEF ToSet
  <2>1. i + 1 \in DOMAIN refs /\ Tail(refs)[i] = refs[i + 1]
    OBVIOUS
  <2> QED BY <2>1 DEF ToSet
<1>4. ASSUME NEW i \in DOMAIN t PROVE Sorted(t[i])
  <2>1. Sorted(s[i + 1]) /\ ToSet(t[i].refs) \subseteq ToSet(s[i + 1].refs)
    BY <1>2, <1>3 DEF StackOrder
  <2> QED BY <1>2, <2>1 DEF Sorted
<1>5. ASSUME NEW i \in DOMAIN t, NEW j \in DOMAIN t, i < j PROVE Above(t[i], t[j])
  <2>1. i + 1 \in DOMAIN s /\ j + 1 \in DOMAIN s /\ i + 1 < j + 1
    BY <1>1, <1>5
  <2>2. Above(s[i + 1], s[j + 1])
    BY <2>1 DEF StackOrder
  <2> QED BY <1>2, <2>2 DEF Above
<1> QED BY <1>4, <1>5 DEF StackOrder, t

LEMMA OrderOfCalls ==
  ASSUME LocksInv, OrderInv, NEW p \in Sessions, NEW s,
         stack' = [stack EXCEPT ![p] = s], StackOrder(s)
  PROVE  OrderInv'
<1>1. stack \in [Sessions -> Seq(Frame)]
  BY DEF LocksInv, DataOK
<1>2. \A q \in Sessions : stack'[q] = IF q = p THEN s ELSE stack[q]
  BY <1>1
<1>3. \A q \in Sessions : StackOrder(stack'[q])
  BY <1>2 DEF OrderInv
<1> QED BY <1>3 DEF OrderInv, StackOrder, Sorted, Above

\* The innermost call goes on.
LEMMA OrderKept ==
  ASSUME LocksInv, OrderInv, NEW p \in Sessions, stack[p] # <<>>, NEW g,
         stack' = [stack EXCEPT ![p][1] = g], Sorted(g),
         \A h : Above(Top(p), h) => Above(g, h)
  PROVE  OrderInv'
<1>1. stack[p] \in Seq(Frame) /\ StackOrder(stack[p])
  BY TopFacts DEF OrderInv
<1>2. stack' = [stack EXCEPT ![p] = [stack[p] EXCEPT ![1] = g]]
  OBVIOUS
<1>3. StackOrder([stack[p] EXCEPT ![1] = g])
  BY <1>1, TopReplaced DEF Top
<1> QED BY <1>2, <1>3, OrderOfCalls

LEMMA OrderAfterReturn ==
  ASSUME LocksInv, OrderInv, NEW p \in Sessions, stack[p] # <<>>,
         NEW got \in SUBSET Objects, NEW found, Return(p, got, found)
  PROVE  OrderInv'
<1>1. /\ stack[p] \in Seq(Frame) /\ StackOrder(stack[p])
      /\ \A i \in DOMAIN stack[p] : i # 1 => Suspended(stack[p][i])
  BY TopFacts DEF OrderInv, CallsOK
<1>2. StackOrder(Returned(stack[p], got))
  BY <1>1, TypeReturned
<1> QED BY <1>2, ReturnStack, OrderOfCalls

LEMMA TopSorted ==
  ASSUME LocksInv, OrderInv, NEW p \in Sessions, stack[p] # <<>>
  PROVE  /\ Top(p) = stack[p][1] /\ Top(p) \in Frame /\ Sorted(Top(p))
         /\ Top(p).set \in Sets /\ FrameOK(p, Top(p), loadLock, loadingThread, generation)
BY TopFacts DEF Top, OrderInv, StackOrder

\* The innermost call goes on with the same objects.
LEMMA OrderOnTheWay ==
  ASSUME LocksInv, OrderInv, NEW p \in Sessions, stack[p] # <<>>, NEW pc \in Pcs,
         Goto(p, pc),
         \/ Top(p).pc # "find" \/ Top(p).set[1] # "types" \/ Top(p).verb # "find"
  PROVE  OrderInv'
<1> DEFINE f == Top(p)
           g == [f EXCEPT !.pc = pc]
<1>1. f = stack[p][1] /\ f \in Frame /\ Sorted(f)
  BY TopSorted
<1>2. stack' = [stack EXCEPT ![p][1] = g]
  BY <1>1 DEF Goto
<1>3. /\ g.set = f.set /\ g.verb = f.verb /\ g.want = f.want /\ g.todo = f.todo
      /\ g.refs = f.refs
  BY <1>1 DEF Frame
<1>4. Sorted(g)
  BY <1>1, <1>3 DEF Sorted
<1>5. \A h : Above(f, h) => Above(g, h)
  BY <1>3 DEF Above
<1> HIDE DEF g
<1> QED BY <1>2, <1>4, <1>5, OrderKept

LEMMA OrderOfLookups ==
  ASSUME LocksInv, OrderInv, NEW p \in Sessions,
         Lookup(p) \/ StartDdl(p) \/ FindSchema(p) \/ FindEntry(p)
  PROVE  OrderInv'
<1> DEFINE f == Top(p)
<1>1. CASE Lookup(p) \/ StartDdl(p)
  <2>1. PICK verb, want, s : stack' = [stack EXCEPT ![p] = <<SchemaCall(p, verb, want, s)>>]
    BY <1>1 DEF Lookup, StartDdl
  <2>2. SchemaCall(p, verb, want, s).set = Root
    BY DEF SchemaCall, SetCall
  <2> DEFINE g == SchemaCall(p, verb, want, s)
  <2> HIDE DEF g
  <2>3. DOMAIN <<g>> = {1} /\ <<g>>[1] = g
    OBVIOUS
  <2>4. Sorted(g)
    BY <2>2, SetFacts DEF Sorted, g
  <2>5. StackOrder(<<g>>)
    BY <2>3, <2>4 DEF StackOrder
  <2> QED BY <2>1, <2>5, OrderOfCalls DEF g
<1>2. CASE FindSchema(p)
  <2> DEFINE c == <<SetKind(f.want), f.name, entries[Root][f.name]>>
  <2>1. stack[p] # <<>> /\ f.pc = "find" /\ f.set = Root
    BY <1>2 DEF FindSchema, At, Top
  <2>2. f = stack[p][1] /\ f \in Frame /\ FrameOK(p, f, loadLock, loadingThread, generation)
    BY <2>1, TopSorted
  <2>3. CASE Goto(p, "ddl")
    <3>1. f.set[1] # "types" /\ "ddl" \in Pcs
      BY <2>1, SetFacts DEF Pcs
    <3> QED BY <2>1, <2>3, <3>1, OrderOnTheWay
  <2>4. CASE \E found : Return(p, {}, found)
    <3>1. {} \in SUBSET Objects
      OBVIOUS
    <3> QED BY <2>1, <2>4, <3>1, OrderAfterReturn
  <2>5. CASE f.want # f.name
             /\ stack' = [stack EXCEPT ![p][1] =
                  IF f.verb = "create" THEN [f EXCEPT !.set = c, !.pc = "ddl"]
                  ELSE SetCall(p, c, f.verb, f.want)]
    <3> DEFINE g == IF f.verb = "create" THEN [f EXCEPT !.set = c, !.pc = "ddl"]
                    ELSE SetCall(p, c, f.verb, f.want)
    <3>1. /\ g.set = c /\ g.todo = <<>> /\ g.refs = <<>> /\ g.verb = f.verb /\ g.want = f.want
      BY <2>1, <2>2 DEF Frame, FrameOK, SetCall
    <3>2. Sorted(g)
      <4>1. <<>> \in Seq(Own(c)) /\ ToSet(<<>>) = {}
        BY DEF ToSet
      <4> QED BY <3>1, <4>1 DEF Sorted
    <3>3. ASSUME NEW h, Above(f, h) PROVE Above(g, h)
      <4>1. f.want \in Types /\ f.name = SchemaOf[f.want]
        BY <2>1, <2>2, <2>5, <3>3, SchemaOfType DEF Above, FrameOK, Types, NamesOf
      <4>2. c[1] = "types" /\ c[2] = SchemaOf[f.want]
        BY <4>1 DEF SetKind, Types
      <4>3. h.set[1] = "types" => SchemaRank[SchemaOf[f.want]] < SchemaRank[h.set[2]]
        BY <2>1, <3>3, SetFacts DEF Above
      <4> HIDE DEF c, g
      <4> QED BY <3>1, <3>3, <4>1, <4>2, <4>3 DEF Above
    <3>4. stack' = [stack EXCEPT ![p][1] = g]
      BY <2>5
    <3> HIDE DEF g
    <3> QED BY <2>1, <3>2, <3>3, <3>4, OrderKept
  <2> QED BY <1>2, <2>3, <2>4, <2>5 DEF FindSchema
<1>3. CASE FindEntry(p)
  <2>1. stack[p] # <<>> /\ f = stack[p][1] /\ f.pc = "find" /\ f.set # Root
    BY <1>3 DEF FindEntry, At, Top
  <2>2. \/ f.verb = "drop" /\ Goto(p, "ddl")
        \/ f.want \in DOMAIN entries[f.set] /\ Return(p, entries[f.set][f.want], TRUE)
        \/ f.set[1] = "tables" /\ Goto(p, "relock")
        \/ Return(p, {}, FALSE)
    BY <1>3 DEF FindEntry
  <2>3. {"ddl", "relock"} \subseteq Pcs /\ {} \in SUBSET Objects
    BY DEF Pcs
  <2>4. f.want \in DOMAIN entries[f.set] => entries[f.set][f.want] \in SUBSET Objects
    <3>1. entries[f.set] \in MapsInto(Objects, SUBSET Objects)
      BY <2>1, TopFacts DEF LocksInv, DataOK, EntriesOf
    <3> QED BY <3>1, MapFacts
  <2> QED BY <2>1, <2>2, <2>3, <2>4, OrderOnTheWay, OrderAfterReturn
<1> QED BY <1>1, <1>2, <1>3

LEMMA OrderOfLoads ==
  ASSUME TypesInOrder, LocksInv, OrderInv, NEW p \in Sessions,
         LockToLoad(p) \/ QuerySchemas(p) \/ LoadSchemas(p) \/ FinishLoad(p)
  PROVE  OrderInv'
<1> DEFINE f == Top(p)
           c == f.set
<1>1. stack[p] # <<>> /\ f.pc \in {"lock", "query", "slice", "load"}
  BY Zenon DEF LockToLoad, QuerySchemas, LoadSchemas, FinishLoad, At, Top
<1>2. f = stack[p][1] /\ f \in Frame /\ Sorted(f) /\ c \in Sets
  BY <1>1, TopSorted
<1>3. {"find", "slice", "load"} \subseteq Pcs
  BY DEF Pcs
<1>4. CASE \E pc \in {"find", "slice", "load"} : Goto(p, pc)
  BY <1>1, <1>3, <1>4, OrderOnTheWay
<1>5. CASE stack' = stack
  <2>1. \A q \in Sessions : StackOrder(stack'[q])
    BY <1>5 DEF OrderInv
  <2> QED BY <2>1 DEF OrderInv, StackOrder, Sorted, Above
<1>6. CASE LockToLoad(p) /\ ~loaded[c]
  <2> DEFINE todo == slice[c][2]
             g == [f EXCEPT !.pc = IF c = Root THEN "query" ELSE "load",
                            !.todo = todo, !.refs = RefsOfFirst(todo)]
  <2>1. stack' = [stack EXCEPT ![p][1] = g]
    BY <1>2, <1>6 DEF LockToLoad
  <2>2. todo \in Seq(Own(c))
    <3>1. slice[c] \in Seq(Objects) \X Seq(Own(c))
      BY <1>2 DEF LocksInv, DataOK
    <3> QED BY <3>1
  <2> HIDE DEF todo
  <2>3. g.set = c /\ g.verb = f.verb /\ g.want = f.want /\ g.todo = todo
        /\ g.refs = RefsOfFirst(todo)
    BY <1>2 DEF Frame
  <2> HIDE DEF g
  <2>4. Sorted(g)
    BY <1>2, <2>2, <2>3, RefsSorted DEF Sorted
  <2>5. \A h : Above(f, h) => Above(g, h)
    BY <1>1, <2>3 DEF Above
  <2> QED BY <1>1, <2>1, <2>4, <2>5, OrderKept
<1>7. CASE FinishLoad(p)
  <2> DEFINE g == [f EXCEPT !.pc = "find", !.built = <<>>]
  <2>1. stack' = [stack EXCEPT ![p][1] = g]
    BY <1>7 DEF FinishLoad
  <2>2. g.set = c /\ g.verb = f.verb /\ g.want = f.want /\ g.todo = f.todo /\ g.refs = f.refs
    BY <1>2 DEF Frame
  <2> HIDE DEF g
  <2>3. Sorted(g)
    BY <1>2, <2>2 DEF Sorted
  <2>4. \A h : Above(f, h) => Above(g, h)
    BY <1>1, <2>2 DEF Above
  <2> QED BY <1>1, <2>1, <2>3, <2>4, OrderKept
<1>8. LockToLoad(p) /\ loaded[c] => Goto(p, "find")
  BY DEF LockToLoad
<1>9. QuerySchemas(p) => Goto(p, "slice") \/ stack' = stack
  BY DEF QuerySchemas
<1>10. LoadSchemas(p) => Goto(p, "load")
  BY DEF LoadSchemas
<1> QED BY <1>4, <1>5, <1>6, <1>7, <1>8, <1>9, <1>10

LEMMA OrderOfTypes ==
  ASSUME TypesInOrder, LocksInv, OrderInv, NEW p \in Sessions, ResolveType(p)
  PROVE  OrderInv'
<1> DEFINE f == Top(p)
           r == f.refs[1]
           c == <<"types", f.set[2], f.set[3]>>
           g == IF SchemaOf[r] = f.set[2] THEN SetCall(p, c, "find", r)
                ELSE SchemaCall(p, "find", r, SchemaOf[r])
<1>1. /\ stack[p] # <<>> /\ f.pc \in {"load", "rebuild"} /\ f.refs # <<>>
      /\ stack' = [stack EXCEPT ![p] = <<g>> \o @]
  BY DEF ResolveType, Building, At, Top
<1>2. /\ f = stack[p][1] /\ f \in Frame /\ Sorted(f) /\ f.set \in Sets
      /\ FrameOK(p, f, loadLock, loadingThread, generation)
      /\ stack[p] \in Seq(Frame) /\ StackOrder(stack[p])
  BY <1>1, TopSorted, TopFacts DEF OrderInv
<1>3. r \in Types /\ r \in Objects /\ r \in ToSet(f.refs)
  <2>1. f.refs \in Seq(Types)
    BY <1>2, FrameFacts
  <2>2. \A refs \in Seq(Types) : refs # <<>> => refs[1] \in Types /\ refs[1] \in ToSet(refs)
    BY DEF ToSet
  <2> QED BY <1>1, <2>1, <2>2 DEF Types
<1>4. f.set # Root /\ c \in Sets \ {Root}
  BY <1>1, <1>2, SetFacts DEF FrameOK
<1> HIDE DEF r
<1>5. g \in Frame /\ g.todo = <<>> /\ g.refs = <<>> /\ g.verb = "find" /\ g.want = r
  <2>1. SchemaOf[r] \in Schemas /\ SchemaOf[r] \in NamesOf("find", r)
    BY <1>3, SchemaOfType DEF NamesOf
  <2>2. g \in Frame
    BY <1>3, <1>4, <2>1, NewCalls
  <2> QED BY <2>2 DEF SchemaCall, SetCall
<1>6. Above(g, f)
  <2>1. CASE SchemaOf[r] = f.set[2]
    <3>1. /\ g.set = c /\ g.pc = IF SkipsLoad(c, p) THEN "find" ELSE "lock"
      BY <2>1 DEF SetCall
    <3>2. f.set[1] = "types" => c = f.set
      BY <1>2, SetFacts DEF Sets, Root
    <3>3. f.set[1] = "types" => loadingThread[f.set] = p
      BY <1>1, <1>2 DEF FrameOK
    <3>4. f.set[1] = "types" => g.set = f.set /\ g.pc = "find"
      BY <3>1, <3>2, <3>3 DEF SkipsLoad
    <3> HIDE DEF g
    <3> QED BY <1>3, <1>5, <2>1, <3>1, <3>4 DEF Above
  <2>2. CASE SchemaOf[r] # f.set[2]
    <3>1. g.set = Root
      BY <2>2 DEF SchemaCall, SetCall
    <3>2. f.set[1] = "types" => SchemaRank[SchemaOf[r]] < SchemaRank[f.set[2]]
      BY <1>2, <1>3, <2>2 DEF Sorted
    <3> HIDE DEF g
    <3> QED BY <1>3, <1>5, <3>1, <3>2 DEF Above
  <2> QED BY <2>1, <2>2
<1> HIDE DEF g
<1>7. StackOrder(<<g>> \o stack[p])
  BY <1>1, <1>2, <1>4, <1>5, <1>6, TypeStarted
<1> QED BY <1>1, <1>7, OrderOfCalls

LEMMA OrderOfObjects ==
  ASSUME TypesInOrder, LocksInv, OrderInv, NEW p \in Sessions,
         CreateCompositeType(p) \/ BuildTable(p)
  PROVE  OrderInv'
<1> DEFINE f == Top(p)
<1>1. PICK built : /\ stack[p] # <<>> /\ f.pc \in {"load", "rebuild"} /\ f.todo # <<>>
                   /\ NextObject(p, built)
  BY DEF CreateCompositeType, BuildTable, Building, At, Top
<1> DEFINE g == [f EXCEPT !.todo = Tail(@), !.refs = RefsOfFirst(Tail(f.todo)), !.got = {},
                          !.built = built]
<1>2. f \in Frame /\ f.set \in Sets /\ Sorted(f) /\ f.todo \in Seq(Objects)
  BY <1>1, TopSorted, FrameFacts
<1>3. stack' = [stack EXCEPT ![p][1] = g]
  BY <1>1 DEF NextObject
<1>4. g.set = f.set /\ g.verb = f.verb /\ g.want = f.want /\ g.todo = Tail(f.todo)
      /\ g.refs = RefsOfFirst(Tail(f.todo))
  BY <1>2 DEF Frame
<1> HIDE DEF g
<1>5. Sorted(g)
  <2>1. CASE f.set[1] = "types"
    <3>1. f.todo \in Seq(Own(f.set))
      BY <1>2, <2>1 DEF Sorted
    <3>2. \A todo \in Seq(Own(f.set)) : todo # <<>> => Tail(todo) \in Seq(Own(f.set))
      OBVIOUS
    <3>3. Tail(f.todo) \in Seq(Own(f.set))
      BY <1>1, <3>1, <3>2
    <3> QED BY <1>2, <1>4, <2>1, <3>3, RefsSorted DEF Sorted
  <2>2. CASE f.set[1] # "types"
    BY <1>4, <2>2 DEF Sorted
  <2> QED BY <2>1, <2>2
<1>6. \A h : Above(f, h) => Above(g, h)
  BY <1>1, <1>4 DEF Above
<1> QED BY <1>1, <1>3, <1>5, <1>6, OrderKept

LEMMA OrderOfReloads ==
  ASSUME LocksInv, OrderInv, NEW p \in Sessions, Reload(p)
  PROVE  OrderInv'
<1> DEFINE f == Top(p)
<1>1. stack[p] # <<>> /\ f.pc \in {"relock", "requery", "rebuild"} /\ {} \in SUBSET Objects
  BY DEF Reload, LockToReload, QueryTable, FinishReload, At, Top
<1>2. f \in Frame /\ f.set[1] = "tables"
  BY <1>1, TopSorted DEF FrameOK
<1>3. CASE LockToReload(p)
  <2>1. Goto(p, "requery") /\ "requery" \in Pcs
    BY <1>3 DEF LockToReload, Pcs
  <2> QED BY <1>1, <1>2, <2>1, OrderOnTheWay
<1>4. CASE QueryTable(p) /\ f.want \in View(p)
  <2> DEFINE g == [f EXCEPT !.pc = "rebuild", !.todo = <<f.want>>, !.refs = RefsOfFirst(<<f.want>>)]
  <2>1. stack' = [stack EXCEPT ![p][1] = g]
    BY <1>4 DEF QueryTable
  <2>2. g.set = f.set /\ g.verb = f.verb /\ g.want = f.want
    BY <1>2 DEF Frame
  <2> HIDE DEF g
  <2>3. Sorted(g)
    BY <1>2, <2>2 DEF Sorted
  <2>4. \A h : Above(f, h) => Above(g, h)
    BY <1>1, <2>2 DEF Above
  <2> QED BY <1>1, <2>1, <2>3, <2>4, OrderKept
<1>5. CASE \E found : Return(p, {}, found)
  BY <1>1, <1>5, OrderAfterReturn
<1> QED BY <1>3, <1>4, <1>5 DEF Reload, QueryTable, FinishReload

LEMMA OrderOfStatements ==
  ASSUME LocksInv, OrderInv, NEW p \in Sessions, Ddl(p) \/ QueryFails(p)
  PROVE  OrderInv'
<1>1. \/ At(p, "ddl") /\ Return(p, {}, TRUE)
      \/ stack' = [stack EXCEPT ![p] = <<>>]
  BY DEF Ddl, CreateSchema, CreateType, CreateIndex, Created, Drop, DdlFails, QueryFails, Throw
<1>2. CASE At(p, "ddl") /\ Return(p, {}, TRUE)
  <2>1. {} \in SUBSET Objects
    OBVIOUS
  <2> QED BY <1>2, <2>1, OrderAfterReturn DEF At
<1>3. CASE stack' = [stack EXCEPT ![p] = <<>>]
  <2>1. StackOrder(<<>>)
    BY DEF StackOrder
  <2> QED BY <1>3, <2>1, OrderOfCalls
<1> QED BY <1>1, <1>2, <1>3

LEMMA OrderNext == TypesInOrder /\ LocksInv /\ OrderInv /\ [Next]_vars => OrderInv'
<1> SUFFICES ASSUME TypesInOrder, LocksInv, OrderInv, [Next]_vars PROVE OrderInv'
  OBVIOUS
<1>1. CASE stack' = stack
  <2>1. \A q \in Sessions : StackOrder(stack'[q])
    BY <1>1 DEF OrderInv
  <2> QED BY <2>1 DEF OrderInv, StackOrder, Sorted, Above
<1>2. ASSUME NEW p \in Sessions, Session(p) PROVE OrderInv'
  <2>1. CASE Lookup(p) \/ StartDdl(p) \/ FindSchema(p) \/ FindEntry(p)
    BY <2>1, OrderOfLookups
  <2>2. CASE Load(p)
    BY <2>2, OrderOfLoads, OrderOfTypes, OrderOfObjects DEF Load
  <2>3. CASE Reload(p)
    BY <2>3, OrderOfReloads
  <2>4. CASE Ddl(p) \/ QueryFails(p)
    BY <2>4, OrderOfStatements
  <2>5. CASE EndTransaction(p)
    BY <1>1, <2>5 DEF EndTransaction
  <2> QED BY <1>2, <2>1, <2>2, <2>3, <2>4, <2>5 DEF Session
<1>3. CASE ClearCache \/ OtherClient \/ UNCHANGED vars
  BY <1>1, <1>3 DEF ClearCache, OtherClient, vars
<1> QED BY <1>2, <1>3 DEF Next

\* Of the sessions that wait in a cycle, each waits for the types of a schema whose rank is
\* below that of the types that it is loading.
LEMMA NobodyWaitsInACycle ==
  ASSUME TypesInOrder, LocksInv, OrderInv
  PROVE  NoLockCycle
<1> SUFFICES ASSUME NEW P \in (SUBSET Sessions) \ {{}},
                    \A p \in P : Waiting(p) /\ loadLock[Top(p).set] \in P
             PROVE  FALSE
  BY DEF NoLockCycle
<1> DEFINE awaited(p) == Top(p).set
           holder(p) == loadLock[awaited(p)]
<1>1. ASSUME NEW p \in P
      PROVE  /\ Top(p) \in Frame /\ Top(p) = stack[p][1] /\ Top(p).pc \in {"lock", "relock"}
             /\ Top(p).pc = "relock" => awaited(p)[1] = "tables"
             /\ awaited(p) \in Sets /\ holder(p) \in P
             /\ stack[p] \in Seq(Frame) /\ 1 \in DOMAIN stack[p] /\ StackOrder(stack[p])
             /\ CallsOK(p, stack[p], loadLock, loadingThread, generation)
  <2>1. p \in Sessions /\ stack[p] # <<>> /\ Top(p).pc \in {"lock", "relock"}
    BY DEF Waiting, At, Top
  <2> QED BY <2>1, TopSorted, TopFacts DEF FrameOK, OrderInv
<1>2. ASSUME NEW p \in P
      PROVE  \E j \in DOMAIN stack[holder(p)] :
               /\ 1 < j /\ stack[holder(p)][j] \in Frame
               /\ stack[holder(p)][j].set = awaited(p) /\ awaited(p) # Root
  <2> DEFINE q == holder(p)
  <2>1. /\ q \in P /\ stack[q] \in Seq(Frame) /\ Top(q) = stack[q][1]
        /\ Top(q).pc \in {"lock", "relock"} /\ awaited(p) \in Sets /\ loadLock[awaited(p)] = q
        /\ CallsOK(q, stack[q], loadLock, loadingThread, generation)
    BY <1>1
  <2> HIDE DEF q
  <2>2. PICK j \in DOMAIN stack[q] : Holding(stack[q][j]) /\ stack[q][j].set = awaited(p)
    BY <2>1 DEF CallsOK
  <2>3. j # 1
    BY <2>1, <2>2 DEF Holding
  <2>4. 1 < j /\ stack[q][j] \in Frame
    BY <2>1, <2>3, FrameFacts
  <2>5. Suspended(stack[q][j]) /\ FrameOK(q, stack[q][j], loadLock, loadingThread, generation)
    BY <2>1, <2>3 DEF CallsOK
  <2>6. awaited(p) # Root
    BY <2>2, <2>5 DEF Suspended, FrameOK
  <2> QED BY <2>2, <2>4, <2>6 DEF q
<1>3. ASSUME NEW p \in P
      PROVE  /\ awaited(holder(p))[1] = "types"
             /\ awaited(p)[1] = "types" =>
                  SchemaRank[awaited(holder(p))[2]] < SchemaRank[awaited(p)[2]]
  <2> DEFINE q == holder(p)
  <2>1. PICK j \in DOMAIN stack[q] : 1 < j /\ stack[q][j].set = awaited(p)
    BY <1>2
  <2>2. /\ q \in P /\ Top(q) = stack[q][1] /\ Top(q).pc \in {"lock", "relock"}
        /\ 1 \in DOMAIN stack[q] /\ StackOrder(stack[q])
    BY <1>1
  <2>3. awaited(q) # Root
    BY <1>2, <2>2
  <2> HIDE DEF q
  <2>4. Above(Top(q), stack[q][j])
    BY <2>1, <2>2 DEF StackOrder
  <2>5. awaited(q)[1] = "types" /\ awaited(q)[2] = SchemaOf[Top(q).want]
    BY <2>3, <2>4 DEF Above
  <2>6. awaited(p)[1] = "types" => SchemaRank[awaited(q)[2]] < SchemaRank[awaited(p)[2]]
    BY <2>1, <2>2, <2>4, <2>5 DEF Above
  <2> QED BY <2>5, <2>6 DEF q
<1> DEFINE waits == {p \in P : awaited(p)[1] = "types"}
           ranks == {SchemaRank[awaited(p)[2]] : p \in waits}
<1>4. ranks \in SUBSET Nat
  <2>1. ASSUME NEW p \in P PROVE SchemaRank[awaited(p)[2]] \in Nat
    <3>1. awaited(p)[2] \in Schemas
      BY <1>1, <1>2, SetFacts
    <3> QED BY <3>1, RankFacts
  <2> QED BY <2>1
<1>5. \A p \in P : holder(p) \in waits
  BY <1>1, <1>3
<1>6. ranks # {}
  <2>1. P # {}
    OBVIOUS
  <2>2. PICK p : p \in P
    BY <2>1
  <2> HIDE DEF waits, holder
  <2>3. holder(p) \in waits
    BY <1>5, <2>2
  <2> QED BY <2>3
<1>7. PICK n \in ranks : \A m \in ranks : n <= m
  <2> HIDE DEF ranks
  <2> QED BY <1>4, <1>6, Smallest
<1>8. PICK p \in waits : n = SchemaRank[awaited(p)[2]]
  BY <1>7
<1>9. holder(p) \in waits /\ SchemaRank[awaited(holder(p))[2]] < n
  BY <1>3, <1>5, <1>8
<1> DEFINE m == SchemaRank[awaited(holder(p))[2]]
<1>10. m \in ranks /\ m < n
  BY <1>9
<1> HIDE DEF m, ranks
<1>11. m \in Nat /\ n \in Nat /\ n <= m
  BY <1>4, <1>7, <1>10
<1> QED BY <1>10, <1>11

\* No sessions wait for each other's load_lock (LoadEntriesLocked, TypeToLogicalType), with any
\* number of sessions and schemas, as long as the schemas can be ranked so that a composite
\* type refers to types of its own schema and of schemas of lower rank.  Tables may refer to
\* all of them.
THEOREM LocksAreOrdered ==
  ASSUME TypesInOrder
  PROVE  Spec => []NoLockCycle
<1>1. Init => LocksInv /\ OrderInv
  <2>1. Init => OrderInv
    BY DEF Init, OrderInv, StackOrder
  <2> QED BY <2>1, LocksInit
<1>2. LocksInv /\ OrderInv /\ [Next]_vars => LocksInv' /\ OrderInv'
  BY LocksNext, OrderNext
<1>3. LocksInv /\ OrderInv => NoLockCycle
  BY NobodyWaitsInACycle
<1> QED BY <1>1, <1>2, <1>3, PTL DEF Spec
================================================================================

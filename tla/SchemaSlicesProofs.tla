--------------------------- MODULE SchemaSlicesProofs ---------------------------
(***************************************************************************)
(* Proofs about SchemaTypes: the five queries that load the schemas are    *)
(* cut into slices without losing a row.                                   *)
(***************************************************************************)
EXTENDS SchemaTypesProofs

USE DEF settingVars, serverVars, setVars

-------------------------------------------------------------------------------
(* The order of rows.                                                      *)

\* Who comes before whom in a finite linear order is told by the number of predecessors.
LEMMA PlacesGrow ==
  ASSUME NEW S, IsFiniteSet(S), NEW R,
         \A x \in S : <<x, x>> \notin R,
         \A x, y, z \in S : <<x, y>> \in R /\ <<y, z>> \in R => <<x, z>> \in R,
         NEW place, \A x \in S : place[x] = Cardinality({y \in S : <<y, x>> \in R})
  PROVE  \A x \in S : /\ place[x] \in Nat /\ place[x] < Cardinality(S)
                      /\ \A z \in S : <<x, z>> \in R => place[x] < place[z]
<1> TAKE x \in S
<1> DEFINE below(z) == {y \in S : <<y, z>> \in R}
<1>1. /\ IsFiniteSet(below(x)) /\ Cardinality(below(x)) <= Cardinality(S)
      /\ (Cardinality(S) = Cardinality(below(x)) => S = below(x))
  BY FS_Subset
<1>2. Cardinality(S) \in Nat /\ Cardinality(below(x)) \in Nat /\ x \notin below(x)
  BY <1>1, FS_CardinalityType
<1>3. ASSUME NEW z \in S, <<x, z>> \in R
      PROVE  Cardinality(below(x)) < Cardinality(below(z))
  <2>1. below(x) \in SUBSET below(z) /\ x \in below(z)
    BY <1>3
  <2>2. IsFiniteSet(below(z))
    BY FS_Subset
  <2>3. /\ Cardinality(below(x)) <= Cardinality(below(z))
        /\ (Cardinality(below(z)) = Cardinality(below(x)) => below(z) = below(x))
    BY <2>1, <2>2, FS_Subset
  <2>4. Cardinality(below(z)) \in Nat
    BY <2>2, FS_CardinalityType
  <2> QED BY <1>2, <2>1, <2>3, <2>4
<1>4. \A z \in S : place[z] = Cardinality(below(z))
  OBVIOUS
<1> HIDE DEF below
<1>5. Cardinality(below(x)) < Cardinality(S)
  BY <1>1, <1>2
<1> QED BY <1>2, <1>3, <1>4, <1>5

\* ORDER BY returns every row, in the order.
LEMMA InOrderOfRows ==
  ASSUME NEW S, IsFiniteSet(S), NEW R,
         \A x \in S : <<x, x>> \notin R,
         \A x, y \in S : x # y => <<x, y>> \in R \/ <<y, x>> \in R,
         \A x, y, z \in S : <<x, y>> \in R /\ <<y, z>> \in R => <<x, z>> \in R,
         NEW rows \in [1 .. Cardinality(S) -> S],
         \A i \in 1 .. Cardinality(S) : Cardinality({y \in S : <<y, rows[i]>> \in R}) = i - 1
  PROVE  /\ rows \in Seq(S)
         /\ \A x \in S : \E i \in DOMAIN rows : rows[i] = x
         /\ \A i, j \in DOMAIN rows : i < j => <<rows[i], rows[j]>> \in R
<1> DEFINE place == [x \in S |-> Cardinality({y \in S : <<y, x>> \in R})]
<1>1. Cardinality(S) \in Nat /\ DOMAIN rows = 1 .. Cardinality(S)
  BY FS_CardinalityType
<1>2. \A x \in S : /\ place[x] \in Nat /\ place[x] < Cardinality(S)
                   /\ \A z \in S : <<x, z>> \in R => place[x] < place[z]
  <2>1. \A x \in S : place[x] = Cardinality({y \in S : <<y, x>> \in R})
    OBVIOUS
  <2>2. /\ IsFiniteSet(S)
        /\ \A x \in S : <<x, x>> \notin R
        /\ \A x, y, z \in S : <<x, y>> \in R /\ <<y, z>> \in R => <<x, z>> \in R
    OBVIOUS
  <2> HIDE DEF place
  <2> QED BY ONLY <2>1, <2>2, PlacesGrow
<1>3. \A x, z \in S : <<x, z>> \in R => place[x] < place[z]
  BY <1>2
<1>4. \A i \in 1 .. Cardinality(S) : rows[i] \in S /\ place[rows[i]] = i - 1
  OBVIOUS
<1> HIDE DEF place
<1>5. rows \in Seq(S)
  BY <1>1, SeqDef
<1>6. ASSUME NEW x \in S PROVE \E i \in DOMAIN rows : rows[i] = x
  <2> DEFINE i == place[x] + 1
  <2>1. i \in 1 .. Cardinality(S) /\ place[x] \in Int /\ i - 1 = place[x]
    BY <1>1, <1>2
  <2>2. rows[i] \in S /\ place[rows[i]] = place[x]
    BY <1>4, <2>1
  <2>3. ~(place[x] < place[x])
    BY <2>1
  <2> HIDE DEF i
  <2>4. <<rows[i], x>> \notin R /\ <<x, rows[i]>> \notin R
    BY <1>3, <2>2, <2>3
  <2>5. rows[i] = x
    BY <2>2, <2>4
  <2> QED BY <1>1, <2>1, <2>5
<1>7. ASSUME NEW i \in DOMAIN rows, NEW j \in DOMAIN rows, i < j
      PROVE  <<rows[i], rows[j]>> \in R
  <2>1. /\ rows[i] \in S /\ rows[j] \in S /\ place[rows[i]] = i - 1 /\ place[rows[j]] = j - 1
        /\ i \in Int /\ j \in Int
    BY <1>1, <1>4
  <2>2. rows[i] # rows[j] /\ ~(place[rows[j]] < place[rows[i]])
    BY <1>7, <2>1
  <2> QED BY <1>3, <2>1, <2>2
<1> QED BY <1>5, <1>6, <1>7

LEMMA SchemaRowsOrdered ==
  ASSUME NEW view, byName \in BOOLEAN
  PROVE  /\ SchemaRows(view) \in Seq(Schemas)
         /\ ToSet(SchemaRows(view)) = view \cap Schemas
         /\ \A i, j \in DOMAIN SchemaRows(view) :
              i < j => Before(SchemaRows(view)[i], SchemaRows(view)[j])
<1> DEFINE S == view \cap Schemas
           R == {e \in S \X S : Before(e[1], e[2])}
           rows == SchemaRows(view)
<1>1. IsFiniteSet(S)
  BY SchemaAssumption, FS_Intersection
<1>2. \A x, y \in S : <<x, y>> \in R <=> Before(x, y)
  BY DEF Before
<1> HIDE DEF R
<1>3. /\ \A x \in S : <<x, x>> \notin R
      /\ \A x, y \in S : x # y => <<x, y>> \in R \/ <<y, x>> \in R
      /\ \A x, y, z \in S : <<x, y>> \in R /\ <<y, z>> \in R => <<x, z>> \in R
  BY <1>2, NamespacesOrdered
<1>4. \A x \in S : {y \in S : <<y, x>> \in R} = {y \in S : Before(y, x)}
  BY <1>2
<1>5. rows = [i \in 1 .. Cardinality(S) |->
                CHOOSE x \in S : Cardinality({y \in S : Before(y, x)}) = i - 1]
  BY DEF SchemaRows, Ordered
<1> HIDE DEF S, rows
<1>6. \A n \in 1 .. Cardinality(S) : \E x \in S : Cardinality({y \in S : <<y, x>> \in R}) = n - 1
  BY <1>1, <1>3, PlacesTaken
<1>7. \A n \in 1 .. Cardinality(S) : \E x \in S : Cardinality({y \in S : Before(y, x)}) = n - 1
  BY <1>4, <1>6
<1>8. /\ rows \in [1 .. Cardinality(S) -> S]
      /\ \A i \in 1 .. Cardinality(S) : Cardinality({y \in S : Before(y, rows[i])}) = i - 1
  BY <1>5, <1>7
<1>9. \A i \in 1 .. Cardinality(S) : Cardinality({y \in S : <<y, rows[i]>> \in R}) = i - 1
  BY <1>4, <1>8
<1>10. /\ rows \in Seq(S)
       /\ \A x \in S : \E i \in DOMAIN rows : rows[i] = x
       /\ \A i, j \in DOMAIN rows : i < j => <<rows[i], rows[j]>> \in R
  BY <1>1, <1>3, <1>8, <1>9, InOrderOfRows
<1>11. \A i \in DOMAIN rows : rows[i] \in S
  BY <1>10
<1>12. rows \in Seq(Schemas) /\ ToSet(rows) = S
  BY <1>10, <1>11 DEF ToSet, S
<1>13. \A i, j \in DOMAIN rows : i < j => Before(rows[i], rows[j])
  BY <1>2, <1>10, <1>11
<1> QED BY <1>12, <1>13 DEF rows, S

LEMMA RowsOrdered ==
  ASSUME NEW S, S \subseteq Objects, byName \in BOOLEAN
  PROVE  /\ Rows(S) \in Seq(Objects)
         /\ ToSet(Rows(S)) = S
         /\ \A i, j \in DOMAIN Rows(S) :
              i < j => /\ ~Before(SchemaOf[Rows(S)[j]], SchemaOf[Rows(S)[i]])
                       /\ SchemaOf[Rows(S)[i]] = SchemaOf[Rows(S)[j]] => Rows(S)[i] < Rows(S)[j]
<1> DEFINE R == {e \in S \X S : RowBefore(e[1], e[2])}
           rows == Rows(S)
<1>1. IsFiniteSet(S)
  BY SchemaAssumption, FS_Subset
<1>2. \A x, y \in S : <<x, y>> \in R <=> RowBefore(x, y)
  BY DEF RowBefore
<1> HIDE DEF R
<1>3. \A x \in S : x \in Nat /\ SchemaOf[x] \in Schemas
  BY SchemaAssumption
<1>4. /\ \A x \in S : ~RowBefore(x, x)
      /\ \A x, y \in S : x # y => RowBefore(x, y) \/ RowBefore(y, x)
      /\ \A x, y, z \in S : RowBefore(x, y) /\ RowBefore(y, z) => RowBefore(x, z)
      /\ \A x, y \in S : RowBefore(x, y) => /\ ~Before(SchemaOf[y], SchemaOf[x])
                                            /\ SchemaOf[x] = SchemaOf[y] => x < y
  BY <1>3, NamespacesOrdered DEF RowBefore
<1>5. \A x \in S : {y \in S : <<y, x>> \in R} = {y \in S : RowBefore(y, x)}
  BY <1>2
<1>6. rows = [i \in 1 .. Cardinality(S) |->
                CHOOSE x \in S : Cardinality({y \in S : RowBefore(y, x)}) = i - 1]
  BY DEF Rows, Ordered
<1> HIDE DEF rows
<1>7. /\ \A x \in S : <<x, x>> \notin R
      /\ \A x, y \in S : x # y => <<x, y>> \in R \/ <<y, x>> \in R
      /\ \A x, y, z \in S : <<x, y>> \in R /\ <<y, z>> \in R => <<x, z>> \in R
  BY <1>2, <1>4
<1>8. \A n \in 1 .. Cardinality(S) : \E x \in S : Cardinality({y \in S : <<y, x>> \in R}) = n - 1
  BY <1>1, <1>7, PlacesTaken
<1>9. \A n \in 1 .. Cardinality(S) : \E x \in S : Cardinality({y \in S : RowBefore(y, x)}) = n - 1
  BY <1>5, <1>8
<1>10. /\ rows \in [1 .. Cardinality(S) -> S]
       /\ \A i \in 1 .. Cardinality(S) : Cardinality({y \in S : RowBefore(y, rows[i])}) = i - 1
  BY <1>6, <1>9
<1>11. \A i \in 1 .. Cardinality(S) : Cardinality({y \in S : <<y, rows[i]>> \in R}) = i - 1
  BY <1>5, <1>10
<1>12. /\ rows \in Seq(S)
       /\ \A x \in S : \E i \in DOMAIN rows : rows[i] = x
       /\ \A i, j \in DOMAIN rows : i < j => <<rows[i], rows[j]>> \in R
  BY <1>1, <1>7, <1>10, <1>11, InOrderOfRows
<1>13. \A i \in DOMAIN rows : rows[i] \in S
  BY <1>12
<1>14. rows \in Seq(Objects) /\ ToSet(rows) = S
  BY <1>12, <1>13 DEF ToSet
<1>15. \A i, j \in DOMAIN rows :
         i < j => /\ ~Before(SchemaOf[rows[j]], SchemaOf[rows[i]])
                  /\ SchemaOf[rows[i]] = SchemaOf[rows[j]] => rows[i] < rows[j]
  BY <1>2, <1>4, <1>12, <1>13
<1> QED BY <1>14, <1>15 DEF rows

LEMMA EndsGrow ==
  ASSUME NEW n \in Nat, NEW l \in Nat, NEW end \in [0 .. n -> 0 .. l],
         \A c \in 1 .. n : end[c - 1] <= end[c],
         NEW b \in 1 .. n, NEW a \in 1 .. n, b < a
  PROVE  end[b] <= end[a] /\ end[b] \in Nat
<1> DEFINE Lower == {c \in Nat : b <= c /\ c <= a /\ end[c] < end[b]}
<1>1. \A c \in 0 .. n : end[c] \in Nat
  OBVIOUS
<1>2. ASSUME end[a] < end[b] PROVE FALSE
  <2>1. a \in Lower /\ Lower \in SUBSET Nat
    BY <1>2
  <2>2. PICK c \in Lower : \A d \in Lower : c <= d
    BY <2>1, Smallest
  <2>3. c \in Nat /\ b <= c /\ c <= a /\ end[c] < end[b]
    OBVIOUS
  <2>4. c # b
    BY <1>1, <2>3
  <2>5. c \in 1 .. n /\ c - 1 \in 0 .. n /\ c - 1 \in Nat /\ b <= c - 1 /\ c - 1 <= a
    BY <2>3, <2>4
  <2>6. end[c - 1] < end[b]
    BY <1>1, <2>3, <2>5
  <2>7. c - 1 \in Lower
    BY <2>5, <2>6
  <2> QED BY <2>2, <2>3, <2>7
<1> QED BY <1>1, <1>2

\* Where schemas and rows are in the same order, and the rows of schemas that are not among
\* them come last, a row is in the slice of its schema.
LEMMA SliceHasRow ==
  ASSUME byName \in BOOLEAN, NEW schemas \in Seq(Schemas), NEW rows \in Seq(Objects),
         \A i, j \in DOMAIN schemas : i < j => Before(schemas[i], schemas[j]),
         \A i, j \in DOMAIN rows : i < j => ~Before(SchemaOf[rows[j]], SchemaOf[rows[i]]),
         \A j \in DOMAIN rows : \/ \E i \in DOMAIN schemas : schemas[i] = SchemaOf[rows[j]]
                                \/ \A i \in DOMAIN schemas : Before(schemas[i], SchemaOf[rows[j]]),
         NEW i \in DOMAIN schemas, NEW k \in DOMAIN rows, SchemaOf[rows[k]] = schemas[i]
  PROVE  rows[k] \in ToSet(SliceResult(schemas, rows)[i])
<1> DEFINE end == CHOOSE e \in [0 .. Len(schemas) -> 0 .. Len(rows)] : IsEnd(e, schemas, rows)
<1>1. end \in [0 .. Len(schemas) -> 0 .. Len(rows)] /\ IsEnd(end, schemas, rows)
  BY EndsExist
<1>2. SliceResult(schemas, rows)[i] = SubSeq(rows, end[i - 1] + 1, end[i])
  BY DEF SliceResult
<1> HIDE DEF end
<1>3. /\ DOMAIN schemas = 1 .. Len(schemas) /\ DOMAIN rows = 1 .. Len(rows)
      /\ Len(schemas) \in Nat /\ Len(rows) \in Nat
  OBVIOUS
<1>4. /\ \A n \in DOMAIN schemas : schemas[n] \in Schemas
      /\ \A n \in DOMAIN rows : rows[n] \in Objects /\ SchemaOf[rows[n]] \in Schemas
  <2>1. \A n \in DOMAIN schemas : schemas[n] \in Schemas
    OBVIOUS
  <2>2. \A n \in DOMAIN rows : rows[n] \in Objects
    OBVIOUS
  <2> QED BY <2>1, <2>2, SchemaAssumption
<1>5. ASSUME NEW a \in DOMAIN schemas, NEW b \in DOMAIN schemas, schemas[a] = schemas[b]
      PROVE  a = b
  <2>1. ~(a < b) /\ ~(b < a)
    BY <1>4, <1>5, NamespacesOrdered
  <2> QED BY <1>3, <2>1
<1> DEFINE Left == {a \in DOMAIN schemas :
                      \E n \in DOMAIN rows : SchemaOf[rows[n]] = schemas[a] /\ n > end[a]}
<1>6. Left = {}
  <2> SUFFICES ASSUME Left # {} PROVE FALSE
    OBVIOUS
  <2>1. Left \in SUBSET Nat
    BY <1>3
  <2>2. PICK a \in Left : \A b \in Left : a <= b
    BY <2>1, Smallest
  <2>3. PICK n \in DOMAIN rows : SchemaOf[rows[n]] = schemas[a] /\ n > end[a]
    OBVIOUS
  <2> DEFINE m == end[a] + 1
  <2>4. /\ a \in 1 .. Len(schemas) /\ end[a] \in 0 .. Len(rows)
        /\ m \in DOMAIN rows /\ m <= n /\ end[a] < Len(rows)
    BY <1>1, <1>3, <2>3
  <2>5. SchemaOf[rows[m]] # schemas[a]
    BY <1>1, <1>3, <2>4 DEF IsEnd
  <2>6. m < n
    BY <1>3, <2>3, <2>4, <2>5
  <2>7. Before(SchemaOf[rows[m]], schemas[a])
    BY <1>4, <2>3, <2>4, <2>5, <2>6, NamespacesOrdered
  <2>8. ~Before(schemas[a], SchemaOf[rows[m]])
    BY <1>4, <2>4, <2>7, NamespacesOrdered
  <2>9. PICK b \in DOMAIN schemas : schemas[b] = SchemaOf[rows[m]]
    BY <2>4, <2>8
  <2>10. b < a
    <3>1. ~(a < b) /\ a # b
      BY <2>5, <2>8, <2>9
    <3> QED BY <1>3, <3>1
  <2>11. m > end[b]
    <3>1. \A c \in 1 .. Len(schemas) : end[c - 1] <= end[c]
      BY <1>1, <1>3 DEF IsEnd
    <3>2. end[b] <= end[a] /\ end[b] \in Nat
      BY <1>1, <1>3, <2>10, <3>1, EndsGrow
    <3> QED BY <2>4, <3>2
  <2> HIDE DEF m
  <2>12. b \in Left
    BY <2>4, <2>9, <2>11
  <2> QED BY <1>3, <2>2, <2>10, <2>12
<1>7. i \in 1 .. Len(schemas) /\ end[i] \in 0 .. Len(rows) /\ end[i - 1] \in 0 .. Len(rows)
      /\ k \in 1 .. Len(rows)
  BY <1>1, <1>3
<1>8. k <= end[i]
  BY <1>6, <1>7
<1> HIDE DEF Left
<1>9. k > end[i - 1]
  <2> DEFINE Reach == {a \in DOMAIN schemas : k <= end[a]}
  <2>1. i \in Reach /\ Reach \in SUBSET Nat
    BY <1>3, <1>8
  <2>2. PICK a \in Reach : \A b \in Reach : a <= b
    BY <2>1, Smallest
  <2>3. /\ a \in 1 .. Len(schemas) /\ end[a] \in 0 .. Len(rows) /\ end[a - 1] \in 0 .. Len(rows)
        /\ k <= end[a]
    BY <1>1, <1>3
  <2>4. end[a - 1] < k
    <3>1. CASE a = 1
      BY <1>1, <1>7, <3>1 DEF IsEnd
    <3>2. CASE a # 1
      <4>1. a - 1 \in DOMAIN schemas /\ a - 1 < a
        BY <1>3, <2>3, <3>2
      <4>2. a - 1 \notin Reach
        BY <1>3, <2>2, <4>1
      <4> QED BY <1>7, <2>3, <4>1, <4>2
    <3> QED BY <3>1, <3>2
  <2>5. SchemaOf[rows[k]] = schemas[a]
    <3>1. k \in end[a - 1] + 1 .. end[a]
      BY <1>7, <2>3, <2>4
    <3> QED BY <1>1, <1>3, <2>3, <3>1 DEF IsEnd
  <2>6. a = i
    BY <1>3, <1>5, <2>3, <2>5
  <2> QED BY <2>4, <2>6
<1>10. k \in end[i - 1] + 1 .. end[i]
  BY <1>7, <1>8, <1>9
<1> DEFINE part == SubSeq(rows, end[i - 1] + 1, end[i])
           n == k - end[i - 1]
<1>11. Len(part) = end[i] - end[i - 1] /\ \A j \in 1 .. end[i] - end[i - 1] : part[j] = rows[end[i - 1] + j]
  <2>1. \A j \in end[i - 1] + 1 .. end[i] : rows[j] \in Objects
    BY <1>7
  <2>2. end[i - 1] + 1 \in Int /\ end[i] \in Int
    BY <1>7
  <2>3. /\ Len(part) = IF end[i - 1] + 1 <= end[i] THEN end[i] - (end[i - 1] + 1) + 1 ELSE 0
        /\ \A j \in 1 .. end[i] - (end[i - 1] + 1) + 1 : part[j] = rows[(end[i - 1] + 1) + j - 1]
    BY <2>1, <2>2, SubSeqProperties
  <2> HIDE DEF part
  <2>6. end[i - 1] \in Int /\ end[i] \in Int /\ end[i - 1] + 1 <= end[i]
    BY <1>7, <1>8, <1>9
  <2>4. end[i - 1] + 1 <= end[i] /\ end[i] - (end[i - 1] + 1) + 1 = end[i] - end[i - 1]
    BY <2>6
  <2>5. \A j \in 1 .. end[i] - end[i - 1] : (end[i - 1] + 1) + j - 1 = end[i - 1] + j
    BY <1>7
  <2> QED BY <2>3, <2>4, <2>5
<1>12. n \in 1 .. end[i] - end[i - 1] /\ end[i - 1] + n = k
  BY <1>7, <1>10
<1>13. DOMAIN part = 1 .. end[i] - end[i - 1]
  BY <1>7, <1>10, <1>11
<1> HIDE DEF part, n
<1>14. part[n] = rows[k] /\ n \in DOMAIN part
  BY <1>11, <1>12, <1>13
<1> QED BY <1>2, <1>14 DEF ToSet, part

-------------------------------------------------------------------------------
(* What the queries of a load return.                                      *)

\* DuckDB creates no tables.  What the namespaces of tables of other clients have to be, where
\* the five queries are ordered by name and each has a snapshot of its own: there from the
\* start, or behind all that are older.
NamesFollow(s) == \A a \in Schemas : a < s => NameRank[a] < NameRank[s]
NewSchemasLast ==
  <<"read_committed", TRUE>> \in Settings =>
    \A o \in OtherClients \cap Objects : KindOf[o] = "table" =>
      SchemaOf[o] \in Initial \/ NamesFollow(SchemaOf[o])

Lasting == Initial \cap exists
Whole(view) == \A o \in view \cap Objects : SchemaOf[o] \in view

\* What the queries of a load have returned so far.
AnswersAt(p) ==
  LET known == answers[p][1] \cap Schemas
  IN /\ Lasting \cap Schemas \subseteq known
     /\ isolation = "repeatable_read" => snapshot[p] # Unstarted /\ known = snapshot[p] \cap Schemas
     /\ isolation # "repeatable_read" =>
          /\ known \subseteq used
          /\ \A s \in exists \cap Schemas : s \in known \/ \A x \in known : x < s
     /\ \A i \in DOMAIN answers[p] \ {1} :
          /\ \A o \in Lasting \cap Listed \cap Objects : KindOf[o] = AnswerTo[i] => o \in answers[p][i]
          /\ \A o \in answers[p][i] : \/ SchemaOf[o] \in known
                                      \/ \A x \in known : Before(x, SchemaOf[o])

ServerInv ==
  /\ <<isolation, byName>> \in Settings
  /\ Whole(exists) /\ Initial \subseteq used
  /\ \A p \in Sessions : snapshot[p] # Unstarted => Whole(snapshot[p]) /\ Lasting \subseteq snapshot[p]

SliceInv ==
  /\ ServerInv
  /\ \A p \in Sessions : answers[p] # <<>> => AnswersAt(p)
  /\ \A s \in DOMAIN entries[Root] : entries[Root][s] <= generation
  /\ SlicesComplete

LEMMA SliceInit == Init => SliceInv
<1> SUFFICES ASSUME Init PROVE SliceInv
  OBVIOUS
<1>1. ServerInv
  <2>1. \E setting \in Settings : isolation = setting[1] /\ byName = setting[2]
    BY DEF Init
  <2>2. <<isolation, byName>> \in Settings
    BY <2>1, SchemaAssumption
  <2>3. \A p \in Sessions : snapshot[p] = Unstarted
    BY DEF Init
  <2> QED BY <2>2, <2>3, SchemaAssumption DEF Init, ServerInv, Whole
<1>2. \A p \in Sessions : answers[p] = <<>>
  BY DEF Init
<1>3. entries[Root] = <<>>
  BY SetFacts DEF Init
<1>4. DOMAIN entries[Root] = {}
  BY <1>3
<1>5. SlicesComplete
  BY <1>4 DEF SlicesComplete, Current
<1> QED BY <1>1, <1>2, <1>4, <1>5 DEF SliceInv

\* What a step does to the server, and to what a session has read.
ServerSteps ==
  \/ UNCHANGED serverVars
  \/ \E x \in Schemas \cup Objects :
       /\ used' = used \cup (exists' \ exists)
       /\ \/ CanCreate(x) /\ exists' = exists \cup {x}
          \/ CanDrop(x) /\ exists' = exists \ {x}

ReadsOn(p) ==
  \/ answers'[p] = answers[p] /\ snapshot'[p] = snapshot[p]
  \/ answers'[p] = <<>> /\ snapshot'[p] \in {snapshot[p], Unstarted, View(p)}
  \/ QuerySchemas(p)

LEMMA NothingRead ==
  ASSUME LocksInv, NEW p \in Sessions,
         stack[p] = <<>> \/ stack[p][1].pc \notin {"query", "slice"}
  PROVE  answers[p] = <<>>
<1>1. AnswersOK(stack[p], answers[p], generation)
  BY DEF LocksInv
<1> QED BY <1>1 DEF AnswersOK

LEMMA OidsAreNumbers == \A x \in Schemas \cup Objects : x \in Nat /\ ~(x < x)
<1>1. \A x \in Schemas \cup Objects : x \in Nat
  BY SchemaAssumption
<1>2. \A x \in Nat : ~(x < x)
  OBVIOUS
<1> QED BY <1>1, <1>2

LEMMA Effects ==
  ASSUME LocksInv, [Next]_vars
  PROVE  /\ UNCHANGED settingVars /\ ServerSteps
         /\ \A p \in Sessions : ReadsOn(p)
<1>0. /\ snapshot \in [Sessions -> (SUBSET Known) \cup {Unstarted}]
      /\ answers \in [Sessions -> Seq(SUBSET Known)] /\ exists \subseteq used
  BY DEF LocksInv, DataOK, TypeOK
<1>1. ASSUME NEW p \in Sessions, Session(p)
      PROVE  /\ UNCHANGED settingVars /\ ServerSteps /\ ReadsOn(p)
             /\ \A q \in Sessions : q # p => answers'[q] = answers[q] /\ snapshot'[q] = snapshot[q]
  <2>1. CASE \/ Lookup(p) \/ StartDdl(p) \/ FindSchema(p) \/ FindEntry(p)
             \/ LockToLoad(p) \/ ResolveType(p) \/ CreateCompositeType(p) \/ BuildTable(p)
             \/ FinishLoad(p) \/ LockToReload(p) \/ FinishReload(p)
    BY <2>1 DEF Lookup, StartDdl, FindSchema, FindEntry, LockToLoad, ResolveType,
                CreateCompositeType, BuildTable, FinishLoad, LockToReload, FinishReload,
                ServerSteps, ReadsOn
  <2>2. CASE QuerySchemas(p)
    BY <1>0, <2>2 DEF QuerySchemas, Started, ServerSteps, ReadsOn
  <2>3. CASE LoadSchemas(p)
    BY <1>0, <2>3 DEF LoadSchemas, ServerSteps, ReadsOn
  <2>4. CASE QueryTable(p)
    <3>1. answers[p] = <<>>
      BY <2>4, NothingRead DEF QueryTable, At
    <3> QED BY <1>0, <2>4, <3>1 DEF QueryTable, Started, ServerSteps, ReadsOn
  <2>5. CASE CreateSchema(p) \/ CreateType(p) \/ CreateIndex(p)
    <3>1. PICK entry : Created(p, entry)
      BY <2>5 DEF CreateSchema, CreateType, CreateIndex
    <3>2. answers[p] = <<>>
      BY <3>1, NothingRead DEF Created, At
    <3>3. Top(p).want \in Schemas \cup Objects
      BY <3>1, TopFacts, FrameFacts DEF Created, At, Top
    <3>4. Top(p).want \notin exists
      <4>1. ~(Top(p).want < Top(p).want)
        BY <3>3, OidsAreNumbers
      <4> QED BY <1>0, <3>1, <4>1 DEF Created, CanCreate
    <3>5. UNCHANGED settingVars /\ ServerSteps
      BY <3>1, <3>3, <3>4 DEF Created, ServerSteps
    <3> QED BY <1>0, <3>1, <3>2, <3>5 DEF Created, ReadsOn
  <2>6. CASE Drop(p)
    <3>1. answers[p] = <<>>
      BY <2>6, NothingRead DEF Drop, At
    <3>2. Top(p).want \in Schemas \cup Objects
      BY <2>6, TopFacts, FrameFacts DEF Drop, At, Top
    <3>3. UNCHANGED settingVars /\ ServerSteps
      BY <2>6, <3>2 DEF Drop, ServerSteps
    <3> QED BY <1>0, <2>6, <3>1, <3>3 DEF Drop, ReadsOn
  <2>7. CASE DdlFails(p) \/ QueryFails(p)
    BY <1>0, <2>7 DEF DdlFails, QueryFails, Throw, ServerSteps, ReadsOn
  <2>8. CASE EndTransaction(p)
    <3>1. answers[p] = <<>>
      BY <2>8, NothingRead DEF EndTransaction
    <3> QED BY <1>0, <2>8, <3>1 DEF EndTransaction, ServerSteps, ReadsOn
  <2> QED BY <1>1, <2>1, <2>2, <2>3, <2>4, <2>5, <2>6, <2>7, <2>8 DEF Session, Load, Reload, Ddl
<1>2. CASE ClearCache
  BY <1>2 DEF ClearCache, ServerSteps, ReadsOn
<1>3. CASE OtherClient
  <2>1. PICK x \in OtherClients :
          \/ CanCreate(x) /\ exists' = exists \cup {x} /\ used' = used \cup {x}
          \/ CanDrop(x) /\ exists' = exists \ {x} /\ used' = used
    BY <1>3 DEF OtherClient
  <2>2. x \in Schemas \cup Objects /\ ~(x < x)
    BY SchemaAssumption, OidsAreNumbers
  <2>3. CanCreate(x) => x \notin exists
    BY <1>0, <2>2 DEF CanCreate
  <2>4. ServerSteps
    BY <2>1, <2>2, <2>3 DEF ServerSteps
  <2> QED BY <1>3, <2>4 DEF OtherClient, ReadsOn
<1>4. CASE UNCHANGED vars
  BY <1>4 DEF vars, ServerSteps, ReadsOn
<1>5. ASSUME NEW p \in Sessions, Session(p)
      PROVE  \A q \in Sessions : ReadsOn(q)
  BY <1>1, <1>5 DEF ReadsOn
<1> QED BY <1>1, <1>2, <1>3, <1>4, <1>5 DEF Next

\* What existed at the start is never created again, and what is new is behind all others.
LEMMA ServerKeeps ==
  ASSUME LocksInv, ServerInv, ServerSteps
  PROVE  /\ Lasting' \subseteq Lasting /\ Whole(exists)' /\ Initial \subseteq used'
         /\ used \subseteq used' /\ exists' \subseteq used'
         /\ \A s \in exists' \ exists : \A y \in used : y < s
<1>1. exists \subseteq used /\ used \subseteq Schemas \cup Objects
  BY DEF LocksInv, DataOK, TypeOK
<1>2. CASE UNCHANGED serverVars
  BY <1>1, <1>2 DEF ServerInv, Lasting, Whole
<1>3. ASSUME NEW x \in Schemas \cup Objects, CanCreate(x), exists' = exists \cup {x},
             used' = used \cup (exists' \ exists)
      PROVE  /\ Lasting' \subseteq Lasting /\ Whole(exists)' /\ Initial \subseteq used'
             /\ used \subseteq used' /\ exists' \subseteq used'
             /\ \A s \in exists' \ exists : \A y \in used : y < s
  <2>1. x \notin used
    BY <1>3, OidsAreNumbers DEF CanCreate
  <2>2. x \notin Initial
    BY <2>1 DEF ServerInv
  <2>3. x \in Objects => SchemaOf[x] \in exists
    BY <1>3 DEF CanCreate
  <2> QED BY <1>1, <1>3, <2>1, <2>2, <2>3 DEF ServerInv, Lasting, Whole, CanCreate
<1>4. ASSUME NEW x \in Schemas \cup Objects, CanDrop(x), exists' = exists \ {x},
             used' = used \cup (exists' \ exists)
      PROVE  /\ Lasting' \subseteq Lasting /\ Whole(exists)' /\ Initial \subseteq used'
             /\ used \subseteq used' /\ exists' \subseteq used'
             /\ \A s \in exists' \ exists : \A y \in used : y < s
  BY <1>1, <1>4 DEF ServerInv, Lasting, Whole, CanDrop
<1> QED BY <1>2, <1>3, <1>4 DEF ServerSteps

LEMMA ViewIsWhole ==
  ASSUME ServerInv, NEW p \in Sessions
  PROVE  Whole(View(p)) /\ Lasting \subseteq View(p)
BY DEF ServerInv, View, Lasting

LEMMA ServerNext ==
  ASSUME LocksInv, ServerInv, [Next]_vars
  PROVE  ServerInv'
<1>1. UNCHANGED settingVars /\ ServerSteps /\ \A p \in Sessions : ReadsOn(p)
  BY Effects
<1>2. Lasting' \subseteq Lasting /\ Whole(exists)' /\ Initial \subseteq used'
  BY <1>1, ServerKeeps
<1>3. ASSUME NEW p \in Sessions
      PROVE  snapshot'[p] \in {snapshot[p], Unstarted, View(p)}
  <2>1. snapshot \in [Sessions -> (SUBSET Known) \cup {Unstarted}]
    BY DEF LocksInv, DataOK
  <2>2. QuerySchemas(p) => snapshot'[p] \in {snapshot[p], View(p)}
    BY <2>1 DEF QuerySchemas, Started
  <2> QED BY <1>1, <2>2 DEF ReadsOn
<1>4. ASSUME NEW p \in Sessions, snapshot'[p] # Unstarted
      PROVE  Whole(snapshot[p])' /\ Lasting' \subseteq snapshot'[p]
  <2>1. \/ snapshot'[p] = snapshot[p] /\ snapshot[p] # Unstarted
        \/ snapshot'[p] = View(p)
    BY <1>3, <1>4
  <2>2. Whole(View(p)) /\ Lasting \subseteq View(p)
    BY ViewIsWhole
  <2> QED BY <1>2, <2>1, <2>2 DEF ServerInv, Whole
<1> QED BY <1>1, <1>2, <1>4 DEF ServerInv

\* The answers keep what lasts, and their schemas come before all that are newer.
LEMMA AnswersKeep ==
  ASSUME LocksInv, ServerInv, NEW p \in Sessions, AnswersAt(p),
         UNCHANGED settingVars, ServerSteps,
         answers'[p] = answers[p], snapshot'[p] = snapshot[p]
  PROVE  AnswersAt(p)'
<1> DEFINE known == answers[p][1] \cap Schemas
<1>1. /\ Lasting' \subseteq Lasting /\ used \subseteq used'
      /\ \A s \in exists' \ exists : \A y \in used : y < s
  BY ServerKeeps
<1>2. ASSUME isolation # "repeatable_read", NEW s \in exists' \cap Schemas
      PROVE  s \in known \/ \A x \in known : x < s
  <2>1. /\ known \subseteq used
        /\ \A u \in exists \cap Schemas : u \in known \/ \A x \in known : x < u
    BY <1>2 DEF AnswersAt
  <2> QED BY <1>1, <1>2, <2>1
<1>3. known' = known /\ UNCHANGED <<isolation, byName>> /\ Listed' = Listed
  BY DEF Listed
<1>4. \A x, y : Before(x, y)' = Before(x, y)
  BY DEF Before
<1> QED BY <1>1, <1>2, <1>3, <1>4 DEF AnswersAt

\* The place of a namespace that the first query has not returned.
LEMMA NewSchemaFollows ==
  ASSUME LocksInv, ServerInv, NewSchemasLast, isolation # "repeatable_read",
         NEW o \in exists \cap Objects \cap Listed, NEW known \in SUBSET Schemas,
         Lasting \cap Schemas \subseteq known,
         SchemaOf[o] \notin known, \A x \in known : x < SchemaOf[o]
  PROVE  \A x \in known : Before(x, SchemaOf[o])
<1>1. CASE ~byName
  BY <1>1 DEF Before
<1>2. CASE byName
  <2>1. KindOf[o] = "table" /\ SchemaOf[o] \in exists /\ o \in Known
    <3>1. KindOf[o] = "table"
      BY <1>2, SchemaOfType DEF Listed
    <3>2. SchemaOf[o] \in exists
      BY DEF ServerInv, Whole
    <3> QED BY <3>1, <3>2 DEF LocksInv, DataOK, TypeOK
  <2>2. <<"read_committed", TRUE>> \in Settings
    <3>1. isolation = "read_committed" /\ byName = TRUE
      BY <1>2, SchemaAssumption DEF ServerInv
    <3> QED BY <3>1 DEF ServerInv
  <2>3. SchemaOf[o] \notin Initial
    BY <2>1, SchemaAssumption DEF Lasting
  <2>4. o \in OtherClients
    BY <2>1, <2>3, SchemaAssumption DEF Known
  <2>5. NamesFollow(SchemaOf[o])
    BY <2>1, <2>2, <2>3, <2>4 DEF NewSchemasLast
  <2> QED BY <1>2, <2>5 DEF NamesFollow, Before
<1> QED BY <1>1, <1>2 DEF LocksInv, DataOK

LEMMA AnswersQueried ==
  ASSUME LocksInv, SliceInv, NewSchemasLast, NEW p \in Sessions, QuerySchemas(p)
  PROVE  AnswersAt(p)'
<1> DEFINE n == Len(answers[p])
           kind == AnswerTo[n + 1]
           seen == {x \in View(p) \cap Listed : kind # "schema" => x \in Objects /\ KindOf[x] = kind}
           known == answers[p][1] \cap Schemas
<1>1. /\ answers \in [Sessions -> Seq(SUBSET Known)] /\ snapshot \in [Sessions -> (SUBSET Known) \cup {Unstarted}]
      /\ exists \subseteq used /\ ServerInv
  BY DEF LocksInv, DataOK, TypeOK, SliceInv
<1>2. /\ answers'[p] = Append(answers[p], seen)
      /\ UNCHANGED <<isolation, byName, exists, used>>
      /\ isolation = "repeatable_read" => snapshot'[p] = View(p)
  BY <1>1 DEF QuerySchemas, Started
<1>3. n \in Nat /\ n < 5 /\ AnswersOK(stack[p], answers[p], generation)
  <2>1. stack[p] # <<>> /\ stack[p][1].pc = "query"
    BY DEF QuerySchemas, At
  <2>2. AnswersOK(stack[p], answers[p], generation)
    BY DEF LocksInv
  <2> QED BY <1>1, <2>1, <2>2 DEF AnswersOK
<1>4. /\ DOMAIN answers'[p] = 1 .. n + 1 /\ answers'[p][n + 1] = seen
      /\ \A i \in 1 .. n : answers'[p][i] = answers[p][i]
      /\ answers[p] \in Seq(SUBSET Known) /\ DOMAIN answers[p] = 1 .. n
  BY <1>1, <1>2, <1>3
<1>5. Lasting' = Lasting /\ Listed' = Listed /\ \A x, y : Before(x, y)' = Before(x, y)
  BY <1>2 DEF Lasting, Listed, Before
<1>6. Whole(View(p)) /\ Lasting \subseteq View(p)
  BY <1>1, ViewIsWhole
<1>7. isolation # "repeatable_read" => View(p) = exists
  BY DEF View
<1>8. View(p) # Unstarted
  <2>1. 0 \notin exists
    BY SchemaAssumption DEF LocksInv, DataOK, TypeOK
  <2> QED BY <2>1 DEF View, Unstarted
<1>9. CASE n = 0
  <2>1. kind = "schema"
    BY <1>9 DEF AnswerTo
  <2>2. answers'[p][1] = View(p) \cap Listed /\ DOMAIN answers'[p] = {1}
    BY <1>4, <1>9, <2>1
  <2>3. answers'[p][1] \cap Schemas = View(p) \cap Schemas
    BY <2>2 DEF Listed
  <2>4. Lasting \cap Schemas \subseteq View(p) \cap Schemas
    BY <1>6
  <2>5. isolation # "repeatable_read" =>
          /\ View(p) \cap Schemas \subseteq used
          /\ \A s \in exists \cap Schemas : s \in View(p) \cap Schemas
    BY <1>1, <1>7
  <2>6. isolation = "repeatable_read" =>
          snapshot'[p] # Unstarted /\ View(p) \cap Schemas = snapshot'[p] \cap Schemas
    BY <1>2, <1>8
  <2> HIDE DEF seen, kind, n
  <2> QED BY <1>2, <1>5, <2>2, <2>3, <2>4, <2>5, <2>6 DEF AnswersAt
<1>10. CASE n # 0
  <2>1. AnswersAt(p) /\ answers'[p][1] = answers[p][1]
    <3>1. answers[p] # <<>>
      BY <1>10
    <3>2. 1 \in 1 .. n
      BY <1>3, <1>10
    <3> QED BY <1>4, <3>1, <3>2 DEF SliceInv
  <2>2. kind # "schema"
    <3>1. n + 1 \in 2 .. 5
      BY <1>3, <1>10
    <3> QED BY <3>1 DEF AnswerTo
  <2>3. seen = {x \in View(p) \cap Listed : x \in Objects /\ KindOf[x] = kind}
    BY <2>2
  <2>4. isolation = "repeatable_read" =>
          /\ View(p) = snapshot[p] /\ known = snapshot[p] \cap Schemas
          /\ snapshot'[p] = snapshot[p]
    BY <1>2, <2>1 DEF AnswersAt, View
  <2> HIDE DEF seen, kind
  <2>5. \A o \in Lasting \cap Listed \cap Objects : KindOf[o] = kind => o \in seen
    BY <1>6, <2>3
  <2>6. ASSUME NEW o \in seen
        PROVE  SchemaOf[o] \in known \/ \A x \in known : Before(x, SchemaOf[o])
    <3>1. o \in Objects /\ o \in View(p) /\ o \in Listed /\ SchemaOf[o] \in View(p) /\ SchemaOf[o] \in Schemas
      BY <1>6, <2>3, SchemaOfType DEF Whole
    <3>2. CASE isolation = "repeatable_read"
      BY <2>4, <3>1, <3>2
    <3>3. CASE isolation # "repeatable_read"
      <4>1. o \in exists \cap Objects \cap Listed /\ SchemaOf[o] \in exists \cap Schemas
        BY <1>7, <3>1, <3>3
      <4>2. Lasting \cap Schemas \subseteq known /\ known \in SUBSET Schemas
        BY <2>1 DEF AnswersAt
      <4>3. SchemaOf[o] \in known \/ \A x \in known : x < SchemaOf[o]
        BY <2>1, <3>3, <4>1 DEF AnswersAt
      <4> HIDE DEF known
      <4> QED BY <1>1, <3>3, <4>1, <4>2, <4>3, NewSchemaFollows
    <3> QED BY <3>2, <3>3
  <2>7. ASSUME NEW i \in DOMAIN answers'[p] \ {1}
        PROVE  /\ \A o \in Lasting \cap Listed \cap Objects :
                    KindOf[o] = AnswerTo[i] => o \in answers'[p][i]
               /\ \A o \in answers'[p][i] : \/ SchemaOf[o] \in known
                                            \/ \A x \in known : Before(x, SchemaOf[o])
    <3>1. CASE i = n + 1
      BY <1>4, <2>5, <2>6, <3>1 DEF kind
    <3>2. CASE i # n + 1
      <4>1. i \in DOMAIN answers[p] \ {1} /\ answers'[p][i] = answers[p][i]
        BY <1>3, <1>4, <2>7, <3>2
      <4> QED BY <2>1, <4>1 DEF AnswersAt
    <3> QED BY <3>1, <3>2
  <2>8. known' = known
    BY <2>1
  <2>9. isolation = "repeatable_read" => snapshot'[p] # Unstarted /\ known = snapshot'[p] \cap Schemas
    BY <2>1, <2>4 DEF AnswersAt
  <2>10. /\ Lasting \cap Schemas \subseteq known
         /\ isolation # "repeatable_read" =>
              /\ known \subseteq used
              /\ \A s \in exists \cap Schemas : s \in known \/ \A x \in known : x < s
    BY <2>1 DEF AnswersAt
  <2> QED BY <1>2, <1>5, <2>7, <2>8, <2>9, <2>10 DEF AnswersAt
<1> QED BY <1>9, <1>10

LEMMA AnswersNext ==
  ASSUME LocksInv, SliceInv, NewSchemasLast, [Next]_vars
  PROVE  (\A p \in Sessions : answers[p] # <<>> => AnswersAt(p))'
<1> SUFFICES ASSUME NEW p \in Sessions, answers'[p] # <<>>
             PROVE  AnswersAt(p)'
  OBVIOUS
<1>1. UNCHANGED settingVars /\ ServerSteps /\ ReadsOn(p)
  BY Effects
<1>2. CASE answers'[p] = answers[p] /\ snapshot'[p] = snapshot[p]
  BY <1>1, <1>2, AnswersKeep DEF SliceInv
<1>3. CASE QuerySchemas(p)
  BY <1>3, AnswersQueried
<1> QED BY <1>1, <1>2, <1>3 DEF ReadsOn

-------------------------------------------------------------------------------
(* What is cut, and what the other steps leave of it.                      *)

\* Every row of a query lands in the slice of its schema.
LEMMA RowIsSliced ==
  ASSUME LocksInv, SliceInv, NEW p \in Sessions, LoadSchemas(p), NEW k \in 2 .. 5,
         NEW i \in DOMAIN SchemaRows(answers[p][1]), NEW o \in answers[p][k],
         SchemaOf[o] = SchemaRows(answers[p][1])[i]
  PROVE  o \in ToSet(SliceResult(SchemaRows(answers[p][1]), Rows(answers[p][k]))[i])
<1> DEFINE a == answers[p]
           schemas == SchemaRows(a[1])
           rows == Rows(a[k])
<1>1. stack[p] # <<>> /\ stack[p][1].pc = "slice"
  BY DEF LoadSchemas, At
<1>2. /\ a \in Seq(SUBSET Known) /\ Len(a) = 5 /\ byName \in BOOLEAN
      /\ \A n \in DOMAIN a \ {1} : a[n] \subseteq {x \in Objects : KindOf[x] = AnswerTo[n]}
  BY <1>1, TopFacts DEF AnswersOK, LocksInv, DataOK
<1>3. k \in DOMAIN a \ {1} /\ a # <<>>
  BY <1>2
<1>4. a[k] \subseteq Objects
  BY <1>2, <1>3
<1>5. \A r \in a[k] : \/ SchemaOf[r] \in a[1] \cap Schemas
                      \/ \A x \in a[1] \cap Schemas : Before(x, SchemaOf[r])
  BY <1>3 DEF SliceInv, AnswersAt
<1>6. /\ schemas \in Seq(Schemas) /\ ToSet(schemas) = a[1] \cap Schemas
      /\ \A m, n \in DOMAIN schemas : m < n => Before(schemas[m], schemas[n])
  BY <1>2, SchemaRowsOrdered
<1>7. /\ rows \in Seq(Objects) /\ ToSet(rows) = a[k]
      /\ \A m, n \in DOMAIN rows : m < n => ~Before(SchemaOf[rows[n]], SchemaOf[rows[m]])
  BY <1>2, <1>4, RowsOrdered
<1>8. i \in DOMAIN schemas /\ SchemaOf[o] = schemas[i]
  OBVIOUS
<1> HIDE DEF a, schemas, rows
<1>9. PICK j \in DOMAIN rows : rows[j] = o
  BY <1>7 DEF ToSet, a
<1>10. ASSUME NEW n \in DOMAIN rows
       PROVE  \/ \E m \in DOMAIN schemas : schemas[m] = SchemaOf[rows[n]]
              \/ \A m \in DOMAIN schemas : Before(schemas[m], SchemaOf[rows[n]])
  <2>1. rows[n] \in a[k]
    BY <1>7 DEF ToSet
  <2>2. \A m \in DOMAIN schemas : schemas[m] \in a[1] \cap Schemas
    BY <1>6 DEF ToSet
  <2>3. \A x \in a[1] \cap Schemas : \E m \in DOMAIN schemas : schemas[m] = x
    BY <1>6 DEF ToSet
  <2> QED BY <1>5, <2>1, <2>2, <2>3
<1>11. rows[j] \in ToSet(SliceResult(schemas, rows)[i])
  BY <1>2, <1>6, <1>7, <1>8, <1>9, <1>10, SliceHasRow
<1> QED BY <1>9, <1>11 DEF a, schemas, rows

\* Which slice a set gets.
LEMMA SlicesAre ==
  ASSUME LocksInv, NEW p \in Sessions, LoadSchemas(p), NEW c \in Sets
  PROVE  LET schemas == SchemaRows(answers[p][1])
             part(k, i) == SliceResult(schemas, Rows(answers[p][k]))[i]
         IN /\ ~(c[3] = generation + 1 /\ c[2] \in ToSet(schemas)) => slice'[c] = slice[c]
            /\ c[3] = generation + 1 /\ c[2] \in ToSet(schemas) =>
                 \E i \in DOMAIN schemas :
                   /\ schemas[i] = c[2]
                   /\ c[1] = "tables" => slice'[c] = << <<>>, part(2, i) >>
                   /\ c[1] = "indexes" => slice'[c] = << part(5, i), <<>> >>
                   /\ c[1] = "types" => slice'[c] = << part(3, i), part(4, i) >>
<1> DEFINE a == answers[p]
           schemas == SchemaRows(a[1])
           g == generation + 1
           place(kind) == CHOOSE i \in DOMAIN AnswerTo : AnswerTo[i] = kind
           of(kind) == SliceResult(schemas, Rows(a[place(kind)]))
           rows(kind, i) == CASE kind = "tables"  -> << <<>>, of("table")[i] >>
                              [] kind = "indexes" -> << of("index")[i], <<>> >>
                              [] OTHER -> << of("enum")[i], of("composite")[i] >>
           index(s) == CHOOSE i \in DOMAIN schemas : schemas[i] = s
<1>1. slice' = [d \in Sets |-> IF d[3] = g /\ d[2] \in ToSet(schemas)
                               THEN rows(d[1], index(d[2])) ELSE slice[d]]
  BY DEF LoadSchemas
<1>2. /\ place("table") = 2 /\ place("enum") = 3 /\ place("composite") = 4 /\ place("index") = 5
  BY DEF AnswerTo
<1> HIDE DEF schemas, place
<1>3. CASE ~(c[3] = g /\ c[2] \in ToSet(schemas))
  <2> HIDE DEF rows, index
  <2>1. slice'[c] = slice[c]
    BY <1>1, <1>3
  <2> QED BY <1>3, <2>1 DEF schemas
<1>4. CASE c[3] = g /\ c[2] \in ToSet(schemas)
  <2> DEFINE i == index(c[2])
  <2>1. i \in DOMAIN schemas /\ schemas[i] = c[2]
    BY <1>4 DEF ToSet
  <2>2. slice'[c] = rows(c[1], i)
    <3> HIDE DEF rows, index
    <3> QED BY <1>1, <1>4 DEF i
  <2> HIDE DEF i, index
  <2> DEFINE part(k) == SliceResult(schemas, Rows(a[k]))[i]
  <2>3. /\ of("table")[i] = part(2) /\ of("index")[i] = part(5)
        /\ of("enum")[i] = part(3) /\ of("composite")[i] = part(4)
    BY <1>2
  <2> HIDE DEF of, part
  <2>4. /\ c[1] = "tables" => slice'[c] = << <<>>, part(2) >>
        /\ c[1] = "indexes" => slice'[c] = << part(5), <<>> >>
        /\ c[1] = "types" => slice'[c] = << part(3), part(4) >>
    BY <2>2, <2>3
  <2> QED BY <1>4, <2>1, <2>4 DEF part, schemas
<1> QED BY <1>3, <1>4

\* What lasts is in one of the two parts of its slice.
LEMMA NewSlicesWhole ==
  ASSUME LocksInv, SliceInv, NEW p \in Sessions, LoadSchemas(p), NEW c \in Sets \ {Root},
         c[3] = generation + 1, c[2] \in ToSet(SchemaRows(answers[p][1])),
         NEW o \in Lasting \cap Listed \cap Objects, SchemaOf[o] = c[2], SetKind(o) = c[1]
  PROVE  o \in ToSet(slice'[c][1]) \cup ToSet(slice'[c][2])
<1> DEFINE schemas == SchemaRows(answers[p][1])
           part(k, i) == SliceResult(schemas, Rows(answers[p][k]))[i]
<1>1. PICK i \in DOMAIN schemas :
        /\ schemas[i] = c[2]
        /\ c[1] = "tables" => slice'[c][2] = part(2, i)
        /\ c[1] = "indexes" => slice'[c][1] = part(5, i)
        /\ c[1] = "types" => slice'[c][1] = part(3, i) /\ slice'[c][2] = part(4, i)
  BY SlicesAre
<1>2. Len(answers[p]) = 5 /\ answers[p] \in Seq(SUBSET Known)
  <2>1. stack[p] # <<>> /\ stack[p][1].pc = "slice"
    BY DEF LoadSchemas, At
  <2> QED BY <2>1, TopFacts DEF AnswersOK, LocksInv, DataOK
<1>3. ASSUME NEW k \in 2 .. 5, KindOf[o] = AnswerTo[k]
      PROVE  o \in ToSet(part(k, i))
  <2>1. answers[p] # <<>> /\ k \in DOMAIN answers[p] \ {1}
    BY <1>2
  <2>2. o \in answers[p][k]
    BY <1>3, <2>1 DEF SliceInv, AnswersAt
  <2> QED BY <1>1, <2>2, RowIsSliced
<1> HIDE DEF part, schemas
<1>4. KindOf[o] \in {"enum", "composite", "table", "index"}
  BY SchemaAssumption
<1>5. CASE KindOf[o] = "table"
  <2>1. KindOf[o] = AnswerTo[2] /\ c[1] = "tables"
    BY <1>5 DEF AnswerTo, SetKind
  <2> QED BY <1>1, <1>3, <2>1
<1>6. CASE KindOf[o] = "enum"
  <2>1. KindOf[o] = AnswerTo[3] /\ c[1] = "types"
    BY <1>6 DEF AnswerTo, SetKind
  <2> QED BY <1>1, <1>3, <2>1
<1>7. CASE KindOf[o] = "composite"
  <2>1. KindOf[o] = AnswerTo[4] /\ c[1] = "types"
    BY <1>7 DEF AnswerTo, SetKind
  <2> QED BY <1>1, <1>3, <2>1
<1>8. CASE KindOf[o] = "index"
  <2>1. KindOf[o] = AnswerTo[5] /\ c[1] = "indexes"
    BY <1>8 DEF AnswerTo, SetKind
  <2> QED BY <1>1, <1>3, <2>1
<1> QED BY <1>4, <1>5, <1>6, <1>7, <1>8

\* No other step makes a set that is not loaded part of the catalog, or takes its slice.
SetsKept ==
  /\ \A s \in DOMAIN entries'[Root] : entries'[Root][s] <= generation'
  /\ \A c \in Sets \ {Root} :
       Current(c)' /\ ~loaded'[c] => Current(c) /\ ~loaded[c] /\ slice'[c] = slice[c]

LEMMA SchemasLeft ==
  ASSUME SliceInv, generation' = generation,
         \A s \in DOMAIN entries'[Root] : s \in DOMAIN entries[Root] /\ entries'[Root][s] = entries[Root][s],
         \A c \in Sets \ {Root} : ~loaded'[c] => ~loaded[c] /\ slice'[c] = slice[c]
  PROVE  SetsKept
BY DEF SliceInv, SetsKept, Current

LEMMA NothingJoined ==
  ASSUME NEW c \in Sets, NEW new, DOMAIN entries = Sets, Insert(c, new), c # Root \/ DOMAIN new = {}
  PROVE  \A s \in DOMAIN entries'[Root] : s \in DOMAIN entries[Root] /\ entries'[Root][s] = entries[Root][s]
<1>1. CASE c # Root
  <2>1. entries'[Root] = entries[Root]
    BY <1>1, SetFacts DEF Insert
  <2> QED BY <2>1
<1>2. CASE c = Root
  <2>1. entries'[Root] = Joined(entries[Root], new)
    BY <1>2, SetFacts DEF Insert
  <2> QED BY <1>2, <2>1 DEF Joined
<1> QED BY <1>1, <1>2

LEMMA SessionKeepsSets ==
  ASSUME LocksInv, SliceInv, NEW p \in Sessions, Session(p), ~LoadSchemas(p)
  PROVE  SetsKept
<1> DEFINE f == Top(p)
<1>1. /\ DOMAIN entries = Sets /\ DOMAIN slice = Sets /\ loaded \in [Sets -> BOOLEAN]
      /\ slice[Root] = NoSlice /\ generation \in Nat
  BY SchemaAssumption DEF LocksInv, DataOK, TypeOK
<1>2. ASSUME stack[p] # <<>>
      PROVE  /\ f.set \in Sets /\ f.want \in Schemas \cup Objects
             /\ FrameOK(p, f, loadLock, loadingThread, generation)
  BY <1>2, TopFacts, FrameFacts DEF Top
<1> HIDE DEF f
<1>3. CASE UNCHANGED setVars
  BY <1>3, SchemasLeft
<1>4. CASE LockToLoad(p)
  <2>1. stack[p] # <<>> /\ UNCHANGED <<generation, loaded, slice>>
    BY <1>4 DEF LockToLoad, At
  <2>2. CASE entries' = entries
    BY <2>1, <2>2, SchemasLeft
  <2>3. CASE entries' # entries
    <3>1. Insert(f.set, IF f.set[1] = "types" THEN InitializeEnums(slice[f.set][1])
                        ELSE LoadIndexes(slice[f.set][1]))
      BY <1>4, <2>3 DEF LockToLoad, f
    <3>2. f.set \in Sets
      BY <1>2, <2>1
    <3>3. f.set = Root => DOMAIN LoadIndexes(slice[f.set][1]) = {} /\ f.set[1] # "types"
      <4>1. ToSet(NoSlice[1]) = {}
        BY DEF ToSet, NoSlice
      <4> QED BY <1>1, <4>1, SetFacts DEF LoadIndexes
    <3> QED BY <1>1, <2>1, <3>1, <3>2, <3>3, NothingJoined, SchemasLeft
  <2> QED BY <2>2, <2>3
<1>5. CASE CreateCompositeType(p)
  <2>1. /\ stack[p] # <<>> /\ UNCHANGED <<generation, loaded, slice>> /\ f.set[1] = "types"
        /\ Insert(f.set, Entry(f.todo[1], {f.todo[1]} \cup f.got))
    BY <1>5 DEF CreateCompositeType, Building, At, f
  <2>2. f.set \in Sets /\ f.set # Root
    BY <1>2, <2>1, SetFacts
  <2> QED BY <1>1, <2>1, <2>2, NothingJoined, SchemasLeft
<1>6. CASE FinishLoad(p)
  <2>1. /\ stack[p] # <<>> /\ generation' = generation /\ Insert(f.set, f.built)
        /\ loaded' = [loaded EXCEPT ![f.set] = TRUE]
        /\ slice' = [slice EXCEPT ![f.set] = NoSlice]
    BY <1>6 DEF FinishLoad, At, f
  <2>2. f.set \in Sets /\ (f.set = Root => f.built = <<>>)
    BY <1>2, <2>1 DEF FrameOK
  <2>3. f.set = Root => DOMAIN f.built = {}
    BY <2>2
  <2>4. \A c \in Sets : ~loaded'[c] => ~loaded[c] /\ slice'[c] = slice[c]
    BY <1>1, <2>1, <2>2
  <2> QED BY <1>1, <2>1, <2>2, <2>3, <2>4, NothingJoined, SchemasLeft
<1>7. CASE FinishReload(p)
  <2>1. /\ stack[p] # <<>> /\ UNCHANGED <<generation, loaded, slice>> /\ f.pc = "rebuild"
        /\ Insert(f.set, f.built)
    BY <1>7 DEF FinishReload, At, f, Top
  <2>2. f.set \in Sets /\ f.set # Root
    BY <1>2, <2>1, SetFacts DEF FrameOK
  <2> QED BY <1>1, <2>1, <2>2, NothingJoined, SchemasLeft
<1>8. CASE CreateType(p) \/ CreateIndex(p)
  <2>1. PICK entry : Created(p, entry)
    BY <1>8 DEF CreateType, CreateIndex
  <2>2. /\ stack[p] # <<>> /\ UNCHANGED <<generation, loaded, slice>>
        /\ f.set[1] \in {"types", "indexes"} /\ Insert(f.set, Entry(f.want, entry))
    BY <1>8, <2>1 DEF CreateType, CreateIndex, Created, At, f
  <2>3. f.set \in Sets /\ f.set # Root
    BY <1>2, <2>2, SetFacts
  <2> QED BY <1>1, <2>2, <2>3, NothingJoined, SchemasLeft
<1>9. CASE CreateSchema(p)
  <2>1. /\ stack[p] # <<>> /\ UNCHANGED <<generation, slice>> /\ f.set = Root
        /\ Insert(Root, Entry(f.want, generation))
        /\ loaded' = [c \in Sets |-> loaded[c] \/ (c[2] = f.want /\ c[3] = generation)]
    BY <1>9 DEF CreateSchema, Created, At, f
  <2>2. entries'[Root] = Joined(entries[Root], Entry(f.want, generation))
    BY <1>1, <2>1, SetFacts DEF Insert
  <2>3. /\ DOMAIN entries'[Root] = DOMAIN entries[Root] \cup {f.want}
        /\ \A s \in DOMAIN entries[Root] : entries'[Root][s] = entries[Root][s]
        /\ f.want \notin DOMAIN entries[Root] => entries'[Root][f.want] = generation
    BY <2>2 DEF Joined, Entry
  <2>4. generation <= generation
    BY <1>1
  <2> QED BY <2>1, <2>3, <2>4 DEF SliceInv, SetsKept, Current
<1>10. CASE Drop(p)
  <2>1. /\ stack[p] # <<>> /\ UNCHANGED <<generation, loaded, slice>>
        /\ entries' = [entries EXCEPT ![f.set] = [y \in DOMAIN @ \ {f.want} |-> @[y]]]
    BY <1>10 DEF Drop, At, f
  <2>2. f.set \in Sets
    BY <1>2, <2>1
  <2>3. entries'[Root] = IF f.set = Root
                         THEN [y \in DOMAIN entries[Root] \ {f.want} |-> entries[Root][y]]
                         ELSE entries[Root]
    BY <1>1, <2>1, <2>2, SetFacts
  <2>4. \A s \in DOMAIN entries'[Root] :
          s \in DOMAIN entries[Root] /\ entries'[Root][s] = entries[Root][s]
    BY <2>3
  <2> QED BY <2>1, <2>4, SchemasLeft
<1>11. CASE LockToReload(p) \/ QueryTable(p) \/ QueryFails(p) \/ DdlFails(p)
  <2>1. UNCHANGED <<generation, loaded, entries, slice>>
    BY <1>11 DEF LockToReload, QueryTable, QueryFails, DdlFails, Throw
  <2> QED BY <2>1, SchemasLeft
<1>12. CASE \/ Lookup(p) \/ StartDdl(p) \/ FindSchema(p) \/ FindEntry(p) \/ QuerySchemas(p)
            \/ ResolveType(p) \/ BuildTable(p) \/ EndTransaction(p)
  BY <1>3, <1>12 DEF Lookup, StartDdl, FindSchema, FindEntry, QuerySchemas, ResolveType, BuildTable,
                     EndTransaction
<1> QED BY <1>4, <1>5, <1>6, <1>7, <1>8, <1>9, <1>10, <1>11, <1>12 DEF Session, Load, Reload, Ddl

LEMMA OthersKeepSets ==
  ASSUME LocksInv, SliceInv, ClearCache \/ OtherClient \/ UNCHANGED vars
  PROVE  SetsKept
<1>1. CASE ClearCache
  <2>1. entries'[Root] = <<>> /\ generation' = generation /\ slice' = slice
        /\ loaded' = [loaded EXCEPT ![Root] = FALSE]
    BY <1>1, SetFacts DEF ClearCache, LocksInv, DataOK
  <2>2. DOMAIN entries'[Root] = {} /\ \A c \in Sets \ {Root} : loaded'[c] = loaded[c]
    BY <2>1 DEF LocksInv, DataOK, TypeOK
  <2> QED BY <2>1, <2>2, SchemasLeft
<1>2. CASE OtherClient \/ UNCHANGED vars
  <2>1. UNCHANGED setVars
    BY <1>2 DEF OtherClient, vars
  <2> QED BY <2>1, SchemasLeft
<1> QED BY <1>1, <1>2

LEMMA SetsCut ==
  ASSUME LocksInv, SliceInv, NEW p \in Sessions, LoadSchemas(p)
  PROVE  (SlicesComplete /\ \A s \in DOMAIN entries[Root] : entries[Root][s] <= generation)'
<1> DEFINE schemas == SchemaRows(answers[p][1])
           g == generation + 1
<1>1. /\ DOMAIN entries = Sets /\ generation \in Nat
      /\ \A s \in DOMAIN entries[Root] : entries[Root][s] \in Nat
  <2>1. entries[Root] \in MapsInto(Schemas, 1 .. MaxLoads)
    BY SetFacts DEF LocksInv, DataOK, EntriesOf
  <2> QED BY <2>1, MapFacts, SchemaAssumption DEF LocksInv, DataOK, TypeOK
<1>2. /\ generation' = g /\ loaded' = loaded /\ exists' = exists /\ byName' = byName
      /\ Insert(Root, [s \in ToSet(schemas) |-> g])
  BY DEF LoadSchemas
<1> HIDE DEF schemas
<1>3. entries'[Root] = Joined(entries[Root], [s \in ToSet(schemas) |-> g])
  BY <1>1, <1>2, SetFacts DEF Insert
<1>4. /\ DOMAIN entries'[Root] = DOMAIN entries[Root] \cup ToSet(schemas)
      /\ \A s \in DOMAIN entries[Root] : entries'[Root][s] = entries[Root][s]
      /\ \A s \in ToSet(schemas) : s \notin DOMAIN entries[Root] => entries'[Root][s] = g
  BY <1>3 DEF Joined
<1>5. \A s \in DOMAIN entries[Root] : entries[Root][s] <= generation
  BY DEF SliceInv
<1>6. \A s \in DOMAIN entries'[Root] : entries'[Root][s] <= generation'
  BY <1>1, <1>2, <1>4, <1>5
<1>7. Listed' = Listed
  BY <1>2 DEF Listed
<1>8. ASSUME NEW c \in Sets \ {Root}, Current(c)', ~loaded'[c],
             NEW o \in Initial \cap exists' \cap Listed' \cap Objects,
             SchemaOf[o] = c[2], SetKind(o) = c[1]
      PROVE  o \in ToSet(slice'[c][1]) \cup ToSet(slice'[c][2])
  <2>1. c[2] \in DOMAIN entries'[Root] /\ entries'[Root][c[2]] = c[3]
    BY <1>8 DEF Current
  <2>2. o \in Lasting \cap Listed \cap Objects
    BY <1>2, <1>7, <1>8 DEF Lasting
  <2>3. CASE c[2] \in DOMAIN entries[Root]
    <3>1. Current(c) /\ ~loaded[c]
      BY <1>2, <1>4, <1>8, <2>1, <2>3 DEF Current
    <3>2. c[3] # g
      BY <1>1, <1>4, <1>5, <2>1, <2>3
    <3>3. slice'[c] = slice[c]
      BY <3>2, SlicesAre
    <3>4. o \in ToSet(slice[c][1]) \cup ToSet(slice[c][2])
      BY <1>8, <2>2, <3>1 DEF SliceInv, SlicesComplete, Lasting
    <3> QED BY <3>3, <3>4
  <2>4. CASE c[2] \notin DOMAIN entries[Root]
    <3>1. c[2] \in ToSet(schemas) /\ c[3] = g
      BY <1>4, <2>1, <2>4
    <3> QED BY <1>8, <2>2, <3>1, NewSlicesWhole DEF schemas
  <2> QED BY <2>3, <2>4
<1>9. SlicesComplete'
  BY <1>8 DEF SlicesComplete
<1> QED BY <1>6, <1>9

LEMMA SliceNext == LocksInv /\ SliceInv /\ NewSchemasLast /\ [Next]_vars => SliceInv'
<1> SUFFICES ASSUME LocksInv, SliceInv, NewSchemasLast, [Next]_vars PROVE SliceInv'
  OBVIOUS
<1>1. ServerInv'
  BY ServerNext DEF SliceInv
<1>2. (\A p \in Sessions : answers[p] # <<>> => AnswersAt(p))'
  BY AnswersNext
<1>3. (SlicesComplete /\ \A s \in DOMAIN entries[Root] : entries[Root][s] <= generation)'
  <2>1. ASSUME NEW p \in Sessions, LoadSchemas(p)
        PROVE  (SlicesComplete /\ \A s \in DOMAIN entries[Root] : entries[Root][s] <= generation)'
    BY <2>1, SetsCut
  <2>2. CASE SetsKept
    <3>1. UNCHANGED settingVars /\ Lasting' \subseteq Lasting
      BY Effects, ServerKeeps DEF SliceInv
    <3>2. Listed' = Listed
      BY <3>1 DEF Listed
    <3> QED BY <2>2, <3>1, <3>2 DEF SetsKept, SliceInv, SlicesComplete, Lasting
  <2>3. SetsKept \/ \E p \in Sessions : LoadSchemas(p)
    BY SessionKeepsSets, OthersKeepSets DEF Next
  <2> QED BY <2>1, <2>2, <2>3
<1> QED BY <1>1, <1>2, <1>3 DEF SliceInv

\* Whatever is created and dropped between the five queries of a load, cutting their results
\* in one pass (ExecuteQueries, SliceResult, SliceResultByName) loses no row: a set that is not
\* loaded has in its slice whatever of its schema has been there all the time.
THEOREM NoRowIsLost ==
  ASSUME NewSchemasLast
  PROVE  Spec => []SlicesComplete
<1>1. Init => LocksInv /\ SliceInv
  BY LocksInit, SliceInit
<1>2. LocksInv /\ SliceInv /\ [Next]_vars => (LocksInv /\ SliceInv)'
  BY LocksNext, SliceNext
<1>3. SliceInv => SlicesComplete
  BY DEF SliceInv
<1> QED BY <1>1, <1>2, <1>3, PTL DEF Spec

===============================================================================

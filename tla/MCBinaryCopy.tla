---------------------------- MODULE MCBinaryCopy ----------------------------
(* Files for BinaryCopy: every DECIMAL on its own, and rows of several sizes. *)
EXTENDS BinaryCopy

CONSTANT
  Limit        \* for each scale of a DECIMAL column its largest integer

MCServerMin == -500
MCServerEnd == 1020    \* with EpochDiff beyond MaxInt, as in the code

\* A fraction of three digits takes two words; from 103 on, one that is aligned to the
\* left does not fit T, which is the question of MCDecimalOverflow.cfg.
MCLimit       == 0 :> 999 @@ 1 :> 999 @@ 2 :> 999 @@ 3 :> 102
OverflowLimit == 3 :> 999

ScaleSeq  == SetToSortSeq(DOMAIN Limit, <)
Width     == Len(ScaleSeq)
MCColumns == <<[t |-> "timestamp", scale |-> 0], [t |-> "array", scale |-> 0]>>
             \o [i \in 1 .. Width |-> [t |-> "decimal", scale |-> ScaleSeq[i]]]

Dec(v)  == [t |-> "decimal", v |-> v]
Time(v) == [t |-> "timestamp", v |-> v]
Infinity(v) == [t |-> "infinity", v |-> v]
Arr(s)  == [t |-> "array", v |-> s]
One     == [t |-> "int", v |-> 1]

\* A row that has the same DECIMAL digits in every column that they fit.
Row(time, array, decimal) ==
  <<time, array>>
  \o [i \in 1 .. Width |-> IF decimal # Null /\ Magnitude(decimal.v) > Limit[ScaleSeq[i]]
                           THEN Null ELSE decimal]

Lists(n)   == UNION {[1 .. k -> {One, Null}] : k \in 0 .. n}
Values     == {v \in 0 .. 999 : v <= 12 \/ v \in 90 .. 110 \/ v > 990 \/ v % 100 = 0}
Decimals   == {Row(Null, Null, Dec(v)) : v \in Values \cup {-v : v \in Values}}
Times      == {Row(Time(v), Null, Null) :
                 v \in {-1022, -500, -491, -490, -489, 0, 1022, 1023, 1024, 1029, 1030}}
              \cup {Row(Infinity(v), Null, Null) : v \in {MaxInt, -MaxInt}}
Arrays     == {Row(Null, Arr(s), Null) : s \in UNION {[1 .. k -> Lists(2)] : k \in 0 .. 2}}
SomeRows   == {Row(Null, Null, Null), Row(Time(5), Null, Dec(10)),
               Row(Null, Arr(<<<<One, Null>>>>), Null)}
Structures == UNION {[1 .. k -> SomeRows] : k \in 0 .. 3}

MCFiles == {<<row>> : row \in Decimals \cup Times \cup Arrays} \cup Structures
===============================================================================

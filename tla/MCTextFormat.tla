---------------------------- MODULE MCTextFormat ----------------------------
(* Columns for TextFormat.                                                 *)
EXTENDS TextFormat

TextType    == [t |-> "text", of |-> <<>>]
ListOf(t)   == [t |-> "list", of |-> <<t>>]
Struct(a, b) == [t |-> "struct", of |-> <<a, b>>]
List(s)     == [t |-> "list", v |-> s]
Row(a, b)   == [t |-> "struct", v |-> <<a, b>>]

Words(chars) == {Text(s) : s \in UNION {[1 .. n -> chars] : n \in 0 .. 2}}
Lists(items) == {List(s) : s \in UNION {[1 .. n -> items] : n \in 0 .. 2}}
NullWord     == Text(<<"NULL">>)
a            == Text(<<"a">>)
odd          == Text(<<"a", ",", "\\">>)

Column(type, rows, by, text) == [type |-> type, rows |-> rows, by |-> by, text |-> text]

\* The characters, those the reader understands in a list, and those in a struct.
AllWords    == Words({"a", ",", "\"", "\\", "{", "}", "(", ")", " ", "bs"})
ListWords   == Words({"a", ",", "\"", "\\", "{", "}", " ", "bs"})
StructWords == Words({"a", ",", "\\", "(", ")", " ", "bs"})
Few         == {a, odd, Text(<<>>), Text(<<"(", " ">>), Text(<<"\"", "}">>), Text(<<"\\">>)}
FewPairs    == {Row(x, y) : x, y \in {a, odd, Text(<<>>), Text(<<"(", " ">>)}}

\* Rows of several chunks.
Several(rs) == UNION {[1 .. n -> rs] : n \in {2, 3}}

Plain   == ListOf(TextType)
Pair    == Struct(TextType, TextType)
Matrix  == ListOf(Plain)

Written == UNION {
  {Column(TextType, <<w>>, "duckdb", FALSE) : w \in AllWords \cup {Null, NullWord}},
  {Column(Plain, <<List(<<x, y>>)>>, "duckdb", FALSE) : x \in AllWords, y \in Few \cup {Null}},
  {Column(Plain, <<Null, List(<<x>>), List(<<>>)>>, "duckdb", FALSE) : x \in AllWords},
  {Column(Pair, <<Row(x, y)>>, "duckdb", FALSE) :
     x \in AllWords \cup {Null, NullWord}, y \in Few \cup {Null, NullWord}},
  {Column(ListOf(Struct(TextType, Plain)), <<List(<<Null, Row(x, List(<<y, Null>>))>>)>>,
          "duckdb", FALSE) : x \in Few, y \in AllWords},
  {Column(Matrix, <<List(<<List(<<x, Null>>), List(<<a, x>>)>>), Null>>, "duckdb", FALSE) :
     x \in AllWords},
  {Column(Struct(Pair, TextType), <<Null, Row(Row(x, y), Null)>>, "duckdb", FALSE) :
     x \in AllWords, y \in Few}}

Returned == UNION {
  {Column(Plain, <<List(<<x, y>>)>>, "other", TRUE) :
     x \in ListWords \cup {Null, NullWord}, y \in {a, odd, Text(<<>>), Null, NullWord}},
  {Column(Plain, <<List(<<y, x>>), Null>>, "other", TRUE) :
     x \in ListWords \cup {Null, NullWord}, y \in {odd, Null}},
  {Column(Pair, <<Row(x, y)>>, "other", TRUE) : x \in StructWords, y \in {a, odd, Text(<<>>)}},
  {Column(Pair, <<Row(y, x)>>, "other", TRUE) : x \in StructWords, y \in {a, odd, Text(<<>>)}},
  {Column(Matrix, <<List(<<List(<<x, y>>), List(<<y, x>>)>>)>>, "other", TRUE) : x, y \in {a, Null}},
  {Column(ListOf(Pair), <<List(s)>>, "duckdb", TRUE) :
     s \in UNION {[1 .. n -> FewPairs] : n \in 0 .. 2}},
  {Column(Struct(Plain, TextType), <<Row(x, a)>>, "duckdb", TRUE) : x \in Lists({a, Null, Text(<<"bs", ":">>)})},
  {Column(Plain, rows, "duckdb", TRUE) :
     rows \in Several({Null, List(<<>>), List(<<odd, Null>>), List(<<a>>)})},
  {Column(Pair, rows, "duckdb", TRUE) : rows \in Several({Row(a, odd), Row(odd, a)})}}

MCColumns == Written \cup Returned

\* What the reader does not understand; see the README.
NullStructs == {Column(Struct(TextType, TextType), <<Null, Row(a, odd)>>, "other", TRUE)}
NullFields  == {Column(Struct(TextType, TextType), <<Row(x, Null)>>, "other", TRUE) : x \in {a, odd}}
===============================================================================

------------------------------ MODULE TextFormat ------------------------------
(***************************************************************************)
(* Lists and structs as text: what COPY ... FROM STDIN sends when binary   *)
(* COPY is off, and what PostgresTextReader makes of the text the server   *)
(* returns under pg_use_text_protocol or to a database that has no binary  *)
(* COPY.                                                                   *)
(*                                                                         *)
(* A text is a sequence of characters; the word NULL is one of them, since *)
(* nothing looks inside of it, and so is a control character such as "bs". *)
(* Numbers, blobs and geometries are texts without special characters.     *)
(* The input and output functions of the server are external.              *)
(***************************************************************************)
EXTENDS Integers, SequencesExt

CONSTANTS
  Columns,    \* the columns that are stored: [type, rows, by, text], see ColumnOK
  ChunkRows   \* STANDARD_VECTOR_SIZE

Null    == [t |-> "null", v |-> <<>>]
Text(s) == [t |-> "text", v |-> s]
\* Memory that nobody has written: any string, or none.
Unset   == [t |-> "unset", v |-> <<>>]

\* A type is a text, a list of one type or a struct of several.
ColumnOK(c) ==
  /\ c.type.t \in {"text", "list", "struct"}
  /\ c.by \in {"duckdb", "other"}       \* who has written the rows
  /\ c.text \in BOOLEAN                 \* whether the text protocol reads them

ASSUME TextAssumption == ChunkRows \in Nat \ {0} /\ \A c \in Columns : ColumnOK(c)

VARIABLES
  column,
  stored,     \* the rows on the server
  result,     \* the PGresult of the text reader
  offset,     \* row_offset
  output,     \* the rows it has returned
  status      \* "writing", "stored", "reading", "finished" or "failed"

vars == <<column, stored, result, offset, output, status>>

Init ==
  /\ column \in Columns
  /\ stored = <<>> /\ result = <<>> /\ output = <<>>
  /\ offset = 0 /\ status = "writing"

Map(f(_), s)  == [i \in DOMAIN s |-> f(s[i])]
FlatMap(f(_), s) == FlattenSeq(Map(f, s))
Joined(parts) == FlattenSeq([i \in DOMAIN parts |-> IF i = 1 THEN parts[i] ELSE <<",">> \o parts[i]])
Between(open, parts, close) == <<open>> \o Joined(parts) \o <<close>>
Quote(s)      == <<"\"">> \o s \o <<"\"">>
Has(s, chars) == \E i \in DOMAIN s : s[i] \in chars

-------------------------------------------------------------------------------
(* The writer.                                                             *)

\* Mutant: a comma does not count.
NeedsQuotesNotForComma(s) == s = <<>> \/ Has(s, {"\"", "\\", "{", "}", "(", ")"})

NeedsQuotes(s) ==
  \/ s = <<>>
  \/ Head(s) = " " \/ Last(s) = " "
  \/ Has(s, {"\"", "\\", "{", "}", "(", ")", ","})

EscapeQuotes(s) == FlatMap(LAMBDA c : IF c \in {"\"", "\\"} THEN <<"\\", c>> ELSE <<c>>, s)

QuoteAndEscapeIfNeeded(s) == IF NeedsQuotes(s) THEN Quote(EscapeQuotes(s)) ELSE s

RECURSIVE CastToPostgresVarchar(_, _)
CastListToPostgresArray(type, list) ==
  LET Child(value) ==
        LET child == CastToPostgresVarchar(type.of[1], value)
        IN CASE child = Null -> <<"NULL">>
             [] type.of[1].t = "list" -> child.v
             [] OTHER -> QuoteAndEscapeIfNeeded(child.v)
  IN Text(Between("{", Map(Child, list.v), "}"))

CastStructToPostgres(type, struct) ==
  LET Child(c) ==
        LET child == CastToPostgresVarchar(type.of[c], struct.v[c])
        IN IF child = Null THEN <<>> ELSE QuoteAndEscapeIfNeeded(child.v)
  IN Text(Between("(", [c \in DOMAIN struct.v |-> Child(c)], ")"))

CastToPostgresVarchar(type, value) ==
  CASE value = Null -> Null
    [] type.t = "list" -> CastListToPostgresArray(type, value)
    [] type.t = "struct" -> CastStructToPostgres(type, value)
    [] OTHER -> value

WriteChar(c) == IF c \in {"\\", "\"", "bs"} THEN <<"\\", c>> ELSE <<c>>

\* WriteNull writes one "bs".
WriteValue(field) == IF field = Null THEN <<"bs">> ELSE FlatMap(WriteChar, field.v)

-------------------------------------------------------------------------------
(* The server.                                                             *)

\* COPY compares a field with the NULL string before it looks for escapes.
CopyFrom(field) ==
  LET Step(s, c) == IF c = "\\" /\ ~s.escaped THEN [s EXCEPT !.escaped = TRUE]
                    ELSE [escaped |-> FALSE, out |-> Append(s.out, c)]
  IN IF field = <<"bs">> THEN Null
     ELSE Text(FoldLeft(Step, [escaped |-> FALSE, out |-> <<>>], field).out)

\* The elements between the brackets of s, still quoted; braces nest in an array.
Elements(s, isArray) ==
  LET Add(p, c) == [p EXCEPT !.parts[Len(p.parts)] = Append(@, c), !.escaped = FALSE]
      Step(p, c) ==
        CASE p.escaped -> Add(p, c)
          [] c = "\\" -> [Add(p, c) EXCEPT !.escaped = TRUE]
          [] c = "\"" -> [Add(p, c) EXCEPT !.quoted = ~@]
          [] c = "," /\ ~p.quoted /\ p.depth = 0 -> [p EXCEPT !.parts = Append(@, <<>>)]
          [] c = "{" /\ ~p.quoted /\ isArray -> [Add(p, c) EXCEPT !.depth = @ + 1]
          [] c = "}" /\ ~p.quoted /\ isArray -> [Add(p, c) EXCEPT !.depth = @ - 1]
          [] OTHER -> Add(p, c)
      Start == [escaped |-> FALSE, quoted |-> FALSE, depth |-> 0, parts |-> << <<>> >>]
      inner == SubSeq(s, 2, Len(s) - 1)
  IN IF isArray /\ inner = <<>> THEN <<>> ELSE FoldLeft(Step, Start, inner).parts

\* An element without its quotes and escapes; two quotes in a quoted element are one.
Unquoted(s) ==
  LET Step(p, c) ==
        CASE p.escaped -> [p EXCEPT !.out = Append(@, c), !.escaped = FALSE]
          [] c = "\\" -> [p EXCEPT !.escaped = TRUE]
          [] c = "\"" -> [p EXCEPT !.quoted = ~@, !.out = IF p.closed THEN Append(@, c) ELSE @,
                                   !.closed = p.quoted]
          [] OTHER -> [p EXCEPT !.out = Append(@, c), !.closed = FALSE]
  IN FoldLeft(Step, [escaped |-> FALSE, quoted |-> FALSE, closed |-> FALSE, out |-> <<>>], s).out

\* array_in drops blanks around an element, as far as they are not in quotes.
Stripped(s) ==
  LET solid == {i \in DOMAIN s : s[i] # " "}
  IN IF solid = {} THEN <<>> ELSE SubSeq(s, Min(solid), Max(solid))

\* array_in and record_in
RECURSIVE In(_, _)
In(type, field) ==
  LET Item(s)  == CASE s = <<"NULL">> -> Null
                    [] type.of[1].t = "list" -> In(type.of[1], Text(s))
                    [] OTHER -> In(type.of[1], Text(Unquoted(Stripped(s))))
      parts    == Elements(field.v, FALSE)
      Field(c) == IF parts[c] = <<>> THEN Null ELSE In(type.of[c], Text(Unquoted(parts[c])))
  IN CASE field = Null -> Null
       [] type.t = "list" -> [t |-> "list", v |-> Map(Item, Elements(field.v, TRUE))]
       [] type.t = "struct" -> [t |-> "struct", v |-> [c \in DOMAIN parts |-> Field(c)]]
       [] OTHER -> field

\* array_out and record_out
RECURSIVE Out(_, _)
Out(type, value) ==
  LET Item(item) ==
        LET s == Out(type.of[1], item).v
        IN CASE item = Null -> <<"NULL">>
             [] type.of[1].t = "list" -> s
             [] s \in {<<>>, <<"NULL">>} \/ Has(s, {"\"", "\\", "{", "}", ",", " "}) ->
                  Quote(EscapeQuotes(s))
             [] OTHER -> s
      Field(c) ==
        LET s == Out(type.of[c], value.v[c]).v
        IN CASE value.v[c] = Null -> <<>>
             [] s = <<>> \/ Has(s, {"\"", "\\", "(", ")", ",", " "}) ->
                  Quote(FlatMap(LAMBDA d : IF d \in {"\"", "\\"} THEN <<d, d>> ELSE <<d>>, s))
             [] OTHER -> s
  IN CASE value = Null -> Null
       [] type.t = "list" -> Text(Between("{", Map(Item, value.v), "}"))
       [] type.t = "struct" -> Text(Between("(", [c \in DOMAIN value.v |-> Field(c)], ")"))
       [] OTHER -> value

-------------------------------------------------------------------------------
(* The reader.                                                             *)

\* Mutant: PostgresListParser leaves quoted set.
AddStringStaysQuoted(p, kind) ==
  [p EXCEPT !.parts = Append(@, IF ~p.wasQuoted /\ p.current = <<"NULL">> THEN Null
                                ELSE Text(p.current))]

\* AddString of PostgresListParser, which resets quoted, and of PostgresStructParser.
AddString(p, kind) ==
  [p EXCEPT !.parts = Append(@, IF ~p.wasQuoted /\ p.current = <<"NULL">> THEN Null
                                ELSE Text(p.current)),
            !.wasQuoted = @ /\ kind = "struct"]

\* Whether there is something to add: an empty field that was not quoted is skipped.
AddCurrent(p, kind) ==
  IF p.current = <<>> /\ ~p.wasQuoted THEN p ELSE [AddString(p, kind) EXCEPT !.current = <<>>]

Closing == [c \in {"{", "("} |-> IF c = "{" THEN "}" ELSE ")"]

\* One character of the list, in the order of the two switches.
ParseChar(p, c, kind) ==
  LET Add(q) == [q EXCEPT !.current = Append(@, c)]
  IN CASE p.escaped -> [Add(p) EXCEPT !.escaped = FALSE]
       [] p.quoted /\ c = "\"" -> [p EXCEPT !.quoted = FALSE]
       [] p.quoted /\ c = "\\" -> [p EXCEPT !.escaped = TRUE]
       [] p.quoted -> Add(p)
       [] c \in {"{", "("} -> [Add(p) EXCEPT !.delims = Append(@, Closing[c])]
       [] c \in {"}", ")"} ->
            IF p.delims # <<>> /\ Last(p.delims) = c THEN [Add(p) EXCEPT !.delims = Front(@)]
            ELSE [p EXCEPT !.ok = FALSE]
       [] c = "\"" -> [p EXCEPT !.quoted = TRUE, !.wasQuoted = TRUE]
       [] c = "," /\ p.delims = <<>> -> AddCurrent(p, kind)
       [] OTHER -> Add(p)

ParsePostgresNested(field, kind) ==
  LET s     == field.v
      start == [ok |-> TRUE, quoted |-> FALSE, wasQuoted |-> FALSE, escaped |-> FALSE,
                delims |-> <<>>, current |-> <<>>, parts |-> <<>>]
      end   == FoldLeft(LAMBDA p, c : ParseChar(p, c, kind), start, SubSeq(s, 2, Len(s) - 1))
      opens == IF kind = "list" THEN "{" ELSE "("
  IN IF s = <<>> THEN [start EXCEPT !.ok = field = Null]
     ELSE IF s[1] # opens \/ Last(s) # Closing[opens] THEN [start EXCEPT !.ok = FALSE]
     ELSE AddCurrent(end, kind)

\* A conversion throws or returns a vector.
Throws == [ok |-> FALSE, out |-> <<>>]

RECURSIVE ConvertVector(_, _)

\* The elements of all rows are converted as one vector.
ConvertList(type, source) ==
  LET parsed   == [i \in DOMAIN source |-> ParsePostgresNested(source[i], "list")]
      Flat(n)  == FlattenSeq([i \in 1 .. n |-> parsed[i].parts])
      children == ConvertVector(type.of[1], Flat(Len(source)))
      List(i)  == SubSeq(children.out, Len(Flat(i - 1)) + 1, Len(Flat(i)))
  IN IF ~children.ok \/ \E i \in DOMAIN source : ~parsed[i].ok THEN Throws
     ELSE [ok  |-> TRUE,
           out |-> [i \in DOMAIN source |->
                      IF source[i] = Null THEN Null ELSE [t |-> "list", v |-> List(i)]]]

\* row_offset counts the rows that are parsed: after a NULL it is behind the row.
ConvertStruct(type, source) ==
  LET parsed  == [i \in DOMAIN source |-> ParsePostgresNested(source[i], "struct")]
      live    == SetToSortSeq({i \in DOMAIN source : source[i] # Null}, <)
      Data(c) == [r \in DOMAIN source |->
                    CASE source[r] = Null -> Null
                      [] r <= Len(live) -> parsed[live[r]].parts[c]
                      [] OTHER -> Unset]
      children == [c \in DOMAIN type.of |-> ConvertVector(type.of[c], Data(c))]
  IN IF \E r \in DOMAIN live : ~parsed[live[r]].ok \/ Len(parsed[live[r]].parts) # Len(type.of)
     THEN Throws
     ELSE IF \E c \in DOMAIN type.of : ~children[c].ok THEN Throws
     ELSE [ok  |-> TRUE,
           out |-> [r \in DOMAIN source |->
                      IF source[r] = Null THEN Null
                      ELSE [t |-> "struct", v |-> [c \in DOMAIN type.of |-> children[c].out[r]]]]]

ConvertVector(type, source) ==
  CASE type.t = "list" -> ConvertList(type, source)
    [] type.t = "struct" -> ConvertStruct(type, source)
    [] OTHER -> [ok |-> TRUE, out |-> source]
-------------------------------------------------------------------------------
(* Steps.                                                                  *)

Chunk(rows, from) == SubSeq(rows, from + 1, IF from + ChunkRows > Len(rows) THEN Len(rows)
                                            ELSE from + ChunkRows)

\* CopyChunk, with the server at the other end.
CopyChunk ==
  /\ status = "writing" /\ column.by = "duckdb"
  /\ stored' = stored \o Map(LAMBDA row : In(column.type, CopyFrom(WriteValue(
                                CastToPostgresVarchar(column.type, row)))),
                             Chunk(column.rows, Len(stored)))
  /\ status' = IF Len(stored') = Len(column.rows) THEN "stored" ELSE "writing"
  /\ UNCHANGED <<column, result, offset, output>>

OtherClientWrites ==
  /\ status = "writing" /\ column.by = "other"
  /\ stored' = column.rows
  /\ status' = "stored"
  /\ UNCHANGED <<column, result, offset, output>>

BeginCopy ==
  /\ status = "stored" /\ column.text
  /\ result' = Map(LAMBDA row : Out(column.type, row), stored)
  /\ offset' = 0
  /\ status' = "reading"
  /\ UNCHANGED <<column, stored, output>>

\* The last rows come with FINISHED, and Reset frees the result.
Read ==
  /\ status = "reading"
  /\ LET chunk     == Chunk(result, offset)
         converted == ConvertVector(column.type, chunk)
         finished  == offset + Len(chunk) >= Len(result)
     IN IF converted.ok
        THEN /\ output' = output \o converted.out
             /\ offset' = IF finished THEN 0 ELSE offset + Len(chunk)
             /\ result' = IF finished THEN <<>> ELSE result
             /\ status' = IF finished THEN "finished" ELSE "reading"
        ELSE /\ status' = "failed"
             /\ UNCHANGED <<result, offset, output>>
  /\ UNCHANGED <<column, stored>>

Next == CopyChunk \/ OtherClientWrites \/ BeginCopy \/ Read

Spec == Init /\ [][Next]_vars
-------------------------------------------------------------------------------
(* Properties.                                                             *)

\* What CastToPostgresVarchar and PostgresTextWriter write is parsed by the server into
\* the value that was written, whatever the nesting, the NULLs and the special characters
\* of its strings: "Struct literals encode null by omitting the value"
\* (postgres_copy_to.cpp).
StoredAsWritten == stored = SubSeq(column.rows, 1, Len(stored))

\* The text reader understands what the server writes, returns the values the server has,
\* and none is lost at the end of a chunk or of a batch of child values.
ReadAsStored ==
  /\ status # "failed"
  /\ output = SubSeq(stored, 1, Len(output))
  /\ status = "reading" => Len(output) = offset /\ offset <= Len(result)
  /\ status = "finished" => Len(output) = Len(stored)
===============================================================================

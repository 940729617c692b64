----------------------------- MODULE BinaryCopy -----------------------------
(***************************************************************************)
(* Files in PostgreSQL's binary COPY format: COPY ... TO 'file' (FORMAT    *)
(* postgres_binary), and COPY FROM or read_postgres_binary, which read the *)
(* file through a buffer of a size the user may choose.                    *)
(*                                                                         *)
(* A file is a sequence of 16-bit words: the header, rows, the footer.  A  *)
(* row is its number of fields, then each field with its length before it; *)
(* lengths and array elements take one word here.  The file may be cut     *)
(* anywhere if the program stops while it writes.                          *)
(***************************************************************************)
EXTENDS NumericCodec, TLC

CONSTANTS
  Columns,      \* the columns of the table, each [t |-> type, scale |-> scale]
  Files,        \* the sequences of rows that get written
  Encoders,     \* who writes the file: "duckdb", or "postgres" with COPY TO
  BufferSizes,  \* buffer_size, in words
  ChunkRows,    \* bound: rows of a DataChunk that is written
  VectorSize    \* STANDARD_VECTOR_SIZE

ASSUME BinaryAssumption ==
  /\ \A f \in Files : \A i \in DOMAIN f : Len(f[i]) = Len(Columns)
  /\ Encoders \subseteq {"duckdb", "postgres"}
  /\ BufferSizes \subseteq Nat \ {0}
  /\ ChunkRows \in Nat \ {0} /\ VectorSize \in Nat \ {0}

VARIABLES
  encoder, bufferSize,
  rows,          \* what is written
  written,       \* how many of the rows have been written
  file,
  writer,        \* "open", "closed" or "stopped"
  fileOffset,    \* file_offset
  leftover,      \* words of the read buffer the parser has not got yet
  headerScanned, \* header_scanned
  window,        \* buffer_ptr .. end of the parser
  finished,      \* finished of the file reader
  output,        \* the DataChunk that is filled
  delivered,     \* rows of the chunks DuckDB has got
  reader         \* "none", "opening", "check", "parse", "fill", "done" or an error

writerVars == <<encoder, bufferSize, rows, written, file, writer>>
bufferVars == <<fileOffset, leftover, headerScanned, finished>>
vars == <<writerVars, bufferVars, window, output, delivered, reader>>

Null   == [t |-> "null"]
Header == <<99, 0, 0>>
Footer == <<-1>>
Errors == {"empty", "invalid header", "row too large", "out of buffer", "out of range"}

\* A value of TIMESTAMP that DuckDB knows.
Instant(v) == [t |-> IF Magnitude(v) = MaxInt THEN "infinity" ELSE "timestamp", v |-> v]

\* Whether DuckDB has the value: its finite timestamps end before those of the server.
InDuckDB(value) == value.t = "timestamp" => Magnitude(value.v) < MaxInt

Init ==
  /\ encoder \in Encoders /\ bufferSize \in BufferSizes /\ rows \in Files
  /\ encoder = "duckdb" => \A i \in DOMAIN rows : \A c \in DOMAIN rows[i] : InDuckDB(rows[i][c])
  /\ written = 0 /\ file = <<>> /\ writer = "open"
  /\ fileOffset = 0 /\ leftover = <<>> /\ headerScanned = FALSE /\ finished = FALSE
  /\ window = <<>> /\ output = <<>> /\ delivered = <<>>
  /\ reader = "none"

-------------------------------------------------------------------------------
(* Writing.                                                                *)

\* WriteArray: every list of a list of lists has as many elements as the first one.
Rectangular(lists) == \A i \in DOMAIN lists : Len(lists[i]) = Len(lists[1])

WriteElement(e) == IF e = Null THEN <<-1>> ELSE <<1, e.v>>

WriteArray(lists) ==
  IF lists = <<>> THEN <<0>>
  ELSE <<2, Len(lists), Len(lists[1])>>
       \o FlattenSeq([i \in DOMAIN lists |->
            FlattenSeq([j \in DOMAIN lists[i] |-> WriteElement(lists[i][j])])])

NumericWords(d) ==
  <<Len(d.digits), d.weight, IF d.negative THEN 1 ELSE 0, d.scale>> \o d.digits

Payload(value, column) ==
  CASE value.t = "infinity"  -> <<WriteTimestamp(value.v)>>
    [] value.t = "timestamp" ->
         <<IF encoder = "duckdb" THEN WriteTimestamp(value.v) ELSE value.v - EpochDiff>>
    [] value.t = "decimal"   ->
         NumericWords(IF encoder = "duckdb" THEN WriteDecimal(value.v, column.scale)
                      ELSE NumericSend(value.v, column.scale))
    [] OTHER -> WriteArray(value.v)

WriteValue(value, column) ==
  IF value = Null THEN <<-1>>
  ELSE LET words == Payload(value, column) IN <<Len(words)>> \o words

\* Whether WriteValue does not throw, and whether the server has such a value.
Writes(value) ==
  CASE value.t = "timestamp" -> IF encoder = "duckdb" THEN WritesTimestamp(value.v)
                                ELSE value.v - EpochDiff \in ServerMin .. ServerEnd - 1
    [] value.t = "array"     ->
         Rectangular(value.v) /\ (encoder = "postgres" => \A i \in DOMAIN value.v : value.v[i] # <<>>)
    [] OTHER                 -> TRUE

WriteRow(row) ==
  <<Len(row)>> \o FlattenSeq([c \in DOMAIN row |-> WriteValue(row[c], Columns[c])])

InitializeGlobal ==
  /\ writer = "open" /\ file = <<>>
  /\ file' = Header
  /\ UNCHANGED <<encoder, bufferSize, rows, written, writer, bufferVars, window, output,
                 delivered, reader>>

\* One WriteChunk; its words reach the file only when all its rows could be written.
Sink ==
  /\ writer = "open" /\ file # <<>> /\ written < Len(rows)
  /\ \E n \in 1 .. ChunkRows :
       /\ written + n <= Len(rows)
       /\ LET chunk == SubSeq(rows, written + 1, written + n)
          IN IF \A i \in DOMAIN chunk : \A c \in DOMAIN chunk[i] : Writes(chunk[i][c])
             THEN /\ file' = file \o FlattenSeq([i \in DOMAIN chunk |-> WriteRow(chunk[i])])
                  /\ written' = written + n
                  /\ UNCHANGED writer
             ELSE writer' = "stopped" /\ UNCHANGED <<file, written>>
  /\ UNCHANGED <<encoder, bufferSize, rows, bufferVars, window, output, delivered, reader>>

Finalize ==
  /\ writer = "open" /\ file # <<>> /\ written = Len(rows)
  /\ file' = file \o Footer
  /\ writer' = "closed"
  /\ UNCHANGED <<encoder, bufferSize, rows, written, bufferVars, window, output, delivered,
                 reader>>

\* The program stops before Finalize: what the file system kept is a prefix.
Crash ==
  /\ writer = "open"
  /\ \E n \in 0 .. Len(file) : file' = SubSeq(file, 1, n)
  /\ writer' = "stopped"
  /\ UNCHANGED <<encoder, bufferSize, rows, written, bufferVars, window, output, delivered,
                 reader>>

-------------------------------------------------------------------------------
(* PostgresBinaryFileReader.                                               *)

\* Where the row that starts after word p ends, or 0 if its end is not in the buffer.
RowEnd(buf, p) ==
  LET end[c \in 0 .. buf[p + 1]] ==
        IF c = 0 THEN p + 1
        ELSE LET q == end[c - 1]
             IN IF q + 1 > Len(buf) THEN Len(buf) + 1 ELSE q + 1 + Larger(0, buf[q + 1])
      last == end[buf[p + 1]]
  IN IF last > Len(buf) THEN 0 ELSE last

FindLastCompleteRow(buf) ==
  LET safe[p \in 0 .. Len(buf)] ==
        IF p = Len(buf) THEN p
        ELSE IF buf[p + 1] <= 0 THEN p + 1
        ELSE LET q == RowEnd(buf, p) IN IF q = 0 THEN p ELSE safe[q]
  IN safe[0]

Throw(error) == reader' = error /\ UNCHANGED <<bufferVars, window>>

\* PostgresBinaryFileReader's constructor, up to its FillBuffer.
Open ==
  /\ reader = "none" /\ writer # "open"
  /\ reader' = IF file = <<>> THEN "empty" ELSE "opening"
  /\ UNCHANGED <<writerVars, bufferVars, window, output, delivered>>

ToRead == LET space == bufferSize - Len(leftover)
              rest  == Len(file) - fileOffset
          IN IF space < rest THEN space ELSE rest

\* Words of the header in the first buffer.
ScanOffset(buf) ==
  IF headerScanned THEN 0 ELSE IF Len(buf) < Len(Header) THEN Len(buf) ELSE Len(Header)

\* Mutant: the first row has to fit next to the header.
ValidWithHeader(buf, atEnd) ==
  LET skip  == ScanOffset(buf)
      found == FindLastCompleteRow(SubSeq(buf, skip + 1, Len(buf)))
  IN IF found > 0 THEN found + skip ELSE IF atEnd THEN Len(buf) ELSE 0

\* How much of the buffer goes to the parser; 0 if no row fits.
Valid(buf, atEnd) ==
  LET skip  == ScanOffset(buf)
      found == FindLastCompleteRow(SubSeq(buf, skip + 1, Len(buf)))
  IN CASE found > 0 -> found + skip
       [] found = 0 /\ atEnd  -> Len(buf)
       [] found = 0 /\ ~atEnd -> skip

\* Fill(amount): FillBuffer where amount words are read.
Fill(amount) ==
  LET buf   == leftover \o SubSeq(file, fileOffset + 1, fileOffset + amount)
      atEnd == fileOffset + amount >= Len(file)
      valid == Valid(buf, atEnd)
  IN IF buf = <<>>
     THEN /\ finished' = TRUE /\ reader' = "done"
          /\ UNCHANGED <<fileOffset, leftover, headerScanned, window>>
     ELSE IF valid = 0 THEN Throw("row too large")
     ELSE /\ fileOffset' = fileOffset + amount
          /\ headerScanned' = TRUE
          /\ window' = SubSeq(buf, 1, valid)
          /\ leftover' = SubSeq(buf, valid + 1, Len(buf))
          /\ reader' = IF reader = "opening" THEN "check" ELSE "parse"
          /\ UNCHANGED finished

Filling == reader \in {"opening", "fill"}

\* Mutants: the space the leftover takes is forgotten; the end of the file is; the end of
\* the file is taken for the end of the rows.
FillBufferOverrun ==
  /\ Filling
  /\ Fill(IF bufferSize < Len(file) - fileOffset THEN bufferSize ELSE Len(file) - fileOffset)
  /\ UNCHANGED <<writerVars, output, delivered>>
FillBufferNoEnd ==
  /\ Filling
  /\ IF leftover = <<>> /\ ToRead = 0
     THEN reader' = "parse" /\ UNCHANGED <<bufferVars, window>> ELSE Fill(ToRead)
  /\ UNCHANGED <<writerVars, output, delivered>>

FillBufferDropsRest ==
  /\ Filling
  /\ IF fileOffset >= Len(file)
     THEN /\ finished' = TRUE /\ reader' = "done"
          /\ UNCHANGED <<fileOffset, leftover, headerScanned, window>>
     ELSE Fill(ToRead)
  /\ UNCHANGED <<writerVars, output, delivered>>

FillBuffer ==
  /\ Filling
  /\ Fill(ToRead)
  /\ UNCHANGED <<writerVars, output, delivered>>

CheckHeader ==
  /\ reader = "check"
  /\ IF Len(window) >= Len(Header) /\ SubSeq(window, 1, Len(Header)) = Header
     THEN /\ window' = SubSeq(window, Len(Header) + 1, Len(window))
          /\ reader' = "parse"
          /\ UNCHANGED bufferVars
     ELSE Throw("invalid header")
  /\ UNCHANGED <<writerVars, output, delivered>>

-------------------------------------------------------------------------------
(* PostgresBinaryParser::ReadChunk.  A step of it has read so many words, some values    *)
(* and maybe an error.                                                     *)

Fail(st, error) == [st EXCEPT !.error = error]
Got(st, value, n) == [st EXCEPT !.vals = Append(@, value), !.pos = @ + n]

ReadElement(w, st) ==
  IF st.error # "none" THEN st
  ELSE IF st.pos > Len(w) THEN Fail(st, "out of buffer")
  ELSE IF w[st.pos] = -1 THEN Got(st, Null, 1)
  ELSE IF st.pos + 1 > Len(w) THEN Fail(st, "out of buffer")
  ELSE Got(st, [t |-> "int", v |-> w[st.pos + 1]], 2)

\* The elements are in row-major order: list i has those after the first (i - 1) * width.
ReadArray(w, st) ==
  LET height == w[st.pos + 2]
      width  == w[st.pos + 3]
      after[i \in 0 .. height * width] ==
        IF i = 0 THEN [st EXCEPT !.pos = @ + 4, !.vals = <<>>]
        ELSE LET s == after[i - 1] IN ReadElement(w, s)
      items  == after[height * width]
  IN IF st.pos + 1 > Len(w) THEN Fail(st, "out of buffer")
     ELSE IF w[st.pos + 1] = 0 THEN Got(st, [t |-> "array", v |-> <<>>], 2)
     ELSE IF st.pos + 3 > Len(w) THEN Fail(st, "out of buffer")
     ELSE IF items.error # "none" THEN Fail(st, items.error)
     ELSE Got(st, [t |-> "array",
                   v |-> [i \in 1 .. height |->
                            SubSeq(items.vals, (i - 1) * width + 1, i * width)]],
              items.pos - st.pos)

ReadNumeric(w, st) ==
  LET n == w[st.pos + 1]
      d == [weight |-> w[st.pos + 2], negative |-> w[st.pos + 3] = 1, scale |-> w[st.pos + 4],
            digits |-> SubSeq(w, st.pos + 5, st.pos + 4 + n)]
  IN IF st.pos + 4 > Len(w) THEN Fail(st, "out of buffer")
     ELSE IF st.pos + 4 + n > Len(w) THEN Fail(st, "out of buffer")
     ELSE Got(st, [t |-> "decimal", v |-> ReadDecimal(d)], 5 + n)

ReadInstant(w, st) ==
  IF st.pos + 1 > Len(w) THEN Fail(st, "out of buffer")
  ELSE IF ~ReadsTimestamp(w[st.pos + 1]) THEN Fail(st, "out of range")
  ELSE Got(st, Instant(ReadTimestamp(w[st.pos + 1])), 2)

ReadValue(w, st, column) ==
  IF st.error # "none" THEN st
  ELSE IF st.pos > Len(w) THEN Fail(st, "out of buffer")
  ELSE IF w[st.pos] = -1 THEN Got(st, Null, 1)
  ELSE CASE column.t = "decimal"   -> ReadNumeric(w, st)
         [] column.t = "timestamp" -> ReadInstant(w, st)
         [] OTHER                  -> ReadArray(w, st)

ReadRow(w) ==
  LET after[c \in 0 .. Len(Columns)] ==
        IF c = 0 THEN [pos |-> 2, vals |-> <<>>, error |-> "none"]
        ELSE LET st == after[c - 1] IN ReadValue(w, st, Columns[c])
  IN after[Len(Columns)]

ReadTuple ==
  /\ reader = "parse" /\ window # <<>> /\ Len(output) < VectorSize
  /\ IF window[1] <= 0
     THEN window' = <<>> /\ UNCHANGED <<bufferVars, output, reader>>
     ELSE LET row == ReadRow(window)
          IN IF row.error # "none" THEN Throw(row.error) /\ UNCHANGED output
             ELSE /\ output' = Append(output, row.vals)
                  /\ window' = SubSeq(window, row.pos, Len(window))
                  /\ UNCHANGED <<bufferVars, reader>>
  /\ UNCHANGED <<writerVars, delivered>>

\* Not Ready(): the reader fills the buffer again, unless the file has ended.
NeedsBuffer ==
  /\ reader = "parse" /\ window = <<>> /\ Len(output) < VectorSize
  /\ reader' = "fill"
  /\ UNCHANGED <<writerVars, bufferVars, window, output, delivered>>

\* PostgresBinaryReadScan returns a chunk that is full, or the last one.
ReturnChunk ==
  /\ output # <<>>
  /\ Len(output) = VectorSize \/ reader = "done"
  /\ delivered' = delivered \o output
  /\ output' = <<>>
  /\ UNCHANGED <<writerVars, bufferVars, window, reader>>

-------------------------------------------------------------------------------
Read == Open \/ FillBuffer \/ CheckHeader \/ ReadTuple \/ NeedsBuffer \/ ReturnChunk

Next == InitializeGlobal \/ Sink \/ Finalize \/ Crash \/ Read

\* Where Read is enabled.
CanRead ==
  /\ reader \notin Errors
  /\ reader = "none" => writer # "open"
  /\ reader = "done" => output # <<>>

\* DuckDB asks for chunks until the reader has no more: weak fairness of Read, with
\* ENABLED Read written out.
Spec == Init /\ [][Next]_vars /\ ([]<>~CanRead \/ []<><<Read>>_vars)
-------------------------------------------------------------------------------
(* Properties.                                                             *)

\* Type invariant: in particular, the reader's words never exceed its buffer.
TypeOK ==
  /\ encoder \in Encoders /\ bufferSize \in BufferSizes
  /\ written \in 0 .. Len(rows) /\ file \in Seq(Int) /\ writer \in {"open", "closed", "stopped"}
  /\ fileOffset \in 0 .. Len(file) /\ headerScanned \in BOOLEAN /\ finished \in BOOLEAN
  /\ leftover \in Seq(Int) /\ window \in Seq(Int)
  /\ Len(window) + Len(leftover) <= bufferSize
  /\ Len(output) <= VectorSize
  /\ reader \in {"none", "opening", "check", "parse", "fill", "done"} \cup Errors

Size(row)  == Len(WriteRow(row))

\* Bytes of the header and of the first n rows.
RowsEnd(n) == FoldSeq(+, Len(Header), [i \in 1 .. n |-> Size(rows[i])])

\* Whatever the buffer size, the vector size and the place where the file was cut, the
\* values read are those that were written, in order: "fractional digits are LEFT
\* aligned ... if we write .12 with a scale of 2 we actually need to write 1200"
\* (WriteDecimal), "keep it in the buffer so that CheckHeader can still validate it".
ReadsInOrder == IsPrefix(delivered \o output, rows)

\* "a row only has to fit in buffer_size, not in buffer_size minus the header"
\* (FillBuffer): a file that was closed is read to its end, unless one of its rows or its
\* header is larger than the buffer, or holds a timestamp DuckDB does not have.
IntactFileIsRead ==
  writer = "closed" =>
    /\ reader = "done" /\ output = <<>> => delivered = rows
    /\ reader \in Errors =>
         \/ bufferSize < Len(Header)
         \/ \E i \in DOMAIN rows : bufferSize < Size(rows[i])
         \/ \E i \in DOMAIN rows : \E c \in DOMAIN rows[i] : ~InDuckDB(rows[i][c])

\* A file that was cut is read without an error only if it ends where a row ends, and
\* then up to its last row.  Such a file passes for a complete one: nobody looks for the
\* footer.
TruncationNoticed ==
  reader = "done" /\ output = <<>> /\ writer = "stopped" => Len(file) = RowsEnd(Len(delivered))

\* Reading ends.
ReadEnds == reader # "none" ~> (reader \in Errors \/ (reader = "done" /\ output = <<>>))
===============================================================================

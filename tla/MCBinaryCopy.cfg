SPECIFICATION Spec
CONSTANTS
  DecDigits = 2
  Bits = 11
  EpochDiff = 10
  ServerMin <- MCServerMin
  ServerEnd <- MCServerEnd
  Limit <- MCLimit
  Columns <- MCColumns
  Files <- MCFiles
  Encoders = {"duckdb", "postgres"}
  BufferSizes = {2, 6, 12, 22, 40}
  ChunkRows = 2
  VectorSize = 2
INVARIANTS TypeOK ReadsInOrder IntactFileIsRead TruncationNoticed
PROPERTIES ReadEnds
CHECK_DEADLOCK FALSE

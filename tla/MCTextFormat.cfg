SPECIFICATION Spec
CONSTANTS
  Columns <- MCColumns
  ChunkRows = 2
INVARIANTS StoredAsWritten ReadAsStored
CHECK_DEADLOCK FALSE

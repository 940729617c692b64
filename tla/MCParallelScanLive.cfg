SPECIFICATION Spec
PROPERTIES QueryEnds ConnectionsReturned
CONSTANTS
  Threads = {t1, t2}
  Rows = {r1}
  OwnRows = {o1}
  HeapPages = {1}
  PagesChoices = {0, 2, 3}
  PerTaskChoices = {1, 2}
  IsolationChoices = {"read_committed", "repeatable_read"}
  TidMax = 5
  Word = 12
  VectorSize = 2
  MaxClock = 1
  ExportMayFail = TRUE
  ExecuteWrites = FALSE
CHECK_DEADLOCK FALSE

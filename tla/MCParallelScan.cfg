SPECIFICATION Spec
SYMMETRY Symmetry
INVARIANTS TypeOK ScanExact OneCopyExact BatchHasOneThread MainConnectionNotShared ReadersPinned
PROPERTY PageIdxNeverWraps
CONSTANTS
  Threads = {t1, t2}
  Rows = {r1, r2}
  OwnRows = {o1}
  HeapPages = {0, 1, 3}
  PagesChoices = {0, 1, 2, 3}
  PerTaskChoices = {1, 2, 11}
  IsolationChoices = {"read_committed", "repeatable_read"}
  TidMax = 5
  Word = 12
  VectorSize = 2
  MaxClock = 1
  ExportMayFail = FALSE
  ExecuteWrites = FALSE
CHECK_DEADLOCK FALSE

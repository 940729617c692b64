SPECIFICATION Spec
INVARIANTS TypeOK LookupFindsStable SignatureCommitted
PROPERTY SignatureWrittenUnderLock
CONSTANTS
  Sessions = {s1, s2}
  Names = {a}
  Fold <- Identity
  Ops = {"lookup", "scan", "create", "drop", "alter", "view"}
  StalenessEnabled = {s1}
  RepeatableRead = FALSE
  Sliced = TRUE
  ChangesDuringCalls = TRUE
  ExternalDrops = TRUE
  OverlappingCalls = TRUE
  PoolMayFail = TRUE
  MaxStamp = 3
  MaxPending = 3
CHECK_DEADLOCK FALSE

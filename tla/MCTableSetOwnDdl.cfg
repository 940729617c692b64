SPECIFICATION Spec
INVARIANT OwnDdlVisible
PROPERTY LoadLockReleased
CONSTANTS
  Sessions = {s1}
  Names = {a, b}
  Fold <- Identity
  Ops = {"lookup", "scan", "alter", "drop"}
  StalenessEnabled = {s1}
  RepeatableRead = FALSE
  Sliced = FALSE
  ChangesDuringCalls = TRUE
  ExternalDrops = TRUE
  OverlappingCalls = TRUE
  PoolMayFail = TRUE
  MaxStamp = 3
  MaxPending = 4
CHECK_DEADLOCK FALSE

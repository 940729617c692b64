SPECIFICATION Spec
INVARIANT ScanIsCurrent
SYMMETRY Symmetry
CONSTANTS
  Sessions = {s1, s2}
  Names = {a, b}
  Fold <- Identity
  Ops = {"lookup", "scan"}
  StalenessEnabled = {s1, s2}
  RepeatableRead = FALSE
  Sliced = FALSE
  ChangesDuringCalls = FALSE
  ExternalDrops = FALSE
  OverlappingCalls = FALSE
  PoolMayFail = FALSE
  MaxStamp = 4
  MaxPending = 3
CHECK_DEADLOCK FALSE

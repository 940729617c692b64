SPECIFICATION Spec
CONSTANTS
  k1 = k1
  k2 = k2
  k3 = k3
  Keys = {k1, k2, k3}
  Kinds = {"insert", "ctas", "update", "delete", "merge"}
  PlainChoices = {TRUE, FALSE}
  Isolations = {"repeatable_read", "read_committed"}
  ChunkRows = 2
  FlushRows = 2
  SchemasReloaded = TRUE
  MaxStatements = 2
  MaxVersion = 2
SYMMETRY KeySymmetry
INVARIANTS TypeOK WrittenOnce NoLostUpdate CopyNeverInterrupted CountIsExact
CHECK_DEADLOCK FALSE

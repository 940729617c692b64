SPECIFICATION Spec
CONSTANTS
  p1 = p1
  p2 = p2
  NoSession = NoSession
  Sessions = {p1, p2}
  Schemas <- MCSchemas
  Objects <- MCObjects
  KindOf <- MCKindOf
  SchemaOf <- MCSchemaOf
  NamedIn <- MCNamedIn
  Refs <- MCRefs
  Initial <- MCInitial
  Settings <- MCSettings
  NameRank <- MCNameRank
  OtherClients = {14, 22}
  Wanted = {13, 14, 22}
  OwnDdl = {21, 23, 30}
  MaxCalls = 1
  MaxLoads = 2
  MaxFailures = 1
SYMMETRY SessionSymmetry
INVARIANTS TypeOK TypesAsDefined SlicesComplete LookupFindsUnlessCleared NoLockCycle
CHECK_DEADLOCK FALSE

SPECIFICATION Spec
CONSTANTS
  Clients = {c1, c2}
  PathIds = {"1"}
  Uuids = {"u"}
  NoDoc = NoDoc
  NullBody = NullBody
  NoId = NoId
  NoJob = NoJob
  Paths <- MCPaths
  Leaves <- MCLeaves
  Bodies <- MCBodies
INVARIANTS
  TypeOK
  IdMatchesKey
PROPERTIES
  AnswersAtomic
  PatchKeepsTheRest
  PutKeepsIdType
CHECK_DEADLOCK TRUE

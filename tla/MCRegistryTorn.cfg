SPECIFICATION Spec
CONSTANTS
  GET = GET
  POST = POST
  p1 = p1
  p2 = p2
  alice = alice
  bob = bob
  i1 = i1
  i2 = i2
  w1 = w1
  w2 = w2
  Accounts = {alice}
  Ids = {i1, i2}
  Methods = {GET, POST}
  Paths <- MCPaths
  Prompts = {p1, p2}
  Workers = {w1, w2}
  CreateInputs <- RacingCreates
  UpdateInputs <- RacingUpdates
  ImportDocs <- RacingDocs
  MaxVersion = 2
  MaxFaults = 0
  Omitted = Omitted
  NoRow = NoRow
  NoId = NoId
  NoJob = NoJob
  NoSchema = NoSchema
  NotCached = NotCached
INVARIANTS RowIsLatestVersion
CHECK_DEADLOCK FALSE

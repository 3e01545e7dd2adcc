SPECIFICATION FairSpec
CONSTANTS
  GET = GET
  POST = POST
  p1 = p1
  i1 = i1
  i2 = i2
  Accounts = {"alice"}
  Ids = {i1, i2}
  Methods = {GET, POST}
  Paths <- MCPaths
  Prompts = {p1}
  Workers = {"w1"}
  CreateInputs <- MCCreates
  UpdateInputs <- MCUpdates
  ImportDocs <- MCDocs
  Readers = {"r1"}
  MaxVersion = 3
  MaxFaults = 1
  Omitted = Omitted
  NoRow = NoRow
  NoId = NoId
  NoJob = NoJob
  NoSchema = NoSchema
  NotCached = NotCached
  NoMethod = NoMethod
INVARIANTS ServingTypeOK StaleOnlyByOutdatedFill
PROPERTIES SelfHeals RequestsEnd

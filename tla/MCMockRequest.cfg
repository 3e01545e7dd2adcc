SPECIFICATION Spec
CONSTANTS
  d1 = d1
  d2 = d2
  junk = junk
  Requests = {r1}
  Versions <- MCVersions
  Schemas = {"s1", "s2"}
  Documents = {d1, d2, junk}
  Accepts <- MCAccepts
  Fills <- MCFills
  Inputs <- MCInputs
  Auth = TRUE
  MaxFaults = 2
  Empty = Empty
  NoSchema = NoSchema
  NoSim = NoSim
  NoDoc = NoDoc
INVARIANTS
  TypeOK
  AnswersFollowSchema
  ContractEnforced
  HistoryTells
PROPERTIES
  CoherentAgain
  RequestsEnd
CHECK_DEADLOCK TRUE

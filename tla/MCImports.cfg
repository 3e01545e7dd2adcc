SPECIFICATION Spec
CONSTANTS
  None = None
  OpenAPI <- MCOpenAPI
  Postman <- MCPostman
  Orders <- MCOrders
  Calls <- MCCalls
  MaxImports = 2
INVARIANTS
  DocumentIsHonoured
  ExampleIsHonoured
  DocumentIsServed
  ValuesStayValues
CHECK_DEADLOCK TRUE

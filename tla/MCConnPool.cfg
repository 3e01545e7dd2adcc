SPECIFICATION FairSpec
CONSTANTS
  Writers <- Few
  Others = {"o1", "o2"}
  MaxOpen = 3
  Nested = 3
INVARIANTS TypeOK SomebodyRuns
PROPERTIES RequestsEnd

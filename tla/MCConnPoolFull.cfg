SPECIFICATION Spec
CONSTANTS
  Writers <- Many
  Others = {"o1", "o2"}
  MaxOpen = 3
  Nested = 3
INVARIANTS SomebodyRuns

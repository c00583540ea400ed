SPECIFICATION Spec
CONSTANTS
  Keys = {"a", "b"}
  Programs <- RefusedPut
  Sources = 0
  MaxReceipts = 3
  MaxAttempts = 2
  MaxRestarts = 2
  MaxForeign = 0
INVARIANT
  NoDuplicateWrites
CHECK_DEADLOCK FALSE

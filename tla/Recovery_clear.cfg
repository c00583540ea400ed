SPECIFICATION Spec
CONSTANTS
  Keys = {"a", "b"}
  Programs <- ClearPut
  Sources = 0
  MaxReceipts = 6
  MaxAttempts = 2
  MaxRestarts = 2
  MaxForeign = 0
INVARIANT
  NoDuplicateWrites
CHECK_DEADLOCK FALSE

SPECIFICATION Spec
CONSTANTS
  Keys = {"a", "b"}
  Programs <- ReplayedPrograms
  Sources = 0
  MaxReceipts = 3
  MaxAttempts = 2
  MaxRestarts = 2
  MaxForeign = 1
INVARIANTS
  WriteEvidence
  ClearSparesReplacements
PROPERTIES
  ImplementsAtMostOnce
CHECK_DEADLOCK FALSE

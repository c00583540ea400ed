SPECIFICATION Spec
CONSTANTS
  Keys = {"a", "b"}
  Programs <- OneCommit
  Sources = 0
  MaxReceipts = 3
  MaxAttempts = 2
  MaxRestarts = 0
  MaxForeign = 0
PROPERTY
  IntentEvidence
CHECK_DEADLOCK FALSE

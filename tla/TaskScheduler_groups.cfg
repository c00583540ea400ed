SPECIFICATION Spec
CONSTANTS
  MaxTasks = 3
  MaxScopes = 2
  MaxGroup = 2
  RootLimit = 2
  Limits = {1, 2}
  GroupPolicies = {"Run", "Join", "TryJoin", "Collect", "Race"}
  SerialScopes = {FALSE}
  KeySets <- NoKeys
  SourceIndexes = {0, 1}
  MayBeUnresolved = FALSE
INVARIANTS
  ReadyQueueExact
  NoLostWakeup
  PrimaryIsFirstInSource
PROPERTIES
  OutcomesAreFinal
  BarrierHolds
CHECK_DEADLOCK FALSE

SPECIFICATION RestoreSpec
CONSTANTS
  MaxTasks = 3
  MaxScopes = 3
  MaxGroup = 2
  RootLimit = 2
  Limits = {1}
  GroupPolicies = {"Race"}
  SerialScopes = {FALSE}
  KeySets <- NoKeys
  SourceIndexes = {0}
  MayBeUnresolved = FALSE
  MaxTokens = 1
  MaxRestarts = 1
INVARIANTS
  OneShot
  LiveTokens
  SnapshotsAreAccepted
  SlotAccounting
  ConcurrencyBound
PROPERTIES
  RestartIsExact
  ScopeOutcomesAreFinal
CHECK_DEADLOCK FALSE

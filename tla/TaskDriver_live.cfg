SPECIFICATION LiveDriverSpec
CONSTANTS
  MaxTasks = 3
  MaxScopes = 2
  MaxGroup = 3
  RootLimit = 3
  Limits = {3}
  GroupPolicies = {"Run", "Join", "TryJoin", "Collect", "Race"}
  SerialScopes = {FALSE}
  KeySets <- OneKey
  SourceIndexes = {0}
  MayBeUnresolved = FALSE
  NativeWork = {FALSE}
  CpuCapacity = 2
  MaxTurns = 2
  MaxRootTurns = 1
  RootPolicies = {"Run", "Race"}
  TaskPolicies = {"Run", "Join", "TryJoin", "Collect", "Race"}
INVARIANTS
  DeadlockNeedsPermit
PROPERTIES
  RunTerminates
CHECK_DEADLOCK FALSE

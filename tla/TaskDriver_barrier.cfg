SPECIFICATION DriverSpec
CONSTANTS
  MaxTasks = 3
  MaxScopes = 3
  MaxGroup = 2
  RootLimit = 2
  Limits = {2}
  GroupPolicies = {"Run", "Race"}
  SerialScopes = {FALSE}
  KeySets <- NoKeys
  SourceIndexes = {}
  MayBeUnresolved = FALSE
  NativeWork = {FALSE}
  CpuCapacity = 2
  MaxTurns = 2
  MaxRootTurns = 1
  RootPolicies = {"Run"}
  TaskPolicies = {"Race"}
INVARIANTS
  CheckpointTaskIsReady
CHECK_DEADLOCK FALSE

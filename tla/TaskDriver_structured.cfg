SPECIFICATION DriverSpec
CONSTANTS
  MaxTasks = 4
  MaxScopes = 4
  MaxGroup = 2
  RootLimit = 2
  Limits = {2}
  GroupPolicies = {"Run", "Join", "Race"}
  SerialScopes = {FALSE}
  KeySets <- NoKeys
  SourceIndexes = {}
  MayBeUnresolved = FALSE
  NativeWork = {FALSE}
  CpuCapacity = 1
  MaxTurns = 1
  MaxRootTurns = 1
  RootPolicies = {"Run"}
  TaskPolicies = {"Race", "Join"}
INVARIANTS
  RaceAwaitsSettlement
CHECK_DEADLOCK FALSE

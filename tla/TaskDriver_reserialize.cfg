SPECIFICATION DriverSpec
CONSTANTS
  MaxTasks = 4
  MaxScopes = 2
  MaxGroup = 1
  RootLimit = 3
  Limits = {3}
  GroupPolicies = {"Run"}
  SerialScopes = {FALSE}
  KeySets <- NoKeys
  SourceIndexes = {0}
  MayBeUnresolved = TRUE
  NativeWork = {FALSE}
  CpuCapacity = 1
  MaxTurns = 3
  MaxRootTurns = 1
  RootPolicies = {"Run"}
  TaskPolicies = {}
PROPERTIES
  SerialAdmission
CHECK_DEADLOCK FALSE

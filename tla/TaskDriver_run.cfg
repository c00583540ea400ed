SPECIFICATION DriverSpec
CONSTANTS
  MaxTasks = 3
  MaxScopes = 3
  MaxGroup = 3
  RootLimit = 3
  Limits = {3}
  GroupPolicies = {"Join", "Race"}
  SerialScopes = {FALSE}
  KeySets <- NoKeys
  SourceIndexes = {}
  MayBeUnresolved = FALSE
  NativeWork = {TRUE, FALSE}
  CpuCapacity = 2
  MaxTurns = 2
  MaxRootTurns = 2
  RootPolicies = {"Join", "Race"}
  TaskPolicies = {"Join", "Race"}
INVARIANTS
  OneAnswerPerTask
  SnapshotIsValid
  NothingOutlivesRun
  FailureSurfaces
CHECK_DEADLOCK FALSE

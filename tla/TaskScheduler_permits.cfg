SPECIFICATION Spec
CONSTANTS
  MaxTasks = 3
  MaxScopes = 2
  MaxGroup = 3
  RootLimit = 3
  Limits = {3}
  GroupPolicies = {"Join"}
  SerialScopes = {TRUE}
  KeySets <- MixedKeys
  SourceIndexes = {0}
  MayBeUnresolved = TRUE
INVARIANTS
  PermitExclusion
  NoLostPermit
CHECK_DEADLOCK FALSE

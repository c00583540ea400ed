SPECIFICATION Spec
CONSTANTS
  Guards = {"guard", "approval"}
  Roles = {"task"}
  MaxForms = 5
  MaxRestarts = 1
  MaxActive = 2
  MaxPending = 1
  Capacity = 1
INVARIANT
  TaskScopesSurface
CHECK_DEADLOCK FALSE

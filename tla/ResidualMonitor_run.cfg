SPECIFICATION Spec
CONSTANTS
  Guards = {"guard", "approval"}
  Roles = {"root", "task"}
  MaxForms = 5
  MaxRestarts = 1
  MaxActive = 2
  MaxPending = 1
  Capacity = 1
INVARIANTS
  MonitorNeverConfused
  SettledOnce
  UnsatisfiedScopesSurface
PROPERTIES
  GuardedDispatch
CHECK_DEADLOCK FALSE

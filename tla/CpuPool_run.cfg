SPECIFICATION LivePoolSpec
CONSTANTS
  Workers = {w1, w2}
  MaxJobs = 3
  MaxPanics = 2
INVARIANTS
  NoLostSignal
  NoJobForgotten
PROPERTIES
  JobsSettleOrFault
  DropStopsWorkers
CHECK_DEADLOCK FALSE

SPECIFICATION LivePoolSpec
CONSTANTS
  Workers = {w1, w2}
  MaxJobs = 2
  MaxPanics = 2
PROPERTIES
  JobsSettle
CHECK_DEADLOCK FALSE

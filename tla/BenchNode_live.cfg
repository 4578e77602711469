SPECIFICATION FairSpec
CONSTANTS
  MaxJobs = 2
  QueueDepth = 2
  RetainJobs = 1
  Handlers = {}
  ServeReuse = TRUE
  MaxRestarts = 1
  MaxIoErrors = 0
  MaxForeign = 1
PROPERTY QueuedJobsEnd
CHECK_DEADLOCK FALSE

SPECIFICATION Spec
CONSTANTS
  MaxJobs = 2
  QueueDepth = 2
  RetainJobs = 1
  Handlers = {h1}
  ServeReuse = FALSE
  MaxRestarts = 1
  MaxIoErrors = 1
  MaxForeign = 0
INVARIANT OneOwnGate
INVARIANT RecordsAreOwn
INVARIANT EndsAreSettled
PROPERTY NeverRunTwice
CHECK_DEADLOCK FALSE

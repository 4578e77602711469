SPECIFICATION Spec
CONSTANTS
  N = 2
  Local = {1}
  Sessions = {s1}
  Supervisor = sup
  MaxEpochs = 1
  Faults = {"loss"}
  MaxFaults = 2
INVARIANT NeverPartial
CHECK_DEADLOCK FALSE

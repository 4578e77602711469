SPECIFICATION Spec
CONSTANTS
  Recipes = {r1}
  Settings = {"a"}
  Deployments = {d1}
  MaxGeneration = 1
  Slots = {s1, s2}
  Host = h
  Budget = 3
  MaxSteps = 1
  MaxIds = 6
  MaxCalls = 2
  Faults = {"weights", "ps", "inspect", "rm", "run", "stop", "pull", "refuse", "exit", "rank", "cordon", "restart"}
  MaxFaults = 1
PROPERTY RequestsEnd
CHECK_DEADLOCK FALSE

SPECIFICATION Spec
CONSTANTS
  Recipes = {r1, r2}
  Settings = {"a", "b"}
  Deployments = {d1}
  MaxGeneration = 2
  Slots = {s1, s2}
  Host = h
  Budget = 3
  MaxSteps = 2
  MaxIds = 6
  MaxCalls = 2
  Faults = {"weights", "ps", "inspect", "rm", "run", "stop", "pull", "refuse", "exit", "rank", "cordon", "restart"}
  MaxFaults = 2
INVARIANT TypeOK
INVARIANT OneWorkload
PROPERTY NoRollback
PROPERTY LaunchKeepsRunning
PROPERTY StoppedIsDown
SYMMETRY Symmetry
CHECK_DEADLOCK FALSE

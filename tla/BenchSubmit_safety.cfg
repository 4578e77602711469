SPECIFICATION Spec
CONSTANTS
  Stems = {v, w}
  Exts = {x, y}
  Specs = {s, t}
  Senders = {n}
  Handlers = {g, h}
  QueueDepth = 1
  MaxClock = 1
  MaxSubmits = 3
  MaxFaults = 1
  NoJob = NoJob
  NoSpec = NoSpec
SYMMETRY Alike
INVARIANT KeysAreKept
INVARIANT QueueIsBounded
CHECK_DEADLOCK FALSE

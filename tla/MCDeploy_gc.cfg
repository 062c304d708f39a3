SPECIFICATION Spec
CONSTANTS
  b1 = b1
  c1 = c1
  d1 = d1
  d2 = d2
  h1 = h1
  h2 = h2
  s1 = s1
  Deployments = {d1, d2}
  Hashes = {h1, h2}
  Settings = {s1}
  Builders = {b1}
  Callers = {c1}
  MaxCalls = 4
  QueueCap = 1
  Keep = 1
  Calls = {"deploy", "rollback", "gc"}
  Faults = {}
SYMMETRY Symm
CHECK_DEADLOCK FALSE
INVARIANTS
  CurrentOnDisk

SPECIFICATION Spec
CONSTANTS
  b1 = b1
  b2 = b2
  c1 = c1
  c2 = c2
  d1 = d1
  d2 = d2
  h1 = h1
  h2 = h2
  s1 = s1
  s2 = s2
  Deployments = {d1, d2}
  Hashes = {h1, h2}
  Settings = {s1, s2}
  Builders = {b1, b2}
  Callers = {c1, c2}
  MaxCalls = 4
  QueueCap = 2
  Keep = 1
  Calls = {"get", "deploy", "mcpDeploy", "rollback", "mcpRollback", "gc"}
  Faults = {"build"}
SYMMETRY Symm
CHECK_DEADLOCK FALSE
INVARIANTS
  ServingConsistent

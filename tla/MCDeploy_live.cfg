SPECIFICATION FairSpec
CONSTANTS
  b1 = b1
  c1 = c1
  c2 = c2
  d1 = d1
  d2 = d2
  h1 = h1
  s1 = s1
  Deployments = {d1, d2}
  Hashes = {h1}
  Settings = {s1}
  Builders = {b1}
  Callers = {c1, c2}
  MaxCalls = 3
  QueueCap = 1
  Keep = 1
  Calls = {"deploy", "mcpUpdate", "rollback", "delete", "mcpDelete", "gc"}
  Faults = {"activate", "crash"}
CHECK_DEADLOCK FALSE
PROPERTIES
  DeployFinishes

SPECIFICATION FairSpec
CONSTANTS
  f1 = f1
  f2 = f2
  r1 = r1
  r2 = r2
  o1 = o1
  w1 = w1
  w2 = w2
  Functions <- OneFn
  Requests <- OneRequest
  Operators <- OneOperator
  Workers <- OneWorker
  MaxOps = 1
  PoolMax = 1
  PoolMin = 0
  MaxConcurrency = 0
  ConcPolicy = "queue"
  QueueGlobalLimit = 2
  QueueFnLimit = 2
  HostSlots = 1
  MemBudget = 1
  AvailReadings = {1}
  SpawnSlots = 2
  MaxStep = 2
  ScaleToZero = FALSE
  Events = {"timeout", "exit", "spawnfail", "shutdown"}
CHECK_DEADLOCK FALSE
INVARIANTS
  ShutdownClean
PROPERTIES
  RetiredOnlyShrinks
  PoolFinishes

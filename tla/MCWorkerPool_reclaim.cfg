SPECIFICATION Spec
CONSTANTS
  f1 = f1
  f2 = f2
  r1 = r1
  r2 = r2
  o1 = o1
  w1 = w1
  w2 = w2
  Functions <- TwoFns
  Requests <- TwoRequests
  Operators <- OneOperator
  Workers <- OneWorker
  MaxOps = 0
  PoolMax = 1
  PoolMin = 0
  MaxConcurrency = 1
  ConcPolicy = "reject"
  QueueGlobalLimit = 1
  QueueFnLimit = 2
  HostSlots = 1
  MemBudget = 1
  AvailReadings = {0, 1}
  SpawnSlots = 2
  MaxStep = 2
  ScaleToZero = TRUE
  Events = {"timeout", "spawnfail"}
SYMMETRY Symmetry
INVARIANTS
  PoolSafe

SPECIFICATION Spec
CONSTANTS
  f1 = f1
  f2 = f2
  r1 = r1
  r2 = r2
  o1 = o1
  w1 = w1
  w2 = w2
  Functions <- OneFn
  Requests <- TwoRequests
  Operators <- OneOperator
  Workers <- TwoWorkers
  MaxOps = 1
  PoolMax = 1
  PoolMin = 0
  MaxConcurrency = 1
  ConcPolicy = "queue"
  QueueGlobalLimit = 2
  QueueFnLimit = 2
  HostSlots = 1
  MemBudget = 2
  AvailReadings = {2}
  SpawnSlots = 2
  MaxStep = 2
  ScaleToZero = FALSE
  Events = {"timeout", "exit", "spawnfail"}
SYMMETRY Symmetry
INVARIANTS
  TypeOK
  PoolSafe
  FreshLease
  RetiredDrained

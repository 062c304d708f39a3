SPECIFICATION FairSpec
CONSTANTS
  f1 = f1
  f2 = f2
  r1 = r1
  r2 = r2
  o1 = o1
  w1 = w1
  w2 = w2
  Functions <- TwoFns
  Requests <- OneRequest
  Operators <- OneOperator
  Workers <- OneWorker
  MaxOps = 0
  PoolMax = 1
  PoolMin = 0
  MaxConcurrency = 0
  ConcPolicy = "queue"
  QueueGlobalLimit = 2
  QueueFnLimit = 2
  HostSlots = 1
  MemBudget = 1
  AvailReadings = {1}
  SpawnSlots = 2
  MaxStep = 2
  ScaleToZero = FALSE
  Events = {}
PROPERTIES
  EveryRequestAnswered

SPECIFICATION QueuesSpec
CONSTANTS
  JobIds = {j1, j2}
  JobKeys = {k1}
  JobSlots = {s1, s2}
  Enqueuers = {c1, c2}
  JobOps = {o1}
  MaxAttempts = 2
  MaxEvents = 2
  JobCalls = {"retry", "delete", "purge", "deleteFn"}
  JobFaults = {"crash", "window"}
  Subs = {u1, u2}
  HookEvents = {e1}
  DeliveryIds = {d1, d2}
  TestRows = {t1}
  HookSlots = {w1}
  HookOps = {o1}
  HubCap = 1
  MaxTries = 2
  MaxHookEvents = 1
  HookCalls = {"update", "delete", "test", "retry", "crash"}
  CronIds = {r1, r2}
  Periods = {2}
  Zones = {0, 1}
  CronNames = {n1}
  MaxSDK = 1
  Fires = {f1, f2}
  Editors = {a1}
  Upserters = {x1, x2}
  Horizon = 2
  MaxCronCalls = 2
  CronCalls = {"create", "update", "delete", "upsert", "mcpUpdate", "crash"}
CHECK_DEADLOCK FALSE
INVARIANTS
  QueuesTypeOK
  
  CronSafe
PROPERTIES
  
  DeliveriesAreAQueue
  EveryRowEnds
  CronMovesOn

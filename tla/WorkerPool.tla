----------------------------- MODULE WorkerPool -----------------------------
(***************************************************************************)
(* The warm-worker pool of backend/internal/pool: the manager's map of     *)
(* pool generations (one per function, replaced on every deploy), the      *)
(* request path (Acquire ... Release), the global scaler that admits new   *)
(* workers against the host-memory reservation, retirement by deploys,     *)
(* settings changes and deletes, and the shutdown.                         *)
(*                                                                         *)
(* One action is one stretch of code between two points at which another   *)
(* goroutine can observe or change the shared state: an atomic counter, a  *)
(* channel operation, or the critical section of poolMu or p.mu.           *)
(*                                                                         *)
(* Abstractions.  A generation's idle channel is the set of the workers in *)
(* it (they are interchangeable).  Every worker reserves one unit of       *)
(* memory.  The rates and percentiles of the demand controller are a       *)
(* nondeterministic demand; its pressure term, its clamps and its          *)
(* hysteresis are kept.  A deadline may fire whenever the code looks at    *)
(* it: every branch that sees an expired deadline ends the request.        *)
(***************************************************************************)
EXTENDS Integers, FiniteSets

CONSTANTS
  Functions,        \* function ids
  Requests,         \* clients; each runs Acquire and Release over and over
  Operators,        \* goroutines that change a function and retire its pool
  Workers,          \* worker process ids; the id of a dead worker is reused
  MaxOps,           \* bound on the changes made to functions
  PoolMax,          \* p.max, which is also cap(p.idle)
  PoolMin,          \* p.min
  MaxConcurrency,   \* fn.MaxConcurrency; 0 is "no semaphore"
  ConcPolicy,       \* fn.ConcurrencyPolicy: "queue" or "reject"
  QueueGlobalLimit, \* m.queueGlobalLimit
  QueueFnLimit,     \* m.queueFunctionLimit
  HostSlots,        \* capacity of the host-wide sandbox.Limiter
  MemBudget,        \* units of memory the tracker lets workers reserve
  AvailReadings,    \* readings of the physical memory left to workers
  SpawnSlots,       \* maxConcurrentSpawnsPerPool
  MaxStep,          \* bound on one pass's scale-up, the code's 4
  ScaleToZero,      \* p.scaleToZero: without it one worker stays warm
  Events            \* environment events that may happen, of AllEvents

\* The queue deadline fires, a worker process exits, a spawn fails, the
\* daemon shuts down.
AllEvents == {"timeout", "exit", "spawnfail", "shutdown"}

\* No worker and no function.
NoWorker == "none"
NoFn == "none"

ASSUME PoolAssumption ==
  /\ IsFiniteSet(Functions) /\ IsFiniteSet(Requests) /\ IsFiniteSet(Workers)
  /\ IsFiniteSet(Operators)
  /\ MaxOps \in Nat
  /\ PoolMax \in Nat \ {0} /\ PoolMin \in 0..PoolMax
  /\ MaxConcurrency \in Nat /\ ConcPolicy \in {"queue", "reject"}
  /\ QueueGlobalLimit \in Nat \ {0} /\ QueueFnLimit \in Nat \ {0}
  /\ HostSlots \in Nat \ {0}
  /\ MemBudget \in Nat /\ Cardinality(Workers) >= MemBudget
  /\ AvailReadings \subseteq Nat /\ AvailReadings # {}
  /\ SpawnSlots \in Nat \ {0} /\ MaxStep \in Nat \ {0}
  /\ ScaleToZero \in BOOLEAN
  /\ Events \subseteq AllEvents
  /\ NoWorker \notin Workers /\ NoFn \notin Functions

Gens == 1..(MaxOps + Cardinality(Functions))  \* generation numbers
None == 0                                     \* no generation

VARIABLES
  regVer,    \* version of each function's registry record and on-disk code
  present,   \* whether the function exists in the registry
  refreshed, \* newest version whose change request has returned
  pools,     \* m.pools: the current generation of each function, or None
  genCount,  \* number of generations created
  genFn,     \* function of each generation
  genVer,    \* registry version its spawn closure was built from
  closing,   \* p.closing (and the closed channel p.retired)
  idle,      \* contents of p.idle
  busy,      \* p.busy
  queued,    \* p.queued
  spawning,  \* p.spawning
  conc,      \* tokens in p.concSem
  dynMax,    \* p.dynamicMax
  desired,   \* p.desired
  spawnErr,  \* p.spawnError # nil
  wpc,       \* process state of each worker
  wgen,      \* generation that spawned it
  wbad,      \* isUnusable: the process exited or reached maxUses
  reserved,  \* hostMem.reserved
  avail,     \* hostMem.availBytes, less the cgroup headroom
  mQueued,   \* m.queued
  hostBusy,  \* slots taken in the Limiter
  pc,        \* program counter of each request
  rfn,       \* its function
  rgen,      \* the generation it uses (the variable p of Acquire)
  rw,        \* the worker it holds
  rver,      \* refreshed[rfn] when it arrived
  spc,       \* program counter of the scaler
  spass,     \* generations the current pass has still to evaluate
  sgen,      \* generation being scaled up
  swant,     \* workers still to start for it
  opc,       \* program counter of each operator
  ofn, over, ogen, \* its function, the version it wrote, the pool it retired
  ops,       \* number of changes made
  sdpc       \* Shutdown: "up", "stopping", "draining", "down"

regVars == <<regVer, present, refreshed>>
genVars == <<pools, genCount, genFn, genVer>>
poolVars == <<closing, idle, busy, queued, spawning, conc, dynMax, desired, spawnErr>>
workerVars == <<wpc, wgen, wbad, reserved>>
reqVars == <<pc, rfn, rgen, rw, rver>>
scalerVars == <<spc, spass, sgen, swant>>
opVars == <<opc, ofn, over, ogen, ops>>
vars == <<regVars, genVars, poolVars, workerVars, avail, mQueued, hostBusy,
          reqVars, scalerVars, opVars, sdpc>>

----------------------------------------------------------------------------
(* What a request holds at each of its program counters.                  *)

HoldsGlobalQueue == {"enqF", "repool", "loop", "acquire", "popped", "limit",
                     "admit", "urel", "upark", "ufree"}
HoldsPoolQueue == HoldsGlobalQueue \ {"enqF", "repool"}
HoldsSlot == {"acquire", "popped", "limit", "admit", "run", "rel", "park",
              "free", "urel", "upark", "ufree"}
HoldsHostSlot == {"admit", "run", "rel", "park", "free"}
HoldsWorker == {"popped", "limit", "admit", "run", "rel", "park", "urel", "upark"}
CountedBusy == {"limit", "admit", "run", "rel", "urel"}
RequestPCs == {"new", "pool", "enqG"} \cup HoldsGlobalQueue \cup HoldsSlot

InGen(g, pcs) == {r \in Requests : pc[r] \in pcs /\ rgen[r] = g}
LiveStates == {"starting", "ready", "live"}
LiveWorkers == {w \in Workers : wpc[w] \in LiveStates}

Min2(a, b) == IF a < b THEN a ELSE b
Max2(a, b) == IF a > b THEN a ELSE b

----------------------------------------------------------------------------
(* Host memory reservations (hostmem.go).                                 *)

\* The two gates of availableForWorkers: the reservation budget and the
\* physical headroom, each net of what is already promised.
AvailableForWorkers(promised) ==
  Max2(0, Min2(MemBudget - promised, avail - promised))

\* The reservation after hostMem.release of n workers, clamped at zero.
Released(n) == Max2(0, reserved - n)

\* killWorker of the workers in W, followed by hostMem.release.
KillWorkers(W) ==
  /\ wpc' = [w \in Workers |-> IF w \in W THEN "dead" ELSE wpc[w]]
  /\ wgen' = [w \in Workers |-> IF w \in W THEN None ELSE wgen[w]]
  /\ wbad' = wbad \ W
  /\ reserved' = Released(Cardinality(W))

\* The poller refreshes the physical reading.
RefreshAvail ==
  /\ \E a \in AvailReadings : a # avail /\ avail' = a
  /\ UNCHANGED <<regVars, genVars, poolVars, workerVars, mQueued, hostBusy,
                 reqVars, scalerVars, opVars, sdpc>>

----------------------------------------------------------------------------
(* getOrCreatePool, retirePool and their callers (pool.go).               *)

Closing == sdpc # "up"   \* m.closing
TimeoutFires == "timeout" \in Events

\* The generation getOrCreatePool returns for f, None when it fails.
\* The fast path and the one under poolMu agree on what they return.
HasPool(f) == pools[f] # None /\ ~closing[pools[f]]

\* Publishes a new generation built from the registry record.
CreatePool(f, g) ==
  /\ g = genCount + 1
  /\ g \in Gens
  /\ genCount' = g
  /\ pools' = [pools EXCEPT ![f] = g]
  /\ genFn' = [genFn EXCEPT ![g] = f]
  /\ genVer' = [genVer EXCEPT ![g] = regVer[f]]

\* A goroutine writes a function's record, code, secrets or settings, or
\* deletes it; it retires the pool afterwards.
ChangeFunction(o, f, deletes) ==
  /\ opc[o] = "idle"
  /\ ops < MaxOps
  /\ present[f]
  /\ ops' = ops + 1
  /\ regVer' = [regVer EXCEPT ![f] = @ + 1]
  /\ present' = [present EXCEPT ![f] = ~deletes]
  /\ opc' = [opc EXCEPT ![o] = "retire"]
  /\ ofn' = [ofn EXCEPT ![o] = f]
  /\ over' = [over EXCEPT ![o] = regVer[f] + 1]
  /\ UNCHANGED <<refreshed, genVars, poolVars, workerVars, avail, mQueued,
                 hostBusy, reqVars, scalerVars, ogen, sdpc>>

\* Mutant of RetirePool: the generation is drained but stays published.
DrainInPlace(o) ==
  /\ opc[o] = "retire"
  /\ ogen' = [ogen EXCEPT ![o] = pools[ofn[o]]]
  /\ opc' = [opc EXCEPT ![o] = "drain"]
  /\ UNCHANGED <<regVars, genVars, poolVars, workerVars, avail, mQueued,
                 hostBusy, reqVars, scalerVars, ofn, over, ops, sdpc>>

\* The critical section of retirePool: unpublish and close the generation.
RetirePool(o) ==
  /\ opc[o] = "retire"
  /\ LET f == ofn[o]
         g == pools[ofn[o]] IN
     /\ pools' = [pools EXCEPT ![f] = None]
     /\ closing' = [x \in Gens |-> closing[x] \/ x = g]
     /\ ogen' = [ogen EXCEPT ![o] = g]
     /\ opc' = [opc EXCEPT ![o] = "drain"]
  /\ UNCHANGED <<regVars, genCount, genFn, genVer, idle, busy, queued,
                 spawning, conc, dynMax, desired, spawnErr, workerVars, avail,
                 mQueued, hostBusy, reqVars, scalerVars, ofn, over, ops, sdpc>>

\* The drain loop after it: one idle worker, of those in W, is killed ...
DrainFrom(o, W) ==
  /\ opc[o] = "drain"
  /\ ogen[o] # None
  /\ \E w \in W :
       /\ idle' = [idle EXCEPT ![ogen[o]] = @ \ {w}]
       /\ KillWorkers({w})
  /\ UNCHANGED <<regVars, genVars, closing, busy, queued, spawning, conc,
                 dynMax, desired, spawnErr, avail, mQueued, hostBusy, reqVars,
                 scalerVars, opVars, sdpc>>

\* Mutant of DrainOne: workers that exited by themselves are skipped.
DrainUsable(o) == DrainFrom(o, idle[ogen[o]] \ wbad)

DrainOne(o) == ogen[o] # None /\ DrainFrom(o, idle[ogen[o]])

\* ... or the channel is empty and the change request returns.
DrainDone(o) ==
  /\ opc[o] = "drain"
  /\ ogen[o] # None => idle[ogen[o]] = {}
  /\ refreshed' = [refreshed EXCEPT ![ofn[o]] = Max2(@, over[o])]
  /\ opc' = [opc EXCEPT ![o] = "idle"]
  /\ ogen' = [ogen EXCEPT ![o] = None]
  /\ ofn' = [ofn EXCEPT ![o] = NoFn]
  /\ over' = [over EXCEPT ![o] = 0]
  /\ UNCHANGED <<regVer, present, genVars, poolVars, workerVars, avail,
                 mQueued, hostBusy, reqVars, scalerVars, ops, sdpc>>

\* PrewarmAll publishes the pool of an active function at boot.
Prewarm(f) ==
  /\ ~Closing /\ present[f] /\ ~HasPool(f)
  /\ CreatePool(f, genCount + 1)
  /\ UNCHANGED <<regVars, poolVars, workerVars, avail, mQueued, hostBusy,
                 reqVars, scalerVars, opVars, sdpc>>

----------------------------------------------------------------------------
(* Manager.Acquire.  The request returns to "new" when it is answered.    *)

\* r's own variables at the end of an invocation.
Answered(r) ==
  /\ pc' = [pc EXCEPT ![r] = "new"]
  /\ rgen' = [rgen EXCEPT ![r] = None]
  /\ rw' = [rw EXCEPT ![r] = NoWorker]
  /\ rver' = [rver EXCEPT ![r] = 0]
  /\ rfn' = [rfn EXCEPT ![r] = NoFn]

Goto(r, label) ==
  /\ pc' = [pc EXCEPT ![r] = label]
  /\ UNCHANGED <<rfn, rgen, rw, rver>>

Inc(counter, g) == [counter EXCEPT ![g] = @ + 1]
Dec(counter, g) == [counter EXCEPT ![g] = @ - 1]

\* Mutant of ReleaseSlot: the error paths forget the semaphore.
LeakSlot(g) == UNCHANGED conc

\* releaseSlot: a non-blocking receive from concSem.
ReleaseSlot(g) ==
  conc' = IF MaxConcurrency = 0 \/ conc[g] = 0 THEN conc ELSE Dec(conc, g)

\* An invocation arrives while the manager is open.
Arrive(r, f) ==
  /\ pc[r] = "new"
  /\ ~Closing
  /\ pc' = [pc EXCEPT ![r] = "pool"]
  /\ rfn' = [rfn EXCEPT ![r] = f]
  /\ rver' = [rver EXCEPT ![r] = refreshed[f]]
  /\ UNCHANGED <<rgen, rw, regVars, genVars, poolVars, workerVars, avail,
                 mQueued, hostBusy, scalerVars, opVars, sdpc>>

\* getOrCreatePool, first call and after a retirement.  On the retry the
\* place in the new generation's queue is taken right after it.
GetOrCreatePool(r) ==
  /\ pc[r] \in {"pool", "repool"}
  /\ LET f == rfn[r]
         retry == pc[r] = "repool"
         fails == ~HasPool(f) /\ (Closing \/ ~present[f])
         g == IF HasPool(f) THEN pools[f] ELSE genCount + 1
         full == queued[g] >= QueueFnLimit IN
     /\ IF fails \/ HasPool(f) THEN UNCHANGED genVars ELSE CreatePool(f, g)
     /\ IF fails \/ (retry /\ full)
        THEN /\ Answered(r)
             /\ mQueued' = IF retry THEN mQueued - 1 ELSE mQueued
             /\ UNCHANGED queued
        ELSE /\ pc' = [pc EXCEPT ![r] = IF retry THEN "loop" ELSE "enqG"]
             /\ rgen' = [rgen EXCEPT ![r] = g]
             /\ queued' = IF retry THEN Inc(queued, g) ELSE queued
             /\ UNCHANGED <<rfn, rw, rver, mQueued>>
  /\ UNCHANGED <<regVars, closing, idle, busy, spawning, conc, dynMax, desired,
                 spawnErr, workerVars, avail, hostBusy, scalerVars, opVars, sdpc>>

\* reserveQueueCounter on m.queued ...
ReserveGlobalQueue(r) ==
  /\ pc[r] = "enqG"
  /\ IF mQueued >= QueueGlobalLimit
     THEN Answered(r) /\ UNCHANGED mQueued
     ELSE Goto(r, "enqF") /\ mQueued' = mQueued + 1
  /\ UNCHANGED <<regVars, genVars, poolVars, workerVars, avail, hostBusy,
                 scalerVars, opVars, sdpc>>

\* ... and on p.queued.
ReservePoolQueue(r) ==
  /\ pc[r] = "enqF"
  /\ IF queued[rgen[r]] >= QueueFnLimit
     THEN Answered(r) /\ mQueued' = mQueued - 1 /\ UNCHANGED queued
     ELSE Goto(r, "loop") /\ queued' = Inc(queued, rgen[r]) /\ UNCHANGED mQueued
  /\ UNCHANGED <<regVars, genVars, closing, idle, busy, spawning, conc, dynMax,
                 desired, spawnErr, workerVars, avail, hostBusy, scalerVars,
                 opVars, sdpc>>

\* Leaves the queue of a retired generation to retry on its replacement.
RetryOnReplacement(r) ==
  /\ pc' = [pc EXCEPT ![r] = "repool"]
  /\ queued' = Dec(queued, rgen[r])
  /\ UNCHANGED <<rfn, rver, mQueued>>

\* finishQueue and the deferred m.queued.Add(-1) of a failed Acquire.
LeaveQueues(r) ==
  /\ queued' = Dec(queued, rgen[r])
  /\ mQueued' = mQueued - 1

\* functionPool.acquireSlot: the per-function concurrency semaphore.
AcquireSlot(r) ==
  /\ pc[r] = "loop"
  /\ LET g == rgen[r] IN
     \/ /\ closing[g]
        /\ RetryOnReplacement(r)
        /\ UNCHANGED <<conc, rgen, rw>>
     \/ /\ ~closing[g] /\ MaxConcurrency = 0
        /\ Goto(r, "acquire")
        /\ UNCHANGED <<conc, queued, mQueued>>
     \/ /\ ~closing[g] /\ conc[g] < MaxConcurrency
        /\ conc' = Inc(conc, g)
        /\ Goto(r, "acquire")
        /\ UNCHANGED <<queued, mQueued>>
     \/ /\ ~closing[g] /\ MaxConcurrency > 0 /\ conc[g] >= MaxConcurrency
        /\ ConcPolicy = "reject"            \* ErrFunctionBusy
        /\ LeaveQueues(r) /\ Answered(r)
        /\ UNCHANGED conc
  /\ UNCHANGED <<regVars, genVars, closing, idle, busy, spawning, dynMax,
                 desired, spawnErr, workerVars, avail, hostBusy, scalerVars,
                 opVars, sdpc>>

\* The queue deadline fires at the top of the loop or in acquireSlot.
SlotTimeout(r) ==
  /\ TimeoutFires
  /\ pc[r] = "loop"
  /\ LeaveQueues(r) /\ Answered(r)
  /\ UNCHANGED <<regVars, genVars, closing, idle, busy, spawning, conc, dynMax,
                 desired, spawnErr, workerVars, avail, hostBusy, scalerVars,
                 opVars, sdpc>>

\* functionPool.acquire and waitForIdle: a worker is received from p.idle,
\* without any lock and before p.busy counts it.
PopIdle(r) ==
  /\ pc[r] = "acquire"
  /\ \E w \in idle[rgen[r]] :
       /\ idle' = [idle EXCEPT ![rgen[r]] = @ \ {w}]
       /\ rw' = [rw EXCEPT ![r] = w]
  /\ pc' = [pc EXCEPT ![r] = "popped"]
  /\ UNCHANGED <<rfn, rgen, rver, regVars, genVars, closing, busy, queued,
                 spawning, conc, dynMax, desired, spawnErr, workerVars, avail,
                 mQueued, hostBusy, scalerVars, opVars, sdpc>>

\* Mutant of WaitGivesUp: waitForIdle does not watch the context.
WatchSpawnErrorOnly(g) == spawnErr[g]

WaitGivesUp(g) == spawnErr[g] \/ TimeoutFires

\* The wait ends without a worker: the generation was retired, a spawn
\* failed, or the deadline fired.
AcquireFails(r) ==
  /\ pc[r] = "acquire"
  /\ LET g == rgen[r] IN
     /\ ReleaseSlot(g)
     /\ \/ closing[g] /\ RetryOnReplacement(r) /\ UNCHANGED <<rgen, rw>>
        \/ WaitGivesUp(g) /\ LeaveQueues(r) /\ Answered(r)
  /\ UNCHANGED <<regVars, genVars, closing, idle, busy, spawning, dynMax,
                 desired, spawnErr, workerVars, avail, hostBusy, scalerVars,
                 opVars, sdpc>>

\* The checks on the worker just received: killed if the generation was
\* retired meanwhile or the worker is unusable, counted busy otherwise.
CheckWorker(r) ==
  /\ pc[r] = "popped"
  /\ LET g == rgen[r]
         w == rw[r] IN
     \/ /\ closing[g]
        /\ KillWorkers({w})
        /\ ReleaseSlot(g)
        /\ RetryOnReplacement(r)
        /\ rw' = [rw EXCEPT ![r] = NoWorker]
        /\ UNCHANGED <<busy, rgen>>
     \/ /\ ~closing[g] /\ w \in wbad
        /\ KillWorkers({w})
        /\ pc' = [pc EXCEPT ![r] = "acquire"]
        /\ rw' = [rw EXCEPT ![r] = NoWorker]
        /\ UNCHANGED <<busy, conc, queued, mQueued, rfn, rgen, rver>>
     \/ /\ ~closing[g] /\ w \notin wbad
        /\ busy' = Inc(busy, g)
        /\ Goto(r, "limit")
        /\ UNCHANGED <<workerVars, conc, queued, mQueued>>
  /\ UNCHANGED <<regVars, genVars, closing, idle, spawning, dynMax, desired,
                 spawnErr, avail, hostBusy, scalerVars, opVars, sdpc>>

\* Limiter.Acquire: a host execution slot, or the deadline undoes it all.
AcquireHostSlot(r) ==
  /\ pc[r] = "limit"
  /\ \/ hostBusy < HostSlots /\ hostBusy' = hostBusy + 1 /\ Goto(r, "admit")
     \/ TimeoutFires /\ UNCHANGED hostBusy /\ Goto(r, "urel")
  /\ UNCHANGED <<regVars, genVars, poolVars, workerVars, avail, mQueued,
                 scalerVars, opVars, sdpc>>

\* The last deadline check; then Acquire returns the lease.
Admit(r) ==
  /\ pc[r] = "admit"
  /\ \/ LeaveQueues(r) /\ Goto(r, "run") /\ UNCHANGED hostBusy
     \/ /\ TimeoutFires
        /\ hostBusy' = hostBusy - 1
        /\ Goto(r, "urel")
        /\ UNCHANGED <<queued, mQueued>>
  /\ UNCHANGED <<regVars, genVars, closing, idle, busy, spawning, conc, dynMax,
                 desired, spawnErr, workerVars, avail, scalerVars, opVars, sdpc>>

----------------------------------------------------------------------------
(* Manager.Release, and the undo path of Acquire, share p.release.        *)

\* The invocation is over and the caller releases its lease.
Finish(r) ==
  /\ pc[r] = "run"
  /\ Goto(r, "rel")
  /\ UNCHANGED <<regVars, genVars, poolVars, workerVars, avail, mQueued,
                 hostBusy, scalerVars, opVars, sdpc>>

\* p.busy.Add(-1), before p.mu is taken.
ReleaseBusy(r) ==
  /\ pc[r] \in {"rel", "urel"}
  /\ busy' = Dec(busy, rgen[r])
  /\ Goto(r, IF pc[r] = "rel" THEN "park" ELSE "upark")
  /\ UNCHANGED <<regVars, genVars, closing, idle, queued, spawning, conc,
                 dynMax, desired, spawnErr, workerVars, avail, mQueued,
                 hostBusy, scalerVars, opVars, sdpc>>

\* Mutant of ReleaseTarget: the lease names the function, not the pool.
CurrentGeneration(r) == IF HasPool(rfn[r]) THEN pools[rfn[r]] ELSE rgen[r]

\* The pool a lease is released to: the one that handed it out (acq.pool).
ReleaseTarget(r) == rgen[r]

\* Mutant of MustKill: closing was read before p.mu was taken.
KillIgnoresRetired(g, w, reqErr) == reqErr \/ w \in wbad \/ Cardinality(idle[g]) >= PoolMax

\* When release does not put the worker back into p.idle.
MustKill(g, w, reqErr) ==
  reqErr \/ w \in wbad \/ closing[g] \/ Cardinality(idle[g]) >= PoolMax

\* Under p.mu: the worker goes back to the channel of the generation that
\* handed it out, or is killed (request error, unusable, retired, full).
ReleasePark(r) ==
  /\ pc[r] \in {"park", "upark"}
  /\ LET g == ReleaseTarget(r)
         w == rw[r] IN
     \E reqErr \in (IF pc[r] = "park" THEN BOOLEAN ELSE {FALSE}) :
       IF MustKill(g, w, reqErr)
       THEN KillWorkers({w}) /\ UNCHANGED idle
       ELSE idle' = [idle EXCEPT ![g] = @ \cup {w}] /\ UNCHANGED workerVars
  /\ pc' = [pc EXCEPT ![r] = IF pc[r] = "park" THEN "free" ELSE "ufree"]
  /\ rw' = [rw EXCEPT ![r] = NoWorker]
  /\ UNCHANGED <<rfn, rgen, rver, regVars, genVars, closing, busy, queued,
                 spawning, conc, dynMax, desired, spawnErr, avail, mQueued,
                 hostBusy, scalerVars, opVars, sdpc>>

\* releaseSlot, then the Limiter (Release) or the queues (undo path).
ReleaseSlots(r) ==
  /\ pc[r] \in {"free", "ufree"}
  /\ ReleaseSlot(rgen[r])
  /\ IF pc[r] = "free"
     THEN hostBusy' = hostBusy - 1 /\ UNCHANGED <<queued, mQueued>>
     ELSE LeaveQueues(r) /\ UNCHANGED hostBusy
  /\ Answered(r)
  /\ UNCHANGED <<regVars, genVars, closing, idle, busy, spawning, dynMax,
                 desired, spawnErr, workerVars, avail, scalerVars, opVars, sdpc>>

----------------------------------------------------------------------------
(* The scaler (autoscaler.go): one goroutine that evaluates every pool,   *)
(* and one goroutine per worker being spawned.                            *)

Published(g) == \E f \in Functions : pools[f] = g
Current(g) == busy[g] + spawning[g] + Cardinality(idle[g])
CeilDiv(a, b) == (a + b - 1) \div b

\* dynamicMax: the ceiling left by the pool's own limits, ...
OwnCeiling == IF MaxConcurrency = 0 THEN PoolMax ELSE Min2(PoolMax, MaxConcurrency)
\* ... and by the memory not yet promised.
Fits(g, promised) == AvailableForWorkers(promised) + Current(g)
DynamicMax(g, promised) == Min2(OwnCeiling, Fits(g, promised))

\* computeDesiredAt: demand stands for the terms computed from the measured
\* rates; the pressure term is (busy + queued) / 0.7.
Wanted(g, demand) ==
  LET pressure == CeilDiv(10 * (busy[g] + queued[g]), 7)
      minWarm == IF ScaleToZero THEN PoolMin ELSE Max2(PoolMin, 1) IN
  Max2(minWarm, Max2(demand, pressure))
Desired(g, demand, promised) == Min2(Wanted(g, demand), DynamicMax(g, promised))
MemoryLimited(g, demand) ==
  Wanted(g, demand) > DynamicMax(g, reserved) /\ Fits(g, reserved) < OwnCeiling

\* reclaimBorrowedIdle: the idle workers of the pool that has borrowed most.
Borrowed(d) ==
  LET protected == IF busy[d] > 0 \/ spawning[d] > 0
                   THEN Max2(PoolMin, desired[d]) ELSE PoolMin IN
  Min2(Current(d) - protected, Cardinality(idle[d]))
\* Mutant of Donors: only pools the scaler no longer wants anything in.
UnwantedDonors(g) == {d \in Gens : /\ Published(d) /\ d # g
                                   /\ ~closing[d] /\ queued[d] = 0
                                   /\ desired[d] = 0 /\ Borrowed(d) > 0}
Donors(g) == {d \in Gens : /\ Published(d) /\ d # g
                           /\ ~closing[d] /\ queued[d] = 0
                           /\ Borrowed(d) > 0}
Reclaimable(g) ==
  UNION {idle[d] : d \in {x \in Donors(g) :
                            \A y \in Donors(g) : Borrowed(y) <= Borrowed(x)}}
\* The victims: one worker, or none if there is no donor.
ReclaimChoices(g) ==
  IF Reclaimable(g) = {} THEN {{}} ELSE {{w} : w \in Reclaimable(g)}

\* Mutant of RemoveIdle: the victim is killed but left in the channel.
ForgetRemove(W) == UNCHANGED idle

RemoveIdle(W) == idle' = [g \in Gens |-> idle[g] \ W]

\* evaluateAll, on a tick or a nudge.
ScalerPass ==
  /\ spc = "idle"
  /\ sdpc \in {"up", "stopping"}
  /\ spass' = {g \in Gens : Published(g) /\ ~closing[g]}
  /\ spass' # {}
  /\ spc' = "pass"
  /\ UNCHANGED <<sgen, swant, regVars, genVars, poolVars, workerVars, avail,
                 mQueued, hostBusy, reqVars, opVars, sdpc>>

PassDone ==
  /\ spc = "pass" /\ spass = {}
  /\ spc' = "idle"
  /\ UNCHANGED <<spass, sgen, swant, regVars, genVars, poolVars, workerVars,
                 avail, mQueued, hostBusy, reqVars, opVars, sdpc>>

\* evaluate: publish the ceiling and the target, then scale up, scale down
\* (once the grace period is over) or leave the pool alone.
Evaluate(g) ==
  /\ spc = "pass" /\ g \in spass
  /\ spass' = spass \ {g}
  /\ \E demand \in 0..PoolMax :
       LET cur == Current(g)
           reclaims == /\ queued[g] > 0 /\ MemoryLimited(g, demand)
                       /\ Desired(g, demand, reserved) <= cur IN
       \E R \in (IF reclaims THEN ReclaimChoices(g) ELSE {{}}) :
         LET promised == Released(Cardinality(R))
             target == Desired(g, demand, promised) IN
         /\ RemoveIdle(R) /\ KillWorkers(R)
         /\ dynMax' = [dynMax EXCEPT ![g] = DynamicMax(g, promised)]
         /\ desired' = [desired EXCEPT ![g] = target]
         /\ \/ /\ target > cur
               /\ spc' = "spawn" /\ sgen' = g
               /\ swant' = Min2(MaxStep, target - cur)
            \/ /\ target <= cur
               /\ UNCHANGED <<spc, sgen, swant>>
            \/ /\ target < cur
               /\ spc' = "shrink" /\ sgen' = g
               /\ swant' = Min2(cur - target, Max2(1, CeilDiv(cur, 5)))
  /\ UNCHANGED <<regVars, genVars, closing, busy, queued, spawning, conc,
                 spawnErr, avail, mQueued, hostBusy, reqVars, opVars, sdpc>>

\* Mutant of NextIteration: the loop's bound is off by one.
OneMoreIteration(label, left) ==
  /\ spc' = IF left < 0 THEN "pass" ELSE label
  /\ swant' = left
  /\ UNCHANGED <<spass, sgen>>

\* The next iteration of scaleUp or scaleDown, or the end of its loop.
NextIteration(label, left) ==
  /\ spc' = IF left = 0 THEN "pass" ELSE label
  /\ sgen' = IF left = 0 THEN None ELSE sgen
  /\ swant' = left
  /\ UNCHANGED spass

\* The critical section of startSpawn.
StartSpawn ==
  /\ spc = "spawn"
  /\ LET g == sgen
         starters == {w \in Workers : wpc[w] \in {"starting", "ready"} /\ wgen[w] = g}
         refused == \/ closing[g]
                    \/ Current(g) >= Min2(dynMax[g], PoolMax)
                    \/ Cardinality(idle[g]) >= PoolMax
                    \/ Cardinality(starters) >= SpawnSlots IN
     \/ /\ refused /\ NextIteration("spawn", 0)
        /\ UNCHANGED <<spawning, spawnErr>>
     \/ /\ ~refused
        /\ spawning' = Inc(spawning, g)
        /\ spawnErr' = [spawnErr EXCEPT ![g] = FALSE]
        /\ spc' = "reserve" /\ UNCHANGED <<spass, sgen, swant>>
  /\ UNCHANGED <<regVars, genVars, closing, idle, busy, queued, conc, dynMax,
                 desired, workerVars, avail, mQueued, hostBusy, reqVars, opVars, sdpc>>

\* hostMem.reserve, reclaiming a borrowed worker if it fails; then the
\* spawning goroutine is launched, or the attempt is given up.
ReserveMemory ==
  /\ spc = "reserve"
  /\ \E R \in (IF AvailableForWorkers(reserved) >= 1 THEN {{}} ELSE ReclaimChoices(sgen)) :
       LET killedPc == [w \in Workers |-> IF w \in R THEN "dead" ELSE wpc[w]]
           killedGen == [w \in Workers |-> IF w \in R THEN None ELSE wgen[w]]
           left == Released(Cardinality(R)) IN
       /\ RemoveIdle(R)
       /\ wbad' = wbad \ R
       /\ \/ /\ AvailableForWorkers(left) >= 1
             /\ reserved' = left + 1
             /\ \E w \in Workers :
                  /\ killedPc[w] = "dead"
                  /\ wpc' = [killedPc EXCEPT ![w] = "starting"]
                  /\ wgen' = [killedGen EXCEPT ![w] = sgen]
             /\ NextIteration("spawn", swant - 1)
             /\ UNCHANGED spawning
          \/ /\ AvailableForWorkers(left) < 1
             /\ reserved' = left
             /\ wpc' = killedPc /\ wgen' = killedGen
             /\ spawning' = Dec(spawning, sgen)
             /\ NextIteration("spawn", 0)
  /\ UNCHANGED <<regVars, genVars, closing, busy, queued, conc, dynMax, desired,
                 spawnErr, avail, mQueued, hostBusy, reqVars, opVars, sdpc>>

\* One iteration of scaleDown.
Shrink ==
  /\ spc = "shrink"
  /\ \/ \E w \in idle[sgen] :
          /\ RemoveIdle({w}) /\ KillWorkers({w})
          /\ NextIteration("shrink", swant - 1)
     \/ /\ idle[sgen] = {}
        /\ NextIteration("shrink", 0)
        /\ UNCHANGED <<idle, workerVars>>
  /\ UNCHANGED <<regVars, genVars, closing, busy, queued, spawning, conc, dynMax,
                 desired, spawnErr, avail, mQueued, hostBusy, reqVars, opVars, sdpc>>

\* spawnFn returns: p.spawning no longer counts the worker, and p.idle does
\* not hold it yet ...
SpawnOk(w) ==
  /\ wpc[w] = "starting"
  /\ spawning' = Dec(spawning, wgen[w])
  /\ wpc' = [wpc EXCEPT ![w] = "ready"]
  /\ UNCHANGED <<wgen, wbad, reserved, regVars, genVars, closing, idle, busy,
                 queued, conc, dynMax, desired, spawnErr, avail, mQueued,
                 hostBusy, reqVars, scalerVars, opVars, sdpc>>

\* notifySpawnError.
SpawnError(g) == [spawnErr EXCEPT ![g] = TRUE]

\* Mutant of SpawnFail: the reservation is not released.
SpawnFailKeepsMemory(w) ==
  /\ "spawnfail" \in Events
  /\ wpc[w] = "starting"
  /\ spawning' = Dec(spawning, wgen[w])
  /\ wpc' = [wpc EXCEPT ![w] = "dead"]
  /\ wgen' = [wgen EXCEPT ![w] = None]
  /\ spawnErr' = SpawnError(wgen[w])
  /\ UNCHANGED <<regVars, genVars, closing, idle, busy, queued, conc, dynMax,
                 desired, wbad, reserved, avail, mQueued, hostBusy, reqVars,
                 scalerVars, opVars, sdpc>>

\* ... or it failed: the reservation is released and the waiters are told.
SpawnFail(w) ==
  /\ "spawnfail" \in Events
  /\ wpc[w] = "starting"
  /\ spawning' = Dec(spawning, wgen[w])
  /\ KillWorkers({w})
  /\ spawnErr' = SpawnError(wgen[w])
  /\ UNCHANGED <<regVars, genVars, closing, idle, busy, queued, conc, dynMax,
                 desired, avail, mQueued, hostBusy, reqVars, scalerVars, opVars, sdpc>>

\* Mutant of CanPark: the spawning goroutine does not re-check closing.
HasRoom(g) == Cardinality(idle[g]) < PoolMax

CanPark(g) == ~closing[g] /\ Cardinality(idle[g]) < PoolMax

\* The new worker is parked under p.mu unless its generation was retired.
Park(w) ==
  /\ wpc[w] = "ready"
  /\ LET g == wgen[w] IN
     /\ spawnErr' = [spawnErr EXCEPT ![g] = FALSE]
     /\ IF CanPark(g)
        THEN /\ idle' = [idle EXCEPT ![g] = @ \cup {w}]
             /\ wpc' = [wpc EXCEPT ![w] = "live"]
             /\ UNCHANGED <<wgen, wbad, reserved>>
        ELSE KillWorkers({w}) /\ UNCHANGED idle
  /\ UNCHANGED <<regVars, genVars, closing, busy, queued, spawning, conc, dynMax,
                 desired, avail, mQueued, hostBusy, reqVars, scalerVars, opVars, sdpc>>

\* reap and sweep: the unusable idle workers of an open generation die.
Sweep(g) ==
  /\ sdpc \in {"up", "stopping"}
  /\ ~closing[g] /\ idle[g] \cap wbad # {}
  /\ idle' = [idle EXCEPT ![g] = @ \ wbad]
  /\ KillWorkers(idle[g] \cap wbad)
  /\ UNCHANGED <<regVars, genVars, closing, busy, queued, spawning, conc, dynMax,
                 desired, spawnErr, avail, mQueued, hostBusy, reqVars,
                 scalerVars, opVars, sdpc>>

\* A worker process exits by itself, or has served maxUses requests.
WorkerExits(w) ==
  /\ "exit" \in Events
  /\ wpc[w] = "live" /\ w \notin wbad
  /\ wbad' = wbad \cup {w}
  /\ UNCHANGED <<wpc, wgen, reserved, regVars, genVars, poolVars, avail, mQueued,
                 hostBusy, reqVars, scalerVars, opVars, sdpc>>

----------------------------------------------------------------------------
(* Manager.Shutdown.                                                      *)

BeginShutdown ==
  /\ "shutdown" \in Events
  /\ sdpc = "up" /\ sdpc' = "stopping"
  /\ UNCHANGED <<regVars, genVars, poolVars, workerVars, avail, mQueued,
                 hostBusy, reqVars, scalerVars, opVars>>

\* scaler.run sees the closed stop channel in its select ...
ScalerExits ==
  /\ sdpc = "stopping" /\ spc = "idle"
  /\ spc' = "stopped"
  /\ UNCHANGED <<spass, sgen, swant, regVars, genVars, poolVars, workerVars,
                 avail, mQueued, hostBusy, reqVars, opVars, sdpc>>

\* Mutants of SpawnersDone: Shutdown does not wait for spawnWG, or waits for
\* the workers that were spawned too.
NoWait == TRUE
WorkersGone == \A w \in Workers : wpc[w] = "dead"

SpawnersDone == \A w \in Workers : wpc[w] \notin {"starting", "ready"}

\* ... and Shutdown goes on once spawnWG is at zero too.
ScalerStopped ==
  /\ sdpc = "stopping" /\ spc = "stopped"
  /\ SpawnersDone
  /\ sdpc' = "draining"
  /\ UNCHANGED <<regVars, genVars, poolVars, workerVars, avail, mQueued,
                 hostBusy, reqVars, scalerVars, opVars>>

\* functionPool.drain marks each published generation retired ...
ShutdownRetire(f) ==
  /\ sdpc = "draining"
  /\ pools[f] # None /\ ~closing[pools[f]]
  /\ closing' = [closing EXCEPT ![pools[f]] = TRUE]
  /\ UNCHANGED <<regVars, genVars, idle, busy, queued, spawning, conc, dynMax,
                 desired, spawnErr, workerVars, avail, mQueued, hostBusy,
                 reqVars, scalerVars, opVars, sdpc>>

\* ... and quits its idle workers, which keeps their reservations.
ShutdownQuit(f) ==
  /\ sdpc = "draining"
  /\ pools[f] # None /\ closing[pools[f]]
  /\ \E w \in idle[pools[f]] :
       /\ RemoveIdle({w})
       /\ wpc' = [wpc EXCEPT ![w] = "dead"]
       /\ wgen' = [wgen EXCEPT ![w] = None]
       /\ wbad' = wbad \ {w}
  /\ UNCHANGED <<regVars, genVars, closing, busy, queued, spawning, conc, dynMax,
                 desired, spawnErr, reserved, avail, mQueued, hostBusy,
                 reqVars, scalerVars, opVars, sdpc>>

ShutdownDone ==
  /\ sdpc = "draining"
  /\ \A f \in Functions :
       pools[f] # None => closing[pools[f]] /\ idle[pools[f]] = {}
  /\ sdpc' = "down"
  /\ UNCHANGED <<regVars, genVars, poolVars, workerVars, avail, mQueued,
                 hostBusy, reqVars, scalerVars, opVars>>

----------------------------------------------------------------------------
(* The specification.                                                     *)

\* dynamicMax is seeded from the host's capacity when a pool is created.
InitialMax == Max2(1, Min2(PoolMax, MemBudget))

Init ==
  /\ regVer = [f \in Functions |-> 1]
  /\ present = [f \in Functions |-> TRUE]
  /\ refreshed = [f \in Functions |-> 0]
  /\ pools = [f \in Functions |-> None]
  /\ genCount = 0
  /\ genFn = [g \in Gens |-> NoFn]
  /\ genVer = [g \in Gens |-> 0]
  /\ closing = [g \in Gens |-> FALSE]
  /\ idle = [g \in Gens |-> {}]
  /\ busy = [g \in Gens |-> 0]
  /\ queued = [g \in Gens |-> 0]
  /\ spawning = [g \in Gens |-> 0]
  /\ conc = [g \in Gens |-> 0]
  /\ dynMax = [g \in Gens |-> InitialMax]
  /\ desired = [g \in Gens |-> 0]
  /\ spawnErr = [g \in Gens |-> FALSE]
  /\ wpc = [w \in Workers |-> "dead"]
  /\ wgen = [w \in Workers |-> None]
  /\ wbad = {}
  /\ reserved = 0
  /\ avail \in AvailReadings
  /\ mQueued = 0
  /\ hostBusy = 0
  /\ pc = [r \in Requests |-> "new"]
  /\ rfn = [r \in Requests |-> NoFn]
  /\ rgen = [r \in Requests |-> None]
  /\ rw = [r \in Requests |-> NoWorker]
  /\ rver = [r \in Requests |-> 0]
  /\ spc = "idle" /\ spass = {} /\ sgen = None /\ swant = 0
  /\ opc = [o \in Operators |-> "idle"]
  /\ ofn = [o \in Operators |-> NoFn]
  /\ over = [o \in Operators |-> 0]
  /\ ogen = [o \in Operators |-> None]
  /\ ops = 0
  /\ sdpc = "up"

OperatorStep(o) == RetirePool(o) \/ DrainOne(o) \/ DrainDone(o)
RequestStep(r) ==
  \/ GetOrCreatePool(r) \/ ReserveGlobalQueue(r) \/ ReservePoolQueue(r)
  \/ AcquireSlot(r) \/ PopIdle(r) \/ CheckWorker(r)
  \/ AcquireHostSlot(r) \/ Admit(r)
  \/ Finish(r) \/ ReleaseBusy(r) \/ ReleasePark(r) \/ ReleaseSlots(r)
WaitEnds(r) == SlotTimeout(r) \/ AcquireFails(r)
ScalerStep ==
  \/ ScalerPass \/ PassDone \/ (\E g \in Gens : Evaluate(g))
  \/ StartSpawn \/ ReserveMemory \/ Shrink
SpawnStep(w) == SpawnOk(w) \/ SpawnFail(w) \/ Park(w)
ShutdownStep ==
  \/ ScalerExits \/ ScalerStopped \/ ShutdownDone
  \/ \E f \in Functions : ShutdownRetire(f) \/ ShutdownQuit(f)

Next ==
  \/ RefreshAvail
  \/ \E o \in Operators : OperatorStep(o)
  \/ \E o \in Operators, f \in Functions, deletes \in BOOLEAN : ChangeFunction(o, f, deletes)
  \/ \E f \in Functions : Prewarm(f)
  \/ \E r \in Requests, f \in Functions : Arrive(r, f)
  \/ \E r \in Requests : RequestStep(r) \/ WaitEnds(r)
  \/ ScalerStep
  \/ \E w \in Workers : SpawnStep(w) \/ WorkerExits(w)
  \/ \E g \in Gens : Sweep(g)
  \/ BeginShutdown
  \/ ShutdownStep

\* Every goroutine that can run is eventually scheduled.  A channel serves
\* its blocked senders and receivers in arrival order, so a request that
\* waits for a slot or a worker cannot be overtaken for ever (SF); the
\* select of scaler.run and of waitForIdle picks at random among the ready
\* cases, so neither can ignore a closed channel for ever (SF).
Fairness ==
  /\ \A o \in Operators : WF_vars(OperatorStep(o))
  /\ \A r \in Requests : /\ WF_vars(RequestStep(r))
                         /\ SF_vars(AcquireSlot(r)) /\ SF_vars(PopIdle(r))
                         /\ SF_vars(AcquireHostSlot(r)) /\ SF_vars(WaitEnds(r))
  /\ WF_vars(ScalerStep)
  /\ \A w \in Workers : WF_vars(SpawnStep(w))
  /\ SF_vars(ScalerExits) /\ WF_vars(ShutdownStep)

Spec == Init /\ [][Next]_vars
FairSpec == Spec /\ Fairness

----------------------------------------------------------------------------
(* Properties.                                                            *)

\* The types of each group of variables.  The variables a goroutine uses are
\* set at the program counters that use them: no nil pointer is dereferenced.
RegTypes ==
  /\ regVer \in [Functions -> Nat] /\ present \in [Functions -> BOOLEAN]
  /\ refreshed \in [Functions -> Nat]
GenTypes ==
  /\ pools \in [Functions -> Gens \cup {None}] /\ genCount \in Gens \cup {0}
  /\ genFn \in [Gens -> Functions \cup {NoFn}] /\ genVer \in [Gens -> Nat]
PoolTypes ==
  /\ closing \in [Gens -> BOOLEAN] /\ idle \in [Gens -> SUBSET Workers]
  /\ busy \in [Gens -> Int] /\ queued \in [Gens -> Int]
  /\ spawning \in [Gens -> Int] /\ conc \in [Gens -> Nat]
  /\ dynMax \in [Gens -> Int] /\ desired \in [Gens -> Int]
  /\ spawnErr \in [Gens -> BOOLEAN]
WorkerTypes ==
  /\ wpc \in [Workers -> LiveStates \cup {"dead"}]
  /\ wgen \in [Workers -> Gens \cup {None}] /\ wbad \subseteq Workers
  /\ reserved \in Nat
  /\ \A w \in Workers : wpc[w] # "dead" => wgen[w] \in Gens
HostTypes ==
  /\ avail \in Nat /\ mQueued \in Int /\ hostBusy \in Int
  /\ sdpc \in {"up", "stopping", "draining", "down"}
ReqTypes ==
  /\ pc \in [Requests -> RequestPCs] /\ rfn \in [Requests -> Functions \cup {NoFn}]
  /\ rgen \in [Requests -> Gens \cup {None}]
  /\ rw \in [Requests -> Workers \cup {NoWorker}] /\ rver \in [Requests -> Nat]
  /\ \A r \in Requests :
       /\ pc[r] # "new" => rfn[r] \in Functions
       /\ pc[r] \notin {"new", "pool"} => rgen[r] \in Gens
       /\ pc[r] \in HoldsWorker <=> rw[r] \in Workers
ScalerTypes ==
  /\ spc \in {"idle", "pass", "spawn", "reserve", "shrink", "stopped"}
  /\ spass \subseteq Gens /\ sgen \in Gens \cup {None} /\ swant \in Nat
  /\ spc \in {"spawn", "reserve", "shrink"} => swant > 0 /\ sgen \in Gens
OpTypes ==
  /\ opc \in [Operators -> {"idle", "retire", "drain"}]
  /\ ofn \in [Operators -> Functions \cup {NoFn}] /\ over \in [Operators -> Nat]
  /\ ogen \in [Operators -> Gens \cup {None}] /\ ops \in Nat
  /\ \A o \in Operators : opc[o] # "idle" => ofn[o] \in Functions

\* Every variable stays within its type.
TypeOK == RegTypes /\ GenTypes /\ PoolTypes /\ WorkerTypes /\ HostTypes
          /\ ReqTypes /\ ScalerTypes /\ OpTypes

\* Each admission counter is exactly the number of goroutines that have
\* taken it and not given it back, on every success, retry, timeout and
\* error path of Acquire and Release, whatever generation they end up on.
CountersBalanced ==
  /\ \A g \in Gens :
       /\ queued[g] = Cardinality(InGen(g, HoldsPoolQueue))
       /\ busy[g] = Cardinality(InGen(g, CountedBusy))
       /\ MaxConcurrency > 0 => conc[g] = Cardinality(InGen(g, HoldsSlot))
       /\ spawning[g] = Cardinality({w \in Workers : wpc[w] = "starting" /\ wgen[w] = g})
                        + (IF spc = "reserve" /\ sgen = g THEN 1 ELSE 0)
  /\ mQueued = Cardinality({r \in Requests : pc[r] \in HoldsGlobalQueue})
  /\ hostBusy = Cardinality({r \in Requests : pc[r] \in HoldsHostSlot})

\* The memory reservation is the number of worker processes, and never more
\* than the budget, until the shutdown's drain (which does not release).
ReservationBalanced ==
  /\ sdpc \in {"up", "stopping"} => reserved = Cardinality(LiveWorkers)
  /\ Cardinality(LiveWorkers) <= reserved /\ reserved <= MemBudget

\* Where a parked or leased worker can be.
Holders(w) == {r \in Requests : rw[r] = w}
Parked(w) == {g \in Gens : w \in idle[g]}

\* Every running worker is in exactly one place, the idle channel or one
\* lease of the generation that spawned it, so it is never handed out twice,
\* never crosses generations and is never leaked; a dead one is nowhere.
WorkerExclusive ==
  \A w \in Workers :
    IF wpc[w] = "live"
    THEN \/ /\ Parked(w) = {wgen[w]} /\ Holders(w) = {}
         \/ /\ Parked(w) = {}
            /\ \E r \in Requests : Holders(w) = {r} /\ rgen[r] = wgen[w]
    ELSE Parked(w) = {} /\ Holders(w) = {}

\* The pool's books are right: what is admitted, what memory is reserved and
\* who has each worker agree with the goroutines and processes that are there.
PoolSafe == CountersBalanced /\ ReservationBalanced /\ WorkerExclusive

\* A request that arrives after a deploy, a settings change or a secret
\* change has returned is never served by a worker of an older generation,
\* nor by a worker of another function.
FreshLease ==
  \A r \in Requests : pc[r] \in HoldsWorker =>
    /\ genVer[rgen[r]] >= rver[r]
    /\ genFn[rgen[r]] = rfn[r]

\* Once a generation's retirement has been drained its idle channel stays
\* empty: a release or a spawn that lost the race cannot park a worker there.
RetiredDrained ==
  \A g \in Gens :
    closing[g] /\ sdpc # "draining" /\ (\A o \in Operators : ogen[o] # g) => idle[g] = {}

\* A retired generation is never reopened nor given a worker.
RetiredOnlyShrinks ==
  [][\A g \in Gens : closing[g] => closing'[g] /\ idle'[g] \subseteq idle[g]]_vars

\* After the scaler has been stopped no worker process is started, and after
\* Shutdown returns only leased workers, or those a concurrent retirement is
\* still draining, are alive; and although the drain does not give memory
\* back, no more is ever in use than is reserved.
ShutdownClean ==
  /\ Cardinality(LiveWorkers) <= reserved
  /\ sdpc = "down" =>
       \A w \in LiveWorkers :
         Holders(w) # {} \/ \E o \in Operators : ogen[o] # None /\ w \in idle[ogen[o]]
  /\ sdpc \in {"draining", "down"} =>
       \A w \in LiveWorkers : wpc[w] = "live"

\* Every invocation is answered: no request waits for ever.
EveryRequestAnswered == \A r \in Requests : pc[r] = "pool" ~> pc[r] = "new"

\* A deploy or a settings change always finishes retiring the pool.
RetirementCompletes == \A o \in Operators : opc[o] = "retire" ~> opc[o] = "idle"

\* Shutdown returns, and every worker process is eventually gone.
ShutdownCompletes == sdpc = "stopping" ~> (sdpc = "down" /\ LiveWorkers = {})

\* What is under way ends, also while the daemon is shut down: invocations
\* (Acquire), retirements (retirePool) and the shutdown itself.
PoolFinishes == EveryRequestAnswered /\ RetirementCompletes /\ ShutdownCompletes

\* Strengthening of RetiredDrained: who still has to empty a closed channel.
DrainPending ==
  \A g \in Gens : closing[g] /\ idle[g] # {} =>
    \/ \E o \in Operators : opc[o] = "drain" /\ ogen[o] = g
    \/ sdpc = "draining" /\ \E f \in Functions : pools[f] = g

\* Strengthening of FreshLease: versions along the life of a change, of a
\* published generation and of a request.
VersionOrder ==
  /\ \A f \in Functions :
       /\ refreshed[f] <= regVer[f]
       /\ pools[f] # None => /\ pools[f] <= genCount
                             /\ genFn[pools[f]] = f
                             /\ refreshed[f] <= genVer[pools[f]]
  /\ \A o \in Operators : opc[o] # "idle" =>
       /\ over[o] <= regVer[ofn[o]]
       /\ opc[o] = "drain" /\ pools[ofn[o]] # None => over[o] <= genVer[pools[ofn[o]]]
  /\ \A r \in Requests : pc[r] # "new" =>
       /\ rver[r] <= refreshed[rfn[r]]
       /\ pc[r] # "pool" => /\ rgen[r] <= genCount
                            /\ genFn[rgen[r]] = rfn[r]
                            /\ rver[r] <= genVer[rgen[r]]

\* What pool.go says of the idle channel's size: the scaler cannot admit more
\* workers to a pool than the channel can park.
NeverMoreThanParkable ==
  \A g \in Gens : Cardinality({w \in LiveWorkers : wgen[w] = g}) <= PoolMax
=============================================================================

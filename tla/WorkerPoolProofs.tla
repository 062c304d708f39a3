-------------------------- MODULE WorkerPoolProofs --------------------------
(***************************************************************************)
(* Theorems about WorkerPool, for every number of functions, requests,     *)
(* operators and workers and every value of the limits.                    *)
(***************************************************************************)
EXTENDS WorkerPool, FiniteSetTheorems, TLAPS

----------------------------------------------------------------------------
(* Facts about the operators the model is built from.                     *)

LEMMA Min2Int == \A a, b \in Int : Min2(a, b) \in Int
  BY DEF Min2

LEMMA Max2Nat == \A a, b \in Int : Max2(a, b) \in Int /\ (a \in Nat => Max2(a, b) \in Nat)
  BY DEF Max2

LEMMA GensNat == Gens \subseteq Nat \ {0} /\ None \notin Gens
  BY DEF Gens, None

\* A set of workers is finite, so its size is a number.
LEMMA WorkerSets == \A W : W \subseteq Workers => IsFiniteSet(W) /\ Cardinality(W) \in Nat
  BY PoolAssumption, FS_Subset, FS_CardinalityType DEF PoolAssumption

LEMMA ReleasedNat == TypeOK => \A W \in SUBSET Workers : Released(Cardinality(W)) \in Nat
  BY WorkerSets DEF TypeOK, WorkerTypes, Released, Max2

\* Killing workers keeps the worker variables within their types.
LEMMA KillTypes ==
  ASSUME TypeOK, NEW W, W \subseteq Workers, KillWorkers(W)
  PROVE  /\ wpc' \in [Workers -> LiveStates \cup {"dead"}]
         /\ wgen' \in [Workers -> Gens \cup {None}]
         /\ wbad' \subseteq Workers
         /\ reserved' \in Nat
         /\ \A w \in Workers : wpc'[w] # "dead" => wpc'[w] = wpc[w] /\ wgen'[w] = wgen[w]
  <1>1. reserved' \in Nat
    BY ReleasedNat DEF KillWorkers
  <1> QED
    BY <1>1 DEF TypeOK, WorkerTypes, KillWorkers

\* Counting up and down keeps the types of a pool's counters.
CountersTyped(g) ==
  /\ Inc(busy, g) \in [Gens -> Int] /\ Dec(busy, g) \in [Gens -> Int]
  /\ Inc(queued, g) \in [Gens -> Int] /\ Dec(queued, g) \in [Gens -> Int]
  /\ Inc(spawning, g) \in [Gens -> Int] /\ Dec(spawning, g) \in [Gens -> Int]
  /\ Inc(conc, g) \in [Gens -> Nat]

LEMMA CounterTypes == TypeOK => \A g \in Gens : CountersTyped(g)
  BY DEF TypeOK, PoolTypes, Inc, Dec, CountersTyped

\* releaseSlot keeps the type of the semaphores.
LEMMA SlotTypes ==
  ASSUME TypeOK, NEW g \in Gens, ReleaseSlot(g)
  PROVE  conc' \in [Gens -> Nat]
  BY DEF TypeOK, PoolTypes, ReleaseSlot, Dec

\* A pool's worker count and its ceiling are integers.
LEMMA CurrentInt == TypeOK => \A g \in Gens : Current(g) \in Int
  BY WorkerSets DEF TypeOK, PoolTypes, Current

LEMMA DynamicMaxInt ==
  TypeOK => \A g \in Gens : \A n \in Int : DynamicMax(g, n) \in Int
  <1> SUFFICES ASSUME TypeOK, NEW g \in Gens, NEW n \in Int PROVE DynamicMax(g, n) \in Int
    OBVIOUS
  <1>1. AvailableForWorkers(n) \in Int
    BY Min2Int, Max2Nat, PoolAssumption DEF AvailableForWorkers, TypeOK, HostTypes, PoolAssumption
  <1>2. OwnCeiling \in Int
    BY Min2Int, PoolAssumption DEF OwnCeiling, PoolAssumption
  <1> QED
    BY <1>1, <1>2, CurrentInt, Min2Int DEF DynamicMax, Fits

LEMMA DesiredInt ==
  TypeOK => \A g \in Gens : \A d, n \in Int : Desired(g, d, n) \in Int
  <1> SUFFICES ASSUME TypeOK, NEW g \in Gens, NEW d \in Int, NEW n \in Int
               PROVE  Desired(g, d, n) \in Int
    OBVIOUS
  <1>1. CeilDiv(10 * (busy[g] + queued[g]), 7) \in Int
    BY DEF CeilDiv, TypeOK, PoolTypes
  <1>2. PoolMin \in Int
    BY PoolAssumption DEF PoolAssumption
  <1>3. Wanted(g, d) \in Int
    BY <1>1, <1>2 DEF Wanted, Max2
  <1> QED
    BY <1>3, DynamicMaxInt, Min2Int DEF Desired

\* The workers the scaler may take back are workers.
LEMMA ReclaimTypes ==
  TypeOK => \A g : \A R \in ReclaimChoices(g) : R \subseteq Workers
  BY DEF TypeOK, PoolTypes, ReclaimChoices, Reclaimable, Donors

----------------------------------------------------------------------------
(* Type correctness.                                                      *)

LEMMA InitTypeOK == Init => TypeOK
  <1> SUFFICES ASSUME Init PROVE TypeOK
    OBVIOUS
  <1>1. InitialMax \in Int
    BY PoolAssumption DEF InitialMax, Max2, Min2, PoolAssumption
  <1>2. avail \in Nat
    BY PoolAssumption DEF Init, PoolAssumption
  <1> QED
    BY <1>1, <1>2, GensNat, PoolAssumption DEF Init, TypeOK, RegTypes, GenTypes, PoolTypes, WorkerTypes,
       HostTypes, ReqTypes, ScalerTypes, OpTypes, PoolAssumption, HoldsWorker, LiveStates, RequestPCs, HoldsGlobalQueue, HoldsSlot

\* Deploys and other changes, prewarming and the memory poller.
LEMMA OperatorTypes ==
  ASSUME TypeOK,
         \/ RefreshAvail
         \/ \E o \in Operators : OperatorStep(o)
         \/ \E o \in Operators, f \in Functions, deletes \in BOOLEAN : ChangeFunction(o, f, deletes)
         \/ \E f \in Functions : Prewarm(f)
  PROVE  TypeOK'
  <1> USE GensNat DEF regVars, genVars, poolVars, workerVars, reqVars, scalerVars, opVars
  <1>1. CASE RefreshAvail
    <2>1. HostTypes'
      BY <1>1, PoolAssumption DEF RefreshAvail, TypeOK, HostTypes, PoolAssumption
    <2> QED
      BY <1>1, <2>1 DEF RefreshAvail, TypeOK, RegTypes, GenTypes, PoolTypes, WorkerTypes, ReqTypes, ScalerTypes, OpTypes
  <1>2. ASSUME NEW o \in Operators, RetirePool(o) PROVE TypeOK'
    <2>1. GenTypes'
      BY <1>2 DEF RetirePool, TypeOK, GenTypes, OpTypes
    <2>2. PoolTypes'
      BY <1>2 DEF RetirePool, TypeOK, PoolTypes, OpTypes
    <2>3. OpTypes'
      BY <1>2 DEF RetirePool, TypeOK, OpTypes, GenTypes
    <2> QED
      BY <1>2, <2>1, <2>2, <2>3 DEF RetirePool, TypeOK, RegTypes, WorkerTypes, HostTypes, ReqTypes, ScalerTypes
  <1>3. ASSUME NEW o \in Operators, DrainOne(o) PROVE TypeOK'
    <2>1. PICK w \in Workers : KillWorkers({w})
      BY <1>3 DEF DrainOne, DrainFrom, TypeOK, OpTypes, PoolTypes
    <2>2. PoolTypes'
      BY <1>3, ZenonT(60) DEF DrainOne, DrainFrom, TypeOK, PoolTypes, OpTypes
    <2>3. WorkerTypes'
      BY <1>3, <2>1, KillTypes DEF DrainOne, DrainFrom, TypeOK, WorkerTypes
    <2> QED
      BY <1>3, <2>2, <2>3 DEF DrainOne, DrainFrom, TypeOK, RegTypes, GenTypes, HostTypes, ReqTypes, ScalerTypes, OpTypes
  <1>4. ASSUME NEW o \in Operators, DrainDone(o) PROVE TypeOK'
    <2>1. Max2(refreshed[ofn[o]], over[o]) \in Nat
      BY <1>4 DEF DrainDone, Max2, TypeOK, RegTypes, OpTypes
    <2>2. RegTypes'
      BY <1>4, <2>1 DEF DrainDone, TypeOK, RegTypes, OpTypes
    <2>3. OpTypes'
      BY <1>4 DEF DrainDone, TypeOK, OpTypes
    <2> QED
      BY <1>4, <2>2, <2>3 DEF DrainDone, TypeOK, GenTypes, PoolTypes, WorkerTypes, HostTypes, ReqTypes, ScalerTypes
  <1>5. ASSUME NEW o \in Operators, NEW f \in Functions, NEW deletes \in BOOLEAN,
               ChangeFunction(o, f, deletes)
        PROVE TypeOK'
    <2>1. RegTypes'
      BY <1>5 DEF ChangeFunction, TypeOK, RegTypes
    <2>2. OpTypes'
      BY <1>5 DEF ChangeFunction, TypeOK, OpTypes, RegTypes
    <2> QED
      BY <1>5, <2>1, <2>2 DEF ChangeFunction, TypeOK, GenTypes, PoolTypes, WorkerTypes, HostTypes, ReqTypes, ScalerTypes
  <1>6. ASSUME NEW f \in Functions, Prewarm(f) PROVE TypeOK'
    <2>1. GenTypes'
      BY <1>6 DEF Prewarm, CreatePool, TypeOK, GenTypes, RegTypes
    <2> QED
      BY <1>6, <2>1 DEF Prewarm, CreatePool, TypeOK, RegTypes, PoolTypes, WorkerTypes, HostTypes, ReqTypes, ScalerTypes, OpTypes
  <1> QED
    BY <1>1, <1>2, <1>3, <1>4, <1>5, <1>6 DEF OperatorStep

\* The request path.
LEMMA RequestTypes ==
  ASSUME TypeOK,
         NEW r \in Requests,
         (\E f \in Functions : Arrive(r, f)) \/ RequestStep(r) \/ WaitEnds(r)
  PROVE  TypeOK'
  <1> USE GensNat DEF regVars, genVars, poolVars, workerVars, reqVars, scalerVars, opVars
  <1>1. ASSUME NEW f \in Functions, Arrive(r, f) PROVE TypeOK'
    <2>1. ReqTypes'
      BY <1>1 DEF Arrive, TypeOK, ReqTypes, RegTypes, RequestPCs, HoldsGlobalQueue, HoldsSlot, HoldsWorker
    <2> QED
      BY <1>1, <2>1 DEF Arrive, TypeOK, RegTypes, GenTypes, PoolTypes, WorkerTypes, HostTypes, ScalerTypes, OpTypes
  <1>2. CASE GetOrCreatePool(r)
    <2>1. \A g \in Gens : Inc(queued, g) \in [Gens -> Int]
      BY CounterTypes DEF CountersTyped
    <2>2. queued' = queued \/ \E g \in Gens : queued' = Inc(queued, g)
      <3>1. HasPool(rfn[r]) => pools[rfn[r]] \in Gens
        BY <1>2 DEF GetOrCreatePool, HasPool, TypeOK, GenTypes, ReqTypes
      <3> QED
        BY <1>2, <3>1 DEF GetOrCreatePool, CreatePool
    <2>3. GenTypes'
      BY <1>2 DEF GetOrCreatePool, CreatePool, HasPool, TypeOK, GenTypes, RegTypes, ReqTypes
    <2>4. PoolTypes'
      BY <1>2, <2>1, <2>2 DEF GetOrCreatePool, CreatePool, HasPool, TypeOK, PoolTypes
    <2>5. HostTypes'
      BY <1>2 DEF GetOrCreatePool, CreatePool, HasPool, TypeOK, HostTypes
    <2>6. ReqTypes'
      BY <1>2 DEF GetOrCreatePool, CreatePool, HasPool, TypeOK, ReqTypes, GenTypes, Answered, RequestPCs, HoldsGlobalQueue, HoldsSlot, HoldsWorker
    <2> QED
      BY <1>2, <2>3, <2>4, <2>5, <2>6 DEF GetOrCreatePool, CreatePool, HasPool, TypeOK, RegTypes, WorkerTypes, ScalerTypes, OpTypes
  <1>3. CASE ReserveGlobalQueue(r)
    <2>1. HostTypes'
      BY <1>3 DEF ReserveGlobalQueue, TypeOK, HostTypes
    <2>2. ReqTypes'
      BY <1>3 DEF ReserveGlobalQueue, TypeOK, ReqTypes, Answered, Goto, RequestPCs, HoldsGlobalQueue, HoldsSlot, HoldsWorker
    <2> QED
      BY <1>3, <2>1, <2>2 DEF ReserveGlobalQueue, TypeOK, RegTypes, GenTypes, PoolTypes, WorkerTypes, ScalerTypes, OpTypes
  <1>4. CASE ReservePoolQueue(r)
    <2>1. rgen[r] \in Gens /\ rfn[r] \in Functions
      BY <1>4 DEF ReservePoolQueue, TypeOK, ReqTypes
    <2>2. CountersTyped(rgen[r])
      BY <2>1, CounterTypes
    <2>3. PoolTypes'
      BY <1>4, <2>1, <2>2 DEF ReservePoolQueue, TypeOK, PoolTypes, CountersTyped
    <2>4. HostTypes'
      BY <1>4, <2>1 DEF ReservePoolQueue, TypeOK, HostTypes
    <2>5. ReqTypes'
      BY <1>4, <2>1 DEF ReservePoolQueue, TypeOK, ReqTypes, Answered, Goto, RequestPCs, HoldsGlobalQueue, HoldsSlot, HoldsWorker
    <2> QED
      BY <1>4, <2>3, <2>4, <2>5 DEF ReservePoolQueue, TypeOK, RegTypes, GenTypes, WorkerTypes, ScalerTypes, OpTypes
  <1>5. CASE AcquireSlot(r)
    <2>1. rgen[r] \in Gens /\ rfn[r] \in Functions
      BY <1>5 DEF AcquireSlot, TypeOK, ReqTypes
    <2>2. CountersTyped(rgen[r])
      BY <2>1, CounterTypes
    <2>3. PoolTypes'
      BY <1>5, <2>1, <2>2 DEF AcquireSlot, TypeOK, PoolTypes, RetryOnReplacement, LeaveQueues, CountersTyped
    <2>4. HostTypes'
      BY <1>5, <2>1 DEF AcquireSlot, TypeOK, HostTypes, RetryOnReplacement, LeaveQueues
    <2>5. ReqTypes'
      BY <1>5, <2>1 DEF AcquireSlot, TypeOK, ReqTypes, Answered, Goto, RetryOnReplacement, RequestPCs, HoldsGlobalQueue, HoldsSlot, HoldsWorker
    <2> QED
      BY <1>5, <2>3, <2>4, <2>5 DEF AcquireSlot, TypeOK, RegTypes, GenTypes, WorkerTypes, ScalerTypes, OpTypes
  <1>6. CASE PopIdle(r)
    <2>1. rgen[r] \in Gens /\ rfn[r] \in Functions
      BY <1>6 DEF PopIdle, TypeOK, ReqTypes
    <2>2. PICK w \in Workers : /\ idle' = [idle EXCEPT ![rgen[r]] = @ \ {w}]
                              /\ rw' = [rw EXCEPT ![r] = w]
      BY <1>6, <2>1 DEF PopIdle, TypeOK, PoolTypes
    <2>3. PoolTypes'
      BY <1>6, <2>1, <2>2 DEF PopIdle, TypeOK, PoolTypes
    <2>4. ReqTypes'
      BY <1>6, <2>1, <2>2, PoolAssumption DEF PopIdle, TypeOK, ReqTypes, PoolAssumption, RequestPCs, HoldsGlobalQueue, HoldsSlot, HoldsWorker
    <2> QED
      BY <1>6, <2>3, <2>4 DEF PopIdle, TypeOK, RegTypes, GenTypes, WorkerTypes, HostTypes, ScalerTypes, OpTypes
  <1>7. CASE CheckWorker(r)
    <2>1. rgen[r] \in Gens /\ rfn[r] \in Functions
      BY <1>7 DEF CheckWorker, TypeOK, ReqTypes
    <2>2. CountersTyped(rgen[r])
      BY <2>1, CounterTypes
    <2>3. ReleaseSlot(rgen[r]) => conc' \in [Gens -> Nat]
      BY <2>1, SlotTypes
    <2>4. PoolTypes'
      BY <1>7, <2>1, <2>3, <2>2 DEF CheckWorker, TypeOK, PoolTypes, RetryOnReplacement, CountersTyped
    <2>5. WorkerTypes'
      BY <1>7, <2>1, KillTypes DEF CheckWorker, TypeOK, WorkerTypes, ReqTypes, RequestPCs, HoldsGlobalQueue, HoldsSlot, HoldsWorker
    <2>6. HostTypes'
      BY <1>7, <2>1 DEF CheckWorker, TypeOK, HostTypes, RetryOnReplacement
    <2>7. ReqTypes'
      BY <1>7, <2>1, PoolAssumption DEF CheckWorker, TypeOK, ReqTypes, Goto, RetryOnReplacement, PoolAssumption, RequestPCs, HoldsGlobalQueue, HoldsSlot, HoldsWorker
    <2> QED
      BY <1>7, <2>4, <2>5, <2>6, <2>7 DEF CheckWorker, TypeOK, RegTypes, GenTypes, ScalerTypes, OpTypes
  <1>8. CASE AcquireHostSlot(r)
    <2>1. HostTypes'
      BY <1>8 DEF AcquireHostSlot, TypeOK, HostTypes
    <2>2. ReqTypes'
      BY <1>8 DEF AcquireHostSlot, TypeOK, ReqTypes, Goto, RequestPCs, HoldsGlobalQueue, HoldsSlot, HoldsWorker
    <2> QED
      BY <1>8, <2>1, <2>2 DEF AcquireHostSlot, TypeOK, RegTypes, GenTypes, PoolTypes, WorkerTypes, ScalerTypes, OpTypes
  <1>9. CASE Admit(r)
    <2>1. rgen[r] \in Gens /\ rfn[r] \in Functions
      BY <1>9 DEF Admit, TypeOK, ReqTypes
    <2>2. CountersTyped(rgen[r])
      BY <2>1, CounterTypes
    <2>3. PoolTypes'
      BY <1>9, <2>1, <2>2 DEF Admit, TypeOK, PoolTypes, LeaveQueues, CountersTyped
    <2>4. HostTypes'
      BY <1>9, <2>1 DEF Admit, TypeOK, HostTypes, LeaveQueues
    <2>5. ReqTypes'
      BY <1>9, <2>1 DEF Admit, TypeOK, ReqTypes, Goto, RequestPCs, HoldsGlobalQueue, HoldsSlot, HoldsWorker
    <2> QED
      BY <1>9, <2>3, <2>4, <2>5 DEF Admit, TypeOK, RegTypes, GenTypes, WorkerTypes, ScalerTypes, OpTypes
  <1>10. CASE Finish(r)
    <2>1. ReqTypes'
      BY <1>10 DEF Finish, TypeOK, ReqTypes, Goto, RequestPCs, HoldsGlobalQueue, HoldsSlot, HoldsWorker
    <2> QED
      BY <1>10, <2>1 DEF Finish, TypeOK, RegTypes, GenTypes, PoolTypes, WorkerTypes, HostTypes, ScalerTypes, OpTypes
  <1>11. CASE ReleaseBusy(r)
    <2>1. rgen[r] \in Gens /\ rfn[r] \in Functions
      BY <1>11 DEF ReleaseBusy, TypeOK, ReqTypes
    <2>2. CountersTyped(rgen[r])
      BY <2>1, CounterTypes
    <2>3. PoolTypes'
      BY <1>11, <2>1, <2>2 DEF ReleaseBusy, TypeOK, PoolTypes, CountersTyped
    <2>4. ReqTypes'
      BY <1>11, <2>1 DEF ReleaseBusy, TypeOK, ReqTypes, Goto, RequestPCs, HoldsGlobalQueue, HoldsSlot, HoldsWorker
    <2> QED
      BY <1>11, <2>3, <2>4 DEF ReleaseBusy, TypeOK, RegTypes, GenTypes, WorkerTypes, HostTypes, ScalerTypes, OpTypes
  <1>12. CASE ReleasePark(r)
    <2>1. rgen[r] \in Gens /\ rfn[r] \in Functions
      BY <1>12 DEF ReleasePark, TypeOK, ReqTypes
    <2>2. PoolTypes'
      BY <1>12, <2>1 DEF ReleasePark, TypeOK, PoolTypes, ReleaseTarget, ReqTypes, RequestPCs, HoldsGlobalQueue, HoldsSlot, HoldsWorker
    <2>3. WorkerTypes'
      BY <1>12, <2>1, KillTypes DEF ReleasePark, TypeOK, WorkerTypes, ReqTypes, RequestPCs, HoldsGlobalQueue, HoldsSlot, HoldsWorker
    <2>4. ReqTypes'
      BY <1>12, <2>1, PoolAssumption DEF ReleasePark, TypeOK, ReqTypes, PoolAssumption, RequestPCs, HoldsGlobalQueue, HoldsSlot, HoldsWorker
    <2> QED
      BY <1>12, <2>2, <2>3, <2>4 DEF ReleasePark, TypeOK, RegTypes, GenTypes, HostTypes, ScalerTypes, OpTypes
  <1>13. CASE ReleaseSlots(r)
    <2>1. rgen[r] \in Gens /\ rfn[r] \in Functions
      BY <1>13 DEF ReleaseSlots, TypeOK, ReqTypes
    <2>2. CountersTyped(rgen[r])
      BY <2>1, CounterTypes
    <2>3. ReleaseSlot(rgen[r]) => conc' \in [Gens -> Nat]
      BY <2>1, SlotTypes
    <2>4. PoolTypes'
      BY <1>13, <2>1, <2>3, <2>2 DEF ReleaseSlots, TypeOK, PoolTypes, LeaveQueues, CountersTyped
    <2>5. HostTypes'
      BY <1>13, <2>1 DEF ReleaseSlots, TypeOK, HostTypes, LeaveQueues
    <2>6. ReqTypes'
      BY <1>13, <2>1, PoolAssumption DEF ReleaseSlots, TypeOK, ReqTypes, Answered, PoolAssumption, RequestPCs, HoldsGlobalQueue, HoldsSlot, HoldsWorker
    <2> QED
      BY <1>13, <2>4, <2>5, <2>6 DEF ReleaseSlots, TypeOK, RegTypes, GenTypes, WorkerTypes, ScalerTypes, OpTypes
  <1>14. CASE SlotTimeout(r)
    <2>1. rgen[r] \in Gens /\ rfn[r] \in Functions
      BY <1>14 DEF SlotTimeout, TypeOK, ReqTypes
    <2>2. CountersTyped(rgen[r])
      BY <2>1, CounterTypes
    <2>3. PoolTypes'
      BY <1>14, <2>1, <2>2 DEF SlotTimeout, TypeOK, PoolTypes, LeaveQueues, CountersTyped
    <2>4. HostTypes'
      BY <1>14, <2>1 DEF SlotTimeout, TypeOK, HostTypes, LeaveQueues
    <2>5. ReqTypes'
      BY <1>14, <2>1, PoolAssumption DEF SlotTimeout, TypeOK, ReqTypes, Answered, PoolAssumption, RequestPCs, HoldsGlobalQueue, HoldsSlot, HoldsWorker
    <2> QED
      BY <1>14, <2>3, <2>4, <2>5 DEF SlotTimeout, TypeOK, RegTypes, GenTypes, WorkerTypes, ScalerTypes, OpTypes
  <1>15. CASE AcquireFails(r)
    <2>1. rgen[r] \in Gens /\ rfn[r] \in Functions
      BY <1>15 DEF AcquireFails, TypeOK, ReqTypes
    <2>2. CountersTyped(rgen[r])
      BY <2>1, CounterTypes
    <2>3. ReleaseSlot(rgen[r]) => conc' \in [Gens -> Nat]
      BY <2>1, SlotTypes
    <2>4. PoolTypes'
      BY <1>15, <2>1, <2>3, <2>2 DEF AcquireFails, TypeOK, PoolTypes, RetryOnReplacement, LeaveQueues, CountersTyped
    <2>5. HostTypes'
      BY <1>15, <2>1 DEF AcquireFails, TypeOK, HostTypes, RetryOnReplacement, LeaveQueues
    <2>6. ReqTypes'
      BY <1>15, <2>1, PoolAssumption DEF AcquireFails, TypeOK, ReqTypes, Answered, RetryOnReplacement, PoolAssumption, RequestPCs, HoldsGlobalQueue, HoldsSlot, HoldsWorker
    <2> QED
      BY <1>15, <2>4, <2>5, <2>6 DEF AcquireFails, TypeOK, RegTypes, GenTypes, WorkerTypes, ScalerTypes, OpTypes
  <1> QED
    BY <1>1, <1>2, <1>3, <1>4, <1>5, <1>6, <1>7, <1>8, <1>9, <1>10, <1>11, <1>12, <1>13, <1>14, <1>15 DEF RequestStep, WaitEnds

\* One evaluation of a pool.
LEMMA EvaluateTypes ==
  ASSUME TypeOK, NEW g \in Gens, Evaluate(g)
  PROVE  TypeOK'
  <1> USE GensNat DEF regVars, genVars, poolVars, workerVars, reqVars, scalerVars, opVars
  <1> DEFINE Target(d, R) == Desired(g, d, Released(Cardinality(R)))
             Ceiling(R) == DynamicMax(g, Released(Cardinality(R)))
  <1>1. PICK d \in 0..PoolMax, R \in SUBSET Workers :
          /\ RemoveIdle(R) /\ KillWorkers(R)
          /\ dynMax' = [dynMax EXCEPT ![g] = Ceiling(R)]
          /\ desired' = [desired EXCEPT ![g] = Target(d, R)]
          /\ \/ /\ Target(d, R) > Current(g)
                /\ spc' = "spawn" /\ sgen' = g
                /\ swant' = Min2(MaxStep, Target(d, R) - Current(g))
             \/ UNCHANGED <<spc, sgen, swant>>
             \/ /\ Target(d, R) < Current(g)
                /\ spc' = "shrink" /\ sgen' = g
                /\ swant' = Min2(Current(g) - Target(d, R), Max2(1, CeilDiv(Current(g), 5)))
    <2>1. \A R \in ReclaimChoices(g) \cup {{}} : R \in SUBSET Workers
      BY ReclaimTypes
    <2> QED
      BY <2>1 DEF Evaluate
  <1>2. Released(Cardinality(R)) \in Int /\ d \in Int
    BY ReleasedNat, PoolAssumption DEF PoolAssumption
  <1>3. Ceiling(R) \in Int /\ Target(d, R) \in Int /\ Current(g) \in Int
    BY <1>2, DynamicMaxInt, DesiredInt, CurrentInt
  <1> HIDE DEF Ceiling, Target
  <1>4. CeilDiv(Current(g), 5) \in Int
    BY <1>3 DEF CeilDiv
  <1>5. PoolTypes'
    BY <1>1, <1>3 DEF Evaluate, RemoveIdle, TypeOK, PoolTypes
  <1>6. WorkerTypes'
    BY <1>1, KillTypes DEF TypeOK, WorkerTypes
  <1>7. ScalerTypes'
    BY <1>1, <1>3, <1>4, PoolAssumption
       DEF Evaluate, TypeOK, ScalerTypes, Min2, Max2, PoolAssumption
  <1> QED
    BY <1>5, <1>6, <1>7 DEF Evaluate, TypeOK, RegTypes, GenTypes, HostTypes, ReqTypes, OpTypes

\* The scaler's loops keep its variables within their types.
LEMMA IterationTypes ==
  ASSUME TypeOK, sgen \in Gens, NEW label \in {"spawn", "shrink"}, NEW left \in Nat,
         NextIteration(label, left)
  PROVE  ScalerTypes'
  <1>1. CASE left = 0
    BY <1>1 DEF NextIteration, TypeOK, ScalerTypes
  <1>2. CASE left > 0
    BY <1>2 DEF NextIteration, TypeOK, ScalerTypes
  <1> QED
    BY <1>1, <1>2

LEMMA RemoveTypes == TypeOK => \A W : RemoveIdle(W) => idle' \in [Gens -> SUBSET Workers]
  BY DEF TypeOK, PoolTypes, RemoveIdle

\* Admission of one more worker against the memory reservation.
LEMMA ReserveTypes ==
  ASSUME TypeOK, ReserveMemory
  PROVE  TypeOK'
  <1> USE GensNat DEF regVars, genVars, poolVars, workerVars, reqVars, scalerVars, opVars
  <1>1. sgen \in Gens /\ CountersTyped(sgen) /\ swant > 0
    BY CounterTypes DEF ReserveMemory, TypeOK, ScalerTypes
  <1> DEFINE KilledPc(R) == [w \in Workers |-> IF w \in R THEN "dead" ELSE wpc[w]]
             KilledGen(R) == [w \in Workers |-> IF w \in R THEN None ELSE wgen[w]]
             Left(R) == Released(Cardinality(R))
  <1>2. PICK R \in SUBSET Workers :
          /\ RemoveIdle(R) /\ wbad' = wbad \ R
          /\ \/ /\ reserved' = Left(R) + 1
                /\ \E w \in Workers :
                     /\ wpc' = [KilledPc(R) EXCEPT ![w] = "starting"]
                     /\ wgen' = [KilledGen(R) EXCEPT ![w] = sgen]
                /\ NextIteration("spawn", swant - 1) /\ UNCHANGED spawning
             \/ /\ reserved' = Left(R)
                /\ wpc' = KilledPc(R) /\ wgen' = KilledGen(R)
                /\ spawning' = Dec(spawning, sgen)
                /\ NextIteration("spawn", 0)
    <2>1. \A R \in ReclaimChoices(sgen) \cup {{}} : R \in SUBSET Workers
      BY ReclaimTypes
    <2> QED
      BY <2>1 DEF ReserveMemory
  <1>3. Left(R) \in Nat
    BY ReleasedNat
  <1> HIDE DEF Left
  <1>4. PoolTypes'
    BY <1>1, <1>2 DEF ReserveMemory, RemoveIdle, CountersTyped, TypeOK, PoolTypes
  <1>5. WorkerTypes'
    <2>1. /\ KilledPc(R) \in [Workers -> LiveStates \cup {"dead"}]
          /\ KilledGen(R) \in [Workers -> Gens \cup {None}]
          /\ \A w \in Workers : KilledPc(R)[w] # "dead" => KilledGen(R)[w] \in Gens
      BY DEF TypeOK, WorkerTypes
    <2> HIDE DEF KilledPc, KilledGen
    <2>2. wbad' \subseteq Workers /\ reserved' \in Nat
      BY <1>2, <1>3 DEF TypeOK, WorkerTypes
    <2>3. CASE wpc' = KilledPc(R) /\ wgen' = KilledGen(R)
      BY <2>1, <2>2, <2>3 DEF WorkerTypes
    <2>4. ASSUME NEW w \in Workers, wpc' = [KilledPc(R) EXCEPT ![w] = "starting"],
                 wgen' = [KilledGen(R) EXCEPT ![w] = sgen]
          PROVE  WorkerTypes'
      BY <1>1, <2>1, <2>2, <2>4 DEF WorkerTypes, LiveStates
    <2> QED
      BY <1>2, <2>3, <2>4
  <1>6. ScalerTypes'
    <2>1. swant - 1 \in Nat /\ 0 \in Nat
      BY <1>1 DEF TypeOK, ScalerTypes
    <2> QED
      BY <1>1, <1>2, <2>1, IterationTypes
  <1> QED
    BY <1>4, <1>5, <1>6 DEF ReserveMemory, TypeOK, RegTypes, GenTypes, HostTypes, ReqTypes, OpTypes

\* The other steps of the scaler and of the goroutines that spawn workers.
LEMMA ScalerStepTypes ==
  ASSUME TypeOK, ScalerStep
  PROVE  TypeOK'
  <1> USE GensNat DEF regVars, genVars, poolVars, workerVars, reqVars, scalerVars, opVars
  <1>1. CASE ScalerPass \/ PassDone
    BY <1>1 DEF ScalerPass, PassDone, TypeOK, RegTypes, GenTypes, PoolTypes, WorkerTypes, HostTypes,
                ReqTypes, ScalerTypes, OpTypes
  <1>2. CASE StartSpawn
    <2>1. sgen \in Gens /\ CountersTyped(sgen)
      BY <1>2, CounterTypes DEF StartSpawn, TypeOK, ScalerTypes
    <2>2. PoolTypes'
      BY <1>2, <2>1 DEF StartSpawn, CountersTyped, TypeOK, PoolTypes
    <2>3. ScalerTypes'
      <3>1. CASE NextIteration("spawn", 0)
        BY <2>1, <3>1, IterationTypes
      <3>2. CASE spc' = "reserve" /\ UNCHANGED <<spass, sgen, swant>>
        BY <1>2, <3>2 DEF StartSpawn, TypeOK, ScalerTypes
      <3> QED
        BY <1>2, <3>1, <3>2 DEF StartSpawn
    <2> QED
      BY <1>2, <2>2, <2>3 DEF StartSpawn, TypeOK, RegTypes, GenTypes, WorkerTypes, HostTypes, ReqTypes, OpTypes
  <1>3. CASE Shrink
    <2>1. sgen \in Gens /\ swant > 0
      BY <1>3 DEF Shrink, TypeOK, ScalerTypes
    <2>2. PoolTypes'
      BY <1>3, RemoveTypes DEF Shrink, TypeOK, PoolTypes
    <2>3. WorkerTypes'
      <3>1. CASE \E w \in Workers : KillWorkers({w})
        BY <3>1, KillTypes DEF TypeOK, WorkerTypes
      <3> QED
        BY <1>3, <2>1, <3>1 DEF Shrink, TypeOK, PoolTypes, WorkerTypes
    <2>4. ScalerTypes'
      <3>1. swant - 1 \in Nat /\ 0 \in Nat
        BY <2>1 DEF TypeOK, ScalerTypes
      <3> QED
        BY <1>3, <2>1, <3>1, IterationTypes DEF Shrink
    <2> QED
      BY <1>3, <2>2, <2>3, <2>4 DEF Shrink, TypeOK, RegTypes, GenTypes, HostTypes, ReqTypes, OpTypes
  <1> QED
    BY <1>1, <1>2, <1>3, EvaluateTypes, ReserveTypes DEF ScalerStep

LEMMA WorkerStepTypes ==
  ASSUME TypeOK, NEW w \in Workers, SpawnStep(w) \/ WorkerExits(w)
  PROVE  TypeOK'
  <1> USE GensNat DEF regVars, genVars, poolVars, workerVars, reqVars, scalerVars, opVars
  <1>1. CASE SpawnOk(w)
    <2>1. CountersTyped(wgen[w])
      BY <1>1, CounterTypes DEF SpawnOk, TypeOK, WorkerTypes
    <2>2. PoolTypes' /\ WorkerTypes'
      BY <1>1, <2>1 DEF SpawnOk, CountersTyped, TypeOK, PoolTypes, WorkerTypes, LiveStates
    <2> QED
      BY <1>1, <2>2 DEF SpawnOk, TypeOK, RegTypes, GenTypes, HostTypes, ReqTypes, ScalerTypes, OpTypes
  <1>2. CASE SpawnFail(w)
    <2>1. CountersTyped(wgen[w]) /\ wgen[w] \in Gens
      BY <1>2, CounterTypes DEF SpawnFail, TypeOK, WorkerTypes
    <2>2. WorkerTypes'
      BY <1>2, KillTypes DEF SpawnFail, TypeOK, WorkerTypes
    <2>3. PoolTypes'
      BY <1>2, <2>1 DEF SpawnFail, SpawnError, CountersTyped, TypeOK, PoolTypes
    <2> QED
      BY <1>2, <2>2, <2>3 DEF SpawnFail, TypeOK, RegTypes, GenTypes, HostTypes, ReqTypes, ScalerTypes, OpTypes
  <1>3. CASE Park(w)
    <2>1. wgen[w] \in Gens
      BY <1>3 DEF Park, TypeOK, WorkerTypes
    <2>2. WorkerTypes'
      <3>1. CASE KillWorkers({w})
        BY <3>1, KillTypes DEF TypeOK, WorkerTypes
      <3> QED
        BY <1>3, <2>1, <3>1 DEF Park, TypeOK, WorkerTypes, LiveStates
    <2>3. PoolTypes'
      BY <1>3, <2>1 DEF Park, TypeOK, PoolTypes
    <2> QED
      BY <1>3, <2>2, <2>3 DEF Park, TypeOK, RegTypes, GenTypes, HostTypes, ReqTypes, ScalerTypes, OpTypes
  <1>4. CASE WorkerExits(w)
    BY <1>4 DEF WorkerExits, TypeOK, RegTypes, GenTypes, PoolTypes, WorkerTypes, HostTypes, ReqTypes,
                ScalerTypes, OpTypes
  <1> QED
    BY <1>1, <1>2, <1>3, <1>4 DEF SpawnStep

\* The reaper and the shutdown.
LEMMA ReapTypes ==
  ASSUME TypeOK, BeginShutdown \/ ShutdownStep \/ \E g \in Gens : Sweep(g)
  PROVE  TypeOK'
  <1> USE GensNat DEF regVars, genVars, poolVars, workerVars, reqVars, scalerVars, opVars
  <1>1. CASE BeginShutdown \/ ScalerExits \/ ScalerStopped \/ ShutdownDone
    <2>1. HostTypes' /\ ScalerTypes'
      BY <1>1 DEF BeginShutdown, ScalerExits, ScalerStopped, ShutdownDone, TypeOK, HostTypes, ScalerTypes
    <2>2. UNCHANGED <<regVars, genVars, poolVars, workerVars, reqVars, opVars>>
      BY <1>1 DEF BeginShutdown, ScalerExits, ScalerStopped, ShutdownDone
    <2> QED
      BY <2>1, <2>2 DEF TypeOK, RegTypes, GenTypes, PoolTypes, WorkerTypes, ReqTypes, OpTypes
  <1>2. ASSUME NEW f \in Functions, ShutdownRetire(f) PROVE TypeOK'
    BY <1>2 DEF ShutdownRetire, TypeOK, RegTypes, GenTypes, PoolTypes, WorkerTypes, HostTypes,
                ReqTypes, ScalerTypes, OpTypes
  <1>3. ASSUME NEW f \in Functions, ShutdownQuit(f) PROVE TypeOK'
    <2>1. PoolTypes'
      BY <1>3, RemoveTypes DEF ShutdownQuit, TypeOK, PoolTypes
    <2>2. WorkerTypes'
      BY <1>3 DEF ShutdownQuit, TypeOK, GenTypes, PoolTypes, WorkerTypes
    <2> QED
      BY <1>3, <2>1, <2>2 DEF ShutdownQuit, TypeOK, RegTypes, GenTypes, HostTypes, ReqTypes, ScalerTypes, OpTypes
  <1>4. ASSUME NEW g \in Gens, Sweep(g) PROVE TypeOK'
    <2>1. WorkerTypes'
      BY <1>4, KillTypes DEF Sweep, TypeOK, PoolTypes, WorkerTypes
    <2>2. PoolTypes'
      BY <1>4 DEF Sweep, TypeOK, PoolTypes
    <2> QED
      BY <1>4, <2>1, <2>2 DEF Sweep, TypeOK, RegTypes, GenTypes, HostTypes, ReqTypes, ScalerTypes, OpTypes
  <1> QED
    BY <1>1, <1>2, <1>3, <1>4 DEF ShutdownStep

LEMMA NextTypes == TypeOK /\ [Next]_vars => TypeOK'
  <1> SUFFICES ASSUME TypeOK, [Next]_vars PROVE TypeOK'
    OBVIOUS
  <1>1. CASE Next
    BY <1>1, OperatorTypes, RequestTypes, ScalerStepTypes, WorkerStepTypes, ReapTypes DEF Next
  <1>2. CASE UNCHANGED vars
    BY <1>2 DEF vars, regVars, genVars, poolVars, workerVars, reqVars, scalerVars, opVars, TypeOK,
                RegTypes, GenTypes, PoolTypes, WorkerTypes, HostTypes, ReqTypes, ScalerTypes, OpTypes
  <1> QED
    BY <1>1, <1>2

\* Every variable of the pool keeps its type, and no request, operator or
\* scaler step uses a pool, a worker or a function it has not been given.
THEOREM TypeCorrect == Spec => []TypeOK
  BY InitTypeOK, NextTypes, PTL DEF Spec

-----------------------------------------------------------------------------
(* Retirement of a pool generation: it is never reopened nor given a       *)
(* worker, its drain leaves nothing behind, and a request that arrives     *)
(* after the change has returned is served by a newer generation.          *)


\* What a step may do to the idle channel of a retired generation.
OnlyShrinks(g) == closing[g] => closing'[g] /\ idle'[g] \subseteq idle[g]

\* A step that leaves the idle channels and the closing flags alone.
LEMMA NoIdleChange ==
  ASSUME UNCHANGED <<closing, idle>>
  PROVE  \A g \in Gens : OnlyShrinks(g)
  BY DEF OnlyShrinks

LEMMA OperatorShrinks ==
  ASSUME TypeOK,
         \/ RefreshAvail
         \/ \E o \in Operators : OperatorStep(o)
         \/ \E o \in Operators, f \in Functions, deletes \in BOOLEAN : ChangeFunction(o, f, deletes)
         \/ \E f \in Functions : Prewarm(f)
  PROVE  \A g \in Gens : OnlyShrinks(g)
  <1>1. ASSUME NEW o \in Operators, RetirePool(o) PROVE \A g \in Gens : OnlyShrinks(g)
    BY <1>1 DEF RetirePool, OnlyShrinks, TypeOK, PoolTypes
  <1>2. ASSUME NEW o \in Operators, DrainOne(o) PROVE \A g \in Gens : OnlyShrinks(g)
    BY <1>2 DEF DrainOne, DrainFrom, OnlyShrinks, TypeOK, PoolTypes
  <1>3. ASSUME NEW o \in Operators, DrainDone(o) PROVE UNCHANGED <<closing, idle>>
    BY <1>3 DEF DrainDone, poolVars
  <1>4. ASSUME RefreshAvail
               \/ (\E o \in Operators, f \in Functions, deletes \in BOOLEAN : ChangeFunction(o, f, deletes))
               \/ \E f \in Functions : Prewarm(f)
        PROVE  UNCHANGED <<closing, idle>>
    BY <1>4 DEF RefreshAvail, ChangeFunction, Prewarm, poolVars
  <1> QED
    BY <1>1, <1>2, <1>3, <1>4, NoIdleChange DEF OperatorStep

LEMMA RequestShrinks ==
  ASSUME TypeOK, NEW r \in Requests,
         (\E f \in Functions : Arrive(r, f)) \/ RequestStep(r) \/ WaitEnds(r)
  PROVE  \A g \in Gens : OnlyShrinks(g)
  <1>1. CASE PopIdle(r)
    BY <1>1 DEF PopIdle, OnlyShrinks, TypeOK, PoolTypes
  <1>2. CASE ReleasePark(r)
    <2>1. rgen[r] \in Gens
      BY <1>2 DEF ReleasePark, TypeOK, ReqTypes
    <2> QED
      BY <1>2, <2>1 DEF ReleasePark, ReleaseTarget, MustKill, OnlyShrinks, TypeOK, PoolTypes
  <1>3. CASE \/ \E f \in Functions : Arrive(r, f)
             \/ GetOrCreatePool(r) \/ ReserveGlobalQueue(r) \/ ReservePoolQueue(r)
             \/ AcquireSlot(r) \/ CheckWorker(r) \/ AcquireHostSlot(r) \/ Admit(r)
             \/ Finish(r) \/ ReleaseBusy(r) \/ ReleaseSlots(r) \/ WaitEnds(r)
    <2>1. UNCHANGED <<closing, idle>>
      BY <1>3 DEF Arrive, GetOrCreatePool, ReserveGlobalQueue, ReservePoolQueue, AcquireSlot, CheckWorker,
                  AcquireHostSlot, Admit, Finish, ReleaseBusy, ReleaseSlots, WaitEnds, SlotTimeout,
                  AcquireFails, poolVars
    <2> QED
      BY <2>1, NoIdleChange
  <1> QED
    BY <1>1, <1>2, <1>3 DEF RequestStep

LEMMA RemoveShrinks ==
  ASSUME TypeOK, NEW W, RemoveIdle(W), UNCHANGED closing
  PROVE  \A g \in Gens : OnlyShrinks(g)
  BY DEF RemoveIdle, OnlyShrinks

LEMMA OtherShrinks ==
  ASSUME TypeOK,
         \/ ScalerStep \/ BeginShutdown \/ ShutdownStep
         \/ \E w \in Workers : SpawnStep(w) \/ WorkerExits(w)
         \/ \E g \in Gens : Sweep(g)
  PROVE  \A g \in Gens : OnlyShrinks(g)
  <1>1. ASSUME NEW g \in Gens, Evaluate(g) PROVE UNCHANGED closing /\ \E W : RemoveIdle(W)
    BY <1>1 DEF Evaluate
  <1>2. CASE ReserveMemory
    <2>1. UNCHANGED closing /\ \E W : RemoveIdle(W)
      BY <1>2 DEF ReserveMemory
    <2> QED
      BY <2>1, RemoveShrinks
  <1>3. CASE Shrink
    <2>1. UNCHANGED closing /\ (idle' = idle \/ \E W : RemoveIdle(W))
      BY <1>3 DEF Shrink
    <2> QED
      BY <2>1, RemoveShrinks, NoIdleChange
  <1>4. ASSUME NEW f \in Functions, ShutdownQuit(f) PROVE UNCHANGED closing /\ \E W : RemoveIdle(W)
    BY <1>4 DEF ShutdownQuit
  <1>5. ASSUME NEW f \in Functions, ShutdownRetire(f) PROVE \A g \in Gens : OnlyShrinks(g)
    BY <1>5 DEF ShutdownRetire, OnlyShrinks, TypeOK, PoolTypes
  <1>6. ASSUME NEW w \in Workers, Park(w) PROVE \A g \in Gens : OnlyShrinks(g)
    BY <1>6 DEF Park, CanPark, OnlyShrinks, TypeOK, PoolTypes
  <1>7. ASSUME NEW g \in Gens, Sweep(g) PROVE \A h \in Gens : OnlyShrinks(h)
    BY <1>7 DEF Sweep, OnlyShrinks, TypeOK, PoolTypes
  <1>8. CASE \/ ScalerPass \/ PassDone \/ StartSpawn \/ BeginShutdown \/ ScalerExits \/ ScalerStopped
             \/ ShutdownDone \/ \E w \in Workers : SpawnOk(w) \/ SpawnFail(w) \/ WorkerExits(w)
    <2>1. UNCHANGED <<closing, idle>>
      BY <1>8 DEF ScalerPass, PassDone, StartSpawn, BeginShutdown, ScalerExits, ScalerStopped, ShutdownDone,
                  SpawnOk, SpawnFail, WorkerExits, poolVars
    <2> QED
      BY <2>1, NoIdleChange
  <1> QED
    BY <1>1, <1>2, <1>3, <1>4, <1>5, <1>6, <1>7, <1>8, RemoveShrinks DEF ScalerStep, ShutdownStep, SpawnStep

LEMMA StepShrinks == TypeOK /\ [Next]_vars => \A g \in Gens : OnlyShrinks(g)
  <1> SUFFICES ASSUME TypeOK, [Next]_vars PROVE \A g \in Gens : OnlyShrinks(g)
    OBVIOUS
  <1>1. CASE Next
    BY <1>1, OperatorShrinks, RequestShrinks, OtherShrinks DEF Next
  <1>2. CASE UNCHANGED vars
    BY <1>2, NoIdleChange DEF vars, poolVars
  <1> QED
    BY <1>1, <1>2

\* A retired generation is never reopened and no release, spawn or sweep
\* ever parks a worker in it.
THEOREM RetiredNeverRefilled == Spec => RetiredOnlyShrinks
  <1>1. TypeOK /\ [Next]_vars
        => [\A g \in Gens : closing[g] => closing'[g] /\ idle'[g] \subseteq idle[g]]_vars
    BY StepShrinks DEF OnlyShrinks
  <1> QED
    BY <1>1, TypeCorrect, PTL DEF Spec, RetiredOnlyShrinks

----------------------------------------------------------------------------
(* The drain leaves nothing behind.                                       *)

\* The drainers stay, and the closing flags do not change.
LEMMA DrainersStay ==
  ASSUME TypeOK, DrainPending, \A g \in Gens : OnlyShrinks(g),
         UNCHANGED <<closing, opc, ogen, sdpc, pools>>
  PROVE  DrainPending'
  BY DEF DrainPending, OnlyShrinks, TypeOK, PoolTypes

LEMMA NextDrainPending == TypeOK /\ DrainPending /\ [Next]_vars => DrainPending'
  <1> SUFFICES ASSUME TypeOK, DrainPending, [Next]_vars PROVE DrainPending'
    OBVIOUS
  <1>0. \A g \in Gens : OnlyShrinks(g)
    BY StepShrinks
  <1>1. ASSUME NEW o \in Operators, RetirePool(o) PROVE DrainPending'
    <2>1. ofn[o] \in Functions /\ pools[ofn[o]] \in Gens \cup {None}
      BY <1>1 DEF RetirePool, TypeOK, OpTypes, GenTypes
    <2>2. opc'[o] = "drain" /\ ogen'[o] = pools[ofn[o]]
      BY <1>1 DEF RetirePool, TypeOK, OpTypes
    <2>3. \A x \in Operators \ {o} : opc'[x] = opc[x] /\ ogen'[x] = ogen[x]
      BY <1>1 DEF RetirePool, TypeOK, OpTypes
    <2>4. \A f \in Functions \ {ofn[o]} : pools'[f] = pools[f]
      BY <1>1 DEF RetirePool, TypeOK, GenTypes
    <2>5. idle' = idle /\ sdpc' = sdpc
          /\ \A g \in Gens : closing'[g] => closing[g] \/ g = pools[ofn[o]]
      BY <1>1 DEF RetirePool, TypeOK, PoolTypes
    <2>6. opc[o] = "retire"
      BY <1>1 DEF RetirePool
    <2> QED
      BY <2>1, <2>2, <2>3, <2>4, <2>5, <2>6 DEF DrainPending
  <1>2. ASSUME NEW o \in Operators, DrainOne(o) PROVE DrainPending'
    BY <1>0, <1>2, DrainersStay DEF DrainOne, DrainFrom, opVars, genVars
  <1>3. ASSUME NEW o \in Operators, DrainDone(o) PROVE DrainPending'
    <2>1. \A x \in Operators \ {o} : opc'[x] = opc[x] /\ ogen'[x] = ogen[x]
      BY <1>3 DEF DrainDone, TypeOK, OpTypes
    <2> QED
      BY <1>3, <2>1, GensNat DEF DrainDone, DrainPending, genVars, poolVars
  <1>4. ASSUME NEW o \in Operators, NEW f \in Functions, NEW deletes \in BOOLEAN,
               ChangeFunction(o, f, deletes)
        PROVE  DrainPending'
    <2>1. \A x \in Operators : opc[x] = "drain" => opc'[x] = "drain"
      BY <1>4 DEF ChangeFunction, TypeOK, OpTypes
    <2> QED
      BY <1>4, <2>1 DEF ChangeFunction, DrainPending, genVars, poolVars
  <1>5. ASSUME NEW f \in Functions, Prewarm(f) PROVE DrainPending'
    BY <1>5 DEF Prewarm, Closing, DrainPending, poolVars, opVars
  <1>6. ASSUME NEW r \in Requests, GetOrCreatePool(r) PROVE DrainPending'
    <2>1. CASE UNCHANGED genVars
      BY <1>0, <1>6, <2>1, DrainersStay DEF GetOrCreatePool, genVars, opVars
    <2>2. CASE sdpc = "up"
      BY <1>6, <2>2 DEF GetOrCreatePool, DrainPending, opVars
    <2> QED
      BY <1>6, <2>1, <2>2 DEF GetOrCreatePool, Closing
  <1>7. ASSUME NEW f \in Functions, ShutdownRetire(f) PROVE DrainPending'
    BY <1>7 DEF ShutdownRetire, DrainPending, TypeOK, PoolTypes, genVars, opVars
  <1>8. CASE BeginShutdown \/ ScalerStopped \/ ShutdownDone
    <2>1. UNCHANGED <<closing, idle, opc, ogen, pools>>
      BY <1>8 DEF BeginShutdown, ScalerStopped, ShutdownDone, genVars, poolVars, opVars
    <2>2. CASE sdpc # "draining"
      BY <2>1, <2>2 DEF DrainPending
    <2>3. CASE ShutdownDone
      <3>1. \A f \in Functions : pools[f] # None => idle[pools[f]] = {}
        BY <2>3 DEF ShutdownDone
      <3>2. \A g \in Gens : g # None
        BY GensNat DEF Gens, None
      <3> QED
        BY <2>1, <3>1, <3>2 DEF DrainPending
    <2> QED
      BY <1>8, <2>2, <2>3 DEF BeginShutdown, ScalerStopped
  <1>9. CASE \/ RefreshAvail
             \/ \E g \in Gens : Evaluate(g) \/ Sweep(g)
             \/ ScalerPass \/ PassDone \/ StartSpawn \/ ReserveMemory \/ Shrink \/ ScalerExits
             \/ \E w \in Workers : SpawnOk(w) \/ SpawnFail(w) \/ Park(w) \/ WorkerExits(w)
             \/ \E f \in Functions : ShutdownQuit(f)
    <2>1. UNCHANGED <<closing, opc, ogen, sdpc, pools>>
      BY <1>9 DEF RefreshAvail, Evaluate, Sweep, ScalerPass, PassDone, StartSpawn, ReserveMemory, Shrink,
                  ScalerExits, SpawnOk, SpawnFail, Park, WorkerExits, ShutdownQuit, genVars, poolVars, opVars
    <2> QED
      BY <1>0, <2>1, DrainersStay
  <1>10. ASSUME NEW r \in Requests,
                \/ \E f \in Functions : Arrive(r, f)
                \/ ReserveGlobalQueue(r) \/ ReservePoolQueue(r) \/ AcquireSlot(r) \/ PopIdle(r)
                \/ CheckWorker(r) \/ AcquireHostSlot(r) \/ Admit(r) \/ Finish(r) \/ ReleaseBusy(r)
                \/ ReleasePark(r) \/ ReleaseSlots(r) \/ WaitEnds(r)
         PROVE  DrainPending'
    <2>1. UNCHANGED <<closing, opc, ogen, sdpc, pools>>
      BY <1>10 DEF Arrive, ReserveGlobalQueue, ReservePoolQueue, AcquireSlot, PopIdle, CheckWorker,
                   AcquireHostSlot, Admit, Finish, ReleaseBusy, ReleasePark, ReleaseSlots, WaitEnds,
                   SlotTimeout, AcquireFails, genVars, poolVars, opVars
    <2> QED
      BY <1>0, <2>1, DrainersStay
  <1>11. CASE UNCHANGED vars
    BY <1>11 DEF vars, genVars, poolVars, opVars, DrainPending
  <1> QED
    BY <1>1, <1>2, <1>3, <1>4, <1>5, <1>6, <1>7, <1>8, <1>9, <1>10, <1>11
       DEF Next, OperatorStep, RequestStep, ScalerStep, SpawnStep, ShutdownStep

\* Once nobody is draining a retired generation its idle channel is empty,
\* for ever: the check of closing under p.mu in release and startSpawn and
\* the drain in retirePool together leave no stale worker behind.
THEOREM RetirementDrains == Spec => []RetiredDrained
  <1>1. Init => DrainPending
    BY DEF Init, DrainPending
  <1>2. DrainPending => RetiredDrained
    BY DEF DrainPending, RetiredDrained
  <1> QED
    BY <1>1, <1>2, TypeCorrect, NextDrainPending, PTL DEF Spec

----------------------------------------------------------------------------
(* A request is served by a generation at least as new as the last change *)
(* that had returned when it arrived.                                     *)

\* Steps that leave the registry, the published generations and the
\* operators alone, and at most end a request or move it on in place.
LEMMA VersionsStay ==
  ASSUME TypeOK, VersionOrder,
         UNCHANGED <<regVer, refreshed, pools, genCount, genFn, genVer, opc, ofn, over>>,
         \A r \in Requests : pc'[r] # "new" =>
           /\ pc[r] # "new" /\ rver'[r] = rver[r] /\ rfn'[r] = rfn[r]
           /\ rgen'[r] = rgen[r] /\ (pc'[r] # "pool" => pc[r] # "pool")
  PROVE  VersionOrder'
  BY DEF VersionOrder

LEMMA CreateKeepsOrder ==
  ASSUME TypeOK, VersionOrder, NEW f \in Functions, NEW g \in Gens, CreatePool(f, g)
  PROVE  /\ \A h \in Gens : h <= genCount => genFn'[h] = genFn[h] /\ genVer'[h] = genVer[h]
         /\ genFn'[g] = f /\ genVer'[g] = regVer[f] /\ genCount' = g /\ genCount < g
         /\ pools'[f] = g /\ \A h \in Functions \ {f} : pools'[h] = pools[h]
  BY GensNat DEF CreatePool, TypeOK, GenTypes, RegTypes

\* Publishing a generation keeps the order of the functions and operators.
LEMMA CreateFunctions ==
  ASSUME TypeOK, VersionOrder, NEW f \in Functions, CreatePool(f, genCount + 1),
         UNCHANGED <<regVer, refreshed, opc, ofn, over>>
  PROVE  /\ \A h \in Functions :
              /\ refreshed'[h] <= regVer'[h]
              /\ pools'[h] # None => /\ pools'[h] <= genCount'
                                     /\ genFn'[pools'[h]] = h
                                     /\ refreshed'[h] <= genVer'[pools'[h]]
         /\ \A o \in Operators : opc'[o] # "idle" =>
              /\ over'[o] <= regVer'[ofn'[o]]
              /\ opc'[o] = "drain" /\ pools'[ofn'[o]] # None => over'[o] <= genVer'[pools'[ofn'[o]]]
  <1> DEFINE g == genCount + 1
  <1>1. g \in Gens
    BY DEF CreatePool
  <1>2. /\ \A h \in Gens : h <= genCount => genFn'[h] = genFn[h] /\ genVer'[h] = genVer[h]
        /\ genFn'[g] = f /\ genVer'[g] = regVer[f] /\ genCount' = g /\ genCount < g
        /\ pools'[f] = g /\ \A h \in Functions \ {f} : pools'[h] = pools[h]
    BY <1>1, CreateKeepsOrder
  <1>3. genCount \in Nat /\ (\A h \in Functions : pools[h] \in Gens \cup {None}) /\ Gens \subseteq Nat
    BY GensNat DEF TypeOK, GenTypes
  <1>4. \A o \in Operators : opc[o] # "idle" => ofn[o] \in Functions
    BY DEF TypeOK, OpTypes
  <1>5. \A h \in Functions : regVer[h] \in Nat /\ refreshed[h] \in Nat
    BY DEF TypeOK, RegTypes
  <1>10. genCount' \in Nat /\ genCount <= genCount'
    BY <1>1, <1>2, <1>3
  <1> HIDE DEF g
  <1>6. pools'[f] = g /\ g <= genCount' /\ genFn'[g] = f /\ refreshed[f] <= genVer'[g]
    BY <1>1, <1>2, <1>3, <1>5 DEF VersionOrder
  <1>7. \A h \in Functions \ {f} : pools'[h] # None =>
          /\ pools'[h] = pools[h] /\ pools[h] <= genCount'
          /\ genFn'[pools[h]] = h /\ genVer'[pools[h]] = genVer[pools[h]]
          /\ refreshed[h] <= genVer[pools[h]]
    <2> SUFFICES ASSUME NEW h \in Functions \ {f}, pools'[h] # None
                 PROVE  /\ pools'[h] = pools[h] /\ pools[h] <= genCount'
                        /\ genFn'[pools[h]] = h /\ genVer'[pools[h]] = genVer[pools[h]]
                        /\ refreshed[h] <= genVer[pools[h]]
      OBVIOUS
    <2>1. pools'[h] = pools[h] /\ pools[h] \in Gens
      BY <1>2, <1>3
    <2>2. pools[h] <= genCount /\ genFn[pools[h]] = h /\ refreshed[h] <= genVer[pools[h]]
      BY <2>1 DEF VersionOrder
    <2>3. genFn'[pools[h]] = genFn[pools[h]] /\ genVer'[pools[h]] = genVer[pools[h]]
      BY <1>2, <2>1, <2>2
    <2>4. pools[h] \in Nat /\ genCount \in Nat
      BY <1>3, <2>1
    <2>5. pools[h] <= genCount'
      BY <1>10, <2>2, <2>4
    <2> QED
      BY <2>1, <2>2, <2>3, <2>5
  <1>8. \A h \in Functions :
          /\ refreshed'[h] <= regVer'[h]
          /\ pools'[h] # None => /\ pools'[h] <= genCount'
                                 /\ genFn'[pools'[h]] = h
                                 /\ refreshed'[h] <= genVer'[pools'[h]]
    BY <1>5, <1>6, <1>7 DEF VersionOrder
  <1>9. ASSUME NEW o \in Operators, opc'[o] # "idle"
        PROVE  /\ over'[o] <= regVer'[ofn'[o]]
               /\ opc'[o] = "drain" /\ pools'[ofn'[o]] # None
                  => over'[o] <= genVer'[pools'[ofn'[o]]]
    <2>1. ofn[o] \in Functions /\ over[o] <= regVer[ofn[o]]
      BY <1>4, <1>9 DEF VersionOrder
    <2>2. CASE ofn[o] = f
      BY <1>2, <1>6, <2>1, <2>2
    <2>3. CASE ofn[o] # f
      BY <1>7, <1>9, <2>1, <2>3 DEF VersionOrder
    <2> QED
      BY <2>2, <2>3
  <1> QED
    BY <1>8, <1>9

\* What VersionOrder says of a request that has arrived.
RequestOrder(r) ==
  /\ rver[r] <= refreshed[rfn[r]]
  /\ pc[r] # "pool" => /\ rgen[r] <= genCount
                       /\ genFn[rgen[r]] = rfn[r]
                       /\ rver[r] <= genVer[rgen[r]]

\* Publishing a generation leaves the requests of the others alone.
LEMMA CreateRequests ==
  ASSUME TypeOK, VersionOrder, NEW f \in Functions, CreatePool(f, genCount + 1), UNCHANGED refreshed,
         NEW r \in Requests, pc[r] # "new", UNCHANGED <<pc[r], rfn[r], rgen[r], rver[r]>>
  PROVE  RequestOrder(r)'
  <1>1. genCount + 1 \in Gens
    BY DEF CreatePool
  <1>3. genCount \in Nat /\ Gens \subseteq Nat
    BY GensNat DEF TypeOK, GenTypes
  <1>0. pc[r] # "pool" => rgen[r] \in Gens
    BY DEF TypeOK, ReqTypes
  <1>2. /\ \A h \in Gens : h <= genCount => genFn'[h] = genFn[h] /\ genVer'[h] = genVer[h]
        /\ genCount' = genCount + 1
    BY <1>1, CreateKeepsOrder
  <1>4. rver[r] <= refreshed[rfn[r]]
        /\ (pc[r] # "pool" => rgen[r] <= genCount /\ genFn[rgen[r]] = rfn[r] /\ rver[r] <= genVer[rgen[r]])
    BY DEF VersionOrder
  <1>5. pc[r] # "pool" => rgen[r] <= genCount' /\ genFn'[rgen[r]] = rfn[r] /\ rver[r] <= genVer'[rgen[r]]
    <2> SUFFICES ASSUME pc[r] # "pool"
                 PROVE  rgen[r] <= genCount' /\ genFn'[rgen[r]] = rfn[r] /\ rver[r] <= genVer'[rgen[r]]
      OBVIOUS
    <2>1. rgen[r] \in Gens /\ rgen[r] <= genCount
      BY <1>0, <1>4
    <2>2. genFn'[rgen[r]] = genFn[rgen[r]] /\ genVer'[rgen[r]] = genVer[rgen[r]]
      BY <1>2, <2>1
    <2>4. genCount' = genCount + 1 /\ genCount \in Nat /\ rgen[r] \in Nat
      BY <1>2, <1>3, <2>1
    <2>3. rgen[r] <= genCount'
      BY <2>1, <2>4
    <2> QED
      BY <1>4, <2>2, <2>3
  <1> QED
    BY <1>4, <1>5 DEF RequestOrder

\* The generation getOrCreatePool returns is at least as new as the request.
LEMMA PublishOrder ==
  ASSUME TypeOK, VersionOrder, NEW r \in Requests, GetOrCreatePool(r)
  PROVE  VersionOrder'
  <1> USE DEF regVars, genVars, opVars
  <1> DEFINE f == rfn[r]
             g == IF HasPool(f) THEN pools[f] ELSE genCount + 1
  <1>1. /\ UNCHANGED <<regVer, refreshed, opc, ofn, over>>
        /\ UNCHANGED genVars \/ (~HasPool(f) /\ CreatePool(f, genCount + 1))
        /\ Answered(r) \/ /\ pc' = [pc EXCEPT ![r] = "loop"] \/ pc' = [pc EXCEPT ![r] = "enqG"]
                          /\ rgen' = [rgen EXCEPT ![r] = g] /\ UNCHANGED <<rfn, rver>>
                          /\ HasPool(f) \/ CreatePool(f, genCount + 1)
    BY DEF GetOrCreatePool
  <1>2. f \in Functions /\ pc[r] # "new" /\ rver[r] \in Nat /\ refreshed[f] \in Nat /\ regVer[f] \in Nat
    BY DEF GetOrCreatePool, TypeOK, ReqTypes, RegTypes
  <1>3. \A q \in Requests \ {r} :
          pc'[q] = pc[q] /\ rfn'[q] = rfn[q] /\ rgen'[q] = rgen[q] /\ rver'[q] = rver[q]
    <2>1. CASE Answered(r)
      BY <2>1 DEF Answered, TypeOK, ReqTypes
    <2> HIDE DEF f, g
    <2>2. CASE ~Answered(r)
      <3>1. /\ pc' = [pc EXCEPT ![r] = "loop"] \/ pc' = [pc EXCEPT ![r] = "enqG"]
            /\ rgen' = [rgen EXCEPT ![r] = g] /\ rfn' = rfn /\ rver' = rver
            /\ HasPool(f) \/ CreatePool(f, genCount + 1)
        BY <1>1, <2>2
      <3>2. pc \in [Requests -> RequestPCs] /\ rgen \in [Requests -> Gens \cup {None}]
        BY DEF TypeOK, ReqTypes
      <3> QED
        BY <3>1, <3>2 DEF f
    <2> QED
      BY <2>1, <2>2
  <1>4. pc'[r] # "new" => /\ rfn'[r] = f /\ rver'[r] = rver[r] /\ rgen'[r] = g
                          /\ HasPool(f) \/ CreatePool(f, genCount + 1)
    <2>1. CASE Answered(r)
      BY <2>1 DEF Answered, TypeOK, ReqTypes
    <2> HIDE DEF f, g
    <2>2. CASE ~Answered(r)
      <3>1. /\ pc' = [pc EXCEPT ![r] = "loop"] \/ pc' = [pc EXCEPT ![r] = "enqG"]
            /\ rgen' = [rgen EXCEPT ![r] = g] /\ rfn' = rfn /\ rver' = rver
            /\ HasPool(f) \/ CreatePool(f, genCount + 1)
        BY <1>1, <2>2
      <3>2. pc \in [Requests -> RequestPCs] /\ rgen \in [Requests -> Gens \cup {None}]
        BY DEF TypeOK, ReqTypes
      <3> QED
        BY <3>1, <3>2 DEF f
    <2> QED
      BY <2>1, <2>2
  <1>5. rver[r] <= refreshed[f]
    BY <1>2 DEF VersionOrder
  <1>6. CASE UNCHANGED genVars /\ HasPool(f)
    <2>1. /\ g = pools[f] /\ g <= genCount /\ genFn[g] = f /\ refreshed[f] <= genVer[g]
          /\ genVer[g] \in Nat
      BY <1>2, <1>6 DEF HasPool, VersionOrder, TypeOK, GenTypes
    <2>2. pc'[r] # "new" => RequestOrder(r)'
      BY <1>1, <1>2, <1>4, <1>5, <1>6, <2>1 DEF RequestOrder
    <2>3. \A q \in Requests \ {r} : pc'[q] # "new" => RequestOrder(q)'
      BY <1>1, <1>3, <1>6 DEF RequestOrder, VersionOrder
    <2> QED
      BY <1>1, <1>6, <2>2, <2>3 DEF VersionOrder, RequestOrder
  <1>7. CASE ~HasPool(f) /\ CreatePool(f, genCount + 1)
    <2>5. genCount \in Nat
      BY GensNat DEF TypeOK, GenTypes
    <2>0. g = genCount + 1 /\ genCount \in Nat /\ genCount + 1 \in Gens
      BY <1>7, <2>5 DEF CreatePool
    <2>1. genFn'[g] = f /\ genVer'[g] = regVer[f] /\ genCount' = g
      BY <1>2, <1>7, <2>0, CreateKeepsOrder
    <2>2. rver[r] <= genVer'[g]
      BY <1>2, <1>5, <2>1 DEF VersionOrder
    <2>3. pc'[r] # "new" => RequestOrder(r)'
      BY <1>1, <1>2, <1>4, <1>5, <2>0, <2>1, <2>2 DEF RequestOrder
    <2>4. \A q \in Requests \ {r} : pc'[q] # "new" => RequestOrder(q)'
      BY <1>1, <1>2, <1>3, <1>7, CreateRequests
    <2> QED
      BY <1>1, <1>2, <1>7, <2>3, <2>4, CreateFunctions DEF VersionOrder, RequestOrder
  <1>8. CASE UNCHANGED genVars /\ ~HasPool(f) /\ ~CreatePool(f, genCount + 1)
    <2>1. pc'[r] = "new"
      BY <1>4, <1>8
    <2> QED
      BY <1>1, <1>3, <1>8, <2>1 DEF VersionOrder
  <1> QED
    BY <1>1, <1>6, <1>7, <1>8

LEMMA NextVersionOrder == TypeOK /\ VersionOrder /\ [Next]_vars => VersionOrder'
  <1> SUFFICES ASSUME TypeOK, VersionOrder, [Next]_vars PROVE VersionOrder'
    OBVIOUS
  <1> USE DEF regVars, genVars, opVars, reqVars
  <1>1. ASSUME NEW o \in Operators, RetirePool(o) PROVE VersionOrder'
    BY <1>1 DEF RetirePool, VersionOrder, TypeOK, GenTypes, OpTypes, RegTypes
  <1>2. ASSUME NEW o \in Operators, DrainDone(o) PROVE VersionOrder'
    <2>1. ofn[o] \in Functions /\ opc[o] = "drain"
      BY <1>2 DEF DrainDone, TypeOK, OpTypes
    <2>2. /\ refreshed'[ofn[o]] = Max2(refreshed[ofn[o]], over[o])
          /\ \A f \in Functions \ {ofn[o]} : refreshed'[f] = refreshed[f]
          /\ opc'[o] = "idle"
          /\ \A x \in Operators \ {o} : opc'[x] = opc[x] /\ over'[x] = over[x] /\ ofn'[x] = ofn[x]
      BY <1>2, <2>1 DEF DrainDone, TypeOK, OpTypes, RegTypes
    <2>3. UNCHANGED <<regVer, pools, genCount, genFn, genVer, pc, rfn, rgen, rver>>
      BY <1>2 DEF DrainDone
    <2>4. /\ refreshed'[ofn[o]] >= refreshed[ofn[o]]
          /\ refreshed'[ofn[o]] = refreshed[ofn[o]] \/ refreshed'[ofn[o]] = over[o]
      BY <2>1, <2>2 DEF Max2, TypeOK, RegTypes, OpTypes
    <2>5. \A f \in Functions :
            /\ refreshed'[f] <= regVer'[f]
            /\ pools'[f] # None => /\ pools'[f] <= genCount' /\ genFn'[pools'[f]] = f
                                   /\ refreshed'[f] <= genVer'[pools'[f]]
      BY <2>1, <2>2, <2>3, <2>4 DEF VersionOrder
    <2>6. \A f \in Functions : refreshed[f] \in Nat /\ refreshed'[f] \in Nat /\ refreshed'[f] >= refreshed[f]
      BY <2>1, <2>2, <2>4 DEF TypeOK, RegTypes, OpTypes
    <2>7. \A r \in Requests : pc'[r] # "new" => rver'[r] <= refreshed'[rfn'[r]]
      BY <2>3, <2>6 DEF VersionOrder, TypeOK, ReqTypes
    <2> QED
      BY <2>2, <2>3, <2>5, <2>7 DEF VersionOrder
  <1>3. ASSUME NEW o \in Operators, NEW f \in Functions, NEW deletes \in BOOLEAN,
               ChangeFunction(o, f, deletes)
        PROVE  VersionOrder'
    <2>1. \A h \in Functions : regVer[h] \in Nat /\ regVer'[h] \in Nat /\ regVer[h] <= regVer'[h]
                               /\ refreshed[h] \in Nat
      BY <1>3 DEF ChangeFunction, TypeOK, RegTypes
    <2>2. /\ opc'[o] = "retire" /\ ofn'[o] = f /\ over'[o] = regVer'[f]
          /\ \A x \in Operators \ {o} : opc'[x] = opc[x] /\ over'[x] = over[x] /\ ofn'[x] = ofn[x]
      BY <1>3 DEF ChangeFunction, TypeOK, OpTypes, RegTypes
    <2>3. UNCHANGED <<refreshed, pools, genCount, genFn, genVer, pc, rfn, rgen, rver>>
      BY <1>3 DEF ChangeFunction
    <2>4. \A x \in Operators : opc[x] # "idle" => ofn[x] \in Functions /\ over[x] \in Nat
      BY DEF TypeOK, OpTypes
    <2> QED
      BY <2>1, <2>2, <2>3, <2>4 DEF VersionOrder
  <1>4. ASSUME NEW f \in Functions, Prewarm(f) PROVE VersionOrder'
    <2>1. CreatePool(f, genCount + 1) /\ genCount + 1 \in Gens
      BY <1>4 DEF Prewarm, CreatePool
    <2>2. UNCHANGED <<regVer, refreshed, opc, ofn, over, pc, rfn, rgen, rver>>
      BY <1>4 DEF Prewarm
    <2>3. \A r \in Requests : pc'[r] # "new" => RequestOrder(r)'
      BY <2>1, <2>2, CreateRequests
    <2> QED
      BY <2>1, <2>2, <2>3, CreateFunctions DEF VersionOrder, RequestOrder
  <1>5. ASSUME NEW r \in Requests, GetOrCreatePool(r) PROVE VersionOrder'
    BY <1>5, PublishOrder
  <1>6. ASSUME NEW r \in Requests, NEW f \in Functions, Arrive(r, f) PROVE VersionOrder'
    <2>1. UNCHANGED <<regVer, refreshed, pools, genCount, genFn, genVer, opc, ofn, over, rgen>>
      BY <1>6 DEF Arrive
    <2>2. /\ rfn'[r] = f /\ rver'[r] = refreshed[f] /\ pc'[r] = "pool" /\ refreshed[f] \in Nat
          /\ \A q \in Requests \ {r} : pc'[q] = pc[q] /\ rfn'[q] = rfn[q] /\ rver'[q] = rver[q]
      BY <1>6 DEF Arrive, VersionOrder, TypeOK, ReqTypes, RegTypes
    <2> QED
      BY <2>1, <2>2 DEF VersionOrder
  <1>7. CASE \/ RefreshAvail \/ BeginShutdown
             \/ \E o \in Operators : DrainOne(o)
             \/ \E g \in Gens : Evaluate(g) \/ Sweep(g)
             \/ ScalerPass \/ PassDone \/ StartSpawn \/ ReserveMemory \/ Shrink
             \/ \E w \in Workers : SpawnStep(w) \/ WorkerExits(w)
             \/ ShutdownStep
             \/ UNCHANGED vars
    <2>1. UNCHANGED <<regVer, refreshed, pools, genCount, genFn, genVer, opc, ofn, over, pc, rfn, rgen, rver>>
      BY <1>7 DEF RefreshAvail, BeginShutdown, DrainOne, DrainFrom, Evaluate, Sweep, ScalerPass, PassDone,
                  StartSpawn, ReserveMemory, Shrink, SpawnStep, SpawnOk, SpawnFail, Park, WorkerExits,
                  ShutdownStep, ScalerExits, ScalerStopped, ShutdownDone, ShutdownRetire, ShutdownQuit, vars
    <2> QED
      BY <2>1 DEF VersionOrder
  <1>8. ASSUME NEW r \in Requests,
               \/ ReserveGlobalQueue(r) \/ ReservePoolQueue(r) \/ AcquireSlot(r) \/ PopIdle(r)
               \/ CheckWorker(r) \/ AcquireHostSlot(r) \/ Admit(r) \/ Finish(r) \/ ReleaseBusy(r)
               \/ ReleasePark(r) \/ ReleaseSlots(r) \/ WaitEnds(r)
        PROVE  VersionOrder'
    <2>1. UNCHANGED <<regVer, refreshed, pools, genCount, genFn, genVer, opc, ofn, over>>
      BY <1>8 DEF ReserveGlobalQueue, ReservePoolQueue, AcquireSlot, PopIdle, CheckWorker,
                  AcquireHostSlot, Admit, Finish, ReleaseBusy, ReleasePark, ReleaseSlots, WaitEnds,
                  SlotTimeout, AcquireFails
    <2>2. /\ pc[r] # "new" /\ pc[r] # "pool"
          /\ Answered(r) \/ (UNCHANGED <<rfn, rgen, rver>> /\ \E label : pc' = [pc EXCEPT ![r] = label])
      BY <1>8 DEF ReserveGlobalQueue, ReservePoolQueue, AcquireSlot, PopIdle, CheckWorker,
                  AcquireHostSlot, Admit, Finish, ReleaseBusy, ReleasePark, ReleaseSlots, WaitEnds,
                  SlotTimeout, AcquireFails, Goto, RetryOnReplacement
    <2>3. \A q \in Requests : pc'[q] # "new" =>
            /\ pc[q] # "new" /\ rver'[q] = rver[q] /\ rfn'[q] = rfn[q] /\ rgen'[q] = rgen[q]
            /\ (pc'[q] # "pool" => pc[q] # "pool")
      BY <2>2 DEF Answered, TypeOK, ReqTypes
    <2> QED
      BY <2>1, <2>3, VersionsStay
  <1> QED
    BY <1>1, <1>2, <1>3, <1>4, <1>5, <1>6, <1>7, <1>8
       DEF Next, OperatorStep, RequestStep, ScalerStep

\* A request is never served by a worker built from a record older than the
\* last change that had returned when it arrived, nor by another function's.
THEOREM LeasesAreFresh == Spec => []FreshLease
  <1>1. Init => VersionOrder
    BY DEF Init, VersionOrder
  <1>2. TypeOK /\ VersionOrder => FreshLease
    <2> SUFFICES ASSUME TypeOK, VersionOrder, NEW r \in Requests, pc[r] \in HoldsWorker
                 PROVE  genVer[rgen[r]] >= rver[r] /\ genFn[rgen[r]] = rfn[r]
      BY DEF FreshLease
    <2>1. pc[r] \notin {"new", "pool"}
      BY DEF HoldsWorker
    <2>2. rgen[r] \in Gens /\ rgen[r] # None /\ rver[r] \in Nat /\ genVer[rgen[r]] \in Nat
      BY <2>1, GensNat DEF TypeOK, ReqTypes, GenTypes, Gens, None
    <2> QED
      BY <2>1, <2>2 DEF VersionOrder
  <1> QED
    BY <1>1, <1>2, TypeCorrect, NextVersionOrder, PTL DEF Spec
=============================================================================

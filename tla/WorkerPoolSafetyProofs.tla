----------------------- MODULE WorkerPoolSafetyProofs -----------------------
(***************************************************************************)
(* The books of the worker pool: PoolSafe and ShutdownClean of WorkerPool, *)
(* for every number of functions, requests, operators and workers and      *)
(* every value of the limits.                                              *)
(***************************************************************************)
EXTENDS WorkerPoolProofs

----------------------------------------------------------------------------
(* The counters of the request path.  A step of r changes the size of a   *)
(* set of requests by what r itself contributes to it.                    *)

\* What r contributes to the size of InGen(g, P), and of the requests at P.
Share(r, g, P) == IF pc[r] \in P /\ rgen[r] = g THEN 1 ELSE 0
GlobalShare(r, P) == IF pc[r] \in P THEN 1 ELSE 0

\* A set of requests is finite, so its size is a number.
LEMMA RequestSets == \A S : S \subseteq Requests => IsFiniteSet(S) /\ Cardinality(S) \in Nat
  BY PoolAssumption, FS_Subset, FS_CardinalityType DEF PoolAssumption

\* Two finite sets that agree except on x differ in size by x alone.
LEMMA SizeByOne ==
  ASSUME NEW S, NEW T, IsFiniteSet(S), IsFiniteSet(T), NEW x,
         \A y : y # x => (y \in S <=> y \in T)
  PROVE  Cardinality(T) = Cardinality(S) - (IF x \in S THEN 1 ELSE 0) + (IF x \in T THEN 1 ELSE 0)
  <1>1. Cardinality(S) \in Nat /\ Cardinality(T) \in Nat
    BY FS_CardinalityType
  <1>2. Cardinality(S \ {x}) = Cardinality(T \ {x})
    <2>1. S \ {x} = T \ {x}
      OBVIOUS
    <2> QED
      BY <2>1, Zenon
  <1>3. Cardinality(S \ {x}) = (IF x \in S THEN Cardinality(S) - 1 ELSE Cardinality(S))
    BY FS_RemoveElement
  <1>4. Cardinality(T \ {x}) = (IF x \in T THEN Cardinality(T) - 1 ELSE Cardinality(T))
    BY FS_RemoveElement
  <1> QED
    BY <1>1, <1>2, <1>3, <1>4

\* No request other than r changes its counter or its generation.
OnlyMoves(r) == \A q \in Requests : q # r => pc'[q] = pc[q] /\ rgen'[q] = rgen[q]

\* When only r moves, every set of requests that the counters count changes
\* by what r contributed before the step and contributes after it.
LEMMA OneRequestMoves ==
  ASSUME NEW r \in Requests, OnlyMoves(r)
  PROVE  /\ \A g, P : Cardinality(InGen(g, P))' = Cardinality(InGen(g, P)) - Share(r, g, P) + Share(r, g, P)'
         /\ \A P : Cardinality({q \in Requests : pc[q] \in P})'
                   = Cardinality({q \in Requests : pc[q] \in P}) - GlobalShare(r, P) + GlobalShare(r, P)'
  <1>1. ASSUME NEW g, NEW P
        PROVE  Cardinality(InGen(g, P))' = Cardinality(InGen(g, P)) - Share(r, g, P) + Share(r, g, P)'
    <2> DEFINE S == InGen(g, P)
               T == {q \in Requests : pc'[q] \in P /\ rgen'[q] = g}
    <2>1. IsFiniteSet(S) /\ IsFiniteSet(T)
      BY RequestSets DEF InGen
    <2>2. \A y : y # r => (y \in S <=> y \in T)
      BY DEF OnlyMoves, InGen
    <2>3. Cardinality(T) = Cardinality(S) - (IF r \in S THEN 1 ELSE 0) + (IF r \in T THEN 1 ELSE 0)
      <3> HIDE DEF S, T
      <3> QED BY <2>1, <2>2, SizeByOne
    <2>4. (IF r \in S THEN 1 ELSE 0) = Share(r, g, P) /\ (IF r \in T THEN 1 ELSE 0) = Share(r, g, P)'
      BY DEF InGen, Share
    <2>5. InGen(g, P)' = T
      BY DEF InGen
    <2> QED
      BY <2>3, <2>4, <2>5
  <1>2. ASSUME NEW P
        PROVE  Cardinality({q \in Requests : pc[q] \in P})'
               = Cardinality({q \in Requests : pc[q] \in P}) - GlobalShare(r, P) + GlobalShare(r, P)'
    <2> DEFINE S == {q \in Requests : pc[q] \in P}
               T == {q \in Requests : pc'[q] \in P}
    <2>1. IsFiniteSet(S) /\ IsFiniteSet(T)
      BY RequestSets
    <2>2. \A y : y # r => (y \in S <=> y \in T)
      BY DEF OnlyMoves
    <2>3. Cardinality(T) = Cardinality(S) - (IF r \in S THEN 1 ELSE 0) + (IF r \in T THEN 1 ELSE 0)
      <3> HIDE DEF S, T
      <3> QED BY <2>1, <2>2, SizeByOne
    <2>4. (IF r \in S THEN 1 ELSE 0) = GlobalShare(r, P) /\ (IF r \in T THEN 1 ELSE 0) = GlobalShare(r, P)'
      BY DEF GlobalShare
    <2> QED
      BY <2>3, <2>4
  <1> QED
    BY <1>1, <1>2

\* The part of CountersBalanced about requests.
RequestCounters ==
  /\ \A g \in Gens :
       /\ queued[g] = Cardinality(InGen(g, HoldsPoolQueue))
       /\ busy[g] = Cardinality(InGen(g, CountedBusy))
       /\ MaxConcurrency > 0 => conc[g] = Cardinality(InGen(g, HoldsSlot))
  /\ mQueued = Cardinality({r \in Requests : pc[r] \in HoldsGlobalQueue})
  /\ hostBusy = Cardinality({r \in Requests : pc[r] \in HoldsHostSlot})

\* r takes and gives back exactly what its program counter says it holds.
KeepsBooks(r) ==
  /\ \A g \in Gens :
       /\ queued'[g] = queued[g] - Share(r, g, HoldsPoolQueue) + Share(r, g, HoldsPoolQueue)'
       /\ busy'[g] = busy[g] - Share(r, g, CountedBusy) + Share(r, g, CountedBusy)'
       /\ MaxConcurrency > 0 => conc'[g] = conc[g] - Share(r, g, HoldsSlot) + Share(r, g, HoldsSlot)'
  /\ mQueued' = mQueued - GlobalShare(r, HoldsGlobalQueue) + GlobalShare(r, HoldsGlobalQueue)'
  /\ hostBusy' = hostBusy - GlobalShare(r, HoldsHostSlot) + GlobalShare(r, HoldsHostSlot)'

\* Counters that change by the same amounts as the sets they count stay right.
LEMMA BooksFollow ==
  ASSUME NEW r \in Requests, OnlyMoves(r), KeepsBooks(r), RequestCounters
  PROVE  RequestCounters'
  BY OneRequestMoves DEF RequestCounters, KeepsBooks

\* A request that holds a slot of the semaphore is counted there.
LEMMA SlotIsCounted ==
  ASSUME TypeOK, RequestCounters, NEW r \in Requests, pc[r] \in HoldsSlot, rgen[r] \in Gens,
         MaxConcurrency > 0
  PROVE  conc[rgen[r]] > 0
  <1>1. r \in InGen(rgen[r], HoldsSlot)
    BY DEF InGen
  <1>2. IsFiniteSet(InGen(rgen[r], HoldsSlot)) /\ Cardinality(InGen(rgen[r], HoldsSlot)) \in Nat
    BY RequestSets DEF InGen
  <1>3. Cardinality(InGen(rgen[r], HoldsSlot)) # 0
    BY <1>1, <1>2, FS_EmptySet
  <1> QED
    BY <1>2, <1>3 DEF RequestCounters

\* A step of the request path keeps the books: on every success, retry,
\* timeout and error path it gives back what it took.
LEMMA RequestBooks ==
  ASSUME TypeOK, RequestCounters, NEW r \in Requests,
         (\E f \in Functions : Arrive(r, f)) \/ RequestStep(r) \/ WaitEnds(r)
  PROVE  OnlyMoves(r) /\ KeepsBooks(r)
  <1> USE DEF regVars, genVars, poolVars, workerVars, reqVars, scalerVars, opVars,
              HoldsPoolQueue, HoldsGlobalQueue, HoldsSlot, HoldsHostSlot, CountedBusy,
              Share, GlobalShare, OnlyMoves, KeepsBooks, Inc, Dec
  <1> USE GensNat, PoolAssumption DEF PoolAssumption
  <1>1. queued \in [Gens -> Int] /\ busy \in [Gens -> Int] /\ conc \in [Gens -> Nat]
        /\ mQueued \in Int /\ hostBusy \in Int /\ pc \in [Requests -> RequestPCs]
        /\ rgen \in [Requests -> Gens \cup {None}]
    BY DEF TypeOK, PoolTypes, HostTypes, ReqTypes
  <1>2. pc[r] \notin {"new", "pool"} => rgen[r] \in Gens
    BY DEF TypeOK, ReqTypes
  <1>3. pc[r] \in HoldsSlot /\ MaxConcurrency > 0 => conc[rgen[r]] > 0
    BY <1>2, SlotIsCounted
  <1>4. ASSUME NEW f \in Functions, Arrive(r, f) PROVE OnlyMoves(r) /\ KeepsBooks(r)
    BY <1>1, <1>4 DEF Arrive
  <1>5. CASE GetOrCreatePool(r)
    BY <1>1, <1>2, <1>3, <1>5 DEF GetOrCreatePool, Answered, HasPool, CreatePool
  <1>6. CASE ReserveGlobalQueue(r)
    BY <1>1, <1>2, <1>3, <1>6 DEF ReserveGlobalQueue, Answered, Goto
  <1>7. CASE ReservePoolQueue(r)
    BY <1>1, <1>2, <1>3, <1>7 DEF ReservePoolQueue, Answered, Goto
  <1>8. CASE AcquireSlot(r)
    BY <1>1, <1>2, <1>3, <1>8 DEF AcquireSlot, Answered, Goto, RetryOnReplacement, LeaveQueues
  <1>9. CASE PopIdle(r)
    BY <1>1, <1>2, <1>3, <1>9 DEF PopIdle
  <1>10. CASE CheckWorker(r)
    BY <1>1, <1>2, <1>3, <1>10 DEF CheckWorker, Goto, RetryOnReplacement, ReleaseSlot
  <1>11. CASE AcquireHostSlot(r)
    BY <1>1, <1>2, <1>3, <1>11 DEF AcquireHostSlot, Goto
  <1>12. CASE Admit(r)
    BY <1>1, <1>2, <1>3, <1>12 DEF Admit, Goto, LeaveQueues
  <1>13. CASE Finish(r)
    BY <1>1, <1>2, <1>3, <1>13 DEF Finish, Goto
  <1>14. CASE ReleaseBusy(r)
    BY <1>1, <1>2, <1>3, <1>14 DEF ReleaseBusy, Goto
  <1>15. CASE ReleasePark(r)
    BY <1>1, <1>2, <1>3, <1>15 DEF ReleasePark
  <1>16. CASE ReleaseSlots(r)
    BY <1>1, <1>2, <1>3, <1>16 DEF ReleaseSlots, Answered, LeaveQueues, ReleaseSlot
  <1>17. CASE SlotTimeout(r)
    BY <1>1, <1>2, <1>3, <1>17 DEF SlotTimeout, Answered, LeaveQueues
  <1>18. CASE AcquireFails(r)
    BY <1>1, <1>2, <1>3, <1>18 DEF AcquireFails, Answered, LeaveQueues, RetryOnReplacement, ReleaseSlot
  <1> QED
    BY <1>4, <1>5, <1>6, <1>7, <1>8, <1>9, <1>10, <1>11, <1>12, <1>13, <1>14, <1>15, <1>16, <1>17, <1>18
       DEF RequestStep, WaitEnds

\* Nobody else touches the counters of the request path.
OtherStep ==
  \/ RefreshAvail
  \/ \E o \in Operators : OperatorStep(o)
  \/ \E o \in Operators, f \in Functions, deletes \in BOOLEAN : ChangeFunction(o, f, deletes)
  \/ \E f \in Functions : Prewarm(f)
  \/ ScalerStep
  \/ \E w \in Workers : SpawnStep(w) \/ WorkerExits(w)
  \/ \E g \in Gens : Sweep(g)
  \/ BeginShutdown
  \/ ShutdownStep

\* The steps of the operators, the scaler, the spawning goroutines and the
\* shutdown touch neither the requests nor their counters.
LEMMA OthersLeaveBooks ==
  ASSUME OtherStep
  PROVE  UNCHANGED <<busy, queued, conc, mQueued, hostBusy, reqVars>>
  <1> USE DEF regVars, genVars, poolVars, workerVars, scalerVars, opVars
  <1>1. ASSUME NEW o \in Operators, OperatorStep(o)
        PROVE  UNCHANGED <<busy, queued, conc, mQueued, hostBusy, reqVars>>
    BY <1>1 DEF OperatorStep, RetirePool, DrainOne, DrainFrom, DrainDone
  <1>2. ASSUME NEW o \in Operators, NEW f \in Functions, NEW deletes \in BOOLEAN,
               ChangeFunction(o, f, deletes)
        PROVE  UNCHANGED <<busy, queued, conc, mQueued, hostBusy, reqVars>>
    BY <1>2 DEF ChangeFunction
  <1>3. ASSUME NEW f \in Functions, Prewarm(f)
        PROVE  UNCHANGED <<busy, queued, conc, mQueued, hostBusy, reqVars>>
    BY <1>3 DEF Prewarm
  <1>4. CASE ScalerStep
    BY <1>4 DEF ScalerStep, ScalerPass, PassDone, Evaluate, StartSpawn, ReserveMemory, Shrink
  <1>5. ASSUME NEW w \in Workers, SpawnStep(w) \/ WorkerExits(w)
        PROVE  UNCHANGED <<busy, queued, conc, mQueued, hostBusy, reqVars>>
    BY <1>5 DEF SpawnStep, SpawnOk, SpawnFail, Park, WorkerExits
  <1>6. ASSUME NEW g \in Gens, Sweep(g)
        PROVE  UNCHANGED <<busy, queued, conc, mQueued, hostBusy, reqVars>>
    BY <1>6 DEF Sweep
  <1>7. CASE RefreshAvail \/ BeginShutdown \/ ShutdownStep
    BY <1>7 DEF RefreshAvail, BeginShutdown, ShutdownStep, ScalerExits, ScalerStopped, ShutdownDone,
                ShutdownRetire, ShutdownQuit
  <1> QED
    BY <1>1, <1>2, <1>3, <1>4, <1>5, <1>6, <1>7 DEF OtherStep

\* Every step is one of the request path or one of the others.
LEMMA TwoKinds ==
  Next => \/ \E r \in Requests : (\E f \in Functions : Arrive(r, f)) \/ RequestStep(r) \/ WaitEnds(r)
          \/ OtherStep
  BY DEF Next, OtherStep

\* Every step keeps the counters of the request path right.
LEMMA NextRequestCounters ==
  TypeOK /\ RequestCounters /\ [Next]_vars => RequestCounters'
  <1> SUFFICES ASSUME TypeOK, RequestCounters, [Next]_vars PROVE RequestCounters'
    OBVIOUS
  <1>1. ASSUME NEW r \in Requests,
               (\E f \in Functions : Arrive(r, f)) \/ RequestStep(r) \/ WaitEnds(r)
        PROVE  RequestCounters'
    BY <1>1, RequestBooks, BooksFollow
  <1>2. CASE OtherStep \/ UNCHANGED vars
    <2>1. UNCHANGED <<busy, queued, conc, mQueued, hostBusy, pc, rgen>>
      BY <1>2, OthersLeaveBooks DEF vars, poolVars, reqVars
    <2> QED
      BY <2>1 DEF RequestCounters, InGen
  <1> QED
    BY <1>1, <1>2, TwoKinds

----------------------------------------------------------------------------
(* Where the workers are.  WorkerExclusive follows from WorkerPlaces,     *)
(* which every step keeps: a worker enters a channel only from the hands  *)
(* of the goroutine that held or spawned it.                              *)

\* A parked worker runs and is of the channel's generation; a leased one runs,
\* is of its request's generation, is not parked and has no other lease; and a
\* running one is parked or leased.
WorkerPlaces ==
  /\ \A g \in Gens : \A w \in idle[g] : wpc[w] = "live" /\ wgen[w] = g
  /\ \A r \in Requests : rw[r] \in Workers =>
       wpc[rw[r]] = "live" /\ wgen[rw[r]] = rgen[r] /\ rw[r] \notin idle[rgen[r]]
  /\ \A r, q \in Requests : rw[r] \in Workers /\ rw[r] = rw[q] => r = q
  /\ \A w \in Workers : wpc[w] = "live" => w \in idle[wgen[w]] \/ \E r \in Requests : rw[r] = w

\* WorkerPlaces says as much as WorkerExclusive, which counts the places.
LEMMA PlacesExclusive == TypeOK /\ WorkerPlaces => WorkerExclusive
  <1> SUFFICES ASSUME TypeOK, WorkerPlaces, NEW w \in Workers
               PROVE  IF wpc[w] = "live"
                      THEN \/ Parked(w) = {wgen[w]} /\ Holders(w) = {}
                           \/ /\ Parked(w) = {}
                              /\ \E r \in Requests : Holders(w) = {r} /\ rgen[r] = wgen[w]
                      ELSE Parked(w) = {} /\ Holders(w) = {}
    BY DEF WorkerExclusive
  <1>1. wpc[w] = "live" => wgen[w] \in Gens
    BY DEF TypeOK, WorkerTypes
  <1>2. CASE wpc[w] # "live"
    BY <1>2 DEF WorkerPlaces, Parked, Holders
  <1>3. CASE wpc[w] = "live" /\ w \in idle[wgen[w]]
    BY <1>1, <1>3 DEF WorkerPlaces, Parked, Holders
  <1>4. CASE wpc[w] = "live" /\ w \notin idle[wgen[w]]
    <2>1. PICK r \in Requests : rw[r] = w
      BY <1>4 DEF WorkerPlaces
    <2>2. Holders(w) = {r} /\ rgen[r] = wgen[w]
      BY <2>1 DEF WorkerPlaces, Holders
    <2>3. Parked(w) = {}
      BY <1>4 DEF WorkerPlaces, Parked
    <2> QED
      BY <1>4, <2>2, <2>3
  <1> QED
    BY <1>2, <1>3, <1>4

\* The three ways a step leaves the places alone, kills parked workers, or
\* kills the worker of the request that makes the step.
LEMMA PlacesUnchanged ==
  ASSUME WorkerPlaces, UNCHANGED <<wpc, wgen, idle, rw, rgen>>
  PROVE  WorkerPlaces'
  BY DEF WorkerPlaces

\* The workers in some idle channel, and what is known of each.
ParkedWorkers == UNION {idle[g] : g \in Gens}

\* A parked worker runs, in the channel of its own generation.
LEMMA ParkedFacts ==
  ASSUME TypeOK, WorkerPlaces, NEW w \in ParkedWorkers
  PROVE  w \in Workers /\ wpc[w] = "live" /\ wgen[w] \in Gens /\ w \in idle[wgen[w]]
  BY DEF TypeOK, PoolTypes, WorkerPlaces, ParkedWorkers

\* Removing parked workers from their channels and killing them.
LEMMA KillIdle ==
  ASSUME TypeOK, WorkerPlaces, NEW W, W \subseteq ParkedWorkers,
         \A w \in Workers : wpc'[w] = (IF w \in W THEN "dead" ELSE wpc[w]),
         \A w \in Workers : wgen'[w] = (IF w \in W THEN None ELSE wgen[w]),
         \A g \in Gens : idle'[g] = idle[g] \ W,
         UNCHANGED <<rw, rgen>>
  PROVE  WorkerPlaces'
  <1>1. /\ idle \in [Gens -> SUBSET Workers] /\ wgen \in [Workers -> Gens \cup {None}]
        /\ rw \in [Requests -> Workers \cup {NoWorker}]
        /\ \A w \in Workers : wpc[w] = "live" => wgen[w] \in Gens
    BY DEF TypeOK, PoolTypes, WorkerTypes, ReqTypes
  <1>2. \A g \in Gens : \A w \in idle'[g] : wpc'[w] = "live" /\ wgen'[w] = g
    BY <1>1 DEF WorkerPlaces
  <1>3. \A r \in Requests : rw[r] \in Workers => rw[r] \notin W /\ rgen[r] \in Gens
    BY <1>1, ParkedFacts DEF WorkerPlaces
  <1>4. \A w \in Workers : wpc'[w] = "live" => w \in idle'[wgen'[w]] \/ \E r \in Requests : rw'[r] = w
    BY <1>1 DEF WorkerPlaces
  <1>5. \A r \in Requests : rw'[r] \in Workers =>
           wpc'[rw'[r]] = "live" /\ wgen'[rw'[r]] = rgen'[r] /\ rw'[r] \notin idle'[rgen'[r]]
    BY <1>1, <1>3 DEF WorkerPlaces
  <1> QED
    BY <1>2, <1>4, <1>5 DEF WorkerPlaces

\* The steps that only kill workers parked in channels: the drain of a
\* retirement, the scaler and the reaper.
KillsParked(W) ==
  /\ W \subseteq ParkedWorkers
  /\ KillWorkers(W)
  /\ \A g \in Gens : idle'[g] = idle[g] \ W
  /\ UNCHANGED <<rw, rgen, spawning, sdpc>>

\* The actions whose only effect on the workers is KillsParked.
KillStep ==
  \/ \E o \in Operators : DrainOne(o)
  \/ \E g \in Gens : Evaluate(g) \/ Sweep(g)
  \/ Shrink

\* reclaimBorrowedIdle takes its victim from an idle channel.
LEMMA ReclaimIsParked ==
  \A g : \A R \in ReclaimChoices(g) \cup {{}} : R \subseteq ParkedWorkers
  BY DEF ReclaimChoices, Reclaimable, Donors, ParkedWorkers

\* Each KillStep kills exactly the workers it takes out of the channels.
LEMMA KillStepKills ==
  ASSUME TypeOK, WorkerPlaces, KillStep
  PROVE  (\E W : KillsParked(W)) \/ UNCHANGED <<wpc, wgen, reserved, idle, rw, rgen, spawning, sdpc>>
  <1> USE DEF regVars, genVars, poolVars, workerVars, reqVars, scalerVars, opVars, ParkedWorkers
  <1>1. idle \in [Gens -> SUBSET Workers] /\ ogen \in [Operators -> Gens \cup {None}]
        /\ (spc = "shrink" => sgen \in Gens)
    BY DEF TypeOK, PoolTypes, OpTypes, ScalerTypes
  <1>2. \A g \in Gens : \A w \in idle[g] : wgen[w] = g
    BY DEF WorkerPlaces
  <1>3. ASSUME NEW o \in Operators, DrainOne(o) PROVE \E W : KillsParked(W)
    <2>1. PICK w \in idle[ogen[o]] : /\ idle' = [idle EXCEPT ![ogen[o]] = @ \ {w}]
                                     /\ KillWorkers({w})
      BY <1>3 DEF DrainOne, DrainFrom
    <2>2. ogen[o] \in Gens
      BY <1>1, <1>3 DEF DrainOne
    <2>3. KillsParked({w})
      BY <1>1, <1>2, <1>3, <2>1, <2>2 DEF DrainOne, DrainFrom, KillsParked
    <2> QED
      BY <2>3
  <1>4. ASSUME NEW g \in Gens, Evaluate(g) PROVE \E W : KillsParked(W)
    <2>1. PICK R : /\ R \in ReclaimChoices(g) \cup {{}}
                   /\ RemoveIdle(R) /\ KillWorkers(R)
      BY <1>4 DEF Evaluate
    <2>2. KillsParked(R)
      BY <1>4, <2>1, ReclaimIsParked DEF Evaluate, KillsParked, RemoveIdle
    <2> QED
      BY <2>2
  <1>5. ASSUME NEW g \in Gens, Sweep(g) PROVE \E W : KillsParked(W)
    <2>1. KillsParked(idle[g] \cap wbad)
      BY <1>1, <1>2, <1>5 DEF Sweep, KillsParked
    <2> QED
      BY <2>1
  <1>6. CASE Shrink
    <2>1. ASSUME NEW w \in idle[sgen], RemoveIdle({w}), KillWorkers({w}) PROVE \E W : KillsParked(W)
      <3>1. KillsParked({w})
        BY <1>1, <1>2, <1>6, <2>1 DEF Shrink, KillsParked, RemoveIdle
      <3> QED
        BY <3>1
    <2> QED
      BY <1>6, <2>1 DEF Shrink
  <1> QED
    BY <1>3, <1>4, <1>5, <1>6 DEF KillStep

\* What ReserveMemory does: it takes back at most the parked workers R, then
\* starts one worker or gives up.
KilledPc(R) == [w \in Workers |-> IF w \in R THEN "dead" ELSE wpc[w]]
KilledGen(R) == [w \in Workers |-> IF w \in R THEN None ELSE wgen[w]]
Starts(R, w) ==
  /\ w \in R \/ wpc[w] = "dead"
  /\ wpc' = [KilledPc(R) EXCEPT ![w] = "starting"]
  /\ wgen' = [KilledGen(R) EXCEPT ![w] = sgen]

\* The two outcomes of ReserveMemory: a worker starts, or the attempt fails.
LEMMA ReserveEffect ==
  ASSUME ReserveMemory
  PROVE  \E R \in ReclaimChoices(sgen) \cup {{}} :
           /\ RemoveIdle(R)
           /\ \/ /\ AvailableForWorkers(Released(Cardinality(R))) >= 1
                 /\ reserved' = Released(Cardinality(R)) + 1
                 /\ \E w \in Workers : Starts(R, w)
                 /\ UNCHANGED spawning
              \/ /\ reserved' = Released(Cardinality(R))
                 /\ wpc' = KilledPc(R) /\ wgen' = KilledGen(R)
                 /\ spawning' = Dec(spawning, sgen)
  <1> DEFINE Choices == IF AvailableForWorkers(reserved) >= 1 THEN {{}} ELSE ReclaimChoices(sgen)
             Effect(R) == /\ RemoveIdle(R)
                          /\ \/ /\ AvailableForWorkers(Released(Cardinality(R))) >= 1
                                /\ reserved' = Released(Cardinality(R)) + 1
                                /\ \E w \in Workers :
                                     /\ KilledPc(R)[w] = "dead"
                                     /\ wpc' = [KilledPc(R) EXCEPT ![w] = "starting"]
                                     /\ wgen' = [KilledGen(R) EXCEPT ![w] = sgen]
                                /\ UNCHANGED spawning
                             \/ /\ reserved' = Released(Cardinality(R))
                                /\ wpc' = KilledPc(R) /\ wgen' = KilledGen(R)
                                /\ spawning' = Dec(spawning, sgen)
  <1>1. PICK R \in Choices : Effect(R)
    BY DEF ReserveMemory, KilledPc, KilledGen
  <1>2. R \in ReclaimChoices(sgen) \cup {{}}
    OBVIOUS
  <1>3. \A w \in Workers : KilledPc(R)[w] = "dead" => w \in R \/ wpc[w] = "dead"
    BY DEF KilledPc
  <1> QED
    BY <1>1, <1>2, <1>3 DEF Starts

\* Each step of the scaler, of a spawning goroutine, of an operator and of
\* the shutdown keeps every worker in one place.
LEMMA PlacesByOthers ==
  ASSUME TypeOK, WorkerPlaces, OtherStep
  PROVE  WorkerPlaces'
  <1> USE DEF regVars, genVars, poolVars, workerVars, reqVars, scalerVars, opVars
  <1> USE GensNat
  <1>1. /\ idle \in [Gens -> SUBSET Workers] /\ wgen \in [Workers -> Gens \cup {None}]
        /\ wpc \in [Workers -> LiveStates \cup {"dead"}]
        /\ rw \in [Requests -> Workers \cup {NoWorker}]
        /\ \A w \in Workers : wpc[w] # "dead" => wgen[w] \in Gens
        /\ spc = "reserve" => sgen \in Gens
        /\ pools \in [Functions -> Gens \cup {None}]
    BY DEF TypeOK, PoolTypes, WorkerTypes, ReqTypes, ScalerTypes, GenTypes
  <1>2. CASE KillStep
    <2>1. ASSUME NEW W, KillsParked(W) PROVE WorkerPlaces'
      BY <2>1, KillIdle DEF KillsParked, KillWorkers
    <2> QED
      BY <1>2, <2>1, KillStepKills, PlacesUnchanged
  <1>3. CASE ReserveMemory
    <2>1. PICK R \in ReclaimChoices(sgen) \cup {{}} :
            /\ RemoveIdle(R)
            /\ (\E w \in Workers : Starts(R, w)) \/ (wpc' = KilledPc(R) /\ wgen' = KilledGen(R))
      BY <1>3, ReserveEffect
    <2>2. /\ R \subseteq ParkedWorkers /\ R \subseteq Workers
          /\ \A w \in R : w \in idle[wgen[w]] /\ wpc[w] = "live"
      BY <2>1, ReclaimIsParked, ParkedFacts
    <2>3. UNCHANGED <<rw, rgen>> /\ \A g \in Gens : idle'[g] = idle[g] \ R
      BY <1>3, <2>1 DEF ReserveMemory, RemoveIdle
    <2>4. ASSUME NEW w \in Workers, Starts(R, w)
          PROVE  WorkerPlaces'
      <3>0. /\ \A x \in Workers : x # w => /\ wpc'[x] = (IF x \in R THEN "dead" ELSE wpc[x])
                                           /\ wgen'[x] = (IF x \in R THEN None ELSE wgen[x])
            /\ wpc'[w] = "starting" /\ (w \in R \/ wpc[w] = "dead")
        BY <1>1, <2>4 DEF Starts, KilledPc, KilledGen
      <3>1. \A g \in Gens : \A x \in idle'[g] : wpc'[x] = "live" /\ wgen'[x] = g
        <4> SUFFICES ASSUME NEW g \in Gens, NEW x \in idle'[g] PROVE wpc'[x] = "live" /\ wgen'[x] = g
          OBVIOUS
        <4>1. x \in Workers /\ x \notin R /\ wpc[x] = "live" /\ wgen[x] = g
          BY <1>1, <2>3 DEF WorkerPlaces
        <4> QED
          BY <2>4, <3>0, <4>1
      <3>2. \A r \in Requests : rw[r] \in Workers => rw[r] # w /\ rw[r] \notin R /\ rgen[r] \in Gens
        BY <1>1, <2>2, <3>0 DEF WorkerPlaces
      <3>3. \A r \in Requests : rw'[r] \in Workers =>
               wpc'[rw'[r]] = "live" /\ wgen'[rw'[r]] = rgen'[r] /\ rw'[r] \notin idle'[rgen'[r]]
        <4> SUFFICES ASSUME NEW r \in Requests, rw[r] \in Workers
                     PROVE  wpc'[rw[r]] = "live" /\ wgen'[rw[r]] = rgen[r] /\ rw[r] \notin idle'[rgen[r]]
          BY <2>3
        <4>1. wpc[rw[r]] = "live" /\ wgen[rw[r]] = rgen[r] /\ rw[r] \notin idle[rgen[r]]
          BY DEF WorkerPlaces
        <4> QED
          BY <2>3, <3>0, <3>2, <4>1
      <3>4. \A x \in Workers : wpc'[x] = "live" => x \in idle'[wgen'[x]] \/ \E r \in Requests : rw'[r] = x
        <4> SUFFICES ASSUME NEW x \in Workers, wpc'[x] = "live"
                     PROVE  x \in idle'[wgen'[x]] \/ \E r \in Requests : rw'[r] = x
          OBVIOUS
        <4>1. wpc[x] = "live" /\ x \notin R /\ wgen'[x] = wgen[x] /\ wgen[x] \in Gens
          BY <1>1, <3>0
        <4> QED
          BY <2>3, <4>1 DEF WorkerPlaces
      <3> QED
        BY <2>3, <3>1, <3>3, <3>4 DEF WorkerPlaces
    <2>5. CASE wpc' = KilledPc(R) /\ wgen' = KilledGen(R)
      BY <2>2, <2>3, <2>5, KillIdle DEF KilledPc, KilledGen
    <2> QED
      BY <2>1, <2>4, <2>5
  <1>4. ASSUME NEW f \in Functions, ShutdownQuit(f) PROVE WorkerPlaces'
    <2>1. PICK w \in idle[pools[f]] : RemoveIdle({w}) /\ wpc' = [wpc EXCEPT ![w] = "dead"]
                                      /\ wgen' = [wgen EXCEPT ![w] = None]
      BY <1>4 DEF ShutdownQuit
    <2>2. pools[f] \in Gens
      BY <1>1, <1>4 DEF ShutdownQuit
    <2>3. {w} \subseteq ParkedWorkers
      BY <2>1, <2>2 DEF ParkedWorkers
    <2>4. \A x \in Workers : wpc'[x] = (IF x \in {w} THEN "dead" ELSE wpc[x])
                             /\ wgen'[x] = (IF x \in {w} THEN None ELSE wgen[x])
      BY <1>1, <2>1
    <2>5. UNCHANGED <<rw, rgen>> /\ \A g \in Gens : idle'[g] = idle[g] \ {w}
      BY <1>4, <2>1 DEF ShutdownQuit, RemoveIdle
    <2> QED
      BY <2>3, <2>4, <2>5, KillIdle
  <1>5. ASSUME NEW w \in Workers, SpawnStep(w) PROVE WorkerPlaces'
    <2>1. wpc[w] \in {"starting", "ready"} /\ wgen[w] \in Gens
      BY <1>1, <1>5 DEF SpawnStep, SpawnOk, SpawnFail, Park
    <2>2. (\A g \in Gens : w \notin idle[g]) /\ \A r \in Requests : rw[r] # w
      BY <2>1 DEF WorkerPlaces
    <2>3. UNCHANGED <<rw, rgen>> /\ \A x \in Workers : x # w => wpc'[x] = wpc[x] /\ wgen'[x] = wgen[x]
      BY <1>1, <1>5 DEF SpawnStep, SpawnOk, SpawnFail, Park, KillWorkers
    <2>4. CASE idle' = idle /\ wpc'[w] # "live"
      <3>1. \A g \in Gens : \A x \in idle'[g] : wpc'[x] = "live" /\ wgen'[x] = g
        BY <1>1, <2>2, <2>3, <2>4 DEF WorkerPlaces
      <3>2. \A r \in Requests : rw'[r] \in Workers =>
               wpc'[rw'[r]] = "live" /\ wgen'[rw'[r]] = rgen'[r] /\ rw'[r] \notin idle'[rgen'[r]]
        BY <2>2, <2>3, <2>4 DEF WorkerPlaces
      <3>3. \A x \in Workers : wpc'[x] = "live" => x \in idle'[wgen'[x]] \/ \E r \in Requests : rw'[r] = x
        BY <2>3, <2>4 DEF WorkerPlaces
      <3> QED
        BY <2>3, <3>1, <3>2, <3>3 DEF WorkerPlaces
    <2>5. CASE idle' = [idle EXCEPT ![wgen[w]] = @ \cup {w}] /\ wpc'[w] = "live" /\ wgen' = wgen
      BY <1>1, <2>1, <2>2, <2>3, <2>5 DEF WorkerPlaces
    <2> QED
      BY <1>1, <1>5, <2>4, <2>5 DEF SpawnStep, SpawnOk, SpawnFail, Park, KillWorkers
  <1>6. CASE UNCHANGED <<wpc, wgen, idle, rw, rgen>>
    BY <1>6, PlacesUnchanged
  <1> QED
    BY <1>2, <1>3, <1>4, <1>5, <1>6
       DEF OtherStep, KillStep, RefreshAvail, OperatorStep, RetirePool, DrainDone, ChangeFunction, Prewarm,
           ScalerStep, ScalerPass, PassDone, StartSpawn, Shrink, WorkerExits, BeginShutdown, ShutdownStep,
           ScalerExits, ScalerStopped, ShutdownRetire, ShutdownDone

\* So does each step of a request.
LEMMA PlacesByRequests ==
  ASSUME TypeOK, WorkerPlaces, NEW r \in Requests,
         (\E f \in Functions : Arrive(r, f)) \/ RequestStep(r) \/ WaitEnds(r)
  PROVE  WorkerPlaces'
  <1> USE DEF regVars, genVars, poolVars, workerVars, reqVars, scalerVars, opVars
  <1> USE GensNat
  <1>1. /\ idle \in [Gens -> SUBSET Workers] /\ wgen \in [Workers -> Gens \cup {None}]
        /\ wpc \in [Workers -> LiveStates \cup {"dead"}]
        /\ rw \in [Requests -> Workers \cup {NoWorker}] /\ rgen \in [Requests -> Gens \cup {None}]
        /\ pc \in [Requests -> RequestPCs]
        /\ pc[r] \notin {"new", "pool"} => rgen[r] \in Gens
        /\ pc[r] \in HoldsWorker <=> rw[r] \in Workers
        /\ NoWorker \notin Workers
    BY PoolAssumption DEF TypeOK, PoolTypes, WorkerTypes, ReqTypes, PoolAssumption
  <1>2. \A q \in Requests : rw[q] \in Workers => rgen[q] \in Gens
    BY DEF TypeOK, ReqTypes, HoldsWorker
  \* r holds no worker before or after the step, or keeps the one it has.
  <1>3. CASE /\ UNCHANGED <<wpc, wgen, idle, rw>>
             /\ \A q \in Requests : rw[q] \in Workers => rgen'[q] = rgen[q]
    BY <1>3 DEF WorkerPlaces
  <1>4. CASE /\ UNCHANGED <<wpc, wgen, idle>> /\ rw[r] \notin Workers
             /\ rw' = [rw EXCEPT ![r] = NoWorker] /\ \A q \in Requests : q # r => rgen'[q] = rgen[q]
    <2>1. \A q \in Requests : rw'[q] \in Workers => q # r /\ rw'[q] = rw[q] /\ rgen'[q] = rgen[q]
      BY <1>1, <1>4
    <2>2. \A w \in Workers, q \in Requests : rw[q] = w => rw'[q] = w
      BY <1>1, <1>4
    <2> QED
      BY <1>4, <2>1, <2>2 DEF WorkerPlaces
  <1>5. CASE PopIdle(r)
    <2>1. PICK w \in idle[rgen[r]] : /\ idle' = [idle EXCEPT ![rgen[r]] = @ \ {w}]
                                     /\ rw' = [rw EXCEPT ![r] = w]
      BY <1>5 DEF PopIdle
    <2>2. rgen[r] \in Gens /\ w \in Workers /\ wpc[w] = "live" /\ wgen[w] = rgen[r] /\ rw[r] \notin Workers
      <3>1. rgen[r] \in Gens /\ rw[r] \notin Workers
        BY <1>1, <1>5 DEF PopIdle, HoldsWorker
      <3>2. w \in Workers
        BY <1>1, <2>1, <3>1
      <3> QED
        BY <2>1, <3>1, <3>2 DEF WorkerPlaces
    <2>3. UNCHANGED <<wpc, wgen, rgen>>
      BY <1>5 DEF PopIdle
    <2>4. \A q \in Requests : rw[q] # w
      BY <2>1, <2>2 DEF WorkerPlaces
    <2>5. \A g \in Gens : idle'[g] = idle[g] \ {w}
      BY <1>1, <2>1, <2>2 DEF WorkerPlaces
    <2>6. \A q \in Requests : q # r => rw'[q] = rw[q]
      BY <1>1, <2>1
    <2>7. rw'[r] = w
      BY <1>1, <2>1
    <2>8. \A q \in Requests : rw'[q] \in Workers =>
               wpc'[rw'[q]] = "live" /\ wgen'[rw'[q]] = rgen'[q] /\ rw'[q] \notin idle'[rgen'[q]]
      <3>1. ASSUME NEW q \in Requests, q # r, rw[q] \in Workers
            PROVE  wpc[rw[q]] = "live" /\ wgen[rw[q]] = rgen[q] /\ rw[q] \notin idle'[rgen[q]]
        <4>1. wpc[rw[q]] = "live" /\ wgen[rw[q]] = rgen[q] /\ rw[q] \notin idle[rgen[q]]
          BY <3>1 DEF WorkerPlaces
        <4> QED
          BY <1>2, <2>5, <3>1, <4>1
      <3>2. wpc'[rw'[r]] = "live" /\ wgen'[rw'[r]] = rgen'[r] /\ rw'[r] \notin idle'[rgen'[r]]
        BY <2>2, <2>3, <2>5, <2>7
      <3>3. ASSUME NEW q \in Requests, q # r, rw'[q] \in Workers
            PROVE  wpc'[rw'[q]] = "live" /\ wgen'[rw'[q]] = rgen'[q] /\ rw'[q] \notin idle'[rgen'[q]]
        BY <2>3, <2>6, <3>1, <3>3
      <3> QED
        BY <3>2, <3>3
    <2>9. \A x \in Workers : wpc'[x] = "live" => x \in idle'[wgen'[x]] \/ \E q \in Requests : rw'[q] = x
      <3> SUFFICES ASSUME NEW x \in Workers, wpc[x] = "live", x # w, x \notin idle[wgen[x]]
                   PROVE  \E q \in Requests : rw'[q] = x
        BY <1>1, <2>1, <2>2, <2>3, <2>5, <2>7
      <3>1. PICK q \in Requests : rw[q] = x
        BY DEF WorkerPlaces
      <3> QED
        BY <2>2, <2>6, <3>1
    <2> QED
      BY <2>2, <2>3, <2>4, <2>5, <2>6, <2>7, <2>8, <2>9 DEF WorkerPlaces
  \* The worker of r dies with the step.
  <1>6. ASSUME KillWorkers({rw[r]}), rw[r] \in Workers, rw' = [rw EXCEPT ![r] = NoWorker],
               UNCHANGED <<idle, rgen>>
        PROVE  WorkerPlaces'
    <2>1. \A g \in Gens : rw[r] \notin idle[g]
      BY <1>6 DEF WorkerPlaces
    <2>2. \A q \in Requests : q # r => rw'[q] = rw[q] /\ (rw[q] \in Workers => rw[q] # rw[r])
      BY <1>1, <1>6 DEF WorkerPlaces
    <2>3. rw'[r] \notin Workers
      BY <1>1, <1>6
    <2>4. \A x \in Workers : x # rw[r] => wpc'[x] = wpc[x] /\ wgen'[x] = wgen[x]
      BY <1>1, <1>6 DEF KillWorkers
    <2>5. wpc'[rw[r]] = "dead"
      BY <1>1, <1>6 DEF KillWorkers
    <2>6. \A g \in Gens : \A w \in idle'[g] : wpc'[w] = "live" /\ wgen'[w] = g
      BY <1>1, <1>6, <2>1, <2>4 DEF WorkerPlaces
    <2>7. \A q \in Requests : rw'[q] \in Workers =>
               wpc'[rw'[q]] = "live" /\ wgen'[rw'[q]] = rgen'[q] /\ rw'[q] \notin idle'[rgen'[q]]
      BY <1>6, <2>2, <2>3, <2>4 DEF WorkerPlaces
    <2>8. \A x \in Workers : wpc'[x] = "live" => x \in idle'[wgen'[x]] \/ \E q \in Requests : rw'[q] = x
      <3> SUFFICES ASSUME NEW x \in Workers, wpc[x] = "live", x # rw[r], x \notin idle[wgen[x]]
                   PROVE  \E q \in Requests : rw'[q] = x
        BY <1>6, <2>4, <2>5
      <3>1. PICK q \in Requests : rw[q] = x
        BY DEF WorkerPlaces
      <3> QED
        BY <2>2, <3>1
    <2> QED
      BY <2>2, <2>3, <2>6, <2>7, <2>8 DEF WorkerPlaces
  <1>7. CASE CheckWorker(r)
    <2>1. rw[r] \in Workers /\ rgen' = rgen /\ idle' = idle
      BY <1>1, <1>7 DEF CheckWorker, HoldsWorker, Goto, RetryOnReplacement
    <2> QED
      BY <1>3, <1>6, <1>7, <2>1 DEF CheckWorker, Goto
  <1>8. CASE ReleasePark(r)
    <2>1. rw[r] \in Workers /\ rgen[r] \in Gens /\ rgen' = rgen /\ rw' = [rw EXCEPT ![r] = NoWorker]
      BY <1>1, <1>8 DEF ReleasePark, HoldsWorker
    <2>2. CASE idle' = [idle EXCEPT ![rgen[r]] = @ \cup {rw[r]}] /\ UNCHANGED <<wpc, wgen>>
      <3>1. wpc[rw[r]] = "live" /\ wgen[rw[r]] = rgen[r]
        BY <2>1 DEF WorkerPlaces
      <3>2. \A q \in Requests : q # r => rw'[q] = rw[q] /\ (rw[q] \in Workers => rw[q] # rw[r])
        BY <1>1, <2>1 DEF WorkerPlaces
      <3>3. rw'[r] \notin Workers
        BY <1>1, <2>1
      <3>4. \A g \in Gens : idle'[g] = (IF g = rgen[r] THEN idle[g] \cup {rw[r]} ELSE idle[g])
        BY <1>1, <2>1, <2>2
      <3>5. \A g \in Gens : \A w \in idle'[g] : wpc'[w] = "live" /\ wgen'[w] = g
        BY <2>2, <3>1, <3>4 DEF WorkerPlaces
      <3>6. \A q \in Requests : rw'[q] \in Workers =>
                 wpc'[rw'[q]] = "live" /\ wgen'[rw'[q]] = rgen'[q] /\ rw'[q] \notin idle'[rgen'[q]]
        BY <1>2, <2>1, <2>2, <3>2, <3>3, <3>4 DEF WorkerPlaces
      <3>7. \A x \in Workers : wpc'[x] = "live" => x \in idle'[wgen'[x]] \/ \E q \in Requests : rw'[q] = x
        <4> SUFFICES ASSUME NEW x \in Workers, wpc[x] = "live", x # rw[r], x \notin idle[wgen[x]]
                     PROVE  \E q \in Requests : rw'[q] = x
          <5>1. \A x \in Workers : wpc[x] = "live" => wgen[x] \in Gens
            BY DEF TypeOK, WorkerTypes
          <5>2. \A x \in Workers : wpc[x] = "live" /\ (x = rw[r] \/ x \in idle[wgen[x]]) => x \in idle'[wgen[x]]
            BY <2>1, <3>1, <3>4, <5>1
          <5> QED
            BY <2>2, <5>2
        <4>1. PICK q \in Requests : rw[q] = x
          BY DEF WorkerPlaces
        <4> QED
          BY <3>2, <4>1
      <3> QED
        BY <3>2, <3>3, <3>5, <3>6, <3>7 DEF WorkerPlaces
    <2> QED
      BY <1>6, <1>8, <2>1, <2>2 DEF ReleasePark, ReleaseTarget
  <1>9. CASE \/ \E f \in Functions : Arrive(r, f)
             \/ ReserveGlobalQueue(r) \/ ReservePoolQueue(r) \/ AcquireSlot(r) \/ AcquireHostSlot(r)
             \/ Admit(r) \/ Finish(r) \/ ReleaseBusy(r) \/ ReleaseSlots(r) \/ WaitEnds(r)
    <2>1. UNCHANGED <<wpc, wgen, idle>>
      BY <1>9 DEF Arrive, ReserveGlobalQueue, ReservePoolQueue, AcquireSlot, AcquireHostSlot, Admit, Finish,
                  ReleaseBusy, ReleaseSlots, WaitEnds, SlotTimeout, AcquireFails
    <2>2. \/ UNCHANGED <<rw, rgen>>
          \/ pc[r] \notin HoldsWorker /\ Answered(r)
      BY <1>9 DEF Arrive, ReserveGlobalQueue, ReservePoolQueue, AcquireSlot, AcquireHostSlot, Admit, Finish,
                  ReleaseBusy, ReleaseSlots, WaitEnds, SlotTimeout, AcquireFails, Goto, RetryOnReplacement,
                  HoldsWorker
    <2> QED
      BY <1>1, <1>3, <1>4, <2>1, <2>2 DEF Answered
  <1>10. CASE GetOrCreatePool(r)
    <2>1. UNCHANGED <<wpc, wgen, idle>> /\ pc[r] \notin HoldsWorker
      BY <1>10 DEF GetOrCreatePool, HoldsWorker
    <2>2. Answered(r) \/ (UNCHANGED rw /\ \E g : rgen' = [rgen EXCEPT ![r] = g])
      BY <1>10 DEF GetOrCreatePool
    <2> QED
      BY <1>1, <1>3, <1>4, <2>1, <2>2 DEF Answered
  <1> QED
    BY <1>5, <1>7, <1>8, <1>9, <1>10 DEF RequestStep

\* Every step keeps every worker in one place.
LEMMA NextPlaces == TypeOK /\ WorkerPlaces /\ [Next]_vars => WorkerPlaces'
  BY TwoKinds, PlacesByRequests, PlacesByOthers, PlacesUnchanged
     DEF vars, genVars, poolVars, workerVars, reqVars

----------------------------------------------------------------------------
(* The scaler and the goroutines that spawn workers.                      *)

\* Nothing is started once Shutdown has waited for the scaler and spawnWG.
ScalerGone == sdpc \in {"draining", "down"} => spc = "stopped" /\ SpawnersDone

\* Once the shutdown drains, neither the scaler nor a spawning goroutine is
\* back.
LEMMA NextScalerGone == TypeOK /\ ScalerGone /\ [Next]_vars => ScalerGone'
  <1> SUFFICES ASSUME TypeOK, ScalerGone, [Next]_vars PROVE ScalerGone'
    OBVIOUS
  <1> USE DEF regVars, genVars, poolVars, workerVars, reqVars, scalerVars, opVars, ScalerGone, SpawnersDone
  <1>1. wpc \in [Workers -> LiveStates \cup {"dead"}]
    BY DEF TypeOK, WorkerTypes
  <1>2. ASSUME NEW r \in Requests,
               (\E f \in Functions : Arrive(r, f)) \/ RequestStep(r) \/ WaitEnds(r)
        PROVE  ScalerGone'
    BY <1>1, <1>2
       DEF Arrive, RequestStep, WaitEnds, GetOrCreatePool, ReserveGlobalQueue, ReservePoolQueue, AcquireSlot,
           PopIdle, CheckWorker, AcquireHostSlot, Admit, Finish, ReleaseBusy, ReleasePark, ReleaseSlots,
           SlotTimeout, AcquireFails, KillWorkers
  <1>3. ASSUME NEW o \in Operators, OperatorStep(o) PROVE ScalerGone'
    BY <1>1, <1>3 DEF OperatorStep, RetirePool, DrainOne, DrainFrom, DrainDone, KillWorkers
  <1>4. CASE ScalerStep
    BY <1>1, <1>4 DEF ScalerStep, ScalerPass, PassDone, Evaluate, StartSpawn, ReserveMemory, Shrink
  <1>5. ASSUME NEW w \in Workers, SpawnStep(w) \/ WorkerExits(w) PROVE ScalerGone'
    BY <1>1, <1>5 DEF SpawnStep, SpawnOk, SpawnFail, Park, WorkerExits, KillWorkers
  <1>6. ASSUME NEW g \in Gens, Sweep(g) PROVE ScalerGone'
    BY <1>1, <1>6 DEF Sweep, KillWorkers
  <1>7. CASE BeginShutdown \/ ShutdownStep
    BY <1>1, <1>7, ZenonT(60) DEF BeginShutdown, ShutdownStep, ScalerExits, ScalerStopped, ShutdownDone, ShutdownRetire,
                      ShutdownQuit
  <1>8. ASSUME NEW o \in Operators, NEW f \in Functions, NEW deletes \in BOOLEAN,
               ChangeFunction(o, f, deletes)
        PROVE  ScalerGone'
    BY <1>8 DEF ChangeFunction
  <1>9. ASSUME NEW f \in Functions, Prewarm(f) PROVE ScalerGone'
    BY <1>9 DEF Prewarm
  <1>10. CASE RefreshAvail \/ UNCHANGED vars
    BY <1>10 DEF RefreshAvail, vars
  <1> QED
    BY <1>2, <1>3, <1>4, <1>5, <1>6, <1>7, <1>8, <1>9, <1>10, TwoKinds DEF OtherStep

\* The part of CountersBalanced about workers.
Starters(g) == {w \in Workers : wpc[w] = "starting" /\ wgen[w] = g}
Reserving(g) == IF spc = "reserve" /\ sgen = g THEN 1 ELSE 0
SpawnCounter == \A g \in Gens : spawning[g] = Cardinality(Starters(g)) + Reserving(g)

\* Only w begins or ends to start.
OnlyStarts(w) ==
  \A x \in Workers : x # w => /\ wpc'[x] = "starting" <=> wpc[x] = "starting"
                              /\ wpc[x] = "starting" => wgen'[x] = wgen[x]
StartShare(w, g) == IF wpc[w] = "starting" /\ wgen[w] = g THEN 1 ELSE 0

\* When only w begins or ends to start, the sets of starting workers change by
\* w alone.
LEMMA OneWorkerStarts ==
  ASSUME NEW w \in Workers, OnlyStarts(w)
  PROVE  \A g : Cardinality(Starters(g))' = Cardinality(Starters(g)) - StartShare(w, g) + StartShare(w, g)'
  <1> SUFFICES ASSUME NEW g
               PROVE  Cardinality(Starters(g))' = Cardinality(Starters(g)) - StartShare(w, g) + StartShare(w, g)'
    OBVIOUS
  <1> DEFINE S == Starters(g)
             T == {x \in Workers : wpc'[x] = "starting" /\ wgen'[x] = g}
  <1>1. IsFiniteSet(S) /\ IsFiniteSet(T)
    BY WorkerSets DEF Starters
  <1>2. \A y : y # w => (y \in S <=> y \in T)
    BY DEF OnlyStarts, Starters
  <1>3. Cardinality(T) = Cardinality(S) - (IF w \in S THEN 1 ELSE 0) + (IF w \in T THEN 1 ELSE 0)
    <2> HIDE DEF S, T
    <2> QED BY <1>1, <1>2, SizeByOne
  <1>4. (IF w \in S THEN 1 ELSE 0) = StartShare(w, g) /\ (IF w \in T THEN 1 ELSE 0) = StartShare(w, g)'
    BY DEF Starters, StartShare
  <1>5. Starters(g)' = T
    BY DEF Starters
  <1> QED
    BY <1>3, <1>4, <1>5

\* A step that starts nobody and does not reserve leaves the counter right.
LEMMA StartersStay ==
  ASSUME \A x \in Workers : /\ wpc'[x] = "starting" <=> wpc[x] = "starting"
                            /\ wpc[x] = "starting" => wgen'[x] = wgen[x]
  PROVE  \A g : Starters(g)' = Starters(g)
  BY DEF Starters

\* A step after which the same workers start and the scaler reserves as before.
LEMMA CounterStays ==
  ASSUME SpawnCounter, UNCHANGED spawning,
         spc' = "reserve" <=> spc = "reserve", spc = "reserve" => sgen' = sgen,
         \A x \in Workers : /\ wpc'[x] = "starting" <=> wpc[x] = "starting"
                            /\ wpc[x] = "starting" => wgen'[x] = wgen[x]
  PROVE  SpawnCounter'
  <1>1. \A g : Cardinality(Starters(g))' = Cardinality(Starters(g))
    BY StartersStay
  <1>2. \A g \in Gens : Reserving(g)' = Reserving(g)
    BY DEF Reserving
  <1> QED
    BY <1>1, <1>2 DEF SpawnCounter

\* Every step keeps p.spawning the number of the workers being spawned.
LEMMA NextSpawnCounter == TypeOK /\ WorkerPlaces /\ SpawnCounter /\ [Next]_vars => SpawnCounter'
  <1> SUFFICES ASSUME TypeOK, WorkerPlaces, SpawnCounter, [Next]_vars PROVE SpawnCounter'
    OBVIOUS
  <1> USE DEF regVars, genVars, poolVars, workerVars, reqVars, scalerVars, opVars
  <1>1. /\ wpc \in [Workers -> LiveStates \cup {"dead"}] /\ wgen \in [Workers -> Gens \cup {None}]
        /\ spawning \in [Gens -> Int] /\ idle \in [Gens -> SUBSET Workers]
        /\ spc = "reserve" => sgen \in Gens
        /\ spc = "spawn" => sgen \in Gens
        /\ \A w \in Workers : wpc[w] # "dead" => wgen[w] \in Gens
    BY DEF TypeOK, WorkerTypes, PoolTypes, ScalerTypes
  <1>2. \A g : Cardinality(Starters(g)) \in Nat
    BY WorkerSets DEF Starters
  <1>3. ASSUME NEW r \in Requests,
               (\E f \in Functions : Arrive(r, f)) \/ RequestStep(r) \/ WaitEnds(r)
        PROVE  SpawnCounter'
    <2>1. UNCHANGED <<spawning, spc, sgen>>
      BY <1>3 DEF Arrive, RequestStep, WaitEnds, GetOrCreatePool, ReserveGlobalQueue, ReservePoolQueue,
                  AcquireSlot, PopIdle, CheckWorker, AcquireHostSlot, Admit, Finish, ReleaseBusy, ReleasePark,
                  ReleaseSlots, SlotTimeout, AcquireFails
    <2>2. UNCHANGED <<wpc, wgen>> \/ (pc[r] \in HoldsWorker /\ KillWorkers({rw[r]}))
      BY <1>3 DEF Arrive, RequestStep, WaitEnds, GetOrCreatePool, ReserveGlobalQueue, ReservePoolQueue,
                  AcquireSlot, PopIdle, CheckWorker, AcquireHostSlot, Admit, Finish, ReleaseBusy, ReleasePark,
                  ReleaseSlots, SlotTimeout, AcquireFails, HoldsWorker
    <2>3. pc[r] \in HoldsWorker => rw[r] \in Workers /\ wpc[rw[r]] = "live"
      BY DEF TypeOK, ReqTypes, WorkerPlaces
    <2>4. \A x \in Workers : /\ wpc'[x] = "starting" <=> wpc[x] = "starting"
                             /\ wpc[x] = "starting" => wgen'[x] = wgen[x]
      BY <1>1, <2>2, <2>3 DEF KillWorkers
    <2> QED
      BY <2>1, <2>4, CounterStays
  <1>4. CASE KillStep
    <2>1. (spc # "reserve" /\ spc' # "reserve") \/ UNCHANGED <<spc, sgen>>
      <3>1. ASSUME NEW g \in Gens, Evaluate(g) PROVE spc # "reserve" /\ spc' # "reserve"
        BY <3>1 DEF Evaluate
      <3>2. ASSUME Shrink PROVE spc # "reserve" /\ spc' # "reserve"
        BY <3>2 DEF Shrink, NextIteration
      <3> QED
        BY <1>4, <3>1, <3>2 DEF KillStep, DrainOne, DrainFrom, Sweep
    <2>2. ASSUME NEW W, KillsParked(W) PROVE SpawnCounter'
      <3>1. \A w \in W : w \in Workers /\ wpc[w] = "live"
        BY <2>2, ParkedFacts DEF KillsParked
      <3>2. \A x \in Workers : /\ wpc'[x] = "starting" <=> wpc[x] = "starting"
                               /\ wpc[x] = "starting" => wgen'[x] = wgen[x]
        BY <1>1, <2>2, <3>1 DEF KillsParked, KillWorkers
      <3> QED
        BY <2>1, <2>2, <3>2, CounterStays DEF KillsParked
    <2> QED
      BY <1>4, <2>1, <2>2, KillStepKills, CounterStays
  <1>5. CASE StartSpawn
    <2>1. UNCHANGED <<wpc, wgen>>
      BY <1>5 DEF StartSpawn
    <2>2. \A g : Cardinality(Starters(g))' = Cardinality(Starters(g))
      BY <2>1 DEF Starters
    <2>3. \A g \in Gens : spawning'[g] = spawning[g] - Reserving(g) + Reserving(g)'
      BY <1>1, <1>5 DEF StartSpawn, NextIteration, Inc, Reserving
    <2> QED
      BY <1>2, <2>2, <2>3 DEF SpawnCounter, Reserving
  <1>6. CASE ReserveMemory
    <2>1. PICK R \in ReclaimChoices(sgen) \cup {{}} :
            \/ (\E w \in Workers : Starts(R, w)) /\ UNCHANGED spawning
            \/ wpc' = KilledPc(R) /\ wgen' = KilledGen(R) /\ spawning' = Dec(spawning, sgen)
      BY <1>6, ReserveEffect
    <2>2. \A w \in R : w \in Workers /\ wpc[w] = "live"
      BY <2>1, ReclaimIsParked, ParkedFacts
    <2>3. sgen \in Gens /\ spc = "reserve" /\ spc' # "reserve"
      BY <1>1, <1>6 DEF ReserveMemory, NextIteration
    <2>4. ASSUME UNCHANGED spawning, NEW w \in Workers, Starts(R, w)
          PROVE  SpawnCounter'
      <3>1. OnlyStarts(w) /\ wpc[w] # "starting" /\ wpc'[w] = "starting" /\ wgen'[w] = sgen
        BY <1>1, <2>2, <2>4 DEF OnlyStarts, Starts, KilledPc, KilledGen
      <3>2. \A g \in Gens : StartShare(w, g) = 0 /\ StartShare(w, g)' = Reserving(g) /\ Reserving(g)' = 0
        BY <2>3, <2>4, <3>1 DEF StartShare, Reserving
      <3>3. \A g \in Gens : Cardinality(Starters(g))' = Cardinality(Starters(g)) + Reserving(g)
        BY <1>2, <3>1, <3>2, OneWorkerStarts
      <3>4. \A g \in Gens : Reserving(g) \in Nat
        BY DEF Reserving
      <3> QED
        BY <1>2, <2>4, <3>2, <3>3, <3>4 DEF SpawnCounter
    <2>5. ASSUME spawning' = Dec(spawning, sgen), wpc' = KilledPc(R), wgen' = KilledGen(R)
          PROVE  SpawnCounter'
      <3>1. \A x \in Workers : /\ wpc'[x] = "starting" <=> wpc[x] = "starting"
                               /\ wpc[x] = "starting" => wgen'[x] = wgen[x]
        BY <1>1, <2>2, <2>5 DEF KilledPc, KilledGen
      <3>2. \A g : Cardinality(Starters(g))' = Cardinality(Starters(g))
        BY <3>1, StartersStay
      <3>3. \A g \in Gens : spawning'[g] = spawning[g] - Reserving(g) + Reserving(g)'
        BY <1>1, <2>3, <2>5 DEF Dec, Reserving
      <3> QED
        BY <1>2, <3>2, <3>3 DEF SpawnCounter, Reserving
    <2> QED
      BY <2>1, <2>4, <2>5
  <1>7. ASSUME NEW w \in Workers, SpawnOk(w) \/ SpawnFail(w) PROVE SpawnCounter'
    <2>1. OnlyStarts(w) /\ wpc'[w] # "starting" /\ wpc[w] = "starting" /\ wgen[w] \in Gens
          /\ UNCHANGED <<spc, sgen>> /\ spawning' = Dec(spawning, wgen[w])
      BY <1>1, <1>7 DEF SpawnOk, SpawnFail, KillWorkers, OnlyStarts
    <2>2. \A g \in Gens : spawning'[g] = spawning[g] - StartShare(w, g) /\ StartShare(w, g)' = 0
      BY <1>1, <2>1 DEF StartShare, Dec
    <2>3. \A g \in Gens : Cardinality(Starters(g))' = Cardinality(Starters(g)) - StartShare(w, g)
      BY <1>2, <2>1, <2>2, OneWorkerStarts DEF StartShare
    <2> QED
      BY <1>2, <2>1, <2>2, <2>3 DEF SpawnCounter, Reserving, StartShare
  <1>8. ASSUME NEW w \in Workers, Park(w) PROVE SpawnCounter'
    <2>1. UNCHANGED <<spawning, spc, sgen>>
      BY <1>8 DEF Park
    <2>2. \A x \in Workers : /\ wpc'[x] = "starting" <=> wpc[x] = "starting"
                             /\ wpc[x] = "starting" => wgen'[x] = wgen[x]
      BY <1>1, <1>8 DEF Park, KillWorkers
    <2> QED
      BY <2>1, <2>2, CounterStays
  <1>9. ASSUME NEW f \in Functions, ShutdownQuit(f) PROVE SpawnCounter'
    <2>1. PICK w \in idle[pools[f]] : wpc' = [wpc EXCEPT ![w] = "dead"] /\ wgen' = [wgen EXCEPT ![w] = None]
      BY <1>9 DEF ShutdownQuit
    <2>2. w \in ParkedWorkers
      BY <1>9, <2>1 DEF ShutdownQuit, TypeOK, GenTypes, ParkedWorkers
    <2>3. \A x \in Workers : /\ wpc'[x] = "starting" <=> wpc[x] = "starting"
                             /\ wpc[x] = "starting" => wgen'[x] = wgen[x]
      BY <1>1, <2>1, <2>2, ParkedFacts
    <2> QED
      BY <1>9, <2>3, CounterStays DEF ShutdownQuit
  <1>10. CASE /\ UNCHANGED <<spawning, wpc, wgen>>
              /\ (spc # "reserve" /\ spc' # "reserve") \/ UNCHANGED <<spc, sgen>>
    BY <1>10, CounterStays
  <1>11. CASE OtherStep
    BY <1>4, <1>5, <1>6, <1>7, <1>8, <1>9, <1>10, <1>11
       DEF OtherStep, KillStep, RefreshAvail, OperatorStep, RetirePool, DrainDone, ChangeFunction, Prewarm,
           ScalerStep, ScalerPass, PassDone, WorkerExits, SpawnStep, BeginShutdown, ShutdownStep,
           ScalerExits, ScalerStopped, ShutdownRetire, ShutdownDone
  <1>12. CASE UNCHANGED vars
    BY <1>10, <1>12 DEF vars
  <1> QED
    BY <1>3, <1>11, <1>12, TwoKinds

----------------------------------------------------------------------------
(* The memory reservation.                                                *)

\* The size of a finite set without one of its subsets.
LEMMA SizeOfRest ==
  ASSUME NEW S, IsFiniteSet(S), NEW W \in SUBSET S
  PROVE  /\ Cardinality(S) \in Nat /\ Cardinality(W) \in Nat
         /\ Cardinality(S \ W) = Cardinality(S) - Cardinality(W)
  <1>1. IsFiniteSet(W) /\ IsFiniteSet(S \ W)
    BY FS_Subset
  <1>2. Cardinality(S) \in Nat /\ Cardinality(W) \in Nat /\ Cardinality(S \ W) \in Nat
    BY <1>1, FS_CardinalityType
  <1>3. Cardinality((S \ W) \cup W) = Cardinality(S \ W) + Cardinality(W) - Cardinality((S \ W) \cap W)
    BY <1>1, FS_Union
  <1>4. Cardinality((S \ W) \cup W) = Cardinality(S)
    <2>1. (S \ W) \cup W = S
      OBVIOUS
    <2> QED
      BY <2>1, Zenon
  <1>5. Cardinality((S \ W) \cap W) = 0
    <2>1. (S \ W) \cap W = {}
      OBVIOUS
    <2> QED
      BY <2>1, FS_EmptySet, Zenon
  <1> QED
    BY <1>2, <1>3, <1>4, <1>5

\* While the shutdown has not begun to drain, memory is released exactly
\* when a process dies; afterwards at most that much.
LEMMA KillKeepsReservation ==
  ASSUME TypeOK, ReservationBalanced, NEW W \in SUBSET LiveWorkers, UNCHANGED sdpc,
         \A w \in Workers : wpc'[w] = (IF w \in W THEN "dead" ELSE wpc[w]),
         reserved' = Released(Cardinality(W))
  PROVE  ReservationBalanced'
  <1>1. LiveWorkers' = LiveWorkers \ W
    BY DEF LiveWorkers, LiveStates
  <1>2. IsFiniteSet(LiveWorkers)
    BY WorkerSets DEF LiveWorkers
  <1>3. /\ Cardinality(LiveWorkers) \in Nat /\ Cardinality(W) \in Nat
        /\ Cardinality(LiveWorkers \ W) = Cardinality(LiveWorkers) - Cardinality(W)
        /\ Cardinality(LiveWorkers \ W) \in Nat
    <2>1. IsFiniteSet(LiveWorkers \ W)
      BY <1>2, FS_Subset
    <2> QED
      BY <1>2, <2>1, SizeOfRest, FS_CardinalityType
  <1>4. Cardinality(LiveWorkers)' = Cardinality(LiveWorkers) - Cardinality(W)
    BY <1>1, <1>3
  <1>5. reserved \in Nat /\ MemBudget \in Nat
    BY PoolAssumption DEF TypeOK, WorkerTypes, PoolAssumption
  <1>6. reserved' = reserved - Cardinality(W)
    BY <1>3, <1>5 DEF ReservationBalanced, Released, Max2
  <1> QED
    BY <1>3, <1>4, <1>5, <1>6 DEF ReservationBalanced

\* A step that neither reserves, releases, starts nor kills.
LEMMA ReservationStays ==
  ASSUME ReservationBalanced, UNCHANGED <<reserved, sdpc>>, LiveWorkers' = LiveWorkers
  PROVE  ReservationBalanced'
  BY DEF ReservationBalanced

\* Every step keeps the reservation equal to the number of processes.
LEMMA NextReservation ==
  TypeOK /\ WorkerPlaces /\ ScalerGone /\ ReservationBalanced /\ [Next]_vars => ReservationBalanced'
  <1> SUFFICES ASSUME TypeOK, WorkerPlaces, ScalerGone, ReservationBalanced, [Next]_vars
               PROVE  ReservationBalanced'
    OBVIOUS
  <1> USE DEF regVars, genVars, poolVars, workerVars, reqVars, scalerVars, opVars
  <1>1. /\ wpc \in [Workers -> LiveStates \cup {"dead"}] /\ idle \in [Gens -> SUBSET Workers]
        /\ pools \in [Functions -> Gens \cup {None}] /\ reserved \in Nat /\ MemBudget \in Nat
    BY PoolAssumption DEF TypeOK, WorkerTypes, PoolTypes, GenTypes, PoolAssumption
  <1>2. ParkedWorkers \subseteq LiveWorkers
    BY ParkedFacts DEF LiveWorkers, LiveStates
  <1>3. IsFiniteSet(LiveWorkers) /\ Cardinality(LiveWorkers) \in Nat
    BY WorkerSets DEF LiveWorkers
  <1>4. ASSUME NEW r \in Requests,
               (\E f \in Functions : Arrive(r, f)) \/ RequestStep(r) \/ WaitEnds(r)
        PROVE  ReservationBalanced'
    <2>1. UNCHANGED sdpc
      BY <1>4 DEF Arrive, RequestStep, WaitEnds, GetOrCreatePool, ReserveGlobalQueue, ReservePoolQueue,
                  AcquireSlot, PopIdle, CheckWorker, AcquireHostSlot, Admit, Finish, ReleaseBusy, ReleasePark,
                  ReleaseSlots, SlotTimeout, AcquireFails
    <2>2. UNCHANGED <<wpc, reserved>> \/ (pc[r] \in HoldsWorker /\ KillWorkers({rw[r]}))
      BY <1>4 DEF Arrive, RequestStep, WaitEnds, GetOrCreatePool, ReserveGlobalQueue, ReservePoolQueue,
                  AcquireSlot, PopIdle, CheckWorker, AcquireHostSlot, Admit, Finish, ReleaseBusy, ReleasePark,
                  ReleaseSlots, SlotTimeout, AcquireFails, HoldsWorker
    <2>3. pc[r] \in HoldsWorker => {rw[r]} \in SUBSET LiveWorkers
      BY DEF TypeOK, ReqTypes, WorkerPlaces, LiveWorkers, LiveStates
    <2>4. CASE UNCHANGED <<wpc, reserved>>
      BY <2>1, <2>4, ReservationStays DEF LiveWorkers
    <2>5. CASE pc[r] \in HoldsWorker /\ KillWorkers({rw[r]})
      BY <2>1, <2>3, <2>5, KillKeepsReservation DEF KillWorkers
    <2> QED
      BY <2>2, <2>4, <2>5
  <1>5. CASE KillStep
    <2>1. ASSUME NEW W, KillsParked(W) PROVE ReservationBalanced'
      BY <1>2, <2>1, KillKeepsReservation DEF KillsParked, KillWorkers
    <2>2. CASE UNCHANGED <<wpc, wgen, reserved, idle, rw, rgen, spawning, sdpc>>
      BY <2>2, ReservationStays DEF LiveWorkers
    <2> QED
      BY <1>5, <2>1, <2>2, KillStepKills
  <1>6. CASE ReserveMemory
    <2>1. PICK R \in ReclaimChoices(sgen) \cup {{}} :
            \/ /\ AvailableForWorkers(Released(Cardinality(R))) >= 1
               /\ reserved' = Released(Cardinality(R)) + 1
               /\ \E w \in Workers : Starts(R, w)
            \/ reserved' = Released(Cardinality(R)) /\ wpc' = KilledPc(R)
      BY <1>6, ReserveEffect
    <2>2. R \in SUBSET LiveWorkers
      BY <1>2, <2>1, ReclaimIsParked
    <2>3. UNCHANGED sdpc /\ sdpc \in {"up", "stopping"}
      BY <1>6 DEF ReserveMemory, ScalerGone, TypeOK, HostTypes
    <2>4. /\ Cardinality(R) \in Nat
          /\ Cardinality(LiveWorkers \ R) = Cardinality(LiveWorkers) - Cardinality(R)
          /\ IsFiniteSet(LiveWorkers \ R)
      BY <1>3, <2>2, SizeOfRest, FS_Subset
    <2>5. reserved = Cardinality(LiveWorkers)
      BY <2>3 DEF ReservationBalanced
    <2>6. CASE reserved' = Released(Cardinality(R)) /\ wpc' = KilledPc(R)
      BY <2>2, <2>3, <2>6, KillKeepsReservation DEF KilledPc
    <2>7. ASSUME AvailableForWorkers(Released(Cardinality(R))) >= 1,
                 reserved' = Released(Cardinality(R)) + 1, NEW w \in Workers, Starts(R, w)
          PROVE  ReservationBalanced'
      <3>1. LiveWorkers' = (LiveWorkers \ R) \cup {w} /\ w \notin LiveWorkers \ R
        BY <1>1, <2>7 DEF Starts, KilledPc, LiveWorkers, LiveStates
      <3>2. Cardinality((LiveWorkers \ R) \cup {w}) = Cardinality(LiveWorkers \ R) + 1
        BY <2>4, <3>1, FS_AddElement
      <3>3. Cardinality(LiveWorkers \ R) \in Nat
        BY <2>4, FS_CardinalityType
      <3>4. Released(Cardinality(R)) = reserved - Cardinality(R)
        BY <1>3, <2>4, <2>5, <3>3 DEF Released, Max2
      <3>5. reserved - Cardinality(R) < MemBudget
        <4>1. avail \in Nat
          BY DEF TypeOK, HostTypes
        <4> QED
          BY <1>1, <2>4, <2>7, <3>4, <4>1 DEF AvailableForWorkers, Min2, Max2
      <3>6. Cardinality(LiveWorkers)' = reserved'
        BY <1>3, <2>4, <2>5, <2>7, <3>1, <3>2, <3>4
      <3> QED
        BY <1>1, <2>3, <2>4, <2>7, <3>4, <3>5, <3>6 DEF ReservationBalanced
    <2> QED
      BY <2>1, <2>6, <2>7
  <1>7. ASSUME NEW w \in Workers, SpawnStep(w) PROVE ReservationBalanced'
    <2>1. w \in LiveWorkers /\ UNCHANGED sdpc
      BY <1>7 DEF SpawnStep, SpawnOk, SpawnFail, Park, LiveWorkers, LiveStates
    <2>2. CASE KillWorkers({w})
      BY <2>1, <2>2, KillKeepsReservation DEF KillWorkers
    <2>3. CASE UNCHANGED reserved /\ \E state \in LiveStates : wpc' = [wpc EXCEPT ![w] = state]
      <3>1. LiveWorkers' = LiveWorkers
        BY <1>1, <2>1, <2>3 DEF LiveWorkers
      <3> QED
        BY <2>1, <2>3, <3>1, ReservationStays
    <2> QED
      BY <1>7, <2>2, <2>3 DEF SpawnStep, SpawnOk, SpawnFail, Park, LiveStates
  <1>8. ASSUME NEW f \in Functions, ShutdownQuit(f) PROVE ReservationBalanced'
    <2>1. PICK w \in idle[pools[f]] : wpc' = [wpc EXCEPT ![w] = "dead"]
      BY <1>8 DEF ShutdownQuit
    <2>2. w \in LiveWorkers
      BY <1>1, <1>2, <1>8, <2>1 DEF ShutdownQuit, ParkedWorkers
    <2>3. LiveWorkers' = LiveWorkers \ {w}
      BY <1>1, <2>1, <2>2 DEF LiveWorkers, LiveStates
    <2>4. Cardinality(LiveWorkers)' = Cardinality(LiveWorkers) - 1
      BY <1>3, <2>2, <2>3, FS_RemoveElement
    <2> QED
      BY <1>1, <1>3, <1>8, <2>4 DEF ShutdownQuit, ReservationBalanced
  <1>9. CASE UNCHANGED <<wpc, reserved>> /\ (sdpc' \in {"up", "stopping"} => sdpc \in {"up", "stopping"})
    BY <1>9 DEF ReservationBalanced, LiveWorkers
  <1>10. CASE OtherStep
    BY <1>5, <1>6, <1>7, <1>8, <1>9, <1>10
       DEF OtherStep, KillStep, RefreshAvail, OperatorStep, RetirePool, DrainDone, ChangeFunction, Prewarm,
           ScalerStep, ScalerPass, PassDone, StartSpawn, WorkerExits, BeginShutdown, ShutdownStep,
           ScalerExits, ScalerStopped, ShutdownRetire, ShutdownDone
  <1>11. CASE UNCHANGED vars
    BY <1>9, <1>11 DEF vars
  <1> QED
    BY <1>4, <1>10, <1>11, TwoKinds

\* The books are balanced in the initial state.
LEMMA InitBooks ==
  Init => RequestCounters /\ SpawnCounter /\ WorkerPlaces /\ ScalerGone /\ ReservationBalanced
  <1> SUFFICES ASSUME Init
               PROVE  RequestCounters /\ SpawnCounter /\ WorkerPlaces /\ ScalerGone /\ ReservationBalanced
    OBVIOUS
  <1>1. Cardinality({}) = 0
    BY FS_EmptySet
  <1>2. LiveWorkers = {} /\ \A g : Starters(g) = {} /\ Reserving(g) = 0
    BY DEF Init, LiveWorkers, LiveStates, Starters, Reserving
  <1>3. \A g : /\ InGen(g, HoldsPoolQueue) = {} /\ InGen(g, CountedBusy) = {}
               /\ InGen(g, HoldsSlot) = {}
    BY DEF Init, InGen, HoldsPoolQueue, HoldsGlobalQueue, CountedBusy, HoldsSlot
  <1>4. {r \in Requests : pc[r] \in HoldsGlobalQueue} = {} /\ {r \in Requests : pc[r] \in HoldsHostSlot} = {}
    BY DEF Init, HoldsGlobalQueue, HoldsHostSlot
  <1>5. RequestCounters
    BY <1>1, <1>3, <1>4 DEF Init, RequestCounters
  <1>6. SpawnCounter
    <2>1. \A g \in Gens : Cardinality(Starters(g)) = 0
      BY <1>1, <1>2
    <2> QED
      BY <1>2, <2>1 DEF Init, SpawnCounter
  <1>7. WorkerPlaces
    BY PoolAssumption DEF Init, WorkerPlaces, PoolAssumption
  <1>8. ScalerGone
    BY DEF Init, ScalerGone
  <1>9. ReservationBalanced
    BY <1>1, <1>2, PoolAssumption DEF Init, ReservationBalanced, PoolAssumption
  <1> QED
    BY <1>5, <1>6, <1>7, <1>8, <1>9

\* In every state of the pool, for every number of functions, clients,
\* operators and workers and every setting of the limits: queued, busy and
\* spawning of each generation, its semaphore, m.queued and the Limiter are
\* the numbers of the goroutines that hold them; the memory reservation is
\* the number of worker processes and within the budget; and a worker is
\* parked once, or leased once, or dead.
THEOREM BooksBalance == Spec => []PoolSafe
  <1>1. RequestCounters /\ SpawnCounter => CountersBalanced
    BY DEF RequestCounters, SpawnCounter, CountersBalanced, Starters, Reserving
  <1>2. TypeOK /\ RequestCounters /\ SpawnCounter /\ WorkerPlaces /\ ReservationBalanced => PoolSafe
    BY <1>1, PlacesExclusive DEF PoolSafe
  <1> QED
    BY <1>2, TypeCorrect, InitBooks, NextRequestCounters, NextSpawnCounter, NextPlaces, NextScalerGone,
       NextReservation, PTL DEF Spec

----------------------------------------------------------------------------
(* The shutdown.  When it has returned, an open generation would have to  *)
(* be a published one, and every published one is closed.                 *)

\* A generation that was created and is not closed is the one its function
\* publishes; only created generations have workers or are scaled; and after
\* Shutdown every published generation is closed.
OpenPublished == \A g \in Gens : g <= genCount /\ ~closing[g] => Published(g)
OnlyCreated ==
  /\ \A w \in Workers : wpc[w] # "dead" => wgen[w] <= genCount
  /\ spc \in {"spawn", "reserve", "shrink"} => sgen <= genCount
  /\ \A g \in spass : g <= genCount
DownIsClosed == sdpc = "down" => \A f \in Functions : pools[f] # None => closing[pools[f]]

\* Publishing a generation: the one it replaces, if any, was closed.
LEMMA CreateKeepsOpen ==
  ASSUME TypeOK, VersionOrder, OpenPublished, NEW f \in Functions, ~HasPool(f),
         CreatePool(f, genCount + 1), UNCHANGED closing
  PROVE  OpenPublished' /\ genCount <= genCount'
  <1>1. /\ genCount \in Nat /\ genCount + 1 \in Gens /\ Gens \subseteq Nat /\ None \notin Gens
        /\ pools \in [Functions -> Gens \cup {None}]
    BY GensNat DEF TypeOK, GenTypes, CreatePool
  <1>2. /\ genCount' = genCount + 1 /\ pools'[f] = genCount + 1
        /\ \A h \in Functions \ {f} : pools'[h] = pools[h]
    BY <1>1 DEF CreatePool
  <1>3. ASSUME NEW g \in Gens, g <= genCount', ~closing[g] PROVE \E h \in Functions : pools'[h] = g
    <2>1. CASE g = genCount + 1
      BY <1>2, <2>1
    <2>2. CASE g # genCount + 1
      <3>1. PICK h \in Functions : pools[h] = g
        BY <1>1, <1>2, <1>3, <2>2 DEF OpenPublished, Published
      <3>2. h # f
        BY <1>1, <1>3, <3>1 DEF HasPool
      <3> QED
        BY <1>2, <3>1, <3>2
    <2> QED
      BY <2>1, <2>2
  <1> QED
    BY <1>1, <1>2, <1>3 DEF OpenPublished, Published

\* No step leaves an open generation unpublished or forgets a generation.
LEMMA NextOpenPublished ==
  TypeOK /\ VersionOrder /\ OpenPublished /\ [Next]_vars => OpenPublished' /\ genCount <= genCount'
  <1> SUFFICES ASSUME TypeOK, VersionOrder, OpenPublished, [Next]_vars
               PROVE  OpenPublished' /\ genCount <= genCount'
    OBVIOUS
  <1> USE DEF regVars, genVars, poolVars, workerVars, reqVars, scalerVars, opVars
  <1>1. genCount \in Nat /\ Gens \subseteq Nat /\ pools \in [Functions -> Gens \cup {None}]
        /\ closing \in [Gens -> BOOLEAN]
    BY GensNat DEF TypeOK, GenTypes, PoolTypes
  <1>2. ASSUME NEW o \in Operators, RetirePool(o) PROVE OpenPublished' /\ genCount <= genCount'
    <2>1. ofn[o] \in Functions
      BY <1>2 DEF RetirePool, TypeOK, OpTypes
    <2>2. \A h \in Functions \ {ofn[o]} : pools'[h] = pools[h]
      BY <1>1, <1>2, <2>1 DEF RetirePool
    <2>3. \A g \in Gens : ~closing'[g] => ~closing[g] /\ g # pools[ofn[o]]
      BY <1>1, <1>2 DEF RetirePool
    <2>4. genCount' = genCount
      BY <1>2 DEF RetirePool
    <2> QED
      BY <1>1, <2>1, <2>2, <2>3, <2>4 DEF OpenPublished, Published
  <1>3. ASSUME NEW f \in Functions, Prewarm(f) PROVE OpenPublished' /\ genCount <= genCount'
    BY <1>3, CreateKeepsOpen DEF Prewarm
  <1>4. ASSUME NEW r \in Requests, GetOrCreatePool(r) PROVE OpenPublished' /\ genCount <= genCount'
    <2>1. rfn[r] \in Functions
      BY <1>4 DEF GetOrCreatePool, TypeOK, ReqTypes
    <2>2. CASE UNCHANGED genVars
      BY <1>1, <1>4, <2>2 DEF GetOrCreatePool, OpenPublished, Published
    <2>3. CASE ~HasPool(rfn[r]) /\ CreatePool(rfn[r], genCount + 1)
      BY <1>4, <2>1, <2>3, CreateKeepsOpen DEF GetOrCreatePool
    <2> QED
      BY <1>4, <2>2, <2>3 DEF GetOrCreatePool
  <1>5. CASE UNCHANGED <<genCount, pools>> /\ \A g \in Gens : closing[g] => closing'[g]
    BY <1>1, <1>5 DEF OpenPublished, Published
  <1>6. \A g \in Gens : closing[g] => closing'[g]
    BY StepShrinks DEF OnlyShrinks
  <1>7. ASSUME NEW r \in Requests,
               (\E f \in Functions : Arrive(r, f)) \/ RequestStep(r) \/ WaitEnds(r), ~GetOrCreatePool(r)
        PROVE  UNCHANGED <<genCount, pools>>
    BY <1>7 DEF Arrive, RequestStep, WaitEnds, ReserveGlobalQueue, ReservePoolQueue, AcquireSlot, PopIdle,
                CheckWorker, AcquireHostSlot, Admit, Finish, ReleaseBusy, ReleasePark, ReleaseSlots,
                SlotTimeout, AcquireFails
  <1>8. CASE OtherStep
    BY <1>2, <1>3, <1>5, <1>6, <1>8
       DEF OtherStep, OperatorStep, DrainOne, DrainFrom, DrainDone, RefreshAvail, ChangeFunction, ScalerStep,
           ScalerPass, PassDone, Evaluate, StartSpawn, ReserveMemory, Shrink, SpawnStep, SpawnOk, SpawnFail,
           Park, WorkerExits, Sweep, BeginShutdown, ShutdownStep, ScalerExits, ScalerStopped, ShutdownDone,
           ShutdownRetire, ShutdownQuit
  <1>9. CASE UNCHANGED vars
    BY <1>5, <1>6, <1>9 DEF vars
  <1> QED
    BY <1>4, <1>5, <1>6, <1>7, <1>8, <1>9, TwoKinds

\* No step gives a worker or the scaler a generation that does not exist.
LEMMA NextOnlyCreated ==
  TypeOK /\ VersionOrder /\ OnlyCreated /\ [Next]_vars /\ genCount <= genCount' => OnlyCreated'
  <1> SUFFICES ASSUME TypeOK, VersionOrder, OnlyCreated, [Next]_vars, genCount <= genCount', TypeOK'
               PROVE  OnlyCreated'
    BY NextTypes
  <1> USE DEF regVars, genVars, poolVars, workerVars, reqVars, scalerVars, opVars
  <1>0. Gens \cup {None} \subseteq Nat
    BY GensNat DEF None
  <1>1. /\ genCount \in Nat /\ genCount' \in Nat /\ Gens \subseteq Nat /\ None = 0
        /\ pools \in [Functions -> Gens \cup {None}]
        /\ wgen \in [Workers -> Gens \cup {None}] /\ spass \subseteq Gens /\ sgen \in Gens \cup {None}
        /\ (\A w \in Workers : wgen[w] \in Nat) /\ (\A g \in spass : g \in Nat) /\ sgen \in Nat
        /\ wpc \in [Workers -> LiveStates \cup {"dead"}]
    <2>1. genCount \in Nat /\ genCount' \in Nat /\ Gens \subseteq Nat /\ None = 0
      BY <1>0 DEF TypeOK, GenTypes, None
    <2>2. /\ wgen \in [Workers -> Gens \cup {None}] /\ spass \subseteq Gens /\ sgen \in Gens \cup {None}
          /\ wpc \in [Workers -> LiveStates \cup {"dead"}] /\ pools \in [Functions -> Gens \cup {None}]
      BY DEF TypeOK, GenTypes, WorkerTypes, ScalerTypes
    <2>3. (\A w \in Workers : wgen[w] \in Nat) /\ (\A g \in spass : g \in Nat) /\ sgen \in Nat
      BY <1>0, <2>2
    <2> QED
      BY <2>1, <2>2, <2>3
  <1>2. \A f \in Functions : pools[f] # None => pools[f] <= genCount
    BY DEF VersionOrder
  \* How a step may touch the workers and the scaler.
  <1> DEFINE WorkersKept == \A w \in Workers : wpc'[w] # "dead" =>
                              \/ wpc[w] # "dead" /\ wgen'[w] = wgen[w]
                              \/ spc = "reserve" /\ wgen'[w] = sgen
             ScalerKept == spc' \in {"spawn", "reserve", "shrink"} =>
                              \/ spc \in {"spawn", "reserve", "shrink"} /\ sgen' = sgen
                              \/ sgen' \in spass
             PassKept == spass' \subseteq spass \/ \A g \in spass' : Published(g)
  <1>3. WorkersKept /\ ScalerKept /\ PassKept => OnlyCreated'
    <2> SUFFICES ASSUME WorkersKept, ScalerKept, PassKept PROVE OnlyCreated'
      OBVIOUS
    <2>1. ASSUME NEW w \in Workers, wpc'[w] # "dead" PROVE wgen'[w] <= genCount'
      <3>1. CASE wpc[w] # "dead" /\ wgen'[w] = wgen[w]
        <4>1. wgen[w] <= genCount
          BY <3>1 DEF OnlyCreated
        <4>2. wgen[w] \in Nat
          BY <1>1
        <4> QED
          BY <1>1, <3>1, <4>1, <4>2
      <3>2. CASE spc = "reserve" /\ wgen'[w] = sgen
        <4>1. sgen <= genCount /\ sgen \in Nat
          BY <1>1, <3>2 DEF OnlyCreated
        <4> QED
          BY <1>1, <3>2, <4>1
      <3> QED
        BY <2>1, <3>1, <3>2
    <2>2. ASSUME spc' \in {"spawn", "reserve", "shrink"} PROVE sgen' <= genCount'
      <3>1. \/ spc \in {"spawn", "reserve", "shrink"} /\ sgen' = sgen
            \/ sgen' \in spass
        BY <2>2
      <3>2. sgen' <= genCount
        BY <3>1 DEF OnlyCreated
      <3>3. sgen' \in Nat
        BY <1>1, <3>1
      <3> QED
        BY <1>1, <3>2, <3>3
    <2>3. ASSUME NEW g \in spass' PROVE g <= genCount'
      <3>1. g \in Gens
        BY <2>3 DEF TypeOK, ScalerTypes
      <3> QED
        BY <1>1, <1>2, <2>3, <3>1, GensNat DEF OnlyCreated, Published
    <2> QED
      BY <2>1, <2>2, <2>3 DEF OnlyCreated
  <1>4. ASSUME NEW r \in Requests,
               (\E f \in Functions : Arrive(r, f)) \/ RequestStep(r) \/ WaitEnds(r)
        PROVE  WorkersKept /\ ScalerKept /\ PassKept
    BY <1>1, <1>4
       DEF Arrive, RequestStep, WaitEnds, GetOrCreatePool, ReserveGlobalQueue, ReservePoolQueue, AcquireSlot,
           PopIdle, CheckWorker, AcquireHostSlot, Admit, Finish, ReleaseBusy, ReleasePark, ReleaseSlots,
           SlotTimeout, AcquireFails, KillWorkers
  <1>5. CASE \/ RefreshAvail
             \/ \E o \in Operators : OperatorStep(o)
             \/ \E o \in Operators, f \in Functions, deletes \in BOOLEAN : ChangeFunction(o, f, deletes)
             \/ \E f \in Functions : Prewarm(f)
    <2>1. UNCHANGED <<wpc, wgen>> \/ \E W : KillWorkers(W)
      BY <1>5 DEF RefreshAvail, OperatorStep, RetirePool, DrainOne, DrainFrom, DrainDone, ChangeFunction,
                  Prewarm
    <2>3. WorkersKept
      BY <1>1, <2>1 DEF KillWorkers
    <2>2. UNCHANGED <<spc, sgen, spass>>
      BY <1>5 DEF RefreshAvail, OperatorStep, RetirePool, DrainOne, DrainFrom, DrainDone,
                  ChangeFunction, Prewarm
    <2> QED
      BY <1>3, <2>2, <2>3
  <1>6. ASSUME NEW w \in Workers, SpawnStep(w) \/ WorkerExits(w) PROVE WorkersKept /\ ScalerKept /\ PassKept
    BY <1>1, <1>6 DEF SpawnStep, SpawnOk, SpawnFail, Park, WorkerExits, KillWorkers
  <1>7. ASSUME NEW g \in Gens, Sweep(g) \/ Evaluate(g) PROVE WorkersKept /\ ScalerKept /\ PassKept
    BY <1>1, <1>7 DEF Sweep, Evaluate, KillWorkers
  <1>8. CASE ScalerPass \/ PassDone \/ StartSpawn \/ Shrink
    BY <1>1, <1>3, <1>8 DEF ScalerPass, PassDone, StartSpawn, Shrink, NextIteration, KillWorkers
  <1>9. CASE ReserveMemory
    <2>1. ScalerKept /\ PassKept
      BY <1>9 DEF ReserveMemory, NextIteration
    <2>2. WorkersKept
      BY <1>1, <1>9, ReserveEffect DEF ReserveMemory, KilledPc, KilledGen, Starts
    <2> QED
      BY <1>3, <2>1, <2>2
  <1>10. CASE BeginShutdown \/ ShutdownStep
    BY <1>1, <1>3, <1>10, ZenonT(60) DEF BeginShutdown, ShutdownStep, ScalerExits, ScalerStopped, ShutdownDone,
                             ShutdownRetire, ShutdownQuit
  <1>11. CASE UNCHANGED vars
    BY <1>3, <1>11 DEF vars
  <1> QED
    BY <1>3, <1>4, <1>5, <1>6, <1>7, <1>8, <1>9, <1>10, <1>11, TwoKinds DEF OtherStep, ScalerStep

\* After Shutdown no generation is created, so none becomes published again.
LEMMA NextDownIsClosed == TypeOK /\ DownIsClosed /\ [Next]_vars => DownIsClosed'
  <1> SUFFICES ASSUME TypeOK, DownIsClosed, [Next]_vars PROVE DownIsClosed'
    OBVIOUS
  <1> USE DEF regVars, genVars, poolVars, workerVars, reqVars, scalerVars, opVars
  <1>1. pools \in [Functions -> Gens \cup {None}] /\ closing \in [Gens -> BOOLEAN]
    BY DEF TypeOK, GenTypes, PoolTypes
  <1>2. \A g \in Gens : closing[g] => closing'[g]
    BY StepShrinks DEF OnlyShrinks
  <1>3. ASSUME UNCHANGED sdpc, \A f \in Functions : pools'[f] # None => pools'[f] = pools[f]
        PROVE  DownIsClosed'
    BY <1>1, <1>2, <1>3 DEF DownIsClosed
  <1>4. CASE sdpc' # "down"
    BY <1>4 DEF DownIsClosed
  <1>5. ASSUME NEW o \in Operators, OperatorStep(o) PROVE DownIsClosed'
    BY <1>1, <1>3, <1>5 DEF OperatorStep, RetirePool, DrainOne, DrainFrom, DrainDone
  <1>6. CASE \E f \in Functions : Prewarm(f)
    BY <1>4, <1>6 DEF Prewarm, Closing
  <1>7. ASSUME NEW r \in Requests,
               (\E f \in Functions : Arrive(r, f)) \/ RequestStep(r) \/ WaitEnds(r)
        PROVE  DownIsClosed'
    <2>1. CASE GetOrCreatePool(r)
      BY <1>3, <1>4, <2>1 DEF GetOrCreatePool, Closing
    <2>2. CASE ~GetOrCreatePool(r)
      BY <1>3, <1>7, <2>2
         DEF Arrive, RequestStep, WaitEnds, ReserveGlobalQueue, ReservePoolQueue, AcquireSlot, PopIdle,
             CheckWorker, AcquireHostSlot, Admit, Finish, ReleaseBusy, ReleasePark, ReleaseSlots,
             SlotTimeout, AcquireFails
    <2> QED
      BY <2>1, <2>2
  <1>8. CASE ShutdownDone
    BY <1>8 DEF ShutdownDone, DownIsClosed
  <1>9. CASE ScalerStopped \/ BeginShutdown
    BY <1>4, <1>9 DEF ScalerStopped, BeginShutdown
  <1>10. CASE UNCHANGED <<sdpc, pools>>
    BY <1>3, <1>10
  <1>11. CASE OtherStep
    BY <1>5, <1>6, <1>8, <1>9, <1>10, <1>11
       DEF OtherStep, RefreshAvail, ChangeFunction, ScalerStep, ScalerPass, PassDone, Evaluate, StartSpawn,
           ReserveMemory, Shrink, SpawnStep, SpawnOk, SpawnFail, Park, WorkerExits, Sweep, ShutdownStep,
           ScalerExits, ShutdownRetire, ShutdownQuit
  <1>12. CASE UNCHANGED vars
    BY <1>10, <1>12 DEF vars
  <1> QED
    BY <1>7, <1>11, <1>12, TwoKinds

\* The parts above leave no worker over: one that is neither leased nor being
\* drained would be parked in an open, hence published, hence closed channel.
LEMMA NothingLeftOver ==
  TypeOK /\ ReservationBalanced /\ WorkerPlaces /\ ScalerGone /\ RetiredDrained /\ OpenPublished
  /\ OnlyCreated /\ DownIsClosed => ShutdownClean
  <1> SUFFICES ASSUME TypeOK, ReservationBalanced, WorkerPlaces, ScalerGone, RetiredDrained, OpenPublished,
                      OnlyCreated, DownIsClosed
               PROVE  ShutdownClean
    OBVIOUS
  <1>1. Cardinality(LiveWorkers) <= reserved
    BY DEF ReservationBalanced
  <1>2. ASSUME sdpc \in {"draining", "down"}, NEW w \in LiveWorkers PROVE wpc[w] = "live"
    BY <1>2 DEF ScalerGone, SpawnersDone, LiveWorkers, LiveStates
  <1>3. ASSUME sdpc = "down", NEW w \in LiveWorkers
        PROVE  Holders(w) # {} \/ \E o \in Operators : ogen[o] # None /\ w \in idle[ogen[o]]
    <2>1. w \in Workers /\ wpc[w] = "live" /\ wgen[w] \in Gens
      BY <1>2, <1>3 DEF LiveWorkers, TypeOK, WorkerTypes
    <2>2. CASE \E r \in Requests : rw[r] = w
      BY <2>2 DEF Holders
    <2>3. CASE w \in idle[wgen[w]]
      <3>1. closing[wgen[w]]
        <4>1. wgen[w] <= genCount
          BY <2>1 DEF OnlyCreated
        <4>2. ASSUME ~closing[wgen[w]] PROVE \E f \in Functions : pools[f] = wgen[w]
          BY <2>1, <4>1, <4>2 DEF OpenPublished, Published
        <4> QED
          BY <1>3, <2>1, <4>2, GensNat DEF DownIsClosed
      <3>2. PICK o \in Operators : ogen[o] = wgen[w]
        BY <1>3, <2>1, <2>3, <3>1 DEF RetiredDrained
      <3>3. ogen[o] # None
        BY <2>1, <3>2, GensNat
      <3> QED
        BY <2>3, <3>2, <3>3
    <2> QED
      BY <2>1, <2>2, <2>3 DEF WorkerPlaces
  <1> QED
    BY <1>1, <1>2, <1>3 DEF ShutdownClean

\* When Shutdown has returned, whatever it raced with (a deploy that retires
\* a pool, requests that still hold leases, a spawn that was under way), the
\* only workers alive are leased ones and those a retirement is about to
\* kill, none was started after the scaler stopped, and no more memory is in
\* use than is reserved.
THEOREM ShutdownLeavesNothing == Spec => []ShutdownClean
  <1>1. Init => OpenPublished /\ OnlyCreated /\ DownIsClosed /\ VersionOrder
    <2> SUFFICES ASSUME Init PROVE OpenPublished /\ OnlyCreated /\ DownIsClosed /\ VersionOrder
      OBVIOUS
    <2>1. OpenPublished
      BY GensNat DEF Init, OpenPublished
    <2> QED
      BY <2>1 DEF Init, OnlyCreated, DownIsClosed, VersionOrder
  <1> QED
    BY <1>1, TypeCorrect, InitBooks, NextPlaces, NextScalerGone, NextReservation, NextVersionOrder,
       RetirementDrains, NextOpenPublished, NextOnlyCreated, NextDownIsClosed, NothingLeftOver, PTL DEF Spec
=============================================================================

----------------------------- MODULE JobsProofs -----------------------------
(***************************************************************************)
(* Background jobs, for every number of rows, goroutines, callers and      *)
(* stops: the jobs table implements the abstract work queue, nobody works  *)
(* on a job twice, and an idempotency key names one job.                   *)
(***************************************************************************)
EXTENDS Jobs, FiniteSetTheorems, TLAPS

----------------------------------------------------------------------------
(* Jobs: types.                                                           *)

SlotRows == [pc : {"free", "start", "dispatch", "write", "publish"},
             id : JobIds \cup {NoJob}, attempts : Nat, ok : BOOLEAN]
CallerRows == [pc : {"idle", "insert", "recover", "done"},
               key : JobKeys \cup {NoKey}, answer : JobIds \cup {NoJob}]

\* The rows of S get the status st, lose their stale mark unless they are
\* removed, and keep their key; no other row changes.
Writes(S, st) ==
  /\ job' \in [JobIds -> JobRows]
  /\ \A i \in JobIds : i \notin S => job'[i] = job[i]
  /\ \A i \in S : job'[i].status = st /\ job'[i].key = job[i].key /\ (st = "gone" \/ ~job'[i].stale)

AttemptsKept == \A i \in JobIds : job'[i].attempts = job[i].attempts

LEMMA SuccessWrites ==
  ASSUME job \in [JobIds -> JobRows], NEW j \in JobIds, job' = MarkJobSuccess(j)
  PROVE  Writes({j}, "succeeded") /\ AttemptsKept
  <1>1. job[j] \in JobRows /\ \A i \in JobIds \ {j} : job'[i] = job[i]
    BY DEF MarkJobSuccess
  <1>2. job'[j] = [job[j] EXCEPT !.status = "succeeded", !.stale = FALSE]
    BY <1>1 DEF MarkJobSuccess
  <1>3. /\ job'[j] \in JobRows /\ job'[j].key = job[j].key /\ job'[j].attempts = job[j].attempts
        /\ ~job'[j].stale /\ job'[j].status = "succeeded"
    BY <1>1, <1>2 DEF JobRows, Live
  <1>4. DOMAIN job' = JobIds /\ job' = [x \in DOMAIN job' |-> job'[x]]
    BY DEF MarkJobSuccess
  <1> QED
    BY <1>1, <1>3, <1>4 DEF Writes, AttemptsKept

LEMMA FailureWrites ==
  ASSUME job \in [JobIds -> JobRows], NEW j \in JobIds, NEW n, job' = MarkJobFailure(j, n)
  PROVE  Writes({j}, IF n >= MaxAttempts THEN "failed" ELSE "pending") /\ AttemptsKept
  <1>1. job[j] \in JobRows /\ \A i \in JobIds \ {j} : job'[i] = job[i]
    BY DEF MarkJobFailure
  <1>2. \/ n >= MaxAttempts /\ job'[j] = [job[j] EXCEPT !.status = "failed", !.stale = FALSE]
        \/ ~(n >= MaxAttempts)
           /\ job'[j] = [job[j] EXCEPT !.status = "pending", !.stale = FALSE, !.due = FALSE]
    BY <1>1 DEF MarkJobFailure
  <1>3. /\ job'[j] \in JobRows /\ job'[j].key = job[j].key /\ job'[j].attempts = job[j].attempts
        /\ ~job'[j].stale /\ job'[j].status = IF n >= MaxAttempts THEN "failed" ELSE "pending"
    BY <1>1, <1>2 DEF JobRows, Live
  <1>4. DOMAIN job' = JobIds /\ job' = [x \in DOMAIN job' |-> job'[x]]
    BY DEF MarkJobFailure
  <1> QED
    BY <1>1, <1>3, <1>4 DEF Writes, AttemptsKept

LEMMA RetryWrites ==
  ASSUME job \in [JobIds -> JobRows], NEW j \in JobIds, RetryJob(j)
  PROVE  Writes({j}, "pending") /\ job'[j].attempts = 0
  <1>1. job[j] \in JobRows /\ \A i \in JobIds \ {j} : job'[i] = job[i]
    BY DEF RetryJob
  <1>2. job'[j] = [job[j] EXCEPT !.status = "pending", !.attempts = 0, !.due = TRUE, !.stale = FALSE]
    BY <1>1 DEF RetryJob
  <1>3. /\ job'[j] \in JobRows /\ job'[j].key = job[j].key /\ job'[j].attempts = 0
        /\ ~job'[j].stale /\ job'[j].status = "pending"
    <2>1. job'[j] = [status |-> "pending", attempts |-> 0, due |-> TRUE, stale |-> FALSE,
                     old |-> job[j].old, key |-> job[j].key]
      BY <1>1, <1>2 DEF JobRows
    <2> QED
      BY <1>1, <2>1 DEF JobRows, Live
  <1>4. DOMAIN job' = JobIds /\ job' = [x \in DOMAIN job' |-> job'[x]]
    BY DEF RetryJob
  <1> QED
    BY <1>1, <1>3, <1>4 DEF Writes

\* An UPDATE that sets the status of the rows in S and clears started_at.
LEMMA GroupWrites ==
  ASSUME job \in [JobIds -> JobRows], NEW S, S \subseteq JobIds, NEW st \in Live \cup {"none", "gone"},
         \/ job' = [j \in JobIds |-> IF j \in S THEN [job[j] EXCEPT !.status = st, !.stale = FALSE]
                                     ELSE job[j]]
         \/ job' = [j \in JobIds |-> IF j \in S THEN [job[j] EXCEPT !.status = st] ELSE job[j]] /\ st = "gone"
  PROVE  Writes(S, st) /\ AttemptsKept
  <1>1. \A i \in JobIds : job[i] \in JobRows
    OBVIOUS
  <1>2. ASSUME NEW i \in S
        PROVE  /\ job'[i] \in JobRows /\ job'[i].status = st /\ job'[i].key = job[i].key
               /\ job'[i].attempts = job[i].attempts /\ (st = "gone" \/ ~job'[i].stale)
    <2>1. job[i] \in JobRows
      BY <1>1
    <2>2. CASE job'[i] = [job[i] EXCEPT !.status = st, !.stale = FALSE]
      BY <2>1, <2>2 DEF JobRows
    <2>3. CASE job'[i] = [job[i] EXCEPT !.status = st] /\ st = "gone"
      BY <2>1, <2>3 DEF JobRows
    <2> QED
      BY <2>2, <2>3
  <1>3. \A i \in JobIds : i \notin S => job'[i] = job[i]
    OBVIOUS
  <1>4. DOMAIN job' = JobIds /\ job' = [x \in DOMAIN job' |-> job'[x]]
    OBVIOUS
  <1>5. job' \in [JobIds -> JobRows]
    BY <1>1, <1>2, <1>3, <1>4
  <1> QED
    BY <1>2, <1>3, <1>5 DEF Writes, AttemptsKept

LEMMA ClaimWrites ==
  ASSUME job \in [JobIds -> JobRows], NEW S, S \subseteq JobIds, job' = ClaimDueJobs(S)
  PROVE  /\ Writes(S, "running")
         /\ \A i \in S : job'[i].attempts = job[i].attempts + 1
  <1>1. \A i \in JobIds : job[i] \in JobRows
    OBVIOUS
  <1>2. ASSUME NEW i \in S
        PROVE  /\ job'[i] \in JobRows /\ job'[i].status = "running" /\ ~job'[i].stale
               /\ job'[i].key = job[i].key /\ job'[i].attempts = job[i].attempts + 1
    <2>1. job'[i] = [job[i] EXCEPT !.status = "running", !.stale = FALSE, !.attempts = @ + 1]
      BY DEF ClaimDueJobs
    <2>2. job'[i] = [status |-> "running", attempts |-> job[i].attempts + 1, due |-> job[i].due,
                     stale |-> FALSE, old |-> job[i].old, key |-> job[i].key]
      BY <1>1, <2>1 DEF JobRows
    <2> QED
      BY <1>1, <2>2 DEF JobRows, Live
  <1>3. \A i \in JobIds : i \notin S => job'[i] = job[i]
    BY DEF ClaimDueJobs
  <1>4. DOMAIN job' = JobIds /\ job' = [x \in DOMAIN job' |-> job'[x]]
    BY DEF ClaimDueJobs
  <1>5. job' \in [JobIds -> JobRows]
    BY <1>1, <1>2, <1>3, <1>4
  <1> QED
    BY <1>2, <1>3, <1>5 DEF Writes

\* The two statements of RequeueStuck.
LEMMA SweepWrites ==
  ASSUME job \in [JobIds -> JobRows]
  PROVE  /\ SweepRequeue => Writes({j \in Stuck : job[j].attempts < MaxAttempts}, "pending") /\ AttemptsKept
         /\ SweepFail => Writes({j \in Stuck : job[j].attempts >= MaxAttempts}, "failed") /\ AttemptsKept
  <1>1. CASE SweepRequeue
    <2> DEFINE S == {j \in Stuck : job[j].attempts < MaxAttempts}
    <2>1. S \subseteq JobIds
      BY DEF Stuck
    <2>2. job' = [j \in JobIds |-> IF j \in S THEN [job[j] EXCEPT !.status = "pending", !.stale = FALSE]
                                   ELSE job[j]]
      BY <1>1 DEF SweepRequeue
    <2> HIDE DEF S
    <2>3. Writes(S, "pending") /\ AttemptsKept
      BY <2>1, <2>2, GroupWrites DEF Live
    <2> QED
      BY <2>3, <1>1 DEF S, SweepRequeue, SweepFail
  <1>2. CASE SweepFail
    <2> DEFINE S == {j \in Stuck : job[j].attempts >= MaxAttempts}
    <2>1. S \subseteq JobIds
      BY DEF Stuck
    <2>2. job' = [j \in JobIds |-> IF j \in S THEN [job[j] EXCEPT !.status = "failed", !.stale = FALSE]
                                   ELSE job[j]]
      BY <1>2 DEF SweepFail
    <2> HIDE DEF S
    <2>3. Writes(S, "failed") /\ AttemptsKept
      BY <2>1, <2>2, GroupWrites DEF Live
    <2> QED
      BY <2>3, <1>2 DEF S, SweepRequeue, SweepFail
  <1> QED
    BY <1>1, <1>2

\* Retention, DELETE of a job and DELETE of the function remove rows.
LEMMA RemovalWrites ==
  ASSUME job \in [JobIds -> JobRows], PurgeJobs \/ DeleteFn \/ \E j \in JobIds : Delete(j)
  PROVE  \E S \in SUBSET ListJobs(Live) : Writes(S, "gone") /\ AttemptsKept
  <1>1. \E S \in SUBSET ListJobs(Live) :
          job' = [j \in JobIds |-> IF j \in S THEN [job[j] EXCEPT !.status = "gone"] ELSE job[j]]
    <2>1. CASE PurgeJobs
      BY <2>1 DEF PurgeJobs, ListJobs, Live, Ended
    <2>2. CASE DeleteFn
      <3>1. job' = [j \in JobIds |-> IF j \in ListJobs(Live) THEN [job[j] EXCEPT !.status = "gone"] ELSE job[j]]
        BY <2>2 DEF DeleteFn, ListJobs, GetJob
      <3> QED
        BY <3>1
    <2>3. ASSUME NEW j \in JobIds, Delete(j)
          PROVE  \E S \in SUBSET ListJobs(Live) :
                   job' = [i \in JobIds |-> IF i \in S THEN [job[i] EXCEPT !.status = "gone"] ELSE job[i]]
      <3>1. {j} \in SUBSET ListJobs(Live)
        BY <2>3 DEF Delete, GetJob, ListJobs
      <3>2. job' = [i \in JobIds |-> IF i \in {j} THEN [job[i] EXCEPT !.status = "gone"] ELSE job[i]]
        BY <2>3 DEF Delete, DeleteJob
      <3> QED
        BY <3>1, <3>2
    <2> QED
      BY <2>1, <2>2, <2>3
  <1>2. PICK S \in SUBSET ListJobs(Live) :
          job' = [j \in JobIds |-> IF j \in S THEN [job[j] EXCEPT !.status = "gone"] ELSE job[j]]
    BY <1>1
  <1>3. S \subseteq JobIds
    BY <1>2 DEF ListJobs
  <1> QED
    BY <1>2, <1>3, GroupWrites

\* The clock sets one mark of one row.
Marks(j) ==
  /\ job' \in [JobIds -> JobRows]
  /\ \A i \in JobIds : /\ job'[i].status = job[i].status /\ job'[i].attempts = job[i].attempts
                       /\ job'[i].key = job[i].key
                       /\ i # j => job'[i] = job[i]

LEMMA ClockMarks ==
  ASSUME job \in [JobIds -> JobRows], NEW j \in JobIds,
         \/ job' = [job EXCEPT ![j].due = TRUE]
         \/ job' = [job EXCEPT ![j].stale = TRUE]
         \/ job' = [job EXCEPT ![j].old = TRUE]
  PROVE  Marks(j) /\ (job' # [job EXCEPT ![j].stale = TRUE] => job'[j].stale = job[j].stale)
  <1>1. job[j] \in JobRows
    OBVIOUS
  <1>2. CASE job' = [job EXCEPT ![j].due = TRUE]
    BY <1>1, <1>2 DEF JobRows, Marks
  <1>3. CASE job' = [job EXCEPT ![j].stale = TRUE]
    BY <1>1, <1>3 DEF JobRows, Marks
  <1>4. CASE job' = [job EXCEPT ![j].old = TRUE]
    BY <1>1, <1>4 DEF JobRows, Marks
  <1> QED
    BY <1>2, <1>3, <1>4

\* The INSERT of a new row.
LEMMA InsertWrites ==
  ASSUME job \in [JobIds -> JobRows], NEW j \in JobIds, NEW k \in JobKeys \cup {NoKey},
         job' = [job EXCEPT ![j] = [NoJobRow EXCEPT !.status = "pending", !.due = TRUE, !.key = k]]
  PROVE  /\ job' \in [JobIds -> JobRows]
         /\ job'[j].status = "pending" /\ job'[j].attempts = 0 /\ job'[j].key = k /\ ~job'[j].stale
         /\ \A i \in JobIds \ {j} : job'[i] = job[i]
  <1>1. job'[j] = [NoJobRow EXCEPT !.status = "pending", !.due = TRUE, !.key = k]
    OBVIOUS
  <1>2. /\ job'[j] \in JobRows /\ job'[j].status = "pending" /\ job'[j].attempts = 0
        /\ job'[j].key = k /\ ~job'[j].stale
    BY <1>1 DEF NoJobRow, JobRows, Live
  <1> QED
    BY <1>2

----------------------------------------------------------------------------
(* Jobs: the goroutines.                                                  *)

\* A goroutine of runJob has a job, and a free place has none.
SlotHasJob ==
  \A s \in JobSlots : slot[s].id \in JobIds <=> slot[s].pc # "free"

\* A goroutine moves on with the job it has.
Moves(s, pcs) ==
  /\ slot' \in [JobSlots -> SlotRows]
  /\ slot'[s].pc \in pcs /\ slot'[s].id = slot[s].id /\ slot'[s].attempts = slot[s].attempts
  /\ \A t \in JobSlots \ {s} : slot'[t] = slot[t]

LEMMA GoroutineMoves ==
  ASSUME slot \in [JobSlots -> SlotRows], NEW s \in JobSlots,
         NEW p \in {"dispatch", "write", "publish"},
         \/ slot' = [slot EXCEPT ![s].pc = p]
         \/ \E ok \in BOOLEAN : slot' = [slot EXCEPT ![s].pc = p, ![s].ok = ok]
  PROVE  Moves(s, {p})
  <1>1. slot[s] \in SlotRows /\ \A t \in JobSlots \ {s} : slot'[t] = slot[t]
    OBVIOUS
  <1>2. \/ slot'[s] = [slot[s] EXCEPT !.pc = p]
        \/ \E ok \in BOOLEAN : slot'[s] = [slot[s] EXCEPT !.pc = p, !.ok = ok]
    BY <1>1
  <1>3. /\ slot'[s] \in SlotRows /\ slot'[s].pc = p /\ slot'[s].id = slot[s].id
        /\ slot'[s].attempts = slot[s].attempts
    BY <1>1, <1>2 DEF SlotRows
  <1>4. DOMAIN slot' = JobSlots /\ slot' = [x \in DOMAIN slot' |-> slot'[x]]
    OBVIOUS
  <1> QED
    BY <1>1, <1>3, <1>4 DEF Moves

\* TickClaim puts each claimed job into a free place of its own.
LEMMA ClaimSlots ==
  ASSUME job \in [JobIds -> JobRows], slot \in [JobSlots -> SlotRows], NEW S, S \subseteq JobIds, TickClaim(S)
  PROVE  /\ slot' \in [JobSlots -> SlotRows]
         /\ \A s \in JobSlots :
              \/ slot'[s] = slot[s]
              \/ /\ slot[s].pc = "free" /\ slot'[s].pc = "start" /\ slot'[s].id \in S
                 /\ slot'[s].attempts = job[slot'[s].id].attempts + 1
         /\ \A s, t \in JobSlots :
              slot'[s] # slot[s] /\ slot'[t] # slot[t] /\ slot'[s].id = slot'[t].id => s = t
  <1>1. PICK place \in [S -> FreeSlots] :
          slot' = [s \in JobSlots |->
                     IF \E j \in S : place[j] = s
                     THEN LET j == CHOOSE i \in S : place[i] = s
                          IN  [pc |-> "start", id |-> j, attempts |-> job[j].attempts + 1, ok |-> FALSE]
                     ELSE slot[s]]
    BY DEF TickClaim
  <1> DEFINE Taken(s) == \E j \in S : place[j] = s
             Of(s) == CHOOSE i \in S : place[i] = s
             New(s) == [pc |-> "start", id |-> Of(s), attempts |-> job[Of(s)].attempts + 1, ok |-> FALSE]
  <1>2. \A s \in JobSlots : Taken(s) => Of(s) \in S /\ place[Of(s)] = s
    OBVIOUS
  <1>3. \A s \in JobSlots : Taken(s) => slot[s].pc = "free"
    BY DEF FreeSlots
  <1>4. slot' = [s \in JobSlots |-> IF Taken(s) THEN New(s) ELSE slot[s]]
    BY <1>1, Zenon
  <1>5. \A s \in JobSlots : Taken(s) => New(s) \in SlotRows
    <2> SUFFICES ASSUME NEW s \in JobSlots, Taken(s) PROVE New(s) \in SlotRows
      OBVIOUS
    <2>1. Of(s) \in JobIds
      BY <1>2
    <2> HIDE DEF Of, Taken
    <2>2. job[Of(s)].attempts \in Nat
      BY <2>1 DEF JobRows
    <2> QED
      BY <2>1, <2>2 DEF SlotRows
  <1>6. \A s \in JobSlots : New(s).pc = "start" /\ New(s).id = Of(s) /\ New(s).attempts = job[Of(s)].attempts + 1
    OBVIOUS
  <1> HIDE DEF New, Of, Taken
  <1>7. \A s \in JobSlots : slot'[s] = IF Taken(s) THEN New(s) ELSE slot[s]
    BY <1>4
  <1>8. slot' \in [JobSlots -> SlotRows]
    BY <1>4, <1>5
  <1>9. ASSUME NEW s \in JobSlots, NEW t \in JobSlots, slot'[s] # slot[s], slot'[t] # slot[t],
               slot'[s].id = slot'[t].id
        PROVE  s = t
    <2>1. slot'[s] = New(s) /\ Taken(s) /\ slot'[t] = New(t) /\ Taken(t)
      BY <1>7, <1>9
    <2>2. Of(s) = Of(t)
      BY <1>6, <1>9, <2>1
    <2> QED
      BY <1>2, <2>1, <2>2
  <1> QED
    BY <1>2, <1>3, <1>6, <1>7, <1>8, <1>9

\* The caller's record after an enqueue, an answer or a crash.
LEMMA CallerTypes ==
  ASSUME caller \in [Enqueuers -> CallerRows], NEW c \in Enqueuers
  PROVE  /\ \A p \in {"done", "recover"} : [caller EXCEPT ![c].pc = p] \in [Enqueuers -> CallerRows]
         /\ \A j \in JobIds : [caller EXCEPT ![c].pc = "done", ![c].answer = j] \in [Enqueuers -> CallerRows]
         /\ \A p \in {"done", "insert"}, k \in JobKeys \cup {NoKey}, a \in JobIds \cup {NoJob} :
              [caller EXCEPT ![c] = [pc |-> p, key |-> k, answer |-> a]] \in [Enqueuers -> CallerRows]
  BY DEF CallerRows

\* What JobsTypeOK says, with the records named.
LEMMA JobsTypes ==
  JobsTypeOK <=> /\ job \in [JobIds -> JobRows] /\ fnExists \in BOOLEAN
                 /\ slot \in [JobSlots -> SlotRows] /\ tick \in 0 .. Cardinality(JobSlots)
                 /\ sweep \in {"idle", "fail"} /\ caller \in [Enqueuers -> CallerRows]
                 /\ looking \in [JobOps -> JobIds \cup {NoJob}] /\ daemon \in {"up", "stopping", "down"}
                 /\ events \in 0 .. MaxEvents /\ lives \in [JobIds -> Nat]
  BY DEF JobsTypeOK, SlotRows, CallerRows

LEMMA InitJobsTypes == JobsInit => JobsTypeOK /\ SlotHasJob
  <1> SUFFICES ASSUME JobsInit PROVE JobsTypeOK /\ SlotHasJob
    OBVIOUS
  <1>1. Cardinality(JobSlots) \in Nat /\ MaxEvents \in Nat
    BY JobsAssumption, FS_CardinalityType DEF JobsAssumption
  <1>2. NoJobRow \in JobRows /\ FreeSlot \in SlotRows /\ IdleCaller \in CallerRows
    BY DEF NoJobRow, JobRows, FreeSlot, SlotRows, IdleCaller, CallerRows
  <1>3. [IdleCaller EXCEPT !.pc = "done"] \in CallerRows
    BY DEF IdleCaller, CallerRows
  <1>4. SlotHasJob
    BY JobsNames DEF JobsInit, JobsStart, SlotHasJob, FreeSlot, JobsNames
  <1> QED
    BY <1>1, <1>2, <1>3, <1>4, JobsTypes DEF JobsInit, JobsStart

LEMMA NextJobsTypes == JobsTypeOK /\ SlotHasJob /\ [JobsNext]_jobsVars => JobsTypeOK' /\ SlotHasJob'
  <1> SUFFICES ASSUME JobsTypeOK, SlotHasJob, [JobsNext]_jobsVars PROVE JobsTypeOK' /\ SlotHasJob'
    OBVIOUS
  <1> USE DEF jobsVars
  <1>1. /\ job \in [JobIds -> JobRows] /\ fnExists \in BOOLEAN
        /\ slot \in [JobSlots -> SlotRows] /\ tick \in 0 .. Cardinality(JobSlots)
        /\ sweep \in {"idle", "fail"} /\ caller \in [Enqueuers -> CallerRows]
        /\ looking \in [JobOps -> JobIds \cup {NoJob}] /\ daemon \in {"up", "stopping", "down"}
        /\ events \in 0 .. MaxEvents /\ lives \in [JobIds -> Nat]
    BY JobsTypes
  <1>2. MaxEvents \in Nat /\ Cardinality(JobSlots) \in Nat /\ NoJob \notin JobIds
    BY JobsAssumption, JobsNames, FS_CardinalityType DEF JobsAssumption, JobsNames
  <1>3. \A kind : Event(kind) => events' \in 0 .. MaxEvents
    BY <1>1, <1>2 DEF Event
  \* The parts, primed.
  <1> DEFINE OK == /\ job' \in [JobIds -> JobRows] /\ fnExists' \in BOOLEAN
                   /\ slot' \in [JobSlots -> SlotRows] /\ tick' \in 0 .. Cardinality(JobSlots)
                   /\ sweep' \in {"idle", "fail"} /\ caller' \in [Enqueuers -> CallerRows]
                   /\ looking' \in [JobOps -> JobIds \cup {NoJob}] /\ daemon' \in {"up", "stopping", "down"}
                   /\ events' \in 0 .. MaxEvents /\ lives' \in [JobIds -> Nat] /\ SlotHasJob'
  <1>4. OK => JobsTypeOK' /\ SlotHasJob'
    BY DEF JobsTypeOK, SlotRows, CallerRows
  <1>5. UNCHANGED slot => SlotHasJob'
    BY DEF SlotHasJob
  <1>6. ASSUME NEW c \in Enqueuers, NEW k \in JobKeys \cup {NoKey}, EnqueueLookup(c, k) PROVE OK
    <2>1. PICK p \in {"done", "insert"}, a \in JobIds \cup {NoJob} :
            caller' = [caller EXCEPT ![c] = [pc |-> p, key |-> k, answer |-> a]]
      BY <1>6 DEF EnqueueLookup, GetJobByIdempotency
    <2>2. caller' \in [Enqueuers -> CallerRows]
      BY <1>1, <2>1 DEF CallerRows
    <2> QED
      BY <1>1, <1>5, <1>6, <2>2 DEF EnqueueLookup
  <1>7. ASSUME NEW c \in Enqueuers, EnqueueInsert(c) PROVE OK
    <2>1. caller[c].key \in JobKeys \cup {NoKey}
      BY <1>1 DEF CallerRows
    <2>2. UNCHANGED <<fnExists, slot, tick, sweep, looking, daemon, events>>
      BY <1>7 DEF EnqueueInsert
    <2>3. ASSUME NEW j \in JobIds,
                 job' = [job EXCEPT ![j] = [NoJobRow EXCEPT !.status = "pending", !.due = TRUE,
                                                            !.key = caller[c].key]],
                 lives' = [lives EXCEPT ![j] = 1],
                 caller' = [caller EXCEPT ![c].pc = "done", ![c].answer = j]
          PROVE  OK
      BY <1>1, <1>5, <2>1, <2>2, <2>3, InsertWrites, CallerTypes
    <2>4. CASE UNCHANGED <<job, lives>> /\ caller' = [caller EXCEPT ![c].pc = IF caller[c].key = NoKey
                                                                              THEN "done" ELSE "recover"]
      BY <1>1, <1>5, <2>2, <2>4, CallerTypes
    <2> QED
      BY <1>7, <2>3, <2>4 DEF EnqueueInsert, ListJobs
  <1>8. ASSUME NEW c \in Enqueuers, EnqueueRecover(c) PROVE OK
    <2>1. \/ \E j \in JobIds : caller' = [caller EXCEPT ![c].pc = "done", ![c].answer = j]
          \/ caller' = [caller EXCEPT ![c].pc = "done"]
      BY <1>8 DEF EnqueueRecover
    <2>2. caller' \in [Enqueuers -> CallerRows]
      BY <1>1, <2>1 DEF CallerRows
    <2> QED
      BY <1>1, <1>5, <1>8, <2>2 DEF EnqueueRecover
  <1>9. ASSUME NEW n \in 1 .. Cardinality(JobSlots), TickReserve(n) PROVE OK
    BY <1>1, <1>2, <1>5, <1>9 DEF TickReserve
  <1>10. ASSUME NEW S \in SUBSET JobIds, TickClaim(S) PROVE OK
    <2>1. job' \in [JobIds -> JobRows]
      BY <1>1, <1>10, ClaimWrites DEF TickClaim, Writes
    <2>2. slot' \in [JobSlots -> SlotRows] /\ SlotHasJob'
      BY <1>1, <1>10, ClaimSlots DEF SlotHasJob
    <2> QED
      BY <1>1, <1>2, <1>10, <2>1, <2>2 DEF TickClaim
  <1>11. ASSUME NEW s \in JobSlots, RunStart(s) \/ RunDispatch(s) PROVE OK
    <2>1. Moves(s, {"dispatch"}) \/ Moves(s, {"write"})
      BY <1>1, <1>11, GoroutineMoves DEF RunStart, RunDispatch
    <2>2. slot' \in [JobSlots -> SlotRows] /\ SlotHasJob'
      BY <1>11, <2>1 DEF Moves, SlotHasJob, RunStart, RunDispatch, AtStep
    <2> QED
      BY <1>1, <1>11, <2>2 DEF RunStart, RunDispatch
  <1>12. ASSUME NEW s \in JobSlots, Finalize(s) PROVE OK
    <2>1. Moves(s, {"publish"})
      BY <1>1, <1>12, GoroutineMoves DEF Finalize
    <2>2. slot' \in [JobSlots -> SlotRows] /\ SlotHasJob' /\ slot[s].id \in JobIds
      BY <1>12, <2>1 DEF Moves, SlotHasJob, Finalize, AtStep
    <2>3. job' \in [JobIds -> JobRows]
      BY <1>1, <1>12, <2>2, SuccessWrites, FailureWrites DEF Finalize, Writes
    <2> QED
      BY <1>1, <1>12, <2>2, <2>3 DEF Finalize
  <1>13. ASSUME NEW s \in JobSlots, PublishJob(s) PROVE OK
    <2>1. slot' \in [JobSlots -> SlotRows] /\ SlotHasJob'
      BY <1>1, <1>2, <1>13 DEF PublishJob, FreeSlot, SlotRows, SlotHasJob
    <2> QED
      BY <1>1, <1>13, <2>1 DEF PublishJob
  <1>14. ASSUME SweepRequeue \/ SweepFail PROVE OK
    <2>1. job' \in [JobIds -> JobRows]
      BY <1>1, <1>14, SweepWrites DEF Writes
    <2> QED
      BY <1>1, <1>5, <1>14, <2>1 DEF SweepRequeue, SweepFail
  <1>15. ASSUME PurgeJobs \/ DeleteFn \/ \E j \in JobIds : Delete(j) PROVE OK
    <2>1. job' \in [JobIds -> JobRows]
      BY <1>1, <1>15, RemovalWrites DEF Writes
    <2> QED
      BY <1>1, <1>3, <1>5, <1>15, <2>1 DEF PurgeJobs, DeleteFn, Delete
  <1>16. ASSUME NEW o \in JobOps, List(o) PROVE OK
    BY <1>1, <1>3, <1>5, <1>16 DEF List, ListJobs
  <1>17. ASSUME NEW o \in JobOps, Retry(o) PROVE OK
    <2>1. looking[o] \in JobIds
      BY <1>1, <1>17 DEF Retry
    <2>2. job' \in [JobIds -> JobRows]
      BY <1>1, <1>17, <2>1, RetryWrites DEF Retry, Writes
    <2>3. lives' \in [JobIds -> Nat]
      BY <1>1, <1>17, <2>1 DEF Retry, RetryJob
    <2> QED
      BY <1>1, <1>5, <1>17, <2>2, <2>3 DEF Retry
  <1>18. ASSUME NEW j \in JobIds, Backoff(j) \/ LeaseExpires(j) \/ WindowPasses(j) PROVE OK
    <2>1. job' \in [JobIds -> JobRows]
      BY <1>1, <1>18, ClockMarks DEF Backoff, LeaseExpires, WindowPasses, Marks
    <2> QED
      BY <1>1, <1>3, <1>5, <1>18, <2>1 DEF Backoff, LeaseExpires, WindowPasses
  <1>19. ASSUME Stop \/ Boot PROVE OK
    BY <1>1, <1>3, <1>5, <1>19 DEF Stop, Boot
  <1>20. ASSUME GoDown PROVE OK
    <2>1. slot' \in [JobSlots -> SlotRows] /\ SlotHasJob'
      BY <1>2, <1>20 DEF GoDown, FreeSlot, SlotRows, SlotHasJob
    <2>2. caller' \in [Enqueuers -> CallerRows]
      BY <1>1, <1>20 DEF GoDown, CallerRows
    <2>3. events' \in 0 .. MaxEvents
      BY <1>1, <1>3, <1>20 DEF GoDown
    <2> QED
      BY <1>1, <1>2, <1>20, <2>1, <2>2, <2>3 DEF GoDown
  <1>21. ASSUME UNCHANGED jobsVars PROVE OK
    BY <1>1, <1>5, <1>21
  <1> HIDE DEF OK
  <1> QED
    BY <1>4, <1>6, <1>7, <1>8, <1>9, <1>10, <1>11, <1>12, <1>13, <1>14, <1>15, <1>16, <1>17, <1>18, <1>19, <1>20, <1>21
       DEF JobsNext, Enqueue, enqueue_job, RunStep, list_jobs, retry_job, delete_job

\* Every variable of the jobs table, its loops and its callers stays within
\* its type; a goroutine that writes a result has a job to write it to.
THEOREM JobsTypesHold == JobsSpec => []JobsTypeOK
  BY InitJobsTypes, NextJobsTypes, PTL DEF JobsSpec

----------------------------------------------------------------------------
(* Jobs: one idempotency key, one job.                                    *)

\* No two rows have the same key, and an answered caller was told the row
\* with its key.  A row keeps its key, and its id is not used again.
KeysUnique ==
  \A i, j \in JobIds : GetJob(i) /\ GetJob(j) /\ job[i].key = job[j].key /\ job[i].key # NoKey => i = j
AnswersHaveKey ==
  \A c \in Enqueuers : caller[c].answer \in JobIds =>
    job[caller[c].answer].status # "none" /\ job[caller[c].answer].key = caller[c].key

\* Rows keep their keys and come only from other rows.
RowsStay ==
  \A i \in JobIds : /\ job[i].status # "none" => job'[i].status # "none" /\ job'[i].key = job[i].key
                    /\ job'[i].status \in Live => job[i].status \in Live

LEMMA KeysStay ==
  ASSUME KeysUnique, RowsStay PROVE KeysUnique'
  BY DEF KeysUnique, RowsStay, GetJob, Live

LEMMA AnswersStay ==
  ASSUME JobsTypeOK, AnswersHaveKey, RowsStay,
         \A c \in Enqueuers : caller'[c].answer \in JobIds =>
           caller'[c].answer = caller[c].answer /\ caller'[c].key = caller[c].key
  PROVE  AnswersHaveKey'
  BY DEF AnswersHaveKey, RowsStay

LEMMA WritesKeepRows ==
  ASSUME JobsTypeOK, NEW S \in SUBSET JobIds, NEW st \in Live \cup {"gone"}, Writes(S, st),
         \A i \in S : job[i].status \in Live
  PROVE  RowsStay
  BY DEF Writes, RowsStay, Live

\* Every step but an INSERT keeps the rows.
LEMMA MostRowsStay ==
  ASSUME JobsTypeOK, SlotHasJob, [JobsNext]_jobsVars, \A c \in Enqueuers : ~EnqueueInsert(c)
  PROVE  RowsStay
  <1>1. job \in [JobIds -> JobRows] /\ looking \in [JobOps -> JobIds \cup {NoJob}]
    BY JobsTypes
  <1>2. UNCHANGED job => RowsStay
    BY DEF RowsStay
  <1>3. ASSUME NEW S \in SUBSET JobIds, TickClaim(S) PROVE RowsStay
    <2>1. Writes(S, "running") /\ \A i \in S : job[i].status \in Live
      BY <1>1, <1>3, ClaimWrites DEF TickClaim, DueJobs, Live
    <2> QED
      BY <2>1, WritesKeepRows DEF Live
  <1>4. ASSUME NEW s \in JobSlots, Finalize(s) PROVE RowsStay
    <2>1. slot[s].id \in JobIds
      BY <1>4 DEF Finalize, AtStep, SlotHasJob
    <2>2. CASE ~GetJob(slot[s].id)
      BY <1>2, <1>4, <2>2 DEF Finalize
    <2>3. CASE GetJob(slot[s].id)
      <3>1. \E st \in Live : Writes({slot[s].id}, st)
        BY <1>1, <1>4, <2>1, <2>3, SuccessWrites, FailureWrites DEF Finalize, Live
      <3> QED
        BY <2>1, <2>3, <3>1, WritesKeepRows DEF GetJob
    <2> QED
      BY <2>2, <2>3
  <1>5. ASSUME SweepRequeue \/ SweepFail PROVE RowsStay
    <2>1. \E S \in SUBSET Stuck, st \in Live : Writes(S, st)
      BY <1>1, <1>5, SweepWrites DEF Live
    <2> QED
      BY <2>1, WritesKeepRows DEF Stuck, Live
  <1>6. ASSUME PurgeJobs \/ DeleteFn \/ \E j \in JobIds : Delete(j) PROVE RowsStay
    <2>1. \E S \in SUBSET ListJobs(Live) : Writes(S, "gone")
      BY <1>1, <1>6, RemovalWrites
    <2> QED
      BY <2>1, WritesKeepRows DEF ListJobs
  <1>7. ASSUME NEW o \in JobOps, Retry(o) PROVE RowsStay
    <2>1. looking[o] \in JobIds
      BY <1>1, <1>7 DEF Retry
    <2>2. CASE GetJob(looking[o])
      <3>1. Writes({looking[o]}, "pending")
        BY <1>1, <1>7, <2>1, <2>2, RetryWrites DEF Retry
      <3> QED
        BY <2>1, <2>2, <3>1, WritesKeepRows DEF GetJob, Live
    <2> QED
      BY <1>2, <1>7, <2>2 DEF Retry
  <1>8. ASSUME NEW j \in JobIds, Backoff(j) \/ LeaseExpires(j) \/ WindowPasses(j) PROVE RowsStay
    BY <1>1, <1>8, ClockMarks DEF Backoff, LeaseExpires, WindowPasses, Marks, RowsStay
  <1>9. ASSUME \/ \E c \in Enqueuers, k \in JobKeys \cup {NoKey} : EnqueueLookup(c, k)
               \/ \E c \in Enqueuers : EnqueueRecover(c)
               \/ \E n \in 1 .. Cardinality(JobSlots) : TickReserve(n)
               \/ \E s \in JobSlots : RunStart(s) \/ RunDispatch(s) \/ PublishJob(s)
               \/ (\E o \in JobOps : List(o)) \/ Stop \/ GoDown \/ Boot \/ UNCHANGED jobsVars
        PROVE  UNCHANGED job
    BY <1>9 DEF EnqueueLookup, EnqueueRecover, TickReserve, RunStart, RunDispatch, PublishJob, List, Stop,
                GoDown, Boot, jobsVars
  <1> QED
    BY <1>2, <1>3, <1>4, <1>5, <1>6, <1>7, <1>8, <1>9
       DEF JobsNext, Enqueue, enqueue_job, RunStep, list_jobs, retry_job, delete_job

LEMMA NextKeys ==
  JobsTypeOK /\ SlotHasJob /\ KeysUnique /\ AnswersHaveKey /\ [JobsNext]_jobsVars
  => KeysUnique' /\ AnswersHaveKey'
  <1> SUFFICES ASSUME JobsTypeOK, SlotHasJob, KeysUnique, AnswersHaveKey, [JobsNext]_jobsVars
               PROVE  KeysUnique' /\ AnswersHaveKey'
    OBVIOUS
  <1>1. /\ job \in [JobIds -> JobRows] /\ caller \in [Enqueuers -> CallerRows] /\ NoJob \notin JobIds
        /\ \A i \in JobIds : job[i].status \in Live \cup {"none", "gone"} /\ job[i].key \in JobKeys \cup {NoKey}
        /\ \A c \in Enqueuers : caller[c].key \in JobKeys \cup {NoKey}
    BY JobsTypes, JobsNames DEF JobsNames, JobRows, CallerRows
  <1>2. ASSUME NEW c \in Enqueuers, EnqueueInsert(c) PROVE KeysUnique' /\ AnswersHaveKey'
    <2>1. CASE UNCHANGED job
      <3>1. \A d \in Enqueuers : caller'[d].answer = caller[d].answer /\ caller'[d].key = caller[d].key
        BY <1>1, <1>2, <2>1 DEF EnqueueInsert, CallerRows
      <3> QED
        BY <2>1, <3>1 DEF KeysUnique, AnswersHaveKey, GetJob
    <2>2. ASSUME NEW j \in JobIds, job[j].status = "none",
                 caller[c].key = NoKey \/ ~KeyTaken(caller[c].key),
                 job' = [job EXCEPT ![j] = [NoJobRow EXCEPT !.status = "pending", !.due = TRUE,
                                                            !.key = caller[c].key]],
                 caller' = [caller EXCEPT ![c].pc = "done", ![c].answer = j]
          PROVE  KeysUnique' /\ AnswersHaveKey'
      <3>1. /\ job'[j].status = "pending" /\ job'[j].key = caller[c].key
            /\ \A i \in JobIds \ {j} : job'[i] = job[i]
        BY <1>1, <2>2, InsertWrites
      <3>2. KeysUnique'
        <4> SUFFICES ASSUME NEW a \in JobIds, NEW b \in JobIds, GetJob(a)', GetJob(b)',
                            job'[a].key = job'[b].key, job'[a].key # NoKey
                     PROVE  a = b
          BY DEF KeysUnique
        <4>1. CASE a # j /\ b # j
          BY <3>1, <4>1 DEF KeysUnique, GetJob
        <4>2. \A i \in JobIds \ {j} : GetJob(i)' => job'[i].key # job'[j].key \/ job'[j].key = NoKey
          BY <2>2, <3>1 DEF GetJob, KeyTaken
        <4> QED
          BY <4>1, <4>2
      <3>3. AnswersHaveKey'
        <4>1. caller'[c].answer = j /\ caller'[c].key = caller[c].key
              /\ \A d \in Enqueuers \ {c} : caller'[d] = caller[d]
          BY <1>1, <2>2 DEF CallerRows
        <4>2. \A d \in Enqueuers \ {c} : caller[d].answer \in JobIds => caller[d].answer # j
          BY <2>2 DEF AnswersHaveKey
        <4> QED
          BY <3>1, <4>1, <4>2 DEF AnswersHaveKey
      <3> QED
        BY <3>2, <3>3
    <2> QED
      BY <1>2, <2>1, <2>2 DEF EnqueueInsert, ListJobs
  <1>3. ASSUME \A c \in Enqueuers : ~EnqueueInsert(c) PROVE RowsStay
    BY <1>3, MostRowsStay
  <1>4. ASSUME NEW c \in Enqueuers, NEW k \in JobKeys \cup {NoKey}, EnqueueLookup(c, k), RowsStay
        PROVE  KeysUnique' /\ AnswersHaveKey'
    <2>1. /\ \A d \in Enqueuers \ {c} : caller'[d] = caller[d]
          /\ caller'[c].answer \in JobIds =>
               /\ job[caller'[c].answer].status \in Live /\ job[caller'[c].answer].key = caller'[c].key
      BY <1>1, <1>4 DEF EnqueueLookup, GetJobByIdempotency
    <2>2. AnswersHaveKey'
      BY <1>4, <2>1 DEF AnswersHaveKey, RowsStay, Live
    <2> QED
      BY <1>4, <2>2, KeysStay
  <1>5. ASSUME NEW c \in Enqueuers, EnqueueRecover(c), RowsStay PROVE KeysUnique' /\ AnswersHaveKey'
    <2>1. /\ \A d \in Enqueuers \ {c} : caller'[d] = caller[d]
          /\ caller'[c].key = caller[c].key
          /\ caller'[c].answer = caller[c].answer
             \/ (/\ caller'[c].answer \in JobIds /\ job[caller'[c].answer].status \in Live
                 /\ job[caller'[c].answer].key = caller'[c].key)
      BY <1>1, <1>5 DEF EnqueueRecover, ListJobs, CallerRows
    <2>2. AnswersHaveKey'
      BY <1>5, <2>1 DEF AnswersHaveKey, RowsStay, Live
    <2> QED
      BY <1>5, <2>2, KeysStay
  <1>6. ASSUME UNCHANGED caller, RowsStay PROVE KeysUnique' /\ AnswersHaveKey'
    BY <1>6, KeysStay, AnswersStay
  <1>7. ASSUME GoDown, RowsStay PROVE KeysUnique' /\ AnswersHaveKey'
    <2>1. \A c \in Enqueuers : caller'[c].answer = caller[c].answer /\ caller'[c].key = caller[c].key
      BY <1>1, <1>7 DEF GoDown, CallerRows
    <2> QED
      BY <1>7, <2>1, KeysStay, AnswersStay
  <1>8. ASSUME \/ \E n \in 1 .. Cardinality(JobSlots) : TickReserve(n)
               \/ \E S \in SUBSET JobIds : TickClaim(S)
               \/ \E s \in JobSlots : RunStep(s)
               \/ SweepRequeue \/ SweepFail \/ PurgeJobs
               \/ \E o \in JobOps : List(o) \/ Retry(o)
               \/ \E j \in JobIds : Delete(j) \/ Backoff(j) \/ LeaseExpires(j) \/ WindowPasses(j)
               \/ DeleteFn \/ Stop \/ Boot \/ UNCHANGED jobsVars
        PROVE  UNCHANGED caller
    BY <1>8 DEF TickReserve, TickClaim, RunStep, RunStart, RunDispatch, Finalize, PublishJob, SweepRequeue,
                SweepFail, PurgeJobs, List, Retry, Delete, Backoff, LeaseExpires, WindowPasses, DeleteFn,
                Stop, Boot, jobsVars
  <1> QED
    BY <1>2, <1>3, <1>4, <1>5, <1>6, <1>7, <1>8
       DEF JobsNext, Enqueue, enqueue_job, list_jobs, retry_job, delete_job

\* Enqueues with one idempotency key are told one job, however the lookup,
\* the INSERT and the recovery of any number of callers interleave with
\* each other, with runs, retries, removals and crashes.
THEOREM OneJobPerKey == JobsSpec => []SameKeySameJob
  <1>1. JobsInit => KeysUnique /\ AnswersHaveKey
    BY JobsNames DEF JobsInit, JobsStart, KeysUnique, AnswersHaveKey, GetJob, NoJobRow, Live, IdleCaller, JobsNames
  <1>2. JobsTypeOK /\ KeysUnique /\ AnswersHaveKey => SameKeySameJob
    <2> SUFFICES ASSUME JobsTypeOK, KeysUnique, AnswersHaveKey PROVE SameKeySameJob
      OBVIOUS
    <2>1. \A c \in Enqueuers : caller[c].answer \in JobIds \cup {NoJob}
      BY JobsTypes DEF CallerRows
    <2> QED
      BY <2>1 DEF SameKeySameJob, KeysUnique, AnswersHaveKey
  <1> QED
    BY <1>1, <1>2, InitJobsTypes, NextJobsTypes, NextKeys, PTL DEF JobsSpec

----------------------------------------------------------------------------
(* Jobs: the table is a work queue.  A retry resets whatever row it is    *)
(* given, so that two operators who see the same ended job can take it    *)
(* away from the goroutine that runs it; the theorems of this section are *)
(* about installations with at most one operator at a time on the page.   *)

OneOperator == \A o, p \in JobOps : o = p

Holding == {"start", "dispatch", "write"}

\* A goroutine that has still to write its result holds a running row whose
\* lease has not passed and whose attempts it knows, or a removed one; no
\* other holds it; a pending row has an attempt left; and the row an operator
\* is about to retry has ended.
Leased(s) ==
  \/ job[slot[s].id].status = "gone"
  \/ /\ job[slot[s].id].status = "running" /\ ~job[slot[s].id].stale
     /\ job[slot[s].id].attempts = slot[s].attempts
LeasesHeld == \A s \in JobSlots : slot[s].pc \in Holding => Leased(s)
OneHolder ==
  \A s, t \in JobSlots : slot[s].pc \in Holding /\ slot[t].pc \in Holding /\ slot[s].id = slot[t].id => s = t
AttemptLeft == \A j \in JobIds : job[j].status = "pending" => job[j].attempts < MaxAttempts
RetryEnded ==
  \A o \in JobOps : looking[o] \in JobIds => job[looking[o]].status \in Ended \cup {"gone"}
JobsInv == SlotHasJob /\ LeasesHeld /\ OneHolder /\ AttemptLeft /\ RetryEnded

\* The two columns of the abstract queue do not change.
SameQueue == \A j \in JobIds : job'[j].status = job[j].status /\ job'[j].attempts = job[j].attempts

LEMMA Stutters ==
  ASSUME SameQueue PROVE UNCHANGED AsQueue!queue
  BY DEF SameQueue, AsQueue!queue

\* Each way to write rows is a step of the abstract queue.
LEMMA QueueMoves ==
  ASSUME JobsTypeOK, NEW S \in SUBSET JobIds
  PROVE  /\ \A st \in {"succeeded", "failed"} :
              (\A i \in S : job[i].status = "running") /\ Writes(S, st) /\ AttemptsKept => AsQueue!QueueNext
         /\ /\ \A i \in S : job[i].status = "running" /\ job[i].attempts < MaxAttempts
            /\ Writes(S, "pending") /\ AttemptsKept
            => AsQueue!QueueNext
         /\ /\ \A i \in S : job[i].status = "pending" /\ job[i].attempts < MaxAttempts
            /\ Writes(S, "running") /\ \A i \in S : job'[i].attempts = job[i].attempts + 1
            => AsQueue!QueueNext
         /\ (\A i \in S : job[i].status \in Live) /\ Writes(S, "gone") /\ AttemptsKept => AsQueue!QueueNext
  <1>1. ASSUME NEW st \in {"succeeded", "failed"}, \A i \in S : job[i].status = "running", Writes(S, st),
               AttemptsKept
        PROVE  AsQueue!QueueNext
    <2>1. AsQueue!End(S, st)
      BY <1>1 DEF AsQueue!End, Writes, AttemptsKept
    <2> QED
      BY <2>1 DEF AsQueue!QueueNext
  <1>2. ASSUME \A i \in S : job[i].status = "running" /\ job[i].attempts < MaxAttempts,
               Writes(S, "pending"), AttemptsKept
        PROVE  AsQueue!QueueNext
    <2>1. AsQueue!TakeBack(S)
      BY <1>2 DEF AsQueue!TakeBack, Writes, AttemptsKept, JobBudget
    <2> QED
      BY <2>1 DEF AsQueue!QueueNext
  <1>3. ASSUME \A i \in S : job[i].status = "pending" /\ job[i].attempts < MaxAttempts,
               Writes(S, "running"), \A i \in S : job'[i].attempts = job[i].attempts + 1
        PROVE  AsQueue!QueueNext
    <2>1. AsQueue!HandOut(S)
      BY <1>3 DEF AsQueue!HandOut, Writes, JobBudget
    <2> QED
      BY <2>1 DEF AsQueue!QueueNext
  <1>4. ASSUME \A i \in S : job[i].status \in Live, Writes(S, "gone"), AttemptsKept PROVE AsQueue!QueueNext
    <2>1. AsQueue!Remove(S)
      BY <1>4 DEF AsQueue!Remove, Writes, AttemptsKept, Live
    <2> QED
      BY <2>1 DEF AsQueue!QueueNext
  <1> QED
    BY <1>1, <1>2, <1>3, <1>4

LEMMA RetryStartsOver ==
  ASSUME JobsTypeOK, NEW j \in JobIds, job[j].status \in Ended, Writes({j}, "pending"), job'[j].attempts = 0
  PROVE  AsQueue!QueueNext
  <1>1. AsQueue!StartOver(j)
    BY DEF AsQueue!StartOver, AsQueue!Move, Writes, Ended
  <1> QED
    BY <1>1 DEF AsQueue!QueueNext

LEMMA InsertSubmits ==
  ASSUME JobsTypeOK, NEW j \in JobIds, job[j].status = "none", job'[j].status = "pending",
         job'[j].attempts = 0, \A i \in JobIds \ {j} : job'[i] = job[i]
  PROVE  AsQueue!QueueNext
  <1>1. AsQueue!Submit(j)
    BY DEF AsQueue!Submit, AsQueue!Move
  <1> QED
    BY <1>1 DEF AsQueue!QueueNext

\* Rows that nobody holds may change in any way that keeps AttemptLeft.
LEMMA LeasesStay ==
  ASSUME JobsTypeOK, JobsInv, SlotHasJob', UNCHANGED slot, NEW S,
         \A i \in JobIds : i \notin S => job'[i] = job[i],
         \A s \in JobSlots : slot[s].pc \in Holding => slot[s].id \notin S
  PROVE  LeasesHeld' /\ OneHolder'
  BY DEF JobsInv, LeasesHeld, OneHolder, Leased, SlotHasJob, Holding

\* Every step keeps JobsInv and is a step of the abstract queue.
LEMMA NextJobsInv ==
  ASSUME OneOperator, JobsTypeOK, JobsInv, [JobsNext]_jobsVars
  PROVE  JobsInv' /\ (AsQueue!QueueNext \/ UNCHANGED AsQueue!queue)
  <1>0. JobsTypeOK' /\ SlotHasJob'
    BY NextJobsTypes DEF JobsInv
  <1>1. /\ job \in [JobIds -> JobRows] /\ slot \in [JobSlots -> SlotRows]
        /\ looking \in [JobOps -> JobIds \cup {NoJob}] /\ NoJob \notin JobIds
        /\ MaxAttempts \in Nat \ {0}
        /\ \A i \in JobIds : job[i].status \in Live \cup {"none", "gone"} /\ job[i].attempts \in Nat
        /\ \A s \in JobSlots : slot[s].attempts \in Nat
    BY JobsTypes, JobsNames, JobsAssumption DEF JobsNames, JobsAssumption, JobRows, SlotRows
  <1>2. ASSUME UNCHANGED job,
               \A s \in JobSlots : slot'[s].pc \in Holding =>
                 slot[s].pc \in Holding /\ slot'[s].id = slot[s].id /\ slot'[s].attempts = slot[s].attempts,
               \A o \in JobOps : looking'[o] \in JobIds =>
                 looking'[o] = looking[o] \/ job[looking'[o]].status \in Ended
        PROVE  JobsInv' /\ (AsQueue!QueueNext \/ UNCHANGED AsQueue!queue)
    <2>1. JobsInv'
      BY <1>0, <1>2 DEF JobsInv, LeasesHeld, OneHolder, Leased, AttemptLeft, RetryEnded
    <2> QED
      BY <1>2, <2>1, Stutters DEF SameQueue
  \* A step that writes rows nobody holds.
  <1>3. ASSUME UNCHANGED <<slot, looking>>, NEW S,
               \A i \in JobIds : i \notin S => job'[i] = job[i],
               \A s \in JobSlots : slot[s].pc \in Holding => slot[s].id \notin S,
               \A o \in JobOps : looking[o] \in S => job'[looking[o]].status \in Ended \cup {"gone"},
               \A i \in S \cap JobIds : job'[i].status = "pending" => job'[i].attempts < MaxAttempts
        PROVE  JobsInv'
    <2>1. AttemptLeft' /\ RetryEnded'
      BY <1>3 DEF JobsInv, AttemptLeft, RetryEnded
    <2> QED
      BY <1>0, <1>3, <2>1, LeasesStay DEF JobsInv
  <1>4. ASSUME NEW c \in Enqueuers, EnqueueInsert(c)
        PROVE  JobsInv' /\ (AsQueue!QueueNext \/ UNCHANGED AsQueue!queue)
    <2>1. CASE UNCHANGED job
      BY <1>2, <1>4, <2>1 DEF EnqueueInsert
    <2>2. ASSUME NEW j \in JobIds, job[j].status = "none",
                 job' = [job EXCEPT ![j] = [NoJobRow EXCEPT !.status = "pending", !.due = TRUE,
                                                            !.key = caller[c].key]]
          PROVE  JobsInv' /\ AsQueue!QueueNext
      <3>1. caller[c].key \in JobKeys \cup {NoKey}
        BY JobsTypes DEF CallerRows
      <3>2. /\ job'[j].status = "pending" /\ job'[j].attempts = 0
            /\ \A i \in JobIds \ {j} : job'[i] = job[i]
        BY <1>1, <2>2, <3>1, InsertWrites
      <3>3. /\ \A s \in JobSlots : slot[s].pc \in Holding => slot[s].id # j
            /\ \A o \in JobOps : looking[o] # j
        BY <2>2 DEF JobsInv, LeasesHeld, Leased, RetryEnded, Ended
      <3>4. UNCHANGED <<slot, looking>>
        BY <1>4 DEF EnqueueInsert
      <3>5. JobsInv'
        <4>1. \A i \in JobIds : i \notin {j} => job'[i] = job[i]
          BY <3>2
        <4>2. \A s \in JobSlots : slot[s].pc \in Holding => slot[s].id \notin {j}
          BY <3>3
        <4>3. \A o \in JobOps : looking[o] \in {j} => job'[looking[o]].status \in Ended \cup {"gone"}
          BY <3>3
        <4>4. \A i \in {j} \cap JobIds : job'[i].status = "pending" => job'[i].attempts < MaxAttempts
          BY <1>1, <3>2
        <4> QED
          BY <1>3, <3>4, <4>1, <4>2, <4>3, <4>4
      <3> QED
        BY <2>2, <3>2, <3>5, InsertSubmits
    <2> QED
      BY <1>4, <2>1, <2>2 DEF EnqueueInsert, ListJobs
  <1>5. ASSUME NEW S \in SUBSET JobIds, TickClaim(S)
        PROVE  JobsInv' /\ AsQueue!QueueNext
    <2>1. /\ Writes(S, "running") /\ \A i \in S : job'[i].attempts = job[i].attempts + 1
          /\ \A i \in S : job[i].status = "pending"
      BY <1>1, <1>5, ClaimWrites DEF TickClaim, DueJobs
    <2>2. \A i \in S : job[i].attempts < MaxAttempts
      BY <2>1 DEF JobsInv, AttemptLeft
    <2>3. AsQueue!QueueNext
      BY <2>1, <2>2, QueueMoves
    <2>4. /\ \A s \in JobSlots :
              \/ slot'[s] = slot[s]
              \/ /\ slot[s].pc = "free" /\ slot'[s].pc = "start" /\ slot'[s].id \in S
                 /\ slot'[s].attempts = job[slot'[s].id].attempts + 1
          /\ \A s, t \in JobSlots :
              slot'[s] # slot[s] /\ slot'[t] # slot[t] /\ slot'[s].id = slot'[t].id => s = t
      BY <1>1, <1>5, ClaimSlots
    <2>5. \A s \in JobSlots : slot[s].pc \in Holding => slot[s].id \in JobIds \ S
      BY <2>1 DEF JobsInv, LeasesHeld, Leased, SlotHasJob, Holding
    <2>6. LeasesHeld'
      BY <2>1, <2>4, <2>5 DEF JobsInv, LeasesHeld, Leased, Writes
    <2>7. OneHolder'
      BY <2>4, <2>5 DEF JobsInv, OneHolder, Holding
    <2>8. AttemptLeft' /\ RetryEnded'
      BY <1>5, <2>1 DEF JobsInv, AttemptLeft, RetryEnded, Writes, TickClaim, Ended
    <2> QED
      BY <1>0, <2>3, <2>6, <2>7, <2>8 DEF JobsInv
  <1>6. ASSUME NEW s \in JobSlots, RunStart(s) \/ RunDispatch(s)
        PROVE  JobsInv' /\ (AsQueue!QueueNext \/ UNCHANGED AsQueue!queue)
    <2>1. Moves(s, {"dispatch"}) \/ Moves(s, {"write"})
      BY <1>1, <1>6, GoroutineMoves DEF RunStart, RunDispatch
    <2>2. slot[s].pc \in Holding /\ UNCHANGED <<job, looking>>
      BY <1>6 DEF RunStart, RunDispatch, AtStep, Holding
    <2> QED
      BY <1>2, <2>1, <2>2 DEF Moves
  <1>7. ASSUME NEW s \in JobSlots, Finalize(s)
        PROVE  JobsInv' /\ (AsQueue!QueueNext \/ UNCHANGED AsQueue!queue)
    <2> DEFINE j == slot[s].id
    <2>1. Moves(s, {"publish"}) /\ slot[s].pc = "write" /\ UNCHANGED looking
      BY <1>1, <1>7, GoroutineMoves DEF Finalize, AtStep
    <2>2. j \in JobIds /\ Leased(s)
      BY <2>1 DEF JobsInv, SlotHasJob, LeasesHeld, Holding
    <2>3. CASE ~GetJob(j)
      BY <1>2, <1>7, <2>1, <2>3 DEF Finalize, Moves, Holding
    <2>4. CASE GetJob(j)
      <3>1. job[j].status = "running" /\ job[j].attempts = slot[s].attempts
        BY <2>2, <2>4 DEF Leased, GetJob, Live
      <3>2. /\ AttemptsKept
            /\ \/ Writes({j}, "succeeded") \/ Writes({j}, "failed")
               \/ Writes({j}, "pending") /\ job[j].attempts < MaxAttempts
        <4>1. CASE slot[s].ok
          BY <1>1, <1>7, <2>2, <2>4, <4>1, SuccessWrites DEF Finalize
        <4>2. CASE ~slot[s].ok
          <5> DEFINE n == slot[s].attempts
          <5>1. job' = MarkJobFailure(j, n)
            BY <1>7, <2>4, <4>2 DEF Finalize
          <5>2. Writes({j}, IF n >= MaxAttempts THEN "failed" ELSE "pending") /\ AttemptsKept
            BY <1>1, <2>2, <5>1, FailureWrites
          <5>3. n \in Nat /\ MaxAttempts \in Nat /\ n = job[j].attempts
            BY <1>1, <3>1
          <5> HIDE DEF n
          <5>4. CASE n >= MaxAttempts
            BY <5>2, <5>4
          <5>5. CASE ~(n >= MaxAttempts)
            BY <5>2, <5>3, <5>5
          <5> QED
            BY <5>4, <5>5
        <4> QED
          BY <4>1, <4>2
      <3>3. AsQueue!QueueNext
        BY <2>2, <3>1, <3>2, QueueMoves
      <3>4. \A t \in JobSlots \ {s} : slot[t].pc \in Holding => slot[t].id # j
        BY <2>1 DEF JobsInv, OneHolder, Holding
      <3>5. \A i \in JobIds \ {j} : job'[i] = job[i]
        BY <3>2 DEF Writes
      <3>6. LeasesHeld' /\ OneHolder'
        <4>1. \A t \in JobSlots : slot'[t].pc \in Holding =>
                t # s /\ slot'[t] = slot[t] /\ slot[t].id \in JobIds \ {j}
          BY <2>1, <3>4 DEF Moves, Holding, JobsInv, SlotHasJob
        <4> QED
          BY <3>5, <4>1 DEF JobsInv, LeasesHeld, OneHolder, Leased
      <3>7. AttemptLeft'
        BY <2>2, <3>2, <3>5 DEF JobsInv, AttemptLeft, Writes, AttemptsKept
      <3>8. RetryEnded'
        BY <2>1, <3>1, <3>5 DEF JobsInv, RetryEnded, Ended
      <3> QED
        BY <1>0, <3>3, <3>6, <3>7, <3>8 DEF JobsInv
    <2> QED
      BY <2>3, <2>4
  <1>8. ASSUME NEW s \in JobSlots, PublishJob(s)
        PROVE  JobsInv' /\ (AsQueue!QueueNext \/ UNCHANGED AsQueue!queue)
    BY <1>1, <1>2, <1>8 DEF PublishJob, FreeSlot, Holding
  <1>9. ASSUME SweepRequeue \/ SweepFail
        PROVE  JobsInv' /\ AsQueue!QueueNext
    <2>1. PICK S \in SUBSET Stuck : /\ AttemptsKept
                                    /\ \/ /\ Writes(S, "pending")
                                          /\ \A i \in S : job[i].attempts < MaxAttempts
                                       \/ Writes(S, "failed")
      <3>1. CASE SweepRequeue
        BY <1>1, <3>1, SweepWrites
      <3>2. CASE SweepFail
        BY <1>1, <3>2, SweepWrites
      <3> QED
        BY <1>9, <3>1, <3>2
    <2>2. S \in SUBSET JobIds /\ \A i \in S : job[i].status = "running" /\ job[i].stale
      BY <2>1 DEF Stuck
    <2>3. AsQueue!QueueNext
      BY <2>1, <2>2, QueueMoves
    <2>4. UNCHANGED <<slot, looking>>
      BY <1>9 DEF SweepRequeue, SweepFail
    <2>5. /\ \A s \in JobSlots : slot[s].pc \in Holding => slot[s].id \notin S
          /\ \A o \in JobOps : looking[o] \notin S
      BY <2>2 DEF JobsInv, LeasesHeld, Leased, RetryEnded, Ended
    <2>6. JobsInv'
      BY <1>3, <2>1, <2>2, <2>4, <2>5 DEF Writes, AttemptsKept
    <2> QED
      BY <2>3, <2>6
  <1>10. ASSUME PurgeJobs \/ DeleteFn \/ \E j \in JobIds : Delete(j)
         PROVE  JobsInv' /\ AsQueue!QueueNext
    <2>1. PICK S \in SUBSET ListJobs(Live) : Writes(S, "gone") /\ AttemptsKept
      BY <1>1, <1>10, RemovalWrites
    <2>2. S \in SUBSET JobIds /\ \A i \in S : job[i].status \in Live
      BY <2>1 DEF ListJobs
    <2>3. AsQueue!QueueNext
      BY <2>1, <2>2, QueueMoves
    <2>4. UNCHANGED <<slot, looking>>
      BY <1>10 DEF PurgeJobs, DeleteFn, Delete
    <2>5. \A i \in JobIds : job'[i] = job[i] \/ job'[i].status = "gone"
      BY <2>1 DEF Writes
    <2>6. LeasesHeld' /\ OneHolder'
      BY <2>4, <2>5 DEF JobsInv, LeasesHeld, OneHolder, Leased, SlotHasJob, Holding
    <2>7. AttemptLeft' /\ RetryEnded'
      BY <2>4, <2>5 DEF JobsInv, AttemptLeft, RetryEnded
    <2> QED
      BY <1>0, <2>3, <2>6, <2>7 DEF JobsInv
  <1>11. ASSUME NEW o \in JobOps, Retry(o)
         PROVE  JobsInv' /\ (AsQueue!QueueNext \/ UNCHANGED AsQueue!queue)
    <2> DEFINE j == looking[o]
    <2>1. j \in JobIds /\ UNCHANGED slot /\ \A p \in JobOps : looking'[p] = NoJob
      BY <1>1, <1>11 DEF Retry, OneOperator
    <2>2. CASE ~GetJob(j)
      BY <1>1, <1>2, <1>11, <2>1, <2>2 DEF Retry
    <2>3. CASE GetJob(j)
      <3>1. job[j].status \in Ended
        BY <2>1, <2>3 DEF JobsInv, RetryEnded, GetJob, Live, Ended
      <3>2. Writes({j}, "pending") /\ job'[j].attempts = 0
        BY <1>1, <1>11, <2>1, <2>3, RetryWrites DEF Retry
      <3>3. AsQueue!QueueNext
        BY <2>1, <3>1, <3>2, RetryStartsOver
      <3>4. LeasesHeld' /\ OneHolder'
        <4>1. \A s \in JobSlots : slot[s].pc \in Holding => slot[s].id \notin {j}
          BY <3>1 DEF JobsInv, LeasesHeld, Leased, Ended
        <4>2. \A i \in JobIds : i \notin {j} => job'[i] = job[i]
          BY <3>2 DEF Writes
        <4> QED
          BY <1>0, <2>1, <4>1, <4>2, LeasesStay
      <3>5. AttemptLeft'
        BY <1>1, <2>1, <3>2 DEF JobsInv, AttemptLeft, Writes
      <3>6. RetryEnded'
        BY <1>1, <2>1 DEF RetryEnded
      <3> QED
        BY <1>0, <3>3, <3>4, <3>5, <3>6 DEF JobsInv
    <2> QED
      BY <2>2, <2>3
  <1>12. ASSUME NEW j \in JobIds, Backoff(j) \/ WindowPasses(j) \/ LeaseExpires(j)
         PROVE  JobsInv' /\ (AsQueue!QueueNext \/ UNCHANGED AsQueue!queue)
    <2>1. Marks(j) /\ UNCHANGED <<slot, looking>>
      BY <1>1, <1>12, ClockMarks DEF Backoff, LeaseExpires, WindowPasses
    <2>2. AttemptLeft' /\ RetryEnded'
      BY <2>1 DEF Marks, JobsInv, AttemptLeft, RetryEnded
    <2>3. CASE Backoff(j) \/ WindowPasses(j)
      <3>1. job'[j].stale = job[j].stale
        BY <1>1, <2>3 DEF Backoff, WindowPasses, JobRows
      <3>2. LeasesHeld' /\ OneHolder'
        BY <2>1, <3>1 DEF Marks, JobsInv, LeasesHeld, OneHolder, Leased, SlotHasJob, Holding
      <3> QED
        BY <1>0, <2>1, <2>2, <3>2, Stutters DEF JobsInv, Marks, SameQueue
    <2>4. CASE LeaseExpires(j)
      <3>1. \A s \in JobSlots : slot[s].pc \in Holding => slot[s].id \notin {j}
        BY <2>4 DEF LeaseExpires, Working, Holding
      <3>2. \A i \in JobIds : i \notin {j} => job'[i] = job[i]
        BY <2>1 DEF Marks
      <3>3. LeasesHeld' /\ OneHolder'
        BY <1>0, <2>1, <3>1, <3>2, LeasesStay
      <3> QED
        BY <1>0, <2>1, <2>2, <3>3, Stutters DEF JobsInv, Marks, SameQueue
    <2> QED
      BY <1>12, <2>3, <2>4
  <1>13. ASSUME \/ \E c \in Enqueuers, k \in JobKeys \cup {NoKey} : EnqueueLookup(c, k)
                \/ \E c \in Enqueuers : EnqueueRecover(c)
                \/ \E n \in 1 .. Cardinality(JobSlots) : TickReserve(n)
                \/ Stop \/ Boot \/ UNCHANGED jobsVars
         PROVE  JobsInv' /\ (AsQueue!QueueNext \/ UNCHANGED AsQueue!queue)
    <2>1. UNCHANGED <<job, slot, looking>>
      BY <1>13 DEF EnqueueLookup, EnqueueRecover, TickReserve, Stop, Boot, jobsVars
    <2> QED
      BY <1>2, <2>1
  <1>14. ASSUME NEW o \in JobOps, List(o)
         PROVE  JobsInv' /\ (AsQueue!QueueNext \/ UNCHANGED AsQueue!queue)
    <2>1. UNCHANGED <<job, slot>>
          /\ \A p \in JobOps : looking'[p] = looking[p] \/ job[looking'[p]].status \in Ended
      BY <1>1, <1>14 DEF List, ListJobs
    <2> QED
      BY <1>2, <2>1
  <1>15. ASSUME GoDown
         PROVE  JobsInv' /\ (AsQueue!QueueNext \/ UNCHANGED AsQueue!queue)
    BY <1>1, <1>2, <1>15 DEF GoDown, FreeSlot, Holding
  <1> QED
    BY <1>4, <1>5, <1>6, <1>7, <1>8, <1>9, <1>10, <1>11, <1>12, <1>13, <1>14, <1>15
       DEF JobsNext, Enqueue, enqueue_job, RunStep, list_jobs, retry_job, delete_job

LEMMA InitJobsInv == JobsInit => JobsTypeOK /\ JobsInv /\ AsQueue!QueueInit
  <1> SUFFICES ASSUME JobsInit PROVE JobsTypeOK /\ JobsInv /\ AsQueue!QueueInit
    OBVIOUS
  <1>1. JobsTypeOK /\ SlotHasJob
    BY InitJobsTypes
  <1>2. \A s \in JobSlots : slot[s].pc \notin Holding
    BY DEF JobsInit, JobsStart, FreeSlot, Holding
  <1>3. \A j \in JobIds : job[j].status = "none" /\ job[j].attempts = 0
    BY DEF JobsInit, JobsStart, NoJobRow
  <1>4. \A o \in JobOps : looking[o] \notin JobIds
    BY JobsNames DEF JobsInit, JobsStart, JobsNames
  <1>5. AsQueue!QueueInit
    BY <1>3 DEF AsQueue!QueueInit
  <1> QED
    BY <1>1, <1>2, <1>3, <1>4, <1>5 DEF JobsInv, LeasesHeld, OneHolder, AttemptLeft, RetryEnded

\* No two goroutines ever work on the same job: the lease of the row keeps it
\* out of every claim and every sweep until its goroutine has written it.
THEOREM OneRunner ==
  ASSUME OneOperator
  PROVE  JobsSpec => []OneRunnerPerJob
  <1>1. JobsInit => JobsTypeOK /\ JobsInv
    BY InitJobsInv
  <1>2. JobsTypeOK /\ JobsInv /\ [JobsNext]_jobsVars => JobsTypeOK' /\ JobsInv'
    BY NextJobsInv, NextJobsTypes DEF JobsInv
  <1>3. JobsTypeOK /\ JobsInv => OneRunnerPerJob
    <2>1. ASSUME JobsTypeOK, JobsInv, NEW s \in JobSlots, slot[s].id # NoJob, slot[s].pc # "publish"
          PROVE  slot[s].pc \in Holding
      BY <2>1, JobsTypes, JobsNames DEF JobsInv, SlotHasJob, Holding, SlotRows, JobsNames
    <2> QED
      BY <2>1 DEF JobsInv, OneHolder, OneRunnerPerJob
  <1> QED
    BY <1>1, <1>2, <1>3, PTL DEF JobsSpec

\* Neither the runner nor racing enqueues of one key ever do a job twice.
THEOREM JobsDoneOnce ==
  ASSUME OneOperator
  PROVE  JobsSpec => []JobsSafe
  <1>1. OneRunnerPerJob /\ SameKeySameJob => JobsSafe
    BY DEF JobsSafe
  <1> QED
    BY <1>1, OneRunner, OneJobPerKey, PTL

\* The jobs table implements the abstract queue.
THEOREM JobsImplementQueue ==
  ASSUME OneOperator
  PROVE  JobsSpec => JobsAreAQueue
  <1>1. JobsInit => JobsTypeOK /\ JobsInv /\ AsQueue!QueueInit
    BY InitJobsInv
  <1>2. JobsTypeOK /\ JobsInv /\ [JobsNext]_jobsVars => JobsTypeOK' /\ JobsInv'
    BY NextJobsInv, NextJobsTypes DEF JobsInv
  <1>3. JobsTypeOK /\ JobsInv /\ [JobsNext]_jobsVars => [AsQueue!QueueNext]_AsQueue!queue
    BY NextJobsInv
  <1> QED
    BY <1>1, <1>2, <1>3, PTL DEF JobsSpec, JobsAreAQueue, AsQueue!QueueSpec
=============================================================================

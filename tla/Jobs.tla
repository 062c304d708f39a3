-------------------------------- MODULE Jobs --------------------------------
(***************************************************************************)
(* Background jobs: the jobs table (database/jobs.go), the loop that       *)
(* claims and runs them (scheduler.go), the stuck-row reaper, retention,   *)
(* and the REST and MCP operations on jobs.                                *)
(*                                                                         *)
(* One action is one SQL statement or one step of a goroutine.  Time is    *)
(* three facts about a row: whether scheduled_at has come (due), whether   *)
(* started_at is older than the lease (stale), and whether created_at is   *)
(* outside the idempotency window (old).  SQLite statements do not fail    *)
(* except on a constraint.                                                 *)
(***************************************************************************)
EXTENDS Naturals, FiniteSets

CONSTANTS
    JobIds,        \* rows that can be inserted
    JobKeys,       \* idempotency keys
    JobSlots,      \* jobsSem
    Enqueuers,     \* callers of the enqueue operations
    JobOps,        \* operators looking at the jobs page
    MaxAttempts,   \* max_attempts of every job
    MaxEvents,     \* bound on operator calls, stops and events
    JobCalls,      \* which operator calls happen
    JobFaults      \* which events of the environment happen

ASSUME JobsAssumption ==
    /\ MaxAttempts \in Nat \ {0}
    /\ MaxEvents \in Nat
    /\ IsFiniteSet(JobIds) /\ IsFiniteSet(JobSlots)
    /\ JobCalls \subseteq {"retry", "delete", "purge", "deleteFn"}
    /\ JobFaults \subseteq {"crash", "window"}

NoKey == "no key"
NoJob == "no job"
ASSUME JobsNames == NoKey \notin JobKeys /\ NoJob \notin JobIds

VARIABLES
    job,       \* the jobs table
    fnExists,  \* the function's row
    slot,      \* the goroutines of runJob, by the semaphore place they hold
    tick,      \* jobsTick: how many completion leases it has reserved
    sweep,     \* RequeueStuck: the statement it is at
    caller,    \* the enqueue operations under way
    looking,   \* the terminal job an operator is about to retry
    daemon,    \* "up", "stopping" or "down"
    events,    \* operator calls, stops and events so far
    lives      \* history: how often a job was enqueued or retried

jobsVars == <<job, fnExists, slot, tick, sweep, caller, looking, daemon,
              events, lives>>

Live == {"pending", "running", "succeeded", "failed"}
Ended == {"succeeded", "failed"}

JobRows == [status : Live \cup {"none", "gone"}, attempts : Nat, due : BOOLEAN,
            stale : BOOLEAN, old : BOOLEAN, key : JobKeys \cup {NoKey}]
NoJobRow == [status |-> "none", attempts |-> 0, due |-> FALSE, stale |-> FALSE,
          old |-> FALSE, key |-> NoKey]

\* An operator call or a failure, counted.
Event(kind) ==
    /\ kind \in JobCalls \cup JobFaults
    /\ events < MaxEvents
    /\ events' = events + 1

FreeSlot == [pc |-> "free", id |-> NoJob, attempts |-> 0, ok |-> FALSE]
IdleCaller == [pc |-> "idle", key |-> NoKey, answer |-> NoJob]

JobsTypeOK ==
    /\ job \in [JobIds -> JobRows]
    /\ fnExists \in BOOLEAN
    /\ slot \in [JobSlots -> [pc : {"free", "start", "dispatch",
                                    "write", "publish"},
                              id : JobIds \cup {NoJob}, attempts : Nat,
                              ok : BOOLEAN]]
    /\ tick \in 0 .. Cardinality(JobSlots)
    /\ sweep \in {"idle", "fail"}
    /\ caller \in [Enqueuers -> [pc : {"idle", "insert", "recover", "done"},
                                 key : JobKeys \cup {NoKey},
                                 answer : JobIds \cup {NoJob}]]
    /\ looking \in [JobOps -> JobIds \cup {NoJob}]
    /\ daemon \in {"up", "stopping", "down"}
    /\ events \in 0 .. MaxEvents
    /\ lives \in [JobIds -> Nat]

\* The callers that will enqueue something and the events used up already
\* are parameters, so that an instance can bound them.
JobsStart(callers, used) ==
    /\ job = [j \in JobIds |-> NoJobRow]
    /\ fnExists = TRUE
    /\ slot = [s \in JobSlots |-> FreeSlot]
    /\ tick = 0
    /\ sweep = "idle"
    /\ caller = [c \in Enqueuers |-> IF c \in callers THEN IdleCaller
                                      ELSE [IdleCaller EXCEPT !.pc = "done"]]
    /\ looking = [o \in JobOps |-> NoJob]
    /\ daemon = "up"
    /\ events = used
    /\ lives = [j \in JobIds |-> 0]

JobsInit == JobsStart(Enqueuers, 0)

-----------------------------------------------------------------------------
(* The statements on the jobs table.                                       *)

GetJob(j) == job[j].status \in Live

ListJobs(status) == {j \in JobIds : job[j].status \in status}

\* The rows with a key that are younger than the caller's window.
GetJobByIdempotency(k) ==
    {j \in JobIds : job[j].status \in Live /\ job[j].key = k /\ ~job[j].old}

\* Mutant of KeyTaken: there is no unique index.
NoKeyIndex(k) == FALSE

\* The unique index on (function, key), which knows no window.
KeyTaken(k) == \E j \in JobIds : job[j].status \in Live /\ job[j].key = k

ClaimDueJobs(S) ==
    [j \in JobIds |-> IF j \in S
                      THEN [job[j] EXCEPT !.status = "running", !.stale = FALSE,
                                          !.attempts = @ + 1]
                      ELSE job[j]]

MarkJobSuccess(j) == [job EXCEPT ![j].status = "succeeded", ![j].stale = FALSE]

\* The copies of attempts and max_attempts the run was claimed with decide.
MarkJobFailure(j, attempts) ==
    IF attempts >= MaxAttempts
    THEN [job EXCEPT ![j].status = "failed", ![j].stale = FALSE]
    ELSE [job EXCEPT ![j].status = "pending", ![j].stale = FALSE, ![j].due = FALSE]

RetryJob(j) ==
    /\ job' = [job EXCEPT ![j].status = "pending", ![j].attempts = 0,
                          ![j].due = TRUE, ![j].stale = FALSE]
    /\ lives' = [lives EXCEPT ![j] = @ + 1]

DeleteJob(j) == job' = [job EXCEPT ![j].status = "gone"]

\* Mutant of Stuck: whatever is running was abandoned.
AnyRunning == {j \in JobIds : job[j].status = "running"}

Stuck == {j \in JobIds : job[j].status = "running" /\ job[j].stale}

-----------------------------------------------------------------------------
(* Enqueueing.                                                             *)

\* EnqueueJob up to the INSERT: a row with the key inside the window answers.
EnqueueLookup(c, k) ==
    /\ daemon = "up"
    /\ caller[c].pc = "idle"
    /\ fnExists
    /\ \/ /\ k # NoKey
          /\ \E j \in GetJobByIdempotency(k) :
                caller' = [caller EXCEPT ![c] = [pc |-> "done", key |-> k, answer |-> j]]
       \/ /\ k = NoKey \/ GetJobByIdempotency(k) = {}
          /\ caller' = [caller EXCEPT ![c] = [pc |-> "insert", key |-> k, answer |-> NoJob]]
    /\ UNCHANGED <<job, fnExists, slot, tick, sweep, looking, daemon, events, lives>>

Enqueue(c, k) == EnqueueLookup(c, k)

enqueue_job(c, k) == EnqueueLookup(c, k)

\* The INSERT fails on the index, or on the function that is gone.
EnqueueInsert(c) ==
    /\ caller[c].pc = "insert"
    /\ IF fnExists /\ ~(caller[c].key # NoKey /\ KeyTaken(caller[c].key))
       THEN \E j \in ListJobs({"none"}) :
               /\ job' = [job EXCEPT ![j] = [NoJobRow EXCEPT !.status = "pending", !.due = TRUE,
                                                          !.key = caller[c].key]]
               /\ lives' = [lives EXCEPT ![j] = 1]
               /\ caller' = [caller EXCEPT ![c].pc = "done", ![c].answer = j]
       ELSE /\ caller' = [caller EXCEPT ![c].pc = IF caller[c].key = NoKey
                                                  THEN "done" ELSE "recover"]
            /\ UNCHANGED <<job, lives>>
    /\ UNCHANGED <<fnExists, slot, tick, sweep, looking, daemon, events>>

\* After a failed INSERT the row that won answers; the cutoff is 24 hours
\* whatever the caller's window was, so an old row may or may not be found.
EnqueueRecover(c) ==
    /\ caller[c].pc = "recover"
    /\ LET hits == ListJobs(Live) \cap {j \in JobIds : job[j].key = caller[c].key}
       IN  \/ \E j \in hits : caller' = [caller EXCEPT ![c].pc = "done", ![c].answer = j]
           \/ /\ \A j \in hits : job[j].old
              /\ caller' = [caller EXCEPT ![c].pc = "done"]
    /\ UNCHANGED <<job, fnExists, slot, tick, sweep, looking, daemon, events, lives>>

-----------------------------------------------------------------------------
(* The jobs loop.                                                          *)

FreeSlots == {s \in JobSlots : slot[s].pc = "free"}
DueJobs == {j \in JobIds : job[j].status = "pending" /\ job[j].due}

\* jobsTick reserves completion capacity for at most the free places ...
TickReserve(n) ==
    /\ daemon = "up"
    /\ tick = 0
    /\ DueJobs # {}
    /\ n \in 1 .. Cardinality(FreeSlots)
    /\ tick' = n
    /\ UNCHANGED <<job, fnExists, slot, sweep, caller, looking, daemon, events, lives>>

\* ... then claims that many rows and starts a goroutine for each.  A tick
\* that was under way when Stop closed the channel still gets here.
TickClaim(S) ==
    /\ tick > 0
    /\ daemon # "down"
    /\ S \subseteq DueJobs
    /\ Cardinality(S) = IF Cardinality(DueJobs) < tick THEN Cardinality(DueJobs) ELSE tick
    /\ job' = ClaimDueJobs(S)
    /\ tick' = 0
    /\ \E place \in [S -> FreeSlots] :
          /\ \A i, j \in S : place[i] = place[j] => i = j
          /\ slot' = [s \in JobSlots |->
                        IF \E j \in S : place[j] = s
                        THEN LET j == CHOOSE i \in S : place[i] = s
                             IN  [pc |-> "start", id |-> j,
                                  attempts |-> job[j].attempts + 1, ok |-> FALSE]
                        ELSE slot[s]]
    /\ UNCHANGED <<fnExists, sweep, caller, looking, daemon, events, lives>>

AtStep(s, pc) == slot[s].pc = pc /\ daemon # "down"

\* The function is gone, the pool has no worker for it, or the event is sent.
RunStart(s) ==
    /\ AtStep(s, "start")
    /\ \/ fnExists /\ slot' = [slot EXCEPT ![s].pc = "dispatch"]
       \/ slot' = [slot EXCEPT ![s].pc = "write"]
    /\ UNCHANGED <<job, fnExists, tick, sweep, caller, looking, daemon, events, lives>>

\* The function answers below 500, or fails, or runs into its timeout.
RunDispatch(s) ==
    /\ AtStep(s, "dispatch")
    /\ \E ok \in BOOLEAN : slot' = [slot EXCEPT ![s].pc = "write", ![s].ok = ok]
    /\ UNCHANGED <<job, fnExists, tick, sweep, caller, looking, daemon, events, lives>>

\* finalize: the UPDATE has no condition on the status; a row that is gone
\* is not written.
Finalize(s) ==
    /\ AtStep(s, "write")
    /\ job' = IF ~GetJob(slot[s].id) THEN job
              ELSE IF slot[s].ok THEN MarkJobSuccess(slot[s].id)
              ELSE MarkJobFailure(slot[s].id, slot[s].attempts)
    /\ slot' = [slot EXCEPT ![s].pc = "publish"]
    /\ UNCHANGED <<fnExists, tick, sweep, caller, looking, daemon, events, lives>>

\* ... then the place is free.  The event for the hub, published for terminal
\* outcomes, is Publish of module Webhooks.
PublishJob(s) ==
    /\ AtStep(s, "publish")
    /\ slot' = [slot EXCEPT ![s] = FreeSlot]
    /\ UNCHANGED <<job, fnExists, tick, sweep, caller, looking, daemon, events, lives>>

-----------------------------------------------------------------------------
(* The reaper and retention.                                               *)

\* RequeueStuck, first statement: rows with attempts left are pending again.
SweepRequeue ==
    /\ daemon # "down"
    /\ sweep = "idle"
    /\ Stuck # {}
    /\ job' = [j \in JobIds |-> IF j \in Stuck /\ job[j].attempts < MaxAttempts
                                THEN [job[j] EXCEPT !.status = "pending", !.stale = FALSE]
                                ELSE job[j]]
    /\ sweep' = "fail"
    /\ UNCHANGED <<fnExists, slot, tick, caller, looking, daemon, events, lives>>

\* Mutant of SweepFail: only rows with attempts left are swept.
SweepFailSkipped ==
    /\ daemon # "down"
    /\ sweep = "fail"
    /\ sweep' = "idle"
    /\ UNCHANGED <<job, fnExists, slot, tick, caller, looking, daemon, events, lives>>

\* Second statement: rows without attempts left have failed.
SweepFail ==
    /\ daemon # "down"
    /\ sweep = "fail"
    /\ job' = [j \in JobIds |-> IF j \in Stuck /\ job[j].attempts >= MaxAttempts
                                THEN [job[j] EXCEPT !.status = "failed", !.stale = FALSE]
                                ELSE job[j]]
    /\ sweep' = "idle"
    /\ UNCHANGED <<fnExists, slot, tick, caller, looking, daemon, events, lives>>

PurgeJobs ==
    /\ Event("purge")
    /\ daemon = "up"
    /\ \E S \in (SUBSET ListJobs(Ended)) \ {{}} :
          job' = [j \in JobIds |-> IF j \in S THEN [job[j] EXCEPT !.status = "gone"]
                                   ELSE job[j]]
    /\ UNCHANGED <<fnExists, slot, tick, sweep, caller, looking, daemon, lives>>

-----------------------------------------------------------------------------
(* Operators.                                                              *)

\* An operator sees an ended job in the list before pressing retry.
List(o) ==
    /\ Event("retry")
    /\ daemon = "up"
    /\ looking[o] = NoJob
    /\ \E j \in ListJobs(Ended) : looking' = [looking EXCEPT ![o] = j]
    /\ UNCHANGED <<job, fnExists, slot, tick, sweep, caller, daemon, lives>>

list_jobs(o) == List(o)

\* Retry, over REST: any row that exists is reset, whatever its status.
Retry(o) ==
    /\ daemon = "up"
    /\ looking[o] # NoJob
    /\ IF GetJob(looking[o]) THEN RetryJob(looking[o]) ELSE UNCHANGED <<job, lives>>
    /\ looking' = [looking EXCEPT ![o] = NoJob]
    /\ UNCHANGED <<fnExists, slot, tick, sweep, caller, daemon, events>>

retry_job(o) == Retry(o)

Delete(j) ==
    /\ Event("delete")
    /\ daemon = "up"
    /\ GetJob(j)
    /\ DeleteJob(j)
    /\ UNCHANGED <<fnExists, slot, tick, sweep, caller, looking, daemon, lives>>

delete_job(j) == Delete(j)

\* DELETE of the function: the foreign key removes its jobs.
DeleteFn ==
    /\ Event("deleteFn")
    /\ daemon = "up"
    /\ fnExists
    /\ fnExists' = FALSE
    /\ job' = [j \in JobIds |-> IF GetJob(j) THEN [job[j] EXCEPT !.status = "gone"] ELSE job[j]]
    /\ UNCHANGED <<slot, tick, sweep, caller, looking, daemon, lives>>

-----------------------------------------------------------------------------
(* Time, stops and events.                                                *)

Backoff(j) ==
    /\ job[j].status = "pending" /\ ~job[j].due
    /\ job' = [job EXCEPT ![j].due = TRUE]
    /\ UNCHANGED <<fnExists, slot, tick, sweep, caller, looking, daemon, events, lives>>

Working(j) == {s \in JobSlots : slot[s].pc # "free" /\ slot[s].id = j}

\* StuckLease (30 minutes) passes.  The timeout of the function, which ends
\* its runs, is taken to be shorter; the code does not bound it.
LeaseExpires(j) ==
    /\ job[j].status = "running" /\ ~job[j].stale
    /\ Working(j) = {}
    /\ job' = [job EXCEPT ![j].stale = TRUE]
    /\ UNCHANGED <<fnExists, slot, tick, sweep, caller, looking, daemon, events, lives>>

WindowPasses(j) ==
    /\ Event("window")
    /\ job[j].status \in Live /\ job[j].key # NoKey /\ ~job[j].old
    /\ job' = [job EXCEPT ![j].old = TRUE]
    /\ UNCHANGED <<fnExists, slot, tick, sweep, caller, looking, daemon, lives>>

\* Scheduler.Stop: no new tick; goroutines get a grace period.
Stop ==
    /\ Event("crash")
    /\ daemon = "up"
    /\ daemon' = "stopping"
    /\ UNCHANGED <<job, fnExists, slot, tick, sweep, caller, looking, lives>>

\* A crash, or the end of a stop with or without work in flight.
GoDown ==
    /\ daemon # "down"
    /\ IF daemon = "stopping" THEN UNCHANGED events ELSE Event("crash")
    /\ daemon' = "down"
    /\ slot' = [s \in JobSlots |-> FreeSlot]
    /\ tick' = 0
    /\ sweep' = "idle"
    /\ caller' = [c \in Enqueuers |-> IF caller[c].pc = "done" THEN caller[c]
                                      ELSE [caller[c] EXCEPT !.pc = "done"]]
    /\ looking' = [o \in JobOps |-> NoJob]
    /\ UNCHANGED <<job, fnExists, lives>>

\* Start: the loops run again, the reaper first.
Boot ==
    /\ daemon = "down"
    /\ daemon' = "up"
    /\ UNCHANGED <<job, fnExists, slot, tick, sweep, caller, looking, events, lives>>

-----------------------------------------------------------------------------
RunStep(s) == RunStart(s) \/ RunDispatch(s) \/ Finalize(s) \/ PublishJob(s)

JobsNext ==
    \/ \E c \in Enqueuers :
          \/ \E k \in JobKeys \cup {NoKey} : Enqueue(c, k) \/ enqueue_job(c, k)
          \/ EnqueueInsert(c) \/ EnqueueRecover(c)
    \/ \E n \in 1 .. Cardinality(JobSlots) : TickReserve(n)
    \/ \E S \in SUBSET JobIds : TickClaim(S)
    \/ \E s \in JobSlots : RunStep(s)
    \/ SweepRequeue \/ SweepFail \/ PurgeJobs
    \/ \E o \in JobOps : List(o) \/ list_jobs(o) \/ Retry(o) \/ retry_job(o)
    \/ \E j \in JobIds : Delete(j) \/ delete_job(j)
                         \/ Backoff(j) \/ LeaseExpires(j) \/ WindowPasses(j)
    \/ DeleteFn \/ Stop \/ GoDown \/ Boot

JobsSpec == JobsInit /\ [][JobsNext]_jobsVars

\* Tickers fire, goroutines run, the clock moves, a stopped daemon is
\* started again; nobody has to call anything.  It is enough that some such
\* step is taken while there is one: attempts bound their number.
JobsProgress ==
    \/ \E n \in 1 .. Cardinality(JobSlots) : TickReserve(n)
    \/ \E S \in SUBSET JobIds : TickClaim(S)
    \/ \E s \in JobSlots : RunStep(s)
    \/ SweepRequeue \/ SweepFail
    \/ \E j \in JobIds : Backoff(j) \/ LeaseExpires(j)
    \/ daemon = "stopping" /\ GoDown
    \/ Boot

JobsFairness == WF_jobsVars(JobsProgress)

-----------------------------------------------------------------------------
(* Properties.                                                             *)

JobBudget(j) == MaxAttempts

AsQueue == INSTANCE WorkQueue WITH
    Items <- JobIds, Budget <- JobBudget,
    state <- [j \in JobIds |-> job[j].status],
    tries <- [j \in JobIds |-> job[j].attempts]

\* The jobs table is a work queue: a claim is one UPDATE, a result only ever
\* meets the running row it was claimed for, an ended job changes only by a
\* retry or a removal, and nobody is handed a job more often than
\* max_attempts, through stops, events and the reaper.
JobsAreAQueue == AsQueue!QueueSpec

\* Two goroutines never execute the same job (StuckLease is there to prevent it).
OneRunnerPerJob ==
    \A s, t \in JobSlots :
        (s # t /\ slot[s].id # NoJob /\ slot[s].id = slot[t].id)
            => slot[s].pc = "publish" \/ slot[t].pc = "publish"

\* Enqueues with one idempotency key that were answered, however they raced,
\* name one job, as long as that job has not been removed.
SameKeySameJob ==
    \A c, d \in Enqueuers :
        LET a == caller[c].answer  b == caller[d].answer
        IN  (/\ caller[c].key = caller[d].key /\ caller[c].key # NoKey
             /\ a # NoJob /\ b # NoJob /\ GetJob(a) /\ GetJob(b)) => a = b

\* Both: neither the runner nor the callers ever do one job twice.
JobsSafe == OneRunnerPerJob /\ SameKeySameJob

\* tools_jobs.go:199 "Reset a terminal job (status=failed) back to pending",
\* jobs.go:349 "RetryJob resets a terminal job": a retry never takes a job
\* away from under the goroutine that runs it.
RetryMeetsEndedJob ==
    [][\A j \in JobIds : (lives[j] > 0 /\ lives'[j] > lives[j]) => job[j].status \in Ended]_jobsVars

\* Every job that was accepted ends, or is removed: no crash strands it in
\* "running" and the reaper does not cycle it for ever.
EveryJobEnds ==
    \A j \in JobIds :
        (job[j].status \in {"pending", "running"})
            ~> (job[j].status \in {"succeeded", "failed", "gone"})
=============================================================================

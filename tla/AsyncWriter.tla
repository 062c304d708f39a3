----------------------------- MODULE AsyncWriter -----------------------------
(***************************************************************************)
(* The batched writer of the database (database/async.go): leases for      *)
(* execution rows, three bounded queues, the goroutine that commits them   *)
(* in batches, its retries and its shutdown; and the deletion of           *)
(* functions, executions and old activity beside it.                       *)
(*                                                                         *)
(* A write is an identity with one row to store.  Critical writes are      *)
(* execution rows of one function; telemetry is their captured requests;   *)
(* activity belongs to no function.  Every write takes one byte.  While a  *)
(* batch is being committed the single write connection is taken, so its   *)
(* statements are one step.                                                *)
(***************************************************************************)
EXTENDS Naturals, FiniteSets, Sequences, SequencesExt

CONSTANTS
    CriticalWrites, ActivityWrites, TelemetryWrites,
    SlotCap,         \* criticalSlots, and the places of the critical channel
    LaneCap,         \* places of the other channels
    MaxBytes,        \* byte budget of a queue
    BatchMax,
    MaxJobAttempts,
    MaxWriteFaults   \* bound on failed commits and statements

Writes == CriticalWrites \cup ActivityWrites \cup TelemetryWrites
FunctionWrites == CriticalWrites \cup TelemetryWrites
Lanes == {"critical", "activity", "telemetry"}
Lane(w) == IF w \in CriticalWrites THEN "critical"
           ELSE IF w \in ActivityWrites THEN "activity" ELSE "telemetry"
Cap(l) == IF l = "critical" THEN SlotCap ELSE LaneCap

ASSUME WriterAssumption ==
    /\ SlotCap \in Nat \ {0} /\ LaneCap \in Nat \ {0} /\ BatchMax \in Nat \ {0}
    /\ MaxBytes \in Nat /\ MaxJobAttempts \in Nat \ {0} /\ MaxWriteFaults \in Nat
    /\ IsFiniteSet(Writes)

VARIABLES
    slots,      \* free places of criticalSlots
    wr,         \* where each write is
    lane,       \* the channels
    bytes,      \* the byte counters
    batch,      \* the batches of the consumer
    backoff,    \* lanes whose channel is disabled until a retry succeeds
    work,       \* the jobs of the transaction under way ...
    committing, \* ... and its lane
    tries,      \* failed statements of each write
    stop,       \* "no", "requested", "quit", "draining" or "done"
    fnAlive,    \* the function's row
    live,       \* liveFunctions has the function
    rows,       \* rows in the database
    deleting,   \* executions whose children an operator has deleted
    faults

writerVars == <<slots, wr, lane, bytes, batch, backoff, work, committing, tries, stop,
                fnAlive, live, rows, deleting, faults>>

Places == {"idle", "leased", "sending", "accepted", "stored", "discarded", "failed",
           "dropped", "refused", "cancelled"}

WriterTypeOK ==
    /\ slots \in 0 .. SlotCap
    /\ wr \in [Writes -> Places]
    /\ lane \in [Lanes -> Seq(Writes)] /\ \A l \in Lanes : Len(lane[l]) <= Cap(l)
    /\ bytes \in [Lanes -> 0 .. MaxBytes]
    /\ batch \in [Lanes -> SUBSET Writes] /\ \A l \in Lanes : \A w \in batch[l] : Lane(w) = l
    /\ backoff \subseteq Lanes /\ work \subseteq Writes
    /\ committing \in Lanes \cup {"no"}
    /\ tries \in [Writes -> 0 .. MaxJobAttempts]
    /\ stop \in {"no", "requested", "quit", "draining", "done"}
    /\ fnAlive \in BOOLEAN /\ live \in BOOLEAN
    /\ rows \subseteq Writes /\ deleting \subseteq CriticalWrites
    /\ faults \in 0 .. MaxWriteFaults

\* The writes that will happen and the faults used up already are parameters,
\* so that an instance can bound them.
WriterStart(wanted, used) ==
    /\ slots = SlotCap
    /\ wr = [w \in Writes |-> IF w \in wanted THEN "idle" ELSE "cancelled"]
    /\ lane = [l \in Lanes |-> <<>>] /\ bytes = [l \in Lanes |-> 0]
    /\ batch = [l \in Lanes |-> {}] /\ backoff = {}
    /\ work = {} /\ committing = "no"
    /\ tries = [w \in Writes |-> 0]
    /\ stop = "no"
    /\ fnAlive = TRUE /\ live \in BOOLEAN
    /\ rows = {} /\ deleting = {}
    /\ faults = used

WriterInit == WriterStart(Writes, 0)

consumerVars == <<batch, backoff, work, committing, tries, deleting, faults>>

-----------------------------------------------------------------------------
(* Producers.                                                              *)

\* A place is taken before the function runs, or the caller is turned away.
ReserveExecution(w) ==
    /\ w \in CriticalWrites /\ wr[w] = "idle"
    /\ \/ /\ slots > 0 /\ stop = "no"
          /\ slots' = slots - 1 /\ wr' = [wr EXCEPT ![w] = "leased"]
       \/ /\ slots = 0 \/ stop # "no"
          /\ wr' = [wr EXCEPT ![w] = "refused"] /\ UNCHANGED slots
    /\ UNCHANGED <<lane, bytes, stop, fnAlive, live, rows, consumerVars>>

\* The invocation ended without a row to write.
Cancel(w) ==
    /\ wr[w] = "leased"
    /\ slots' = slots + 1 /\ wr' = [wr EXCEPT ![w] = "cancelled"]
    /\ UNCHANGED <<lane, bytes, stop, fnAlive, live, rows, consumerVars>>

\* Past the channel: the statement runs on the caller's goroutine, and the
\* foreign key refuses the row of a function that is gone.
DirectWrite(w) ==
    /\ slots' = slots + 1
    /\ rows' = IF fnAlive THEN rows \cup {w} ELSE rows
    /\ wr' = [wr EXCEPT ![w] = IF fnAlive THEN "stored" ELSE "failed"]

ReserveQueueBytes(l) == bytes[l] + 1 <= MaxBytes

\* asyncExecCriticalReserved takes the read lock and looks at stopRequested
\* and the budget; the lease goes to the writer.
AsyncExecCritical(w) ==
    /\ wr[w] = "leased"
    /\ \/ /\ stop # "no" /\ DirectWrite(w) /\ UNCHANGED bytes
       \/ /\ stop = "no" /\ ~ReserveQueueBytes("critical")
          /\ slots' = slots + 1 /\ wr' = [wr EXCEPT ![w] = "refused"]
          /\ UNCHANGED <<rows, bytes>>
       \/ /\ stop = "no" /\ ReserveQueueBytes("critical")
          /\ bytes' = [bytes EXCEPT !["critical"] = @ + 1]
          /\ wr' = [wr EXCEPT ![w] = "sending"]
          /\ UNCHANGED <<rows, slots>>
    /\ UNCHANGED <<lane, stop, fnAlive, live, consumerVars>>

\* The select: the channel, stopRequested, or the caller's deadline.
SendCritical(w) ==
    /\ w \in CriticalWrites /\ wr[w] = "sending"
    /\ \/ /\ Len(lane["critical"]) < SlotCap
          /\ lane' = [lane EXCEPT !["critical"] = Append(@, w)]
          /\ wr' = [wr EXCEPT ![w] = "accepted"]
          /\ UNCHANGED <<bytes, slots, rows>>
       \/ /\ stop # "no"
          /\ bytes' = [bytes EXCEPT !["critical"] = @ - 1]
          /\ DirectWrite(w) /\ UNCHANGED lane
       \/ /\ Len(lane["critical"]) = SlotCap
          /\ bytes' = [bytes EXCEPT !["critical"] = @ - 1]
          /\ slots' = slots + 1 /\ wr' = [wr EXCEPT ![w] = "refused"]
          /\ UNCHANGED <<lane, rows>>
    /\ UNCHANGED <<stop, fnAlive, live, consumerVars>>

\* asyncExecBestEffort: activity and telemetry are dropped rather than wait.
AsyncExecBestEffort(w) ==
    /\ w \notin CriticalWrites /\ wr[w] = "idle"
    /\ IF stop # "no" \/ ~ReserveQueueBytes(Lane(w))
       THEN wr' = [wr EXCEPT ![w] = "dropped"] /\ UNCHANGED bytes
       ELSE /\ wr' = [wr EXCEPT ![w] = "sending"]
            /\ bytes' = [bytes EXCEPT ![Lane(w)] = @ + 1]
    /\ UNCHANGED <<slots, lane, stop, fnAlive, live, rows, consumerVars>>

SendBestEffort(w) ==
    /\ w \notin CriticalWrites /\ wr[w] = "sending"
    /\ \/ /\ Len(lane[Lane(w)]) < LaneCap
          /\ lane' = [lane EXCEPT ![Lane(w)] = Append(@, w)]
          /\ wr' = [wr EXCEPT ![w] = "accepted"] /\ UNCHANGED bytes
       \/ /\ Len(lane[Lane(w)]) = LaneCap \/ stop # "no"
          /\ bytes' = [bytes EXCEPT ![Lane(w)] = @ - 1]
          /\ wr' = [wr EXCEPT ![w] = "dropped"] /\ UNCHANGED lane
    /\ UNCHANGED <<slots, stop, fnAlive, live, rows, consumerVars>>

-----------------------------------------------------------------------------
(* The consumer.                                                           *)

CriticalPressure == Len(lane["critical"]) * 4 >= SlotCap * 3

\* Activity waits under pressure, telemetry for both others.
MayTake(l) ==
    CASE l = "critical"  -> TRUE
      [] l = "activity"  -> ~CriticalPressure
      [] l = "telemetry" -> lane["critical"] = <<>> /\ lane["activity"] = <<>>

Take(l) ==
    /\ stop \in {"no", "requested", "quit"} /\ committing = "no"
    /\ lane[l] # <<>> /\ l \notin backoff /\ MayTake(l)
    /\ \A k \in Lanes : Cardinality(batch[k]) < BatchMax \/ k \in backoff
    /\ batch' = [batch EXCEPT ![l] = @ \cup {Head(lane[l])}]
    /\ lane' = [lane EXCEPT ![l] = Tail(@)]
    /\ UNCHANGED <<slots, wr, bytes, backoff, work, committing, tries, stop, fnAlive, live,
                   rows, deleting, faults>>

\* Mutant of HoldsPlace: releaseJobs returns one lease for the whole batch.
HoldsOnePlace(S) == IF S \cap CriticalWrites = {} THEN 0 ELSE 1

\* Mutant of HoldsPlace: done() returns the place and Cancel does again.
HoldsTwice(S) == 2 * Cardinality(S \cap CriticalWrites)

HoldsPlace(S) == Cardinality(S \cap CriticalWrites)

\* The writes whose function exists, asked from the cache or the table.
FilterDeleted(S) == IF live \/ fnAlive THEN S ELSE S \ FunctionWrites

\* commit, under the read side of lifecycleMu: writes of deleted functions
\* are discarded and their leases returned.
CommitBegin(l) ==
    /\ stop # "done" /\ committing = "no" /\ batch[l] # {}
    /\ l = "activity" /\ stop # "draining" => ~CriticalPressure
    /\ LET keep == FilterDeleted(batch[l])  gone == batch[l] \ keep
       IN  /\ wr' = [w \in Writes |-> IF w \in gone THEN "discarded" ELSE wr[w]]
           /\ slots' = slots + HoldsPlace(gone)
           /\ work' = keep
    /\ live' = (live \/ fnAlive)
    /\ committing' = l
    /\ UNCHANGED <<lane, bytes, batch, backoff, tries, stop, fnAlive, rows, deleting, faults>>

\* What is left after the transaction: retry stays in the batch (or is given
\* up when the writer is draining), the rest is stored or shed.
Settle(stored, shed, retry) ==
    LET l == committing
        lost == shed \cup IF stop = "draining" THEN retry ELSE {}
        keep == IF stop = "draining" THEN {} ELSE retry
    IN  /\ rows' = rows \cup stored
        /\ wr' = [w \in Writes |->
                    IF w \in stored THEN "stored"
                    ELSE IF w \in lost THEN (IF l = "critical" THEN "failed" ELSE "dropped")
                    ELSE wr[w]]
        /\ slots' = slots + HoldsPlace(stored \cup lost)
        /\ bytes' = [bytes EXCEPT ![l] = @ + Cardinality(keep) - Cardinality(batch[l])]
        /\ batch' = [batch EXCEPT ![l] = keep]
        /\ backoff' = IF keep = {} THEN backoff \ {l} ELSE backoff \cup {l}
        /\ committing' = "no" /\ work' = {}

CommitAll ==
    /\ committing # "no"
    /\ Settle(work, {}, {})
    /\ UNCHANGED <<lane, tries, stop, fnAlive, live, deleting, faults>>

\* No connection, or the COMMIT fails: everything is kept.
CommitLater ==
    /\ committing # "no" /\ work # {}
    /\ faults < MaxWriteFaults /\ faults' = faults + 1
    /\ Settle({}, {}, work)
    /\ UNCHANGED <<lane, tries, stop, fnAlive, live, deleting>>

\* commitIsolated: one savepoint per job; a permanent failure, or the last
\* attempt, sheds the job, and the others are stored all the same.
CommitIsolated(bad, permanent) ==
    /\ committing # "no"
    /\ bad # {} /\ bad \subseteq work /\ permanent \subseteq bad
    /\ faults < MaxWriteFaults /\ faults' = faults + 1
    /\ LET shed == {w \in bad : w \in permanent \/ tries[w] + 1 >= MaxJobAttempts}
       IN  /\ Settle(work \ bad, shed, bad \ shed)
           /\ tries' = [w \in Writes |-> IF w \in bad THEN tries[w] + 1 ELSE tries[w]]
    /\ UNCHANGED <<lane, stop, fnAlive, live, deleting>>

-----------------------------------------------------------------------------
(* Shutdown.                                                               *)

StopRequest ==
    /\ stop = "no"
    /\ stop' = "requested"
    /\ UNCHANGED <<slots, wr, lane, bytes, fnAlive, live, rows, consumerVars>>

\* Mutant of StopQuit: quit is closed without the write lock.
StopQuitUnlocked ==
    /\ stop = "requested"
    /\ stop' = "quit"
    /\ UNCHANGED <<slots, wr, lane, bytes, fnAlive, live, rows, consumerVars>>

\* enqueueMu.Lock waits for the senders before quit is closed.
StopQuit ==
    /\ stop = "requested"
    /\ \A w \in Writes : wr[w] # "sending"
    /\ stop' = "quit"
    /\ UNCHANGED <<slots, wr, lane, bytes, fnAlive, live, rows, consumerVars>>

\* drainAndFinish takes what is queued; every batch gets a last attempt.
Drain ==
    /\ stop = "quit" /\ committing = "no"
    /\ stop' = "draining"
    /\ batch' = [l \in Lanes |-> batch[l] \cup ToSet(lane[l])]
    /\ lane' = [l \in Lanes |-> <<>>]
    /\ UNCHANGED <<slots, wr, bytes, backoff, work, committing, tries, fnAlive, live, rows,
                   deleting, faults>>

Finish ==
    /\ stop = "draining" /\ committing = "no"
    /\ \A l \in Lanes : batch[l] = {}
    /\ stop' = "done" /\ bytes' = [l \in Lanes |-> 0]
    /\ UNCHANGED <<slots, wr, lane, fnAlive, live, rows, consumerVars>>

-----------------------------------------------------------------------------
(* Deletions.                                                              *)

\* Mutant of DeleteFunction: the cache keeps the function.
DeleteFunctionKeepsCache ==
    /\ fnAlive /\ committing = "no"
    /\ fnAlive' = FALSE
    /\ rows' = rows \ FunctionWrites
    /\ UNCHANGED <<slots, wr, lane, bytes, live, stop, consumerVars>>

\* DeleteFunction holds lifecycleMu: rows and children go in one transaction,
\* then the cache entry.
DeleteFunction ==
    /\ fnAlive /\ committing = "no"
    /\ fnAlive' = FALSE /\ live' = FALSE
    /\ rows' = rows \ FunctionWrites
    /\ UNCHANGED <<slots, wr, lane, bytes, stop, consumerVars>>

\* DeleteExecution and the retention purge: children first, then the row,
\* each a statement of its own.
DeleteChildren(w) ==
    /\ committing = "no"
    /\ w \in rows \cap CriticalWrites /\ w \notin deleting
    /\ rows' = rows \ TelemetryWrites
    /\ deleting' = deleting \cup {w}
    /\ UNCHANGED <<slots, wr, lane, bytes, batch, backoff, work, committing, tries, stop,
                   fnAlive, live, faults>>

DeleteExecution(w) ==
    /\ committing = "no"
    /\ w \in deleting
    /\ rows' = rows \ {w}
    /\ deleting' = deleting \ {w}
    /\ UNCHANGED <<slots, wr, lane, bytes, batch, backoff, work, committing, tries, stop,
                   fnAlive, live, faults>>

SweepActivity ==
    /\ committing = "no" /\ rows \cap ActivityWrites # {}
    /\ rows' = rows \ ActivityWrites
    /\ UNCHANGED <<slots, wr, lane, bytes, stop, fnAlive, live, consumerVars>>

-----------------------------------------------------------------------------
Send(w) == SendCritical(w) \/ SendBestEffort(w)
Produce(w) == AsyncExecCritical(w) \/ AsyncExecBestEffort(w) \/ Send(w)

Consume ==
    \/ \E l \in Lanes : Take(l) \/ CommitBegin(l)
    \/ CommitAll \/ CommitLater
    \/ \E bad \in SUBSET work : \E permanent \in SUBSET bad : CommitIsolated(bad, permanent)
    \/ Drain \/ Finish

WriterNext ==
    \/ \E w \in Writes : ReserveExecution(w) \/ Cancel(w) \/ Produce(w)
    \/ Consume \/ StopRequest \/ StopQuit
    \/ DeleteFunction \/ SweepActivity
    \/ \E w \in CriticalWrites : DeleteChildren(w) \/ DeleteExecution(w)

WriterSpec == WriterInit /\ [][WriterNext]_writerVars

\* The consumer goroutine runs, its ticker fires and backoffs pass; stop()
\* gets its lock once the senders are gone.
WriterFairness ==
    /\ WF_writerVars(Consume)
    /\ WF_writerVars(StopQuit \/ \E w \in Writes : Send(w))

-----------------------------------------------------------------------------
(* Properties.                                                             *)

Owned == {w \in CriticalWrites : wr[w] \in {"leased", "sending", "accepted"}}
Held(l) == {w \in Writes : Lane(w) = l /\ wr[w] = "sending"} \cup ToSet(lane[l]) \cup batch[l]

\* A place of criticalSlots is never lost and never returned twice, so a row
\* whose invocation got a lease always finds room in the channel; and the
\* byte counters are what the queues hold.
LeasesBalance ==
    /\ slots + Cardinality(Owned) = SlotCap
    /\ \A w \in CriticalWrites : wr[w] = "sending" => Len(lane["critical"]) < SlotCap
    /\ stop # "done" => \A l \in Lanes : bytes[l] = Cardinality(Held(l))

\* A function that has been deleted leaves no row behind: no batch that was
\* queued, retried or drained around the deletion brings one back.
DeletedLeavesNothing == ~fnAlive => rows \cap FunctionWrites = {}

\* The writer's places and bytes add up, and a deleted function leaves no row.
WriterSafe == LeasesBalance /\ DeletedLeavesNothing

\* A write the writer accepted is stored, or counted as discarded, failed or
\* dropped; a shutdown does not leave it in a channel nobody reads.
AcceptedIsSettled ==
    \A w \in Writes : wr[w] = "accepted" ~> wr[w] # "accepted"
=============================================================================

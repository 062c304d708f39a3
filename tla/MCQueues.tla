------------------------------ MODULE MCQueues ------------------------------
(***************************************************************************)
(* The scheduler's three queues for TLC.  They share no state, so a run    *)
(* explores one of them at a time: part says which, and the other two stay *)
(* as they start, where nothing of theirs is enabled but a call.           *)
(***************************************************************************)
EXTENDS Jobs, Webhooks, Cron

VARIABLE part

queuesVars == <<part, jobsVars, hooksVars, cronVars>>

\* One caller and two operator calls or stops, or two callers and one.
JobsStarts ==
    \/ \E c \in Enqueuers : c = (CHOOSE d \in Enqueuers : TRUE) /\ JobsStart({c}, 0)
    \/ JobsStart(Enqueuers, 1)

\* Two calls or crashes and no upsert, or racing upserts and one.
CronStarts == CronStart({}, 0) \/ CronStart(Upserters, 1)

QueuesInit ==
    \/ part = "jobs" /\ JobsStarts /\ HooksInit /\ CronInit
    \/ part = "hooks" /\ JobsInit /\ HooksInit /\ CronInit
    \/ part = "cron" /\ JobsInit /\ HooksInit /\ CronStarts

QueuesNext ==
    \/ part = "jobs" /\ JobsNext /\ UNCHANGED <<part, hooksVars, cronVars>>
    \/ part = "hooks" /\ HooksNext /\ UNCHANGED <<part, jobsVars, cronVars>>
    \/ part = "cron" /\ CronNext /\ UNCHANGED <<part, jobsVars, hooksVars>>

\* The fairness of the three parts, each where it can matter.
QueuesFairness ==
    /\ WF_jobsVars(part = "jobs" /\ JobsProgress)
    /\ WF_hooksVars(part = "hooks" /\ HooksProgress)
    /\ WF_cronVars(part = "cron" /\ CronLoop)
    /\ \A f \in Fires : WF_cronVars(part = "cron" /\ FireStep(f))

QueuesSpec == QueuesInit /\ [][QueuesNext]_queuesVars /\ QueuesFairness

-----------------------------------------------------------------------------
(* What the three say together.                                            *)

QueuesTypeOK == JobsTypeOK /\ HooksTypeOK /\ CronTypeOK

\* Every job and every delivery that was accepted ends or is removed; no
\* crash strands a row in "running" and no reaper cycles it for ever.  An
\* event the hub accepted becomes a delivery.
EveryRowEnds == EveryJobEnds /\ EveryDeliveryEnds /\ EventBecomesDelivery
=============================================================================

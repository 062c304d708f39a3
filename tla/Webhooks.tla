------------------------------ MODULE Webhooks ------------------------------
(***************************************************************************)
(* System events and their webhook deliveries: the in-process hub          *)
(* (server/events/hub.go), the fan-out that turns an event into rows       *)
(* (webhook_fanout.go), the deliveries table (database/webhooks.go), the   *)
(* delivery loop (scheduler.go) and the operations on subscriptions.       *)
(*                                                                         *)
(* An event is an identity; "activity" stands for every hub event that is  *)
(* no webhook event.  Signing, URLs and payloads are left out.  due and    *)
(* stale are as in Jobs.                                                   *)
(***************************************************************************)
EXTENDS Naturals, FiniteSets, Sequences

CONSTANTS
    Subs,           \* subscriptions
    HookEvents,     \* webhook events, each published at most once
    DeliveryIds,    \* rows for the fan-out
    TestRows,       \* rows for the test operation
    HookSlots,      \* webhookSem
    HookOps,        \* operators looking at the deliveries page
    HubCap,         \* places of a subscriber's channel (32 in the code)
    MaxTries,       \* max_attempts of a delivery
    MaxHookEvents,  \* bound on operator calls and crashes
    HookCalls

ASSUME HooksAssumption ==
    /\ HubCap \in Nat \ {0} /\ MaxTries \in Nat \ {0} /\ MaxHookEvents \in Nat
    /\ IsFiniteSet(HookSlots)
    /\ HookCalls \subseteq {"update", "delete", "test", "retry", "crash"}
    /\ DeliveryIds \cap TestRows = {}

Activity == "activity"
NoDelivery == "no delivery"
NoSub == "no subscription"

VARIABLES
    subs,       \* the subscriptions table
    hub,        \* the fan-out's channel of the hub
    published,  \* events that have happened
    dropped,    \* events the hub dropped because the channel was full
    fan,        \* the fan-out's goroutine
    deliv,      \* the deliveries table
    sending,    \* the delivery goroutines, by the semaphore place they hold
    hookSweep,  \* RequeueStuck on deliveries
    viewing,    \* the ended delivery an operator is about to retry
    hooksUp,    \* the daemon runs
    hookEvents  \* operator calls and crashes so far

hooksVars == <<subs, hub, published, dropped, fan, deliv, sending, hookSweep,
               viewing, hooksUp, hookEvents>>

HookRows == DeliveryIds \cup TestRows
Stored == {"pending", "running", "succeeded", "failed"}
Closed == {"succeeded", "failed"}

\* "None" is not one of them.
ASSUME HooksNames == NoSub \notin Subs /\ NoDelivery \notin HookRows

NoDelivRow == [status |-> "none", attempts |-> 0, due |-> FALSE, stale |-> FALSE,
               sub |-> NoSub, ev |-> Activity]
IdleFan == [ev |-> Activity, todo |-> {}]
FreeSender == [pc |-> "free", id |-> NoDelivery, attempts |-> 0, ok |-> FALSE]

HooksTypeOK ==
    /\ subs \in [Subs -> {"none", "on", "off", "gone"}]
    /\ hub \in Seq(HookEvents \cup {Activity}) /\ Len(hub) <= HubCap
    /\ published \subseteq HookEvents /\ dropped \subseteq published
    /\ fan \in [ev : HookEvents \cup {Activity}, todo : SUBSET Subs]
    /\ deliv \in [HookRows -> [status : Stored \cup {"none", "gone"}, attempts : Nat,
                           due : BOOLEAN, stale : BOOLEAN,
                           sub : Subs \cup {NoSub}, ev : HookEvents \cup {Activity}]]
    /\ sending \in [HookSlots -> [pc : {"free", "lookup", "post", "mark", "stamp"},
                                  id : HookRows \cup {NoDelivery}, attempts : Nat,
                                  ok : BOOLEAN]]
    /\ hookSweep \in {"idle", "fail"}
    /\ viewing \in [HookOps -> HookRows \cup {NoDelivery}]
    /\ hooksUp \in BOOLEAN
    /\ hookEvents \in 0 .. MaxHookEvents

HooksInit ==
    /\ subs = [s \in Subs |-> "none"]
    /\ hub = <<>>
    /\ published = {} /\ dropped = {}
    /\ fan = IdleFan
    /\ deliv = [d \in HookRows |-> NoDelivRow]
    /\ sending = [w \in HookSlots |-> FreeSender]
    /\ hookSweep = "idle"
    /\ viewing = [o \in HookOps |-> NoDelivery]
    /\ hooksUp = TRUE
    /\ hookEvents = 0

\* An operator call or a crash, counted.
HookEvent(kind) ==
    /\ kind \in HookCalls
    /\ hookEvents < MaxHookEvents
    /\ hookEvents' = hookEvents + 1

-----------------------------------------------------------------------------
(* The hub and the fan-out.                                                *)

\* Mutant of HasRoom: off by one.
HasRoomOffByOne == Len(hub) <= HubCap

\* The buffered channel of the subscriber is not full.
HasRoom == Len(hub) < HubCap

\* Publish sends if the channel has room and drops the event otherwise.
Publish(e) ==
    /\ hooksUp
    /\ e \in HookEvents \ published
    /\ published' = published \cup {e}
    /\ hub' = IF HasRoom THEN Append(hub, e) ELSE hub
    /\ dropped' = IF HasRoom THEN dropped ELSE dropped \cup {e}
    /\ UNCHANGED <<subs, fan, deliv, sending, hookSweep, viewing, hooksUp, hookEvents>>

\* Enabled subscriptions that want the event (all want all).
MatchingSubscriptions == {s \in Subs : subs[s] = "on"}

\* handle: an event without a webhook name is skipped.
Receive ==
    /\ hooksUp
    /\ fan.todo = {}
    /\ hub # <<>>
    /\ hub' = Tail(hub)
    /\ fan' = IF Head(hub) = Activity THEN IdleFan
              ELSE [ev |-> Head(hub), todo |-> MatchingSubscriptions]
    /\ UNCHANGED <<subs, published, dropped, deliv, sending, hookSweep, viewing, hooksUp,
                   hookEvents>>

Unused(S) == {d \in S : deliv[d].status = "none"}

NewRow(s, e) == [NoDelivRow EXCEPT !.status = "pending", !.due = TRUE, !.sub = s, !.ev = e]

\* Mutant of InsertDelivery: the loop returns after its first row.
InsertOnlyOne(s) ==
    /\ hooksUp
    /\ s \in fan.todo
    /\ \E d \in Unused(DeliveryIds) : deliv' = [deliv EXCEPT ![d] = NewRow(s, fan.ev)]
    /\ fan' = IdleFan
    /\ UNCHANGED <<subs, hub, published, dropped, sending, hookSweep, viewing, hooksUp,
                   hookEvents>>

\* InsertDelivery, once per matching subscription; the foreign key refuses
\* a subscription that is gone, and the loop goes on.
InsertDelivery(s) ==
    /\ hooksUp
    /\ s \in fan.todo
    /\ IF subs[s] = "gone" THEN UNCHANGED deliv
       ELSE \E d \in Unused(DeliveryIds) : deliv' = [deliv EXCEPT ![d] = NewRow(s, fan.ev)]
    /\ fan' = [fan EXCEPT !.todo = @ \ {s}]
    /\ UNCHANGED <<subs, hub, published, dropped, sending, hookSweep, viewing, hooksUp,
                   hookEvents>>

-----------------------------------------------------------------------------
(* The delivery loop.                                                      *)

FreeSenders == {w \in HookSlots : sending[w].pc = "free"}
DueDeliveries == {d \in HookRows : deliv[d].status = "pending" /\ deliv[d].due}

ClaimDueDeliveries(S) ==
    [d \in HookRows |-> IF d \in S
                    THEN [deliv[d] EXCEPT !.status = "running", !.stale = FALSE,
                                          !.attempts = @ + 1]
                    ELSE deliv[d]]

\* webhookTick: at most the free places are claimed, so the select that
\* would skip a claimed row when the semaphore is full always has room.
WebhookTick(S) ==
    /\ hooksUp
    /\ S # {} /\ S \subseteq DueDeliveries
    /\ Cardinality(S) = IF Cardinality(DueDeliveries) < Cardinality(FreeSenders)
                        THEN Cardinality(DueDeliveries) ELSE Cardinality(FreeSenders)
    /\ deliv' = ClaimDueDeliveries(S)
    /\ \E place \in [S -> FreeSenders] :
          /\ \A c, d \in S : place[c] = place[d] => c = d
          /\ sending' = [w \in HookSlots |->
                           IF \E d \in S : place[d] = w
                           THEN LET d == CHOOSE c \in S : place[c] = w
                                IN  [pc |-> "lookup", id |-> d,
                                     attempts |-> deliv[d].attempts + 1, ok |-> FALSE]
                           ELSE sending[w]]
    /\ UNCHANGED <<subs, hub, published, dropped, fan, hookSweep, viewing, hooksUp,
                   hookEvents>>

HookBudget(d) == IF d \in TestRows THEN 1 ELSE MaxTries

StoredRow(d) == deliv[d].status \in Stored

MarkDeliverySuccess(d) ==
    IF StoredRow(d) THEN [deliv EXCEPT ![d].status = "succeeded", ![d].stale = FALSE]
    ELSE deliv

MarkDeliveryFailure(d, attempts) ==
    IF ~StoredRow(d) THEN deliv
    ELSE IF attempts >= HookBudget(d)
    THEN [deliv EXCEPT ![d].status = "failed", ![d].stale = FALSE]
    ELSE [deliv EXCEPT ![d].status = "pending", ![d].stale = FALSE, ![d].due = FALSE]

\* Every attempt is also announced as an activity event.
PublishActivity == hub' = IF HasRoom THEN Append(hub, Activity) ELSE hub

\* deliverWebhook starts by reading the subscription; if it is gone the
\* delivery is given up whatever attempts are left.
DeliverLookup(w) ==
    LET d == sending[w].id  gone == subs[deliv[d].sub] = "gone" IN
    /\ sending[w].pc = "lookup"
    /\ IF gone
       THEN /\ deliv' = MarkDeliveryFailure(d, HookBudget(d))
            /\ sending' = [sending EXCEPT ![w] = FreeSender]
            /\ PublishActivity
       ELSE /\ sending' = [sending EXCEPT ![w].pc = "post"]
            /\ UNCHANGED <<deliv, hub>>
    /\ UNCHANGED <<subs, published, dropped, fan, hookSweep, viewing, hooksUp, hookEvents>>

\* The POST: answered 2xx or not; refused by the receiver or by the egress
\* policy, or not answered in time.
Post(w) ==
    /\ sending[w].pc = "post"
    /\ \E ok \in BOOLEAN : sending' = [sending EXCEPT ![w].pc = "mark", ![w].ok = ok]
    /\ UNCHANGED <<subs, hub, published, dropped, fan, deliv, hookSweep, viewing, hooksUp,
                   hookEvents>>

\* The result is written to the delivery, without a condition on its status ...
MarkDelivery(w) ==
    /\ sending[w].pc = "mark"
    /\ deliv' = IF sending[w].ok THEN MarkDeliverySuccess(sending[w].id)
                ELSE MarkDeliveryFailure(sending[w].id, sending[w].attempts)
    /\ sending' = [sending EXCEPT ![w].pc = "stamp"]
    /\ UNCHANGED <<subs, hub, published, dropped, fan, hookSweep, viewing, hooksUp,
                   hookEvents>>

\* ... and then to the subscription's last_status columns, which nothing here
\* reads, and to the activity feed.
Stamp(w) ==
    /\ sending[w].pc = "stamp"
    /\ sending' = [sending EXCEPT ![w] = FreeSender]
    /\ PublishActivity
    /\ UNCHANGED <<subs, published, dropped, fan, deliv, hookSweep, viewing, hooksUp,
                   hookEvents>>

-----------------------------------------------------------------------------
(* The reaper, time, crashes.                                              *)

\* Mutant of StuckDeliveries: the reaper does not look at started_at.
AnySending == {d \in HookRows : deliv[d].status = "running"}

StuckDeliveries == {d \in HookRows : deliv[d].status = "running" /\ deliv[d].stale}

SweepDeliveries ==
    /\ hooksUp
    /\ hookSweep = "idle" /\ StuckDeliveries # {}
    /\ deliv' = [d \in HookRows |-> IF d \in StuckDeliveries /\ deliv[d].attempts < HookBudget(d)
                                THEN [deliv[d] EXCEPT !.status = "pending", !.stale = FALSE]
                                ELSE deliv[d]]
    /\ hookSweep' = "fail"
    /\ UNCHANGED <<subs, hub, published, dropped, fan, sending, viewing, hooksUp, hookEvents>>

SweepExhausted ==
    /\ hooksUp
    /\ hookSweep = "fail"
    /\ deliv' = [d \in HookRows |-> IF d \in StuckDeliveries /\ deliv[d].attempts >= HookBudget(d)
                                THEN [deliv[d] EXCEPT !.status = "failed", !.stale = FALSE]
                                ELSE deliv[d]]
    /\ hookSweep' = "idle"
    /\ UNCHANGED <<subs, hub, published, dropped, fan, sending, viewing, hooksUp, hookEvents>>

BackoffOver(d) ==
    /\ deliv[d].status = "pending" /\ ~deliv[d].due
    /\ deliv' = [deliv EXCEPT ![d].due = TRUE]
    /\ UNCHANGED <<subs, hub, published, dropped, fan, sending, hookSweep, viewing, hooksUp,
                   hookEvents>>

\* A delivery takes seconds (15s at most), the lease is half an hour.
DeliveryLeaseExpires(d) ==
    /\ deliv[d].status = "running" /\ ~deliv[d].stale
    /\ \A w \in HookSlots : sending[w].pc = "free" \/ sending[w].id # d
    /\ deliv' = [deliv EXCEPT ![d].stale = TRUE]
    /\ UNCHANGED <<subs, hub, published, dropped, fan, sending, hookSweep, viewing, hooksUp,
                   hookEvents>>

HooksCrash ==
    /\ HookEvent("crash")
    /\ hooksUp
    /\ hooksUp' = FALSE
    /\ hub' = <<>> /\ fan' = IdleFan
    /\ sending' = [w \in HookSlots |-> FreeSender]
    /\ hookSweep' = "idle"
    /\ viewing' = [o \in HookOps |-> NoDelivery]
    /\ UNCHANGED <<subs, published, dropped, deliv>>

HooksBoot ==
    /\ ~hooksUp
    /\ hooksUp' = TRUE
    /\ UNCHANGED <<subs, hub, published, dropped, fan, deliv, sending, hookSweep, viewing,
                   hookEvents>>

-----------------------------------------------------------------------------
(* Operations on subscriptions and deliveries, over REST and over MCP.     *)

InsertEventSubscription(s) == [subs EXCEPT ![s] = "on"]
GetEventSubscription(s) == subs[s] \in {"on", "off"}
UpdateEventSubscription(s, enabled) == [subs EXCEPT ![s] = IF enabled THEN "on" ELSE "off"]
DeleteEventSubscription(s) == [subs EXCEPT ![s] = "gone"]

CreateSub(s) ==
    /\ hooksUp
    /\ subs[s] = "none"
    /\ subs' = InsertEventSubscription(s)
    /\ UNCHANGED <<hub, published, dropped, fan, deliv, sending, hookSweep, viewing, hooksUp,
                   hookEvents>>

create_webhook(s) == CreateSub(s)

\* Update of a subscription: here, of its enabled flag.
UpdateSub(s) ==
    /\ hooksUp
    /\ HookEvent("update")
    /\ GetEventSubscription(s)
    /\ subs' = UpdateEventSubscription(s, subs[s] = "off")
    /\ UNCHANGED <<hub, published, dropped, fan, deliv, sending, hookSweep, viewing, hooksUp>>

update_webhook(s) == UpdateSub(s)

\* The foreign key removes the deliveries with the subscription.
DeleteSub(s) ==
    /\ hooksUp
    /\ HookEvent("delete")
    /\ GetEventSubscription(s)
    /\ subs' = DeleteEventSubscription(s)
    /\ deliv' = [d \in HookRows |-> IF deliv[d].sub = s THEN [deliv[d] EXCEPT !.status = "gone"]
                                ELSE deliv[d]]
    /\ UNCHANGED <<hub, published, dropped, fan, sending, hookSweep, viewing, hooksUp>>

delete_webhook(s) == DeleteSub(s)

\* A test delivery is queued past the hub, with one attempt.
TestSub(s) ==
    /\ hooksUp
    /\ HookEvent("test")
    /\ GetEventSubscription(s)
    /\ \E d \in Unused(TestRows) : deliv' = [deliv EXCEPT ![d] = NewRow(s, Activity)]
    /\ UNCHANGED <<subs, hub, published, dropped, fan, sending, hookSweep, viewing, hooksUp>>

test_webhook(s) == TestSub(s)

ListDeliveries(o) ==
    /\ hooksUp
    /\ HookEvent("retry")
    /\ viewing[o] = NoDelivery
    /\ \E d \in HookRows : deliv[d].status \in Closed /\ viewing' = [viewing EXCEPT ![o] = d]
    /\ UNCHANGED <<subs, hub, published, dropped, fan, deliv, sending, hookSweep, hooksUp>>

list_webhook_deliveries(o) == ListDeliveries(o)

RetryDelivery(o) ==
    /\ hooksUp
    /\ viewing[o] # NoDelivery
    /\ deliv' = IF StoredRow(viewing[o])
                THEN [deliv EXCEPT ![viewing[o]].status = "pending", ![viewing[o]].attempts = 0,
                                   ![viewing[o]].due = TRUE, ![viewing[o]].stale = FALSE]
                ELSE deliv
    /\ viewing' = [viewing EXCEPT ![o] = NoDelivery]
    /\ UNCHANGED <<subs, hub, published, dropped, fan, sending, hookSweep, hooksUp, hookEvents>>

retry_webhook_delivery(o) == RetryDelivery(o)

-----------------------------------------------------------------------------
SendStep(w) == DeliverLookup(w) \/ Post(w) \/ MarkDelivery(w) \/ Stamp(w)

HooksNext ==
    \/ \E e \in HookEvents : Publish(e)
    \/ Receive \/ \E s \in Subs : InsertDelivery(s)
    \/ \E S \in SUBSET HookRows : WebhookTick(S)
    \/ \E w \in HookSlots : SendStep(w)
    \/ SweepDeliveries \/ SweepExhausted \/ HooksCrash \/ HooksBoot
    \/ \E d \in HookRows : BackoffOver(d) \/ DeliveryLeaseExpires(d)
    \/ \E s \in Subs : \/ CreateSub(s) \/ create_webhook(s) \/ UpdateSub(s) \/ DeleteSub(s) \/ TestSub(s)
                       \/ update_webhook(s) \/ delete_webhook(s) \/ test_webhook(s)
    \/ \E o \in HookOps : ListDeliveries(o) \/ list_webhook_deliveries(o)
                          \/ RetryDelivery(o) \/ retry_webhook_delivery(o)

HooksSpec == HooksInit /\ [][HooksNext]_hooksVars

\* Goroutines and tickers run, the clock moves, the daemon is restarted: some
\* such step is taken while there is one, and attempts bound their number.
HooksProgress ==
    \/ Receive \/ \E s \in Subs : InsertDelivery(s)
    \/ \E S \in SUBSET HookRows : WebhookTick(S)
    \/ \E w \in HookSlots : SendStep(w)
    \/ SweepDeliveries \/ SweepExhausted
    \/ \E d \in HookRows : BackoffOver(d) \/ DeliveryLeaseExpires(d)
    \/ HooksBoot

HooksFairness == WF_hooksVars(HooksProgress)

-----------------------------------------------------------------------------
(* Properties.                                                             *)

DeliveryQueue == INSTANCE WorkQueue WITH
    Items <- HookRows, Budget <- HookBudget,
    state <- [d \in HookRows |-> deliv[d].status],
    tries <- [d \in HookRows |-> deliv[d].attempts]

\* The deliveries table is a work queue too, although its rows are removed
\* under the feet of the sender by a delete of the subscription.
DeliveriesAreAQueue == DeliveryQueue!QueueSpec

\* An event the hub accepted becomes a delivery for every subscription that
\* stays enabled, unless the daemon goes down first.
EventBecomesDelivery ==
    \A e \in HookEvents, s \in Subs :
        (\E i \in DOMAIN hub : hub[i] = e) ~>
            \/ \E d \in DeliveryIds : deliv[d].sub = s /\ deliv[d].ev = e
            \/ subs[s] # "on"
            \/ hookEvents > 0

\* Every delivery ends: delivered, given up or removed.
EveryDeliveryEnds ==
    \A d \in HookRows :
        (deliv[d].status \in {"pending", "running"})
            ~> (deliv[d].status \in {"succeeded", "failed", "gone"})
=============================================================================

--------------------------- MODULE SchedulerProofs ---------------------------
(***************************************************************************)
(* Webhook deliveries and cron schedules, for every number of rows,        *)
(* senders, subscriptions, goroutines and crashes: the deliveries table    *)
(* implements the abstract work queue; a schedule is run by one goroutine  *)
(* at a time, keeps a next time while it is enabled, and has one row per   *)
(* name.                                                                   *)
(***************************************************************************)
EXTENDS Webhooks, Cron, FiniteSetTheorems, TLAPS

----------------------------------------------------------------------------
(* Webhook deliveries: types and the ways to write a row.                 *)

DelivRows == [status : Stored \cup {"none", "gone"}, attempts : Nat, due : BOOLEAN, stale : BOOLEAN,
              sub : Subs \cup {NoSub}, ev : HookEvents \cup {Activity}]
SenderRows == [pc : {"free", "lookup", "post", "mark", "stamp"}, id : HookRows \cup {NoDelivery},
               attempts : Nat, ok : BOOLEAN]
HubSeqs == Seq(HookEvents \cup {Activity})
FanRows == [ev : HookEvents \cup {Activity}, todo : SUBSET Subs]

\* The deliveries of S get the status st and lose their stale mark unless
\* they are removed; no other row changes.
Rewrites(S, st) ==
  /\ deliv' \in [HookRows -> DelivRows]
  /\ \A d \in HookRows : d \notin S => deliv'[d] = deliv[d]
  /\ \A d \in S : deliv'[d].status = st /\ (st = "gone" \/ ~deliv'[d].stale)

TriesKept == \A d \in HookRows : deliv'[d].attempts = deliv[d].attempts

\* An UPDATE that sets the status of the deliveries in S and clears
\* started_at, or the cascade that removes them.
LEMMA GroupRewrites ==
  ASSUME deliv \in [HookRows -> DelivRows], NEW S, S \subseteq HookRows, NEW st \in Stored \cup {"gone"},
         \/ deliv' = [d \in HookRows |-> IF d \in S THEN [deliv[d] EXCEPT !.status = st, !.stale = FALSE]
                                         ELSE deliv[d]]
         \/ deliv' = [d \in HookRows |-> IF d \in S THEN [deliv[d] EXCEPT !.status = st] ELSE deliv[d]]
            /\ st = "gone"
  PROVE  Rewrites(S, st) /\ TriesKept
  <1>1. \A d \in HookRows : deliv[d] \in DelivRows
    OBVIOUS
  <1>2. ASSUME NEW d \in S
        PROVE  /\ deliv'[d] \in DelivRows /\ deliv'[d].status = st
               /\ deliv'[d].attempts = deliv[d].attempts /\ (st = "gone" \/ ~deliv'[d].stale)
    <2>1. deliv[d] \in DelivRows
      BY <1>1
    <2>2. CASE deliv'[d] = [deliv[d] EXCEPT !.status = st, !.stale = FALSE]
      BY <2>1, <2>2 DEF DelivRows
    <2>3. CASE deliv'[d] = [deliv[d] EXCEPT !.status = st] /\ st = "gone"
      BY <2>1, <2>3 DEF DelivRows
    <2> QED
      BY <2>2, <2>3
  <1>3. \A d \in HookRows : d \notin S => deliv'[d] = deliv[d]
    OBVIOUS
  <1>4. DOMAIN deliv' = HookRows /\ deliv' = [x \in DOMAIN deliv' |-> deliv'[x]]
    OBVIOUS
  <1>5. deliv' \in [HookRows -> DelivRows]
    BY <1>1, <1>2, <1>3, <1>4
  <1> QED
    BY <1>2, <1>3, <1>5 DEF Rewrites, TriesKept

\* The result of a POST, on a row that is still there.
LEMMA ResultRewrites ==
  ASSUME deliv \in [HookRows -> DelivRows], NEW d \in HookRows, StoredRow(d), NEW n
  PROVE  /\ deliv' = MarkDeliverySuccess(d) => Rewrites({d}, "succeeded") /\ TriesKept
         /\ deliv' = MarkDeliveryFailure(d, n) /\ n >= HookBudget(d) => Rewrites({d}, "failed") /\ TriesKept
         /\ deliv' = MarkDeliveryFailure(d, n) /\ ~(n >= HookBudget(d)) => Rewrites({d}, "pending") /\ TriesKept
  <1>1. deliv[d] \in DelivRows
    OBVIOUS
  <1>2. ASSUME NEW st \in Stored, DOMAIN deliv' = HookRows, deliv' = [x \in DOMAIN deliv' |-> deliv'[x]],
               \A i \in HookRows \ {d} : deliv'[i] = deliv[i],
               \/ deliv'[d] = [deliv[d] EXCEPT !.status = st, !.stale = FALSE]
               \/ deliv'[d] = [deliv[d] EXCEPT !.status = st, !.stale = FALSE, !.due = FALSE]
        PROVE  Rewrites({d}, st) /\ TriesKept
    <2>1. /\ deliv'[d] \in DelivRows /\ deliv'[d].status = st /\ deliv'[d].attempts = deliv[d].attempts
          /\ ~deliv'[d].stale
      <3>1. CASE deliv'[d] = [deliv[d] EXCEPT !.status = st, !.stale = FALSE]
        BY <1>1, <3>1 DEF DelivRows
      <3>2. CASE deliv'[d] = [deliv[d] EXCEPT !.status = st, !.stale = FALSE, !.due = FALSE]
        <4>1. deliv'[d] = [status |-> st, attempts |-> deliv[d].attempts, due |-> FALSE, stale |-> FALSE,
                           sub |-> deliv[d].sub, ev |-> deliv[d].ev]
          BY <1>1, <3>2 DEF DelivRows
        <4> QED
          BY <1>1, <4>1 DEF DelivRows
      <3> QED
        BY <1>2, <3>1, <3>2
    <2>2. deliv' \in [HookRows -> DelivRows]
      BY <1>2, <2>1
    <2> QED
      BY <1>2, <2>1, <2>2 DEF Rewrites, TriesKept
  <1>3. "succeeded" \in Stored /\ "failed" \in Stored /\ "pending" \in Stored
    BY DEF Stored
  <1>4. ASSUME deliv' = MarkDeliverySuccess(d) PROVE Rewrites({d}, "succeeded") /\ TriesKept
    <2>1. /\ DOMAIN deliv' = HookRows /\ deliv' = [x \in DOMAIN deliv' |-> deliv'[x]]
          /\ \A i \in HookRows \ {d} : deliv'[i] = deliv[i]
          /\ deliv'[d] = [deliv[d] EXCEPT !.status = "succeeded", !.stale = FALSE]
      BY <1>4 DEF MarkDeliverySuccess
    <2> QED
      BY <1>2, <1>3, <2>1
  <1>5. ASSUME deliv' = MarkDeliveryFailure(d, n), n >= HookBudget(d) PROVE Rewrites({d}, "failed") /\ TriesKept
    <2>1. /\ DOMAIN deliv' = HookRows /\ deliv' = [x \in DOMAIN deliv' |-> deliv'[x]]
          /\ \A i \in HookRows \ {d} : deliv'[i] = deliv[i]
          /\ deliv'[d] = [deliv[d] EXCEPT !.status = "failed", !.stale = FALSE]
      BY <1>5 DEF MarkDeliveryFailure
    <2> QED
      BY <1>2, <1>3, <2>1
  <1>6. ASSUME deliv' = MarkDeliveryFailure(d, n), ~(n >= HookBudget(d))
        PROVE  Rewrites({d}, "pending") /\ TriesKept
    <2>1. /\ DOMAIN deliv' = HookRows /\ deliv' = [x \in DOMAIN deliv' |-> deliv'[x]]
          /\ \A i \in HookRows \ {d} : deliv'[i] = deliv[i]
          /\ deliv'[d] = [deliv[d] EXCEPT !.status = "pending", !.stale = FALSE, !.due = FALSE]
      BY <1>6 DEF MarkDeliveryFailure
    <2> QED
      BY <1>2, <1>3, <2>1
  <1> QED
    BY <1>4, <1>5, <1>6

LEMMA ClaimRewrites ==
  ASSUME deliv \in [HookRows -> DelivRows], NEW S, S \subseteq HookRows, deliv' = ClaimDueDeliveries(S)
  PROVE  Rewrites(S, "running") /\ \A d \in S : deliv'[d].attempts = deliv[d].attempts + 1
  <1>1. \A d \in HookRows : deliv[d] \in DelivRows
    OBVIOUS
  <1>2. ASSUME NEW d \in S
        PROVE  /\ deliv'[d] \in DelivRows /\ deliv'[d].status = "running" /\ ~deliv'[d].stale
               /\ deliv'[d].attempts = deliv[d].attempts + 1
    <2>1. deliv'[d] = [deliv[d] EXCEPT !.status = "running", !.stale = FALSE, !.attempts = @ + 1]
      BY DEF ClaimDueDeliveries
    <2>2. deliv'[d] = [status |-> "running", attempts |-> deliv[d].attempts + 1, due |-> deliv[d].due,
                       stale |-> FALSE, sub |-> deliv[d].sub, ev |-> deliv[d].ev]
      BY <1>1, <2>1 DEF DelivRows
    <2> QED
      BY <1>1, <2>2 DEF DelivRows, Stored
  <1>3. \A d \in HookRows : d \notin S => deliv'[d] = deliv[d]
    BY DEF ClaimDueDeliveries
  <1>4. DOMAIN deliv' = HookRows /\ deliv' = [x \in DOMAIN deliv' |-> deliv'[x]]
    BY DEF ClaimDueDeliveries
  <1>5. deliv' \in [HookRows -> DelivRows]
    BY <1>1, <1>2, <1>3, <1>4
  <1> QED
    BY <1>2, <1>3, <1>5 DEF Rewrites

\* The reaper's two statements.
LEMMA SweepRewrites ==
  ASSUME deliv \in [HookRows -> DelivRows]
  PROVE  /\ SweepDeliveries =>
              Rewrites({d \in StuckDeliveries : deliv[d].attempts < HookBudget(d)}, "pending") /\ TriesKept
         /\ SweepExhausted =>
              Rewrites({d \in StuckDeliveries : deliv[d].attempts >= HookBudget(d)}, "failed") /\ TriesKept
  <1>1. ASSUME SweepDeliveries
        PROVE  Rewrites({d \in StuckDeliveries : deliv[d].attempts < HookBudget(d)}, "pending") /\ TriesKept
    <2> DEFINE S == {d \in StuckDeliveries : deliv[d].attempts < HookBudget(d)}
    <2>1. S \subseteq HookRows
      BY DEF StuckDeliveries
    <2>2. deliv' = [d \in HookRows |-> IF d \in S THEN [deliv[d] EXCEPT !.status = "pending", !.stale = FALSE]
                                       ELSE deliv[d]]
      BY <1>1 DEF SweepDeliveries
    <2> HIDE DEF S
    <2>3. Rewrites(S, "pending") /\ TriesKept
      BY <2>1, <2>2, GroupRewrites DEF Stored
    <2> QED
      BY <2>3 DEF S
  <1>2. ASSUME SweepExhausted
        PROVE  Rewrites({d \in StuckDeliveries : deliv[d].attempts >= HookBudget(d)}, "failed") /\ TriesKept
    <2> DEFINE S == {d \in StuckDeliveries : deliv[d].attempts >= HookBudget(d)}
    <2>1. S \subseteq HookRows
      BY DEF StuckDeliveries
    <2>2. deliv' = [d \in HookRows |-> IF d \in S THEN [deliv[d] EXCEPT !.status = "failed", !.stale = FALSE]
                                       ELSE deliv[d]]
      BY <1>2 DEF SweepExhausted
    <2> HIDE DEF S
    <2>3. Rewrites(S, "failed") /\ TriesKept
      BY <2>1, <2>2, GroupRewrites DEF Stored
    <2> QED
      BY <2>3 DEF S
  <1> QED
    BY <1>1, <1>2

\* An operator's retry.
LEMMA RetryRewrites ==
  ASSUME deliv \in [HookRows -> DelivRows], NEW d \in HookRows,
         deliv' = [deliv EXCEPT ![d].status = "pending", ![d].attempts = 0, ![d].due = TRUE, ![d].stale = FALSE]
  PROVE  Rewrites({d}, "pending") /\ deliv'[d].attempts = 0
  <1>1. deliv[d] \in DelivRows /\ \A i \in HookRows \ {d} : deliv'[i] = deliv[i]
    OBVIOUS
  <1>2. deliv'[d] = [deliv[d] EXCEPT !.status = "pending", !.attempts = 0, !.due = TRUE, !.stale = FALSE]
    BY <1>1
  <1>3. deliv'[d] = [status |-> "pending", attempts |-> 0, due |-> TRUE, stale |-> FALSE,
                     sub |-> deliv[d].sub, ev |-> deliv[d].ev]
    BY <1>1, <1>2 DEF DelivRows
  <1>4. deliv'[d] \in DelivRows /\ deliv'[d].status = "pending" /\ deliv'[d].attempts = 0 /\ ~deliv'[d].stale
    BY <1>1, <1>3 DEF DelivRows, Stored
  <1>5. DOMAIN deliv' = HookRows /\ deliv' = [x \in DOMAIN deliv' |-> deliv'[x]]
    OBVIOUS
  <1> QED
    BY <1>1, <1>4, <1>5 DEF Rewrites

\* The INSERT of the fan-out or of a test.
LEMMA NewRowRewrites ==
  ASSUME deliv \in [HookRows -> DelivRows], NEW d \in HookRows, NEW s \in Subs,
         NEW e \in HookEvents \cup {Activity}, deliv' = [deliv EXCEPT ![d] = NewRow(s, e)]
  PROVE  Rewrites({d}, "pending") /\ deliv'[d].attempts = 0
  <1>1. deliv'[d] = NewRow(s, e) /\ \A i \in HookRows \ {d} : deliv'[i] = deliv[i]
    OBVIOUS
  <1>2. NewRow(s, e) = [status |-> "pending", attempts |-> 0, due |-> TRUE, stale |-> FALSE, sub |-> s, ev |-> e]
    <2>1. NoDelivRow \in DelivRows /\ NoDelivRow.attempts = 0 /\ NoDelivRow.stale = FALSE
      BY DEF NoDelivRow, DelivRows
    <2>2. deliv'[d] = [NoDelivRow EXCEPT !.status = "pending", !.due = TRUE, !.sub = s, !.ev = e]
      BY <1>1 DEF NewRow
    <2>3. deliv'[d] = [status |-> "pending", attempts |-> 0, due |-> TRUE, stale |-> FALSE, sub |-> s, ev |-> e]
      BY <2>1, <2>2 DEF DelivRows
    <2> QED
      BY <1>1, <2>3
  <1>3. NewRow(s, e) \in DelivRows /\ deliv'[d].status = "pending" /\ ~deliv'[d].stale /\ deliv'[d].attempts = 0
    BY <1>1, <1>2 DEF DelivRows, Stored
  <1>4. DOMAIN deliv' = HookRows /\ deliv' = [x \in DOMAIN deliv' |-> deliv'[x]]
    OBVIOUS
  <1> QED
    BY <1>1, <1>3, <1>4 DEF Rewrites

\* The clock sets one mark of one delivery.
MarksDelivery(d) ==
  /\ deliv' \in [HookRows -> DelivRows]
  /\ \A i \in HookRows : /\ deliv'[i].status = deliv[i].status /\ deliv'[i].attempts = deliv[i].attempts
                         /\ deliv'[i].sub = deliv[i].sub
                         /\ i # d => deliv'[i] = deliv[i]

LEMMA ClockMarksDelivery ==
  ASSUME deliv \in [HookRows -> DelivRows], NEW d \in HookRows
  PROVE  /\ BackoffOver(d) => MarksDelivery(d) /\ deliv'[d].stale = deliv[d].stale
         /\ DeliveryLeaseExpires(d) => MarksDelivery(d)
  <1>1. deliv[d] \in DelivRows
    OBVIOUS
  <1>2. ASSUME BackoffOver(d) PROVE MarksDelivery(d) /\ deliv'[d].stale = deliv[d].stale
    BY <1>1, <1>2 DEF BackoffOver, DelivRows, MarksDelivery
  <1>3. ASSUME DeliveryLeaseExpires(d) PROVE MarksDelivery(d)
    BY <1>1, <1>3 DEF DeliveryLeaseExpires, DelivRows, MarksDelivery
  <1> QED
    BY <1>2, <1>3

\* The foreign key removes the deliveries of a subscription.
LEMMA DeleteRewrites ==
  ASSUME deliv \in [HookRows -> DelivRows], NEW s \in Subs, DeleteSub(s)
  PROVE  Rewrites({d \in HookRows : deliv[d].sub = s}, "gone") /\ TriesKept
  <1> DEFINE S == {d \in HookRows : deliv[d].sub = s}
  <1>1. S \subseteq HookRows
    OBVIOUS
  <1>2. deliv' = [d \in HookRows |-> IF d \in S THEN [deliv[d] EXCEPT !.status = "gone"] ELSE deliv[d]]
    BY DEF DeleteSub
  <1> HIDE DEF S
  <1>3. Rewrites(S, "gone") /\ TriesKept
    BY <1>1, <1>2, GroupRewrites
  <1> QED
    BY <1>3 DEF S

----------------------------------------------------------------------------
(* Webhook deliveries: the senders, and every variable's type.            *)

\* A sender has a delivery, and a free place has none.
SenderHasRow == \A w \in HookSlots : sending[w].id \in HookRows <=> sending[w].pc # "free"

\* A sender moves on with the delivery it has.
Sends(w, p) ==
  /\ sending' \in [HookSlots -> SenderRows]
  /\ sending'[w].pc = p /\ sending'[w].id = sending[w].id /\ sending'[w].attempts = sending[w].attempts
  /\ \A v \in HookSlots \ {w} : sending'[v] = sending[v]

LEMMA SenderMoves ==
  ASSUME sending \in [HookSlots -> SenderRows], NEW w \in HookSlots, NEW p \in {"post", "mark", "stamp"},
         \/ sending' = [sending EXCEPT ![w].pc = p]
         \/ \E ok \in BOOLEAN : sending' = [sending EXCEPT ![w].pc = p, ![w].ok = ok]
  PROVE  Sends(w, p)
  <1>1. sending[w] \in SenderRows /\ \A v \in HookSlots \ {w} : sending'[v] = sending[v]
    OBVIOUS
  <1>2. \/ sending'[w] = [sending[w] EXCEPT !.pc = p]
        \/ \E ok \in BOOLEAN : sending'[w] = [sending[w] EXCEPT !.pc = p, !.ok = ok]
    BY <1>1
  <1>3. /\ sending'[w] \in SenderRows /\ sending'[w].pc = p /\ sending'[w].id = sending[w].id
        /\ sending'[w].attempts = sending[w].attempts
    BY <1>1, <1>2 DEF SenderRows
  <1>4. DOMAIN sending' = HookSlots /\ sending' = [x \in DOMAIN sending' |-> sending'[x]]
    OBVIOUS
  <1> QED
    BY <1>1, <1>3, <1>4 DEF Sends

\* WebhookTick gives each claimed delivery to a free sender of its own.
LEMMA ClaimSenders ==
  ASSUME deliv \in [HookRows -> DelivRows], sending \in [HookSlots -> SenderRows],
         NEW S, S \subseteq HookRows, WebhookTick(S)
  PROVE  /\ sending' \in [HookSlots -> SenderRows]
         /\ \A w \in HookSlots :
              \/ sending'[w] = sending[w]
              \/ /\ sending[w].pc = "free" /\ sending'[w].pc = "lookup" /\ sending'[w].id \in S
                 /\ sending'[w].attempts = deliv[sending'[w].id].attempts + 1
         /\ \A v, w \in HookSlots :
              sending'[v] # sending[v] /\ sending'[w] # sending[w] /\ sending'[v].id = sending'[w].id => v = w
  <1>1. PICK place \in [S -> FreeSenders] :
          sending' = [w \in HookSlots |->
                        IF \E d \in S : place[d] = w
                        THEN LET d == CHOOSE c \in S : place[c] = w
                             IN  [pc |-> "lookup", id |-> d, attempts |-> deliv[d].attempts + 1, ok |-> FALSE]
                        ELSE sending[w]]
    BY DEF WebhookTick
  <1> DEFINE Taken(w) == \E d \in S : place[d] = w
             Of(w) == CHOOSE c \in S : place[c] = w
             New(w) == [pc |-> "lookup", id |-> Of(w), attempts |-> deliv[Of(w)].attempts + 1, ok |-> FALSE]
  <1>2. \A w \in HookSlots : Taken(w) => Of(w) \in S /\ place[Of(w)] = w
    OBVIOUS
  <1>3. \A w \in HookSlots : Taken(w) => sending[w].pc = "free"
    BY DEF FreeSenders
  <1>4. sending' = [w \in HookSlots |-> IF Taken(w) THEN New(w) ELSE sending[w]]
    BY <1>1, Zenon
  <1>5. \A w \in HookSlots : Taken(w) => New(w) \in SenderRows
    <2> SUFFICES ASSUME NEW w \in HookSlots, Taken(w) PROVE New(w) \in SenderRows
      OBVIOUS
    <2>1. Of(w) \in HookRows
      BY <1>2
    <2> HIDE DEF Of, Taken
    <2>2. deliv[Of(w)].attempts \in Nat
      BY <2>1 DEF DelivRows
    <2> QED
      BY <2>1, <2>2 DEF SenderRows
  <1>6. \A w \in HookSlots :
          New(w).pc = "lookup" /\ New(w).id = Of(w) /\ New(w).attempts = deliv[Of(w)].attempts + 1
    OBVIOUS
  <1> HIDE DEF New, Of, Taken
  <1>7. \A w \in HookSlots : sending'[w] = IF Taken(w) THEN New(w) ELSE sending[w]
    BY <1>4
  <1>8. sending' \in [HookSlots -> SenderRows]
    BY <1>4, <1>5
  <1>9. ASSUME NEW v \in HookSlots, NEW w \in HookSlots, sending'[v] # sending[v], sending'[w] # sending[w],
               sending'[v].id = sending'[w].id
        PROVE  v = w
    <2>1. sending'[v] = New(v) /\ Taken(v) /\ sending'[w] = New(w) /\ Taken(w)
      BY <1>7, <1>9
    <2>2. Of(v) = Of(w)
      BY <1>6, <1>9, <2>1
    <2> QED
      BY <1>2, <2>1, <2>2
  <1> QED
    BY <1>2, <1>3, <1>6, <1>7, <1>8, <1>9

\* What HooksTypeOK says, with the records named.
LEMMA HooksTypes ==
  HooksTypeOK <=> /\ subs \in [Subs -> {"none", "on", "off", "gone"}]
                  /\ hub \in HubSeqs /\ Len(hub) <= HubCap
                  /\ published \subseteq HookEvents /\ dropped \subseteq published
                  /\ fan \in FanRows /\ deliv \in [HookRows -> DelivRows]
                  /\ sending \in [HookSlots -> SenderRows] /\ hookSweep \in {"idle", "fail"}
                  /\ viewing \in [HookOps -> HookRows \cup {NoDelivery}]
                  /\ hooksUp \in BOOLEAN /\ hookEvents \in 0 .. MaxHookEvents
  BY DEF HooksTypeOK, HubSeqs, FanRows, DelivRows, SenderRows

LEMMA InitHooksTypes == HooksInit => HooksTypeOK /\ SenderHasRow
  <1> SUFFICES ASSUME HooksInit PROVE HooksTypeOK /\ SenderHasRow
    OBVIOUS
  <1>1. HubCap \in Nat /\ MaxHookEvents \in Nat
    BY HooksAssumption DEF HooksAssumption
  <1>2. NoDelivRow \in DelivRows /\ FreeSender \in SenderRows /\ IdleFan \in FanRows
    BY DEF NoDelivRow, DelivRows, FreeSender, SenderRows, IdleFan, FanRows
  <1>3. hub \in HubSeqs /\ Len(hub) <= HubCap
    BY <1>1 DEF HooksInit, HubSeqs
  <1>4. SenderHasRow
    BY HooksNames DEF HooksInit, SenderHasRow, FreeSender, HooksNames
  <1> QED
    BY <1>1, <1>2, <1>3, <1>4, HooksTypes DEF HooksInit

LEMMA NextHooksTypes ==
  HooksTypeOK /\ SenderHasRow /\ [HooksNext]_hooksVars => HooksTypeOK' /\ SenderHasRow'
  <1> SUFFICES ASSUME HooksTypeOK, SenderHasRow, [HooksNext]_hooksVars PROVE HooksTypeOK' /\ SenderHasRow'
    OBVIOUS
  <1> USE DEF hooksVars
  <1>1. /\ subs \in [Subs -> {"none", "on", "off", "gone"}]
        /\ hub \in HubSeqs /\ Len(hub) <= HubCap
        /\ published \subseteq HookEvents /\ dropped \subseteq published
        /\ fan \in FanRows /\ deliv \in [HookRows -> DelivRows]
        /\ sending \in [HookSlots -> SenderRows] /\ hookSweep \in {"idle", "fail"}
        /\ viewing \in [HookOps -> HookRows \cup {NoDelivery}]
        /\ hooksUp \in BOOLEAN /\ hookEvents \in 0 .. MaxHookEvents
    BY HooksTypes
  <1>2. MaxHookEvents \in Nat /\ HubCap \in Nat /\ NoDelivery \notin HookRows /\ NoSub \notin Subs
    BY HooksAssumption, HooksNames DEF HooksAssumption, HooksNames
  <1>3. \A kind : HookEvent(kind) => hookEvents' \in 0 .. MaxHookEvents
    BY <1>1, <1>2 DEF HookEvent
  \* The parts, primed.
  <1> DEFINE OK == /\ subs' \in [Subs -> {"none", "on", "off", "gone"}]
                   /\ hub' \in HubSeqs /\ Len(hub') <= HubCap
                   /\ published' \subseteq HookEvents /\ dropped' \subseteq published'
                   /\ fan' \in FanRows /\ deliv' \in [HookRows -> DelivRows]
                   /\ sending' \in [HookSlots -> SenderRows] /\ hookSweep' \in {"idle", "fail"}
                   /\ viewing' \in [HookOps -> HookRows \cup {NoDelivery}]
                   /\ hooksUp' \in BOOLEAN /\ hookEvents' \in 0 .. MaxHookEvents /\ SenderHasRow'
  <1>4. OK => HooksTypeOK' /\ SenderHasRow'
    BY DEF HooksTypeOK, HubSeqs, FanRows, DelivRows, SenderRows
  <1>5. UNCHANGED sending => SenderHasRow'
    BY DEF SenderHasRow
  <1>6. ASSUME NEW e \in HookEvents \cup {Activity}, hub' = IF HasRoom THEN Append(hub, e) ELSE hub
        PROVE  hub' \in HubSeqs /\ Len(hub') <= HubCap
    BY <1>1, <1>2, <1>6 DEF HasRoom, HubSeqs
  <1>7. ASSUME NEW e \in HookEvents, Publish(e) PROVE OK
    <2>1. hub' \in HubSeqs /\ Len(hub') <= HubCap
      BY <1>6, <1>7 DEF Publish
    <2>2. published' \subseteq HookEvents /\ dropped' \subseteq published'
      BY <1>1, <1>7 DEF Publish
    <2> QED
      BY <1>1, <1>5, <1>7, <2>1, <2>2 DEF Publish
  <1>8. ASSUME Receive PROVE OK
    <2>1. hub' \in HubSeqs /\ Len(hub') <= HubCap /\ Head(hub) \in HookEvents \cup {Activity}
      BY <1>1, <1>2, <1>8 DEF Receive, HubSeqs
    <2>2. fan' \in FanRows
      BY <1>8, <2>1 DEF Receive, FanRows, IdleFan, MatchingSubscriptions
    <2> QED
      BY <1>1, <1>5, <1>8, <2>1, <2>2 DEF Receive
  <1>9. ASSUME NEW s \in Subs, InsertDelivery(s) PROVE OK
    <2>1. fan' \in FanRows /\ fan.ev \in HookEvents \cup {Activity}
      BY <1>1, <1>9 DEF InsertDelivery, FanRows
    <2>2. deliv' \in [HookRows -> DelivRows]
      <3>1. CASE UNCHANGED deliv
        BY <1>1, <3>1
      <3>2. ASSUME NEW d \in HookRows, deliv' = [deliv EXCEPT ![d] = NewRow(s, fan.ev)]
            PROVE  deliv' \in [HookRows -> DelivRows]
        BY <1>1, <2>1, <3>2, NewRowRewrites DEF Rewrites
      <3> QED
        BY <1>9, <3>1, <3>2 DEF InsertDelivery, Unused, HookRows
    <2> QED
      BY <1>1, <1>5, <1>9, <2>1, <2>2 DEF InsertDelivery
  <1>10. ASSUME NEW S \in SUBSET HookRows, WebhookTick(S) PROVE OK
    <2>1. deliv' \in [HookRows -> DelivRows]
      BY <1>1, <1>10, ClaimRewrites DEF WebhookTick, Rewrites
    <2>2. sending' \in [HookSlots -> SenderRows] /\ SenderHasRow'
      BY <1>1, <1>10, ClaimSenders DEF SenderHasRow
    <2> QED
      BY <1>1, <1>10, <2>1, <2>2 DEF WebhookTick
  <1>11. ASSUME NEW w \in HookSlots, sending' = [sending EXCEPT ![w] = FreeSender]
         PROVE  sending' \in [HookSlots -> SenderRows] /\ SenderHasRow'
    BY <1>1, <1>2, <1>11 DEF FreeSender, SenderRows, SenderHasRow
  <1>12. ASSUME NEW w \in HookSlots, NEW p \in {"post", "mark", "stamp"}, Sends(w, p), sending[w].pc # "free"
         PROVE  sending' \in [HookSlots -> SenderRows] /\ SenderHasRow'
    BY <1>12 DEF Sends, SenderHasRow
  <1>13. ASSUME NEW d \in HookRows, NEW n, deliv' = MarkDeliverySuccess(d) \/ deliv' = MarkDeliveryFailure(d, n)
         PROVE  deliv' \in [HookRows -> DelivRows]
    <2>1. CASE StoredRow(d)
      <3>1. CASE deliv' = MarkDeliverySuccess(d)
        BY <1>1, <2>1, <3>1, ResultRewrites DEF Rewrites
      <3>2. CASE deliv' = MarkDeliveryFailure(d, n)
        BY <1>1, <2>1, <3>2, ResultRewrites DEF Rewrites
      <3> QED
        BY <1>13, <3>1, <3>2
    <2>2. CASE ~StoredRow(d)
      BY <1>1, <1>13, <2>2 DEF MarkDeliverySuccess, MarkDeliveryFailure
    <2> QED
      BY <2>1, <2>2
  <1>14. ASSUME NEW w \in HookSlots, DeliverLookup(w) PROVE OK
    <2>1. sending[w].id \in HookRows /\ sending[w].pc # "free"
      BY <1>14 DEF DeliverLookup, SenderHasRow
    <2>2. /\ deliv' \in [HookRows -> DelivRows] /\ hub' \in HubSeqs /\ Len(hub') <= HubCap
          /\ sending' \in [HookSlots -> SenderRows] /\ SenderHasRow'
      <3>1. CASE subs[deliv[sending[w].id].sub] = "gone"
        <4>1. deliv' = MarkDeliveryFailure(sending[w].id, HookBudget(sending[w].id))
              /\ sending' = [sending EXCEPT ![w] = FreeSender] /\ PublishActivity
          BY <1>14, <3>1 DEF DeliverLookup
        <4>2. hub' \in HubSeqs /\ Len(hub') <= HubCap
          BY <1>6, <4>1 DEF PublishActivity
        <4> QED
          BY <1>11, <1>13, <2>1, <4>1, <4>2
      <3>2. CASE subs[deliv[sending[w].id].sub] # "gone"
        <4>1. sending' = [sending EXCEPT ![w].pc = "post"] /\ UNCHANGED <<deliv, hub>>
          BY <1>14, <3>2 DEF DeliverLookup
        <4>2. Sends(w, "post")
          BY <1>1, <4>1, SenderMoves
        <4> QED
          BY <1>1, <1>12, <2>1, <4>1, <4>2
      <3> QED
        BY <3>1, <3>2
    <2> QED
      BY <1>1, <1>14, <2>2 DEF DeliverLookup
  <1>15. ASSUME NEW w \in HookSlots, Post(w) PROVE OK
    <2>1. Sends(w, "mark") /\ sending[w].pc # "free"
      BY <1>1, <1>15, SenderMoves DEF Post
    <2> QED
      BY <1>1, <1>12, <1>15, <2>1 DEF Post
  <1>16. ASSUME NEW w \in HookSlots, MarkDelivery(w) PROVE OK
    <2>1. Sends(w, "stamp") /\ sending[w].pc # "free" /\ sending[w].id \in HookRows
      BY <1>1, <1>16, SenderMoves DEF MarkDelivery, SenderHasRow
    <2>2. deliv' \in [HookRows -> DelivRows]
      BY <1>13, <1>16, <2>1 DEF MarkDelivery
    <2> QED
      BY <1>1, <1>12, <1>16, <2>1, <2>2 DEF MarkDelivery
  <1>17. ASSUME NEW w \in HookSlots, Stamp(w) PROVE OK
    <2>1. hub' \in HubSeqs /\ Len(hub') <= HubCap
      BY <1>6, <1>17 DEF Stamp, PublishActivity
    <2> QED
      BY <1>1, <1>11, <1>17, <2>1 DEF Stamp
  <1>18. ASSUME SweepDeliveries \/ SweepExhausted PROVE OK
    <2>1. deliv' \in [HookRows -> DelivRows]
      BY <1>1, <1>18, SweepRewrites DEF Rewrites
    <2> QED
      BY <1>1, <1>5, <1>18, <2>1 DEF SweepDeliveries, SweepExhausted
  <1>19. ASSUME NEW d \in HookRows, BackoffOver(d) \/ DeliveryLeaseExpires(d) PROVE OK
    <2>1. deliv' \in [HookRows -> DelivRows]
      BY <1>1, <1>19, ClockMarksDelivery DEF MarksDelivery
    <2> QED
      BY <1>1, <1>5, <1>19, <2>1 DEF BackoffOver, DeliveryLeaseExpires
  <1>20. ASSUME HooksCrash PROVE OK
    <2>1. sending' \in [HookSlots -> SenderRows] /\ SenderHasRow'
      BY <1>2, <1>20 DEF HooksCrash, FreeSender, SenderRows, SenderHasRow
    <2>2. hub' \in HubSeqs /\ Len(hub') <= HubCap
      BY <1>2, <1>20 DEF HooksCrash, HubSeqs
    <2>3. fan' \in FanRows
      BY <1>20 DEF HooksCrash, IdleFan, FanRows
    <2> QED
      BY <1>1, <1>3, <1>20, <2>1, <2>2, <2>3 DEF HooksCrash
  <1>21. ASSUME HooksBoot \/ UNCHANGED hooksVars PROVE OK
    BY <1>1, <1>5, <1>21 DEF HooksBoot
  <1>22. ASSUME NEW s \in Subs, CreateSub(s) \/ UpdateSub(s) PROVE OK
    BY <1>1, <1>3, <1>5, <1>22
       DEF CreateSub, UpdateSub, InsertEventSubscription, UpdateEventSubscription
  <1>23. ASSUME NEW s \in Subs, DeleteSub(s) PROVE OK
    <2>1. deliv' \in [HookRows -> DelivRows]
      BY <1>1, <1>23, DeleteRewrites DEF Rewrites
    <2>2. subs' \in [Subs -> {"none", "on", "off", "gone"}]
      BY <1>1, <1>23 DEF DeleteSub, DeleteEventSubscription
    <2> QED
      BY <1>1, <1>3, <1>5, <1>23, <2>1, <2>2 DEF DeleteSub
  <1>24. ASSUME NEW s \in Subs, TestSub(s) PROVE OK
    <2>1. PICK d \in HookRows : deliv' = [deliv EXCEPT ![d] = NewRow(s, Activity)]
      BY <1>24 DEF TestSub, Unused, HookRows
    <2>2. deliv' \in [HookRows -> DelivRows]
      BY <1>1, <2>1, NewRowRewrites DEF Rewrites
    <2> QED
      BY <1>1, <1>3, <1>5, <1>24, <2>2 DEF TestSub
  <1>25. ASSUME NEW o \in HookOps, ListDeliveries(o) PROVE OK
    BY <1>1, <1>3, <1>5, <1>25 DEF ListDeliveries
  <1>26. ASSUME NEW o \in HookOps, RetryDelivery(o) PROVE OK
    <2>1. viewing[o] \in HookRows
      BY <1>1, <1>26 DEF RetryDelivery
    <2>2. deliv' \in [HookRows -> DelivRows]
      BY <1>1, <1>26, <2>1, RetryRewrites DEF RetryDelivery, Rewrites
    <2> QED
      BY <1>1, <1>5, <1>26, <2>2 DEF RetryDelivery
  <1> HIDE DEF OK
  <1> QED
    BY <1>4, <1>7, <1>8, <1>9, <1>10, <1>14, <1>15, <1>16, <1>17, <1>18, <1>19, <1>20, <1>21, <1>22, <1>23,
       <1>24, <1>25, <1>26
       DEF HooksNext, SendStep, create_webhook, update_webhook, delete_webhook, test_webhook,
           list_webhook_deliveries, retry_webhook_delivery

\* Every variable of the hub, the fan-out and the delivery loop stays within
\* its type: the channel never holds more than its places, a sender that
\* writes a result has a row to write it to.
THEOREM HooksTypesHold == HooksSpec => []HooksTypeOK
  BY InitHooksTypes, NextHooksTypes, PTL DEF HooksSpec

----------------------------------------------------------------------------
(* The deliveries table is a work queue.                                  *)

OneViewer == \A o, p \in HookOps : o = p

Sending == {"lookup", "post", "mark"}

\* A sender that has still to write its result has a running delivery whose
\* lease has not passed and whose attempts it knows, or a removed one; no
\* other sender has it; a pending delivery has an attempt left; the delivery
\* an operator is about to retry has ended; and a row that was never
\* inserted belongs to no subscription, so no cascade reaches it.
RowHeld(w) ==
  \/ deliv[sending[w].id].status = "gone"
  \/ /\ deliv[sending[w].id].status = "running" /\ ~deliv[sending[w].id].stale
     /\ deliv[sending[w].id].attempts = sending[w].attempts
RowsHeld == \A w \in HookSlots : sending[w].pc \in Sending => RowHeld(w)
OneSender ==
  \A v, w \in HookSlots :
    sending[v].pc \in Sending /\ sending[w].pc \in Sending /\ sending[v].id = sending[w].id => v = w
TryLeft == \A d \in HookRows : deliv[d].status = "pending" => deliv[d].attempts < HookBudget(d)
RetryClosed ==
  \A o \in HookOps : viewing[o] \in HookRows => deliv[viewing[o]].status \in Closed \cup {"gone"}
UnusedUnowned == \A d \in HookRows : deliv[d].status = "none" => deliv[d].sub = NoSub
HooksInv == SenderHasRow /\ RowsHeld /\ OneSender /\ TryLeft /\ RetryClosed /\ UnusedUnowned

\* Every row has at least one attempt.
LEMMA BudgetPositive == \A d \in HookRows : HookBudget(d) \in Nat /\ 0 < HookBudget(d)
  BY HooksAssumption DEF HooksAssumption, HookBudget

\* The two columns of the abstract queue do not change.
SameDeliveries ==
  \A d \in HookRows : deliv'[d].status = deliv[d].status /\ deliv'[d].attempts = deliv[d].attempts

LEMMA DeliveriesStutter ==
  ASSUME SameDeliveries PROVE UNCHANGED DeliveryQueue!queue
  BY DEF SameDeliveries, DeliveryQueue!queue

\* Each way to write deliveries is a step of the abstract queue.
LEMMA DeliveryMoves ==
  ASSUME HooksTypeOK, NEW S \in SUBSET HookRows
  PROVE  /\ \A st \in {"succeeded", "failed"} :
              (\A i \in S : deliv[i].status = "running") /\ Rewrites(S, st) /\ TriesKept
                => DeliveryQueue!QueueNext
         /\ /\ \A i \in S : deliv[i].status = "running" /\ deliv[i].attempts < HookBudget(i)
            /\ Rewrites(S, "pending") /\ TriesKept
            => DeliveryQueue!QueueNext
         /\ /\ \A i \in S : deliv[i].status = "pending" /\ deliv[i].attempts < HookBudget(i)
            /\ Rewrites(S, "running") /\ \A i \in S : deliv'[i].attempts = deliv[i].attempts + 1
            => DeliveryQueue!QueueNext
         /\ (\A i \in S : deliv[i].status # "none") /\ Rewrites(S, "gone") /\ TriesKept
              => DeliveryQueue!QueueNext
  <1>1. ASSUME NEW st \in {"succeeded", "failed"}, \A i \in S : deliv[i].status = "running", Rewrites(S, st),
               TriesKept
        PROVE  DeliveryQueue!QueueNext
    <2>1. DeliveryQueue!End(S, st)
      BY <1>1 DEF DeliveryQueue!End, Rewrites, TriesKept
    <2> QED
      BY <2>1 DEF DeliveryQueue!QueueNext
  <1>2. ASSUME \A i \in S : deliv[i].status = "running" /\ deliv[i].attempts < HookBudget(i),
               Rewrites(S, "pending"), TriesKept
        PROVE  DeliveryQueue!QueueNext
    <2>1. DeliveryQueue!TakeBack(S)
      BY <1>2 DEF DeliveryQueue!TakeBack, Rewrites, TriesKept
    <2> QED
      BY <2>1 DEF DeliveryQueue!QueueNext
  <1>3. ASSUME \A i \in S : deliv[i].status = "pending" /\ deliv[i].attempts < HookBudget(i),
               Rewrites(S, "running"), \A i \in S : deliv'[i].attempts = deliv[i].attempts + 1
        PROVE  DeliveryQueue!QueueNext
    <2>1. DeliveryQueue!HandOut(S)
      BY <1>3 DEF DeliveryQueue!HandOut, Rewrites
    <2> QED
      BY <2>1 DEF DeliveryQueue!QueueNext
  <1>4. ASSUME \A i \in S : deliv[i].status # "none", Rewrites(S, "gone"), TriesKept
        PROVE  DeliveryQueue!QueueNext
    <2>1. DeliveryQueue!Remove(S)
      BY <1>4 DEF DeliveryQueue!Remove, Rewrites, TriesKept
    <2> QED
      BY <2>1 DEF DeliveryQueue!QueueNext
  <1> QED
    BY <1>1, <1>2, <1>3, <1>4

\* A retry starts a closed delivery over, an insert submits a new one.
LEMMA DeliveryStarts ==
  ASSUME HooksTypeOK, NEW d \in HookRows, deliv[d].status \in Closed \cup {"none"},
         Rewrites({d}, "pending"), deliv'[d].attempts = 0
  PROVE  DeliveryQueue!QueueNext
  <1>1. CASE deliv[d].status \in Closed
    <2>1. DeliveryQueue!StartOver(d)
      BY <1>1 DEF DeliveryQueue!StartOver, DeliveryQueue!Move, Rewrites, Closed
    <2> QED
      BY <2>1 DEF DeliveryQueue!QueueNext
  <1>2. CASE deliv[d].status = "none"
    <2>1. DeliveryQueue!Submit(d)
      BY <1>2 DEF DeliveryQueue!Submit, DeliveryQueue!Move, Rewrites
    <2> QED
      BY <2>1 DEF DeliveryQueue!QueueNext
  <1> QED
    BY <1>1, <1>2

\* Deliveries that no sender has may be written.
LEMMA HeldStay ==
  ASSUME HooksTypeOK, HooksInv, UNCHANGED sending, NEW S,
         \A d \in HookRows : d \notin S => deliv'[d] = deliv[d],
         \A w \in HookSlots : sending[w].pc \in Sending => sending[w].id \notin S
  PROVE  RowsHeld' /\ OneSender'
  BY DEF HooksInv, RowsHeld, OneSender, RowHeld, SenderHasRow, Sending

\* Every step keeps HooksInv and is a step of the abstract queue.
LEMMA NextHooksInv ==
  ASSUME OneViewer, HooksTypeOK, HooksInv, [HooksNext]_hooksVars
  PROVE  HooksInv' /\ (DeliveryQueue!QueueNext \/ UNCHANGED DeliveryQueue!queue)
  <1> DEFINE Goal == HooksInv' /\ (DeliveryQueue!QueueNext \/ UNCHANGED DeliveryQueue!queue)
  <1>0. HooksTypeOK' /\ SenderHasRow'
    BY NextHooksTypes DEF HooksInv
  <1>1. /\ deliv \in [HookRows -> DelivRows] /\ sending \in [HookSlots -> SenderRows]
        /\ subs \in [Subs -> {"none", "on", "off", "gone"}]
        /\ viewing \in [HookOps -> HookRows \cup {NoDelivery}] /\ NoDelivery \notin HookRows
        /\ NoSub \notin Subs /\ fan \in FanRows /\ fan.ev \in HookEvents \cup {Activity}
        /\ \A d \in HookRows : deliv[d].status \in Stored \cup {"none", "gone"} /\ deliv[d].attempts \in Nat
        /\ \A w \in HookSlots : sending[w].attempts \in Nat
        /\ \A d \in HookRows : HookBudget(d) \in Nat /\ 0 < HookBudget(d)
    BY HooksTypes, HooksNames, BudgetPositive DEF HooksNames, DelivRows, SenderRows, FanRows
  \* A step that leaves the table alone.
  <1>2. ASSUME UNCHANGED deliv,
               \A w \in HookSlots : sending'[w].pc \in Sending =>
                 /\ sending[w].pc \in Sending /\ sending'[w].id = sending[w].id
                 /\ sending'[w].attempts = sending[w].attempts,
               \A o \in HookOps : viewing'[o] \in HookRows =>
                 viewing'[o] = viewing[o] \/ deliv[viewing'[o]].status \in Closed
        PROVE  Goal
    <2>1. HooksInv'
      BY <1>0, <1>2 DEF HooksInv, RowsHeld, OneSender, RowHeld, TryLeft, RetryClosed, UnusedUnowned
    <2> QED
      BY <1>2, <2>1, DeliveriesStutter DEF SameDeliveries
  \* A step that writes rows no sender has.
  <1>3. ASSUME UNCHANGED sending, NEW S, S \subseteq HookRows,
               \A d \in HookRows : d \notin S => deliv'[d] = deliv[d],
               \A w \in HookSlots : sending[w].pc \in Sending => sending[w].id \notin S,
               \A o \in HookOps : viewing'[o] \in HookRows => viewing'[o] = viewing[o] /\ viewing[o] \notin S,
               \A d \in S : /\ deliv'[d].status # "none"
                            /\ deliv'[d].status = "pending" => deliv'[d].attempts < HookBudget(d)
        PROVE  HooksInv'
    <2>1. TryLeft' /\ RetryClosed' /\ UnusedUnowned'
      BY <1>3 DEF HooksInv, TryLeft, RetryClosed, UnusedUnowned
    <2> QED
      BY <1>0, <1>3, <2>1, HeldStay DEF HooksInv
  \* An insert, by the fan-out or by a test.
  <1>4. ASSUME NEW d \in HookRows, deliv[d].status = "none", NEW s \in Subs, NEW e \in HookEvents \cup {Activity},
               deliv' = [deliv EXCEPT ![d] = NewRow(s, e)], UNCHANGED <<sending, viewing>>
        PROVE  Goal
    <2>1. Rewrites({d}, "pending") /\ deliv'[d].attempts = 0
      BY <1>1, <1>4, NewRowRewrites
    <2>2. DeliveryQueue!QueueNext
      BY <1>4, <2>1, DeliveryStarts
    <2>3. \A i \in HookRows : i \notin {d} => deliv'[i] = deliv[i]
      BY <2>1 DEF Rewrites
    <2>4. \A w \in HookSlots : sending[w].pc \in Sending => sending[w].id \notin {d}
      BY <1>4 DEF HooksInv, RowsHeld, RowHeld
    <2>5. \A o \in HookOps : viewing'[o] \in HookRows => viewing'[o] = viewing[o] /\ viewing[o] \notin {d}
      BY <1>4 DEF HooksInv, RetryClosed, Closed
    <2>6. \A i \in {d} : /\ deliv'[i].status # "none"
                         /\ deliv'[i].status = "pending" => deliv'[i].attempts < HookBudget(i)
      BY <1>1, <2>1 DEF Rewrites
    <2>7. HooksInv'
      BY <1>3, <1>4, <2>3, <2>4, <2>5, <2>6
    <2> QED
      BY <2>2, <2>7
  <1>5. ASSUME NEW s \in Subs, InsertDelivery(s) PROVE Goal
    <2>1. CASE UNCHANGED deliv
      BY <1>2, <1>5, <2>1 DEF InsertDelivery
    <2>2. ASSUME NEW d \in HookRows, deliv[d].status = "none", deliv' = [deliv EXCEPT ![d] = NewRow(s, fan.ev)]
          PROVE  Goal
      <3>1. UNCHANGED <<sending, viewing>>
        BY <1>5 DEF InsertDelivery
      <3> QED
        BY <1>1, <1>4, <2>2, <3>1
    <2> QED
      BY <1>5, <2>1, <2>2 DEF InsertDelivery, Unused, HookRows
  <1>6. ASSUME NEW s \in Subs, TestSub(s) PROVE Goal
    <2>1. PICK d \in HookRows : deliv[d].status = "none" /\ deliv' = [deliv EXCEPT ![d] = NewRow(s, Activity)]
      BY <1>6 DEF TestSub, Unused, HookRows
    <2>2. UNCHANGED <<sending, viewing>>
      BY <1>6 DEF TestSub
    <2> QED
      BY <1>4, <2>1, <2>2
  <1>7. ASSUME NEW S \in SUBSET HookRows, WebhookTick(S) PROVE Goal
    <2>1. /\ Rewrites(S, "running") /\ \A i \in S : deliv'[i].attempts = deliv[i].attempts + 1
          /\ \A i \in S : deliv[i].status = "pending"
      BY <1>1, <1>7, ClaimRewrites DEF WebhookTick, DueDeliveries
    <2>2. \A i \in S : deliv[i].attempts < HookBudget(i)
      BY <2>1 DEF HooksInv, TryLeft
    <2>3. DeliveryQueue!QueueNext
      BY <2>1, <2>2, DeliveryMoves
    <2>4. /\ \A w \in HookSlots :
              \/ sending'[w] = sending[w]
              \/ /\ sending[w].pc = "free" /\ sending'[w].pc = "lookup" /\ sending'[w].id \in S
                 /\ sending'[w].attempts = deliv[sending'[w].id].attempts + 1
          /\ \A v, w \in HookSlots :
              sending'[v] # sending[v] /\ sending'[w] # sending[w] /\ sending'[v].id = sending'[w].id => v = w
      BY <1>1, <1>7, ClaimSenders
    <2>5. \A w \in HookSlots : sending[w].pc \in Sending => sending[w].id \in HookRows \ S
      BY <2>1 DEF HooksInv, RowsHeld, RowHeld, SenderHasRow, Sending
    <2>6. RowsHeld'
      BY <2>1, <2>4, <2>5 DEF HooksInv, RowsHeld, RowHeld, Rewrites
    <2>7. OneSender'
      BY <2>4, <2>5 DEF HooksInv, OneSender, Sending
    <2>8. TryLeft' /\ RetryClosed' /\ UnusedUnowned'
      BY <1>7, <2>1 DEF HooksInv, TryLeft, RetryClosed, UnusedUnowned, Rewrites, WebhookTick, Closed
    <2> QED
      BY <1>0, <2>3, <2>6, <2>7, <2>8 DEF HooksInv
  \* The sender w writes the result of its row.
  <1>8. ASSUME NEW w \in HookSlots, sending[w].pc \in Sending, sending'[w].pc \notin Sending,
               \A v \in HookSlots \ {w} : sending'[v] = sending[v], UNCHANGED viewing,
               NEW d, d = sending[w].id,
               \/ UNCHANGED deliv /\ ~StoredRow(d)
               \/ /\ TriesKept /\ StoredRow(d)
                  /\ \/ Rewrites({d}, "succeeded") \/ Rewrites({d}, "failed")
                     \/ Rewrites({d}, "pending") /\ sending[w].attempts < HookBudget(d)
        PROVE  Goal
    <2>1. d \in HookRows /\ RowHeld(w)
      BY <1>8 DEF HooksInv, SenderHasRow, RowsHeld, Sending
    <2>2. CASE ~StoredRow(d)
      BY <1>2, <1>8, <2>2
    <2>3. CASE StoredRow(d)
      <3>1. deliv[d].status = "running" /\ deliv[d].attempts = sending[w].attempts
        BY <1>8, <2>1, <2>3 DEF RowHeld, StoredRow, Stored
      <3>2. /\ TriesKept
            /\ \/ Rewrites({d}, "succeeded") \/ Rewrites({d}, "failed")
               \/ Rewrites({d}, "pending") /\ deliv[d].attempts < HookBudget(d)
        BY <1>8, <2>3, <3>1
      <3>3. DeliveryQueue!QueueNext
        BY <2>1, <3>1, <3>2, DeliveryMoves
      <3>4. \A v \in HookSlots : sending'[v].pc \in Sending =>
              v # w /\ sending'[v] = sending[v] /\ sending[v].id \in HookRows \ {d}
        BY <1>8 DEF HooksInv, OneSender, SenderHasRow, Sending
      <3>5. \A i \in HookRows \ {d} : deliv'[i] = deliv[i]
        BY <3>2 DEF Rewrites
      <3>6. RowsHeld' /\ OneSender'
        BY <3>4, <3>5 DEF HooksInv, RowsHeld, OneSender, RowHeld
      <3>7. TryLeft' /\ UnusedUnowned'
        BY <2>1, <3>2, <3>5 DEF HooksInv, TryLeft, UnusedUnowned, Rewrites, TriesKept
      <3>8. RetryClosed'
        BY <1>8, <3>1, <3>5 DEF HooksInv, RetryClosed, Closed
      <3> QED
        BY <1>0, <3>3, <3>6, <3>7, <3>8 DEF HooksInv
    <2> QED
      BY <2>2, <2>3
  <1>9. ASSUME NEW w \in HookSlots, DeliverLookup(w) PROVE Goal
    <2> DEFINE d == sending[w].id
    <2>1. d \in HookRows /\ sending[w].pc = "lookup" /\ UNCHANGED viewing
      BY <1>9 DEF DeliverLookup, HooksInv, SenderHasRow
    <2>2. CASE subs[deliv[d].sub] = "gone"
      <3>1. deliv' = MarkDeliveryFailure(d, HookBudget(d)) /\ sending' = [sending EXCEPT ![w] = FreeSender]
        BY <1>9, <2>2 DEF DeliverLookup
      <3>2. sending'[w].pc \notin Sending /\ \A v \in HookSlots \ {w} : sending'[v] = sending[v]
        BY <1>1, <3>1 DEF FreeSender, Sending
      <3>3. CASE StoredRow(d)
        <4>1. HookBudget(d) >= HookBudget(d)
          BY <1>1, <2>1
        <4>2. Rewrites({d}, "failed") /\ TriesKept
          BY <1>1, <2>1, <3>1, <3>3, <4>1, ResultRewrites
        <4> QED
          BY <1>8, <2>1, <3>2, <3>3, <4>2 DEF Sending
      <3>4. CASE ~StoredRow(d)
        <4>1. UNCHANGED deliv
          BY <3>1, <3>4 DEF MarkDeliveryFailure
        <4> QED
          BY <1>8, <2>1, <3>2, <3>4, <4>1 DEF Sending
      <3> QED
        BY <3>3, <3>4
    <2>3. CASE subs[deliv[d].sub] # "gone"
      <3>1. UNCHANGED deliv /\ Sends(w, "post")
        BY <1>1, <1>9, <2>3, SenderMoves DEF DeliverLookup
      <3> QED
        BY <1>2, <2>1, <3>1 DEF Sends, Sending
    <2> QED
      BY <2>2, <2>3
  <1>10. ASSUME NEW w \in HookSlots, Post(w) PROVE Goal
    <2>1. Sends(w, "mark") /\ sending[w].pc \in Sending /\ UNCHANGED <<deliv, viewing>>
      BY <1>1, <1>10, SenderMoves DEF Post, Sending
    <2> QED
      BY <1>2, <2>1 DEF Sends
  <1>11. ASSUME NEW w \in HookSlots, MarkDelivery(w) PROVE Goal
    <2> DEFINE d == sending[w].id
               n == sending[w].attempts
    <2>1. d \in HookRows /\ sending[w].pc = "mark" /\ UNCHANGED viewing /\ Sends(w, "stamp") /\ n \in Nat
      BY <1>1, <1>11, SenderMoves DEF MarkDelivery, HooksInv, SenderHasRow
    <2>2. sending'[w].pc \notin Sending /\ sending[w].pc \in Sending /\ \A v \in HookSlots \ {w} : sending'[v] = sending[v]
      BY <2>1 DEF Sends, Sending
    <2>3. deliv' = MarkDeliverySuccess(d) \/ deliv' = MarkDeliveryFailure(d, n)
      BY <1>11 DEF MarkDelivery
    <2>4. CASE ~StoredRow(d)
      <3>1. UNCHANGED deliv
        BY <2>3, <2>4 DEF MarkDeliverySuccess, MarkDeliveryFailure
      <3> QED
        BY <1>8, <2>1, <2>2, <2>4, <3>1
    <2>5. CASE StoredRow(d)
      <3>1. CASE deliv' = MarkDeliverySuccess(d)
        <4>1. Rewrites({d}, "succeeded") /\ TriesKept
          BY <1>1, <2>1, <2>5, <3>1, ResultRewrites
        <4> QED
          BY <1>8, <2>1, <2>2, <2>5, <4>1
      <3>2. CASE deliv' = MarkDeliveryFailure(d, n) /\ n >= HookBudget(d)
        <4>1. Rewrites({d}, "failed") /\ TriesKept
          BY <1>1, <2>1, <2>5, <3>2, ResultRewrites
        <4> QED
          BY <1>8, <2>1, <2>2, <2>5, <4>1
      <3>3. CASE deliv' = MarkDeliveryFailure(d, n) /\ ~(n >= HookBudget(d))
        <4>1. Rewrites({d}, "pending") /\ TriesKept
          BY <1>1, <2>1, <2>5, <3>3, ResultRewrites
        <4>2. n < HookBudget(d)
          BY <1>1, <2>1, <3>3
        <4> QED
          BY <1>8, <2>1, <2>2, <2>5, <4>1, <4>2
      <3> QED
        BY <2>3, <3>1, <3>2, <3>3
    <2> QED
      BY <2>4, <2>5
  <1>12. ASSUME NEW w \in HookSlots, Stamp(w) PROVE Goal
    BY <1>1, <1>2, <1>12 DEF Stamp, FreeSender, Sending
  <1>13. ASSUME SweepDeliveries \/ SweepExhausted PROVE Goal
    <2>1. PICK S \in SUBSET StuckDeliveries :
            /\ TriesKept
            /\ \/ Rewrites(S, "pending") /\ \A i \in S : deliv[i].attempts < HookBudget(i)
               \/ Rewrites(S, "failed")
      <3>1. CASE SweepDeliveries
        BY <1>1, <3>1, SweepRewrites
      <3>2. CASE SweepExhausted
        BY <1>1, <3>2, SweepRewrites
      <3> QED
        BY <1>13, <3>1, <3>2
    <2>2. S \in SUBSET HookRows /\ \A i \in S : deliv[i].status = "running" /\ deliv[i].stale
      BY <2>1 DEF StuckDeliveries
    <2>3. DeliveryQueue!QueueNext
      BY <2>1, <2>2, DeliveryMoves
    <2>4. UNCHANGED <<sending, viewing>>
      BY <1>13 DEF SweepDeliveries, SweepExhausted
    <2>5. /\ \A w \in HookSlots : sending[w].pc \in Sending => sending[w].id \notin S
          /\ \A o \in HookOps : viewing'[o] \in HookRows => viewing'[o] = viewing[o] /\ viewing[o] \notin S
      BY <2>2, <2>4 DEF HooksInv, RowsHeld, RowHeld, RetryClosed, Closed
    <2>6. HooksInv'
      BY <1>3, <2>1, <2>2, <2>4, <2>5 DEF Rewrites, TriesKept
    <2> QED
      BY <2>3, <2>6
  <1>14. ASSUME NEW s \in Subs, DeleteSub(s) PROVE Goal
    <2> DEFINE S == {d \in HookRows : deliv[d].sub = s}
    <2>1. Rewrites(S, "gone") /\ TriesKept
      BY <1>1, <1>14, DeleteRewrites
    <2>2. \A i \in S : deliv[i].status # "none"
      BY <1>1 DEF HooksInv, UnusedUnowned
    <2>3. DeliveryQueue!QueueNext
      BY <2>1, <2>2, DeliveryMoves
    <2>4. UNCHANGED <<sending, viewing>>
      BY <1>14 DEF DeleteSub
    <2>5. \A i \in HookRows : deliv'[i] = deliv[i] \/ deliv'[i].status = "gone"
      BY <2>1 DEF Rewrites
    <2>6. RowsHeld' /\ OneSender'
      BY <2>4, <2>5 DEF HooksInv, RowsHeld, OneSender, RowHeld, SenderHasRow, Sending
    <2>7. TryLeft' /\ RetryClosed' /\ UnusedUnowned'
      BY <2>4, <2>5 DEF HooksInv, TryLeft, RetryClosed, UnusedUnowned
    <2> QED
      BY <1>0, <2>3, <2>6, <2>7 DEF HooksInv
  <1>15. ASSUME NEW o \in HookOps, RetryDelivery(o) PROVE Goal
    <2> DEFINE d == viewing[o]
    <2>1. d \in HookRows /\ UNCHANGED sending /\ \A p \in HookOps : viewing'[p] = NoDelivery
      BY <1>1, <1>15 DEF RetryDelivery, OneViewer
    <2>2. CASE ~StoredRow(d)
      BY <1>1, <1>2, <1>15, <2>1, <2>2 DEF RetryDelivery
    <2>3. CASE StoredRow(d)
      <3>1. deliv[d].status \in Closed
        BY <2>1, <2>3 DEF HooksInv, RetryClosed, StoredRow, Stored, Closed
      <3>2. Rewrites({d}, "pending") /\ deliv'[d].attempts = 0
        BY <1>1, <1>15, <2>1, <2>3, RetryRewrites DEF RetryDelivery
      <3>3. DeliveryQueue!QueueNext
        BY <2>1, <3>1, <3>2, DeliveryStarts
      <3>4. \A i \in HookRows : i \notin {d} => deliv'[i] = deliv[i]
        BY <3>2 DEF Rewrites
      <3>5. \A w \in HookSlots : sending[w].pc \in Sending => sending[w].id \notin {d}
        BY <3>1 DEF HooksInv, RowsHeld, RowHeld, Closed
      <3>6. \A p \in HookOps : viewing'[p] \in HookRows => viewing'[p] = viewing[p] /\ viewing[p] \notin {d}
        BY <1>1, <2>1
      <3>7. \A i \in {d} : /\ deliv'[i].status # "none"
                           /\ deliv'[i].status = "pending" => deliv'[i].attempts < HookBudget(i)
        BY <1>1, <2>1, <3>2 DEF Rewrites
      <3>8. {d} \subseteq HookRows
        BY <2>1
      <3> HIDE DEF d
      <3>9. HooksInv'
        BY <1>3, <2>1, <3>4, <3>5, <3>6, <3>7, <3>8
      <3> QED
        BY <3>3, <3>9
    <2> QED
      BY <2>2, <2>3
  <1>16. ASSUME NEW d \in HookRows, BackoffOver(d) \/ DeliveryLeaseExpires(d) PROVE Goal
    <2>1. MarksDelivery(d) /\ UNCHANGED <<sending, viewing>>
      BY <1>1, <1>16, ClockMarksDelivery DEF BackoffOver, DeliveryLeaseExpires
    <2>2. TryLeft' /\ RetryClosed' /\ UnusedUnowned'
      BY <2>1 DEF MarksDelivery, HooksInv, TryLeft, RetryClosed, UnusedUnowned
    <2>3. RowsHeld' /\ OneSender'
      <3>1. CASE BackoffOver(d)
        <4>1. deliv'[d].stale = deliv[d].stale
          BY <1>1, <3>1, ClockMarksDelivery
        <4> QED
          BY <2>1, <4>1 DEF MarksDelivery, HooksInv, RowsHeld, OneSender, RowHeld, SenderHasRow, Sending
      <3>2. CASE DeliveryLeaseExpires(d)
        <4>1. \A w \in HookSlots : sending[w].pc \in Sending => sending[w].id \notin {d}
          BY <3>2 DEF DeliveryLeaseExpires, Sending
        <4>2. \A i \in HookRows : i \notin {d} => deliv'[i] = deliv[i]
          BY <2>1 DEF MarksDelivery
        <4> QED
          BY <2>1, <4>1, <4>2, HeldStay
      <3> QED
        BY <1>16, <3>1, <3>2
    <2> QED
      BY <1>0, <2>1, <2>2, <2>3, DeliveriesStutter DEF HooksInv, MarksDelivery, SameDeliveries
  <1>17. ASSUME \/ \E e \in HookEvents : Publish(e)
                \/ Receive \/ HooksBoot \/ UNCHANGED hooksVars
                \/ \E s \in Subs : CreateSub(s) \/ UpdateSub(s)
         PROVE  Goal
    <2>1. UNCHANGED <<deliv, sending, viewing>>
      BY <1>17 DEF Publish, Receive, HooksBoot, CreateSub, UpdateSub, hooksVars
    <2> QED
      BY <1>2, <2>1
  <1>18. ASSUME NEW o \in HookOps, ListDeliveries(o) PROVE Goal
    <2>1. UNCHANGED <<deliv, sending>>
          /\ \A p \in HookOps : viewing'[p] = viewing[p] \/ deliv[viewing'[p]].status \in Closed
      BY <1>1, <1>18 DEF ListDeliveries
    <2> QED
      BY <1>2, <2>1
  <1>19. ASSUME HooksCrash PROVE Goal
    BY <1>1, <1>2, <1>19 DEF HooksCrash, FreeSender, Sending
  <1> HIDE DEF Goal
  <1>20. Goal
    BY <1>5, <1>6, <1>7, <1>9, <1>10, <1>11, <1>12, <1>13, <1>14, <1>15, <1>16, <1>17, <1>18, <1>19
       DEF HooksNext, SendStep, create_webhook, update_webhook, delete_webhook, test_webhook,
           list_webhook_deliveries, retry_webhook_delivery
  <1> QED
    BY <1>20 DEF Goal

LEMMA InitHooksInv == HooksInit => HooksTypeOK /\ HooksInv /\ DeliveryQueue!QueueInit
  <1> SUFFICES ASSUME HooksInit PROVE HooksTypeOK /\ HooksInv /\ DeliveryQueue!QueueInit
    OBVIOUS
  <1>1. HooksTypeOK /\ SenderHasRow
    BY InitHooksTypes
  <1>2. \A w \in HookSlots : sending[w].pc \notin Sending
    BY DEF HooksInit, FreeSender, Sending
  <1>3. \A d \in HookRows : deliv[d].status = "none" /\ deliv[d].attempts = 0 /\ deliv[d].sub = NoSub
    BY DEF HooksInit, NoDelivRow
  <1>4. \A o \in HookOps : viewing[o] \notin HookRows
    BY HooksNames DEF HooksInit, HooksNames
  <1>5. DeliveryQueue!QueueInit
    BY <1>3 DEF DeliveryQueue!QueueInit
  <1> QED
    BY <1>1, <1>2, <1>3, <1>4, <1>5 DEF HooksInv, RowsHeld, OneSender, TryLeft, RetryClosed, UnusedUnowned

\* The deliveries table implements the abstract queue, although its rows are
\* removed under the sender's feet by a delete of the subscription.
THEOREM DeliveriesImplementQueue ==
  ASSUME OneViewer
  PROVE  HooksSpec => DeliveriesAreAQueue
  <1>1. HooksInit => HooksTypeOK /\ HooksInv /\ DeliveryQueue!QueueInit
    BY InitHooksInv
  <1>2. HooksTypeOK /\ HooksInv /\ [HooksNext]_hooksVars => HooksTypeOK' /\ HooksInv'
    BY NextHooksInv, NextHooksTypes DEF HooksInv
  <1>3. HooksTypeOK /\ HooksInv /\ [HooksNext]_hooksVars => [DeliveryQueue!QueueNext]_DeliveryQueue!queue
    BY NextHooksInv
  <1> QED
    BY <1>1, <1>2, <1>3, PTL DEF HooksSpec, DeliveriesAreAQueue, DeliveryQueue!QueueSpec

----------------------------------------------------------------------------
(* Cron: the next time, and the ways to write a schedule.                 *)

FireRows == [pc : {"free", "start", "run", "persist", "leave"}, id : CronIds \cup {NoRowYet}, row : Schedules]
UpsertRows == [pc : {"idle", "lookup", "insert", "inplace", "failed", "done"},
               name : CronNames \cup {Unnamed}, answer : CronIds \cup {NoRowYet}]

\* The next time exists for every expression and zone, is later than the time
\* it is asked for and no later than one period, and is a time of the
\* expression: among any p successive times one is a multiple of p.
LEMMA NextFireLater ==
  ASSUME NEW p \in Nat \ {0}, NEW z \in Nat, NEW t \in Nat
  PROVE  NextFire(p, z, t) \in t + 1 .. t + p /\ (NextFire(p, z, t) + z) % p = 0
  <1> DEFINE a == t + z
             u == t + (p - (a % p))
  <1>1. a \in Nat /\ a = p * (a \div p) + (a % p) /\ a % p \in 0 .. (p - 1) /\ a \div p \in Nat
    OBVIOUS
  <1>2. u \in t + 1 .. t + p
    BY <1>1
  <1>3. PICK q \in Nat : u + z = p * q
    <2>1. u + z = p * ((a \div p) + 1)
      BY <1>1
    <2>2. (a \div p) + 1 \in Nat
      BY <1>1
    <2> HIDE DEF u, a
    <2> QED
      BY <2>1, <2>2
  <1>4. \A n \in Nat : (p * n) % p = 0
    OBVIOUS
  <1>5. (u + z) % p = 0
    <2> HIDE DEF u
    <2> QED
      BY <1>3, <1>4
  <1> HIDE DEF u
  <1> QED
    BY <1>2, <1>5 DEF NextFire

\* What that means for the model: a computed next_run_at is not NULL.
LEMMA NextFireSet ==
  ASSUME now \in 0 .. Horizon, NEW p \in Periods, NEW z \in Zones
  PROVE  NextFire(p, z, now) \in Nat /\ NextFire(p, z, now) # Never
  <1>1. p \in Nat \ {0} /\ z \in Nat /\ now \in Nat
    BY CronAssumption DEF CronAssumption
  <1>2. NextFire(p, z, now) \in now + 1 .. now + p
    BY <1>1, NextFireLater
  <1> HIDE DEF NextFire
  <1> QED
    BY <1>1, <1>2 DEF Never

LEMMA BlankIsRow == Blank \in Schedules /\ NoUpsert \in UpsertRows /\ Stopped \in FireRows
  <1>1. (CHOOSE p \in Periods : TRUE) \in Periods /\ 0 \in Zones
    BY CronAssumption DEF CronAssumption
  <1>2. Blank \in Schedules
    BY <1>1 DEF Blank, Schedules, Never
  <1> QED
    BY <1>2 DEF NoUpsert, UpsertRows, Stopped, FireRows

\* No two schedules of the function have one name.
OneRowPerName ==
  \A q, r \in Existing : cron[q].name = cron[r].name /\ cron[r].name # Unnamed => q = r

\* What every write of the table keeps: types, the names of rows that are or
\* were there, a next time for what is enabled, and unique names.
TableKept ==
  /\ cron' \in [CronIds -> Schedules]
  /\ \A r \in CronIds : cron[r].st # "none" => cron'[r].st # "none" /\ cron'[r].name = cron[r].name
  /\ EnabledHasNext' /\ OneRowPerName'

\* The writers that look for the row first.
LEMMA UpdateKeeps ==
  ASSUME cron \in [CronIds -> Schedules], EnabledHasNext, OneRowPerName, NEW r \in CronIds, NEW row \in Schedules,
         row.st \in {"on", "off"}, row.st = "on" => row.next # Never,
         row.name = cron[r].name, cron' = UpdateCronSchedule(r, row)
  PROVE  TableKept
  <1>1. CASE r \in Existing
    <2>1. cron' = [cron EXCEPT ![r] = row]
      BY <1>1 DEF UpdateCronSchedule
    <2>2. /\ cron' \in [CronIds -> Schedules] /\ cron'[r] = row
          /\ \A q \in CronIds \ {r} : cron'[q] = cron[q]
      BY <2>1
    <2>3. Existing' = Existing
      BY <1>1, <2>2 DEF Existing
    <2> QED
      BY <1>1, <2>2, <2>3 DEF TableKept, EnabledHasNext, OneRowPerName, Existing
  <1>2. CASE r \notin Existing
    BY <1>2 DEF UpdateCronSchedule, TableKept, EnabledHasNext, OneRowPerName, Existing
  <1> QED
    BY <1>1, <1>2

LEMMA AfterRunKeeps ==
  ASSUME cron \in [CronIds -> Schedules], EnabledHasNext, OneRowPerName, NEW r \in CronIds, NEW n \in Nat,
         n # Never, cron' = UpdateCronAfterRun(r, n)
  PROVE  TableKept
  <1>1. CASE r \in Existing
    <2>1. cron[r] \in Schedules /\ cron' = [cron EXCEPT ![r].next = n]
      BY <1>1 DEF UpdateCronAfterRun
    <2>2. /\ cron'[r] = [cron[r] EXCEPT !.next = n]
          /\ \A q \in CronIds \ {r} : cron'[q] = cron[q]
      BY <2>1
    <2>3. cron'[r] \in Schedules /\ cron'[r].st = cron[r].st /\ cron'[r].name = cron[r].name /\ cron'[r].next = n
      BY <2>1, <2>2 DEF Schedules
    <2>4. cron' \in [CronIds -> Schedules]
      BY <2>1, <2>3
    <2>5. Existing' = Existing
      BY <2>2, <2>3 DEF Existing
    <2>6. \A q \in CronIds : cron'[q].name = cron[q].name /\ cron'[q].st = cron[q].st
      BY <2>2, <2>3
    <2>7. OneRowPerName'
      BY <2>5, <2>6 DEF OneRowPerName, Existing
    <2>8. EnabledHasNext'
      BY <2>2, <2>3 DEF EnabledHasNext
    <2> QED
      BY <2>4, <2>6, <2>7, <2>8 DEF TableKept
  <1>2. CASE r \notin Existing
    BY <1>2 DEF UpdateCronAfterRun, TableKept, EnabledHasNext, OneRowPerName, Existing
  <1> QED
    BY <1>1, <1>2

LEMMA InsertKeeps ==
  ASSUME cron \in [CronIds -> Schedules], EnabledHasNext, OneRowPerName, now \in 0 .. Horizon,
         NEW r \in CronIds, NEW p \in Periods, NEW z \in Zones, NEW on \in BOOLEAN,
         NEW n \in CronNames \cup {Unnamed}, n = Unnamed \/ ~NameTaken(n),
         InsertCronSchedule(r, NewSchedule(p, z, on, n))
  PROVE  TableKept /\ cron'[r].st # "none" /\ cron'[r].name = n
  <1> DEFINE row == NewSchedule(p, z, on, n)
  <1>1. NextFire(p, z, now) \in Nat /\ NextFire(p, z, now) # Never
    BY NextFireSet
  <1>2. row \in Schedules /\ row.st \in {"on", "off"} /\ row.next # Never /\ row.name = n
    BY <1>1 DEF NewSchedule, Schedules
  <1> HIDE DEF row
  <1>3. /\ cron[r].st = "none" /\ cron' \in [CronIds -> Schedules] /\ cron'[r] = row
        /\ \A q \in CronIds \ {r} : cron'[q] = cron[q]
    BY <1>2 DEF InsertCronSchedule, row
  <1>4. Existing' = Existing \cup {r}
    BY <1>2, <1>3 DEF Existing
  <1>5. n # Unnamed => \A q \in Existing : cron[q].name # n
    BY DEF NameTaken, Named
  <1>6. OneRowPerName'
    BY <1>2, <1>3, <1>4, <1>5 DEF OneRowPerName, Existing
  <1>7. EnabledHasNext'
    BY <1>2, <1>3 DEF EnabledHasNext
  <1> QED
    BY <1>2, <1>3, <1>6, <1>7 DEF TableKept

LEMMA DeleteKeeps ==
  ASSUME cron \in [CronIds -> Schedules], EnabledHasNext, OneRowPerName, NEW r \in CronIds,
         cron' = DeleteCronSchedule(r)
  PROVE  TableKept
  <1>1. cron[r] \in Schedules
    OBVIOUS
  <1>2. cron'[r] = [cron[r] EXCEPT !.st = "gone"] /\ \A q \in CronIds \ {r} : cron'[q] = cron[q]
    BY <1>1 DEF DeleteCronSchedule
  <1>3. cron'[r] \in Schedules /\ cron'[r].st = "gone" /\ cron'[r].name = cron[r].name
    BY <1>1, <1>2 DEF Schedules
  <1>4. cron' \in [CronIds -> Schedules]
    BY <1>1, <1>3 DEF DeleteCronSchedule
  <1>5. Existing' = Existing \ {r}
    BY <1>2, <1>3 DEF Existing
  <1>6. OneRowPerName'
    BY <1>2, <1>3, <1>5 DEF OneRowPerName, Existing
  <1>7. EnabledHasNext'
    BY <1>2, <1>3 DEF EnabledHasNext
  <1> QED
    BY <1>2, <1>3, <1>4, <1>6, <1>7 DEF TableKept

----------------------------------------------------------------------------
(* Cron: the invariant.                                                   *)

\* A copy of a row was read from a row that is or was there and has its name,
\* and an enabled copy has a next time.
CopyOf(c) == c.id \in CronIds /\ cron[c.id].st # "none" /\ cron[c.id].name = c.row.name
CopiesTrue ==
  /\ \A c \in boot : CopyOf(c)
  /\ \A e \in Editors : edit[e] # NoEdit =>
       CopyOf(edit[e]) /\ (edit[e].row.st = "on" => edit[e].row.next # Never)

\* A goroutine has a row, a free one has none, and past its first step it has
\* computed the next time.
FiresHold ==
  \A f \in Fires : /\ fire[f].id \in CronIds <=> fire[f].pc # "free"
                   /\ fire[f].pc \in {"run", "persist", "leave"} => fire[f].row.next # Never

\* An upsert under way is for a name, and its answer is a row of that name.
AnswersNamed ==
  \A u \in Upserters :
    /\ upsert[u].pc \in {"lookup", "insert", "failed", "inplace"} => upsert[u].name \in CronNames
    /\ upsert[u].pc = "inplace" => upsert[u].answer \in CronIds
    /\ upsert[u].answer \in CronIds =>
         /\ upsert[u].pc \in {"inplace", "done"} /\ upsert[u].name \in CronNames
         /\ cron[upsert[u].answer].st # "none" /\ cron[upsert[u].answer].name = upsert[u].name

CronInv == CopiesTrue /\ FiresHold /\ NoOverlap /\ EnabledHasNext /\ OneRowPerName /\ AnswersNamed

\* What CronTypeOK says, with the records named.
LEMMA CronTypes ==
  CronTypeOK <=> /\ now \in 0 .. Horizon /\ cron \in [CronIds -> Schedules] /\ due \subseteq Copies
                 /\ inflight \subseteq CronIds /\ fire \in [Fires -> FireRows] /\ boot \subseteq Copies
                 /\ edit \in [Editors -> Copies \cup {NoEdit}] /\ upsert \in [Upserters -> UpsertRows]
                 /\ cronUp \in BOOLEAN /\ cronCalls \in 0 .. MaxCronCalls
  BY DEF CronTypeOK, FireRows, UpsertRows

LEMMA InitCronInv == CronInit => CronTypeOK /\ CronInv
  <1> SUFFICES ASSUME CronInit PROVE CronTypeOK /\ CronInv
    OBVIOUS
  <1>1. Horizon \in Nat /\ MaxCronCalls \in Nat /\ NoRowYet \notin CronIds
    BY CronAssumption, CronNamesAssumption DEF CronAssumption, CronNamesAssumption
  <1>2. /\ cron = [r \in CronIds |-> Blank] /\ now = 0 /\ due = {} /\ inflight = {} /\ boot = {}
        /\ fire = [f \in Fires |-> Stopped] /\ edit = [e \in Editors |-> NoEdit]
        /\ upsert = [u \in Upserters |-> NoUpsert] /\ cronUp = TRUE /\ cronCalls = 0
    BY DEF CronInit, CronStart
  <1>3. CronTypeOK
    BY <1>1, <1>2, BlankIsRow, CronTypes
  <1>4. /\ \A r \in CronIds : cron[r].st = "none"
        /\ \A f \in Fires : fire[f].pc = "free" /\ fire[f].id \notin CronIds
        /\ \A u \in Upserters : upsert[u].pc = "idle" /\ upsert[u].answer \notin CronIds
    BY <1>1, <1>2 DEF Blank, Stopped, NoUpsert
  <1>5. CopiesTrue /\ FiresHold /\ AnswersNamed /\ EnabledHasNext
    BY <1>2, <1>4 DEF CopiesTrue, FiresHold, AnswersNamed, EnabledHasNext
  <1>6. OneRowPerName
    BY <1>4 DEF OneRowPerName, Existing
  <1>7. NoOverlap
    BY <1>2, <1>4 DEF NoOverlap
  <1> QED
    BY <1>3, <1>5, <1>6, <1>7 DEF CronInv

\* The rows the updates write.
LEMMA EditedRow ==
  ASSUME now \in 0 .. Horizon, NEW row \in Schedules, row.st = "on" => row.next # Never,
         NEW p \in Periods, NEW z \in Zones, NEW on \in BOOLEAN
  PROVE  LET new == Edited(row, p, z, on)
         IN  /\ new \in Schedules /\ new.st \in {"on", "off"} /\ new.name = row.name
             /\ new.st = "on" => new.next # Never
  <1> DEFINE new == Edited(row, p, z, on)
             n == IF (p # row.period \/ z # row.zone) \/ (on /\ ~(row.st = "on"))
                  THEN NextFire(p, z, now) ELSE row.next
             s == IF on THEN "on" ELSE "off"
  <1>1. NextFire(p, z, now) \in Nat /\ NextFire(p, z, now) # Never
    BY NextFireSet
  <1>2. n \in Nat /\ (on => n # Never)
    BY <1>1 DEF Schedules
  <1>3. s \in {"on", "off"} /\ (s = "on" => on)
    OBVIOUS
  <1>4. new = [row EXCEPT !.st = s, !.period = p, !.zone = z, !.next = n]
    BY DEF Edited
  <1> HIDE DEF new, n, s
  <1>5. new = [st |-> s, period |-> p, zone |-> z, next |-> n, name |-> row.name]
    BY <1>4 DEF Schedules
  <1>6. new \in Schedules /\ new.st = s /\ new.name = row.name /\ new.next = n
    BY <1>2, <1>3, <1>5 DEF Schedules
  <1>7. new \in Schedules /\ new.st \in {"on", "off"} /\ new.name = row.name /\ (new.st = "on" => new.next # Never)
    BY <1>2, <1>3, <1>6
  <1> QED
    BY <1>7 DEF new

LEMMA NextCronInv ==
  ASSUME CronTypeOK, CronInv, [CronNext]_cronVars
  PROVE  CronTypeOK' /\ CronInv'
  <1>1. /\ now \in 0 .. Horizon /\ cron \in [CronIds -> Schedules] /\ due \subseteq Copies
        /\ inflight \subseteq CronIds /\ fire \in [Fires -> FireRows] /\ boot \subseteq Copies
        /\ edit \in [Editors -> Copies \cup {NoEdit}] /\ upsert \in [Upserters -> UpsertRows]
        /\ cronUp \in BOOLEAN /\ cronCalls \in 0 .. MaxCronCalls
    BY CronTypes
  <1>2. CopiesTrue /\ FiresHold /\ NoOverlap /\ EnabledHasNext /\ OneRowPerName /\ AnswersNamed
    BY DEF CronInv
  <1>3. /\ Horizon \in Nat /\ MaxCronCalls \in Nat /\ NoRowYet \notin CronIds /\ Unnamed \notin CronNames
        /\ 0 \in Zones /\ 0 \in Nat
    BY CronAssumption, CronNamesAssumption DEF CronAssumption, CronNamesAssumption
  <1>4. \A kind : CronCall(kind) => cronCalls' \in 0 .. MaxCronCalls
    BY <1>1, <1>3 DEF CronCall
  \* The parts, primed.
  <1> DEFINE Rows == cron' \in [CronIds -> Schedules] /\ EnabledHasNext' /\ OneRowPerName'
             Held == /\ inflight' \subseteq CronIds /\ fire' \in [Fires -> FireRows] /\ FiresHold' /\ NoOverlap'
             Read == /\ due' \subseteq Copies /\ boot' \subseteq Copies
                     /\ edit' \in [Editors -> Copies \cup {NoEdit}] /\ CopiesTrue'
             Named2 == upsert' \in [Upserters -> UpsertRows] /\ AnswersNamed'
             Rest == now' \in 0 .. Horizon /\ cronUp' \in BOOLEAN /\ cronCalls' \in 0 .. MaxCronCalls
             OK == Rows /\ Held /\ Read /\ Named2 /\ Rest
  <1>5. OK => CronTypeOK' /\ CronInv'
    BY DEF CronTypeOK, FireRows, UpsertRows, CronInv
  <1>6. UNCHANGED cron => TableKept
    BY <1>1, <1>2 DEF TableKept, EnabledHasNext, OneRowPerName, Existing
  <1>7. TableKept => Rows
    BY DEF TableKept
  <1>8. UNCHANGED <<inflight, fire>> => Held
    BY <1>1, <1>2 DEF FiresHold, NoOverlap
  <1>9. ASSUME TableKept, due' \subseteq due, boot' \subseteq boot, edit' \in [Editors -> Copies \cup {NoEdit}],
               \A e \in Editors : edit'[e] = edit[e] \/ edit'[e] = NoEdit
        PROVE  Read
    <2>1. \A c \in boot : CopyOf(c)'
      BY <1>2, <1>9 DEF CopiesTrue, CopyOf, TableKept
    <2> QED
      BY <1>1, <1>2, <1>9, <2>1 DEF CopiesTrue, CopyOf, TableKept
  <1>10. TableKept /\ UNCHANGED upsert => Named2
    BY <1>1, <1>2 DEF AnswersNamed, TableKept
  <1> HIDE DEF Rows, Held, Read, Named2
  <1>11. ASSUME CronTick PROVE OK
    <2>1. due' \subseteq Copies
      BY <1>1, <1>11 DEF CronTick, DueCronSchedules, ListAllCronSchedules, Existing, Copies
    <2>2. UNCHANGED <<now, cron, inflight, fire, boot, edit, upsert, cronUp, cronCalls>>
      BY <1>11 DEF CronTick
    <2>3. Read
      BY <1>1, <1>2, <2>1, <2>2 DEF Read, CopiesTrue, CopyOf
    <2> QED
      BY <1>1, <1>6, <1>7, <1>8, <1>10, <2>2, <2>3
  <1>12. ASSUME NEW c \in due, CronDispatch(c) PROVE OK
    <2>1. c.id \in CronIds /\ c.row \in Schedules
      BY <1>1 DEF Copies
    <2>2. UNCHANGED <<now, cron, boot, edit, upsert, cronUp, cronCalls>> /\ due' \subseteq due
      BY <1>12 DEF CronDispatch
    <2>3. Held
      <3>1. CASE UNCHANGED <<inflight, fire>>
        BY <1>8, <3>1
      <3>2. ASSUME NEW f \in Fires, c.id \notin inflight, inflight' = inflight \cup {c.id}, fire[f].pc = "free",
                   fire' = [fire EXCEPT ![f] = [pc |-> "start", id |-> c.id, row |-> c.row]]
            PROVE  Held
        <4>1. /\ fire' \in [Fires -> FireRows] /\ fire'[f].pc = "start" /\ fire'[f].id = c.id
              /\ \A g \in Fires \ {f} : fire'[g] = fire[g]
          BY <1>1, <2>1, <3>2 DEF FireRows
        <4>2. FiresHold'
          BY <1>2, <2>1, <4>1 DEF FiresHold
        <4>3. \A g \in Fires \ {f} : fire[g].id # c.id
          BY <1>2, <2>1, <3>2 DEF FiresHold, NoOverlap
        <4>4. \A g, h \in Fires : (g # h /\ fire'[g].pc # "free") => fire'[g].id # fire'[h].id
          BY <1>2, <4>1, <4>3 DEF NoOverlap
        <4>5. {fire'[g].id : g \in {h \in Fires : fire'[h].pc # "free"}} = inflight'
          BY <1>2, <3>2, <4>1 DEF NoOverlap
        <4> QED
          BY <1>1, <2>1, <3>2, <4>1, <4>2, <4>4, <4>5 DEF Held, NoOverlap
      <3> QED
        BY <1>12, <3>1, <3>2 DEF CronDispatch, Busy
    <2>4. Read
      BY <1>1, <1>6, <1>9, <2>2
    <2> QED
      BY <1>1, <1>6, <1>7, <1>10, <2>2, <2>3, <2>4
  \* A goroutine moves on with the row it has.
  <1>13. ASSUME NEW f \in Fires, fire[f].pc # "free", UNCHANGED inflight, fire' \in [Fires -> FireRows],
                fire'[f].id = fire[f].id, fire'[f].pc \in {"run", "persist", "leave"}, fire'[f].row.next # Never,
                \A g \in Fires \ {f} : fire'[g] = fire[g]
         PROVE  Held
    <2>1. FiresHold'
      BY <1>2, <1>13 DEF FiresHold
    <2>2. \A g \in Fires : fire'[g].id = fire[g].id /\ (fire'[g].pc # "free" <=> fire[g].pc # "free")
      BY <1>13
    <2>3. NoOverlap'
      <3>1. \A g, h \in Fires : (g # h /\ fire'[g].pc # "free") => fire'[g].id # fire'[h].id
        BY <1>2, <2>2 DEF NoOverlap
      <3>2. {fire'[g].id : g \in {h \in Fires : fire'[h].pc # "free"}} = inflight'
        BY <1>2, <1>13, <2>2 DEF NoOverlap
      <3> QED
        BY <3>1, <3>2 DEF NoOverlap
    <2> QED
      BY <1>1, <1>13, <2>1, <2>3 DEF Held
  <1>14. ASSUME NEW f \in Fires, FireStart(f) PROVE OK
    <2> DEFINE n == NextFire(fire[f].row.period, fire[f].row.zone, now)
    <2>1. fire[f] \in FireRows /\ fire[f].row \in Schedules
      BY <1>1 DEF FireRows
    <2>2. n \in Nat /\ n # Never
      BY <1>1, <2>1, NextFireSet DEF Schedules
    <2>3. PICK pc \in {"run", "persist"} : fire' = [fire EXCEPT ![f].pc = pc, ![f].row.next = n]
      BY <1>14 DEF FireStart
    <2> HIDE DEF n
    <2>4. /\ fire'[f] = [pc |-> pc, id |-> fire[f].id, row |-> [fire[f].row EXCEPT !.next = n]]
          /\ \A g \in Fires \ {f} : fire'[g] = fire[g]
      BY <1>1, <2>1, <2>3 DEF FireRows
    <2>5. [fire[f].row EXCEPT !.next = n] \in Schedules /\ [fire[f].row EXCEPT !.next = n].next = n
      BY <2>1, <2>2 DEF Schedules
    <2>6. fire'[f] \in FireRows /\ fire'[f].id = fire[f].id /\ fire'[f].pc = pc /\ fire'[f].row.next = n
      <3> DEFINE new == [fire[f].row EXCEPT !.next = n]
      <3>1. new \in Schedules /\ new.next = n /\ fire'[f] = [pc |-> pc, id |-> fire[f].id, row |-> new]
        BY <2>4, <2>5
      <3> HIDE DEF new
      <3> QED
        BY <2>1, <3>1 DEF FireRows
    <2>7. DOMAIN fire' = Fires /\ fire' = [x \in DOMAIN fire' |-> fire'[x]]
      BY <1>1, <2>3
    <2>8. fire' \in [Fires -> FireRows]
      BY <1>1, <2>4, <2>6, <2>7
    <2>9. UNCHANGED <<now, cron, due, inflight, boot, edit, upsert, cronUp, cronCalls>> /\ fire[f].pc = "start"
      BY <1>14 DEF FireStart
    <2>10. Held
      BY <1>13, <2>2, <2>4, <2>6, <2>8, <2>9
    <2> QED
      BY <1>1, <1>6, <1>7, <1>9, <1>10, <2>9, <2>10
  <1>15. ASSUME NEW f \in Fires, FireRun(f) \/ FirePersist(f) PROVE OK
    <2>1. PICK pc \in {"persist", "leave"} : fire' = [fire EXCEPT ![f].pc = pc]
      BY <1>15 DEF FireRun, FirePersist
    <2>2. /\ fire[f] \in FireRows /\ fire[f].row.next # Never /\ fire[f].id \in CronIds /\ fire[f].row.next \in Nat
          /\ fire[f].pc # "free"
      BY <1>1, <1>2, <1>15 DEF FiresHold, FireRun, FirePersist, FireRows, Schedules
    <2>3. /\ fire' \in [Fires -> FireRows] /\ fire'[f].id = fire[f].id /\ fire'[f].pc = pc
          /\ fire'[f].row = fire[f].row /\ \A g \in Fires \ {f} : fire'[g] = fire[g]
      BY <1>1, <2>1, <2>2 DEF FireRows
    <2>4. UNCHANGED <<now, due, inflight, boot, edit, upsert, cronUp, cronCalls>>
      BY <1>15 DEF FireRun, FirePersist
    <2>5. Held
      BY <1>13, <2>2, <2>3, <2>4
    <2>6. TableKept
      <3>1. CASE UNCHANGED cron
        BY <1>6, <3>1
      <3>2. CASE cron' = UpdateCronAfterRun(fire[f].id, fire[f].row.next)
        BY <1>1, <1>2, <2>2, <3>2, AfterRunKeeps
      <3> QED
        BY <1>15, <3>1, <3>2 DEF FireRun, FirePersist
    <2> QED
      BY <1>1, <1>7, <1>9, <1>10, <2>4, <2>5, <2>6
  <1>16. ASSUME NEW f \in Fires, FireLeave(f) PROVE OK
    <2>1. /\ UNCHANGED <<now, cron, due, boot, edit, upsert, cronUp, cronCalls>> /\ fire[f].pc = "leave"
          /\ inflight' = inflight \ {fire[f].id} /\ fire' = [fire EXCEPT ![f] = Stopped]
      BY <1>16 DEF FireLeave
    <2>2. /\ fire' \in [Fires -> FireRows] /\ fire'[f].pc = "free" /\ fire'[f].id = NoRowYet
          /\ \A g \in Fires \ {f} : fire'[g] = fire[g]
      BY <1>1, <2>1, BlankIsRow DEF Stopped
    <2>3. FiresHold'
      BY <1>2, <1>3, <2>2 DEF FiresHold
    <2>4. \A g, h \in Fires : (g # h /\ fire'[g].pc # "free") => fire'[g].id # fire'[h].id
      BY <1>2, <1>3, <2>2 DEF NoOverlap, FiresHold
    <2>5. {fire'[g].id : g \in {h \in Fires : fire'[h].pc # "free"}} = inflight'
      BY <1>2, <2>1, <2>2 DEF NoOverlap
    <2>6. Held
      BY <1>1, <2>1, <2>2, <2>3, <2>4, <2>5 DEF Held, NoOverlap
    <2> QED
      BY <1>1, <1>6, <1>7, <1>9, <1>10, <2>1, <2>6
  <1>17. ASSUME Clock \/ UNCHANGED cronVars PROVE OK
    <2>1. UNCHANGED <<cron, due, inflight, fire, boot, edit, upsert, cronUp, cronCalls>> /\ now' \in 0 .. Horizon
      BY <1>1, <1>3, <1>17 DEF Clock, cronVars
    <2> QED
      BY <1>1, <1>6, <1>7, <1>8, <1>9, <1>10, <2>1
  <1>18. ASSUME CronCrash PROVE OK
    <2>1. /\ due' = {} /\ inflight' = {} /\ boot' = {} /\ fire' = [f \in Fires |-> Stopped]
          /\ edit' = [e \in Editors |-> NoEdit] /\ UNCHANGED <<now, cron>> /\ cronUp' = FALSE
      BY <1>18 DEF CronCrash
    <2>2. fire' \in [Fires -> FireRows] /\ \A f \in Fires : fire'[f].pc = "free" /\ fire'[f].id = NoRowYet
      BY <2>1, BlankIsRow DEF Stopped
    <2>3. FiresHold' /\ NoOverlap'
      BY <1>3, <2>1, <2>2 DEF FiresHold, NoOverlap
    <2>4. Held
      BY <2>1, <2>2, <2>3 DEF Held
    <2>5. Read
      BY <1>6, <1>9, <2>1
    <2>6. Named2
      <3>1. \A u \in Upserters : \/ upsert'[u] = upsert[u]
                                 \/ upsert'[u] = [upsert[u] EXCEPT !.pc = "done"]
        BY <1>18 DEF CronCrash
      <3>2. \A u \in Upserters :
              \/ upsert'[u] = upsert[u]
              \/ /\ upsert'[u] \in UpsertRows /\ upsert'[u].pc = "done" /\ upsert'[u].name = upsert[u].name
                 /\ upsert'[u].answer = upsert[u].answer
        <4> SUFFICES ASSUME NEW u \in Upserters, upsert'[u] = [upsert[u] EXCEPT !.pc = "done"]
                     PROVE  /\ upsert'[u] \in UpsertRows /\ upsert'[u].pc = "done"
                            /\ upsert'[u].name = upsert[u].name /\ upsert'[u].answer = upsert[u].answer
          BY <3>1
        <4>1. upsert[u] \in UpsertRows
          BY <1>1
        <4> QED
          BY <4>1 DEF UpsertRows
      <3>3. upsert' \in [Upserters -> UpsertRows]
        <4>1. DOMAIN upsert' = Upserters /\ upsert' = [x \in DOMAIN upsert' |-> upsert'[x]]
          BY <1>18 DEF CronCrash
        <4> QED
          BY <1>1, <3>2, <4>1
      <3>4. AnswersNamed'
        BY <1>2, <2>1, <3>2 DEF AnswersNamed
      <3> QED
        BY <3>3, <3>4 DEF Named2
    <2> QED
      BY <1>1, <1>4, <1>6, <1>7, <1>18, <2>1, <2>4, <2>5, <2>6 DEF CronCrash
  <1>19. ASSUME CronBoot PROVE OK
    <2>1. UNCHANGED <<now, cron, due, inflight, fire, edit, upsert, cronCalls>> /\ cronUp' = TRUE
          /\ boot' = ListAllCronSchedules
      BY <1>19 DEF CronBoot
    <2>2. boot' \subseteq Copies /\ \A c \in boot' : CopyOf(c)
      BY <1>1, <2>1 DEF ListAllCronSchedules, Existing, Copies, CopyOf
    <2>3. Read
      BY <1>1, <1>2, <2>1, <2>2 DEF Read, CopiesTrue, CopyOf
    <2> QED
      BY <1>1, <1>6, <1>7, <1>8, <1>10, <2>1, <2>3
  <1>20. ASSUME NEW c \in boot, RecomputeNextRunOnBoot(c) PROVE OK
    <2>1. c.id \in CronIds /\ c.row \in Schedules /\ c.row.name = cron[c.id].name
      BY <1>1, <1>2 DEF Copies, CopiesTrue, CopyOf
    <2>2. UNCHANGED <<now, due, inflight, fire, edit, upsert, cronUp, cronCalls>> /\ boot' \subseteq boot
      BY <1>20 DEF RecomputeNextRunOnBoot
    <2>3. TableKept
      <3>1. CASE UNCHANGED cron
        BY <1>6, <3>1
      <3>2. CASE c.row.st = "on" /\ cron' = UpdateCronSchedule(c.id, [c.row EXCEPT
                                               !.next = NextFire(c.row.period, c.row.zone, now)])
        <4> DEFINE n == NextFire(c.row.period, c.row.zone, now)
                   new == [c.row EXCEPT !.next = n]
        <4>1. n \in Nat /\ n # Never
          BY <1>1, <2>1, NextFireSet DEF Schedules
        <4> HIDE DEF n
        <4>2. new \in Schedules /\ new.st = "on" /\ new.name = c.row.name /\ new.next # Never
          BY <2>1, <3>2, <4>1 DEF Schedules
        <4>3. cron' = UpdateCronSchedule(c.id, new)
          BY <3>2 DEF n
        <4> HIDE DEF new
        <4> QED
          BY <1>1, <1>2, <2>1, <4>2, <4>3, UpdateKeeps
      <3> QED
        BY <1>20, <3>1, <3>2 DEF RecomputeNextRunOnBoot
    <2> QED
      BY <1>1, <1>7, <1>8, <1>9, <1>10, <2>2, <2>3
  <1>21. ASSUME NEW r \in CronIds, NEW p \in Periods, NEW z \in Zones, NEW on \in BOOLEAN, Create(r, p, z, on)
         PROVE  OK
    <2>1. TableKept
      BY <1>1, <1>2, <1>21, InsertKeeps DEF Create
    <2> QED
      BY <1>1, <1>4, <1>7, <1>8, <1>9, <1>10, <1>21, <2>1 DEF Create
  <1>22. ASSUME NEW r \in CronIds, NEW p \in Periods, NEW on \in BOOLEAN, update_cron_schedule(r, p, on)
         PROVE  OK
    <2> DEFINE row == cron[r]
               s == IF on THEN "on" ELSE "off"
               n == IF p # row.period \/ on THEN NextFire(p, 0, now) ELSE row.next
               new == [row EXCEPT !.st = s, !.period = p, !.next = n]
    <2>1. row \in Schedules /\ row.next \in Nat
      BY <1>1 DEF Schedules
    <2>2. NextFire(p, 0, now) \in Nat /\ NextFire(p, 0, now) # Never
      BY <1>1, <1>3, NextFireSet
    <2>3. n \in Nat /\ (s = "on" => n # Never) /\ s \in {"on", "off"}
      BY <2>1, <2>2
    <2>4. cron' = UpdateCronSchedule(r, new)
      BY <1>22 DEF update_cron_schedule
    <2>5. new = [row EXCEPT !.st = s, !.period = p, !.next = n]
      OBVIOUS
    <2> HIDE DEF new, n, s
    <2>6. new \in Schedules /\ new.st \in {"on", "off"} /\ new.name = row.name /\ (new.st = "on" => new.next # Never)
      <3>1. new = [st |-> s, period |-> p, zone |-> row.zone, next |-> n, name |-> row.name]
        BY <2>1, <2>5 DEF Schedules
      <3> QED
        BY <2>1, <2>3, <3>1 DEF Schedules
    <2>7. TableKept
      BY <1>1, <1>2, <2>4, <2>6, UpdateKeeps
    <2> QED
      BY <1>1, <1>4, <1>7, <1>8, <1>9, <1>10, <1>22, <2>7 DEF update_cron_schedule
  <1>23. ASSUME NEW e \in Editors, NEW p \in Periods, NEW z \in Zones, NEW on \in BOOLEAN, Update(e, p, z, on)
         PROVE  OK
    <2>1. /\ edit[e] # NoEdit /\ cron' = UpdateCronSchedule(edit[e].id, Edited(edit[e].row, p, z, on))
          /\ edit' = [edit EXCEPT ![e] = NoEdit]
          /\ UNCHANGED <<now, due, inflight, fire, boot, upsert, cronUp, cronCalls>>
      BY <1>23 DEF Update
    <2>2. edit[e] \in Copies /\ CopyOf(edit[e]) /\ (edit[e].row.st = "on" => edit[e].row.next # Never)
      BY <1>1, <1>2, <2>1 DEF CopiesTrue
    <2>3. /\ edit[e].id \in CronIds /\ edit[e].row \in Schedules /\ edit[e].row.name = cron[edit[e].id].name
      BY <2>2 DEF Copies, CopyOf
    <2> DEFINE new == Edited(edit[e].row, p, z, on)
    <2>4. new \in Schedules /\ new.st \in {"on", "off"} /\ new.name = edit[e].row.name /\ (new.st = "on" => new.next # Never)
      BY <1>1, <2>2, <2>3, EditedRow
    <2> HIDE DEF new
    <2>5. TableKept
      BY <1>1, <1>2, <2>1, <2>3, <2>4, UpdateKeeps DEF new
    <2>6. edit' \in [Editors -> Copies \cup {NoEdit}] /\ \A d \in Editors : edit'[d] = edit[d] \/ edit'[d] = NoEdit
      BY <1>1, <2>1
    <2> QED
      BY <1>1, <1>7, <1>8, <1>9, <1>10, <2>1, <2>5, <2>6
  <1>24. ASSUME NEW u \in Upserters, NEW p \in Periods, NEW on \in BOOLEAN, UpdateCronScheduleInPlace(u, p, on)
         PROVE  OK
    <2> DEFINE r == upsert[u].answer
               s == IF on THEN "on" ELSE "off"
               n == IF on THEN NextFire(p, 0, now) ELSE Never
               new == [cron[r] EXCEPT !.st = s, !.period = p, !.zone = 0, !.next = n]
    <2>1. r \in CronIds /\ upsert[u] \in UpsertRows
      BY <1>1, <1>2, <1>24 DEF UpdateCronScheduleInPlace, AnswersNamed
    <2>2. cron[r] \in Schedules
      BY <1>1, <2>1
    <2>3. NextFire(p, 0, now) \in Nat /\ NextFire(p, 0, now) # Never
      BY <1>1, <1>3, NextFireSet
    <2>4. n \in Nat /\ (s = "on" => n # Never) /\ s \in {"on", "off"}
      BY <2>3 DEF Never
    <2>5. cron' = UpdateCronSchedule(r, new)
      BY <1>24 DEF UpdateCronScheduleInPlace
    <2>6. new = [cron[r] EXCEPT !.st = s, !.period = p, !.zone = 0, !.next = n]
      OBVIOUS
    <2> HIDE DEF new, n, s
    <2>7. new \in Schedules /\ new.st \in {"on", "off"} /\ new.name = cron[r].name /\ (new.st = "on" => new.next # Never)
      <3>1. new = [st |-> s, period |-> p, zone |-> 0, next |-> n, name |-> cron[r].name]
        BY <2>2, <2>6 DEF Schedules
      <3> QED
        BY <1>3, <2>2, <2>4, <3>1 DEF Schedules
    <2>8. TableKept
      BY <1>1, <1>2, <2>1, <2>5, <2>7, UpdateKeeps
    <2>9. Named2
      <3>1. upsert' = [upsert EXCEPT ![u].pc = "done"]
        BY <1>24 DEF UpdateCronScheduleInPlace
      <3>2. /\ upsert' \in [Upserters -> UpsertRows] /\ upsert'[u].pc = "done" /\ upsert'[u].answer = upsert[u].answer
            /\ upsert'[u].name = upsert[u].name /\ \A v \in Upserters \ {u} : upsert'[v] = upsert[v]
        BY <1>1, <2>1, <3>1 DEF UpsertRows
      <3> QED
        BY <1>2, <2>8, <3>2 DEF Named2, AnswersNamed, TableKept
    <2> QED
      BY <1>1, <1>7, <1>8, <1>9, <1>24, <2>8, <2>9 DEF UpdateCronScheduleInPlace
  <1>25. ASSUME NEW e \in Editors, NEW r \in CronIds, UpdateRead(e, r) PROVE OK
    <2>1. /\ edit' = [edit EXCEPT ![e] = [id |-> r, row |-> cron[r]]] /\ r \in Existing
          /\ UNCHANGED <<now, cron, due, inflight, fire, boot, upsert, cronUp>> /\ cronCalls' \in 0 .. MaxCronCalls
      BY <1>4, <1>25 DEF UpdateRead, GetCronSchedule
    <2> DEFINE c == [id |-> r, row |-> cron[r]]
    <2>2. c \in Copies /\ c.id = r /\ c.row = cron[r]
      BY <1>1 DEF Copies
    <2> HIDE DEF c
    <2>3. CopyOf(c) /\ (c.row.st = "on" => c.row.next # Never)
      BY <1>2, <2>1, <2>2 DEF CopyOf, Existing, EnabledHasNext
    <2>4. /\ edit' \in [Editors -> Copies \cup {NoEdit}] /\ edit'[e] = c
          /\ \A d \in Editors \ {e} : edit'[d] = edit[d]
      BY <1>1, <2>1, <2>2 DEF c
    <2>5. CopiesTrue'
      BY <1>2, <2>1, <2>3, <2>4 DEF CopiesTrue, CopyOf
    <2>6. Read
      BY <1>1, <2>1, <2>4, <2>5 DEF Read
    <2> QED
      BY <1>1, <1>6, <1>7, <1>8, <1>10, <2>1, <2>6
  <1>26. ASSUME NEW r \in CronIds, CronDelete(r) PROVE OK
    <2>1. TableKept
      BY <1>1, <1>2, <1>26, DeleteKeeps DEF CronDelete
    <2> QED
      BY <1>1, <1>4, <1>7, <1>8, <1>9, <1>10, <1>26, <2>1 DEF CronDelete
  <1>27. ASSUME NEW u \in Upserters, NEW n \in CronNames, UpsertInternal(u, n) PROVE OK
    <2>1. PICK pc \in {"done", "lookup"} : upsert' = [upsert EXCEPT ![u].name = n, ![u].pc = pc]
      BY <1>27 DEF UpsertInternal
    <2>2. UNCHANGED <<now, cron, due, inflight, fire, boot, edit, cronUp, cronCalls>> /\ upsert[u].pc = "idle"
      BY <1>27 DEF UpsertInternal
    <2>3. /\ upsert' \in [Upserters -> UpsertRows] /\ upsert'[u].pc = pc /\ upsert'[u].answer = upsert[u].answer
          /\ upsert'[u].name = n /\ \A v \in Upserters \ {u} : upsert'[v] = upsert[v]
      BY <1>1, <2>1 DEF UpsertRows
    <2>4. Named2
      BY <1>2, <2>2, <2>3 DEF Named2, AnswersNamed
    <2> QED
      BY <1>1, <1>6, <1>7, <1>8, <1>9, <2>2, <2>4
  <1>28. ASSUME NEW u \in Upserters, UpsertLookup(u) \/ UpsertRecover(u) PROVE OK
    <2>1. UNCHANGED <<now, cron, due, inflight, fire, boot, edit, cronUp, cronCalls>>
          /\ upsert[u].pc \in {"lookup", "failed"}
      BY <1>28 DEF UpsertLookup, UpsertRecover
    <2>2. Named2
      <3>1. CASE \E pc \in {"insert", "done"} : upsert' = [upsert EXCEPT ![u].pc = pc]
        <4>1. PICK pc \in {"insert", "done"} : upsert' = [upsert EXCEPT ![u].pc = pc]
          BY <3>1
        <4>2. /\ upsert' \in [Upserters -> UpsertRows] /\ upsert'[u].pc = pc /\ upsert'[u].answer = upsert[u].answer
              /\ upsert'[u].name = upsert[u].name /\ \A v \in Upserters \ {u} : upsert'[v] = upsert[v]
          BY <1>1, <4>1 DEF UpsertRows
        <4> QED
          BY <1>2, <2>1, <4>2 DEF Named2, AnswersNamed
      <3>2. ASSUME NEW r \in CronIds, cron[r].st # "none", cron[r].name = upsert[u].name,
                   upsert' = [upsert EXCEPT ![u].pc = "inplace", ![u].answer = r]
            PROVE  Named2
        <4>1. /\ upsert' \in [Upserters -> UpsertRows] /\ upsert'[u].pc = "inplace" /\ upsert'[u].answer = r
              /\ upsert'[u].name = upsert[u].name /\ \A v \in Upserters \ {u} : upsert'[v] = upsert[v]
          BY <1>1, <3>2 DEF UpsertRows
        <4> QED
          BY <1>2, <2>1, <3>2, <4>1 DEF Named2, AnswersNamed
      <3>3. \A r \in Named(upsert[u].name) : r \in CronIds /\ cron[r].st # "none" /\ cron[r].name = upsert[u].name
        BY DEF Named, Existing
      <3> QED
        BY <1>28, <3>1, <3>2, <3>3 DEF UpsertLookup, UpsertRecover
    <2> QED
      BY <1>1, <1>6, <1>7, <1>8, <1>9, <2>1, <2>2
  <1>29. ASSUME NEW u \in Upserters, NEW p \in Periods, UpsertInsert(u, p) PROVE OK
    <2>1. UNCHANGED <<now, due, inflight, fire, boot, edit, cronUp, cronCalls>> /\ upsert[u].pc = "insert"
      BY <1>29 DEF UpsertInsert
    <2>2. upsert[u].name \in CronNames
      BY <1>2, <2>1 DEF AnswersNamed
    <2>3. TableKept /\ Named2
      <3>1. ASSUME UNCHANGED cron, upsert' = [upsert EXCEPT ![u].pc = "failed"] PROVE TableKept /\ Named2
        <4>1. /\ upsert' \in [Upserters -> UpsertRows] /\ upsert'[u].pc = "failed" /\ upsert'[u].answer = upsert[u].answer
              /\ upsert'[u].name = upsert[u].name /\ \A v \in Upserters \ {u} : upsert'[v] = upsert[v]
          BY <1>1, <3>1 DEF UpsertRows
        <4> QED
          BY <1>2, <1>6, <2>1, <3>1, <4>1 DEF Named2, AnswersNamed
      <3>2. ASSUME NEW r \in CronIds, ~NameTaken(upsert[u].name),
                   InsertCronSchedule(r, NewSchedule(p, 0, TRUE, upsert[u].name)),
                   upsert' = [upsert EXCEPT ![u].pc = "done", ![u].answer = r]
            PROVE  TableKept /\ Named2
        <4>1. TableKept /\ cron'[r].st # "none" /\ cron'[r].name = upsert[u].name
          BY <1>1, <1>2, <1>3, <2>2, <3>2, InsertKeeps
        <4>2. /\ upsert' \in [Upserters -> UpsertRows] /\ upsert'[u].pc = "done" /\ upsert'[u].answer = r
              /\ upsert'[u].name = upsert[u].name /\ \A v \in Upserters \ {u} : upsert'[v] = upsert[v]
          BY <1>1, <3>2 DEF UpsertRows
        <4> QED
          BY <1>2, <2>2, <4>1, <4>2 DEF Named2, AnswersNamed, TableKept
      <3> QED
        BY <1>29, <3>1, <3>2 DEF UpsertInsert
    <2> QED
      BY <1>1, <1>7, <1>8, <1>9, <2>1, <2>3
  <1> HIDE DEF OK
  <1>30. OK
    BY <1>3, <1>11, <1>12, <1>14, <1>15, <1>16, <1>17, <1>18, <1>19, <1>20, <1>21, <1>22, <1>23, <1>24, <1>25, <1>26,
       <1>27, <1>28, <1>29
       DEF CronNext, FireStep, create_cron_schedule, delete_cron_schedule
  <1> QED
    BY <1>5, <1>30

\* Every variable of the cron loop and its callers stays within its type.
THEOREM CronTypesHold == CronSpec => []CronTypeOK
  BY InitCronInv, NextCronInv, PTL DEF CronSpec

\* A schedule that overruns its period is never run by two goroutines: the
\* in-flight map holds exactly the rows of the goroutines of fireCron.
THEOREM FiresDoNotOverlap == CronSpec => []NoOverlap
  <1>1. CronTypeOK /\ CronInv => NoOverlap
    BY DEF CronInv
  <1> QED
    BY <1>1, InitCronInv, NextCronInv, PTL DEF CronSpec

\* An enabled schedule has a next_run_at, whichever of its writers came last.
THEOREM EnabledIsScheduled == CronSpec => []EnabledHasNext
  <1>1. CronTypeOK /\ CronInv => EnabledHasNext
    BY DEF CronInv
  <1> QED
    BY <1>1, InitCronInv, NextCronInv, PTL DEF CronSpec

\* However upserts of one name race with each other, with edits, deletes,
\* boots and crashes, the name has one row and every caller is told it.
THEOREM UpsertsAgree == CronSpec => []UpsertOneRow
  <1>1. CronTypeOK /\ CronInv => UpsertOneRow
    <2> SUFFICES ASSUME CronTypeOK, CronInv PROVE UpsertOneRow
      OBVIOUS
    <2>1. Unnamed \notin CronNames
      BY CronNamesAssumption DEF CronNamesAssumption
    <2>2. ASSUME NEW n \in CronNames PROVE Cardinality(Named(n)) <= 1
      <3>1. \A q, r \in Named(n) : q = r
        BY <2>1 DEF CronInv, OneRowPerName, Named
      <3>2. Named(n) = {} \/ \E r \in Named(n) : Named(n) = {r}
        BY <3>1
      <3>3. Cardinality({}) = 0 /\ \A r : Cardinality({r}) = 1
        BY FS_EmptySet, FS_Singleton
      <3>4. Cardinality(Named(n)) \in {0, 1}
        BY <3>2, <3>3, Zenon
      <3> QED
        BY <3>4
    <2>3. ASSUME NEW u \in Upserters, NEW v \in Upserters, upsert[u].name = upsert[v].name,
                 upsert[u].answer \in Existing, upsert[v].answer \in Existing
          PROVE  upsert[u].answer = upsert[v].answer
      BY <2>1, <2>3 DEF CronInv, AnswersNamed, OneRowPerName, Existing
    <2> QED
      BY <2>2, <2>3 DEF UpsertOneRow
  <1> QED
    BY <1>1, InitCronInv, NextCronInv, PTL DEF CronSpec

\* The three together: what the cron loop, the boot and the racing callers of
\* the schedule API keep in every reachable state.
THEOREM SchedulesAreSafe == CronSpec => []CronSafe
  <1>1. NoOverlap /\ EnabledHasNext /\ UpsertOneRow => CronSafe
    BY DEF CronSafe
  <1> QED
    BY <1>1, FiresDoNotOverlap, EnabledIsScheduled, UpsertsAgree, PTL
=============================================================================

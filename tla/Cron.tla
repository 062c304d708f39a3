-------------------------------- MODULE Cron --------------------------------
(***************************************************************************)
(* Cron schedules: the table (database/cron.go), the loop that fires due   *)
(* rows (scheduler.go), and the REST, SDK and MCP operations on them.      *)
(*                                                                         *)
(* Time is a bounded clock.  A cron expression is a period and a time zone *)
(* an offset: the next fire after t is the first u > t at which the local  *)
(* time u + zone is a multiple of the period.  Payloads and texts are left *)
(* out; expressions are valid (the callers validate them).                 *)
(***************************************************************************)
EXTENDS Naturals, FiniteSets

CONSTANTS
    CronIds,       \* rows that can be inserted
    Periods,       \* cron expressions
    Zones,         \* time zones, UTC is 0
    CronNames,     \* names a function gives its own schedules
    MaxSDK,        \* maxSDKSchedulesPerFunction
    Fires,         \* goroutines of fireCron
    Editors,       \* callers of the REST update
    Upserters,     \* callers of the SDK upsert
    Horizon,       \* bound on the clock
    MaxCronCalls,  \* bound on operator calls and crashes
    CronCalls      \* which of them happen

ASSUME CronAssumption ==
    /\ Periods \subseteq Nat \ {0} /\ Periods # {} /\ Zones \subseteq Nat /\ 0 \in Zones
    /\ MaxSDK \in Nat \ {0} /\ Horizon \in Nat /\ MaxCronCalls \in Nat
    /\ CronCalls \subseteq {"create", "update", "delete", "upsert", "mcpUpdate", "crash"}

Unnamed == "unnamed"
NoRowYet == "no row"
Never == 0                  \* next_run_at IS NULL: a time that is no next time

\* "None" is not one of them.
ASSUME CronNamesAssumption == Unnamed \notin CronNames /\ NoRowYet \notin CronIds

VARIABLES
    now,        \* the clock
    cron,       \* the cron_schedules table
    due,        \* cronTick: the copies of due rows it has still to look at
    inflight,   \* the sync.Map of rows being fired
    fire,       \* fireCron's goroutines
    boot,       \* recomputeNextRunOnBoot: the copies it has still to look at
    edit,       \* the row an update has read
    upsert,     \* the SDK upserts under way
    cronUp,     \* the daemon runs
    cronCalls   \* operator calls and crashes so far

cronVars == <<now, cron, due, inflight, fire, boot, edit, upsert, cronUp, cronCalls>>

Schedules == [st : {"none", "on", "off", "gone"}, period : Periods, zone : Zones,
              next : Nat, name : CronNames \cup {Unnamed}]
Copies == [id : CronIds, row : Schedules]

NextFire(period, zone, t) ==
    CHOOSE u \in t + 1 .. t + period : (u + zone) % period = 0

Blank == [st |-> "none", period |-> CHOOSE p \in Periods : TRUE, zone |-> 0,
          next |-> Never, name |-> Unnamed]
NoEdit == [id |-> NoRowYet, row |-> Blank]
NoUpsert == [pc |-> "idle", name |-> Unnamed, answer |-> NoRowYet]
Stopped == [pc |-> "free", id |-> NoRowYet, row |-> Blank]

CronTypeOK ==
    /\ now \in 0 .. Horizon
    /\ cron \in [CronIds -> Schedules]
    /\ due \subseteq Copies
    /\ inflight \subseteq CronIds
    /\ fire \in [Fires -> [pc : {"free", "start", "run", "persist", "leave"},
                           id : CronIds \cup {NoRowYet}, row : Schedules]]
    /\ boot \subseteq Copies
    /\ edit \in [Editors -> Copies \cup {NoEdit}]
    /\ upsert \in [Upserters -> [pc : {"idle", "lookup", "insert", "inplace", "failed", "done"},
                                 name : CronNames \cup {Unnamed},
                                 answer : CronIds \cup {NoRowYet}]]
    /\ cronUp \in BOOLEAN
    /\ cronCalls \in 0 .. MaxCronCalls

\* Which functions declare a schedule and how many calls are used up already
\* are parameters, so that an instance can bound them.
CronStart(declaring, used) ==
    /\ now = 0
    /\ cron = [r \in CronIds |-> Blank]
    /\ due = {} /\ inflight = {}
    /\ fire = [f \in Fires |-> Stopped]
    /\ boot = {}
    /\ edit = [e \in Editors |-> NoEdit]
    /\ upsert = [u \in Upserters |-> IF u \in declaring THEN NoUpsert
                                     ELSE [NoUpsert EXCEPT !.pc = "done"]]
    /\ cronUp = TRUE
    /\ cronCalls = used

CronInit == CronStart(Upserters, 0)

CronCall(kind) ==
    /\ kind \in CronCalls /\ cronUp
    /\ cronCalls < MaxCronCalls
    /\ cronCalls' = cronCalls + 1

-----------------------------------------------------------------------------
(* The statements on the table.                                            *)

Existing == {r \in CronIds : cron[r].st \in {"on", "off"}}
ListCronSchedulesForFunction == [r \in Existing |-> cron[r]]
ListAllCronSchedules == {[id |-> r, row |-> cron[r]] : r \in Existing}
GetCronSchedule(r) == r \in Existing

\* enabled, with a next_run_at that has come.
Due(row) == row.st = "on" /\ row.next # Never /\ row.next <= now

DueCronSchedules == {c \in ListAllCronSchedules : Due(c.row)}

\* The whole row is written from the caller's copy, if it is still there.
UpdateCronSchedule(r, row) ==
    IF r \in Existing THEN [cron EXCEPT ![r] = row] ELSE cron

UpdateCronAfterRun(r, next) ==
    IF r \in Existing THEN [cron EXCEPT ![r].next = next] ELSE cron

InsertCronSchedule(r, row) ==
    /\ cron[r].st = "none"
    /\ cron' = [cron EXCEPT ![r] = row]

DeleteCronSchedule(r) == [cron EXCEPT ![r].st = "gone"]

\* Mutant of NameTaken: there is no unique index.
NoNameIndex(n) == FALSE

Named(n) == {r \in Existing : cron[r].name = n}

\* The unique index on (function, name).
NameTaken(n) == Named(n) # {}

-----------------------------------------------------------------------------
(* The loop.                                                               *)

\* cronTick reads the due rows; ...
CronTick ==
    /\ cronUp /\ boot = {} /\ due = {}
    /\ DueCronSchedules # {}
    /\ due' = DueCronSchedules
    /\ UNCHANGED <<now, cron, inflight, fire, boot, edit, upsert, cronUp, cronCalls>>

\* Mutant of Busy: the tick does not ask.
NeverBusy(r) == FALSE

\* LoadOrStore finds the row in the map.
Busy(r) == r \in inflight

\* ... then, for each copy, starts a goroutine unless one is at the row.
CronDispatch(c) ==
    /\ c \in due
    /\ due' = due \ {c}
    /\ IF Busy(c.id) THEN UNCHANGED <<inflight, fire>>
       ELSE /\ inflight' = inflight \cup {c.id}
            /\ \E f \in Fires :
                  /\ fire[f].pc = "free"
                  /\ fire' = [fire EXCEPT ![f] = [pc |-> "start", id |-> c.id, row |-> c.row]]
    /\ UNCHANGED <<now, cron, boot, edit, upsert, cronUp, cronCalls>>

\* Mutant of FireStart: without a worker the goroutine just returns.
FireStartReturns(f) ==
    /\ fire[f].pc = "start"
    /\ \E pc \in {"run", "leave"} :
          fire' = [fire EXCEPT ![f].pc = pc,
                      ![f].row.next = NextFire(fire[f].row.period, fire[f].row.zone, now)]
    /\ UNCHANGED <<now, cron, due, inflight, boot, edit, upsert, cronUp, cronCalls>>

\* The next time is computed first, from the copy.  No function, no lease or
\* no worker: straight to the result.
FireStart(f) ==
    /\ fire[f].pc = "start"
    /\ \E pc \in {"run", "persist"} :
          fire' = [fire EXCEPT ![f].pc = pc,
                      ![f].row.next = NextFire(fire[f].row.period, fire[f].row.zone, now)]
    /\ UNCHANGED <<now, cron, due, inflight, boot, edit, upsert, cronUp, cronCalls>>

\* The function answers, fails or times out.
FireRun(f) ==
    /\ fire[f].pc = "run"
    /\ fire' = [fire EXCEPT ![f].pc = "persist"]
    /\ UNCHANGED <<now, cron, due, inflight, boot, edit, upsert, cronUp, cronCalls>>

\* persistResult, whatever the result: next_run_at moves on.
FirePersist(f) ==
    /\ fire[f].pc = "persist"
    /\ cron' = UpdateCronAfterRun(fire[f].id, fire[f].row.next)
    /\ fire' = [fire EXCEPT ![f].pc = "leave"]
    /\ UNCHANGED <<now, due, inflight, boot, edit, upsert, cronUp, cronCalls>>

FireLeave(f) ==
    /\ fire[f].pc = "leave"
    /\ inflight' = inflight \ {fire[f].id}
    /\ fire' = [fire EXCEPT ![f] = Stopped]
    /\ UNCHANGED <<now, cron, due, boot, edit, upsert, cronUp, cronCalls>>

Clock ==
    /\ now < Horizon
    /\ now' = now + 1
    /\ UNCHANGED <<cron, due, inflight, fire, boot, edit, upsert, cronUp, cronCalls>>

CronCrash ==
    /\ CronCall("crash")
    /\ cronUp' = FALSE
    /\ due' = {} /\ inflight' = {} /\ boot' = {}
    /\ fire' = [f \in Fires |-> Stopped]
    /\ edit' = [e \in Editors |-> NoEdit]
    /\ upsert' = [u \in Upserters |-> IF upsert[u].pc \in {"idle", "done"} THEN upsert[u]
                                      ELSE [upsert[u] EXCEPT !.pc = "done"]]
    /\ UNCHANGED <<now, cron>>

\* Start reads every row ...
CronBoot ==
    /\ ~cronUp
    /\ cronUp' = TRUE
    /\ boot' = ListAllCronSchedules
    /\ UNCHANGED <<now, cron, due, inflight, fire, edit, upsert, cronCalls>>

\* ... and moves the missed ones to their next time, by writing back the
\* copies; requests are served meanwhile.
RecomputeNextRunOnBoot(c) ==
    /\ cronUp /\ c \in boot
    /\ boot' = boot \ {c}
    /\ cron' = IF c.row.st = "on" /\ (c.row.next = Never \/ c.row.next < now)
               THEN UpdateCronSchedule(c.id, [c.row EXCEPT
                        !.next = NextFire(c.row.period, c.row.zone, now)])
               ELSE cron
    /\ UNCHANGED <<now, due, inflight, fire, edit, upsert, cronUp, cronCalls>>

-----------------------------------------------------------------------------
(* Operators.                                                              *)

NewSchedule(p, z, on, name) ==
    [st |-> IF on THEN "on" ELSE "off", period |-> p, zone |-> z,
     next |-> NextFire(p, z, now), name |-> name]

Create(r, p, z, on) ==
    /\ CronCall("create")
    /\ InsertCronSchedule(r, NewSchedule(p, z, on, Unnamed))
    /\ UNCHANGED <<now, due, inflight, fire, boot, edit, upsert, cronUp>>

\* The MCP tool takes no time zone.
create_cron_schedule(r, p, on) == Create(r, p, 0, on)

\* Update reads the row ...
UpdateRead(e, r) ==
    /\ CronCall("update")
    /\ edit[e] = NoEdit /\ GetCronSchedule(r)
    /\ edit' = [edit EXCEPT ![e] = [id |-> r, row |-> cron[r]]]
    /\ UNCHANGED <<now, cron, due, inflight, fire, boot, upsert, cronUp>>

\* Mutant of Edited: switching a schedule on does not recompute.
EditedIfChanged(row, p, z, on) ==
    [row EXCEPT !.st = IF on THEN "on" ELSE "off", !.period = p, !.zone = z,
                !.next = IF p # row.period \/ z # row.zone THEN NextFire(p, z, now) ELSE @]

Edited(row, p, z, on) ==
    LET wasOn == row.st = "on"
        changed == p # row.period \/ z # row.zone
    IN  [row EXCEPT !.st = IF on THEN "on" ELSE "off", !.period = p, !.zone = z,
                    !.next = IF changed \/ (on /\ ~wasOn) THEN NextFire(p, z, now) ELSE @]

\* ... and writes it whole; next_run_at is recomputed when expression or zone
\* change or the schedule is switched on.
Update(e, p, z, on) ==
    /\ cronUp /\ edit[e] # NoEdit
    /\ cron' = UpdateCronSchedule(edit[e].id, Edited(edit[e].row, p, z, on))
    /\ edit' = [edit EXCEPT ![e] = NoEdit]
    /\ UNCHANGED <<now, due, inflight, fire, boot, upsert, cronUp, cronCalls>>

\* The MCP tool recomputes it for every enabled row, and in UTC.
update_cron_schedule(r, p, on) ==
    /\ CronCall("mcpUpdate")
    /\ GetCronSchedule(r)
    /\ LET row == cron[r]
           recompute == p # row.period \/ on
       IN  cron' = UpdateCronSchedule(r, [row EXCEPT !.st = IF on THEN "on" ELSE "off",
                       !.period = p, !.next = IF recompute THEN NextFire(p, 0, now) ELSE @])
    /\ UNCHANGED <<now, due, inflight, fire, boot, edit, upsert, cronUp>>

CronDelete(r) ==
    /\ CronCall("delete")
    /\ GetCronSchedule(r)
    /\ cron' = DeleteCronSchedule(r)
    /\ UNCHANGED <<now, due, inflight, fire, boot, edit, upsert, cronUp>>

delete_cron_schedule(r) == CronDelete(r)

-----------------------------------------------------------------------------
(* The SDK's upsert by name.                                               *)

Declared == {ListCronSchedulesForFunction[r].name : r \in Existing} \ {Unnamed}

\* UpsertInternal: the cap counts the other names.
UpsertInternal(u, n) ==
    /\ "upsert" \in CronCalls /\ cronUp
    /\ upsert[u].pc = "idle"
    /\ upsert' = [upsert EXCEPT ![u].name = n,
                     ![u].pc = IF n \notin Declared /\ Cardinality(Declared) >= MaxSDK
                               THEN "done" ELSE "lookup"]
    /\ UNCHANGED <<now, cron, due, inflight, fire, boot, edit, cronUp, cronCalls>>

\* UpsertCronScheduleByName: SELECT ...
UpsertLookup(u) ==
    /\ upsert[u].pc = "lookup"
    /\ \/ /\ Named(upsert[u].name) = {}
          /\ upsert' = [upsert EXCEPT ![u].pc = "insert"]
       \/ \E r \in Named(upsert[u].name) :
             upsert' = [upsert EXCEPT ![u].pc = "inplace", ![u].answer = r]
    /\ UNCHANGED <<now, cron, due, inflight, fire, boot, edit, cronUp, cronCalls>>

\* ... INSERT, which the unique index may refuse; then the winner is read
\* again: it is updated, or the error is returned when it is gone.
UpsertInsert(u, p) ==
    /\ upsert[u].pc = "insert"
    /\ \/ /\ ~NameTaken(upsert[u].name)
          /\ \E r \in CronIds :
                /\ InsertCronSchedule(r, NewSchedule(p, 0, TRUE, upsert[u].name))
                /\ upsert' = [upsert EXCEPT ![u].pc = "done", ![u].answer = r]
       \/ /\ NameTaken(upsert[u].name)
          /\ upsert' = [upsert EXCEPT ![u].pc = "failed"]
          /\ UNCHANGED cron
    /\ UNCHANGED <<now, due, inflight, fire, boot, edit, cronUp, cronCalls>>

UpsertRecover(u) ==
    /\ upsert[u].pc = "failed"
    /\ \/ /\ Named(upsert[u].name) = {}
          /\ upsert' = [upsert EXCEPT ![u].pc = "done"]
       \/ \E r \in Named(upsert[u].name) :
             upsert' = [upsert EXCEPT ![u].pc = "inplace", ![u].answer = r]
    /\ UNCHANGED <<now, cron, due, inflight, fire, boot, edit, cronUp, cronCalls>>

\* updateCronScheduleInPlace: a schedule declared disabled has no next_run_at.
UpdateCronScheduleInPlace(u, p, on) ==
    /\ upsert[u].pc = "inplace"
    /\ LET r == upsert[u].answer
       IN  cron' = UpdateCronSchedule(r, [cron[r] EXCEPT
                       !.st = IF on THEN "on" ELSE "off", !.period = p, !.zone = 0,
                       !.next = IF on THEN NextFire(p, 0, now) ELSE Never])
    /\ upsert' = [upsert EXCEPT ![u].pc = "done"]
    /\ UNCHANGED <<now, due, inflight, fire, boot, edit, cronUp, cronCalls>>

-----------------------------------------------------------------------------
FireStep(f) == FireStart(f) \/ FireRun(f) \/ FirePersist(f) \/ FireLeave(f)

CronNext ==
    \/ CronTick \/ \E c \in due : CronDispatch(c)
    \/ \E f \in Fires : FireStep(f)
    \/ Clock \/ CronCrash \/ CronBoot \/ \E c \in boot : RecomputeNextRunOnBoot(c)
    \/ \E p \in Periods, on \in BOOLEAN :
          \/ \E r \in CronIds : \/ \E z \in Zones : Create(r, p, z, on)
                                \/ create_cron_schedule(r, p, on)
                                \/ update_cron_schedule(r, p, on)
          \/ \E e \in Editors, z \in Zones : Update(e, p, z, on)
          \/ \E u \in Upserters : UpdateCronScheduleInPlace(u, p, on)
    \/ \E r \in CronIds : \/ \E e \in Editors : UpdateRead(e, r)
                          \/ CronDelete(r) \/ delete_cron_schedule(r)
    \/ \E u \in Upserters : \/ \E n \in CronNames : UpsertInternal(u, n)
                            \/ UpsertLookup(u) \/ UpsertRecover(u)
                            \/ \E p \in Periods : UpsertInsert(u, p)

CronSpec == CronInit /\ [][CronNext]_cronVars

\* The ticker and the goroutines run and a stopped daemon is started again.
\* The clock and the operators need not move.
CronLoop ==
    \/ CronTick \/ \E c \in due : CronDispatch(c)
    \/ CronBoot \/ \E c \in boot : RecomputeNextRunOnBoot(c)

CronFairness == WF_cronVars(CronLoop) /\ \A f \in Fires : WF_cronVars(FireStep(f))

-----------------------------------------------------------------------------
(* Properties.                                                             *)

\* A schedule that overruns its period is never run by two goroutines at a
\* time: every goroutine of fireCron holds its row in the inflight map.
NoOverlap ==
    /\ \A f, g \in Fires : (f # g /\ fire[f].pc # "free") => fire[f].id # fire[g].id
    /\ {fire[f].id : f \in {h \in Fires : fire[h].pc # "free"}} = inflight

\* An enabled schedule has a next_run_at, without which the loop would never
\* look at it, whichever of the five writers of the row came last.
EnabledHasNext == \A r \in CronIds : cron[r].st = "on" => cron[r].next # Never

\* Two instances that declare the same schedule end with one row, and both
\* are told its id unless it has been removed.
UpsertOneRow ==
    /\ \A n \in CronNames : Cardinality(Named(n)) <= 1
    /\ \A u, v \in Upserters :
          (/\ upsert[u].pc = "done" /\ upsert[v].pc = "done"
           /\ upsert[u].name = upsert[v].name
           /\ upsert[u].answer \in Existing /\ upsert[v].answer \in Existing)
              => upsert[u].answer = upsert[v].answer

\* The cron loop and its callers together: no overlap, no enabled schedule out
\* of the loop's sight, one row and one answer per declared name.
CronSafe == NoOverlap /\ EnabledHasNext /\ UpsertOneRow

\* A due schedule does not stay due: it is moved on by a fire that succeeds,
\* fails or never finds a worker, or by the boot after a crash.
CronMovesOn ==
    \A r \in CronIds : Due(cron[r]) ~> ~Due(cron[r])

\* scheduler.go:91-93: the inflight map keeps a row from being fired twice;
\* so a row that is fired, and has not been edited away, is due.
FiredWhenDue ==
    [][\A f \in Fires :
          (fire[f].pc = "free" /\ fire'[f].pc = "start" /\ cron[fire'[f].id].st = "on")
              => cron[fire'[f].id].next <= now]_cronVars
=============================================================================

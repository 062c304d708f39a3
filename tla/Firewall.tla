------------------------------ MODULE Firewall ------------------------------
(***************************************************************************)
(* The sandbox egress policy: the egress_blocklist table and the DNS       *)
(* settings with the REST and MCP operations on them, the manager that     *)
(* compiles and publishes a policy (firewall/manager.go, policy.go,        *)
(* nstun.go, dns.go), the workers of one function that load it when they   *)
(* start, and the daemon's own guarded dialer (dialer.go).                 *)
(*                                                                         *)
(* A generation is the hash of what it enforces, so a policy is its own    *)
(* generation.  A prefix is a name with the addresses it contains; the     *)
(* address "any" is 0.0.0.0, which NSTUN reads as no constraint.  The two  *)
(* address families are one.  Times are "within the interval or not".      *)
(***************************************************************************)
EXTENDS Naturals, FiniteSets, Sequences, SequencesExt

CONSTANTS
    RuleIds,       \* rows of the table; the first is a seeded suggestion
    FwWorkers,     \* sandboxes of one function
    GensKept,      \* generationsKept
    MaxEdits,      \* bound on operator calls
    MaxFwFaults    \* bound on failed refreshes and crashes

ASSUME FirewallAssumption ==
    /\ RuleIds \subseteq Nat /\ 1 \in RuleIds
    /\ GensKept \in Nat \ {0} /\ MaxEdits \in Nat /\ MaxFwFaults \in Nat

VARIABLES
    rules,       \* egress_blocklist
    dnsCfg,      \* system_config: dns_servers and the rest (search, records)
    seen,        \* hostSeen: the addresses of the hostname, fresh or old
    policy,      \* the published policy
    files,       \* generation files
    fw,          \* the refresh that holds refreshMu
    fwQueue,     \* callers waiting for refreshMu
    fwErrs,      \* callers whose refresh failed, about to record the error
    status,      \* what Snapshot shows besides the policy
    hosts,       \* the generated resolv.conf and hosts files
    within,      \* lastRetire is less than minRetireInterval ago
    drain,       \* the poll loop is about to look at pendingRetire
    mode,        \* network_mode of the function in the registry
    flip,        \* an update of network_mode has still to drain the pool
    pool,        \* the function's pool: its network_mode, or none
    sandboxes,   \* the function's workers
    allowed,     \* the operator calls of this run
    edits, fwFaults,
    unread       \* ghost: no, read or yes: has a refresh seen the last edit

fwVars == <<rules, dnsCfg, seen, policy, files, fw, fwQueue, fwErrs, status, hosts, within,
            drain, mode, flip, pool, sandboxes, allowed, edits, fwFaults, unread>>

-----------------------------------------------------------------------------
(* Rules and verdicts.                                                     *)

Members(prefix) == IF prefix = "private" THEN {"gw", "cp", "lan"} ELSE {prefix}
Destinations == {"gw", "cp", "dns", "lan", "far", "free"}
Ports == {"sdk", "53", "web"}
NoPort == "no port"

RuleValues == {"private", "dns", "any", "name", "star"}
RuleTypes == {"cidr", "hostname", "wildcard"}
NoRule == [kind |-> "none", type |-> "cidr", value |-> "any", on |-> FALSE]
Rule(kind, type, value, on) == [kind |-> kind, type |-> type, value |-> value, on |-> on]
Custom(i) == rules[i].kind = "custom"

\* Mutant of UsableTarget: no address is refused.
UsableAny(a) == TRUE

\* An unspecified address would match every destination.
UsableTarget(a) == a # "any"

\* parseTarget, on the values an operator may type.
ParseTarget(v) == v \in {"private", "dns", "any"} /\ UsableTarget(v)

\* validateEnforceableRule, of the REST handlers only.
ValidateEnforceableRule(type, v) ==
    CASE type = "cidr" -> ParseTarget(v)
      [] type = "hostname" -> v = "name"
      [] OTHER -> TRUE

\* LoadDNSConfig drops resolvers that cannot be targets; none left means the
\* shipped defaults.
LoadDNSConfig(cfg) ==
    LET usable == {s \in cfg.servers : UsableTarget(s)}
    IN  IF usable = {} THEN {"dns"} ELSE usable

\* resolveHostname: a literal answers itself; the addresses of the name are
\* the ones seen within the TTL.
Resolve(v, kept) == IF v = "name" THEN DOMAIN kept ELSE {v}

RowPrefixes(r, kept) ==
    CASE r.type = "cidr" -> IF ParseTarget(r.value) THEN {r.value} ELSE {}
      [] r.type = "hostname" -> {a \in Resolve(r.value, kept) : UsableTarget(a)}
      [] OTHER -> {}

EnabledRows(table) == {i \in DOMAIN table : table[i].kind # "none" /\ table[i].on}

\* What compile makes of the rows, the resolvers and the answers; a row that
\* blocks nothing is unenforced.
Compile(table, cfg, kept) ==
    [dns |-> LoadDNSConfig(cfg),
     blocks |-> UNION {RowPrefixes(table[i], kept) : i \in EnabledRows(table)}]
Unenforced(table, kept) == {i \in EnabledRows(table) : RowPrefixes(table[i], kept) = {}}

\* The rendered list: the gateway, the control plane, the resolvers, then the
\* blocklist.
RuleList(p) ==
    <<[act |-> "ALLOW", dst |-> "gw", port |-> NoPort],
      [act |-> "ALLOW", dst |-> "cp", port |-> "sdk"]>>
    \o [i \in 1 .. Cardinality(p.dns) |->
        [act |-> "ALLOW", dst |-> SetToSeq(p.dns)[i], port |-> "53"]]
    \o [i \in 1 .. Cardinality(p.blocks) |->
        [act |-> "REJECT", dst |-> SetToSeq(p.blocks)[i], port |-> NoPort]]

FirstMatch(list, Matches(_)) ==
    LET i == SelectInSeq(list, Matches) IN i # 0 /\ list[i].act = "REJECT"

\* NSTUN: the first rule that matches decides, none allows; an unspecified
\* destination matches everything.
SandboxRejects(p, a, port) ==
    FirstMatch(RuleList(p), LAMBDA r : /\ r.dst = "any" \/ a \in Members(r.dst)
                                       /\ r.port \in {NoPort, port})

\* Policy.Blocks, for orvad's own connections.
Blocks(p, a, port) ==
    /\ ~(a = "cp" /\ port = "sdk")
    /\ FirstMatch(RuleList(p), LAMBDA r : a \in Members(r.dst) /\ r.port \in {NoPort, port})

-----------------------------------------------------------------------------
(* State.                                                                  *)

NoPolicy == [dns |-> {}, blocks |-> {}]
Callers == {"boot", "poll", "api"}
IdleFw == [pc |-> "idle", by |-> "boot", rows |-> <<>>, cfg |-> <<>>, unenforced |-> {},
           changed |-> FALSE]
NoSandbox == [st |-> "none", pol |-> NoPolicy, retired |-> FALSE]

RuleRows == [kind : {"none", "suggested", "custom"}, type : RuleTypes, value : RuleValues, on : BOOLEAN]
RuleTables == UNION {[D -> RuleRows] : D \in SUBSET RuleIds}
DNSConfigs == [servers : SUBSET {"dns", "lan", "any"}, records : BOOLEAN]
PolicySet == [dns : SUBSET {"dns", "lan", "any"}, blocks : SUBSET (RuleValues \cup {"far"})]
SeenAnswers == UNION {[D -> {"fresh", "old"}] : D \in SUBSET {"far", "any"}}
RefreshRecs == [pc : {"idle", "read", "stored"}, by : Callers, rows : RuleTables \cup {<<>>},
                cfg : DNSConfigs \cup {<<>>}, unenforced : SUBSET RuleIds, changed : BOOLEAN]
StatusRecs == [stale : BOOLEAN, err : BOOLEAN, pending : BOOLEAN, unenforced : SUBSET RuleIds]
SandboxRecs == [st : {"none", "opening", "warm"}, pol : PolicySet, retired : BOOLEAN]

FwTypeOK ==
    /\ rules \in RuleTables /\ dnsCfg \in DNSConfigs /\ seen \in SeenAnswers
    /\ policy \in PolicySet /\ files \subseteq PolicySet
    /\ fw \in RefreshRecs
    /\ fw.pc # "idle" => fw.rows \in RuleTables /\ fw.cfg \in DNSConfigs
    /\ fwQueue \subseteq Callers /\ fwErrs \subseteq Callers
    /\ status \in StatusRecs
    /\ hosts \in BOOLEAN /\ within \in BOOLEAN /\ drain \in BOOLEAN
    /\ mode \in {"egress", "none"} /\ flip \in BOOLEAN /\ pool \in {"egress", "none", "no pool"}
    /\ sandboxes \in [FwWorkers -> SandboxRecs]
    /\ edits \in 0 .. MaxEdits /\ fwFaults \in 0 .. MaxFwFaults
    /\ unread \in {"no", "read", "yes"}

\* What a process starts with; the table, the settings and the files stay.
FreshStatus == [stale |-> FALSE, err |-> FALSE, pending |-> FALSE, unenforced |-> {}]

\* The table, the calls and how many of them and of the faults happen are
\* parameters, so that an instance can bound them.
FwStart(table, calls, e, f) ==
    /\ rules = table /\ dnsCfg = [servers |-> {}, records |-> FALSE]
    /\ seen = <<>> /\ policy = NoPolicy /\ files = {}
    /\ fw = IdleFw /\ fwQueue = {"boot"} /\ fwErrs = {}
    /\ status = FreshStatus /\ hosts = FALSE /\ within = FALSE /\ drain = FALSE
    /\ mode = "egress" /\ flip = FALSE /\ pool = "no pool"
    /\ sandboxes = [w \in FwWorkers |-> NoSandbox]
    /\ allowed = calls /\ edits = MaxEdits - e /\ fwFaults = MaxFwFaults - f /\ unread = "yes"

Suggested(on) == Rule("suggested", "cidr", "private", on)
FwCalls == {"rule", "dns", "resolve", "mode"}
FwInit == FwStart([i \in RuleIds |-> IF i = 1 THEN Suggested(FALSE) ELSE NoRule],
                  FwCalls, MaxEdits, MaxFwFaults)

tables == <<rules, dnsCfg>>
inForce == <<policy, files>>
guest == <<mode, flip, pool, sandboxes>>

-----------------------------------------------------------------------------
(* Operator calls.  A call that changed something refreshes the policy.    *)

MayCall(call) == call \in allowed /\ edits < MaxEdits
Edited == edits' = edits + 1 /\ unread' = "yes"
Refreshes == fwQueue' = fwQueue \cup {"api"}
unedited == <<seen, inForce, fw, fwErrs, status, hosts, within, drain, guest, fwFaults>>

\* UNIQUE(kind, value)
Taken(v, i) == \E j \in DOMAIN rules \ {i} : Custom(j) /\ rules[j].value = v

InsertCustomBlocklistRule(i, type, v, on) ==
    /\ MayCall("rule") /\ rules[i].kind = "none" /\ ~Taken(v, i)
    /\ rules' = [rules EXCEPT ![i] = Rule("custom", type, v, on)]
    /\ Edited /\ Refreshes
    /\ UNCHANGED <<dnsCfg, unedited>>

CreateRule(i, type, v, on) ==
    /\ type # "wildcard" /\ ValidateEnforceableRule(type, v)
    /\ InsertCustomBlocklistRule(i, type, v, on)

\* MCP: a wildcard is refused, everything else is taken as it is.
add_firewall_rule(i, type, v) ==
    type # "wildcard" /\ InsertCustomBlocklistRule(i, type, v, TRUE)

SetBlocklistRuleEnabled(table, i, on) == [table EXCEPT ![i].on = on]
UpdateBlocklistRuleValue(table, i, type, v) == [table EXCEPT ![i].type = type, ![i].value = v]

\* PUT /firewall/rules/{id}: the flag, or flag and value together.  The two
\* are separate statements, and the second may fail on a value that is taken;
\* then the call is refused and nothing is refreshed.
UpdateRule(i, on) ==
    /\ MayCall("rule") /\ rules[i].kind # "none"
    /\ on => rules[i].type # "wildcard" /\ ValidateEnforceableRule(rules[i].type, rules[i].value)
    /\ rules' = SetBlocklistRuleEnabled(rules, i, on)
    /\ Edited /\ Refreshes
    /\ UNCHANGED <<dnsCfg, unedited>>

EditRule(i, on, type, v) ==
    /\ MayCall("rule") /\ Custom(i)
    /\ type # "wildcard" /\ ValidateEnforceableRule(type, v)
    /\ LET armed == SetBlocklistRuleEnabled(rules, i, on)
       IN  IF Taken(v, i) THEN rules' = armed /\ UNCHANGED fwQueue
           ELSE rules' = UpdateBlocklistRuleValue(armed, i, type, v) /\ Refreshes
    /\ Edited
    /\ UNCHANGED <<dnsCfg, unedited>>

DeleteCustomBlocklistRule(i) ==
    /\ MayCall("rule") /\ Custom(i)
    /\ rules' = [rules EXCEPT ![i] = NoRule]
    /\ Edited /\ Refreshes
    /\ UNCHANGED <<dnsCfg, unedited>>

DeleteRule(i) == DeleteCustomBlocklistRule(i)
delete_firewall_rule(i) == DeleteCustomBlocklistRule(i)

\* The resolvers are stored before the rest of the request is looked at: a
\* bad search domain (REST) or record (MCP) refuses the call after that.
PutServers(servers, records, ok) ==
    /\ MayCall("dns")
    /\ dnsCfg' = [servers |-> servers, records |-> IF ok THEN records ELSE dnsCfg.records]
    /\ IF ok THEN Refreshes ELSE UNCHANGED fwQueue
    /\ Edited
    /\ UNCHANGED <<rules, unedited>>

PutDNS(servers, records, ok) ==
    (\A s \in servers : UsableTarget(s)) /\ PutServers(servers, records, ok)
set_dns_config(servers, records, ok) == PutServers(servers, records, ok)

\* POST /firewall/resolve.
ResolveNow ==
    /\ MayCall("resolve")
    /\ edits' = edits + 1 /\ Refreshes
    /\ UNCHANGED <<tables, unedited, unread>>

\* PUT of a function's network_mode: the registry first, the pool after.
UpdateNetworkMode ==
    /\ MayCall("mode") /\ ~flip
    /\ mode' = IF mode = "egress" THEN "none" ELSE "egress"
    /\ flip' = TRUE /\ edits' = edits + 1
    /\ UNCHANGED <<tables, seen, inForce, fw, fwQueue, fwErrs, status, hosts, within, drain,
                   pool, sandboxes, fwFaults, unread>>

-----------------------------------------------------------------------------
(* The workers.                                                            *)

\* retirePool: the idle ones die now, the ones that are starting when they
\* come to park.
RetirePool ==
    /\ pool' = "no pool"
    /\ sandboxes' = [w \in FwWorkers |-> IF sandboxes[w].st = "warm" THEN NoSandbox
                                        ELSE [sandboxes[w] EXCEPT !.retired = TRUE]]

manager == <<tables, seen, inForce, fw, fwQueue, fwErrs, status, hosts, within, drain, edits,
             fwFaults, unread>>

FlipDrain == flip /\ RetirePool /\ flip' = FALSE /\ UNCHANGED <<manager, mode>>

\* A spawn of an egress pool reads the policy that is published; without one
\* it fails.  The pool is made with the network_mode of that moment.
SpawnSandbox(w) ==
    /\ sandboxes[w].st = "none"
    /\ pool' = IF pool = "no pool" THEN mode ELSE pool
    /\ pool' = "egress" /\ policy # NoPolicy
    /\ sandboxes' = [sandboxes EXCEPT ![w] = [st |-> "opening", pol |-> policy, retired |-> FALSE]]
    /\ UNCHANGED <<manager, mode, flip>>

\* nsjail opens the file; the worker parks unless its pool was retired.
OpenSandbox(w) ==
    /\ sandboxes[w].st = "opening"
    /\ sandboxes' = [sandboxes EXCEPT ![w] = IF @.retired THEN NoSandbox ELSE [@ EXCEPT !.st = "warm"]]
    /\ UNCHANGED <<manager, mode, flip, pool>>

-----------------------------------------------------------------------------
(* The manager.                                                            *)

Loop == {"boot", "poll"}

\* pollLoop is one goroutine: a tick when it is not busy.  The boot refresh
\* comes before it.  Its slower ticker, for the names, does the same refresh
\* and no more; it is left out.
PollTick ==
    /\ Loop \cap (fwQueue \cup fwErrs) = {} /\ ~(fw.pc # "idle" /\ fw.by \in Loop) /\ ~drain
    /\ fwQueue' = fwQueue \cup {"poll"}
    /\ UNCHANGED <<tables, seen, inForce, fw, fwErrs, status, hosts, within, drain, guest, edits,
                   fwFaults, unread>>

\* The refresh ends without a policy: the lock is free, the caller will
\* record the error.
FailRefresh(c) ==
    /\ fwFaults < MaxFwFaults /\ fwFaults' = fwFaults + 1
    /\ fw' = IdleFw /\ fwErrs' = fwErrs \cup {c}
    /\ unread' = IF unread = "read" THEN "yes" ELSE unread

\* refresh, with the lock: the enabled rows and the settings.
RefreshRead(c) ==
    /\ fw.pc = "idle" /\ c \in fwQueue
    /\ fwQueue' = fwQueue \ {c}
    /\ \/ /\ fw' = [IdleFw EXCEPT !.pc = "read", !.by = c, !.rows = rules, !.cfg = dnsCfg]
          /\ unread' = IF unread = "yes" THEN "read" ELSE unread
          /\ UNCHANGED <<fwFaults, fwErrs>>
       \/ FailRefresh(c)
    /\ UNCHANGED <<tables, seen, inForce, status, hosts, within, drain, guest, edits>>

\* What is known of the name after a lookup: new answers are fresh, old ones
\* go.  A failed lookup answers nothing.
Looked(answer) ==
    [a \in answer \cup {b \in DOMAIN seen : seen[b] = "fresh"} |-> "fresh"]
HostnameRow(table) == \E i \in EnabledRows(table) : table[i].type = "hostname"
                                                     /\ table[i].value = "name"

\* Resolve, compile, render, publish, and only then the pointer.
RefreshPublish ==
    /\ fw.pc = "read"
    /\ \E answer \in IF HostnameRow(fw.rows) THEN {{}, {"far"}, {"any"}} ELSE {{}} :
          seen' = IF HostnameRow(fw.rows) THEN Looked(answer) ELSE seen
    /\ LET p == Compile(fw.rows, fw.cfg, seen')
       IN  \/ /\ policy' = p
              /\ files' = files \cup {p}
              /\ fw' = [fw EXCEPT !.pc = "stored", !.changed = p # policy,
                                  !.unenforced = Unenforced(fw.rows, seen')]
              /\ unread' = IF unread = "read" THEN "no" ELSE unread
              /\ UNCHANGED <<status, fwErrs, fwFaults>>
           \/ /\ FailRefresh(fw.by)
              /\ status' = [status EXCEPT !.err = TRUE, !.stale = policy # NoPolicy]
              /\ UNCHANGED inForce
    /\ UNCHANGED <<tables, fwQueue, hosts, within, drain, guest, edits>>

\* The poll tick goes on to look for a recycle that was put off.
EndRefresh(c) == drain' = (drain \/ c = "poll")

\* RetireEgressPools asks the registry which pools are egress pools.
RetireEgressPools == IF mode = "egress" THEN RetirePool ELSE UNCHANGED <<pool, sandboxes>>

\* Mutant of NotifyPolicyChange: a change within the interval is let go.
NotifyDrops(s) ==
    IF within THEN status' = s /\ UNCHANGED <<within, pool, sandboxes>>
    ELSE within' = TRUE /\ status' = [s EXCEPT !.pending = FALSE] /\ RetireEgressPools

\* notifyPolicyChange: within the interval the recycle is put off.
NotifyPolicyChange(s) ==
    IF within THEN status' = [s EXCEPT !.pending = TRUE] /\ UNCHANGED <<within, pool, sandboxes>>
    ELSE within' = TRUE /\ status' = [s EXCEPT !.pending = FALSE] /\ RetireEgressPools

\* The status, the DNS files from the settings as they are now, and the
\* workers when the policy is a new one.
RefreshFinish ==
    /\ fw.pc = "stored"
    /\ LET s == [status EXCEPT !.stale = FALSE, !.err = FALSE, !.unenforced = fw.unenforced]
       IN  IF fw.changed THEN NotifyPolicyChange(s)
           ELSE status' = s /\ UNCHANGED <<within, pool, sandboxes>>
    /\ hosts' = dnsCfg.records
    /\ fw' = IdleFw /\ EndRefresh(fw.by)
    /\ UNCHANGED <<tables, seen, inForce, fwQueue, fwErrs, mode, flip, edits, fwFaults, unread>>

\* setCompileError, after the lock was given up.
SetCompileError(c) ==
    /\ c \in fwErrs
    /\ fwErrs' = fwErrs \ {c}
    /\ status' = [status EXCEPT !.err = TRUE]
    /\ EndRefresh(c)
    /\ UNCHANGED <<tables, seen, inForce, fw, fwQueue, hosts, within, guest, edits, fwFaults,
                   unread>>

DrainPendingRetire ==
    /\ drain
    /\ drain' = FALSE
    /\ IF status.pending /\ ~within
       THEN /\ status' = [status EXCEPT !.pending = FALSE] /\ within' = TRUE
            /\ RetireEgressPools
       ELSE UNCHANGED <<status, within, pool, sandboxes>>
    /\ UNCHANGED <<tables, seen, inForce, fw, fwQueue, fwErrs, hosts, mode, flip, edits,
                   fwFaults, unread>>

\* Time: the interval ends; what is known of the name outlives its TTL.
IntervalPasses ==
    /\ within
    /\ within' = FALSE
    /\ UNCHANGED <<tables, seen, inForce, fw, fwQueue, fwErrs, status, hosts, drain, guest, edits,
                   fwFaults, unread>>

AnswersAge ==
    /\ \E a \in DOMAIN seen : seen[a] = "fresh"
    /\ seen' = [a \in DOMAIN seen |-> "old"]
    /\ UNCHANGED <<tables, inForce, fw, fwQueue, fwErrs, status, hosts, within, drain, guest,
                   edits, fwFaults, unread>>

\* gcGenerations at the next start: the last published one and the newest of
\* the others; which these are is left open.
GcGenerations ==
    \E kept \in SUBSET files :
        /\ policy \in files => policy \in kept
        /\ Cardinality(kept) = IF Cardinality(files) > GensKept THEN GensKept ELSE Cardinality(files)
        /\ files' = kept

\* The daemon dies, with it the workers; Start reads everything anew.
FwRestart ==
    /\ fwFaults < MaxFwFaults /\ fwFaults' = fwFaults + 1
    /\ GcGenerations
    /\ seen' = <<>> /\ policy' = NoPolicy /\ fw' = IdleFw /\ fwQueue' = {"boot"} /\ fwErrs' = {}
    /\ status' = FreshStatus /\ hosts' = dnsCfg.records /\ within' = FALSE /\ drain' = FALSE
    /\ flip' = FALSE /\ pool' = "no pool" /\ sandboxes' = [w \in FwWorkers |-> NoSandbox]
    /\ unread' = "yes"
    /\ UNCHANGED <<tables, mode, edits>>

-----------------------------------------------------------------------------
OperatorCalls ==
    \/ \E i \in DOMAIN rules, on \in BOOLEAN :
          \/ UpdateRule(i, on)
          \/ \E type \in RuleTypes, v \in RuleValues : CreateRule(i, type, v, on)
                                                       \/ EditRule(i, on, type, v)
    \/ \E i \in DOMAIN rules : DeleteRule(i)
          \/ \E v \in RuleValues : \E type \in {"cidr", "hostname"} : add_firewall_rule(i, type, v)
    \/ \E servers \in {{}, {"lan"}, {"any"}}, records \in BOOLEAN, ok \in BOOLEAN :
          PutDNS(servers, records, ok) \/ set_dns_config(servers, records, ok)
    \/ ResolveNow \/ UpdateNetworkMode

RefreshStep == RefreshPublish \/ RefreshFinish

FwStepAny ==
    \/ OperatorCalls \/ FlipDrain
    \/ \E w \in FwWorkers : SpawnSandbox(w) \/ OpenSandbox(w)
    \/ \E c \in Callers : RefreshRead(c) \/ SetCompileError(c)
    \/ PollTick \/ RefreshStep \/ DrainPendingRetire \/ IntervalPasses \/ AnswersAge \/ FwRestart

FwNext == FwStepAny /\ UNCHANGED allowed

\* The manager's goroutines run, the poll ticker ticks, time passes.
FwProgress == RefreshStep \/ DrainPendingRetire
                \/ \E c \in Callers : RefreshRead(c) \/ SetCompileError(c)
FwFairness == /\ WF_fwVars(FlipDrain /\ UNCHANGED allowed)
              /\ WF_fwVars(FwProgress /\ UNCHANGED allowed)
              /\ WF_fwVars(PollTick /\ UNCHANGED allowed)
              /\ WF_fwVars(IntervalPasses /\ UNCHANGED allowed)

FwSpec == FwInit /\ [][FwNext]_fwVars /\ FwFairness

-----------------------------------------------------------------------------
(* Properties.                                                             *)

InUse == {p \in {policy} \cup {sandboxes[w].pol : w \in FwWorkers} : p # NoPolicy}

\* Whatever the operator blocks, a policy in use lets a sandbox reach the
\* gateway, orvad's SDK port and its resolvers; every other way to a blocked
\* address is closed, nothing else is, no rule matches more than it says, and
\* orvad's own connections get the same verdict.
PolicySound ==
    \A p \in InUse : \A a \in Destinations, port \in Ports :
        LET carved == a = "gw" \/ (a = "cp" /\ port = "sdk") \/ (a \in p.dns /\ port = "53")
            blocked == \E b \in p.blocks : a \in Members(b)
        IN  /\ SandboxRejects(p, a, port) <=> blocked /\ ~carved
            /\ Blocks(p, a, port) <=> SandboxRejects(p, a, port)

\* With no edit since the last refresh read the table, no refresh under way
\* and none failed, every enabled rule is in force or is reported as not
\* enforced, and nothing else is blocked: concurrent refreshes never publish
\* the older table.
RulesInForce ==
    unread = "no" /\ fw.pc = "idle" =>
        /\ \A i \in EnabledRows(rules) :
              \/ i \in status.unenforced
              \/ RowPrefixes(rules[i], [a \in {"far"} |-> "fresh"]) \cap policy.blocks # {}
        /\ \A b \in policy.blocks : \E i \in EnabledRows(rules) :
              b \in RowPrefixes(rules[i], [a \in {"far"} |-> "fresh"])

\* A parked worker runs under the published policy, unless a recycle is
\* pending (and Snapshot says so) or on its way: a worker that started across
\* a change of the policy, or of network_mode, never stays.
WarmIsCurrent ==
    fw.pc # "stored" /\ ~flip /\ ~status.pending =>
        \A w \in FwWorkers : sandboxes[w].st = "warm" => sandboxes[w].pol = policy

\* A worker that captured a generation finds its file when it opens it.
GenerationOnDisk ==
    \A w \in FwWorkers : sandboxes[w].st = "opening" => sandboxes[w].pol \in files

EgressSafe == PolicySound /\ RulesInForce /\ WarmIsCurrent /\ GenerationOnDisk

\* A call that is refused, and so goes on to no refresh, leaves the table as
\* it was.
RefusedUpdateChangesNothing ==
    [][fwQueue' = fwQueue /\ "api" \notin fwQueue => UNCHANGED rules]_fwVars

\* What the operator asked for is in force in the end, in the published
\* policy and in every warm worker: also after calls that failed half way,
\* refreshes that failed, recycles that were put off and crashes.
FixedBlocks == {b \in {"private", "dns"} : \E i \in EnabledRows(rules) :
                   rules[i].value = b /\ rules[i].type # "wildcard"}
EgressConverges ==
    <>[](/\ policy.blocks \cap {"private", "dns"} = FixedBlocks
         /\ policy.dns = LoadDNSConfig(dnsCfg) /\ hosts = dnsCfg.records
         /\ \A w \in FwWorkers : sandboxes[w].st = "warm" =>
               /\ sandboxes[w].pol.blocks \cap {"private", "dns"} = FixedBlocks
               /\ sandboxes[w].pol.dns = policy.dns)
=============================================================================

----------------------------- MODULE MCOperator -----------------------------
(***************************************************************************)
(* What an operator's calls set in motion, for TLC: the firewall, the AI   *)
(* chat, the data directory with backup and restore, and the builds.  A    *)
(* run explores one of them at a time, as in MCQueues.                     *)
(***************************************************************************)
EXTENDS Firewall, Chat, DataDir, Build, TLC

VARIABLE part

operatorVars == <<part, fwVars, chatVars, dirVars, buildVars>>

\* Firewall: a block list and a second rule, the same with DNS settings and a
\* failure, the egress mode, a name that resolves anew, and rules no policy
\* can use as they stand.
FwStarts ==
    \/ FwStart(<<Suggested(TRUE), NoRule>>, {"rule"}, 1, 0)
    \/ FwStart(<<Suggested(TRUE)>>, {"rule", "dns"}, 1, 1)
    \/ FwStart(<<Suggested(FALSE)>>, {"rule", "mode"}, 2, 0)
    \/ FwStart(<<Rule("custom", "hostname", "name", TRUE)>>, {"resolve"}, 1, 0)
    \/ FwStart(<<Rule("custom", "wildcard", "star", TRUE), Rule("custom", "cidr", "dns", TRUE)>>, {"rule"}, 1, 0)

\* Chat: a first turn while the other request regenerates, two calls
\* that wait for approval, and a chat while one waits and settings change.
ToolBatches == {<<>>, <<"read", "write">>, <<"broken">>}
Asked == [id |-> 1, role |-> "user", calls |-> <<>>, text |-> TRUE]
Answered(ns) == [id |-> 2, role |-> "assistant", calls |-> ns, text |-> FALSE]
Waiting(t) == [msg |-> 2, tool |-> t, gated |-> TRUE, st |-> "pending_approval", runs |-> 0, decided |-> "none"]
May(a, b) == "q1" :> a @@ "q2" :> b
ChatStarts ==
    \/ ChatStart(<<>>, <<>>, "auto", May({"chat"}, {"regenerate"}), MaxSaves)
    \/ ChatStart(<<Asked, Answered(<<1, 2>>)>>, <<Waiting("write"), Waiting("destructive")>>, "all_writes",
                 May({"resume"}, {"resume", "delete", "edit"}), MaxSaves)
    \/ ChatStart(<<Asked, Answered(<<1>>)>>, <<Waiting("write")>>, "all_writes",
                 May({"chat", "resume"}, {}), MaxSaves - 1)

\* Data directory: one of an old release, a restore over a current one, a
\* backup taken while the daemon works, and one the migration refuses.
VersionAt(c, s) == [NoVersions EXCEPT ![c] = s]
DBRows(F, done, soft, sealed) == [fns |-> F, done |-> done, pending |-> {}, soft |-> soft, sealed |-> sealed]
OldDB == DBRows(<<"f1", 0>> :> "c1" @@ <<"f2", 0>> :> None, FALSE, {<<"f1", 0>>}, "old")
OldTrees == <<"f1", 0>> :> [NoTree EXCEPT !.dir = TRUE, !.flat = TRUE]
            @@ <<"f2", 0>> :> Tree(VersionAt("c1", "bare"), None)
NewDB == DBRows(<<"f1", 1>> :> "c1", TRUE, {<<"f1", 1>>}, "new")
NewTrees == <<"f1", 1>> :> Tree(VersionAt("c1", "ready"), "c1")
OldArchive == [db |-> DBRows(<<"f2", 0>> :> "c1", FALSE, {}, "old"), key |-> "old",
               plan |-> {<<<<"f2", 0>>, "c1", "bare">>}, held |-> {<<<<"f2", 0>>, "c1", "bare">>}]
DirStarts ==
    \/ DirStart(OldDB, OldTrees, NoFile, 0, MaxWork - 1)
    \/ DirStart(NewDB, NewTrees, OldArchive, MaxFaults - 1, MaxWork - 2)
    \/ DirStart(NewDB, NewTrees, NoFile, MaxFaults - 1, MaxWork - 3)
    \/ DirStart(DBRows(<<"f1", 0>> :> "c1", FALSE, {<<"f2", 0>>}, "old"), OldTrees, NoFile, MaxFaults - 1, MaxWork)

\* Builds: a cache of the function itself, TypeScript with no cache, and a
\* disk that the caches fill.
JsUpload == [src |-> {Js("handler")}, deps |-> TRUE, tsconfig |-> FALSE, declared |-> FALSE]
TsUpload == [src |-> {Ts("handler"), Ts("extra")}, deps |-> TRUE, tsconfig |-> TRUE, declared |-> TRUE]
SomeUploads == {JsUpload, TsUpload}
SomeEntries == {Ts("handler"), Js("handler"), Js("extra")}
CacheOf(n, a) == [there |-> TRUE, size |-> n, age |-> a]
Offer(a, b) == "f1" :> a @@ "f2" :> b
BuildStarts ==
    \/ BuildStart(Offer({JsUpload}, {}), Js("handler"), "f1" :> CacheOf(1, 1) @@ "f2" :> NoCache, 0, MaxTicks - 1, MaxEvents)
    \/ BuildStart(Offer({TsUpload}, {}), Ts("handler"), [f \in BuildFns |-> NoCache], 0, MaxTicks, 0)
    \/ BuildStart(Offer({JsUpload}, {JsUpload}), Js("handler"), "f1" :> CacheOf(2, 1) @@ "f2" :> CacheOf(2, 2), MaxBuilds - 1, MaxTicks - 1, 0)

FwRest == FwStart(<<NoRule>>, {}, 0, 0)
ChatRest == ChatStart(<<>>, <<>>, "auto", May({}, {}), MaxSaves)
DirRest == DirStart(NewDB, NewTrees, NoFile, MaxFaults, MaxWork)
BuildRest == BuildStart(Offer({}, {}), Js("handler"), [f \in BuildFns |-> NoCache], MaxBuilds, MaxTicks, MaxEvents)

OperatorInit ==
    \/ part = "firewall" /\ FwStarts /\ ChatRest /\ DirRest /\ BuildRest
    \/ part = "chat" /\ FwRest /\ ChatStarts /\ DirRest /\ BuildRest
    \/ part = "dir" /\ FwRest /\ ChatRest /\ DirStarts /\ BuildRest
    \/ part = "build" /\ FwRest /\ ChatRest /\ DirRest /\ BuildStarts

OperatorNext ==
    \/ part = "firewall" /\ FwNext /\ UNCHANGED <<part, chatVars, dirVars, buildVars>>
    \/ part = "chat" /\ ChatNext /\ UNCHANGED <<part, fwVars, dirVars, buildVars>>
    \/ part = "dir" /\ DirNext /\ UNCHANGED <<part, fwVars, chatVars, buildVars>>
    \/ part = "build" /\ BuildNext /\ UNCHANGED <<part, fwVars, chatVars, dirVars>>

\* The fairness of the parts, each where it can matter.
OperatorFairness ==
    /\ WF_fwVars(part = "firewall" /\ FlipDrain /\ UNCHANGED allowed)
    /\ WF_fwVars(part = "firewall" /\ FwProgress /\ UNCHANGED allowed)
    /\ WF_fwVars(part = "firewall" /\ PollTick /\ UNCHANGED allowed)
    /\ WF_fwVars(part = "firewall" /\ IntervalPasses /\ UNCHANGED allowed)
    /\ \A r \in ChatReqs : /\ WF_chatVars(part = "chat" /\ ChatFair(r))
                           /\ WF_chatVars(part = "chat" /\ StreamTimesOut(r))
    /\ WF_dirVars(part = "dir" /\ BootProgress)
    /\ \A w \in BuildWorkers : SF_buildVars(part = "build" /\ WorkerStep(w) /\ UNCHANGED offered)
    /\ \A f \in BuildFns : WF_buildVars(part = "build" /\ PurgeFiles(f) /\ UNCHANGED offered)
    /\ WF_buildVars(part = "build" /\ SweepNext /\ UNCHANGED offered)

OperatorSpec == OperatorInit /\ [][OperatorNext]_operatorVars /\ OperatorFairness

-----------------------------------------------------------------------------
(* What the parts say together.                                            *)

OperatorTypeOK == FwTypeOK /\ ChatTypeOK /\ DirTypeOK /\ BuildTypeOK

\* What an operator set in motion settles: the egress policy asked for comes
\* into force, a turn gives its conversation back, every boot comes up, every
\* build ends.  The egress policy and the boot are about the part that runs,
\* for the others rest before their first step.
OperatorSettles ==
    /\ part = "firewall" => EgressConverges
    /\ TurnGivesBack
    /\ part = "dir" => BootConverges
    /\ BuildEnds
=============================================================================

----------------------------- MODULE MCControl -----------------------------
(***************************************************************************)
(* The control plane for TLC: agent channels, the OAuth server, sessions   *)
(* and API keys, the execution history, and the command that upgrades a    *)
(* host.  A run explores one of them at a time, as in MCQueues, from the   *)
(* starts below; no start allows everything, and each names what it does.  *)
(***************************************************************************)
EXTENDS Channels, OAuth, Access, Traces, Upgrade, TLC

VARIABLE part

controlVars == <<part, channelVars, oauthVars, accessVars, traceVars, upgradeVars>>

\* Channels: two functions whose names make one tool name, with no channel
\* while tokens cannot expire, or bundled in one channel with time ahead.
ToolNames == "g1" :> "pay-out" @@ "g2" :> "Pay-out"
ChannelStarts ==
    ChannelStart(ToolNames, {}, MaxDay, 0) \/ ChannelStart(ToolNames, {"g1", "g2"}, 0, 1)

\* OAuth: a grant in use at the end of the clock, an application without
\* a grant, and registrations from the beginning of the clock.
LiveApp == [st |-> "live", scope |-> {"read", "write"}]
RevokedApp == [LiveApp EXCEPT !.st = "revoked"]
UsedCode == [app |-> "a1", scope |-> {"read"}, asked |-> {"read", "write"}, st |-> "used", age |-> 2]
FirstToken == [app |-> "a1", scope |-> {"read"}, grant |-> 1, refresh |-> TRUE, st |-> "live", age |-> 0]
OAuthStarts ==
    \/ OAuthStart([a \in Apps |-> LiveApp], <<UsedCode>>, <<FirstToken>>, MaxHalfHours)
    \/ OAuthStart(("a1" :> LiveApp) @@ [a \in Apps |-> RevokedApp], <<>>, <<>>, MaxHalfHours)
    \/ OAuthStart(("a1" :> NoApp) @@ [a \in Apps |-> RevokedApp], <<[UsedCode EXCEPT !.st = "gone"]>>, <<>>, 0)

\* Access: a key, a session about to expire, sessions and a login while the
\* clock stands, and no credential yet.
Credentials(held, free, e) ==
    [c \in Creds |-> IF c \in held THEN [st |-> "live", exp |-> e, gen |-> 0, raced |-> FALSE]
                     ELSE IF c \in free THEN NoRow ELSE [NoRow EXCEPT !.st = "off"]]
AccessStarts ==
    \/ \E e \in {1, Never} : AccessStart(Credentials({"k1"}, {}, e), 0, GateReqs, {})
    \/ AccessStart(Credentials({"s1"}, {}, 2), 0, GateReqs, {})
    \/ AccessStart(Credentials({"s1", "s2"}, {"s3"}, Never), MaxTime, {"q1"}, {"r1"})
    \/ AccessStart(Credentials({}, {"k1", "s1"}, Never), 2, {"q1"}, {"r1"})

\* History: a client that pages through traces that still grow, or that lose
\* rows; rows that expire; a database never swept; spans of rows that are not
\* there yet; and invocations that nest.
KidTables == <<"execution_requests", "user_spans">>
ExecRow(fn, t, p, s) ==
    [NoExec EXCEPT !.st = "stored", !.fn = fn, !.trace = t, !.parent = p, !.start = s]
GoneExec == [NoExec EXCEPT !.st = "gone"]
TraceStarts ==
    \/ TraceStart(<<[ExecRow("f", 1, External, 1) EXCEPT !.st = "running"],
                    ExecRow("g", 1, 1, 2), ExecRow("f", 2, NoParent, 2)>>, {}, {"walk"}, 2)
    \/ TraceStart(<<ExecRow("f", 1, External, 1), [ExecRow("g", 1, 1, 2) EXCEPT !.st = "queued"],
                    ExecRow("f", 2, NoParent, 2)>>, {}, {"walk", "delete"}, 3)
    \/ \E bad \in {{}, {2, 3}} :
         TraceStart([x \in Execs |-> [ExecRow("f", IF x = 3 THEN 2 ELSE x, NoParent, x \div 2) EXCEPT !.failed = x \in bad]],
                    Execs \X Tables, {"retention", "delete", "restart"}, 3)
    \/ TraceStart(<<ExecRow("dropped", 1, NoParent, 0), ExecRow("f", 1, 1, 0), NoExec>>,
                  Execs \X Tables, {"legacy", "restart"}, MaxNow)
    \/ TraceStart(<<NoExec, [ExecRow("f", 2, NoParent, 2) EXCEPT !.st = "running"], GoneExec>>,
                  {}, {"telemetry", "restart", "delete"}, 2)
    \/ TraceStart(<<[ExecRow("f", 1, NoParent, 2) EXCEPT !.st = "running"], NoExec, ExecRow("f", 1, NoParent, 2)>>,
                  {}, {"invoke"}, 2)

\* Upgrade: a client installed by hand, and a server of an older installer
\* whose data directory only its unit names.
NoStamps == [d \in Dirs |-> [r \in Runtimes |-> 0]]
UpgradeStarts ==
    \/ UpgradeStart(NoBuild, NoStamps, [dir |-> "default", record |-> NoDir, unit |-> NoDir])
    \/ UpgradeStart([n |-> 0, kind |-> "server", tag |-> 1],
                    [NoStamps EXCEPT !["custom"] = [r \in Runtimes |-> 1]],
                    [dir |-> "custom", record |-> NoDir, unit |-> "custom"])

ChannelRest == ChannelStart(ToolNames, {}, 0, 0)
OAuthRest == OAuthInit
AccessRest == AccessInit
TraceRest == TraceStart([x \in Execs |-> GoneExec], {}, {}, 0)
UpgradeRest == UpgradeStart(NoBuild, NoStamps, [dir |-> "default", record |-> NoDir, unit |-> NoDir])

ControlInit ==
    \/ part = "channels" /\ ChannelStarts /\ OAuthRest /\ AccessRest /\ TraceRest /\ UpgradeRest
    \/ part = "oauth" /\ ChannelRest /\ OAuthStarts /\ AccessRest /\ TraceRest /\ UpgradeRest
    \/ part = "access" /\ ChannelRest /\ OAuthRest /\ AccessStarts /\ TraceRest /\ UpgradeRest
    \/ part = "traces" /\ ChannelRest /\ OAuthRest /\ AccessRest /\ TraceStarts /\ UpgradeRest
    \/ part = "upgrade" /\ ChannelRest /\ OAuthRest /\ AccessRest /\ TraceRest /\ UpgradeStarts

ControlNext ==
    \/ part = "channels" /\ ChannelNext /\ UNCHANGED <<part, oauthVars, accessVars, traceVars, upgradeVars>>
    \/ part = "oauth" /\ OAuthNext /\ UNCHANGED <<part, channelVars, accessVars, traceVars, upgradeVars>>
    \/ part = "access" /\ AccessNext /\ UNCHANGED <<part, channelVars, oauthVars, traceVars, upgradeVars>>
    \/ part = "traces" /\ TraceNext /\ UNCHANGED <<part, channelVars, oauthVars, accessVars, upgradeVars>>
    \/ part = "upgrade" /\ UpgradeNext /\ UNCHANGED <<part, channelVars, oauthVars, accessVars, traceVars>>

ControlSpec == ControlInit /\ [][ControlNext]_controlVars

-----------------------------------------------------------------------------
(* What the parts say together.                                            *)

ControlTypeOK == ChannelTypeOK /\ OAuthTypeOK /\ AccessTypeOK /\ TraceTypeOK /\ UpgradeTypeOK
=============================================================================

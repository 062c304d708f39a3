------------------------------ MODULE Channels ------------------------------
(***************************************************************************)
(* Agent channels: a bundle of functions behind a bearer token.  The REST  *)
(* handlers that create, edit, rotate and delete a channel, the renames    *)
(* and deletes of the functions in it, and a stateless MCP request that    *)
(* resolves the token and registers one tool for each function.            *)
(*                                                                         *)
(* One channel name is modelled, so a second create meets the UNIQUE       *)
(* constraint.  One action is one SQLite statement or transaction.  A      *)
(* function name is one of a few, with what the two conversions to a tool  *)
(* name make of it.  Descriptions and instructions are left out.           *)
(***************************************************************************)
EXTENDS Integers, FiniteSets

CONSTANTS
  Bundled,      \* functions
  ChannelCalls, \* goroutines that serve REST calls
  MaxIssued,    \* bound on the tokens issued
  MaxChanges,   \* bound on REST calls, renames, deletes and crashes
  MaxDay        \* bound on the clock

ASSUME ChannelsAssumption ==
  /\ IsFiniteSet(Bundled) /\ IsFiniteSet(ChannelCalls)
  /\ MaxIssued \in Nat \ {0} /\ MaxChanges \in Nat /\ MaxDay \in Nat \ {0}

\* No function, no tool name, no expiry.
NoFn == "noFn"
NoTool == "noTool"
NoExpiry == MaxDay + 1

FnNames == {"pay-out", "pay_out", "Pay-out", "mcp-x"}

\* channelToolName: dashes become underscores, and nothing else.
ChannelToolName == [n \in FnNames |->
  CASE n \in {"pay-out", "pay_out"} -> "pay_out" [] n = "Pay-out" -> "Pay_out"
    [] n = "mcp-x" -> "mcp_x"]

\* sanitiseChannelToolName also lowers the case and refuses some prefixes.
SanitisedName == [n \in FnNames |-> IF n = "mcp-x" THEN NoTool ELSE "pay_out"]

VARIABLES
  fnName,   \* name of each function, or NoFn once it is deleted
  channel,  \* the row in channels and its rows in channel_functions
  chCall,   \* what each REST goroutine is doing
  agent,    \* the MCP request
  issued,   \* number of tokens generated
  bound,    \* functions of the last set acknowledged for this channel
  refusals, \* tokens of creates that were answered with an error
  day,      \* the clock
  changes   \* number of calls, renames, deletes and crashes

channelVars == <<fnName, channel, chCall, agent, issued, bound, refusals, day, changes>>

NoChannel == [id |-> 0, token |-> 0, expires |-> NoExpiry, fns |-> {}]
ChannelRows == [id : 0..MaxIssued, token : 0..MaxIssued, expires : 1..NoExpiry,
                fns : SUBSET Bundled]

NoCall == [op |-> "none", at |-> "idle", id |-> 0, want |-> {}, expires |-> NoExpiry]
CallTypes == [op : {"none", "create", "set", "update", "rotate", "delete"},
              at : {"idle", "functions", "names", "insert", "bind", "undo", "write"},
              id : 0..MaxIssued, want : SUBSET Bundled, expires : 1..NoExpiry]

NoAgent == [at |-> "idle", token |-> 0, since |-> 0, id |-> 0, expires |-> NoExpiry,
            offered |-> {}, todo |-> {}, tools |-> {}]

\* Functions that are in the functions table, and channels that are in theirs.
Deployed == {f \in Bundled : fnName[f] # NoFn}
Exists(id) == channel.id = id /\ id # 0

Reach(q, label) == chCall' = [chCall EXCEPT ![q].at = label]
Answer(q) == chCall' = [chCall EXCEPT ![q] = NoCall]

----------------------------------------------------------------------------
(* REST calls.                                                            *)

\* A call arrives; all but Create name a channel, and SetFunctions and
\* Update answer 404 at once when it is not there.
ChannelRequest(q, name) ==
  /\ chCall[q].at = "idle" /\ changes < MaxChanges
  /\ changes' = changes + 1
  /\ \/ /\ name = "create"
        /\ \E want \in SUBSET Bundled \ {{}} :
             chCall' = [chCall EXCEPT ![q] = [NoCall EXCEPT !.op = name, !.at = "functions", !.want = want]]
     \/ /\ name = "set" /\ channel # NoChannel
        /\ \E want \in SUBSET Bundled :
             chCall' = [chCall EXCEPT ![q] = [NoCall EXCEPT !.op = name, !.at = "functions",
                                                            !.id = channel.id, !.want = want]]
     \/ /\ name = "update" /\ channel # NoChannel
        /\ \E e \in {channel.expires, 1} :
             chCall' = [chCall EXCEPT ![q] = [NoCall EXCEPT !.op = name, !.at = "write",
                                                            !.id = channel.id, !.expires = e]]
     \/ /\ name \in {"rotate", "delete"} /\ channel # NoChannel
        /\ chCall' = [chCall EXCEPT ![q] = [NoCall EXCEPT !.op = name, !.at = "write", !.id = channel.id]]
  /\ UNCHANGED <<fnName, channel, agent, issued, bound, refusals, day>>

\* validateChannelFunctions: all of them exist.
ValidateFunctions(q) ==
  /\ chCall[q].at = "functions"
  /\ IF chCall[q].want \subseteq Deployed THEN Reach(q, "names") ELSE Answer(q)
  /\ UNCHANGED <<fnName, channel, agent, issued, bound, refusals, day, changes>>

\* CheckChannelToolNameCollision; a function deleted since is an error too.
Collision(want) ==
  \/ ~(want \subseteq Deployed)
  \/ \E f, g \in want : f # g /\ ChannelToolName[fnName[f]] = ChannelToolName[fnName[g]]

RejectCollision(q) ==
  /\ chCall[q].at = "names"
  /\ IF Collision(chCall[q].want) THEN Answer(q)
     ELSE Reach(q, IF chCall[q].op = "create" THEN "insert" ELSE "bind")
  /\ UNCHANGED <<fnName, channel, agent, issued, bound, refusals, day, changes>>

\* InsertChannel with a fresh id and token, or 409 for the name.
InsertChannel(q) ==
  /\ chCall[q].at = "insert" /\ issued < MaxIssued
  /\ IF channel # NoChannel
     THEN Answer(q) /\ UNCHANGED <<channel, issued>>
     ELSE /\ issued' = issued + 1
          /\ \E e \in {1, NoExpiry} :
               channel' = [id |-> issued + 1, token |-> issued + 1, expires |-> e, fns |-> {}]
          /\ chCall' = [chCall EXCEPT ![q].at = "bind", ![q].id = issued + 1]
  /\ UNCHANGED <<fnName, agent, bound, refusals, day, changes>>

\* The foreign keys of channel_functions hold for the rows of the call.
Bindable(q) ==
  /\ chCall[q].want \subseteq Deployed
  /\ Exists(chCall[q].id) \/ chCall[q].want = {}

\* The transaction of SetChannelFunctions commits and the call is answered.
BindFunctions(q) ==
  /\ chCall[q].at = "bind" /\ Bindable(q)
  /\ IF Exists(chCall[q].id)
     THEN channel' = [channel EXCEPT !.fns = chCall[q].want] /\ bound' = chCall[q].want
     ELSE UNCHANGED <<channel, bound>>
  /\ Answer(q)
  /\ UNCHANGED <<fnName, agent, issued, refusals, day, changes>>

\* Mutant of BindRefused: the failed create leaves its channel behind.
BindRefusedKeeps(q) ==
  /\ chCall[q].at = "bind" /\ ~Bindable(q)
  /\ refusals' = IF chCall[q].op = "create" THEN refusals \cup {chCall[q].id} ELSE refusals
  /\ Answer(q)
  /\ UNCHANGED <<fnName, channel, agent, issued, bound, day, changes>>

\* It rolls back: SetFunctions answers so, Create takes its channel back.
BindRefused(q) ==
  /\ chCall[q].at = "bind" /\ ~Bindable(q)
  /\ IF chCall[q].op = "create" THEN Reach(q, "undo") ELSE Answer(q)
  /\ UNCHANGED <<fnName, channel, agent, issued, bound, refusals, day, changes>>

\* DeleteChannel, whose rows in channel_functions go by the cascade.
Drop(id) ==
  IF Exists(id) THEN channel' = NoChannel /\ bound' = {} ELSE UNCHANGED <<channel, bound>>

UndoCreate(q) ==
  /\ chCall[q].at = "undo"
  /\ Drop(chCall[q].id)
  /\ refusals' = refusals \cup {chCall[q].id}
  /\ Answer(q)
  /\ UNCHANGED <<fnName, agent, issued, day, changes>>

DeleteChannel(q) ==
  /\ chCall[q].at = "write" /\ chCall[q].op = "delete"
  /\ Drop(chCall[q].id)
  /\ Answer(q)
  /\ UNCHANGED <<fnName, agent, issued, refusals, day, changes>>

\* UpdateChannelMetadata writes what was read when the call arrived, or the
\* new expiry it brought.
UpdateChannel(q) ==
  /\ chCall[q].at = "write" /\ chCall[q].op = "update"
  /\ channel' = IF Exists(chCall[q].id)
                THEN [channel EXCEPT !.expires = chCall[q].expires] ELSE channel
  /\ Answer(q)
  /\ UNCHANGED <<fnName, agent, issued, bound, refusals, day, changes>>

RotateChannel(q) ==
  /\ chCall[q].at = "write" /\ chCall[q].op = "rotate"
  /\ IF Exists(chCall[q].id)
     THEN issued < MaxIssued /\ issued' = issued + 1 /\ channel' = [channel EXCEPT !.token = issued']
     ELSE UNCHANGED <<issued, channel>>
  /\ Answer(q)
  /\ UNCHANGED <<fnName, agent, bound, refusals, day, changes>>

----------------------------------------------------------------------------
(* The functions, the clock and the daemon.                               *)

RenameFunction(f, n) ==
  /\ changes < MaxChanges /\ f \in Deployed /\ \A g \in Bundled : fnName[g] # n
  /\ fnName' = [fnName EXCEPT ![f] = n]
  /\ changes' = changes + 1
  /\ UNCHANGED <<channel, chCall, agent, issued, bound, refusals, day>>

DeleteFunction(f) ==
  /\ changes < MaxChanges /\ f \in Deployed
  /\ fnName' = [fnName EXCEPT ![f] = NoFn]
  /\ channel' = [channel EXCEPT !.fns = @ \ {f}]
  /\ changes' = changes + 1
  /\ UNCHANGED <<chCall, agent, issued, bound, refusals, day>>

NextDay ==
  /\ day < MaxDay /\ day' = day + 1
  /\ UNCHANGED <<fnName, channel, chCall, agent, issued, bound, refusals, changes>>

\* A crash ends every call where it is; the rows stay.
CrashCalls ==
  /\ changes < MaxChanges
  /\ changes' = changes + 1
  /\ chCall' = [q \in ChannelCalls |-> NoCall] /\ agent' = NoAgent
  /\ UNCHANGED <<fnName, channel, issued, bound, refusals, day>>

----------------------------------------------------------------------------
(* The MCP request of an agent.                                           *)

\* The agent presents a token, perhaps one that was rotated away.
Present(t) ==
  /\ agent.at = "idle" /\ t =< issued
  /\ agent' = [NoAgent EXCEPT !.at = "row", !.token = t, !.since = channel.token]
  /\ UNCHANGED <<fnName, channel, chCall, issued, bound, refusals, day, changes>>

\* GetChannelByTokenHash: the row ...
TokenRow ==
  /\ agent.at = "row"
  /\ agent' = IF channel # NoChannel /\ channel.token = agent.token
              THEN [agent EXCEPT !.at = "ids", !.id = channel.id, !.expires = channel.expires]
              ELSE NoAgent
  /\ UNCHANGED <<fnName, channel, chCall, issued, bound, refusals, day, changes>>

\* IsActive.
IsActive(e) == e >= day

\* ... then its functions, whatever became of the channel in between.
ChannelFunctions ==
  /\ agent.at = "ids"
  /\ agent' = IF IsActive(agent.expires)
              THEN [agent EXCEPT !.at = "tools", !.offered = IF Exists(agent.id) THEN bound ELSE {},
                                 !.todo = IF Exists(agent.id) THEN channel.fns ELSE {}]
              ELSE NoAgent
  /\ UNCHANGED <<fnName, channel, chCall, issued, bound, refusals, day, changes>>

\* registerChannelTools, one function at a time: it is skipped when it is
\* gone, when its name cannot be a tool's, and when the tool name is taken.
RegisterTool(f) ==
  /\ agent.at = "tools" /\ f \in agent.todo
  /\ LET tool == IF f \in Deployed THEN SanitisedName[fnName[f]] ELSE NoTool
         taken == {t.name : t \in agent.tools}
     IN agent' = [agent EXCEPT !.todo = @ \ {f},
                    !.tools = IF tool \in taken \cup {NoTool} THEN @
                              ELSE @ \cup {[name |-> tool, fn |-> f]}]
  /\ UNCHANGED <<fnName, channel, chCall, issued, bound, refusals, day, changes>>

\* The request is served with these tools and ends.
ServeAgent ==
  /\ agent.at = "tools" /\ agent.todo = {}
  /\ agent' = NoAgent
  /\ UNCHANGED <<fnName, channel, chCall, issued, bound, refusals, day, changes>>

----------------------------------------------------------------------------
\* The functions have these names, and fns is bundled already unless it is
\* empty; day d has come and n changes are spent.
ChannelStart(names, fns, d, n) ==
  /\ fnName = names /\ bound = fns
  /\ channel = IF fns = {} THEN NoChannel
               ELSE [id |-> 1, token |-> 1, expires |-> NoExpiry, fns |-> fns]
  /\ issued = IF fns = {} THEN 0 ELSE 1
  /\ chCall = [q \in ChannelCalls |-> NoCall] /\ agent = NoAgent
  /\ refusals = {} /\ day = d /\ changes = n

\* No channel yet; the names of functions are unique.
ChannelInit ==
  \E names \in [Bundled -> FnNames] :
    /\ \A f, g \in Bundled : names[f] = names[g] => f = g
    /\ ChannelStart(names, {}, 0, 0)

ChannelNext ==
  \/ \E q \in ChannelCalls :
       \/ \E name \in {"create", "set", "update", "rotate", "delete"} : ChannelRequest(q, name)
       \/ ValidateFunctions(q) \/ RejectCollision(q) \/ InsertChannel(q)
       \/ BindFunctions(q) \/ BindRefused(q) \/ UndoCreate(q)
       \/ UpdateChannel(q) \/ RotateChannel(q) \/ DeleteChannel(q)
  \/ \E f \in Bundled : DeleteFunction(f) \/ RegisterTool(f) \/ \E n \in FnNames : RenameFunction(f, n)
  \/ NextDay \/ CrashCalls
  \/ \E t \in 1..MaxIssued : Present(t)
  \/ TokenRow \/ ChannelFunctions \/ ServeAgent

ChannelSpec == ChannelInit /\ [][ChannelNext]_channelVars

----------------------------------------------------------------------------
(* Properties.                                                            *)

\* Every variable has its type.
ChannelTypeOK ==
  /\ fnName \in [Bundled -> FnNames \cup {NoFn}]
  /\ channel \in ChannelRows /\ chCall \in [ChannelCalls -> CallTypes]
  /\ issued \in 0..MaxIssued /\ bound \subseteq Bundled /\ refusals \subseteq 1..MaxIssued
  /\ day \in 0..MaxDay /\ changes \in 0..MaxChanges
  /\ agent.at \in {"idle", "row", "ids", "tools"}
  /\ agent.token \in 0..MaxIssued /\ agent.todo \subseteq Bundled

\* A create that was answered with an error leaves no channel (Create undoes
\* its own insert), a channel bundles exactly what was last acknowledged for
\* it and still exists (SetChannelFunctions is one transaction under two
\* foreign keys), and an agent gets distinct tools, for functions that were
\* acknowledged, with a token that was not yet rotated away when it called
\* (two queries and a loop over functions that are renamed meanwhile).
ChannelSafe ==
  /\ channel.id \notin refusals
  /\ channel # NoChannel => channel.fns = bound \cap Deployed
  /\ agent.at = "tools" =>
       /\ agent.token >= agent.since
       /\ {t.fn : t \in agent.tools} \subseteq agent.offered
       /\ \A t, u \in agent.tools : t.name = u.name => t = u
=============================================================================

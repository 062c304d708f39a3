-------------------------------- MODULE Chat --------------------------------
(***************************************************************************)
(* The chat assistant: ai.Manager with its one-turn lock, its gateway and  *)
(* its settings (ai/manager.go), the agentic loop with human approvals     *)
(* (ai/agent/agent.go), and the rows of one conversation                   *)
(* (database/ai_chat.go) behind the handlers of server/ai_handler.go.      *)
(*                                                                         *)
(* A message is its role, the tool calls it asks for or the one it         *)
(* answers; what is said in it is left out.  A tool is what the gate tells *)
(* apart; "broken" is a call whose arguments are not JSON.  The model      *)
(* answers with a batch of calls, with a final answer, or with an error.   *)
(***************************************************************************)
EXTENDS Naturals, Sequences, FiniteSets, SequencesExt

CONSTANTS
    ChatReqs,          \* HTTP requests that want a turn
    Batches,           \* the batches of calls the model may ask for
    Policies,          \* approval policies an operator chooses
    MaxIterations,     \* maxToolIterationsPerTurn
    MaxRepeats,        \* maxRepeatedToolFailures
    MaxSaves           \* bound on provider and settings writes, and on restarts

Tools == {"read", "write", "destructive", "unknown", "broken"}

ASSUME ChatAssumption ==
    /\ Batches \subseteq Seq(Tools)
    /\ Policies \subseteq {"all_writes", "destructive_only", "auto"} /\ Policies # {}
    /\ {MaxIterations, MaxRepeats} \subseteq Nat \ {0} /\ MaxSaves \in Nat

VARIABLES
    conv,       \* the conversation's row: none, live or gone
    convBusy,   \* whether convBusy holds the conversation
    messages,   \* ai_messages in order of seq
    inserted,   \* messages ever inserted, for their ids
    calls,      \* ai_tool_calls in order of creation
    turn,       \* the requests
    gateway,    \* the shared client, the dirty flag, and the provider rows
    settings,   \* ai_settings: the policy and the selection
    saving,     \* a settings or provider write under way
    saves       \* writes and restarts so far

chatVars == <<conv, convBusy, messages, inserted, calls, turn, gateway, settings, saving, saves>>
rowsOfChat == <<conv, messages, inserted, calls>>
aside == <<gateway, settings, saving, saves>>

-----------------------------------------------------------------------------
\* A write of provider rows, of the selection or of the settings under way.
Savers == {"provider", "selection", "settings"}
NoSave == [on |-> FALSE, policy |-> "", sel |-> 0]
NoSaves == [w \in Savers |-> NoSave]
\* deadline says whether the turn's context has one; hist is the history in
\* memory, streak the failures in a row of each tool.
NewTurn == [pc |-> "new", kind |-> "", cancelled |-> FALSE, deadline |-> FALSE,
            policy |-> "", call |-> 0, yes |-> FALSE,
            at |-> 0, batch |-> <<>>, hist |-> <<>>, iter |-> 0, paused |-> FALSE, failed |-> {},
            streak |-> [t \in Tools |-> 0], may |-> {}]
NeverTurn == [NewTurn EXCEPT !.pc = "end"]
User == [id |-> inserted + 1, role |-> "user", calls |-> <<>>, text |-> TRUE]
Placeholder == [id |-> inserted + 1, role |-> "assistant", calls |-> <<>>, text |-> FALSE]
\* persistToolResult: the message by which the model learns of a result.
ToolMessage(c) == [id |-> inserted + 1, role |-> "tool", calls |-> <<c>>, text |-> TRUE]
\* The ghosts: runs counts dispatches, decided is the human's word.
CallRow(m, t, g) == [msg |-> m, tool |-> t, gated |-> g, st |-> IF g THEN "pending_approval" ELSE "running",
                     runs |-> 0, decided |-> "none"]
Locked == {"build", "cut", "user", "decide", "run", "dispatch", "check", "load", "ask", "stream", "process", "unlock"}

Statuses == {"pending_approval", "approved", "rejected", "running", "succeeded", "failed", "gone"}
Kinds == {"chat", "resume", "regenerate", "edit", "delete"}
ChatMessages == [id : Nat, role : {"user", "assistant", "tool"}, calls : Seq(Nat \ {0}), text : BOOLEAN]
ToolCalls == [msg : Nat, tool : Tools, gated : BOOLEAN, st : Statuses, runs : Nat, decided : {"none", "yes", "no"}]
Turns == [pc : Locked \cup {"new", "lock", "end"}, kind : Kinds \cup {""}, cancelled : BOOLEAN, deadline : BOOLEAN,
          policy : Policies \cup {""}, call : Nat, yes : BOOLEAN, at : Nat, batch : Seq(Tools), hist : Seq(ChatMessages),
          iter : 0 .. MaxIterations, paused : BOOLEAN, failed : SUBSET Tools, streak : [Tools -> Nat], may : SUBSET Kinds]

ChatTypeOK ==
    /\ conv \in {"none", "live", "gone"} /\ convBusy \in BOOLEAN /\ inserted \in Nat
    /\ messages \in Seq(ChatMessages) /\ calls \in Seq(ToolCalls) /\ turn \in [ChatReqs -> Turns]
    /\ gateway \in [open : Nat, dirty : BOOLEAN, rows : Nat] /\ settings \in [policy : Policies, sel : Nat]
    /\ saving \in [Savers -> [on : BOOLEAN, policy : Policies \cup {""}, sel : Nat]]
    /\ \A w \in {"selection", "settings"} : saving[w].on => saving[w].policy \in Policies
    /\ saves \in 0 .. MaxSaves

\* A conversation as it is found, its policy, what each request may ask, and
\* the writes done.
ChatStart(msgs, rows, p, may, n) ==
    /\ conv = IF msgs = <<>> THEN "none" ELSE "live"
    /\ convBusy = FALSE /\ messages = msgs /\ inserted = Len(msgs) /\ calls = rows
    /\ turn = [r \in ChatReqs |-> IF may[r] = {} THEN NeverTurn ELSE [NewTurn EXCEPT !.may = may[r]]]
    /\ gateway = [open |-> 0, dirty |-> TRUE, rows |-> 1]
    /\ settings = [policy |-> p, sel |-> 0]
    /\ saving = NoSaves /\ saves = n

ChatInit == \E p \in Policies : ChatStart(<<>>, <<>>, p, [r \in ChatReqs |-> Kinds], 0)

-----------------------------------------------------------------------------
(* What the rows say.                                                      *)

\* InsertMessage takes the next seq; the foreign key refuses the row when the
\* conversation is gone.
InsertMessage(m) ==
    IF conv = "live" THEN messages' = Append(messages, m) /\ inserted' = inserted + 1
    ELSE UNCHANGED <<messages, inserted>>

\* loadHistory: every message but the assistant's blank ones.
Said(m) == m.role # "assistant" \/ m.text \/ m.calls # <<>>
SaidAt(s) == {i \in DOMAIN s : Said(s[i])}
Nth(S, k) == CHOOSE i \in S : Cardinality({j \in S : j <= i}) = k
HistoryOf(s) == [k \in 1 .. Cardinality(SaidAt(s)) |-> s[Nth(SaidAt(s), k)]]
History == HistoryOf(messages)

\* DeleteMessagesFromSeq removes the messages from i on and the calls of theirs.
Gone(S) == [c \in DOMAIN calls |-> IF calls[c].msg \in S THEN [calls[c] EXCEPT !.st = "gone"] ELSE calls[c]]
MsgIds(s) == {m.id : m \in Range(s)}

DeleteMessagesFromSeq(i) ==
    /\ messages' = SubSeq(messages, 1, i - 1)
    /\ calls' = Gone(MsgIds(SubSeq(messages, i, Len(messages))))

\* A gate keyed on the policy of the turn: reads and unknown tools never wait.
ApprovalNeeded(t, policy) ==
    CASE t \in {"read", "unknown"} -> FALSE
      [] policy = "auto" -> FALSE
      [] policy = "destructive_only" -> t = "destructive"
      [] OTHER -> TRUE

\* UpdateToolCall moves the row if it is still there.
UpdateToolCall(c, st) == [calls EXCEPT ![c].st = IF @ = "gone" THEN @ ELSE st]

HasPendingForMessage(m) ==
    \E c \in DOMAIN calls : calls[c].msg = m /\ calls[c].st = "pending_approval"

-----------------------------------------------------------------------------
(* A request on its way to the lock.                                       *)

Goto(r, pc) == turn' = [turn EXCEPT ![r].pc = pc]

\* Chat reads the settings and creates the conversation of a first message.
Chat(r) ==
    /\ turn[r].pc = "new" /\ "chat" \in turn[r].may
    /\ conv' = IF conv = "none" THEN "live" ELSE conv
    /\ turn' = [turn EXCEPT ![r] = [@ EXCEPT !.pc = "lock", !.kind = "chat", !.policy = settings.policy]]
    /\ UNCHANGED <<convBusy, messages, inserted, calls, aside>>

\* ApproveTool and RejectTool look the call up for its conversation.
ResumeTurn(r, c, yes) ==
    /\ turn[r].pc = "new" /\ "resume" \in turn[r].may /\ calls[c].st # "gone"
    /\ turn' = [turn EXCEPT ![r] = [@ EXCEPT !.pc = "lock", !.kind = "resume", !.call = c, !.yes = yes]]
    /\ UNCHANGED <<convBusy, rowsOfChat, aside>>

\* Regenerate, EditMessage and DeleteMessage name a conversation; the last
\* two name a message as well.
Truncation(r, kind, i) ==
    /\ turn[r].pc = "new" /\ kind \in turn[r].may /\ conv # "none"
    /\ turn' = [turn EXCEPT ![r] = [@ EXCEPT !.pc = "lock", !.kind = kind, !.at = i]]
    /\ UNCHANGED <<convBusy, rowsOfChat, aside>>

Ended(r) == [NeverTurn EXCEPT !.kind = turn[r].kind]

\* Mutant of Bounded: nothing has a deadline.
Unbounded(kind) == FALSE

\* Which turns are given maxTurnDuration.
Bounded(kind) == kind \notin {"edit", "delete"}

\* tryLockConv: a turn in flight refuses the others.
TryLockConv(r) ==
    /\ turn[r].pc = "lock"
    /\ IF convBusy
       THEN turn' = [turn EXCEPT ![r] = Ended(r)] /\ UNCHANGED convBusy
       ELSE /\ convBusy' = TRUE
            /\ turn' = [turn EXCEPT ![r].pc = IF turn[r].kind \in {"chat", "resume"} THEN "build" ELSE "cut",
                                    ![r].deadline = Bounded(turn[r].kind)]
    /\ UNCHANGED <<rowsOfChat, aside>>

UnlockConv(r) ==
    /\ turn[r].pc = "unlock"
    /\ convBusy' = FALSE /\ turn' = [turn EXCEPT ![r] = Ended(r)]
    /\ UNCHANGED <<rowsOfChat, aside>>

\* RegenerateLast: from the last message of the user.
RegenerateLast(r) ==
    /\ turn[r].pc = "cut" /\ turn[r].kind = "regenerate"
    /\ LET U == {i \in DOMAIN messages : messages[i].role = "user"}
       IN  IF U = {} THEN Goto(r, "unlock") /\ UNCHANGED <<messages, calls>>
           ELSE /\ DeleteMessagesFromSeq(CHOOSE i \in U : \A j \in U : j <= i)
                /\ Goto(r, "build")
    /\ UNCHANGED <<conv, convBusy, inserted, aside>>

\* Where the message a request named is.
Position(m) == {i \in DOMAIN messages : messages[i].id = m}

\* EditAndResend: from a message of the user, which is sent again.
EditAndResend(r) ==
    /\ turn[r].pc = "cut" /\ turn[r].kind = "edit"
    /\ \/ \E i \in Position(turn[r].at) :
            messages[i].role = "user" /\ DeleteMessagesFromSeq(i) /\ Goto(r, "build")
       \/ /\ \A i \in Position(turn[r].at) : messages[i].role # "user"
          /\ Goto(r, "unlock") /\ UNCHANGED <<messages, calls>>
    /\ UNCHANGED <<conv, convBusy, inserted, aside>>

\* DeleteMessageFrom: from any message, and no turn follows.
DeleteMessageFrom(r) ==
    /\ turn[r].pc = "cut" /\ turn[r].kind = "delete"
    /\ \/ \E i \in Position(turn[r].at) : DeleteMessagesFromSeq(i)
       \/ Position(turn[r].at) = {} /\ UNCHANGED <<messages, calls>>
    /\ Goto(r, "unlock")
    /\ UNCHANGED <<conv, convBusy, inserted, aside>>

-----------------------------------------------------------------------------
(* The turn.                                                               *)

\* getClient closes a dirty gateway and builds one from the rows of now;
\* buildRunner fails when the provider's endpoint is blocked.
GetClient == IF gateway.dirty \/ gateway.open = 0 THEN [gateway EXCEPT !.open = gateway.rows, !.dirty = FALSE] ELSE gateway

BuildRunner(r, policy, pc) ==
    /\ turn[r].pc = "build"
    /\ \/ Goto(r, "unlock") /\ UNCHANGED gateway
       \/ gateway' = GetClient /\ turn' = [turn EXCEPT ![r].pc = pc, ![r].policy = policy]
    /\ UNCHANGED <<convBusy, rowsOfChat, settings, saving, saves>>

\* Chat read the settings before it had the lock, the others read them now.
ChatRunner(r) == turn[r].kind = "chat" /\ BuildRunner(r, turn[r].policy, "user")
RunTurn(r) == turn[r].kind \in {"regenerate", "edit"} /\ BuildRunner(r, settings.policy, "user")
Resume(r) == turn[r].kind = "resume" /\ BuildRunner(r, settings.policy, "decide")

\* Run stores the user's message.
Run(r) ==
    /\ turn[r].pc = "user"
    /\ InsertMessage(User) /\ Goto(r, IF conv = "live" THEN "load" ELSE "unlock")
    /\ UNCHANGED <<conv, convBusy, calls, aside>>

\* Mutant of AwaitsApproval: the look at the call before the lock is trusted.
SeenBefore(r) == TRUE

\* Resume reads the call again under the lock.
AwaitsApproval(r) == calls[turn[r].call].st = "pending_approval"

ResumeDecide(r) ==
    /\ turn[r].pc = "decide"
    /\ LET c == turn[r].call
           Decided(st, word) == calls' = [UpdateToolCall(c, st) EXCEPT ![c].decided = word]
       IN  \/ ~AwaitsApproval(r) /\ Goto(r, "unlock") /\ UNCHANGED <<messages, inserted, calls>>
           \/ /\ AwaitsApproval(r) /\ turn[r].yes
              /\ Decided("approved", "yes") /\ Goto(r, "run") /\ UNCHANGED <<messages, inserted>>
           \/ /\ AwaitsApproval(r) /\ ~turn[r].yes
              /\ Decided("rejected", "no") /\ InsertMessage(ToolMessage(c)) /\ Goto(r, "check")
    /\ UNCHANGED <<conv, convBusy, aside>>

\* runToolCall: not for a client that left; arguments that are not JSON fail
\* here.  call is the row at hand, in Resume and in the batch.
After(r) == IF turn[r].kind = "resume" /\ turn[r].iter = 0 THEN "check" ELSE "process"

Finish(r, c, st) ==
    /\ calls' = UpdateToolCall(c, st)
    /\ InsertMessage(ToolMessage(c))
    /\ turn' = [turn EXCEPT ![r] = [@ EXCEPT !.pc = After(r),
                                            !.failed = turn[r].failed \cup (IF st = "failed" THEN {calls[c].tool} ELSE {}),
                                            !.hist = IF After(r) = "check" THEN turn[r].hist
                                                    ELSE Append(turn[r].hist, ToolMessage(c))]]

RunToolCall(r) ==
    /\ turn[r].pc = "run"
    /\ LET c == turn[r].call
       IN  \/ turn[r].cancelled /\ Goto(r, After(r)) /\ UNCHANGED <<messages, inserted, calls>>
           \/ ~turn[r].cancelled /\ calls[c].tool = "broken" /\ Finish(r, c, "failed")
           \/ /\ ~turn[r].cancelled /\ calls[c].tool # "broken"
              /\ calls' = [UpdateToolCall(c, "running") EXCEPT ![c].runs = @ + 1]
              /\ Goto(r, "dispatch") /\ UNCHANGED <<messages, inserted>>
    /\ UNCHANGED <<conv, convBusy, aside>>

\* The tool answers; one nobody knows fails.
Dispatched(r) ==
    /\ turn[r].pc = "dispatch"
    /\ \E st \in {"succeeded", "failed"} :
         (calls[turn[r].call].tool = "unknown" => st = "failed") /\ Finish(r, turn[r].call, st)
    /\ UNCHANGED <<conv, convBusy, aside>>

\* The turn goes on when the message has no call left to decide.
ResumeCheck(r) ==
    /\ turn[r].pc = "check"
    /\ Goto(r, IF HasPendingForMessage(calls[turn[r].call].msg) THEN "unlock" ELSE "load")
    /\ UNCHANGED <<convBusy, rowsOfChat, aside>>

LoadHistory(r) ==
    /\ turn[r].pc = "load"
    /\ turn' = [turn EXCEPT ![r].hist = History, ![r].pc = "ask", ![r].failed = {}]
    /\ UNCHANGED <<convBusy, rowsOfChat, aside>>

\* Mutant of MayAsk: one iteration too many.
MayAskOnceMore(r) == turn[r].iter <= MaxIterations /\ ~turn[r].cancelled

\* The budget of iterations, and a client that is still there.
MayAsk(r) == turn[r].iter < MaxIterations /\ ~turn[r].cancelled

\* advance, at the top of its loop: the budget, a client that left, a
\* provider that refuses; else a placeholder is stored for the answer.
Ask(r) ==
    /\ turn[r].pc = "ask"
    /\ \/ Goto(r, "unlock") /\ UNCHANGED <<messages, inserted>>
       \/ /\ MayAsk(r)
          /\ InsertMessage(Placeholder)
          /\ turn' = [turn EXCEPT ![r] = IF conv = "live"
                                         THEN [@ EXCEPT !.pc = "stream", !.iter = turn[r].iter + 1, !.at = inserted + 1]
                                         ELSE [@ EXCEPT !.pc = "unlock"]]
    /\ UNCHANGED <<conv, convBusy, calls, aside>>

\* finalizeAssistant writes the answer over the placeholder, if it is there.
UpdateMessage(m, batch, text) ==
    messages' = [i \in DOMAIN messages |-> IF messages[i].id = m
                                           THEN [messages[i] EXCEPT !.calls = batch, !.text = text] ELSE messages[i]]

\* The stream breaks: the provider fails, the client left, the deadline
\* passed, or another turn closed the gateway.
StreamBreaks(r) ==
    /\ turn[r].pc = "stream"
    /\ UpdateMessage(turn[r].at, <<>>, FALSE) /\ Goto(r, "unlock")
    /\ UNCHANGED <<conv, convBusy, inserted, calls, aside>>

\* The model ends its answer.  The numbers of the calls are those their rows
\* will have.
StreamEnds(r, b) ==
    /\ turn[r].pc = "stream"
    /\ LET ns == [k \in DOMAIN b |-> Len(calls) + k]
       IN  /\ UpdateMessage(turn[r].at, ns, b = <<>>)
           /\ turn' = [turn EXCEPT ![r] = [@ EXCEPT !.pc = IF b = <<>> THEN "unlock" ELSE "process", !.batch = b,
                                                   !.paused = FALSE, !.failed = {},
                                                   !.hist = Append(turn[r].hist, [id |-> turn[r].at, role |-> "assistant",
                                                                                  calls |-> ns, text |-> b = <<>>])]]
    /\ UNCHANGED <<conv, convBusy, inserted, calls, aside>>

\* processToolCalls, one call: a gated one waits, the others run at once.
ProcessCall(r) ==
    /\ turn[r].pc = "process" /\ turn[r].batch # <<>>
    /\ LET t == Head(turn[r].batch)
           g == ApprovalNeeded(t, turn[r].policy)
           row == CallRow(turn[r].at, t, g)
       IN  /\ calls' = Append(calls, IF conv = "live" THEN row ELSE [row EXCEPT !.st = "gone"])
           /\ turn' = [turn EXCEPT ![r] = [@ EXCEPT !.batch = Tail(turn[r].batch), !.call = Len(calls) + 1,
                                                   !.paused = turn[r].paused \/ g, !.pc = IF g THEN "process" ELSE "run"]]
    /\ UNCHANGED <<conv, convBusy, messages, inserted, aside>>

\* The batch is over: the turn waits for the human, stops because the same
\* call keeps failing, or goes on.
Streaks(r) == [t \in Tools |-> IF t \in turn[r].failed THEN turn[r].streak[t] + 1 ELSE 0]

BatchEnds(r) ==
    /\ turn[r].pc = "process" /\ turn[r].batch = <<>>
    /\ turn' = [turn EXCEPT ![r] = IF turn[r].paused \/ \E t \in Tools : Streaks(r)[t] >= MaxRepeats
                                   THEN [@ EXCEPT !.pc = "unlock"]
                                   ELSE [@ EXCEPT !.pc = "ask", !.streak = Streaks(r)]]
    /\ UNCHANGED <<convBusy, rowsOfChat, aside>>

-----------------------------------------------------------------------------
(* What happens beside the turns.                                          *)

\* The client leaves.
Disconnect(r) ==
    /\ turn[r].pc \in Locked /\ ~turn[r].cancelled /\ turn[r].kind # "delete"
    /\ turn' = [turn EXCEPT ![r].cancelled = TRUE]
    /\ UNCHANGED <<convBusy, rowsOfChat, aside>>

\* maxTurnDuration passes.
DeadlinePasses(r) == turn[r].deadline /\ Disconnect(r)

DeleteConversation ==
    /\ conv = "live" /\ conv' = "gone" /\ messages' = <<>>
    /\ calls' = [c \in DOMAIN calls |-> [calls[c] EXCEPT !.st = "gone"]]
    /\ UNCHANGED <<convBusy, inserted, turn, aside>>

\* DeleteAllConversations refuses while a turn is in flight.
DeleteAllConversations == ~convBusy /\ DeleteConversation

Begin(w, policy, sel) ==
    /\ ~saving[w].on /\ saves < MaxSaves /\ saves' = saves + 1
    /\ saving' = [saving EXCEPT ![w] = [on |-> TRUE, policy |-> policy, sel |-> sel]]
    /\ UNCHANGED <<convBusy, rowsOfChat, turn, settings>>

Saved(w) ==
    /\ saving[w].on /\ saving' = [saving EXCEPT ![w] = NoSave]
    /\ UNCHANGED <<convBusy, rowsOfChat, turn, saves>>

\* UpsertSettings writes the whole row.
UpsertSettings(w) == settings' = [policy |-> saving[w].policy, sel |-> saving[w].sel] /\ UNCHANGED gateway

\* SaveProvider and DeleteProvider write the row, then mark the gateway.
SaveProvider == Begin("provider", "", 0) /\ gateway' = [gateway EXCEPT !.rows = @ + 1]

\* Mutant of InvalidateClient: an open client is left alone.
InvalidateClosed == gateway' = IF gateway.open = 0 THEN [gateway EXCEPT !.dirty = TRUE] ELSE gateway

InvalidateClient == gateway' = [gateway EXCEPT !.dirty = TRUE]

ProviderSaved == Saved("provider") /\ InvalidateClient /\ UNCHANGED settings

\* SetAISelection reads the row and writes it back with a new selection.
SelectionRead == Begin("selection", settings.policy, settings.sel + 1) /\ UNCHANGED gateway

SetAISelection == Saved("selection") /\ UpsertSettings("selection")

\* SaveSettings reads the selection and writes a row with a new policy.
SettingsRead(p) == Begin("settings", p, settings.sel) /\ UNCHANGED gateway

SaveSettings == Saved("settings") /\ UpsertSettings("settings")

\* The daemon restarts: the turns and their locks are gone, the rows stay.
ChatRestart ==
    /\ saves < MaxSaves /\ saves' = saves + 1
    /\ turn' = [r \in ChatReqs |-> IF turn[r].pc = "new" THEN turn[r] ELSE Ended(r)]
    /\ convBusy' = FALSE /\ saving' = NoSaves /\ gateway' = [gateway EXCEPT !.open = 0, !.dirty = TRUE]
    /\ UNCHANGED <<rowsOfChat, settings>>

-----------------------------------------------------------------------------
Arrive(r) ==
    \/ Chat(r)
    \/ \E c \in DOMAIN calls, yes \in BOOLEAN : ResumeTurn(r, c, yes)
    \/ Truncation(r, "regenerate", 0)
    \/ \E m \in MsgIds(messages), kind \in {"edit", "delete"} : Truncation(r, kind, m)

\* What a turn does without the model and without its client.
TurnStep(r) ==
    \/ TryLockConv(r) \/ UnlockConv(r) \/ RegenerateLast(r) \/ EditAndResend(r) \/ DeleteMessageFrom(r)
    \/ ChatRunner(r) \/ RunTurn(r) \/ Resume(r) \/ Run(r) \/ ResumeDecide(r) \/ RunToolCall(r) \/ Dispatched(r) \/ ResumeCheck(r)
    \/ LoadHistory(r) \/ Ask(r) \/ ProcessCall(r) \/ BatchEnds(r)

ChatNext ==
    \/ \E r \in ChatReqs :
         \/ Arrive(r) \/ TurnStep(r) \/ StreamBreaks(r) \/ (\E b \in Batches : StreamEnds(r, b))
         \/ Disconnect(r) \/ DeadlinePasses(r)
    \/ DeleteConversation \/ DeleteAllConversations \/ SaveProvider \/ ProviderSaved
    \/ SelectionRead \/ SetAISelection \/ (\E p \in Policies : SettingsRead(p)) \/ SaveSettings \/ ChatRestart

\* The daemon does its own work, the clock goes on, and a stream whose context
\* has ended breaks.  The model and the client owe nothing.
ChatFair(r) == TurnStep(r) \/ (turn[r].pc = "stream" /\ turn[r].cancelled /\ StreamBreaks(r))
StreamTimesOut(r) == turn[r].pc = "stream" /\ DeadlinePasses(r)

ChatFairness == \A r \in ChatReqs : WF_chatVars(ChatFair(r)) /\ WF_chatVars(StreamTimesOut(r))

ChatSpec == ChatInit /\ [][ChatNext]_chatVars /\ ChatFairness

-----------------------------------------------------------------------------
(* What it promises.                                                       *)

\* One turn at a time holds the conversation, so the messages are never
\* interleaved.
OneTurn == Cardinality({r \in ChatReqs : turn[r].pc \in Locked}) = IF convBusy THEN 1 ELSE 0

\* A call that waits for the human runs once, after a yes to that very call,
\* whoever else decides, truncates, deletes or restarts meanwhile.
RunsOnceWithConsent ==
    \A c \in DOMAIN calls : /\ calls[c].runs <= 1
                            /\ calls[c].gated /\ calls[c].runs > 0 => calls[c].decided = "yes"

\* The history in memory is what loadHistory would build from the rows.
MirrorExact ==
    \A r \in ChatReqs : turn[r].pc = "ask" /\ conv = "live" /\ ~turn[r].cancelled => turn[r].hist = History

\* A result the model is shown belongs to one call made before it.
ResultsHaveCalls ==
    \A i \in DOMAIN messages : messages[i].role = "tool" =>
        /\ \E j \in 1 .. i - 1 : messages[j].role = "assistant" /\ messages[i].calls[1] \in Range(messages[j].calls)
        /\ \A k \in DOMAIN messages : messages[k].role = "tool" /\ messages[k].calls = messages[i].calls => k = i

\* When no provider write is under way, a gateway not marked dirty was built
\* from the rows of now (ai/manager.go, getClient and invalidateClient).
GatewayFresh == ~saving["provider"].on /\ gateway.open > 0 /\ ~gateway.dirty => gateway.open = gateway.rows

\* The assistant keeps to what its operator and its model rely on: one turn at
\* a time, no gated tool without consent or twice, a history that is the
\* stored one, and a gateway with the credentials of now.
ChatSafe == OneTurn /\ RunsOnceWithConsent /\ MirrorExact /\ ResultsHaveCalls /\ GatewayFresh

\* A turn that got the lock gives it back, however long the model is silent;
\* a turn after an edit has no deadline and is left out.
TurnGivesBack ==
    \A r \in ChatReqs : (turn[r].pc \in Locked /\ turn[r].kind # "edit") ~> (turn[r].pc = "end")

\* Violated.  "touches only the selection fields, leaving the rest of the
\* settings row intact": saving a selection does not change the policy.
SelectionLeavesPolicy == [][SetAISelection => settings'.policy = settings.policy]_chatVars
=============================================================================

------------------------------- MODULE Access -------------------------------
(***************************************************************************)
(* Sessions and API keys: the gate of /api/v1 with its two memos           *)
(* (server/middleware_auth.go), the ways a session or a key begins and     *)
(* ends (handlers/auth.go, handlers/keys.go, mcp/tools_keys.go,            *)
(* database/users.go, database/keys.go), and /mcp, which asks the database *)
(* each time (mcp/auth.go).                                                *)
(*                                                                         *)
(* A credential is its row: its token or hash is its name.  The operator   *)
(* has one account; gen counts its passwords.  Permissions never change    *)
(* and are left out.                                                       *)
(***************************************************************************)
EXTENDS Naturals, FiniteSets

CONSTANTS
    Sessions, Keys,   \* rows of the two tables
    GateReqs,         \* requests at the gate
    AuthReqs,         \* logins and session refreshes under way
    MemoTTL,          \* sessionCacheTTL and keyCacheTTL
    MaxTime,          \* bound on time
    MaxGen            \* bound on password changes

ASSUME AccessAssumption ==
    /\ Sessions \cap Keys = {} /\ "none" \notin Sessions \cup Keys
    /\ MemoTTL \in Nat \ {0} /\ MaxTime \in Nat /\ MaxGen \in Nat

VARIABLES
    rows,       \* sessions and api_keys
    memo,       \* sessionCache and keyCache: validUntil, or 0
    gate,       \* the requests at the gate
    auth,       \* the logins and refreshes
    evicting,   \* credentials whose row is gone and whose memo is to go next
    password,   \* the account's password, and the change under way
    clock,
    ended       \* ghost: when the row went, and whether the memo surely went too

accessVars == <<rows, memo, gate, auth, evicting, password, clock, ended>>

-----------------------------------------------------------------------------
Creds == Sessions \cup Keys
Never == MaxTime + MemoTTL + 1
\* A row that is not there yet; one that is off never will be.
NoRow == [st |-> "none", exp |-> 0, gen |-> 0, raced |-> FALSE]
NoGate == [pc |-> "idle", cred |-> "none", now |-> 0, sure |-> FALSE]
NoAuth == [pc |-> "idle", old |-> "none", gen |-> 0]
AuthDone == [NoAuth EXCEPT !.pc = "done"]

AccessTypeOK ==
    /\ rows \in [Creds -> [st : {"none", "off", "live", "gone"}, exp : 0 .. Never, gen : 0 .. MaxGen,
                           raced : BOOLEAN]]
    /\ memo \in [Creds -> 0 .. MaxTime + MemoTTL]
    /\ \A q \in GateReqs : gate[q].pc \in {"idle", "missed", "found", "in", "done"} /\ gate[q].now <= clock
    /\ \A q \in AuthReqs : auth[q].pc \in {"idle", "login", "refresh", "delete", "done"}
    /\ evicting \subseteq Creds
    /\ password \in [gen : 0 .. MaxGen, keep : Sessions \cup {"none"}, warned : BOOLEAN]
    /\ clock \in 0 .. MaxTime
    /\ ended \in [Creds -> [at : 0 .. MaxTime, memo : BOOLEAN]]

\* The rows and the time an instance starts from, and the requests it has; a
\* login or refresh happens once.
AccessStart(table, t, gates, logins) ==
    /\ rows = table /\ memo = [c \in Creds |-> 0]
    /\ gate = [q \in GateReqs |-> IF q \in gates THEN NoGate ELSE [NoGate EXCEPT !.pc = "done"]]
    /\ auth = [q \in AuthReqs |-> IF q \in logins THEN NoAuth ELSE AuthDone]
    /\ evicting = {} /\ password = [gen |-> 0, keep |-> "none", warned |-> FALSE]
    /\ clock = t /\ ended = [c \in Creds |-> [at |-> 0, memo |-> FALSE]]

AccessInit == AccessStart([c \in Creds |-> NoRow], 0, GateReqs, AuthReqs)

LiveRow(c) == rows[c].st = "live"

\* GetSessionUser: the row is there and its time has not come.
GetSessionUser(s) == LiveRow(s) /\ clock < rows[s].exp

\* An API key is refused when its time has passed, also from the memo.
KeyExpired(k) == rows[k].exp < clock

-----------------------------------------------------------------------------
(* The gate.                                                               *)

Refused(q) == gate' = [gate EXCEPT ![q] = NoGate]
outsideGate == <<rows, auth, evicting, password, clock, ended>>

\* The memo answers, or the credential is looked up.  sure is a ghost: the
\* credential had ended for good when the request arrived.
GateBegin(q, c) ==
    /\ gate[q].pc = "idle" /\ rows[c].st \in {"live", "gone"}
    /\ LET r == [pc |-> "in", cred |-> c, now |-> clock, sure |-> ended[c].memo]
       IN  IF clock < memo[c]
           THEN IF c \in Keys /\ KeyExpired(c)
                THEN memo' = [memo EXCEPT ![c] = 0] /\ UNCHANGED gate
                ELSE gate' = [gate EXCEPT ![q] = r] /\ UNCHANGED memo
           ELSE /\ memo' = [memo EXCEPT ![c] = 0]
                /\ gate' = [gate EXCEPT ![q] = [r EXCEPT !.pc = "missed"]]
    /\ UNCHANGED outsideGate

GateLookup(q) ==
    /\ gate[q].pc = "missed"
    /\ LET c == gate[q].cred
       IN  IF IF c \in Keys THEN LiveRow(c) ELSE GetSessionUser(c)
           THEN gate' = [gate EXCEPT ![q].pc = "found"] ELSE Refused(q)
    /\ UNCHANGED <<memo, outsideGate>>

\* Mutant of ValidUntil: the time of the store counts.
ValidUntilNow(q) == clock + MemoTTL

\* The time taken when the request arrived counts.
ValidUntil(q) == gate[q].now + MemoTTL

GateStore(q) ==
    /\ gate[q].pc = "found"
    /\ LET c == gate[q].cred
       IN  IF c \in Keys /\ KeyExpired(c)
           THEN memo' = [memo EXCEPT ![c] = 0] /\ Refused(q)
           ELSE /\ memo' = [memo EXCEPT ![c] = ValidUntil(q)]
                /\ gate' = [gate EXCEPT ![q].pc = "in"]
    /\ UNCHANGED outsideGate

GateDone(q) == gate[q].pc = "in" /\ Refused(q) /\ UNCHANGED <<memo, outsideGate>>

-----------------------------------------------------------------------------
(* A credential ends: the row, then the memo.                              *)

Deleted(gone) ==
    /\ rows' = [c \in Creds |-> IF c \in gone THEN [rows[c] EXCEPT !.st = "gone"] ELSE rows[c]]
    /\ ended' = [c \in Creds |-> IF c \in gone /\ LiveRow(c) THEN [ended[c] EXCEPT !.at = clock]
                                 ELSE ended[c]]
    /\ evicting' = evicting \cup gone

\* forgetSession, InvalidateKey.
Evict(c) ==
    /\ c \in evicting
    /\ evicting' = evicting \ {c}
    /\ memo' = [memo EXCEPT ![c] = 0]
    /\ ended' = [ended EXCEPT ![c].memo = \A q \in GateReqs : ~(gate[q].pc = "found" /\ gate[q].cred = c)]
    /\ UNCHANGED <<rows, gate, auth, password, clock>>

Ends(c) == LiveRow(c) /\ Deleted({c}) /\ UNCHANGED <<memo, gate, auth, password, clock>>

Logout(s) == s \in Sessions /\ Ends(s)
\* DELETE /auth/sessions/{prefix}, from another session of the account.
RevokeSession(me, s) == me # s /\ s \in Sessions /\ GetSessionUser(me) /\ Ends(s)
DeleteKey(k) == k \in Keys /\ Ends(k)
delete_api_key(k) == k \in Keys /\ Ends(k)

-----------------------------------------------------------------------------
(* A credential begins.                                                    *)

Insert(c, row) == rows' = [rows EXCEPT ![c] = row] /\ rows[c].st = "none"
NewSession(gen, raced) == [st |-> "live", exp |-> clock + MemoTTL + 1, gen |-> gen, raced |-> raced]

\* The password is checked, then the session is written.
LoginCheck(q) ==
    /\ auth[q].pc = "idle"
    /\ auth' = [auth EXCEPT ![q] = [NoAuth EXCEPT !.pc = "login", !.gen = password.gen]]
    /\ UNCHANGED <<rows, memo, gate, evicting, password, clock, ended>>

LoginSession(q, s) ==
    /\ auth[q].pc = "login"
    /\ Insert(s, NewSession(auth[q].gen, auth[q].gen # password.gen))
    /\ auth' = [auth EXCEPT ![q] = AuthDone]
    /\ UNCHANGED <<memo, gate, evicting, password, clock, ended>>

\* POST /auth/refresh: check, create, delete the old one, evict it.
RefreshCheck(q, old) ==
    /\ auth[q].pc = "idle" /\ GetSessionUser(old)
    /\ auth' = [auth EXCEPT ![q] = [pc |-> "refresh", old |-> old, gen |-> rows[old].gen]]
    /\ UNCHANGED <<rows, memo, gate, evicting, password, clock, ended>>

RefreshCreate(q, s) ==
    /\ auth[q].pc = "refresh"
    /\ Insert(s, NewSession(rows[auth[q].old].gen, rows[auth[q].old].raced \/ ~LiveRow(auth[q].old)))
    /\ auth' = [auth EXCEPT ![q].pc = "delete"]
    /\ UNCHANGED <<memo, gate, evicting, password, clock, ended>>

RefreshDelete(q) ==
    /\ auth[q].pc = "delete"
    /\ Deleted({auth[q].old})
    /\ auth' = [auth EXCEPT ![q] = AuthDone]
    /\ UNCHANGED <<memo, gate, password, clock>>

InsertAPIKey(k, exp) ==
    /\ Insert(k, [NoRow EXCEPT !.st = "live", !.exp = exp])
    /\ UNCHANGED <<memo, gate, auth, evicting, password, clock, ended>>

\* REST caps the days, so that their product cannot overflow into the past;
\* the MCP tool does not.
CreateKey(k, exp) == (exp = Never \/ exp > clock) /\ InsertAPIKey(k, exp)
create_api_key(k, exp) == InsertAPIKey(k, exp)

-----------------------------------------------------------------------------
(* The password.                                                           *)

\* POST /auth/change-password: the hash first, the other sessions after.
ChangePassword(s) ==
    /\ password.keep = "none" /\ GetSessionUser(s) /\ password.gen < MaxGen
    /\ password' = [password EXCEPT !.gen = @ + 1, !.keep = s]
    /\ rows' = [rows EXCEPT ![s].gen = password.gen + 1]
    /\ UNCHANGED <<memo, gate, auth, evicting, clock, ended>>

OtherSessions(keep) == {s \in Sessions \ {keep} : LiveRow(s)}

\* One DELETE ... RETURNING; the evictions follow.
DeleteUserSessionsExcept ==
    /\ password.keep # "none"
    /\ password' = [password EXCEPT !.keep = "none"]
    /\ Deleted(OtherSessions(password.keep))
    /\ UNCHANGED <<memo, gate, auth, clock>>

\* It fails: the caller is told that the other sessions remain.
PasswordWarning ==
    /\ password.keep # "none"
    /\ password' = [password EXCEPT !.keep = "none", !.warned = TRUE]
    /\ UNCHANGED <<rows, memo, gate, auth, evicting, clock, ended>>

-----------------------------------------------------------------------------
TimePasses ==
    /\ clock < MaxTime
    /\ clock' = clock + 1
    /\ UNCHANGED <<rows, memo, gate, auth, evicting, password, ended>>

\* A restart: the memos are memory, and so are the requests.
AccessRestart ==
    /\ memo' = [c \in Creds |-> 0]
    /\ gate' = [q \in GateReqs |-> IF gate[q].pc = "done" THEN gate[q] ELSE NoGate]
    /\ auth' = [q \in AuthReqs |-> IF auth[q].pc = "idle" THEN NoAuth ELSE AuthDone]
    /\ evicting' = {}
    /\ password' = [password EXCEPT !.warned = @ \/ password.keep # "none", !.keep = "none"]
    /\ ended' = [c \in Creds |-> [ended[c] EXCEPT !.memo = (rows[c].st = "gone")]]
    /\ UNCHANGED <<rows, clock>>

CredSteps(c) ==
    \/ Logout(c) \/ DeleteKey(c) \/ delete_api_key(c) \/ Evict(c)
    \/ \E me \in Sessions : RevokeSession(me, c)
    \/ \E q \in GateReqs : GateBegin(q, c)

AuthSteps(q) ==
    \/ LoginCheck(q) \/ RefreshDelete(q)
    \/ \E s \in Sessions : LoginSession(q, s) \/ RefreshCheck(q, s) \/ RefreshCreate(q, s)

AccessNext ==
    \/ \E c \in Creds : CredSteps(c)
    \/ \E q \in GateReqs : GateLookup(q) \/ GateStore(q) \/ GateDone(q)
    \/ \E q \in AuthReqs : AuthSteps(q)
    \/ \E k \in Keys, exp \in {Never, 1, 0} : CreateKey(k, exp) \/ create_api_key(k, exp)
    \/ \E s \in Sessions : ChangePassword(s)
    \/ DeleteUserSessionsExcept \/ PasswordWarning \/ TimePasses \/ AccessRestart

AccessSpec == AccessInit /\ [][AccessNext]_accessVars

-----------------------------------------------------------------------------
(* Properties.                                                             *)

\* A request whose credential ended before it arrived, row and memo, does
\* not get in.  A lookup that was under way meanwhile may put the memo back,
\* for as long after the end of the credential as a memo lives and no longer;
\* the same bounds a session past its expiry, and a key is never let in past
\* its own.
AdmittedIsCurrent ==
    \A q \in GateReqs : gate[q].pc = "in" =>
        LET c == gate[q].cred
        IN  /\ ~gate[q].sure
            /\ rows[c].st = "gone" => gate[q].now < ended[c].at + MemoTTL
            /\ c \in Keys => gate[q].now <= rows[c].exp
            /\ c \in Sessions => gate[q].now < rows[c].exp + MemoTTL

\* After a password change every session was opened with the new password,
\* is the one that changed it or follows from it; but for a login or refresh
\* that was already past its check, and a change that answered with a warning.
SessionsFollowPassword ==
    password.keep = "none" /\ ~password.warned =>
        \A s \in Sessions : LiveRow(s) => rows[s].gen = password.gen \/ rows[s].raced

AccessSafe == AdmittedIsCurrent /\ SessionsFollowPassword
=============================================================================

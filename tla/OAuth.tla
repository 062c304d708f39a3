------------------------------- MODULE OAuth -------------------------------
(***************************************************************************)
(* The OAuth 2.1 server for MCP connectors: dynamic registration and its   *)
(* rate limit, consent, the token endpoint with its two grants, rotation,  *)
(* revocation, removal of an application, the sweeps (oauth/handlers.go,   *)
(* oauth/ratelimit.go, database/oauth.go, handlers/oauth_apps.go), and the *)
(* check of a bearer token at /mcp (mcp/auth.go).                          *)
(*                                                                         *)
(* Codes and tokens are rows numbered in the order of their INSERT; their  *)
(* secrets are that number.  A row has an age instead of expiry times:     *)
(* both tokens good, access expired, refresh expired, a day past that.     *)
(* A grant is a consent: the code and every token that descends from it.   *)
(***************************************************************************)
EXTENDS Naturals, FiniteSets, Sequences

CONSTANTS
    Apps,          \* client_ids that may be registered
    TokenReqs,     \* requests to /authorize (POST) and /token under way
    MaxCodes, MaxTokens,
    DcrCap,        \* registrations an address may burst, and the limiter refills in an hour
    MaxHalfHours   \* bound on time for the limiter

ASSUME OAuthAssumption ==
    DcrCap \in Nat \ {0} /\ DcrCap % 2 = 0 /\ {MaxCodes, MaxTokens, MaxHalfHours} \subseteq Nat

VARIABLES
    apps,       \* oauth_clients
    codes,      \* oauth_authorization_codes
    tokens,     \* oauth_access_tokens
    treqs,      \* the requests
    bucket,     \* the limiter's entry of one address
    halfHour,   \* time, for the limiter
    credit,     \* ghost: what a bucket that is never swept would hold
    withdrawn   \* ghost: grants the user ended with no refresh of theirs under way

oauthVars == <<apps, codes, tokens, treqs, bucket, halfHour, credit, withdrawn>>

-----------------------------------------------------------------------------
Scopes == {"read", "write", "admin"}
AppStates == {"none", "live", "revoked"}
NoReq == [pc |-> "idle", app |-> "none", row |-> 0, scope |-> {}, grant |-> 0]
NoBucket == [left |-> 0, touched |-> 0, st |-> "none"]

OAuthTypeOK ==
    /\ apps \in [Apps -> [st : AppStates, scope : SUBSET Scopes]]
    /\ Len(codes) <= MaxCodes /\ Len(tokens) <= MaxTokens
    /\ \A c \in DOMAIN codes : codes[c] \in [app : Apps, scope : SUBSET Scopes, asked : SUBSET Scopes,
                                             st : {"unused", "used", "gone"}, age : 0 .. 2]
    /\ \A t \in DOMAIN tokens : tokens[t] \in [app : Apps, scope : SUBSET Scopes, grant : DOMAIN codes,
                                               refresh : BOOLEAN, st : {"live", "revoked", "gone"},
                                               age : 0 .. 3]
    /\ \A q \in TokenReqs : treqs[q].pc \in {"idle", "consent", "client", "mint", "rotate"}
    /\ bucket.left \in 0 .. DcrCap /\ bucket.touched \in 0 .. MaxHalfHours /\ halfHour \in 0 .. MaxHalfHours
    /\ credit \in 0 .. DcrCap /\ withdrawn \subseteq DOMAIN codes

\* The state of the tables and the time an instance starts from.
OAuthStart(registered, cs, ts, h) ==
    /\ apps = registered /\ codes = cs /\ tokens = ts
    /\ treqs = [q \in TokenReqs |-> NoReq]
    /\ bucket = NoBucket /\ halfHour = h /\ credit = DcrCap /\ withdrawn = {}

NoApp == [st |-> "none", scope |-> {}]
OAuthInit == OAuthStart([a \in Apps |-> NoApp], <<>>, <<>>, 0)

limiter == <<bucket, halfHour, credit>>
Live(a) == apps[a].st = "live"

-----------------------------------------------------------------------------
(* Registration.                                                           *)

\* Entries idle for more than two hours are dropped.
Swept(b) == halfHour - b.touched > 4

AtMostCap(n) == IF n > DcrCap THEN DcrCap ELSE n

\* Mutant of Refilled: the refill is not capped.
RefilledBeyond(b) ==
    IF b.st = "none" \/ Swept(b) THEN DcrCap
    ELSE b.left + (halfHour - b.touched) * (DcrCap \div 2)

\* allow: sweep, make or refill the bucket, take one.
Refilled(b) ==
    IF b.st = "none" \/ Swept(b) THEN DcrCap
    ELSE AtMostCap(b.left + (halfHour - b.touched) * (DcrCap \div 2))

Allow(ok) ==
    /\ ok = (Refilled(bucket) >= 1)
    /\ bucket' = [st |-> "held", touched |-> halfHour,
                  left |-> IF ok THEN Refilled(bucket) - 1 ELSE Refilled(bucket)]
    /\ credit' = IF ok THEN credit - 1 ELSE credit

\* POST /register.  The limiter is asked first; a bad scope is refused after.
Register(a, scope) ==
    /\ apps[a].st = "none"
    /\ \E ok \in BOOLEAN :
          /\ Allow(ok)
          /\ apps' = IF ok /\ scope \subseteq Scopes
                     THEN [apps EXCEPT ![a] = [st |-> "live", scope |-> scope]] ELSE apps
    /\ UNCHANGED <<codes, tokens, treqs, halfHour, withdrawn>>

HalfHourPasses ==
    /\ halfHour < MaxHalfHours
    /\ halfHour' = halfHour + 1 /\ credit' = AtMostCap(credit + DcrCap \div 2)
    /\ UNCHANGED <<apps, codes, tokens, treqs, bucket, withdrawn>>

-----------------------------------------------------------------------------
(* Consent.                                                                *)

\* The scope of a request is cut to what the application registered.
Ceiling(asked, registered) ==
    IF asked = {} THEN registered ELSE asked \cap registered

\* POST /authorize with "allow": the client is read, then the code written.
AuthorizeRead(q, a, asked) ==
    /\ treqs[q].pc = "idle" /\ Len(codes) < MaxCodes
    /\ Live(a) /\ Ceiling(asked, apps[a].scope) # {}
    /\ treqs' = [treqs EXCEPT ![q] = [NoReq EXCEPT !.pc = "consent", !.app = a,
                                                   !.scope = Ceiling(asked, apps[a].scope)]]
    /\ UNCHANGED <<apps, codes, tokens, limiter, withdrawn>>

AuthorizeInsert(q) ==
    /\ treqs[q].pc = "consent" /\ Len(codes) < MaxCodes
    /\ codes' = Append(codes, [app |-> treqs[q].app, scope |-> treqs[q].scope,
                               asked |-> apps[treqs[q].app].scope, st |-> "unused", age |-> 0])
    /\ treqs' = [treqs EXCEPT ![q] = NoReq]
    /\ UNCHANGED <<apps, tokens, limiter, withdrawn>>

-----------------------------------------------------------------------------
(* The token endpoint.                                                     *)

\* The client, and its secret when it has one.
TokenClient(q, a) ==
    /\ treqs[q].pc = "idle" /\ Live(a)
    /\ treqs' = [treqs EXCEPT ![q] = [NoReq EXCEPT !.pc = "client", !.app = a]]
    /\ UNCHANGED <<apps, codes, tokens, limiter, withdrawn>>

\* Mutant of Redeemable: used codes are taken too.
RedeemableAgain(c) == codes[c].st # "gone" /\ codes[c].age = 0

\* One UPDATE ... RETURNING: unused and not expired.
Redeemable(c) == codes[c].st = "unused" /\ codes[c].age = 0

\* The code is burned before the request is compared with it; a wrong
\* client, redirect URI, verifier or resource then gets nothing for it.
RedeemOAuthAuthorizationCode(q, c, matches) ==
    /\ treqs[q].pc = "client" /\ Redeemable(c)
    /\ codes' = [codes EXCEPT ![c].st = "used"]
    /\ treqs' = [treqs EXCEPT ![q] =
          IF matches /\ codes[c].app = treqs[q].app
          THEN [treqs[q] EXCEPT !.pc = "mint", !.scope = codes[c].scope, !.grant = c]
          ELSE NoReq]
    /\ UNCHANGED <<apps, tokens, limiter, withdrawn>>

Token(q) == [app |-> treqs[q].app, scope |-> treqs[q].scope, grant |-> treqs[q].grant,
             refresh |-> TRUE, st |-> "live", age |-> 0]

MintTokenPair(q) ==
    /\ treqs[q].pc = "mint" /\ Len(tokens) < MaxTokens
    /\ tokens' = Append(tokens, Token(q))
    /\ treqs' = [treqs EXCEPT ![q] = NoReq]
    /\ UNCHANGED <<apps, codes, limiter, withdrawn>>

\* The refresh grant reads the row with that refresh token and checks it.
RefreshGrantRead(q, t) ==
    /\ treqs[q].pc = "client" /\ tokens[t].refresh /\ tokens[t].st = "live"
    /\ tokens[t].app = treqs[q].app /\ tokens[t].age < 2
    /\ treqs' = [treqs EXCEPT ![q] = [treqs[q] EXCEPT !.pc = "rotate", !.row = t,
                                         !.scope = tokens[t].scope, !.grant = tokens[t].grant]]
    /\ UNCHANGED <<apps, codes, tokens, limiter, withdrawn>>

\* One transaction: the old row gives up its refresh token and is revoked,
\* the new one is inserted; when the old token is gone, neither.
RotateOAuthRefreshToken(q) ==
    /\ treqs[q].pc = "rotate" /\ Len(tokens) < MaxTokens
    /\ LET t == treqs[q].row
       IN  tokens' = IF tokens[t].refresh /\ tokens[t].st # "gone"
                     THEN Append([tokens EXCEPT ![t].refresh = FALSE, ![t].st = "revoked"], Token(q))
                     ELSE tokens
    /\ treqs' = [treqs EXCEPT ![q] = NoReq]
    /\ UNCHANGED <<apps, codes, limiter, withdrawn>>

\* An error answer; the connection drops; the process stops.
TokenAbandoned(q) ==
    /\ treqs[q].pc # "idle"
    /\ treqs' = [treqs EXCEPT ![q] = NoReq]
    /\ UNCHANGED <<apps, codes, tokens, limiter, withdrawn>>

-----------------------------------------------------------------------------
(* Revocation.                                                             *)

Refreshing(g) == \E q \in TokenReqs : treqs[q].pc = "rotate" /\ treqs[q].grant = g
Withdraws(g) == withdrawn' = IF Refreshing(g) THEN withdrawn ELSE withdrawn \cup {g}

RevokedRow(t) == [tokens EXCEPT ![t].st = "revoked"]

\* POST /revoke, with either token of a row.  The token of a row that was
\* rotated away changes nothing.
RevokeOAuthAccessToken(t) ==
    /\ tokens[t].st # "gone"
    /\ IF tokens[t].st = "live" THEN tokens' = RevokedRow(t) /\ Withdraws(tokens[t].grant)
       ELSE UNCHANGED <<tokens, withdrawn>>
    /\ UNCHANGED <<apps, codes, treqs, limiter>>

\* The dashboard's button for one grant: only a row that is not revoked.
RevokeOAuthAccessTokenByID(t) ==
    /\ tokens[t].st = "live"
    /\ tokens' = RevokedRow(t) /\ Withdraws(tokens[t].grant)
    /\ UNCHANGED <<apps, codes, treqs, limiter>>

\* RevokeOAuthClient, one transaction: the client, its live rows, its
\* unused codes.
RevokeOAuthClient(a) ==
    /\ apps' = [apps EXCEPT ![a].st = "revoked"]
    /\ tokens' = [t \in DOMAIN tokens |->
                    IF tokens[t].app = a /\ tokens[t].st = "live"
                    THEN [tokens[t] EXCEPT !.st = "revoked", !.refresh = FALSE] ELSE tokens[t]]
    /\ codes' = [c \in DOMAIN codes |->
                   IF codes[c].app = a /\ codes[c].st = "unused"
                   THEN [codes[c] EXCEPT !.st = "gone"] ELSE codes[c]]

\* RemoveApplication: whoever ever held a grant of it may ask.
RemoveApplication(a) ==
    /\ apps[a].st # "none" /\ \E t \in DOMAIN tokens : tokens[t].app = a /\ tokens[t].st # "gone"
    /\ RevokeOAuthClient(a)
    /\ withdrawn' = withdrawn \cup {c \in DOMAIN codes : codes[c].app = a}
    /\ UNCHANGED <<treqs, limiter>>

-----------------------------------------------------------------------------
(* Time and sweeps.                                                        *)

CodeAges(c) ==
    /\ codes[c].age < 2
    /\ codes' = [codes EXCEPT ![c].age = @ + 1]
    /\ UNCHANGED <<apps, tokens, treqs, limiter, withdrawn>>

TokenAges(t) ==
    /\ tokens[t].age < 3
    /\ tokens' = [tokens EXCEPT ![t].age = @ + 1]
    /\ UNCHANGED <<apps, codes, treqs, limiter, withdrawn>>

SweepExpiredOAuthCodes ==
    /\ \E c \in DOMAIN codes : codes[c].age = 2 /\ codes[c].st # "gone"
    /\ codes' = [c \in DOMAIN codes |->
                   IF codes[c].age = 2 THEN [codes[c] EXCEPT !.st = "gone"] ELSE codes[c]]
    /\ UNCHANGED <<apps, tokens, treqs, limiter, withdrawn>>

\* Mutant of Sweepable: the access token alone decides.
SweepableByAccess(t) == tokens[t].age >= 1

\* Both tokens expired more than a day ago.
Sweepable(t) == tokens[t].age = 3

SweepExpiredOAuthTokens ==
    /\ \E t \in DOMAIN tokens : Sweepable(t) /\ tokens[t].st # "gone"
    /\ tokens' = [t \in DOMAIN tokens |->
                    IF Sweepable(t) THEN [tokens[t] EXCEPT !.st = "gone"] ELSE tokens[t]]
    /\ UNCHANGED <<apps, codes, treqs, limiter, withdrawn>>

-----------------------------------------------------------------------------
RowSteps ==
    \/ \E c \in DOMAIN codes : CodeAges(c)
    \/ \E t \in DOMAIN tokens : TokenAges(t) \/ RevokeOAuthAccessToken(t)
                                \/ RevokeOAuthAccessTokenByID(t)
    \/ SweepExpiredOAuthCodes \/ SweepExpiredOAuthTokens

RequestSteps(q) ==
    \/ \E a \in Apps : TokenClient(q, a)
                       \/ \E asked \in {{}, {"read"}, {"read", "admin"}} : AuthorizeRead(q, a, asked)
    \/ \E c \in DOMAIN codes, matches \in BOOLEAN : RedeemOAuthAuthorizationCode(q, c, matches)
    \/ \E t \in DOMAIN tokens : RefreshGrantRead(q, t)
    \/ AuthorizeInsert(q) \/ MintTokenPair(q) \/ RotateOAuthRefreshToken(q) \/ TokenAbandoned(q)

OAuthNext ==
    \/ \E a \in Apps : RemoveApplication(a)
          \/ \E scope \in {{"read"}, {"read", "write"}, {"unknown"}} : Register(a, scope)
    \/ \E q \in TokenReqs : RequestSteps(q)
    \/ RowSteps \/ HalfHourPasses

OAuthSpec == OAuthInit /\ [][OAuthNext]_oauthVars

-----------------------------------------------------------------------------
(* Properties.                                                             *)

\* resolveOAuthAccessToken at /mcp, and the refresh grant: what a row is
\* still good for.  Both look at the client as well.
Authenticates(t) == tokens[t].st = "live" /\ tokens[t].age = 0 /\ Live(tokens[t].app)
CanRefresh(t) == tokens[t].st = "live" /\ tokens[t].refresh /\ tokens[t].age < 2 /\ Live(tokens[t].app)
\* ListActiveOAuthAccessTokens: the connected applications of the dashboard.
Listed(t) == /\ tokens[t].st = "live"
             /\ tokens[t].age = 0 \/ (tokens[t].refresh /\ tokens[t].age < 2)

\* A code or a refresh token that is presented twice, also by requests that
\* overlap, leaves one working pair at most: a grant has one live row, so it
\* appears once in the dashboard.
OneRowPerGrant ==
    \A t, u \in DOMAIN tokens :
        tokens[t].st = "live" /\ tokens[u].st = "live" /\ tokens[t].grant = tokens[u].grant => t = u

\* No token ever carries more than the application registered and its user
\* consented to, however often it was rotated.
ScopeWithinConsent ==
    \A t \in DOMAIN tokens : LET c == codes[tokens[t].grant]
                             IN  tokens[t].scope \subseteq c.scope /\ c.scope \subseteq c.asked

\* A grant the user ended (by token, by row or with its application) stays
\* ended for /mcp and for the refresh grant, whatever requests were under
\* way; for the first two ways unless a refresh had read the row already.
WithdrawnStaysWithdrawn ==
    \A t \in DOMAIN tokens : tokens[t].grant \in withdrawn => ~Authenticates(t) /\ ~CanRefresh(t)

\* What the dashboard lists can still be refreshed, unless its application
\* was removed while a request of it was under way.
ListedWorks ==
    \A t \in DOMAIN tokens : Listed(t) /\ Live(tokens[t].app) => CanRefresh(t)

\* Dropping idle entries never gives an address more registrations than a
\* bucket that is kept.
LimiterKeepsCount == Refilled(bucket) = credit

OAuthSafe == /\ OneRowPerGrant /\ ScopeWithinConsent /\ WithdrawnStaysWithdrawn
             /\ ListedWorks /\ LimiterKeepsCount

\* A working grant ends only by a revocation, by removal or by its refresh
\* token's age: no rotation, sweep or failed request loses it.
GrantSurvives ==
    [][\A g \in DOMAIN codes :
          (\E t \in DOMAIN tokens : tokens[t].grant = g /\ CanRefresh(t)) =>
             \/ \E t \in DOMAIN tokens' : tokens'[t].grant = g /\ CanRefresh(t)'
             \/ \E t \in DOMAIN tokens : tokens[t].grant = g /\ tokens[t].age = 1 /\ tokens'[t].age = 2
             \/ \E t \in DOMAIN tokens : /\ tokens[t].grant = g
                                        /\ \/ tokens'[t].st = "revoked" /\ tokens'[t].refresh
                                           \/ apps'[tokens[t].app].st = "revoked"]_oauthVars
=============================================================================

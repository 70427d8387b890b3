---------------------------- MODULE AuthSessions ----------------------------
(***************************************************************************)
(* Sessions and rotating refresh tokens of poromosiyo-api.                 *)
(*                                                                         *)
(* A row of auth_session is opened by a login, carries at most one usable  *)
(* refresh token that every refresh exchanges for a new one, and is closed *)
(* by logout, by the owner or an administrator revoking it, by any change  *)
(* of the owner's password, by a block, or by the reuse of a refresh token *)
(* that was already exchanged.                                             *)
(*                                                                         *)
(* Every HTTP request runs concurrently with the others and is cut where   *)
(* the code awaits the database.  A transaction is a step that takes its   *)
(* snapshot (the reads it does first) followed, in a later step, by its    *)
(* writes: the WHERE clause of an UPDATE is evaluated on the current rows, *)
(* the lists read before are those of the snapshot.  The write phase is    *)
(* one step, because its statements keep their row locks until COMMIT.     *)
(***************************************************************************)
EXTENDS Naturals, FiniteSets

CONSTANTS
    Users,        \* ids of user rows
    Sessions,     \* ids auth_session rows may get
    Tokens,       \* refresh tokens that may be generated
    Requests,     \* slots for the requests being served at one time
    Passwords,    \* local passwords
    Linked,       \* the users with a linked Google account
    Role,         \* user.role; no code path changes it after creation
    Ttl,          \* AUTH_REFRESH_TOKEN_TTL_SECONDS
    MaxClock,     \* bound on the clock
    None          \* a NULL column, or an absent row

ASSUME LinkedAssumption == Linked \subseteq Users
ASSUME RoleAssumption == Role \in [Users -> {"CUSTOMER", "ADMIN", "SUPERADMIN"}]
ASSUME TtlAssumption == Ttl \in Nat \ {0}
ASSUME MaxClockAssumption == MaxClock \in Nat
ASSUME NoneAssumption == /\ None \notin Users
                         /\ None \notin Sessions
                         /\ None \notin Tokens
                         /\ None \notin Passwords

VARIABLES
    active,       \* user.isActive (written together with blockedAt)
    password,     \* user.passwordHash
    session,      \* auth_session rows
    token,        \* refresh_token rows
    clock,        \* Date.now()
    request       \* what each request being served has read so far

vars == <<active, password, session, token, clock, request>>
rows == <<active, password, session, token>>

(***************************************************************************)
(* Rows                                                                    *)
(***************************************************************************)

PasswordReasons == {"password_change", "password_reset", "local_password_set"}

\* The operations that revoke sessions by userId and tokens by a list of ids.
ReasonsByUser == PasswordReasons \cup {"logout_all", "account_blocked"}

\* The operations that revoke sessions and tokens by the same ids.
ReasonsBySession == {"logout", "user_revoked_session", "admin_revoked_session",
                     "admin_logout_all", "refresh_token_reuse"}

Reasons == ReasonsByUser \cup ReasonsBySession

ASSUME NoneIsNoReason == None \notin Reasons

SessionRow == [owner : Users \cup {None}, revoked : Reasons \cup {None},
               expiresAt : Nat]

TokenRow == [session : Sessions \cup {None}, used : BOOLEAN,
             revoked : BOOLEAN, expiresAt : Nat]

NoSession == [owner |-> None, revoked |-> None, expiresAt |-> 0]
NoToken == [session |-> None, used |-> FALSE, revoked |-> FALSE, expiresAt |-> 0]

Exists(s) == session[s].owner # None
Open(s) == Exists(s) /\ session[s].revoked = None
OpenSessionsOf(u) == {s \in Sessions : session[s].owner = u /\ Open(s)}
TokensOf(S) == {t \in Tokens : token[t].session \in S}

\* What the claim of a rotation requires of the row, its expiry apart.
Live(t) == token[t].session # None /\ ~token[t].used /\ ~token[t].revoked

(***************************************************************************)
(* Requests                                                                *)
(***************************************************************************)

Steps == {"idle", "login", "claim", "reuse", "admitted", "revoke", "logoutAll",
          "password", "passwordWrite", "block", "blockWrite", "unblock",
          "managedRevoke", "managedLogoutAll"}

Request == [step : Steps, user : Users \cup {None}, session : Sessions \cup {None},
            token : Tokens \cup {None}, snapshot : SUBSET Sessions, now : Nat,
            credential : Passwords \cup {None},
            reason : PasswordReasons \cup {None}]

Idle == [step |-> "idle", user |-> None, session |-> None, token |-> None,
         snapshot |-> {}, now |-> 0, credential |-> None, reason |-> None]

Begin(r, req) == /\ request[r] = Idle
                 /\ request' = [request EXCEPT ![r] = req]

Continue(r, req) == request' = [request EXCEPT ![r] = req]

Finish(r) == request' = [request EXCEPT ![r] = Idle]

At(r, step) == request[r].step = step

Init ==
    /\ active = [u \in Users |-> TRUE]
    /\ password \in [Users -> Passwords \cup {None}]
    /\ session = [s \in Sessions |-> NoSession]
    /\ token = [t \in Tokens |-> NoToken]
    /\ clock = 0
    /\ request = [r \in Requests |-> Idle]

(***************************************************************************)
(* The writes the transactions are made of                                 *)
(***************************************************************************)

\* updateMany({ where: { <in S>, revokedAt: null }, data: { revokedAt, reason } })
RevokeSessions(S, reason) ==
    session' = [s \in Sessions |-> IF s \in S /\ Open(s)
                                   THEN [session[s] EXCEPT !.revoked = reason]
                                   ELSE session[s]]

\* updateMany({ where: { sessionId: { in: S }, revokedAt: null } })
RevokeTokensOf(S) ==
    token' = [t \in Tokens |-> IF token[t].session \in S
                               THEN [token[t] EXCEPT !.revoked = TRUE]
                               ELSE token[t]]

\* Mutant: the sessions are revoked by the list as well.
RevokeListed(u, listed, reason) ==
    /\ RevokeSessions(listed, reason)
    /\ RevokeTokensOf(listed)

\* Mutant: the filter on userId is forgotten.
RevokeAnyUser(u, listed, reason) ==
    /\ RevokeSessions(Sessions, reason)
    /\ RevokeTokensOf(listed)

\* Every session of the user, but only the tokens of the sessions in the list
\* the transaction read before.
RevokeUser(u, listed, reason) ==
    /\ RevokeSessions({s \in Sessions : session[s].owner = u}, reason)
    /\ RevokeTokensOf(listed)

\* A session row with its first refresh token, both expiring together.
OpenSession(u, s, t, expiresAt) ==
    /\ session[s] = NoSession
    /\ token[t] = NoToken
    /\ session' = [session EXCEPT ![s] =
           [owner |-> u, revoked |-> None, expiresAt |-> expiresAt]]
    /\ token' = [token EXCEPT ![t] =
           [session |-> s, used |-> FALSE, revoked |-> FALSE, expiresAt |-> expiresAt]]

(***************************************************************************)
(* Login, with a password or with a linked Google account: the user row is *)
(* read and judged; the transaction that opens the session does not read   *)
(* it again.                                                               *)
(***************************************************************************)

LoginRead(r, u, p) ==
    /\ password[u] = p
    /\ p # None
    /\ active[u]
    /\ Begin(r, [Idle EXCEPT !.step = "login", !.user = u, !.now = clock])
    /\ UNCHANGED <<rows, clock>>

GoogleLoginRead(r, u) ==
    /\ u \in Linked
    /\ active[u]
    /\ Begin(r, [Idle EXCEPT !.step = "login", !.user = u, !.now = clock])
    /\ UNCHANGED <<rows, clock>>

LoginCommit(r, s, t) ==
    /\ At(r, "login")
    /\ OpenSession(request[r].user, s, t, request[r].now + Ttl)
    /\ Finish(r)
    /\ UNCHANGED <<active, password, clock>>

(***************************************************************************)
(* Refresh: one interactive transaction.  Its first statement is the       *)
(* snapshot on which it decides; the claim is evaluated on current rows.   *)
(***************************************************************************)

RefreshReadUsed(r, t) ==
    /\ token[t].session # None
    /\ token[t].used
    /\ Begin(r, [Idle EXCEPT !.step = "reuse", !.session = token[t].session,
                             !.token = t])
    /\ UNCHANGED <<rows, clock>>

RefreshRead(r, t) ==
    LET s == token[t].session IN
    /\ Live(t)
    /\ token[t].expiresAt > clock
    /\ session[s].revoked = None
    /\ session[s].expiresAt > clock
    /\ active[session[s].owner]
    /\ Begin(r, [Idle EXCEPT !.step = "claim", !.session = s, !.token = t,
                             !.now = clock])
    /\ UNCHANGED <<rows, clock>>

\* Mutants: the claim does not look at usedAt, or not at revokedAt.
ClaimableIfUsed(r) ==
    LET t == request[r].token IN ~token[t].revoked /\ token[t].expiresAt > request[r].now

ClaimableIfRevoked(r) ==
    LET t == request[r].token IN ~token[t].used /\ token[t].expiresAt > request[r].now

\* The update that claims the token finds it.
Claimable(r) ==
    /\ Live(request[r].token)
    /\ token[request[r].token].expiresAt > request[r].now

\* Mutant: every refresh token lives as long as the first one.
FullLifetime(s) == clock + Ttl

\* createRefreshToken(session.expiresAt)
NextExpiry(s) == IF session[s].expiresAt < clock + Ttl
                 THEN session[s].expiresAt
                 ELSE clock + Ttl

RefreshClaim(r, next) ==
    LET s == request[r].session IN
    /\ At(r, "claim")
    /\ Claimable(r)
    /\ token[next] = NoToken
    /\ token' = [token EXCEPT
           ![request[r].token].used = TRUE,
           ![next] = [session |-> s, used |-> FALSE, revoked |-> FALSE,
                      expiresAt |-> NextExpiry(s)]]
    /\ Finish(r)
    /\ UNCHANGED <<active, password, session, clock>>

RefreshReuse(r) ==
    LET family == {request[r].session} IN
    /\ \/ At(r, "reuse")
       \/ At(r, "claim") /\ ~Claimable(r)
    /\ RevokeSessions(family, "refresh_token_reuse")
    /\ RevokeTokensOf(family)
    /\ Finish(r)
    /\ UNCHANGED <<active, password, clock>>

(***************************************************************************)
(* The JWT guard reads the session row once, before the handler runs; the  *)
(* handler then acts for the principal it returned.                        *)
(***************************************************************************)

Admit(r, s) ==
    /\ Open(s)
    /\ session[s].expiresAt > clock
    /\ active[session[s].owner]
    /\ Begin(r, [Idle EXCEPT !.step = "admitted", !.user = session[s].owner,
                             !.session = s])
    /\ UNCHANGED <<rows, clock>>

Logout(r) ==
    LET s == request[r].session IN
    /\ At(r, "admitted")
    /\ RevokeSessions({s}, "logout")
    /\ RevokeTokensOf({s})
    /\ Finish(r)
    /\ UNCHANGED <<active, password, clock>>

RevokeRead(r, s) ==
    /\ At(r, "admitted")
    /\ session[s].owner = request[r].user
    /\ session[s].revoked = None
    /\ Continue(r, [Idle EXCEPT !.step = "revoke", !.user = request[r].user,
                                !.session = s])
    /\ UNCHANGED <<rows, clock>>

\* Nothing is written, not even to the tokens, when the session row was
\* revoked in the meantime.
RevokeOne(r, step, reason) ==
    LET s == request[r].session IN
    /\ At(r, step)
    /\ IF Open(s)
       THEN RevokeSessions({s}, reason) /\ RevokeTokensOf({s})
       ELSE UNCHANGED <<session, token>>
    /\ Finish(r)
    /\ UNCHANGED <<active, password, clock>>

RevokeCommit(r) == RevokeOne(r, "revoke", "user_revoked_session")

LogoutAllRead(r) ==
    LET u == request[r].user IN
    /\ At(r, "admitted")
    /\ OpenSessionsOf(u) # {}
    /\ Continue(r, [Idle EXCEPT !.step = "logoutAll", !.user = u,
                                !.snapshot = OpenSessionsOf(u)])
    /\ UNCHANGED <<rows, clock>>

LogoutAllCommit(r) ==
    /\ At(r, "logoutAll")
    /\ RevokeUser(request[r].user, request[r].snapshot, "logout_all")
    /\ Finish(r)
    /\ UNCHANGED <<active, password, clock>>

(***************************************************************************)
(* The three ways to give an account another local password.  Each reads   *)
(* and judges the user row, then hashes, then opens the transaction.       *)
(***************************************************************************)

\* Mutant: a reason copied from logoutAll.
NewPasswordLogsOut(u, p, reason) ==
    [Idle EXCEPT !.step = "password", !.user = u, !.credential = p,
                 !.reason = "logout_all"]

NewPassword(u, p, reason) ==
    [Idle EXCEPT !.step = "password", !.user = u, !.credential = p,
                 !.reason = reason]

ChangePasswordRead(r, old, p) ==
    LET u == request[r].user IN
    /\ At(r, "admitted")
    /\ active[u]
    /\ password[u] = old
    /\ old \in Passwords \ {p}
    /\ Continue(r, NewPassword(u, p, "password_change"))
    /\ UNCHANGED <<rows, clock>>

SetPasswordRead(r, p) ==
    LET u == request[r].user IN
    /\ At(r, "admitted")
    /\ active[u]
    /\ password[u] = None
    /\ Continue(r, NewPassword(u, p, "local_password_set"))
    /\ UNCHANGED <<rows, clock>>

\* The holder of a reset token; the life of reset tokens is in MailTokens.
ResetPasswordRead(r, u, p) ==
    /\ active[u]
    /\ password[u] # p
    /\ Begin(r, NewPassword(u, p, "password_reset"))
    /\ UNCHANGED <<rows, clock>>

PasswordSnapshot(r) ==
    /\ At(r, "password")
    /\ Continue(r, [request[r] EXCEPT !.step = "passwordWrite",
                        !.snapshot = OpenSessionsOf(request[r].user)])
    /\ UNCHANGED <<rows, clock>>

\* Mutant: whoever writes a first password trusts what was read.
PasswordCommitBlindly(r) ==
    LET u == request[r].user IN
    /\ At(r, "passwordWrite")
    /\ password' = [password EXCEPT ![u] = request[r].credential]
    /\ RevokeUser(u, request[r].snapshot, request[r].reason)
    /\ Finish(r)
    /\ UNCHANGED <<active, clock>>

PasswordCommit(r) ==
    LET u == request[r].user IN
    /\ At(r, "passwordWrite")
    /\ request[r].reason = "local_password_set" => password[u] = None
    /\ password' = [password EXCEPT ![u] = request[r].credential]
    /\ RevokeUser(u, request[r].snapshot, request[r].reason)
    /\ Finish(r)
    /\ UNCHANGED <<active, clock>>

(***************************************************************************)
(* Account governance: the endpoints pass CUSTOMER or ADMIN as the role of *)
(* the account they act on, so that no SUPERADMIN is ever a target.        *)
(***************************************************************************)

Governed(u) == Role[u] \in {"CUSTOMER", "ADMIN"}

BlockRead(r, u) ==
    /\ Governed(u)
    /\ active[u]
    /\ Begin(r, [Idle EXCEPT !.step = "block", !.user = u])
    /\ UNCHANGED <<rows, clock>>

BlockSnapshot(r) ==
    /\ At(r, "block")
    /\ Continue(r, [request[r] EXCEPT !.step = "blockWrite",
                        !.snapshot = OpenSessionsOf(request[r].user)])
    /\ UNCHANGED <<rows, clock>>

BlockCommit(r) ==
    LET u == request[r].user IN
    /\ At(r, "blockWrite")
    /\ active' = [active EXCEPT ![u] = FALSE]
    /\ RevokeUser(u, request[r].snapshot, "account_blocked")
    /\ Finish(r)
    /\ UNCHANGED <<password, clock>>

UnblockRead(r, u) ==
    /\ Governed(u)
    /\ ~active[u]
    /\ Begin(r, [Idle EXCEPT !.step = "unblock", !.user = u])
    /\ UNCHANGED <<rows, clock>>

UnblockCommit(r) ==
    /\ At(r, "unblock")
    /\ active' = [active EXCEPT ![request[r].user] = TRUE]
    /\ Finish(r)
    /\ UNCHANGED <<password, session, token, clock>>

ManagedRevokeRead(r, s) ==
    /\ Open(s)
    /\ Governed(session[s].owner)
    /\ Begin(r, [Idle EXCEPT !.step = "managedRevoke", !.session = s])
    /\ UNCHANGED <<rows, clock>>

ManagedRevokeCommit(r) == RevokeOne(r, "managedRevoke", "admin_revoked_session")

ManagedLogoutAllRead(r, u) ==
    /\ Governed(u)
    /\ OpenSessionsOf(u) # {}
    /\ Begin(r, [Idle EXCEPT !.step = "managedLogoutAll",
                             !.snapshot = OpenSessionsOf(u)])
    /\ UNCHANGED <<rows, clock>>

ManagedLogoutAllCommit(r) ==
    /\ At(r, "managedLogoutAll")
    /\ RevokeSessions(request[r].snapshot, "admin_logout_all")
    /\ RevokeTokensOf(request[r].snapshot)
    /\ Finish(r)
    /\ UNCHANGED <<active, password, clock>>

(***************************************************************************)
(* A request that is refused, whose transaction is rolled back (a deadlock,*)
(* a lost connection) or whose process dies leaves the rows as they are.   *)
(***************************************************************************)

Abort(r) ==
    /\ request[r] # Idle
    /\ Finish(r)
    /\ UNCHANGED <<rows, clock>>

Tick ==
    /\ clock < MaxClock
    /\ clock' = clock + 1
    /\ UNCHANGED <<rows, request>>

(***************************************************************************)
(* The specification                                                       *)
(***************************************************************************)

Login(r) == \/ \E u \in Users, p \in Passwords : LoginRead(r, u, p)
            \/ \E u \in Users : GoogleLoginRead(r, u)
            \/ \E s \in Sessions, t \in Tokens : LoginCommit(r, s, t)

Refresh(r) == \/ \E t \in Tokens : RefreshReadUsed(r, t) \/ RefreshRead(r, t)
              \/ \E next \in Tokens : RefreshClaim(r, next)
              \/ RefreshReuse(r)

OwnSessions(r) == \/ \E s \in Sessions : Admit(r, s) \/ RevokeRead(r, s)
                  \/ Logout(r)
                  \/ RevokeCommit(r)
                  \/ LogoutAllRead(r)
                  \/ LogoutAllCommit(r)

LocalPassword(r) ==
    \/ \E old \in Passwords, p \in Passwords : ChangePasswordRead(r, old, p)
    \/ \E p \in Passwords : SetPasswordRead(r, p)
    \/ \E u \in Users, p \in Passwords : ResetPasswordRead(r, u, p)
    \/ PasswordSnapshot(r)
    \/ PasswordCommit(r)

Governance(r) == \/ \E u \in Users : BlockRead(r, u) \/ UnblockRead(r, u)
                 \/ BlockSnapshot(r)
                 \/ BlockCommit(r)
                 \/ UnblockCommit(r)
                 \/ \E s \in Sessions : ManagedRevokeRead(r, s)
                 \/ ManagedRevokeCommit(r)
                 \/ \E u \in Users : ManagedLogoutAllRead(r, u)
                 \/ ManagedLogoutAllCommit(r)

Next ==
    \/ \E r \in Requests : \/ Login(r)
                           \/ Refresh(r)
                           \/ OwnSessions(r)
                           \/ LocalPassword(r)
                           \/ Governance(r)
                           \/ Abort(r)
    \/ Tick

Spec == Init /\ [][Next]_vars

-----------------------------------------------------------------------------
(***************************************************************************)
(* Properties                                                              *)
(***************************************************************************)

\* Every column holds a value of its type, and every request a legal step.
TypeOK ==
    /\ active \in [Users -> BOOLEAN]
    /\ password \in [Users -> Passwords \cup {None}]
    /\ session \in [Sessions -> SessionRow]
    /\ token \in [Tokens -> TokenRow]
    /\ clock \in Nat
    /\ request \in [Requests -> Request]

\* An open session has exactly one refresh token that can be exchanged,
\* however many refreshes of it race and whatever closes other sessions.
OneLiveTokenPerSession ==
    \A s \in Sessions : Open(s) =>
        \E t \in TokensOf({s}) : /\ Live(t)
                                 /\ \A other \in TokensOf({s}) : Live(other) => other = t

\* A session revoked by its own id (a logout, the owner, an administrator, the
\* reuse of a token) is left with no token that a late refresh could exchange.
RevokedFamilyIsDead ==
    \A s \in Sessions : session[s].revoked \in ReasonsBySession =>
        \A t \in TokensOf({s}) : ~Live(t)

\* Rotation never carries a credential past the expiry its login gave it.
TokenExpiresWithSession ==
    \A t \in Tokens : LET s == token[t].session IN
        s # None => Exists(s) /\ token[t].expiresAt <= session[s].expiresAt

\* A row, once written, keeps its owner and expiry, and the first revocation is
\* the one the audit trail keeps: no later operation overwrites or undoes it.
RevocationIsFinal ==
    [][\A s \in Sessions : Exists(s) =>
          /\ session'[s].owner = session[s].owner
          /\ session'[s].expiresAt = session[s].expiresAt
          /\ session[s].revoked # None => session'[s] = session[s]]_session

\* A token that was exchanged or revoked never becomes usable again.
SpentTokenStaysSpent ==
    [][\A t \in Tokens : token[t].session # None /\ ~Live(t) =>
          (token'[t].session = token[t].session /\ ~Live(t)')]_token

\* The step that replaces a password leaves the account no open session, not
\* even one opened after the transaction listed the sessions to close.
NewPasswordClosesEverySession ==
    [][\A u \in Users : password'[u] # password[u] =>
          \A s \in Sessions : session'[s].owner = u => session'[s].revoked # None
      ]_<<password, session>>

\* Likewise the step that blocks an account.
BlockClosesEverySession ==
    [][\A u \in Users : active[u] /\ ~active'[u] =>
          \A s \in Sessions : session'[s].owner = u => session'[s].revoked # None
      ]_<<active, session>>

\* A first password never replaces another, not even one that a reset has set
\* since the account was found to have none: a password that stands gives way
\* only to whoever knew it or holds a reset link.
FirstPasswordStands ==
    [][\A u \in Users : password[u] # None /\ password'[u] # password[u] =>
          \E r \in Requests :
              /\ At(r, "passwordWrite") /\ request[r].user = u
              /\ request[r].reason \in {"password_change", "password_reset"}]_password

\* The reasons of requests that act for an account.
OnBehalf == Reasons \ {"admin_revoked_session", "admin_logout_all", "refresh_token_reuse"}

\* Nobody is signed out by the request of somebody else, unless an administrator
\* or the reuse of a token did it: every other reason is written to the sessions
\* of the account the request acts for, and to no others.
OthersStaySignedIn ==
    [][\A s \in Sessions : Open(s) /\ session'[s].revoked \in OnBehalf =>
          \E r \in Requests : /\ request[r].user = session[s].owner
                              /\ request'[r] = Idle]_<<session, request>>

\* The rows as a client sees them.
status == [s \in Sessions |-> IF Open(s) THEN "open"
                              ELSE IF Exists(s) THEN "closed" ELSE "absent"]
current == [s \in Sessions |-> {t \in TokensOf({s}) : Open(s) /\ Live(t)}]
issued == {t \in Tokens : token[t].session # None}

Lifecycle == INSTANCE SessionLifecycle
             WITH status <- status, current <- current, issued <- issued

\* All the requests, snapshots and lost races above implement the life cycle
\* that SessionLifecycle promises: opened once, closed once, one token current
\* at a time, and never one that was handed out before.
ImplementsLifecycle == Lifecycle!Spec

(***************************************************************************)
(* What tests and documents expect and the code does not give              *)
(***************************************************************************)

\* Unblocking an account brings no session back: a blocked account has none.
UnblockRestoresNoSession ==
    [][\A u \in Users : ~active[u] /\ active'[u] => OpenSessionsOf(u) = {}]_active
=============================================================================

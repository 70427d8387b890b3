------------------------- MODULE AuthSessionsProofs -------------------------
(***************************************************************************)
(* Proofs, for any number of users, sessions, tokens and requests, of what *)
(* the runs of MCAuthSessions check on small instances.                    *)
(***************************************************************************)
EXTENDS SessionEntitlement, TLAPS

\* The records a request is given are requests, the rows written are rows.
LEMMA IdleType == Idle \in Request
BY NoneAssumption DEF Idle, Request, Steps

LEMMA BeginType ==
    ASSUME TypeOK, NEW r \in Requests, NEW req \in Request,
           Begin(r, req) \/ Continue(r, req)
    PROVE  request' \in [Requests -> Request]
BY DEF TypeOK, Begin, Continue

LEMMA FinishType ==
    ASSUME TypeOK, NEW r \in Requests, Finish(r)
    PROVE  request' \in [Requests -> Request]
BY IdleType DEF TypeOK, Finish

LEMMA RevokeSessionsType ==
    ASSUME TypeOK, NEW S, NEW reason \in Reasons, RevokeSessions(S, reason)
    PROVE  session' \in [Sessions -> SessionRow]
BY DEF TypeOK, RevokeSessions, SessionRow

LEMMA RevokeTokensType ==
    ASSUME TypeOK, NEW S, RevokeTokensOf(S)
    PROVE  token' \in [Tokens -> TokenRow]
BY DEF TypeOK, RevokeTokensOf, TokenRow

LEMMA OpenSessionType ==
    ASSUME TypeOK, NEW u \in Users, NEW s \in Sessions, NEW t \in Tokens,
           NEW e \in Nat, OpenSession(u, s, t, e)
    PROVE  /\ session' \in [Sessions -> SessionRow]
           /\ token' \in [Tokens -> TokenRow]
BY DEF TypeOK, OpenSession, SessionRow, TokenRow

LEMMA RevokeUserType ==
    ASSUME TypeOK, NEW u, NEW listed, NEW reason \in Reasons,
           RevokeUser(u, listed, reason)
    PROVE  /\ session' \in [Sessions -> SessionRow]
           /\ token' \in [Tokens -> TokenRow]
BY RevokeSessionsType, RevokeTokensType DEF RevokeUser

\* Type correctness is inductive by itself, but for the operations whose request
\* must know its user, its token or its reason: RequestOK says that it does.
RequestOK(req) ==
    /\ req.step \in {"login", "admitted", "revoke", "logoutAll", "password",
                     "passwordWrite", "block", "blockWrite", "unblock"}
       => req.user \in Users
    /\ req.step \in {"claim", "reuse", "admitted", "revoke", "managedRevoke"}
       => req.session \in Sessions
    /\ req.step = "claim" => req.token \in Tokens
    /\ req.step \in {"password", "passwordWrite"}
       => req.reason \in PasswordReasons /\ req.credential \in Passwords

RequestsOK == \A r \in Requests : RequestOK(request[r])

\* What each request has read: its token belongs to its session, its session to
\* its user, and the sessions of a list made for one user are that user's.
ReadOK(req) ==
    /\ req.step = "claim" => token[req.token].session = req.session
    /\ req.step \in {"admitted", "revoke"} => session[req.session].owner = req.user
    /\ req.step \in {"logoutAll", "passwordWrite", "blockWrite"}
       => \A s \in req.snapshot : session[s].owner = req.user

ReadsOK == \A r \in Requests : ReadOK(request[r])

Base == TypeOK /\ RequestsOK /\ ReadsOK

(***************************************************************************)
(* Every step of a request has one of five effects on the session and      *)
(* token rows.  The invariants below are proved of the effects.            *)
(***************************************************************************)

\* The request reads, or ends without a write to these rows.
Reads(r) ==
    /\ UNCHANGED <<session, token>>
    /\ \E req \in Request : /\ RequestOK(req)
                            /\ ReadOK(req)
                            /\ request' = [request EXCEPT ![r] = req]

Opens(r) ==
    /\ \E u \in Users, s \in Sessions, t \in Tokens :
           OpenSession(u, s, t, request[r].now + Ttl)
    /\ Finish(r)

Rotates(r) == \E next \in Tokens : RefreshClaim(r, next)

Closes(r) ==
    /\ \E S \in SUBSET Sessions, reason \in ReasonsBySession :
           RevokeSessions(S, reason) /\ RevokeTokensOf(S)
    /\ Finish(r)

ClosesUser(r) ==
    /\ \E u \in Users, listed \in SUBSET Sessions, reason \in ReasonsByUser :
           /\ \A s \in listed : session[s].owner = u
           /\ RevokeUser(u, listed, reason)
    /\ Finish(r)

Effect(r) == Reads(r) \/ Opens(r) \/ Rotates(r) \/ Closes(r) \/ ClosesUser(r)

\* What every effect leaves typed.
OtherRowsOK == /\ active' \in [Users -> BOOLEAN]
               /\ password' \in [Users -> Passwords \cup {None}]
               /\ clock' = clock

LEMMA IdleOK == RequestOK(Idle) /\ ReadOK(Idle)
BY DEF RequestOK, ReadOK, Idle

LEMMA LoginEffect ==
    ASSUME Base, NEW r \in Requests, Login(r)
    PROVE  Effect(r) /\ OtherRowsOK
<1> USE DEF Base, TypeOK, OtherRowsOK, rows
<1>1. ASSUME NEW u \in Users, NEW p \in Passwords, LoginRead(r, u, p)
      PROVE  Reads(r)
  <2> DEFINE req == [Idle EXCEPT !.step = "login", !.user = u, !.now = clock]
  <2>1. req \in Request /\ RequestOK(req) /\ ReadOK(req)
    BY NoneAssumption, IdleType DEF Idle, Request, Steps, RequestOK, ReadOK
  <2>2. QED BY <1>1, <2>1 DEF LoginRead, Begin, Reads
<1>2. ASSUME NEW u \in Users, GoogleLoginRead(r, u)
      PROVE  Reads(r)
  <2> DEFINE req == [Idle EXCEPT !.step = "login", !.user = u, !.now = clock]
  <2>1. req \in Request /\ RequestOK(req) /\ ReadOK(req)
    BY NoneAssumption, IdleType DEF Idle, Request, Steps, RequestOK, ReadOK
  <2>2. QED BY <1>2, <2>1 DEF GoogleLoginRead, Begin, Reads
<1>3. ASSUME NEW s \in Sessions, NEW t \in Tokens, LoginCommit(r, s, t)
      PROVE  Opens(r)
  BY <1>3 DEF LoginCommit, Opens, RequestsOK, RequestOK, At
<1>4. OtherRowsOK
  BY DEF Login, LoginRead, GoogleLoginRead, LoginCommit
<1>5. QED BY <1>1, <1>2, <1>3, <1>4 DEF Login, Effect


LEMMA RefreshEffect ==
    ASSUME Base, NEW r \in Requests, Refresh(r)
    PROVE  Effect(r) /\ OtherRowsOK
<1> USE DEF Base, TypeOK, OtherRowsOK, rows
<1>1. ASSUME NEW t \in Tokens, RefreshReadUsed(r, t)
      PROVE  Reads(r)
  <2> DEFINE req == [Idle EXCEPT !.step = "reuse", !.session = token[t].session,
                                 !.token = t]
  <2>1. req \in Request /\ RequestOK(req) /\ ReadOK(req)
    BY <1>1, IdleType
    DEF RefreshReadUsed, TokenRow, Idle, Request, Steps, RequestOK, ReadOK
  <2>2. QED BY <1>1, <2>1 DEF RefreshReadUsed, Begin, Reads
<1>2. ASSUME NEW t \in Tokens, RefreshRead(r, t)
      PROVE  Reads(r)
  <2> DEFINE req == [Idle EXCEPT !.step = "claim", !.session = token[t].session,
                                 !.token = t, !.now = clock]
  <2>1. token[t].session \in Sessions /\ clock \in Nat
    BY <1>2 DEF RefreshRead, Live, TokenRow
  <2>2. req \in Request
    BY <2>1, IdleType DEF Request, Steps
  <2>3. RequestOK(req) /\ ReadOK(req)
    BY <2>1 DEF Idle, RequestOK, ReadOK
  <2>4. QED BY <1>2, <2>2, <2>3 DEF RefreshRead, Begin, Reads
<1>3. ASSUME NEW next \in Tokens, RefreshClaim(r, next)
      PROVE  Rotates(r)
  BY <1>3 DEF Rotates
<1>4. ASSUME RefreshReuse(r)
      PROVE  Closes(r)
  <2>1. request[r].session \in Sessions
    BY <1>4 DEF RefreshReuse, RequestsOK, RequestOK, At
  <2>2. QED BY <1>4, <2>1 DEF RefreshReuse, Closes, ReasonsBySession
<1>5. OtherRowsOK
  BY DEF Refresh, RefreshReadUsed, RefreshRead, RefreshClaim, RefreshReuse
<1>6. QED BY <1>1, <1>2, <1>3, <1>4, <1>5 DEF Refresh, Effect

\* A revocation of one session, or of none when it is no longer open.
LEMMA RevokeOneEffect ==
    ASSUME Base, NEW r \in Requests, NEW step \in {"revoke", "managedRevoke"},
           NEW reason \in ReasonsBySession, RevokeOne(r, step, reason)
    PROVE  Effect(r) /\ OtherRowsOK
<1> USE DEF Base, TypeOK, OtherRowsOK
<1>1. request[r].session \in Sessions
  BY DEF RevokeOne, At, RequestsOK, RequestOK
<1>2. CASE Open(request[r].session)
  <2>1. Closes(r)
    BY <1>1, <1>2 DEF RevokeOne, Closes
  <2>2. QED BY <2>1 DEF Effect, RevokeOne
<1>3. CASE ~Open(request[r].session)
  <2>1. Reads(r)
    BY <1>3, IdleType, IdleOK DEF RevokeOne, Reads, Finish
  <2>2. QED BY <2>1 DEF Effect, RevokeOne
<1>4. QED BY <1>2, <1>3

LEMMA OwnSessionsEffect ==
    ASSUME Base, NEW r \in Requests, OwnSessions(r)
    PROVE  Effect(r) /\ OtherRowsOK
<1> USE DEF Base, TypeOK, OtherRowsOK, rows
<1>1. ASSUME NEW s \in Sessions, Admit(r, s)
      PROVE  Reads(r) /\ OtherRowsOK
  <2> DEFINE req == [Idle EXCEPT !.step = "admitted", !.user = session[s].owner,
                                 !.session = s]
  <2>1. session[s].owner \in Users
    BY <1>1 DEF Admit, Open, Exists, SessionRow
  <2>2. req \in Request
    BY <2>1, IdleType DEF Request, Steps
  <2>3. RequestOK(req) /\ ReadOK(req)
    BY <2>1 DEF Idle, RequestOK, ReadOK
  <2>4. QED BY <1>1, <2>2, <2>3 DEF Admit, Begin, Reads
<1>2. ASSUME NEW s \in Sessions, RevokeRead(r, s)
      PROVE  Reads(r) /\ OtherRowsOK
  <2> DEFINE req == [Idle EXCEPT !.step = "revoke", !.user = request[r].user,
                                 !.session = s]
  <2>1. request[r].user \in Users
    BY <1>2 DEF RevokeRead, At, RequestsOK, RequestOK
  <2>2. req \in Request
    BY <2>1, IdleType DEF Request, Steps
  <2>3. RequestOK(req) /\ ReadOK(req)
    BY <1>2, <2>1 DEF RevokeRead, Idle, RequestOK, ReadOK
  <2>4. QED BY <1>2, <2>2, <2>3 DEF RevokeRead, Continue, Reads
<1>3. ASSUME Logout(r)
      PROVE  Closes(r) /\ OtherRowsOK
  <2>1. request[r].session \in Sessions
    BY <1>3 DEF Logout, RequestsOK, RequestOK, At
  <2>2. QED BY <1>3, <2>1 DEF Logout, Closes, ReasonsBySession
<1>4. ASSUME RevokeCommit(r)
      PROVE  Effect(r) /\ OtherRowsOK
  BY <1>4, RevokeOneEffect DEF RevokeCommit, ReasonsBySession
<1>5. ASSUME LogoutAllRead(r)
      PROVE  Reads(r) /\ OtherRowsOK
  <2> DEFINE u == request[r].user
             req == [Idle EXCEPT !.step = "logoutAll", !.user = u,
                                 !.snapshot = OpenSessionsOf(u)]
  <2>1. u \in Users
    BY <1>5 DEF LogoutAllRead, At, RequestsOK, RequestOK
  <2>2. req \in Request
    BY <2>1, IdleType DEF Request, Steps, OpenSessionsOf
  <2>3. RequestOK(req) /\ ReadOK(req)
    BY <2>1 DEF Idle, RequestOK, ReadOK, OpenSessionsOf
  <2>4. QED BY <1>5, <2>2, <2>3 DEF LogoutAllRead, Continue, Reads
<1>6. ASSUME LogoutAllCommit(r)
      PROVE  ClosesUser(r) /\ OtherRowsOK
  <2>1. /\ request[r].user \in Users
        /\ request[r].snapshot \in SUBSET Sessions
        /\ \A s \in request[r].snapshot : session[s].owner = request[r].user
    BY <1>6 DEF LogoutAllCommit, At, RequestsOK, RequestOK, ReadsOK, ReadOK, Request
  <2>2. QED BY <1>6, <2>1 DEF LogoutAllCommit, ClosesUser, ReasonsByUser
<1>7. QED BY <1>1, <1>2, <1>3, <1>4, <1>5, <1>6 DEF OwnSessions, Effect


LEMMA PasswordEffect ==
    ASSUME Base, NEW r \in Requests, LocalPassword(r)
    PROVE  Effect(r) /\ OtherRowsOK
<1> USE DEF Base, TypeOK, OtherRowsOK, rows
<1>1. ASSUME NEW u \in Users, NEW p \in Passwords, NEW reason \in PasswordReasons
      PROVE  LET req == NewPassword(u, p, reason)
             IN  req \in Request /\ RequestOK(req) /\ ReadOK(req)
  <2>1. NewPassword(u, p, reason) \in Request
    BY IdleType DEF NewPassword, Request, Steps
  <2>2. QED BY <2>1 DEF NewPassword, Idle, RequestOK, ReadOK
<1>2. ASSUME NEW old \in Passwords, NEW p \in Passwords,
             ChangePasswordRead(r, old, p)
      PROVE  Reads(r) /\ OtherRowsOK
  <2>1. request[r].user \in Users
    BY <1>2 DEF ChangePasswordRead, At, RequestsOK, RequestOK
  <2>2. QED BY <1>1, <1>2, <2>1
            DEF ChangePasswordRead, Continue, Reads, PasswordReasons
<1>3. ASSUME NEW p \in Passwords, SetPasswordRead(r, p)
      PROVE  Reads(r) /\ OtherRowsOK
  <2>1. request[r].user \in Users
    BY <1>3 DEF SetPasswordRead, At, RequestsOK, RequestOK
  <2>2. QED BY <1>1, <1>3, <2>1
            DEF SetPasswordRead, Continue, Reads, PasswordReasons
<1>4. ASSUME NEW u \in Users, NEW p \in Passwords, ResetPasswordRead(r, u, p)
      PROVE  Reads(r) /\ OtherRowsOK
  BY <1>1, <1>4 DEF ResetPasswordRead, Begin, Reads, PasswordReasons
<1>5. ASSUME PasswordSnapshot(r)
      PROVE  Reads(r) /\ OtherRowsOK
  <2> DEFINE req == [request[r] EXCEPT !.step = "passwordWrite",
                         !.snapshot = OpenSessionsOf(request[r].user)]
  <2>1. req \in Request
    BY DEF Request, Steps, OpenSessionsOf
  <2>2. RequestOK(req) /\ ReadOK(req)
    BY <1>5 DEF PasswordSnapshot, At, RequestsOK, Request, RequestOK, ReadOK,
                OpenSessionsOf
  <2>3. QED BY <1>5, <2>1, <2>2 DEF PasswordSnapshot, Continue, Reads
<1>6. ASSUME PasswordCommit(r)
      PROVE  ClosesUser(r) /\ OtherRowsOK
  <2>1. /\ request[r].user \in Users
        /\ request[r].credential \in Passwords
        /\ request[r].reason \in PasswordReasons
        /\ request[r].snapshot \in SUBSET Sessions
        /\ \A s \in request[r].snapshot : session[s].owner = request[r].user
    BY <1>6 DEF PasswordCommit, At, RequestsOK, RequestOK, ReadsOK, ReadOK, Request
  <2>2. QED BY <1>6, <2>1 DEF PasswordCommit, ClosesUser, ReasonsByUser
<1>7. QED BY <1>2, <1>3, <1>4, <1>5, <1>6 DEF LocalPassword, Effect

LEMMA GovernanceEffect ==
    ASSUME Base, NEW r \in Requests, Governance(r)
    PROVE  Effect(r) /\ OtherRowsOK
<1> USE DEF Base, TypeOK, OtherRowsOK, rows
<1>1. ASSUME NEW u \in Users, NEW step \in {"block", "unblock"}
      PROVE  LET req == [Idle EXCEPT !.step = step, !.user = u]
             IN  req \in Request /\ RequestOK(req) /\ ReadOK(req)
  BY IdleType DEF Idle, Request, Steps, RequestOK, ReadOK
<1>2. ASSUME NEW u \in Users, BlockRead(r, u) \/ UnblockRead(r, u)
      PROVE  Reads(r) /\ OtherRowsOK
  BY <1>1, <1>2 DEF BlockRead, UnblockRead, Begin, Reads
<1>3. ASSUME BlockSnapshot(r)
      PROVE  Reads(r) /\ OtherRowsOK
  <2> DEFINE req == [request[r] EXCEPT !.step = "blockWrite",
                         !.snapshot = OpenSessionsOf(request[r].user)]
  <2>1. req \in Request
    BY DEF Request, Steps, OpenSessionsOf
  <2>2. RequestOK(req) /\ ReadOK(req)
    BY <1>3 DEF BlockSnapshot, At, RequestsOK, Request, RequestOK, ReadOK,
                OpenSessionsOf
  <2>3. QED BY <1>3, <2>1, <2>2 DEF BlockSnapshot, Continue, Reads
<1>4. ASSUME BlockCommit(r)
      PROVE  ClosesUser(r) /\ OtherRowsOK
  <2>1. /\ request[r].user \in Users
        /\ request[r].snapshot \in SUBSET Sessions
        /\ \A s \in request[r].snapshot : session[s].owner = request[r].user
    BY <1>4 DEF BlockCommit, At, RequestsOK, RequestOK, ReadsOK, ReadOK, Request
  <2>2. QED BY <1>4, <2>1 DEF BlockCommit, ClosesUser, ReasonsByUser
<1>5. ASSUME UnblockCommit(r)
      PROVE  Reads(r) /\ OtherRowsOK
  BY <1>5, IdleType, IdleOK DEF UnblockCommit, Reads, Finish
<1>6. ASSUME NEW s \in Sessions, ManagedRevokeRead(r, s)
      PROVE  Reads(r) /\ OtherRowsOK
  <2> DEFINE req == [Idle EXCEPT !.step = "managedRevoke", !.session = s]
  <2>1. req \in Request /\ RequestOK(req) /\ ReadOK(req)
    BY IdleType DEF Idle, Request, Steps, RequestOK, ReadOK
  <2>2. QED BY <1>6, <2>1 DEF ManagedRevokeRead, Begin, Reads
<1>7. ASSUME ManagedRevokeCommit(r)
      PROVE  Effect(r) /\ OtherRowsOK
  BY <1>7, RevokeOneEffect DEF ManagedRevokeCommit, ReasonsBySession
<1>8. ASSUME NEW u \in Users, ManagedLogoutAllRead(r, u)
      PROVE  Reads(r) /\ OtherRowsOK
  <2> DEFINE req == [Idle EXCEPT !.step = "managedLogoutAll",
                                 !.snapshot = OpenSessionsOf(u)]
  <2>1. req \in Request /\ RequestOK(req) /\ ReadOK(req)
    BY IdleType DEF Idle, Request, Steps, RequestOK, ReadOK, OpenSessionsOf
  <2>2. QED BY <1>8, <2>1 DEF ManagedLogoutAllRead, Begin, Reads
<1>9. ASSUME ManagedLogoutAllCommit(r)
      PROVE  Closes(r) /\ OtherRowsOK
  <2>1. request[r].snapshot \in SUBSET Sessions
    BY DEF Request
  <2>2. QED BY <1>9, <2>1 DEF ManagedLogoutAllCommit, Closes, ReasonsBySession
<1>10. QED BY <1>2, <1>3, <1>4, <1>5, <1>6, <1>7, <1>8, <1>9 DEF Governance, Effect

LEMMA AbortEffect ==
    ASSUME Base, NEW r \in Requests, Abort(r)
    PROVE  Effect(r) /\ OtherRowsOK
<1>1. Reads(r)
  BY IdleType, IdleOK DEF Abort, Reads, Finish, rows
<1>2. QED BY <1>1 DEF Abort, Effect, OtherRowsOK, rows, Base, TypeOK

\* A step of the specification is a request's effect, the clock or a stutter.
LEMMA StepEffect ==
    ASSUME Base, [Next]_vars
    PROVE  \/ \E r \in Requests : Effect(r) /\ OtherRowsOK
           \/ UNCHANGED <<active, password, session, token, request>> /\ clock' \in Nat
<1>1. ASSUME NEW r \in Requests,
             \/ Login(r) \/ Refresh(r) \/ OwnSessions(r) \/ LocalPassword(r)
             \/ Governance(r) \/ Abort(r)
      PROVE  Effect(r) /\ OtherRowsOK
  BY <1>1, LoginEffect, RefreshEffect, OwnSessionsEffect, PasswordEffect,
     GovernanceEffect, AbortEffect
<1>2. CASE Tick
  BY <1>2 DEF Tick, rows, Base, TypeOK
<1>3. CASE UNCHANGED vars
  BY <1>3 DEF vars, Base, TypeOK
<1>4. QED BY <1>1, <1>2, <1>3 DEF Next


(***************************************************************************)
(* Rows are never rewritten: what an effect may change in a row that       *)
(* already exists.                                                         *)
(***************************************************************************)

SessionRowsKept ==
    \A s \in Sessions : Exists(s) =>
        /\ session'[s].owner = session[s].owner
        /\ session'[s].expiresAt = session[s].expiresAt
        /\ session[s].revoked # None => session'[s] = session[s]

TokenRowsKept ==
    \A t \in Tokens : token[t].session # None =>
        /\ token'[t].session = token[t].session
        /\ token'[t].expiresAt = token[t].expiresAt
        /\ ~Live(t) => ~Live(t)'

LEMMA RevokeKeepsRows ==
    ASSUME TypeOK, NEW S, NEW L, NEW reason \in Reasons,
           RevokeSessions(S, reason), RevokeTokensOf(L)
    PROVE  SessionRowsKept /\ TokenRowsKept
<1>1. SessionRowsKept
  BY DEF TypeOK, RevokeSessions, SessionRowsKept, Exists, Open, SessionRow
<1>2. TokenRowsKept
  BY DEF TypeOK, RevokeTokensOf, TokenRowsKept, Live, TokenRow
<1>3. QED BY <1>1, <1>2

LEMMA EffectKeepsRows ==
    ASSUME Base, NEW r \in Requests, Effect(r)
    PROVE  SessionRowsKept /\ TokenRowsKept
<1>1. CASE Reads(r)
  BY <1>1 DEF Reads, SessionRowsKept, TokenRowsKept, Live
<1>2. CASE Opens(r)
  <2>1. PICK u \in Users, s \in Sessions, t \in Tokens :
            OpenSession(u, s, t, request[r].now + Ttl)
    BY <1>2 DEF Opens
  <2>2. SessionRowsKept
    BY <2>1 DEF OpenSession, SessionRowsKept, Exists, NoSession, Base, TypeOK
  <2>3. TokenRowsKept
    BY <2>1 DEF OpenSession, TokenRowsKept, Live, NoToken, Base, TypeOK
  <2>4. QED BY <2>2, <2>3
<1>3. CASE Rotates(r)
  <2>1. PICK next \in Tokens : RefreshClaim(r, next)
    BY <1>3 DEF Rotates
  <2>2. SessionRowsKept
    BY <2>1 DEF RefreshClaim, SessionRowsKept
  <2>3. TokenRowsKept
    BY <2>1 DEF RefreshClaim, TokenRowsKept, Live, NoToken, Base, TypeOK, TokenRow
  <2>4. QED BY <2>2, <2>3
<1>4. CASE Closes(r)
  BY <1>4, RevokeKeepsRows DEF Closes, Base, Reasons
<1>5. CASE ClosesUser(r)
  BY <1>5, RevokeKeepsRows DEF ClosesUser, RevokeUser, Base, Reasons
<1>6. QED BY <1>1, <1>2, <1>3, <1>4, <1>5 DEF Effect

LEMMA BaseStep ==
    ASSUME Base, [Next]_vars
    PROVE  Base'
<1>1. CASE UNCHANGED <<active, password, session, token, request>> /\ clock' \in Nat
  BY <1>1 DEF Base, TypeOK, RequestsOK, ReadsOK, RequestOK, ReadOK
<1>2. ASSUME NEW r \in Requests, Effect(r), OtherRowsOK
      PROVE  Base'
  <2> USE <1>2
  <2>1. \E req \in Request : /\ RequestOK(req)
                             /\ (req = Idle \/ (ReadOK(req) /\ UNCHANGED <<session, token>>))
                             /\ request' = [request EXCEPT ![r] = req]
    BY IdleType, IdleOK
    DEF Effect, Reads, Opens, Rotates, RefreshClaim, Closes, ClosesUser, Finish
  <2>2. PICK req \in Request : /\ RequestOK(req)
                               /\ (req = Idle \/ (ReadOK(req) /\ UNCHANGED <<session, token>>))
                               /\ request' = [request EXCEPT ![r] = req]
    BY <2>1
  <2>3. request' \in [Requests -> Request] /\ RequestsOK'
    BY <2>2 DEF Base, TypeOK, RequestsOK, RequestOK
  <2>4. /\ session' \in [Sessions -> SessionRow]
        /\ token' \in [Tokens -> TokenRow]
    <3>1. CASE Reads(r)
      BY <3>1 DEF Reads, Base, TypeOK
    <3>2. CASE Opens(r)
      <4>1. request[r].now + Ttl \in Nat
        BY TtlAssumption DEF Base, TypeOK, Request
      <4>2. QED BY <3>2, <4>1, OpenSessionType DEF Opens, Base
    <3>3. CASE Rotates(r)
      <4>1. PICK next \in Tokens : RefreshClaim(r, next)
        BY <3>3 DEF Rotates
      <4>2. request[r].session \in Sessions /\ request[r].token \in Tokens
        BY <4>1 DEF RefreshClaim, At, Base, RequestsOK, RequestOK
      <4>3. NextExpiry(request[r].session) \in Nat
        BY <4>2, TtlAssumption DEF NextExpiry, Base, TypeOK, SessionRow
      <4>4. QED BY <4>1, <4>2, <4>3 DEF RefreshClaim, Base, TypeOK, TokenRow
    <3>4. CASE Closes(r)
      BY <3>4, RevokeSessionsType, RevokeTokensType DEF Closes, Base, Reasons
    <3>5. CASE ClosesUser(r)
      BY <3>5, RevokeUserType DEF ClosesUser, Base, Reasons
    <3>6. QED BY <3>1, <3>2, <3>3, <3>4, <3>5 DEF Effect
  <2>5. TypeOK'
    BY <2>3, <2>4 DEF TypeOK, OtherRowsOK, Base
  <2>6. ASSUME NEW q \in Requests
        PROVE  ReadOK(request[q])'
    <3>1. SessionRowsKept /\ TokenRowsKept
      BY EffectKeepsRows
    <3>2. CASE q # r
      <4>1. request'[q] = request[q] /\ ReadOK(request[q]) /\ RequestOK(request[q])
        BY <2>2, <3>2 DEF Base, TypeOK, ReadsOK, RequestsOK
      <4>2. At(q, "claim") =>
                token'[request[q].token].session = request[q].session
        BY <3>1, <4>1, NoneAssumption DEF At, ReadOK, RequestOK, TokenRowsKept
      <4>3. request[q].step \in {"admitted", "revoke"}
            => session'[request[q].session].owner = request[q].user
        BY <3>1, <4>1, NoneAssumption DEF ReadOK, RequestOK, SessionRowsKept, Exists
      <4>4. request[q].step \in {"logoutAll", "passwordWrite", "blockWrite"}
            => \A s \in request[q].snapshot : session'[s].owner = request[q].user
        BY <3>1, <4>1, NoneAssumption
        DEF ReadOK, RequestOK, SessionRowsKept, Exists, Base, TypeOK, Request
      <4>5. QED BY <4>1, <4>2, <4>3, <4>4 DEF At, ReadOK
    <3>3. CASE q = r
      <4>1. request'[q] = req
        BY <2>2, <3>3 DEF Base, TypeOK
      <4>2. QED BY <2>2, <4>1 DEF ReadOK, Idle
    <3>4. QED BY <3>2, <3>3
  <2>7. QED BY <2>3, <2>5, <2>6 DEF Base, ReadsOK
<1>3. QED BY <1>1, <1>2, StepEffect

LEMMA BaseInit == Init => Base
BY IdleType, IdleOK, MaxClockAssumption
DEF Init, Base, TypeOK, RequestsOK, ReadsOK, SessionRow, TokenRow, NoSession, NoToken

\* Every reachable state is typed: the columns, and what requests remember.
THEOREM TypeCorrect == Spec => []TypeOK
<1>1. Spec => []Base
  BY BaseInit, BaseStep, PTL DEF Spec
<1>2. Base => TypeOK
  BY DEF Base
<1>3. QED BY <1>1, <1>2, PTL


(***************************************************************************)
(* The safety invariants.  They lean on each other: that a late rotation   *)
(* cannot put a live token into a family revoked by its id follows from    *)
(* the claim finding its own token dead; that it leaves an open session    *)
(* one live token follows from that token having been the only one.        *)
(***************************************************************************)

IInv == /\ Base
        /\ TokenExpiresWithSession
        /\ OneLiveTokenPerSession
        /\ RevokedFamilyIsDead

LEMMA IInvInit == Init => IInv
<1> SUFFICES ASSUME Init PROVE IInv
  OBVIOUS
<1>1. Base
  BY BaseInit
<1>2. TokenExpiresWithSession /\ OneLiveTokenPerSession /\ RevokedFamilyIsDead
  BY NoneAssumption
  DEF Init, TokenExpiresWithSession, OneLiveTokenPerSession, RevokedFamilyIsDead,
      Open, Exists, NoSession, NoToken, ReasonsBySession, TokensOf, Live
<1>3. QED BY <1>1, <1>2 DEF IInv

LEMMA OpensInv ==
    ASSUME IInv, NEW r \in Requests, Opens(r)
    PROVE  /\ TokenExpiresWithSession'
           /\ OneLiveTokenPerSession'
           /\ RevokedFamilyIsDead'
<1>1. PICK u \in Users, s \in Sessions, t \in Tokens :
          OpenSession(u, s, t, request[r].now + Ttl)
  BY DEF Opens
<1> DEFINE e == request[r].now + Ttl
<1>2. /\ u # None /\ s # None /\ e \in Nat
      /\ session'[s] = [owner |-> u, revoked |-> None, expiresAt |-> e]
      /\ token'[t] = [session |-> s, used |-> FALSE, revoked |-> FALSE, expiresAt |-> e]
      /\ \A x \in Sessions \ {s} : session'[x] = session[x]
      /\ \A x \in Tokens \ {t} : token'[x] = token[x] /\ token[x].session # s
      /\ token[t].session = None
  BY <1>1, NoneAssumption, TtlAssumption
  DEF OpenSession, IInv, Base, TypeOK, Request, TokenExpiresWithSession, Exists,
      NoSession, NoToken
<1> HIDE DEF e
<1>3. TokenExpiresWithSession'
  BY <1>2 DEF IInv, Base, TypeOK, TokenRow, TokenExpiresWithSession, Exists
<1>4. OneLiveTokenPerSession'
  <2> SUFFICES ASSUME NEW x \in Sessions, Open(x)'
               PROVE  \E y \in TokensOf({x})' : /\ Live(y)'
                          /\ \A z \in TokensOf({x})' : Live(z)' => z = y
    BY DEF OneLiveTokenPerSession
  <2>1. CASE x = s
    <3>1. t \in TokensOf({x})' /\ Live(t)'
      BY <1>2, <2>1 DEF TokensOf, Live
    <3>2. \A z \in TokensOf({x})' : z = t
      BY <1>2, <2>1 DEF TokensOf
    <3>3. QED BY <3>1, <3>2
  <2>2. CASE x # s
    <3>1. Open(x) /\ TokensOf({x})' = TokensOf({x})
      BY <1>2, <2>2, NoneAssumption DEF Open, Exists, TokensOf
    <3>2. \A z \in TokensOf({x}) : Live(z)' <=> Live(z)
      BY <1>2, <2>2, NoneAssumption DEF TokensOf, Live
    <3>3. QED BY <3>1, <3>2 DEF IInv, OneLiveTokenPerSession
  <2>3. QED BY <2>1, <2>2
<1>5. RevokedFamilyIsDead'
  <2> SUFFICES ASSUME NEW x \in Sessions, session'[x].revoked \in ReasonsBySession,
                      NEW y \in TokensOf({x})'
               PROVE  ~Live(y)'
    BY DEF RevokedFamilyIsDead
  <2>1. x # s
    BY <1>2, NoneIsNoReason DEF Reasons
  <2>2. y # t /\ y \in TokensOf({x}) /\ session[x].revoked \in ReasonsBySession
    BY <1>2, <2>1 DEF TokensOf
  <2>3. QED BY <1>2, <2>2 DEF IInv, RevokedFamilyIsDead, Live, TokensOf
<1>6. QED BY <1>3, <1>4, <1>5

LEMMA RotatesInv ==
    ASSUME IInv, NEW r \in Requests, Rotates(r)
    PROVE  /\ TokenExpiresWithSession'
           /\ OneLiveTokenPerSession'
           /\ RevokedFamilyIsDead'
<1>1. PICK next \in Tokens : RefreshClaim(r, next)
  BY DEF Rotates
<1> DEFINE s == request[r].session
           t == request[r].token
           e == NextExpiry(s)
<1>2. s \in Sessions /\ t \in Tokens /\ token[t].session = s /\ Live(t)
  BY <1>1 DEF RefreshClaim, At, Claimable, IInv, Base, RequestsOK, RequestOK,
              ReadsOK, ReadOK
<1>3. s # None /\ t # next /\ token[next].session = None
  BY <1>1, <1>2, NoneAssumption DEF RefreshClaim, NoToken
<1>4. /\ token'[next] = [session |-> s, used |-> FALSE, revoked |-> FALSE, expiresAt |-> e]
      /\ \A x \in Tokens \ {t, next} : token'[x] = token[x]
      /\ session' = session
  BY <1>1, <1>2, <1>3 DEF RefreshClaim, IInv, Base, TypeOK
<1>5. e \in Nat /\ Exists(s) /\ e <= session[s].expiresAt
  BY <1>2, <1>3, TtlAssumption
  DEF NextExpiry, IInv, Base, TypeOK, SessionRow, TokenExpiresWithSession
<1>6. /\ token'[t].session = s
      /\ token'[t].expiresAt = token[t].expiresAt
      /\ token'[t].used
  BY <1>1, <1>2, <1>3 DEF RefreshClaim, IInv, Base, TypeOK, TokenRow
<1> HIDE DEF s, t, e
<1>7. TokenExpiresWithSession'
  <2> SUFFICES ASSUME NEW x \in Tokens, token'[x].session # None
               PROVE  /\ session'[token'[x].session].owner # None
                      /\ token'[x].expiresAt <= session'[token'[x].session].expiresAt
    BY DEF TokenExpiresWithSession, Exists
  <2>1. CASE x = next
    BY <1>4, <1>5, <2>1 DEF Exists
  <2>2. CASE x # next
    BY <1>2, <1>3, <1>4, <1>6, <2>2 DEF IInv, TokenExpiresWithSession, Exists
  <2>3. QED BY <2>1, <2>2
<1>8. OneLiveTokenPerSession'
  <2> SUFFICES ASSUME NEW x \in Sessions, Open(x)'
               PROVE  \E y \in TokensOf({x})' : /\ Live(y)'
                          /\ \A z \in TokensOf({x})' : Live(z)' => z = y
    BY DEF OneLiveTokenPerSession
  <2>1. Open(x)
    BY <1>4 DEF Open, Exists
  <2>2. CASE x = s
    <3>1. next \in TokensOf({x})'
      BY <1>4, <2>2 DEF TokensOf
    <3>2. ASSUME NEW z \in TokensOf({x})', Live(z)', z # next
          PROVE  FALSE
      <4>1. z # t
        BY <1>6, <3>2 DEF Live
      <4>2. z \in TokensOf({s}) /\ Live(z)
        BY <1>4, <2>2, <3>2, <4>1 DEF TokensOf, Live
      <4>3. t \in TokensOf({s})
        BY <1>2 DEF TokensOf
      <4>4. QED BY <1>2, <2>1, <2>2, <4>1, <4>2, <4>3 DEF IInv, OneLiveTokenPerSession
    <3>3. Live(next)'
      BY <1>3, <1>4 DEF Live
    <3>4. QED BY <3>1, <3>2, <3>3
  <2>3. CASE x # s
    <3>1. TokensOf({x})' = TokensOf({x})
      <4>1. \A z \in Tokens : token'[z].session = x <=> token[z].session = x
        <5>1. token[t].session = s /\ x # None
          BY <1>2, NoneAssumption
        <5>2. QED BY <1>3, <1>4, <1>6, <2>3, <5>1
      <4>2. QED BY <4>1 DEF TokensOf
    <3>2. \A z \in TokensOf({x}) : Live(z)' <=> Live(z)
      BY <1>2, <1>3, <1>4, <2>3, NoneAssumption DEF TokensOf, Live
    <3>3. QED BY <2>1, <3>1, <3>2 DEF IInv, OneLiveTokenPerSession
  <2>4. QED BY <2>2, <2>3
<1>9. RevokedFamilyIsDead'
  <2> SUFFICES ASSUME NEW x \in Sessions, session'[x].revoked \in ReasonsBySession,
                      NEW y \in TokensOf({x})'
               PROVE  ~Live(y)'
    BY DEF RevokedFamilyIsDead
  <2>1. session[x].revoked \in ReasonsBySession
    BY <1>4
  <2>2. x # s
    BY <1>2, <2>1 DEF IInv, RevokedFamilyIsDead, TokensOf
  <2>3. y # t /\ y # next /\ y \in TokensOf({x})
    <3>1. y \in Tokens /\ token'[y].session = x
      BY DEF TokensOf
    <3>2. y # t /\ y # next
      BY <1>4, <1>6, <2>2, <3>1
    <3>3. QED BY <1>4, <3>1, <3>2 DEF TokensOf
  <2>4. QED BY <1>4, <2>1, <2>3 DEF IInv, RevokedFamilyIsDead, Live, TokensOf
<1>10. QED BY <1>7, <1>8, <1>9


\* Revoking sessions S and the tokens of L, which are all of sessions of S, is
\* harmless; if the reason is one of ReasonsBySession, L must be all of S.
LEMMA RevokeInv ==
    ASSUME IInv, NEW S \in SUBSET Sessions, NEW L \in SUBSET S,
           NEW reason \in Reasons, reason \in ReasonsBySession => L = S,
           RevokeSessions(S, reason), RevokeTokensOf(L)
    PROVE  /\ TokenExpiresWithSession'
           /\ OneLiveTokenPerSession'
           /\ RevokedFamilyIsDead'
<1>1. \A x \in Sessions : /\ session'[x].owner = session[x].owner
                          /\ session'[x].expiresAt = session[x].expiresAt
                          /\ Open(x)' <=> Open(x) /\ x \notin S
                          /\ session'[x].revoked = IF x \in S /\ Open(x) THEN reason
                                                   ELSE session[x].revoked
  BY NoneIsNoReason
  DEF RevokeSessions, IInv, Base, TypeOK, SessionRow, Open, Exists
<1>2. \A x \in Tokens : /\ token'[x].session = token[x].session
                        /\ token'[x].expiresAt = token[x].expiresAt
                        /\ token'[x].used = token[x].used
                        /\ token'[x].revoked =
                              (token[x].session \in L \/ token[x].revoked)
  BY DEF RevokeTokensOf, IInv, Base, TypeOK, TokenRow
<1>3. TokenExpiresWithSession'
  BY <1>1, <1>2, NoneAssumption
  DEF TokenExpiresWithSession, Exists, IInv, Base, TypeOK, TokenRow
<1>4. \A T \in SUBSET Sessions : TokensOf(T)' = TokensOf(T)
  BY <1>2 DEF TokensOf
<1>5. OneLiveTokenPerSession'
  <2> SUFFICES ASSUME NEW x \in Sessions, Open(x)'
               PROVE  \E y \in TokensOf({x})' : /\ Live(y)'
                          /\ \A z \in TokensOf({x})' : Live(z)' => z = y
    BY DEF OneLiveTokenPerSession
  <2>1. Open(x) /\ x \notin L
    BY <1>1
  <2>2. \A z \in TokensOf({x}) : Live(z)' <=> Live(z)
    BY <1>2, <2>1 DEF TokensOf, Live
  <2>3. QED BY <1>4, <2>1, <2>2 DEF IInv, OneLiveTokenPerSession
<1>6. RevokedFamilyIsDead'
  <2> SUFFICES ASSUME NEW x \in Sessions, session'[x].revoked \in ReasonsBySession,
                      NEW y \in TokensOf({x})'
               PROVE  ~Live(y)'
    BY DEF RevokedFamilyIsDead
  <2>1. y \in TokensOf({x})
    BY <1>4
  <2>2. CASE x \in S /\ Open(x)
    <3>1. x \in L
      BY <1>1, <2>2
    <3>2. QED BY <1>2, <2>1, <3>1 DEF TokensOf, Live
  <2>3. CASE ~(x \in S /\ Open(x))
    <3>1. session[x].revoked \in ReasonsBySession
      BY <1>1, <2>3
    <3>2. ~Live(y)
      BY <2>1, <3>1 DEF IInv, RevokedFamilyIsDead
    <3>3. QED BY <1>2, <2>1, <3>2 DEF TokensOf, Live
  <2>4. QED BY <2>2, <2>3
<1>7. QED BY <1>3, <1>5, <1>6

LEMMA EffectInv ==
    ASSUME IInv, NEW r \in Requests, Effect(r)
    PROVE  /\ TokenExpiresWithSession'
           /\ OneLiveTokenPerSession'
           /\ RevokedFamilyIsDead'
<1>1. CASE Reads(r)
  BY <1>1 DEF Reads, IInv, TokenExpiresWithSession, OneLiveTokenPerSession,
              RevokedFamilyIsDead, Live, Open, Exists, TokensOf
<1>2. CASE Opens(r)
  BY <1>2, OpensInv
<1>3. CASE Rotates(r)
  BY <1>3, RotatesInv
<1>4. CASE Closes(r)
  <2>1. PICK S \in SUBSET Sessions, reason \in ReasonsBySession :
            RevokeSessions(S, reason) /\ RevokeTokensOf(S)
    BY <1>4 DEF Closes
  <2>2. reason \in Reasons /\ S \in SUBSET S
    BY DEF Reasons
  <2>3. QED BY <2>1, <2>2, RevokeInv
<1>5. CASE ClosesUser(r)
  <2>1. PICK u \in Users, listed \in SUBSET Sessions, reason \in ReasonsByUser :
            /\ \A s \in listed : session[s].owner = u
            /\ RevokeUser(u, listed, reason)
    BY <1>5 DEF ClosesUser
  <2> DEFINE S == {s \in Sessions : session[s].owner = u}
  <2>2. S \in SUBSET Sessions /\ listed \in SUBSET S /\ reason \in Reasons
    BY <2>1 DEF Reasons
  <2>3. reason \notin ReasonsBySession
    BY DEF ReasonsByUser, ReasonsBySession, PasswordReasons
  <2>4. RevokeSessions(S, reason) /\ RevokeTokensOf(listed)
    BY <2>1 DEF RevokeUser
  <2> HIDE DEF S
  <2>5. QED BY <2>2, <2>3, <2>4, RevokeInv
<1>6. QED BY <1>1, <1>2, <1>3, <1>4, <1>5 DEF Effect

LEMMA IInvStep ==
    ASSUME IInv, [Next]_vars
    PROVE  IInv'
<1>1. Base'
  BY BaseStep DEF IInv
<1>2. CASE UNCHANGED <<active, password, session, token, request>>
  BY <1>1, <1>2 DEF IInv, TokenExpiresWithSession, OneLiveTokenPerSession,
                    RevokedFamilyIsDead, Live, Open, Exists, TokensOf
<1>3. ASSUME NEW r \in Requests, Effect(r)
      PROVE  IInv'
  BY <1>1, <1>3, EffectInv DEF IInv
<1>4. QED BY <1>2, <1>3, StepEffect DEF IInv

LEMMA Invariance == Spec => []IInv
BY IInvInit, IInvStep, PTL DEF Spec

\* However refreshes, logouts and governance interleave, an open session keeps
\* exactly one token that can be exchanged.
THEOREM OneLiveToken == Spec => []OneLiveTokenPerSession
<1>1. IInv => OneLiveTokenPerSession
  BY DEF IInv
<1>2. QED BY <1>1, Invariance, PTL

\* A session revoked by its id, token reuse included, has no live token left,
\* and no refresh in flight at that moment gives it one.
THEOREM RevokedFamily == Spec => []RevokedFamilyIsDead
<1>1. IInv => RevokedFamilyIsDead
  BY DEF IInv
<1>2. QED BY <1>1, Invariance, PTL

\* No chain of refreshes outlives the expiry fixed at login.
THEOREM AbsoluteExpiry == Spec => []TokenExpiresWithSession
<1>1. IInv => TokenExpiresWithSession
  BY DEF IInv
<1>2. QED BY <1>1, Invariance, PTL

\* The first revocation of a session is final: neither its reason nor its
\* owner or expiry is ever overwritten.
THEOREM FinalRevocation == Spec => RevocationIsFinal
<1>1. ASSUME Base, [Next]_vars
      PROVE  [SessionRowsKept]_session
  BY <1>1, StepEffect, EffectKeepsRows
<1>2. IInv => Base
  BY DEF IInv
<1>3. QED BY <1>1, <1>2, Invariance, PTL DEF Spec, RevocationIsFinal, SessionRowsKept

\* A token that was exchanged or revoked stays worthless.
THEOREM SpentForever == Spec => SpentTokenStaysSpent
<1>1. ASSUME Base, [Next]_vars
      PROVE  [\A t \in Tokens : token[t].session # None /\ ~Live(t) =>
                 (token'[t].session = token[t].session /\ ~Live(t)')]_token
  BY <1>1, StepEffect, EffectKeepsRows DEF TokenRowsKept
<1>2. IInv => Base
  BY DEF IInv
<1>3. QED BY <1>1, <1>2, Invariance, PTL DEF Spec, SpentTokenStaysSpent


(***************************************************************************)
(* The rows implement SessionLifecycle.                                    *)
(***************************************************************************)

LEMMA LifecycleInit ==
    ASSUME Init
    PROVE  Lifecycle!Init
BY DEF Init, Lifecycle!Init, status, current, issued, Open, Exists, NoSession,
       NoToken, TokensOf

\* An opening is an opening.
LEMMA OpensRefines ==
    ASSUME IInv, NEW r \in Requests, Opens(r)
    PROVE  Lifecycle!Next
<1>1. PICK u \in Users, s \in Sessions, t \in Tokens :
          OpenSession(u, s, t, request[r].now + Ttl)
  BY DEF Opens
<1> DEFINE e == request[r].now + Ttl
<1>2. /\ ~Exists(s) /\ Exists(s)' /\ Open(s)'
      /\ \A x \in Sessions \ {s} : session'[x] = session[x]
      /\ token'[t] = [session |-> s, used |-> FALSE, revoked |-> FALSE, expiresAt |-> e]
      /\ token[t].session = None
      /\ \A x \in Tokens \ {t} : token'[x] = token[x] /\ token[x].session # s
      /\ s # None
  BY <1>1, NoneAssumption
  DEF OpenSession, IInv, Base, TypeOK, TokenExpiresWithSession, Exists, Open,
      NoSession, NoToken
<1> HIDE DEF e
<1>3. status[s] = "absent" /\ t \notin issued
  BY <1>2 DEF status, issued, Open, Exists
<1>4. status' = [status EXCEPT ![s] = "open"]
  BY <1>2 DEF status, Open, Exists
<1>5. current' = [current EXCEPT ![s] = {t}]
  <2> SUFFICES ASSUME NEW x \in Sessions
               PROVE  {y \in TokensOf({x}) : Open(x) /\ Live(y)}' =
                      IF x = s THEN {t} ELSE {y \in TokensOf({x}) : Open(x) /\ Live(y)}
    BY DEF current
  <2>1. CASE x = s
    BY <1>2, <2>1 DEF TokensOf, Live
  <2>2. CASE x # s
    <3>1. Open(x)' <=> Open(x)
      BY <1>2, <2>2 DEF Open, Exists
    <3>2. \A y \in Tokens : token'[y].session = x /\ Live(y)'
                            <=> token[y].session = x /\ Live(y)
      BY <1>2, <2>2, NoneAssumption DEF Live
    <3>3. QED BY <2>2, <3>1, <3>2 DEF TokensOf
  <2>3. QED BY <2>1, <2>2
<1>6. issued' = issued \cup {t}
  BY <1>2 DEF issued
<1>7. Lifecycle!Open(s, t)
  BY <1>3, <1>4, <1>5, <1>6 DEF Lifecycle!Open
<1>8. QED BY <1>7 DEF Lifecycle!Next

\* A rotation is a rotation, or the loser of a race with the closing.
LEMMA RotatesRefines ==
    ASSUME IInv, NEW r \in Requests, Rotates(r)
    PROVE  Lifecycle!Next
<1>1. PICK next \in Tokens : RefreshClaim(r, next)
  BY DEF Rotates
<1>2. PICK s \in Sessions, t \in Tokens :
          /\ s = request[r].session
          /\ t = request[r].token
          /\ token[t].session = s
          /\ Live(t)
  BY <1>1 DEF RefreshClaim, At, Claimable, IInv, Base, RequestsOK, RequestOK,
              ReadsOK, ReadOK
<1> DEFINE e == NextExpiry(s)
<1>3. s # None /\ t # next /\ token[next].session = None /\ Exists(s)
  BY <1>1, <1>2, NoneAssumption DEF RefreshClaim, NoToken, IInv, TokenExpiresWithSession
<1>4. /\ token'[next] = [session |-> s, used |-> FALSE, revoked |-> FALSE, expiresAt |-> e]
      /\ \A x \in Tokens \ {t, next} : token'[x] = token[x]
      /\ session' = session
      /\ token'[t].session = s /\ token'[t].used
  BY <1>1, <1>2, <1>3 DEF RefreshClaim, IInv, Base, TypeOK, TokenRow
<1> HIDE DEF e
<1>5. status' = status
  BY <1>4 DEF status, Open, Exists
<1>6. next \notin issued /\ issued' = issued \cup {next}
  BY <1>2, <1>3, <1>4 DEF issued
<1>7. \A x \in Sessions : Open(x)' <=> Open(x)
  BY <1>4 DEF Open, Exists
<1>8. \A x \in Sessions \ {s} : current'[x] = current[x]
  <2> SUFFICES ASSUME NEW x \in Sessions \ {s}
               PROVE  {y \in TokensOf({x}) : Open(x) /\ Live(y)}' =
                      {y \in TokensOf({x}) : Open(x) /\ Live(y)}
    BY DEF current
  <2>1. \A y \in Tokens : token'[y].session = x /\ Live(y)'
                          <=> token[y].session = x /\ Live(y)
    BY <1>2, <1>3, <1>4, NoneAssumption DEF Live
  <2>2. QED BY <1>7, <2>1 DEF TokensOf
<1>9. CASE Open(s)
  <2>1. current[s] = {t}
    BY <1>2, <1>9 DEF IInv, OneLiveTokenPerSession, current, TokensOf
  <2>2. current'[s] = {next}
    <3>1. next \in TokensOf({s})' /\ Live(next)'
      BY <1>3, <1>4 DEF TokensOf, Live
    <3>2. ASSUME NEW y \in TokensOf({s})', Live(y)', y # next
          PROVE  FALSE
      <4>1. y # t
        BY <1>4, <3>2 DEF Live
      <4>2. y \in TokensOf({s}) /\ Live(y)
        BY <1>4, <3>2, <4>1 DEF TokensOf, Live
      <4>3. QED BY <1>9, <2>1, <4>1, <4>2, <1>2 DEF current
    <3>3. QED BY <1>2, <1>7, <1>9, <3>1, <3>2 DEF current
  <2>3. current' = [current EXCEPT ![s] = {next}]
    BY <1>2, <1>8, <2>2 DEF current
  <2>4. Lifecycle!Rotate(s, t, next)
    BY <1>2, <1>5, <1>6, <1>9, <2>1, <2>3 DEF Lifecycle!Rotate, status
  <2>5. QED BY <1>2, <2>4 DEF Lifecycle!Next
<1>10. CASE ~Open(s)
  <2>1. current'[s] = current[s]
    BY <1>2, <1>7, <1>10 DEF current
  <2>2. current' = current
    BY <1>8, <2>1 DEF current
  <2>3. Lifecycle!IssueDead(s, next)
    BY <1>2, <1>3, <1>5, <1>6, <1>10, <2>2 DEF Lifecycle!IssueDead, status
  <2>4. QED BY <1>2, <2>3 DEF Lifecycle!Next
<1>11. QED BY <1>9, <1>10

\* A revocation closes the sessions it finds open.
LEMMA RevokeRefines ==
    ASSUME IInv, NEW S \in SUBSET Sessions, NEW L \in SUBSET S,
           NEW reason \in Reasons, RevokeSessions(S, reason), RevokeTokensOf(L)
    PROVE  Lifecycle!Next
<1> DEFINE C == {x \in S : Open(x)}
<1>1. \A x \in Sessions : /\ Exists(x)' <=> Exists(x)
                          /\ Open(x)' <=> Open(x) /\ x \notin S
  BY NoneIsNoReason
  DEF RevokeSessions, IInv, Base, TypeOK, SessionRow, Open, Exists
<1>2. \A x \in Tokens : /\ token'[x].session = token[x].session
                        /\ token'[x].used = token[x].used
                        /\ token'[x].revoked =
                              (token[x].session \in L \/ token[x].revoked)
  BY DEF RevokeTokensOf, IInv, Base, TypeOK, TokenRow
<1>3. status' = [x \in Sessions |-> IF x \in C THEN "closed" ELSE status[x]]
  BY <1>1 DEF status, Open
<1>4. current' = [x \in Sessions |-> IF x \in C THEN {} ELSE current[x]]
  <2> SUFFICES ASSUME NEW x \in Sessions
               PROVE  {y \in TokensOf({x}) : Open(x) /\ Live(y)}' =
                      IF x \in C THEN {} ELSE {y \in TokensOf({x}) : Open(x) /\ Live(y)}
    BY DEF current
  <2>1. CASE Open(x)'
    <3>1. Open(x) /\ x \notin S /\ x \notin L
      BY <1>1, <2>1
    <3>2. \A y \in Tokens : token'[y].session = x /\ Live(y)'
                            <=> token[y].session = x /\ Live(y)
      BY <1>2, <3>1 DEF Live
    <3>3. QED BY <2>1, <3>1, <3>2 DEF TokensOf
  <2>2. CASE ~Open(x)'
    BY <1>1, <2>2
  <2>3. QED BY <2>1, <2>2
<1>5. issued' = issued
  BY <1>2 DEF issued
<1>6. \A x \in C : status[x] = "open"
  BY DEF status
<1>7. Lifecycle!Close(C)
  BY <1>3, <1>4, <1>5, <1>6 DEF Lifecycle!Close
<1>8. QED BY <1>7 DEF Lifecycle!Next

\* The whole of the request handling implements the promise to clients.
THEOREM Implementation == Spec => ImplementsLifecycle
<1>1. Init => Lifecycle!Init
  BY LifecycleInit
<1>2. ASSUME IInv, [Next]_vars
      PROVE  [Lifecycle!Next]_(Lifecycle!vars)
  <2>1. CASE UNCHANGED <<active, password, session, token, request>>
    BY <2>1 DEF Lifecycle!vars, status, current, issued, Open, Exists, Live, TokensOf
  <2>2. ASSUME NEW r \in Requests, Effect(r)
        PROVE  [Lifecycle!Next]_(Lifecycle!vars)
    <3>1. CASE Reads(r)
      BY <3>1
      DEF Reads, Lifecycle!vars, status, current, issued, Open, Exists, Live, TokensOf
    <3>2. CASE Opens(r)
      BY <1>2, <3>2, OpensRefines
    <3>3. CASE Rotates(r)
      BY <1>2, <3>3, RotatesRefines
    <3>4. CASE Closes(r)
      <4>1. PICK S \in SUBSET Sessions, reason \in ReasonsBySession :
                RevokeSessions(S, reason) /\ RevokeTokensOf(S)
        BY <3>4 DEF Closes
      <4>2. reason \in Reasons /\ S \in SUBSET S
        BY DEF Reasons
      <4>3. QED BY <1>2, <4>1, <4>2, RevokeRefines
    <3>5. CASE ClosesUser(r)
      <4>1. PICK u \in Users, listed \in SUBSET Sessions, reason \in ReasonsByUser :
                /\ \A s \in listed : session[s].owner = u
                /\ RevokeUser(u, listed, reason)
        BY <3>5 DEF ClosesUser
      <4> DEFINE S == {s \in Sessions : session[s].owner = u}
      <4>2. S \in SUBSET Sessions /\ listed \in SUBSET S /\ reason \in Reasons
        BY <4>1 DEF Reasons
      <4>3. RevokeSessions(S, reason) /\ RevokeTokensOf(listed)
        BY <4>1 DEF RevokeUser
      <4> HIDE DEF S
      <4>4. QED BY <1>2, <4>2, <4>3, RevokeRefines
    <3>6. QED BY <2>2, <3>1, <3>2, <3>3, <3>4, <3>5 DEF Effect
  <2>3. QED BY <1>2, <2>1, <2>2, StepEffect DEF IInv
<1>3. QED BY <1>1, <1>2, Invariance, PTL
          DEF Spec, ImplementsLifecycle, Lifecycle!Spec


(***************************************************************************)
(* What the steps that close sessions reach.                               *)
(***************************************************************************)

\* The revocation by user leaves none of the user's sessions open, for whatever
\* reason and whichever were listed before.
LEMMA RevokeUserClosesAll ==
    ASSUME TypeOK, NEW u \in Users, NEW listed, NEW reason \in Reasons,
           RevokeUser(u, listed, reason), NEW s \in Sessions, session'[s].owner = u
    PROVE  session'[s].revoked # None
<1>1. session[s].owner = u
  BY DEF RevokeUser, RevokeSessions, TypeOK, SessionRow
<1>2. CASE Open(s)
  BY <1>1, <1>2, NoneIsNoReason DEF RevokeUser, RevokeSessions, TypeOK, SessionRow
<1>3. CASE ~Open(s)
  BY <1>1, <1>3, NoneAssumption DEF RevokeUser, RevokeSessions, Open, Exists
<1>4. QED BY <1>2, <1>3

\* Only PasswordCommit writes a password, and only BlockCommit blocks.
LEMMA PasswordClosesStep ==
    ASSUME Base, [Next]_vars,
           NEW u \in Users, password'[u] # password[u],
           NEW s \in Sessions, session'[s].owner = u
    PROVE  session'[s].revoked # None
<1>1. PICK r \in Requests : PasswordCommit(r)
  BY DEF Next, vars, rows, Tick, Abort, Login, LoginRead, GoogleLoginRead, LoginCommit,
      Refresh, RefreshReadUsed, RefreshRead, RefreshClaim, RefreshReuse,
      OwnSessions, Admit, RevokeRead, Logout, RevokeCommit, RevokeOne,
      LogoutAllRead, LogoutAllCommit, LocalPassword, ChangePasswordRead,
      SetPasswordRead, ResetPasswordRead, PasswordSnapshot, Governance, BlockRead,
      UnblockRead, BlockSnapshot, BlockCommit, UnblockCommit, ManagedRevokeRead,
      ManagedRevokeCommit, ManagedLogoutAllRead, ManagedLogoutAllCommit
<1>2. request[r].user = u /\ request[r].reason \in Reasons
  BY <1>1 DEF PasswordCommit, At, Base, TypeOK, RequestsOK, RequestOK, Reasons, ReasonsByUser
<1>3. QED BY <1>1, <1>2, RevokeUserClosesAll DEF PasswordCommit, Base

\* The write of a first password looks for itself whether there is one.
LEMMA FirstPasswordStep ==
    ASSUME Base, [Next]_vars,
           NEW u \in Users, password[u] # None, password'[u] # password[u]
    PROVE  \E r \in Requests :
              /\ At(r, "passwordWrite") /\ request[r].user = u
              /\ request[r].reason \in {"password_change", "password_reset"}
<1>1. PICK r \in Requests : PasswordCommit(r)
  BY DEF Next, vars, rows, Tick, Abort, Login, LoginRead, GoogleLoginRead, LoginCommit,
      Refresh, RefreshReadUsed, RefreshRead, RefreshClaim, RefreshReuse,
      OwnSessions, Admit, RevokeRead, Logout, RevokeCommit, RevokeOne,
      LogoutAllRead, LogoutAllCommit, LocalPassword, ChangePasswordRead,
      SetPasswordRead, ResetPasswordRead, PasswordSnapshot, Governance, BlockRead,
      UnblockRead, BlockSnapshot, BlockCommit, UnblockCommit, ManagedRevokeRead,
      ManagedRevokeCommit, ManagedLogoutAllRead, ManagedLogoutAllCommit
<1>2. request[r].user = u
  BY <1>1 DEF PasswordCommit, Base, TypeOK
<1>3. request[r].reason \in PasswordReasons
  BY <1>1 DEF PasswordCommit, At, Base, RequestsOK, RequestOK
<1>4. QED BY <1>1, <1>2, <1>3 DEF PasswordCommit, PasswordReasons

LEMMA BlockClosesStep ==
    ASSUME Base, [Next]_vars,
           NEW u \in Users, active[u], ~active'[u],
           NEW s \in Sessions, session'[s].owner = u
    PROVE  session'[s].revoked # None
<1>1. PICK r \in Requests : BlockCommit(r)
  BY DEF Next, vars, rows, Tick, Abort, Login, LoginRead, GoogleLoginRead, LoginCommit,
      Refresh, RefreshReadUsed, RefreshRead, RefreshClaim, RefreshReuse,
      OwnSessions, Admit, RevokeRead, Logout, RevokeCommit, RevokeOne,
      LogoutAllRead, LogoutAllCommit, LocalPassword, ChangePasswordRead,
      SetPasswordRead, ResetPasswordRead, PasswordSnapshot, PasswordCommit,
      Governance, BlockRead, UnblockRead, BlockSnapshot, UnblockCommit,
      ManagedRevokeRead, ManagedRevokeCommit, ManagedLogoutAllRead,
      ManagedLogoutAllCommit, Base, TypeOK
<1>2. request[r].user = u
  BY <1>1 DEF BlockCommit, Base, TypeOK
<1>3. QED BY <1>1, <1>2, RevokeUserClosesAll DEF BlockCommit, Base, Reasons, ReasonsByUser

\* The step that replaces a password closes every session of the account with
\* it, whatever opens sessions meanwhile (the transactions of password-recovery
\* and local-password, which revoke by user).
THEOREM PasswordCloses == Spec => NewPasswordClosesEverySession
<1>1. Base /\ [Next]_vars
      => [\A u \in Users : password'[u] # password[u] =>
            \A s \in Sessions : session'[s].owner = u => session'[s].revoked # None
         ]_<<password, session>>
  BY PasswordClosesStep
<1>2. QED BY BaseInit, BaseStep, <1>1, PTL DEF Spec, NewPasswordClosesEverySession

\* Likewise the step that blocks an account (account-governance.service.ts).
THEOREM BlockCloses == Spec => BlockClosesEverySession
<1>1. Base /\ [Next]_vars
      => [\A u \in Users : active[u] /\ ~active'[u] =>
            \A s \in Sessions : session'[s].owner = u => session'[s].revoked # None
         ]_<<active, session>>
  BY BlockClosesStep
<1>2. QED BY BaseInit, BaseStep, <1>1, PTL DEF Spec, BlockClosesEverySession

\* Of the steps that replace a password none is of a request to set the first
\* one, although it found none when it read the account: the UPDATE asks for
\* passwordHash: null once more (local-password.service.ts).
THEOREM FirstPasswordStays == Spec => FirstPasswordStands
<1>1. Base /\ [Next]_vars
      => [\A u \in Users : password[u] # None /\ password'[u] # password[u] =>
            \E r \in Requests :
               /\ At(r, "passwordWrite") /\ request[r].user = u
               /\ request[r].reason \in {"password_change", "password_reset"}]_password
  BY FirstPasswordStep
<1>2. QED BY BaseInit, BaseStep, <1>1, PTL DEF Spec, FirstPasswordStands

\* A session that is written to with a reason of its account's own requests is
\* one of the account the request acts for.
SignedOutByOwner(r) ==
    \A s \in Sessions : Open(s) /\ session'[s].revoked \in OnBehalf =>
        request[r].user = session[s].owner /\ request'[r] = Idle

LEMMA FinishEnds ==
    ASSUME TypeOK, NEW r \in Requests, Finish(r)
    PROVE  request'[r] = Idle
BY DEF TypeOK, Finish

LEMMA UnwrittenSigned ==
    ASSUME NEW r, UNCHANGED session
    PROVE  SignedOutByOwner(r)
BY NoneIsNoReason DEF SignedOutByOwner, OnBehalf, Open

LEMMA RevokeUserSigned ==
    ASSUME Base, NEW r \in Requests, NEW listed, NEW reason,
           RevokeUser(request[r].user, listed, reason), Finish(r)
    PROVE  SignedOutByOwner(r)
BY NoneIsNoReason, FinishEnds
DEF RevokeUser, RevokeSessions, SignedOutByOwner, OnBehalf, Open, Base, TypeOK

LEMMA RevokeOwnSigned ==
    ASSUME Base, NEW r \in Requests, NEW reason,
           request[r].step \in {"admitted", "revoke"},
           RevokeSessions({request[r].session}, reason), Finish(r)
    PROVE  SignedOutByOwner(r)
<1>1. session[request[r].session].owner = request[r].user
  BY DEF Base, ReadsOK, ReadOK
<1>2. QED
  BY <1>1, NoneIsNoReason, FinishEnds
  DEF RevokeSessions, SignedOutByOwner, OnBehalf, Open, Base, TypeOK

\* The reasons of administrators and of reuse are not of the account's own.
LEMMA RevokeOthersSigned ==
    ASSUME Base, NEW r, NEW S, NEW reason \in Reasons \ OnBehalf,
           RevokeSessions(S, reason)
    PROVE  SignedOutByOwner(r)
BY NoneIsNoReason DEF RevokeSessions, SignedOutByOwner, OnBehalf, Open, Base, TypeOK

LEMMA OwnSessionsSigned ==
    ASSUME Base, NEW r \in Requests, OwnSessions(r)
    PROVE  SignedOutByOwner(r)
<1>1. ASSUME NEW s \in Sessions, Admit(r, s) \/ RevokeRead(r, s)
      PROVE  SignedOutByOwner(r)
  BY <1>1, UnwrittenSigned DEF Admit, RevokeRead, rows
<1>2. CASE Logout(r)
  BY <1>2, RevokeOwnSigned DEF Logout, At
<1>3. CASE RevokeCommit(r)
  <2>1. CASE Open(request[r].session)
    BY <1>3, <2>1, RevokeOwnSigned DEF RevokeCommit, RevokeOne, At
  <2>2. CASE ~Open(request[r].session)
    BY <1>3, <2>2, UnwrittenSigned DEF RevokeCommit, RevokeOne
  <2>3. QED BY <2>1, <2>2
<1>4. CASE LogoutAllRead(r)
  BY <1>4, UnwrittenSigned DEF LogoutAllRead, rows
<1>5. CASE LogoutAllCommit(r)
  BY <1>5, RevokeUserSigned DEF LogoutAllCommit
<1>6. QED BY <1>1, <1>2, <1>3, <1>4, <1>5 DEF OwnSessions

LEMMA GovernanceSigned ==
    ASSUME Base, NEW r \in Requests, Governance(r)
    PROVE  SignedOutByOwner(r)
<1>1. ASSUME NEW u \in Users, BlockRead(r, u) \/ UnblockRead(r, u)
                              \/ ManagedLogoutAllRead(r, u)
      PROVE  SignedOutByOwner(r)
  BY <1>1, UnwrittenSigned DEF BlockRead, UnblockRead, ManagedLogoutAllRead, rows
<1>2. ASSUME NEW s \in Sessions, ManagedRevokeRead(r, s)
      PROVE  SignedOutByOwner(r)
  BY <1>2, UnwrittenSigned DEF ManagedRevokeRead, rows
<1>3. CASE BlockSnapshot(r) \/ UnblockCommit(r)
  BY <1>3, UnwrittenSigned DEF BlockSnapshot, UnblockCommit, rows
<1>4. CASE BlockCommit(r)
  BY <1>4, RevokeUserSigned DEF BlockCommit
<1>5. CASE ManagedRevokeCommit(r)
  <2>1. CASE Open(request[r].session)
    BY <1>5, <2>1, RevokeOthersSigned
    DEF ManagedRevokeCommit, RevokeOne, OnBehalf, Reasons, ReasonsBySession
  <2>2. CASE ~Open(request[r].session)
    BY <1>5, <2>2, UnwrittenSigned DEF ManagedRevokeCommit, RevokeOne
  <2>3. QED BY <2>1, <2>2
<1>6. CASE ManagedLogoutAllCommit(r)
  BY <1>6, RevokeOthersSigned
  DEF ManagedLogoutAllCommit, OnBehalf, Reasons, ReasonsBySession
<1>7. QED BY <1>1, <1>2, <1>3, <1>4, <1>5, <1>6 DEF Governance

LEMMA OtherSigned ==
    ASSUME Base, NEW r \in Requests,
           Login(r) \/ Refresh(r) \/ LocalPassword(r) \/ Abort(r)
    PROVE  SignedOutByOwner(r)
<1>1. ASSUME NEW s \in Sessions, NEW t \in Tokens, LoginCommit(r, s, t)
      PROVE  SignedOutByOwner(r)
  BY <1>1, NoneIsNoReason
  DEF LoginCommit, OpenSession, SignedOutByOwner, OnBehalf, Open, Base, TypeOK
<1>2. CASE RefreshReuse(r)
  BY <1>2, RevokeOthersSigned DEF RefreshReuse, OnBehalf, Reasons, ReasonsBySession
<1>3. CASE PasswordCommit(r)
  BY <1>3, RevokeUserSigned DEF PasswordCommit
<1>4. CASE UNCHANGED session
  BY <1>4, UnwrittenSigned
<1>5. QED
  BY <1>1, <1>2, <1>3, <1>4
  DEF Login, LoginRead, GoogleLoginRead, Refresh, RefreshReadUsed, RefreshRead,
      RefreshClaim, LocalPassword, ChangePasswordRead, SetPasswordRead,
      ResetPasswordRead, PasswordSnapshot, Abort, rows

\* However many accounts there are, none is signed out by a request that acts
\* for another, administrators and the reuse of a token apart.
THEOREM OthersSignedIn == Spec => OthersStaySignedIn
<1>1. ASSUME Base, [Next]_vars,
             NEW s \in Sessions, Open(s), session'[s].revoked \in OnBehalf
      PROVE  \E r \in Requests : /\ request[r].user = session[s].owner
                                 /\ request'[r] = Idle
  <2>1. session' # session
    BY <1>1, NoneIsNoReason DEF OnBehalf, Open
  <2>2. PICK r \in Requests :
            \/ Login(r) \/ Refresh(r) \/ OwnSessions(r) \/ LocalPassword(r)
            \/ Governance(r) \/ Abort(r)
    BY <1>1, <2>1 DEF Next, Tick, vars, rows
  <2>3. SignedOutByOwner(r)
    BY <1>1, <2>2, OwnSessionsSigned, GovernanceSigned, OtherSigned
  <2>4. QED BY <1>1, <2>3 DEF SignedOutByOwner
<1>2. Base /\ [Next]_vars
      => [\A s \in Sessions : Open(s) /\ session'[s].revoked \in OnBehalf =>
            \E r \in Requests : /\ request[r].user = session[s].owner
                                /\ request'[r] = Idle]_<<session, request>>
  BY <1>1
<1>3. QED BY BaseInit, BaseStep, <1>2, PTL DEF Spec, OthersStaySignedIn

(***************************************************************************)
(* Which sessions may stand (SessionEntitlement)                           *)
(***************************************************************************)

\* Requests other than logins neither open sessions nor begin logins.
Elsewhere(r) == Refresh(r) \/ OwnSessions(r) \/ LocalPassword(r) \/ Governance(r) \/ Abort(r)

LEMMA RevokeOpensNothing ==
    ASSUME TypeOK, NEW S, NEW reason, RevokeSessions(S, reason), NEW s \in Sessions, Open(s)'
    PROVE  Open(s)
BY DEF TypeOK, RevokeSessions, Open, Exists, SessionRow

LEMMA ElsewhereOpensNothing ==
    ASSUME TypeOK, NEW r \in Requests, Elsewhere(r), NEW s \in Sessions, Open(s)'
    PROVE  Open(s)
<1>1. CASE UNCHANGED session
  BY <1>1 DEF Open, Exists
<1>2. ASSUME NEW S, NEW reason, RevokeSessions(S, reason) PROVE Open(s)
  BY <1>2, RevokeOpensNothing
<1>3. CASE Refresh(r)
  BY <1>1, <1>2, <1>3
  DEF Refresh, RefreshReadUsed, RefreshRead, RefreshClaim, RefreshReuse, rows
<1>4. CASE OwnSessions(r)
  BY <1>1, <1>2, <1>4
  DEF OwnSessions, Admit, RevokeRead, Logout, RevokeCommit, RevokeOne, LogoutAllRead,
      LogoutAllCommit, RevokeUser, rows
<1>5. CASE LocalPassword(r)
  BY <1>1, <1>2, <1>5
  DEF LocalPassword, ChangePasswordRead, SetPasswordRead, ResetPasswordRead,
      PasswordSnapshot, PasswordCommit, RevokeUser, rows
<1>6. CASE Governance(r)
  BY <1>1, <1>2, <1>6
  DEF Governance, BlockRead, UnblockRead, BlockSnapshot, BlockCommit, UnblockCommit,
      ManagedRevokeRead, ManagedRevokeCommit, RevokeOne, ManagedLogoutAllRead,
      ManagedLogoutAllCommit, RevokeUser, rows
<1>7. CASE Abort(r)
  BY <1>1, <1>7 DEF Abort, rows
<1>8. QED BY <1>3, <1>4, <1>5, <1>6, <1>7 DEF Elsewhere

\* Only r moves, and not to a login.
BeginsNoLogin(r) ==
    /\ ~At(r, "login")'
    /\ \A q \in Requests \ {r} : request'[q] = request[q]

LEMMA ElsewhereBeginsNoLogin ==
    ASSUME TypeOK, NEW r \in Requests, Elsewhere(r)
    PROVE  BeginsNoLogin(r)
<1> USE DEF BeginsNoLogin
<1>1. ASSUME NEW req, req.step # "login", request' = [request EXCEPT ![r] = req]
      PROVE  BeginsNoLogin(r)
  BY <1>1 DEF At, TypeOK
<1>2. CASE Finish(r)
  BY <1>1, <1>2 DEF Finish, Idle
<1>3. ASSUME NEW req, req.step # "login", Begin(r, req) \/ Continue(r, req)
      PROVE  BeginsNoLogin(r)
  BY <1>1, <1>3 DEF Begin, Continue
<1>4. CASE Refresh(r)
  <2>1. ASSUME NEW t \in Tokens, RefreshReadUsed(r, t)
        PROVE  BeginsNoLogin(r)
    BY <2>1 DEF RefreshReadUsed, Idle, Begin, At, TypeOK
  <2>2. ASSUME NEW t \in Tokens, RefreshRead(r, t)
        PROVE  BeginsNoLogin(r)
    BY <2>2 DEF RefreshRead, Idle, Begin, At, TypeOK
  <2>3. CASE RefreshReuse(r) \/ \E next \in Tokens : RefreshClaim(r, next)
    BY <1>2, <2>3 DEF RefreshReuse, RefreshClaim
  <2>4. QED BY <1>4, <2>1, <2>2, <2>3 DEF Refresh
<1>5. CASE OwnSessions(r)
  <2>1. ASSUME NEW s \in Sessions, Admit(r, s)
        PROVE  BeginsNoLogin(r)
    BY <2>1 DEF Admit, Idle, Begin, At, TypeOK
  <2>2. ASSUME NEW s \in Sessions, RevokeRead(r, s)
        PROVE  BeginsNoLogin(r)
    BY <2>2 DEF RevokeRead, Idle, Continue, At, TypeOK
  <2>3. CASE LogoutAllRead(r)
    BY <2>3 DEF LogoutAllRead, Idle, Continue, At, TypeOK
  <2>4. CASE Logout(r) \/ RevokeCommit(r) \/ LogoutAllCommit(r)
    BY <1>2, <2>4 DEF Logout, RevokeCommit, RevokeOne, LogoutAllCommit
  <2>5. QED BY <1>5, <2>1, <2>2, <2>3, <2>4 DEF OwnSessions
<1>6. CASE LocalPassword(r)
  <2>1. CASE PasswordSnapshot(r)
    <3> DEFINE req == [request[r] EXCEPT !.step = "passwordWrite",
                                         !.snapshot = OpenSessionsOf(request[r].user)]
    <3>1. Continue(r, req) /\ req.step # "login"
      BY <2>1 DEF PasswordSnapshot, TypeOK, Request
    <3> HIDE DEF req
    <3>2. QED BY <1>3, <3>1
  <2>2. CASE PasswordCommit(r)
    BY <1>2, <2>2 DEF PasswordCommit
  <2>3. ASSUME NEW u, NEW p, NEW reason,
               Begin(r, NewPassword(u, p, reason)) \/ Continue(r, NewPassword(u, p, reason))
        PROVE  BeginsNoLogin(r)
    BY <2>3 DEF NewPassword, Idle, Begin, Continue, At, TypeOK
  <2>4. QED
    BY <1>6, <2>1, <2>2, <2>3
    DEF LocalPassword, ChangePasswordRead, SetPasswordRead, ResetPasswordRead
<1>7. CASE Governance(r)
  <2>1. CASE BlockSnapshot(r)
    <3> DEFINE req == [request[r] EXCEPT !.step = "blockWrite",
                                         !.snapshot = OpenSessionsOf(request[r].user)]
    <3>1. Continue(r, req) /\ req.step # "login"
      BY <2>1 DEF BlockSnapshot, TypeOK, Request
    <3> HIDE DEF req
    <3>2. QED BY <1>3, <3>1
  <2>2. ASSUME NEW u \in Users,
               BlockRead(r, u) \/ UnblockRead(r, u) \/ ManagedLogoutAllRead(r, u)
        PROVE  BeginsNoLogin(r)
    <3>1. CASE BlockRead(r, u)
      BY <3>1 DEF BlockRead, Idle, Begin, At, TypeOK
    <3>2. CASE UnblockRead(r, u)
      BY <3>2 DEF UnblockRead, Idle, Begin, At, TypeOK
    <3>3. CASE ManagedLogoutAllRead(r, u)
      BY <3>3 DEF ManagedLogoutAllRead, Idle, Begin, At, TypeOK
    <3>4. QED BY <2>2, <3>1, <3>2, <3>3
  <2>3. CASE \E s \in Sessions : ManagedRevokeRead(r, s)
    BY <2>3 DEF ManagedRevokeRead, Idle, Begin, At, TypeOK
  <2>4. CASE \/ BlockCommit(r) \/ UnblockCommit(r)
             \/ ManagedRevokeCommit(r) \/ ManagedLogoutAllCommit(r)
    BY <1>2, <2>4
    DEF BlockCommit, UnblockCommit, ManagedRevokeCommit, RevokeOne, ManagedLogoutAllCommit
  <2>5. QED BY <1>7, <2>1, <2>2, <2>3, <2>4 DEF Governance
<1>8. CASE Abort(r)
  BY <1>2, <1>8 DEF Abort
<1>9. QED BY <1>4, <1>5, <1>6, <1>7, <1>8 DEF Elsewhere

\* A login that is judged finds its account active and changes no row.
LEMMA LoginJudges ==
    ASSUME TypeOK, NEW r \in Requests,
           \/ \E u \in Users, p \in Passwords : LoginRead(r, u, p)
           \/ \E u \in Users : GoogleLoginRead(r, u)
    PROVE  /\ UNCHANGED <<rows, clock>> /\ request[r] = Idle
           /\ request'[r].user \in Users /\ active[request'[r].user]
           /\ \A q \in Requests \ {r} : request'[q] = request[q]
<1>1. PICK u \in Users :
         /\ active[u] /\ UNCHANGED <<rows, clock>>
         /\ Begin(r, [Idle EXCEPT !.step = "login", !.user = u, !.now = clock])
  BY DEF LoginRead, GoogleLoginRead
<1>2. request'[r].user = u
  BY <1>1 DEF Begin, TypeOK, Idle
<1>3. QED BY <1>1, <1>2 DEF Begin, TypeOK

\* A login goes on unless it ends; one that begins is of an active account.
LEMMA LoginsGoOn ==
    ASSUME Base, [Next]_vars, NEW q \in Requests, At(q, "login")'
    PROVE  \/ At(q, "login") /\ request'[q] = request[q]
           \/ /\ ~At(q, "login") /\ UNCHANGED rows
              /\ request'[q].user \in Users /\ active[request'[q].user]
<1>1. CASE UNCHANGED request
  BY <1>1 DEF At
<1>2. ASSUME NEW r \in Requests, Elsewhere(r) PROVE At(q, "login") /\ request'[q] = request[q]
  <2>1. request'[q] = request[q]
    BY <1>2, ElsewhereBeginsNoLogin DEF Base, BeginsNoLogin
  <2>2. QED BY <2>1 DEF At
<1>3. ASSUME NEW r \in Requests,
             \/ \E u \in Users, p \in Passwords : LoginRead(r, u, p)
             \/ \E u \in Users : GoogleLoginRead(r, u)
      PROVE  \/ At(q, "login") /\ request'[q] = request[q]
             \/ /\ ~At(q, "login") /\ UNCHANGED rows
                /\ request'[q].user \in Users /\ active[request'[q].user]
  BY <1>3, LoginJudges DEF Base, At, Idle, rows
<1>4. ASSUME NEW r \in Requests, NEW s \in Sessions, NEW t \in Tokens, LoginCommit(r, s, t)
      PROVE  At(q, "login") /\ request'[q] = request[q]
  BY <1>4 DEF LoginCommit, Finish, Base, TypeOK, At, Idle
<1>5. CASE Tick
  BY <1>1, <1>5 DEF Tick
<1>6. QED BY <1>1, <1>2, <1>3, <1>4, <1>5 DEF Next, Login, Elsewhere, vars

\* A session that is opened is opened by a login, for its account.
LEMMA LoginsOpen ==
    ASSUME Base, [Next]_vars, NEW s \in Sessions, ~Open(s), Open(s)'
    PROVE  \E r \in Requests, t \in Tokens : LoginCommit(r, s, t)
<1>1. ~UNCHANGED session
  BY DEF Open, Exists
<1>2. \A r \in Requests : ~Elsewhere(r)
  BY ElsewhereOpensNothing DEF Base
<1>3. PICK r \in Requests : Login(r)
  BY <1>1, <1>2 DEF Next, Tick, Elsewhere, vars, rows
<1>4. PICK z \in Sessions, t \in Tokens : LoginCommit(r, z, t)
  BY <1>1, <1>3 DEF Login, LoginRead, GoogleLoginRead, rows
<1>5. z = s
  BY <1>4 DEF LoginCommit, OpenSession, Open, Exists, Base, TypeOK
<1>6. QED BY <1>4, <1>5

\* Who opens a session is the login the record names.
LEMMA CommitIsOpening ==
    ASSUME Base, NEW r \in Requests, NEW s \in Sessions, NEW t \in Tokens,
           LoginCommit(r, s, t)
    PROVE  /\ Opening(s) = {r}
           /\ session'[s].owner = request[r].user /\ request[r].user \in Users
           /\ At(r, "login") /\ UNCHANGED <<active, password>>
<1>1. /\ At(r, "login") /\ Finish(r) /\ UNCHANGED <<active, password>>
      /\ session[s] = NoSession /\ request[r].user \in Users
      /\ session'[s].owner = request[r].user
  BY DEF LoginCommit, OpenSession, Base, TypeOK, RequestsOK, RequestOK, At
<1>2. ~Exists(s) /\ Exists(s)'
  BY <1>1, NoneAssumption DEF Exists, NoSession
<1>3. /\ request'[r] = Idle
      /\ \A q \in Requests \ {r} : request'[q] = request[q]
  BY <1>1 DEF Finish, Base, TypeOK
<1>4. \A q \in Requests : q \in Opening(s) <=> q = r
  BY <1>1, <1>2, <1>3 DEF Opening, At, Idle
<1>5. QED BY <1>1, <1>4 DEF Opening

\* A session of an account that is superseded is closed in that step.
LEMMA SupersededIsClosed ==
    ASSUME Base, [Next]_vars, NEW u \in Users, Superseded(u),
           NEW s \in Sessions, session'[s].owner = u
    PROVE  session'[s].revoked # None
BY PasswordClosesStep, BlockClosesStep DEF Superseded

\* A login that was not overtaken has judged the account as it is.
LoginsAreEntitled ==
    \A r \in Requests \ overtaken : At(r, "login") =>
        /\ active[request[r].user]
        /\ judged[r] = password[request[r].user]

EInv == LoginsAreEntitled /\ OpenSessionsAreEntitled

LEMMA EInvInit == HInit => EInv
BY NoneAssumption
DEF HInit, Init, EInv, LoginsAreEntitled, OpenSessionsAreEntitled, At, Idle, Open, Exists,
    NoSession

LEMMA LoginsStayEntitled ==
    ASSUME Base, EInv, HNext
    PROVE  LoginsAreEntitled'
<1> SUFFICES ASSUME NEW r \in Requests, r \notin overtaken', At(r, "login")'
             PROVE  /\ active'[request'[r].user]
                    /\ judged'[r] = password'[request'[r].user]
  BY DEF LoginsAreEntitled
<1>1. ~Superseded(request'[r].user) /\ r \notin overtaken
  BY DEF HNext, Judge
<1>2. judged'[r] = IF At(r, "login") THEN judged[r] ELSE password[request'[r].user]
  BY DEF HNext, Judge
<1>3. CASE At(r, "login") /\ request'[r] = request[r]
  BY <1>1, <1>2, <1>3 DEF EInv, LoginsAreEntitled, Superseded
<1>4. CASE /\ ~At(r, "login") /\ UNCHANGED rows
           /\ request'[r].user \in Users /\ active[request'[r].user]
  BY <1>2, <1>4 DEF rows
<1>5. QED BY <1>3, <1>4, LoginsGoOn DEF HNext

LEMMA SessionsStayEntitled ==
    ASSUME Base, EInv, HNext
    PROVE  OpenSessionsAreEntitled'
<1> SUFFICES ASSUME NEW s \in Sessions, s \notin late', Open(s)'
             PROVE  /\ active'[session'[s].owner]
                    /\ under'[s] = password'[session'[s].owner]
  BY DEF OpenSessionsAreEntitled
<1>1. s \notin late /\ Opening(s) \cap overtaken = {}
  BY DEF HNext, Attribute
<1>2. under'[s] = IF Opening(s) = {} THEN under[s]
                  ELSE judged[CHOOSE r \in Opening(s) : TRUE]
  BY DEF HNext, Attribute
<1>3. CASE Open(s)
  <2>1. SessionRowsKept
    BY StepEffect, EffectKeepsRows DEF HNext, SessionRowsKept
  <2>2. session'[s].owner = session[s].owner /\ Opening(s) = {}
    BY <1>3, <2>1 DEF SessionRowsKept, Open, Opening
  <2>3. session[s].owner \in Users
    BY <1>3 DEF Open, Exists, Base, TypeOK, SessionRow
  <2>4. ~Superseded(session[s].owner)
    BY <2>2, <2>3, SupersededIsClosed DEF HNext, Open
  <2>5. QED
    BY <1>1, <1>2, <1>3, <2>2, <2>4 DEF EInv, OpenSessionsAreEntitled, Superseded
<1>4. CASE ~Open(s)
  <2>1. PICK r \in Requests, t \in Tokens : LoginCommit(r, s, t)
    BY <1>4, LoginsOpen DEF HNext
  <2>2. /\ Opening(s) = {r}
        /\ session'[s].owner = request[r].user
        /\ At(r, "login") /\ UNCHANGED <<active, password>>
    BY <2>1, CommitIsOpening
  <2>3. r \notin overtaken /\ under'[s] = judged[r]
    BY <1>1, <1>2, <2>2
  <2>4. QED BY <2>2, <2>3 DEF EInv, LoginsAreEntitled
<1>5. QED BY <1>3, <1>4

LEMMA HStepCorrect ==
    ASSUME Base, EInv, [HNext]_<<vars, history>>
    PROVE  Base' /\ EInv'
<1>1. CASE HNext
  BY <1>1, BaseStep, LoginsStayEntitled, SessionsStayEntitled DEF HNext, EInv
<1>2. CASE UNCHANGED <<vars, history>>
  <2>1. EInv'
    BY <1>2 DEF vars, history, EInv, LoginsAreEntitled, OpenSessionsAreEntitled, At, Open, Exists
  <2>2. QED BY <1>2, <2>1, BaseStep
<1>3. QED BY <1>1, <1>2

LEMMA HInvariance == HSpec => [](Base /\ EInv)
<1>1. HInit => Base /\ EInv
  BY BaseInit, EInvInit DEF HInit
<1>2. Base /\ EInv /\ [HNext]_<<vars, history>> => (Base /\ EInv)'
  BY HStepCorrect
<1>3. QED BY <1>1, <1>2, PTL DEF HSpec

\* Every behaviour with the record is one of the program: the record adds none.
THEOREM RecordOnly == HSpec => Spec
<1>1. HInit => Init
  BY DEF HInit
<1>2. [HNext]_<<vars, history>> => [Next]_vars
  BY DEF HNext
<1>3. QED BY <1>1, <1>2, PTL DEF HSpec, Spec

\* A password change or a block closes every session there is, and a login that
\* judged the account before either is the only one that opens another: all
\* other open sessions are of active accounts, under their current password.
THEOREM EntitledSessions == HSpec => []OpenSessionsAreEntitled
<1>1. EInv => OpenSessionsAreEntitled
  BY DEF EInv
<1>2. QED BY <1>1, HInvariance, PTL

\* One request is served at a time.
Serial == \A q, r \in Requests : request[q] # Idle /\ request[r] # Idle => q = r

\* An account is superseded by a request that is not a login.
LEMMA SupersededElsewhere ==
    ASSUME Base, [Next]_vars, NEW u \in Users, Superseded(u)
    PROVE  \E r \in Requests : request[r] # Idle /\ ~At(r, "login")
<1>1. PICK r \in Requests : PasswordCommit(r) \/ BlockCommit(r)
  BY DEF Superseded, Next, vars, rows, Tick, Abort, Login, LoginRead, GoogleLoginRead,
      LoginCommit, Refresh, RefreshReadUsed, RefreshRead, RefreshClaim, RefreshReuse,
      OwnSessions, Admit, RevokeRead, Logout, RevokeCommit, RevokeOne,
      LogoutAllRead, LogoutAllCommit, LocalPassword, ChangePasswordRead,
      SetPasswordRead, ResetPasswordRead, PasswordSnapshot, Governance, BlockRead,
      UnblockRead, BlockSnapshot, UnblockCommit, ManagedRevokeRead,
      ManagedRevokeCommit, ManagedLogoutAllRead, ManagedLogoutAllCommit, Base, TypeOK
<1>2. QED BY <1>1 DEF PasswordCommit, BlockCommit, At, Idle

\* Then no login is overtaken, and no exception arises.
NoException == overtaken = {} /\ late = {}

LEMMA SerialStep ==
    ASSUME Base, Serial, NoException, HNext
    PROVE  NoException'
<1>1. late' = {}
  BY DEF HNext, Attribute, NoException
<1>2. ASSUME NEW q \in overtaken' PROVE FALSE
  <2>1. q \in Requests /\ At(q, "login")' /\ Superseded(request'[q].user)
    BY <1>2 DEF HNext, Judge, NoException
  <2>2. CASE At(q, "login") /\ request'[q] = request[q]
    <3>1. request[q].user \in Users /\ request[q] # Idle
      BY <2>1, <2>2 DEF Base, RequestsOK, RequestOK, At, Idle
    <3>2. PICK r \in Requests : request[r] # Idle /\ ~At(r, "login")
      BY <2>1, <2>2, <3>1, SupersededElsewhere DEF HNext
    <3>3. QED BY <2>1, <2>2, <3>1, <3>2 DEF Serial
  <2>3. CASE UNCHANGED rows
    BY <2>1, <2>3 DEF Superseded, rows
  <2>4. QED BY <2>1, <2>2, <2>3, LoginsGoOn DEF HNext
<1>3. QED BY <1>1, <1>2 DEF NoException

LEMMA SerialInvariance == HSpec /\ []Serial => [](Base /\ EInv /\ NoException)
<1>1. HInit => NoException
  BY DEF HInit, NoException
<1>2. Base /\ Serial /\ NoException /\ [HNext]_<<vars, history>> => NoException'
  BY SerialStep DEF history, NoException
<1>3. QED BY <1>1, <1>2, HInvariance, PTL DEF HSpec

\* Where no two requests overlap, there is no exception: every open session is
\* of an active account and under its current password, and the account that
\* is unblocked has none.  That tests and documents expect the latter, and the
\* run of UnblockRestoresNoSession refutes it, is therefore a matter of overlap.
THEOREM EntitledWhenSerial ==
    HSpec /\ []Serial => [](OpenSessionsAreEntitled /\ late = {}) /\ UnblockRestoresNoSession
<1>1. Base /\ EInv /\ NoException => OpenSessionsAreEntitled /\ late = {}
  BY DEF EInv, NoException
<1>2. ASSUME Base, EInv, late = {}, NEW u \in Users, ~active[u]
      PROVE  OpenSessionsOf(u) = {}
  BY <1>2 DEF EInv, OpenSessionsAreEntitled, OpenSessionsOf
<1>3. Base /\ EInv /\ NoException
      => [\A u \in Users : ~active[u] /\ active'[u] => OpenSessionsOf(u) = {}]_active
  BY <1>2 DEF NoException
<1>4. QED BY <1>1, <1>3, SerialInvariance, PTL DEF UnblockRestoresNoSession
=============================================================================

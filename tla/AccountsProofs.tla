--------------------------- MODULE AccountsProofs ---------------------------
(***************************************************************************)
(* Proofs, for any number of addresses, Google accounts and requests, of   *)
(* what the run of MCAccounts checks on a small instance.                  *)
(***************************************************************************)
EXTENDS Accounts, FiniteSetTheorems, TLAPS

Request == [at : {"idle", "register", "seed", "seedCreate", "address", "create",
                  "findAgain", "conflict", "open", "link", "linkOnly",
                  "linkWrite", "vouch", "unlink"},
            email : Emails \cup {None}, identity : Identities \cup {None},
            role : Roles, unverified : BOOLEAN]

LinkSteps == {"link", "linkOnly", "linkWrite", "vouch"}

\* What a request knows by the step it is at.
Knows(req) ==
    /\ req.at \in LinkSteps \cup {"register", "seed", "seedCreate", "unlink"}
       => req.email \in Emails
    /\ req.at \in LinkSteps \cup {"address", "create", "findAgain"}
       => req.identity \in Identities
    /\ req.at = "create" => req.identity.authoritative
    /\ req.at \in {"linkOnly", "linkWrite"} => req.identity.email = req.email

\* What it has read of an account is still so: accounts stay, and so do
\* passwords.
StillTrue(req) ==
    /\ req.at \in LinkSteps \cup {"unlink"} => Exists(req.email)
    /\ req.at = "unlink" => user[req.email].password

IInv ==
    /\ TypeOK
    /\ \A r \in Requests : Knows(request[r])
    /\ \A r \in Requests : StillTrue(request[r])
    /\ AlwaysAWayIn
    /\ VerifiedByItsGoogle

(***************************************************************************)
(* What a step may do to the rows                                          *)
(***************************************************************************)

AnsweredFor(e) == \E i \in Identities : i.email = e /\ i.authoritative

\* An account with a password appears.
Registers(e) ==
    \E row \in User :
        /\ ~Exists(e)
        /\ user' = [user EXCEPT ![e] = row]
        /\ row.password /\ row.verified # "google"
        /\ owner' = owner

\* An account without one appears, linked to an identity.
Adopts(i) ==
    /\ ~Exists(i.email) /\ owner[i.subject] = None /\ i.authoritative
    /\ user' = [user EXCEPT ![i.email] = Customer]
    /\ owner' = [owner EXCEPT ![i.subject] = i.email]

\* An account changes, but keeps its password.
Changes(e) ==
    \E row \in User :
        /\ Exists(e)
        /\ user' = [user EXCEPT ![e] = row]
        /\ user[e].password => row.password
        /\ row.verified = "google" => user[e].verified = "google" \/ AnsweredFor(e)

Links(e, s) ==
    /\ owner[s] = None /\ Exists(e)
    /\ owner' = [owner EXCEPT ![s] = e]
    /\ user' = user \/ (Changes(e) /\ user'[e].password = user[e].password)

Unlinks(e) ==
    /\ Exists(e) /\ user[e].password
    /\ owner' = [s \in Subjects |-> IF owner[s] = e THEN None ELSE owner[s]]
    /\ user' = user

Effect ==
    \/ UNCHANGED rows
    \/ \E e \in Emails : Registers(e) \/ (Changes(e) /\ owner' = owner) \/ Unlinks(e)
    \/ \E i \in Identities : Adopts(i)
    \/ \E e \in Emails, s \in Subjects : Links(e, s)

LEMMA CustomerType == Customer \in User /\ Customer # None
<1>1. Customer \in User
  BY DEF Customer, User, Roles
<1>2. QED BY <1>1, NoneAssumption

LEMMA InitCorrect == Init => IInv
<1> SUFFICES ASSUME Init PROVE IInv
  OBVIOUS
<1>1. TypeOK
  BY DEF Init, TypeOK, Idle, Roles, Exists
<1>2. \A r \in Requests : Knows(request[r]) /\ StillTrue(request[r])
  BY DEF Init, Idle, Knows, StillTrue, LinkSteps
<1>3. AlwaysAWayIn /\ VerifiedByItsGoogle
  BY DEF Init, AlwaysAWayIn, VerifiedByItsGoogle, Exists
<1>4. QED BY <1>1, <1>2, <1>3 DEF IInv

\* Writing `verified' is a change that keeps the password.
LEMMA VerifyChanges ==
    ASSUME IInv, NEW e \in Emails, Exists(e), Verify(e), AnsweredFor(e)
    PROVE  Changes(e) /\ user'[e].password = user[e].password
<1>1. user[e] \in User
  BY DEF IInv, TypeOK, Exists
<1>2. [user[e] EXCEPT !.verified = "google"] \in User
  BY <1>1 DEF User
<1>3. user' = [user EXCEPT ![e] = [user[e] EXCEPT !.verified = "google"]]
  BY DEF Verify
<1>4. user[e].password => [user[e] EXCEPT !.verified = "google"].password
  BY <1>1 DEF User
<1>5. user'[e].password = user[e].password
  BY <1>1, <1>3 DEF IInv, TypeOK, User
<1>6. QED BY <1>2, <1>3, <1>4, <1>5 DEF Changes

LEMMA StepEffect ==
    ASSUME IInv, Next
    PROVE  Effect
<1>1. ASSUME NEW r \in Requests, Login(r)
      PROVE  Effect
  <2>1. CASE CreateCustomer(r)
    <3> DEFINE i == request[r].identity
    <3>1. i \in Identities /\ i.authoritative
      BY <2>1 DEF IInv, Knows, CreateCustomer, At
    <3>2. Adopts(i)
      BY <2>1, <3>1 DEF CreateCustomer, Conflict, Insert, Adopts
    <3>3. QED BY <3>1, <3>2 DEF Effect
  <2>2. QED
    BY <1>1, <2>1 DEF Login, LoginFind, LoginReadAddress, CreateConflicts,
       LoginFindAgain, LoginOpen, Effect
<1>2. ASSUME NEW r \in Requests, Linking(r)
      PROVE  Effect
  <2> DEFINE req == request[r]
  <2>1. CASE LinkCommit(r)
    <3>1. /\ req.identity \in Identities /\ req.email \in Emails
          /\ req.identity.email = req.email /\ Exists(req.email)
      BY <2>1 DEF IInv, Knows, StillTrue, LinkCommit, At, LinkSteps
    <3>2. req.identity.subject \in Subjects
      BY <3>1, IdentitiesAssumption DEF Identity
    <3>3. CASE owner[req.identity.subject] # None
      BY <2>1, <3>3 DEF LinkCommit, Effect
    <3>4. CASE owner[req.identity.subject] = None
      <4>1. owner' = [owner EXCEPT ![req.identity.subject] = req.email]
        BY <2>1, <3>4 DEF LinkCommit
      <4>2. user' = user \/ (req.identity.authoritative /\ Verify(req.email))
        BY <2>1, <3>4 DEF LinkCommit
      <4>3. req.identity.authoritative => AnsweredFor(req.email)
        BY <3>1 DEF AnsweredFor
      <4>4. \/ user' = user
            \/ Changes(req.email) /\ user'[req.email].password = user[req.email].password
        BY <3>1, <4>2, <4>3, VerifyChanges
      <4>5. Links(req.email, req.identity.subject)
        BY <3>1, <3>4, <4>1, <4>4 DEF Links
      <4>6. QED BY <3>1, <3>2, <4>5 DEF Effect
    <3>5. QED BY <3>3, <3>4
  <2>2. CASE Vouch(r)
    <3>1. /\ req.identity \in Identities /\ req.email \in Emails
          /\ Exists(req.email)
      BY <2>2 DEF IInv, Knows, StillTrue, Vouch, At, LinkSteps
    <3>2. \/ user' = user
          \/ /\ req.identity.authoritative /\ req.identity.email = req.email
             /\ Verify(req.email)
      BY <2>2 DEF Vouch
    <3>3. owner' = owner
      BY <2>2 DEF Vouch
    <3>4. CASE user' = user
      BY <3>3, <3>4 DEF Effect, rows
    <3>5. CASE /\ req.identity.authoritative /\ req.identity.email = req.email
               /\ Verify(req.email)
      <4>1. AnsweredFor(req.email)
        BY <3>1, <3>5 DEF AnsweredFor
      <4>2. Changes(req.email)
        BY <3>1, <3>5, <4>1, VerifyChanges
      <4>3. QED BY <3>1, <3>3, <4>2 DEF Effect
    <3>6. QED BY <3>2, <3>4, <3>5
  <2>3. CASE UnlinkCommit(r)
    <3>1. req.email \in Emails /\ Exists(req.email) /\ user[req.email].password
      BY <2>3 DEF IInv, Knows, StillTrue, UnlinkCommit, At
    <3>2. Unlinks(req.email)
      BY <2>3, <3>1 DEF UnlinkCommit, Unlinks
    <3>3. QED BY <3>1, <3>2 DEF Effect
  <2>4. QED
    BY <1>2, <2>1, <2>2, <2>3
    DEF Linking, LinkRead, LinkFindIdentity, LinkFindOther, UnlinkRead, Effect
<1>3. ASSUME NEW r \in Requests, Creation(r)
      PROVE  Effect
  <2> DEFINE req == request[r]
  <2>1. ASSUME NEW row \in User, req.email \in Emails, row.password,
               row.verified # "google", Insert(req.email, row), owner' = owner
        PROVE  Effect
    <3>1. CASE Exists(req.email)
      BY <2>1, <3>1 DEF Insert, Effect, rows
    <3>2. CASE ~Exists(req.email)
      <4>1. Registers(req.email)
        BY <2>1, <3>2 DEF Insert, Registers
      <4>2. QED BY <2>1, <4>1 DEF Effect
    <3>3. QED BY <3>1, <3>2
  <2>2. CASE RegisterCommit(r)
    <3> DEFINE row == [role |-> req.role, active |-> TRUE, password |-> TRUE,
                       verified |-> "no"]
    <3>1. row \in User /\ row.password /\ row.verified # "google"
      BY DEF IInv, TypeOK, User
    <3>2. req.email \in Emails /\ Insert(req.email, row) /\ owner' = owner
      BY <2>2 DEF IInv, Knows, RegisterCommit, At
    <3> HIDE DEF row
    <3>3. QED BY <2>1, <3>1, <3>2
  <2>3. CASE SeedCommit(r)
    <3> DEFINE row == [role |-> "SUPERADMIN", active |-> TRUE, password |-> TRUE,
                       verified |-> "script"]
    <3>1. row \in User /\ row.password /\ row.verified # "google"
      BY DEF User, Roles
    <3>2. req.email \in Emails /\ Insert(req.email, row) /\ owner' = owner
      BY <2>3 DEF IInv, Knows, SeedCommit, At
    <3> HIDE DEF row
    <3>3. QED BY <2>1, <3>1, <3>2
  <2>4. QED
    BY <1>3, <2>2, <2>3 DEF Creation, RegisterRead, SeedLook, SeedRead, Effect
<1>4. ASSUME NEW e \in Emails, SetPassword(e) \/ ConfirmAddress(e) \/ Govern(e)
      PROVE  Effect
  <2>1. Exists(e) /\ user[e] \in User /\ owner' = owner
    BY <1>4 DEF IInv, TypeOK, Exists, SetPassword, ConfirmAddress, Govern
  <2>2. PICK row \in User : /\ user' = [user EXCEPT ![e] = row]
                            /\ user[e].password => row.password
                            /\ row.verified = "google" => user[e].verified = "google"
    <3>1. CASE SetPassword(e)
      <4>1. [user[e] EXCEPT !.password = TRUE] \in User
        BY <2>1 DEF User
      <4>2. QED BY <2>1, <3>1, <4>1 DEF SetPassword, User
    <3>2. CASE ConfirmAddress(e)
      <4>1. [user[e] EXCEPT !.verified = "mail"] \in User
        BY <2>1 DEF User
      <4>2. QED BY <2>1, <3>2, <4>1 DEF ConfirmAddress, User
    <3>3. CASE Govern(e)
      <4>1. [user[e] EXCEPT !.active = ~user[e].active] \in User
        BY <2>1 DEF User
      <4>2. QED BY <2>1, <3>3, <4>1 DEF Govern, User
    <3>4. QED BY <1>4, <3>1, <3>2, <3>3
  <2>3. Changes(e)
    BY <2>1, <2>2 DEF Changes
  <2>4. QED BY <2>1, <2>3 DEF Effect
<1>5. ASSUME NEW r \in Requests, Abort(r)
      PROVE  Effect
  BY <1>5 DEF Abort, Effect
<1>6. QED BY <1>1, <1>2, <1>3, <1>4, <1>5 DEF Next

(***************************************************************************)
(* What every such effect preserves                                        *)
(***************************************************************************)

\* Accounts and their passwords stay.
Persist ==
    \A e \in Emails : Exists(e) => Exists(e)' /\ (user[e].password => user'[e].password)

\* The part of the invariant that is about rows.
RowsOK ==
    /\ user \in [Emails -> User \cup {None}]
    /\ owner \in [Subjects -> Emails \cup {None}]
    /\ \A s \in Subjects : owner[s] # None => Exists(owner[s])
    /\ AlwaysAWayIn
    /\ VerifiedByItsGoogle

LEMMA EffectCorrect ==
    ASSUME RowsOK, Effect
    PROVE  RowsOK' /\ Persist
<1> USE DEF Exists
<1>1. CASE UNCHANGED rows
  BY <1>1 DEF RowsOK, Persist, rows, AlwaysAWayIn, Linked, VerifiedByItsGoogle
<1>2. ASSUME NEW e \in Emails, Registers(e)
      PROVE  RowsOK' /\ Persist
  <2>1. PICK row \in User :
            /\ user' = [user EXCEPT ![e] = row]
            /\ row.password /\ row.verified # "google"
    BY <1>2 DEF Registers
  <2>2. row # None /\ user[e] = None /\ owner' = owner
    BY <1>2, NoneAssumption DEF Registers
  <2>3. QED
    BY <2>1, <2>2 DEF RowsOK, Persist, AlwaysAWayIn, Linked, VerifiedByItsGoogle
<1>3. ASSUME NEW e \in Emails, Changes(e)
      PROVE  /\ user' \in [Emails -> User \cup {None}]
             /\ \A x \in Emails : Exists(x)' <=> Exists(x)
             /\ Persist
             /\ VerifiedByItsGoogle'
  <2>1. PICK row \in User :
            /\ user' = [user EXCEPT ![e] = row]
            /\ user[e].password => row.password
            /\ row.verified = "google" => user[e].verified = "google" \/ AnsweredFor(e)
    BY <1>3 DEF Changes
  <2>2. row # None /\ user[e] # None
    BY <1>3, NoneAssumption DEF Changes
  <2>3. QED
    BY <2>1, <2>2 DEF RowsOK, Persist, VerifiedByItsGoogle, AnsweredFor
<1>4. ASSUME NEW e \in Emails, Changes(e), owner' = owner
      PROVE  RowsOK' /\ Persist
  BY <1>3, <1>4 DEF RowsOK, Persist, AlwaysAWayIn, Linked
<1>5. ASSUME NEW e \in Emails, Unlinks(e)
      PROVE  RowsOK' /\ Persist
  <2>1. \A x \in Emails : x # e => Linked(x)' = Linked(x)
    BY <1>5, NoneAssumption DEF Unlinks, Linked
  <2>2. QED
    BY <1>5, <2>1 DEF Unlinks, RowsOK, Persist, AlwaysAWayIn, VerifiedByItsGoogle
<1>6. ASSUME NEW i \in Identities, Adopts(i)
      PROVE  RowsOK' /\ Persist
  <2>1. i.email \in Emails /\ i.subject \in Subjects /\ i.email # None
    BY IdentitiesAssumption, NoneAssumption DEF Identity
  <2>2. \A x \in Emails : x # i.email => Linked(x)' = Linked(x)
    BY <1>6, <2>1, NoneAssumption DEF Adopts, Linked, RowsOK
  <2>3. i.subject \in Linked(i.email)'
    BY <1>6, <2>1 DEF Adopts, Linked, RowsOK
  <2>4. user' \in [Emails -> User \cup {None}] /\ Persist
    BY <1>6, <2>1, CustomerType DEF Adopts, RowsOK, Persist
  <2>5. /\ owner' \in [Subjects -> Emails \cup {None}]
        /\ \A s \in Subjects : owner'[s] # None => user'[owner'[s]] # None
    BY <1>6, <2>1, CustomerType DEF Adopts, RowsOK
  <2>6. AlwaysAWayIn'
    BY <1>6, <2>1, <2>2, <2>3 DEF Adopts, RowsOK, AlwaysAWayIn
  <2>7. VerifiedByItsGoogle'
    BY <1>6, <2>1 DEF Adopts, RowsOK, VerifiedByItsGoogle
  <2>8. QED BY <2>4, <2>5, <2>6, <2>7 DEF RowsOK
<1>7. ASSUME NEW e \in Emails, NEW s \in Subjects, Links(e, s)
      PROVE  RowsOK' /\ Persist
  <2>1. /\ user' \in [Emails -> User \cup {None}]
        /\ \A x \in Emails : Exists(x)' <=> Exists(x)
        /\ Persist
        /\ VerifiedByItsGoogle'
    BY <1>3, <1>7 DEF Links, RowsOK, Persist, VerifiedByItsGoogle
  <2>2. \A x \in Emails : Linked(x) \subseteq Linked(x)'
    BY <1>7, NoneAssumption DEF Links, Linked, RowsOK
  <2>3. /\ owner' \in [Subjects -> Emails \cup {None}]
        /\ \A x \in Subjects : owner'[x] # None => user'[owner'[x]] # None
    BY <1>7, <2>1 DEF Links, RowsOK
  <2>4. AlwaysAWayIn'
    BY <2>1, <2>2 DEF RowsOK, AlwaysAWayIn, Persist
  <2>5. QED BY <2>1, <2>3, <2>4 DEF RowsOK
<1>8. QED BY <1>1, <1>2, <1>4, <1>5, <1>6, <1>7 DEF Effect

(***************************************************************************)
(* What requests know                                                      *)
(***************************************************************************)

\* Request r goes on to a request that knows what it should.
Good(req) == req \in Request /\ Knows(req) /\ StillTrue(req)
GoesOn(r) == \E req : Good(req) /\ Becomes(r, req)

LEMMA FinishGoesOn ==
    ASSUME NEW r, Finish(r) \/ Becomes(r, Idle)
    PROVE  GoesOn(r)
<1>1. Good(Idle)
  BY DEF Good, Idle, Request, Knows, StillTrue, LinkSteps, Roles
<1>2. QED BY <1>1 DEF Finish, Goto, GoesOn

LEMMA FoundGoesOn ==
    ASSUME NEW r, NEW req \in Request, NEW e \in Emails, Found(r, req, e)
    PROVE  GoesOn(r)
<1>1. CASE Goto(r, [req EXCEPT !.at = "open", !.email = e])
  <2> DEFINE new == [req EXCEPT !.at = "open", !.email = e]
  <2>1. Good(new)
    BY DEF Good, Request, Knows, StillTrue, LinkSteps
  <2>2. QED BY <1>1, <2>1 DEF GoesOn, Goto
<1>2. QED BY <1>1, FinishGoesOn DEF Found

\* Moving a request on to a step that supposes no more than it knows.
LEMMA MoveGoesOn ==
    ASSUME NEW r, NEW req \in Request,
           NEW step \in {"seedCreate", "create", "findAgain", "conflict",
                         "linkOnly", "linkWrite", "vouch"},
           Knows([req EXCEPT !.at = step]), StillTrue([req EXCEPT !.at = step]),
           Goto(r, [req EXCEPT !.at = step])
    PROVE  GoesOn(r)
<1>1. [req EXCEPT !.at = step] \in Request
  BY DEF Request
<1>2. QED BY <1>1 DEF Good, GoesOn, Goto

LEMMA RequestStep ==
    ASSUME IInv, NEW r \in Requests, Login(r) \/ Linking(r) \/ Creation(r) \/ Abort(r)
    PROVE  GoesOn(r)
<1> DEFINE req == request[r]
<1>1. req \in Request /\ Knows(req) /\ StillTrue(req)
  BY DEF IInv, TypeOK, Request
<1>2. /\ \A i \in Identities : i.subject \in Subjects /\ i.email \in Emails
                              /\ i.authoritative \in BOOLEAN
      /\ owner \in [Subjects -> Emails \cup {None}]
      /\ SeedEmails \subseteq Emails
  BY IdentitiesAssumption, SeedAssumption DEF Identity, IInv, TypeOK
<1> HIDE DEF req
<1>3. ASSUME NEW step \in {"seedCreate", "create", "findAgain", "conflict",
                           "linkOnly", "linkWrite", "vouch"}
      PROVE  LET new == [req EXCEPT !.at = step] IN
             /\ new.at = step /\ new.email = req.email
             /\ new.identity = req.identity
  BY <1>1 DEF Request
<1>4. CASE Abort(r)
  BY <1>4, FinishGoesOn DEF Abort
<1>5. CASE Creation(r)
  <2>1. ASSUME NEW e \in Emails, NEW role \in {"CUSTOMER", "ADMIN"},
               RegisterRead(r, e, role)
        PROVE  GoesOn(r)
    <3> DEFINE new == [Idle EXCEPT !.at = "register", !.email = e, !.role = role]
    <3>1. Good(new)
      BY DEF Good, Idle, Request, Knows, StillTrue, LinkSteps, Roles
    <3>2. QED BY <2>1, <3>1 DEF RegisterRead, GoesOn, Goto
  <2>2. ASSUME NEW e \in SeedEmails, SeedLook(r, e)
        PROVE  GoesOn(r)
    <3> DEFINE new == [Idle EXCEPT !.at = "seed", !.email = e, !.role = "SUPERADMIN"]
    <3>1. Good(new)
      BY <1>2 DEF Good, Idle, Request, Knows, StillTrue, LinkSteps, Roles
    <3>2. QED BY <2>2, <3>1 DEF SeedLook, GoesOn, Goto
  <2>3. CASE SeedRead(r)
    <3>1. CASE Goto(r, [req EXCEPT !.at = "seedCreate"])
      <4>1. req.email \in Emails
        BY <1>1, <2>3 DEF SeedRead, At, Knows, req
      <4>2. /\ Knows([req EXCEPT !.at = "seedCreate"])
            /\ StillTrue([req EXCEPT !.at = "seedCreate"])
        BY <1>3, <4>1 DEF Knows, StillTrue, LinkSteps
      <4>3. QED BY <1>1, <3>1, <4>2, MoveGoesOn
    <3>2. QED BY <2>3, <3>1, FinishGoesOn DEF SeedRead, req
  <2>4. QED
    BY <1>5, <2>1, <2>2, <2>3, FinishGoesOn DEF Creation, RegisterCommit, SeedCommit
<1>6. CASE Linking(r)
  <2>1. ASSUME NEW e \in Emails, NEW i \in Identities, LinkRead(r, e, i)
        PROVE  GoesOn(r)
    <3> DEFINE unverified == user[e].verified = "no"
               new == [Idle EXCEPT !.at = "link", !.email = e, !.identity = i,
                                   !.unverified = unverified]
    <3>1. unverified \in BOOLEAN /\ Exists(e)
      BY <2>1 DEF LinkRead
    <3>2. Good(new)
      <4> HIDE DEF unverified
      <4>1. QED BY <3>1 DEF Good, Idle, Request, Knows, StillTrue, LinkSteps, Roles
    <3>3. QED BY <2>1, <3>2 DEF LinkRead, GoesOn, Goto
  <2>2. CASE LinkFindIdentity(r)
    <3>1. req.email \in Emails /\ req.identity \in Identities /\ Exists(req.email)
      BY <1>1, <2>2 DEF LinkFindIdentity, At, Knows, StillTrue, LinkSteps, req
    <3>2. CASE Goto(r, [req EXCEPT !.at = "vouch"])
      <4>1. /\ Knows([req EXCEPT !.at = "vouch"])
            /\ StillTrue([req EXCEPT !.at = "vouch"])
        BY <1>3, <3>1 DEF Knows, StillTrue, LinkSteps
      <4>2. QED BY <1>1, <3>2, <4>1, MoveGoesOn
    <3>3. CASE /\ req.identity.email = req.email
               /\ Goto(r, [req EXCEPT !.at = "linkOnly"])
      <4>1. /\ Knows([req EXCEPT !.at = "linkOnly"])
            /\ StillTrue([req EXCEPT !.at = "linkOnly"])
        BY <1>3, <3>1, <3>3 DEF Knows, StillTrue, LinkSteps
      <4>2. QED BY <1>1, <3>3, <4>1, MoveGoesOn
    <3>4. QED BY <2>2, <3>2, <3>3, FinishGoesOn DEF LinkFindIdentity, req
  <2>3. CASE LinkFindOther(r)
    <3>1. /\ req.email \in Emails /\ req.identity \in Identities
          /\ Exists(req.email) /\ req.identity.email = req.email
      BY <1>1, <2>3 DEF LinkFindOther, At, Knows, StillTrue, LinkSteps, req
    <3>2. CASE Goto(r, [req EXCEPT !.at = "linkWrite"])
      <4>1. /\ Knows([req EXCEPT !.at = "linkWrite"])
            /\ StillTrue([req EXCEPT !.at = "linkWrite"])
        BY <1>3, <3>1 DEF Knows, StillTrue, LinkSteps
      <4>2. QED BY <1>1, <3>2, <4>1, MoveGoesOn
    <3>3. QED BY <2>3, <3>2, FinishGoesOn DEF LinkFindOther, req
  <2>4. ASSUME NEW e \in Emails, UnlinkRead(r, e)
        PROVE  GoesOn(r)
    <3> DEFINE new == [Idle EXCEPT !.at = "unlink", !.email = e]
    <3>1. Exists(e) /\ user[e].password
      BY <2>4 DEF UnlinkRead
    <3>2. Good(new)
      BY <3>1 DEF Good, Idle, Request, Knows, StillTrue, LinkSteps, Roles
    <3>3. QED BY <2>4, <3>2 DEF UnlinkRead, GoesOn, Goto
  <2>5. QED
    BY <1>6, <2>1, <2>2, <2>3, <2>4, FinishGoesOn
    DEF Linking, LinkCommit, Vouch, UnlinkCommit
<1>7. CASE Login(r)
  <2>1. ASSUME NEW i \in Identities, NEW role \in {"CUSTOMER", "ADMIN"},
               LoginFind(r, i, role)
        PROVE  GoesOn(r)
    <3> DEFINE new == [Idle EXCEPT !.identity = i, !.role = role]
               next == [new EXCEPT !.at = "address"]
    <3>1. new \in Request /\ Good(next)
      BY DEF Good, Idle, Request, Knows, StillTrue, LinkSteps, Roles
    <3> HIDE DEF new
    <3>2. CASE Found(r, new, owner[i.subject]) /\ owner[i.subject] # None
      BY <1>2, <3>1, <3>2, FoundGoesOn
    <3>3. CASE Goto(r, next)
      BY <3>1, <3>3 DEF GoesOn, Goto
    <3>4. QED BY <2>1, <3>2, <3>3 DEF LoginFind, new
  <2>2. CASE LoginReadAddress(r)
    <3>1. req.identity \in Identities
      BY <1>1, <2>2 DEF LoginReadAddress, At, Knows, req
    <3>2. CASE Goto(r, [req EXCEPT !.at = "conflict"])
      <4>1. /\ Knows([req EXCEPT !.at = "conflict"])
            /\ StillTrue([req EXCEPT !.at = "conflict"])
        BY <1>3 DEF Knows, StillTrue, LinkSteps
      <4>2. QED BY <1>1, <3>2, <4>1, MoveGoesOn
    <3>3. CASE /\ req.identity.authoritative
               /\ Goto(r, [req EXCEPT !.at = "create"])
      <4>1. /\ Knows([req EXCEPT !.at = "create"])
            /\ StillTrue([req EXCEPT !.at = "create"])
        BY <1>3, <3>1, <3>3 DEF Knows, StillTrue, LinkSteps
      <4>2. QED BY <1>1, <3>3, <4>1, MoveGoesOn
    <3>4. QED BY <2>2, <3>2, <3>3, FinishGoesOn DEF LoginReadAddress, req
  <2>3. CASE CreateConflicts(r)
    <3>1. req.identity \in Identities
      BY <1>1, <2>3 DEF CreateConflicts, At, Knows, req
    <3>2. /\ Knows([req EXCEPT !.at = "findAgain"])
          /\ StillTrue([req EXCEPT !.at = "findAgain"])
      BY <1>3, <3>1 DEF Knows, StillTrue, LinkSteps
    <3>3. QED BY <1>1, <2>3, <3>2, MoveGoesOn DEF CreateConflicts, req
  <2>4. CASE LoginFindAgain(r)
    <3>1. req.identity \in Identities
      BY <1>1, <2>4 DEF LoginFindAgain, At, Knows, req
    <3>2. owner[req.identity.subject] \in Emails \cup {None}
      BY <1>2, <3>1
    <3>3. CASE Goto(r, [req EXCEPT !.at = "conflict"])
      <4>1. /\ Knows([req EXCEPT !.at = "conflict"])
            /\ StillTrue([req EXCEPT !.at = "conflict"])
        BY <1>3 DEF Knows, StillTrue, LinkSteps
      <4>2. QED BY <1>1, <3>3, <4>1, MoveGoesOn
    <3>4. QED BY <1>1, <2>4, <3>2, <3>3, FoundGoesOn DEF LoginFindAgain, req
  <2>5. QED
    BY <1>7, <2>1, <2>2, <2>3, <2>4, FinishGoesOn DEF Login, CreateCustomer, LoginOpen
<1>8. QED BY <1>4, <1>5, <1>6, <1>7

\* Only the script's creation of a row can tell that two runs have raced.
LEMMA RacedOnlyBySeeding ==
    ASSUME Next
    PROVE  \/ raced' = raced
           \/ \E r \in Requests :
                 /\ SeedCommit(r)
                 /\ raced' = (raced \/ (~Exists(request[r].email) /\ Seeds # {r}))
<1>1. ASSUME NEW r \in Requests, Login(r) PROVE raced' = raced
  BY <1>1 DEF Login, LoginFind, Found, LoginReadAddress, CreateCustomer, CreateConflicts,
              LoginFindAgain, LoginOpen, Finish, Goto
<1>2. ASSUME NEW r \in Requests, Linking(r) PROVE raced' = raced
  BY <1>2 DEF Linking, LinkRead, LinkFindIdentity, LinkFindOther, LinkCommit, Vouch,
              UnlinkRead, UnlinkCommit, Finish, Goto
<1>3. ASSUME NEW r \in Requests, Creation(r), ~SeedCommit(r) PROVE raced' = raced
  BY <1>3 DEF Creation, RegisterRead, RegisterCommit, SeedLook, SeedRead, Finish, Goto
<1>4. QED
  BY <1>1, <1>2, <1>3 DEF Next, SeedCommit, Abort, Finish, Goto, SetPassword,
                          ConfirmAddress, Govern

LEMMA NextCorrect ==
    ASSUME IInv, [Next]_vars
    PROVE  IInv'
<1>1. CASE UNCHANGED vars
  BY <1>1 DEF vars, rows, IInv, TypeOK, Exists, StillTrue, AlwaysAWayIn, Linked,
     VerifiedByItsGoogle
<1>2. CASE Next
  <2>1. RowsOK' /\ Persist
    BY <1>2, StepEffect, EffectCorrect DEF IInv, TypeOK, RowsOK
  <2>2. /\ request \in [Requests -> Request]
        /\ \A q \in Requests : Good(request[q])
    BY DEF IInv, TypeOK, Request, Good
  <2>3. /\ request' \in [Requests -> Request]
        /\ \A q \in Requests : Good(request'[q])
    <3>1. ASSUME NEW r \in Requests, GoesOn(r)
          PROVE  /\ request' \in [Requests -> Request]
                 /\ \A q \in Requests : Good(request'[q])
      <4>1. PICK req : Good(req) /\ Becomes(r, req)
        BY <3>1 DEF GoesOn, Goto
      <4>2. req \in Request
        BY <4>1 DEF Good
      <4>3. QED BY <2>2, <4>1, <4>2 DEF Becomes
    <3>2. CASE request' = request
      BY <2>2, <3>2
    <3>3. QED
      BY <1>2, <3>1, <3>2, RequestStep DEF Next, SetPassword, ConfirmAddress, Govern
  <2>4. \A q \in Requests : StillTrue(request[q])'
    BY <2>1, <2>3 DEF StillTrue, Good, Persist, Knows, LinkSteps
  <2>5. raced' \in BOOLEAN
    BY <1>2, RacedOnlyBySeeding DEF IInv, TypeOK
  <2>6. QED BY <2>1, <2>3, <2>4, <2>5 DEF IInv, RowsOK, TypeOK, Request, Knows, Good
<1>3. QED BY <1>1, <1>2

LEMMA Invariance == Spec => []IInv
BY InitCorrect, NextCorrect, PTL DEF Spec

(***************************************************************************)
(* Superadmins                                                             *)
(***************************************************************************)

SeedSteps == {"seed", "seedCreate"}

\* Unless two runs of the script have raced, no run is under way once there is a
\* superadmin; and nobody else makes one.
SeedInv ==
    /\ ~raced => /\ \A e, f \in Superadmins : e = f
                 /\ Superadmins # {} => \A r \in Requests : request[r].at \notin SeedSteps
    /\ \A r \in Requests : At(r, "register") => request[r].role # "SUPERADMIN"

LEMMA SeedInit == Init => SeedInv
BY DEF Init, SeedInv, Superadmins, Exists, Idle, SeedSteps, At

LEMMA RoleKept ==
    ASSUME IInv, NEW e \in Emails, NEW row \in User,
           user' = [user EXCEPT ![e] = row],
           row.role = "SUPERADMIN" <=> e \in Superadmins
    PROVE  Superadmins' = Superadmins
<1>1. row # None /\ \A f \in Emails : user'[f] = IF f = e THEN row ELSE user[f]
  BY NoneAssumption DEF IInv, TypeOK
<1>2. \A f \in Emails : f \in Superadmins' <=> f \in Superadmins
  BY <1>1 DEF Superadmins, Exists
<1>3. Superadmins' \subseteq Emails /\ Superadmins \subseteq Emails
  BY DEF Superadmins
<1>4. QED BY <1>2, <1>3

\* Writing one field other than the role.
LEMMA VerifyKeepsRoles ==
    ASSUME IInv, NEW e \in Emails, Exists(e), Verify(e)
    PROVE  Superadmins' = Superadmins
<1> DEFINE row == [user[e] EXCEPT !.verified = "google"]
<1>1. user[e] \in User
  BY DEF IInv, TypeOK, Exists
<1>2. row \in User /\ row.role = user[e].role
  BY <1>1 DEF User
<1>3. user' = [user EXCEPT ![e] = row]
  BY DEF Verify
<1> HIDE DEF row
<1>4. QED BY <1>2, <1>3, RoleKept DEF Superadmins

LEMMA OthersKeepRoles ==
    ASSUME IInv, NEW e \in Emails, SetPassword(e) \/ ConfirmAddress(e) \/ Govern(e)
    PROVE  Superadmins' = Superadmins /\ request' = request /\ raced' = raced
<1>1. user[e] \in User /\ Exists(e)
  BY DEF IInv, TypeOK, Exists, SetPassword, ConfirmAddress, Govern
<1>2. PICK row \in User : row.role = user[e].role /\ user' = [user EXCEPT ![e] = row]
  <2>1. CASE SetPassword(e)
    <3> DEFINE row == [user[e] EXCEPT !.password = TRUE]
    <3>1. row \in User /\ row.role = user[e].role
      BY <1>1 DEF User
    <3>2. user' = [user EXCEPT ![e] = row]
      BY <2>1 DEF SetPassword
    <3> HIDE DEF row
    <3>3. QED BY <3>1, <3>2
  <2>2. CASE ConfirmAddress(e)
    <3> DEFINE row == [user[e] EXCEPT !.verified = "mail"]
    <3>1. row \in User /\ row.role = user[e].role
      BY <1>1 DEF User
    <3>2. user' = [user EXCEPT ![e] = row]
      BY <2>2 DEF ConfirmAddress
    <3> HIDE DEF row
    <3>3. QED BY <3>1, <3>2
  <2>3. CASE Govern(e)
    <3> DEFINE row == [user[e] EXCEPT !.active = ~@]
    <3>1. row \in User /\ row.role = user[e].role
      BY <1>1 DEF User
    <3>2. user' = [user EXCEPT ![e] = row]
      BY <2>3 DEF Govern
    <3> HIDE DEF row
    <3>3. QED BY <3>1, <3>2
  <2>4. QED BY <2>1, <2>2, <2>3
<1>3. QED
  BY <1>1, <1>2, RoleKept DEF Superadmins, SetPassword, ConfirmAddress, Govern

\* Of the steps of requests only the script's creation makes a superadmin.
LEMMA StepKeepsRoles ==
    ASSUME IInv, SeedInv, NEW r \in Requests,
           Login(r) \/ Linking(r) \/ Creation(r) \/ Abort(r), ~SeedCommit(r)
    PROVE  Superadmins' = Superadmins
<1> DEFINE req == request[r]
<1>1. CASE user' = user
  BY <1>1 DEF Superadmins, Exists
<1>2. CASE CreateCustomer(r)
  <2>1. req.identity.email \in Emails /\ ~Exists(req.identity.email)
    BY <1>2, IdentitiesAssumption DEF IInv, Knows, CreateCustomer, At, Conflict, Identity,
       LinkSteps
  <2>2. user' = [user EXCEPT ![req.identity.email] = Customer]
    BY <1>2, <2>1 DEF CreateCustomer, Insert
  <2>3. Customer.role # "SUPERADMIN"
    BY DEF Customer
  <2>4. QED BY <2>1, <2>2, <2>3, CustomerType, RoleKept DEF Superadmins
<1>3. CASE RegisterCommit(r)
  <2> DEFINE row == [role |-> req.role, active |-> TRUE, password |-> TRUE,
                     verified |-> "no"]
  <2>1. req.email \in Emails /\ req.role \in Roles /\ req.role # "SUPERADMIN"
    BY <1>3 DEF IInv, TypeOK, Knows, SeedInv, RegisterCommit, At
  <2>2. row \in User /\ row.role # "SUPERADMIN"
    BY <2>1 DEF User
  <2>3. CASE Exists(req.email)
    BY <1>1, <1>3, <2>3 DEF RegisterCommit, Insert
  <2>4. CASE ~Exists(req.email)
    <3>1. user' = [user EXCEPT ![req.email] = row]
      BY <1>3, <2>4 DEF RegisterCommit, Insert
    <3> HIDE DEF row
    <3>2. QED BY <2>1, <2>2, <2>4, <3>1, RoleKept DEF Superadmins
  <2>5. QED BY <2>3, <2>4
<1>4. CASE LinkCommit(r) \/ Vouch(r)
  <2>1. req.email \in Emails /\ Exists(req.email)
    BY <1>4 DEF IInv, Knows, StillTrue, LinkSteps, LinkCommit, Vouch, At
  <2>2. user' = user \/ Verify(req.email)
    BY <1>4 DEF LinkCommit, Vouch, rows
  <2>3. QED BY <1>1, <2>1, <2>2, VerifyKeepsRoles
<1>5. QED
  BY <1>1, <1>2, <1>3, <1>4
  DEF Login, Linking, Creation, Abort, rows, LoginFind, LoginReadAddress,
      CreateConflicts, LoginFindAgain, LoginOpen, LinkRead, LinkFindIdentity,
      LinkFindOther, UnlinkRead, UnlinkCommit, RegisterRead, SeedLook, SeedRead

\* A request that goes on to anything but registering or seeding.
Aside(r) == \E req : req.at \notin SeedSteps \cup {"register"} /\ Goto(r, req)

LEMMA FinishAside == ASSUME NEW r, Finish(r) PROVE Aside(r)
<1>1. Idle.at \notin SeedSteps \cup {"register"}
  BY DEF Idle, SeedSteps
<1>2. QED BY <1>1 DEF Finish, Aside

LEMMA FoundAside ==
    ASSUME NEW r, NEW req \in Request, NEW e, Found(r, req, e)
    PROVE  Aside(r)
<1>1. [req EXCEPT !.at = "open", !.email = e].at = "open"
  BY DEF Request
<1>2. QED BY <1>1, FinishAside DEF Found, Aside, SeedSteps

LEMMA StepAside ==
    ASSUME IInv, NEW r \in Requests, Login(r) \/ Linking(r) \/ Abort(r)
    PROVE  Aside(r)
<1> DEFINE req == request[r]
<1>1. req \in Request
  BY DEF IInv, TypeOK, Request
<1> HIDE DEF req
<1>2. \A step \in {"create", "findAgain", "conflict", "linkOnly", "linkWrite", "vouch"} :
         [req EXCEPT !.at = step].at \notin SeedSteps \cup {"register"}
  BY <1>1 DEF Request, SeedSteps
<1>3. ASSUME NEW i \in Identities, NEW role \in {"CUSTOMER", "ADMIN"},
             LoginFind(r, i, role)
      PROVE  Aside(r)
  <2> DEFINE new == [Idle EXCEPT !.identity = i, !.role = role]
  <2>1. new \in Request
    BY DEF Idle, Request, Roles
  <2>2. [new EXCEPT !.at = "address"].at \notin SeedSteps \cup {"register"}
    BY DEF Idle, SeedSteps
  <2>3. \/ Found(r, new, owner[i.subject])
        \/ Goto(r, [new EXCEPT !.at = "address"])
    BY <1>3 DEF LoginFind
  <2> HIDE DEF new
  <2>4. QED BY <2>1, <2>2, <2>3, FoundAside DEF Aside
<1>4. CASE LoginReadAddress(r) \/ CreateConflicts(r) \/ LinkFindIdentity(r) \/ LinkFindOther(r)
  BY <1>2, <1>4, FinishAside
  DEF LoginReadAddress, CreateConflicts, LinkFindIdentity, LinkFindOther, Aside, req
<1>5. CASE LoginFindAgain(r)
  BY <1>1, <1>2, <1>5, FoundAside DEF LoginFindAgain, Aside, req
<1>6. CASE \/ CreateCustomer(r) \/ LoginOpen(r) \/ LinkCommit(r) \/ Vouch(r)
           \/ UnlinkCommit(r) \/ Abort(r)
  BY <1>6, FinishAside
  DEF CreateCustomer, LoginOpen, LinkCommit, Vouch, UnlinkCommit, Abort
<1>7. ASSUME NEW e \in Emails, NEW i \in Identities, LinkRead(r, e, i)
      PROVE  Aside(r)
  <2>1. [Idle EXCEPT !.at = "link", !.email = e, !.identity = i,
                     !.unverified = user[e].verified = "no"].at
           \notin SeedSteps \cup {"register"}
    BY DEF Idle, SeedSteps
  <2>2. QED BY <1>7, <2>1 DEF LinkRead, Aside
<1>8. ASSUME NEW e \in Emails, UnlinkRead(r, e)
      PROVE  Aside(r)
  <2>1. [Idle EXCEPT !.at = "unlink", !.email = e].at \notin SeedSteps \cup {"register"}
    BY DEF Idle, SeedSteps
  <2>2. QED BY <1>8, <2>1 DEF UnlinkRead, Aside
<1>9. QED BY <1>3, <1>4, <1>5, <1>6, <1>7, <1>8 DEF Login, Linking

\* The other requests stay what they are.
LEMMA SeedNext ==
    ASSUME IInv, SeedInv, [Next]_vars
    PROVE  SeedInv'
<1>0. request \in [Requests -> Request]
  BY DEF IInv, TypeOK, Request
<1>1. CASE UNCHANGED vars
  BY <1>1 DEF vars, rows, SeedInv, Superadmins, Exists, At
<1>2. ASSUME NEW e \in Emails, SetPassword(e) \/ ConfirmAddress(e) \/ Govern(e)
      PROVE  SeedInv'
  BY <1>2, OthersKeepRoles DEF SeedInv, At
<1>3. ASSUME NEW r \in Requests, Aside(r), Superadmins' = Superadmins
      PROVE  SeedInv'
  <2>1. PICK req : req.at \notin SeedSteps \cup {"register"} /\ Goto(r, req)
    BY <1>3 DEF Aside
  <2>2. \A q \in Requests : request'[q] = IF q = r THEN req ELSE request[q]
    BY <1>0, <2>1 DEF Goto, Becomes
  <2>3. QED BY <1>3, <2>1, <2>2 DEF SeedInv, At, Goto
<1>4. ASSUME NEW r \in Requests, Login(r) \/ Linking(r) \/ Abort(r)
      PROVE  SeedInv'
  <2>1. ~SeedCommit(r) \/ Abort(r)
    BY <1>4, <1>0
    DEF SeedCommit, At, Login, Linking, LoginFind, LoginReadAddress,
        CreateCustomer, CreateConflicts, LoginFindAgain, LoginOpen, LinkRead, LinkFindIdentity,
        LinkFindOther, LinkCommit, Vouch, UnlinkRead, UnlinkCommit
  <2>2. Abort(r) => Superadmins' = Superadmins
    BY DEF Abort, rows, Superadmins, Exists
  <2>3. Superadmins' = Superadmins
    BY <1>4, <2>1, <2>2, StepKeepsRoles
  <2>4. QED BY <1>3, <1>4, <2>3, StepAside
<1>5. ASSUME NEW r \in Requests, NEW e \in Emails, NEW role \in {"CUSTOMER", "ADMIN"},
             RegisterRead(r, e, role)
      PROVE  SeedInv'
  <2> DEFINE new == [Idle EXCEPT !.at = "register", !.email = e, !.role = role]
  <2>1. new.at = "register" /\ new.role # "SUPERADMIN"
    BY DEF Idle
  <2>2. \A q \in Requests : request'[q] = IF q = r THEN new ELSE request[q]
    BY <1>0, <1>5 DEF RegisterRead, Goto, Becomes
  <2>3. Superadmins' = Superadmins
    BY <1>5 DEF RegisterRead, rows, Superadmins, Exists
  <2>4. raced' = raced
    BY <1>5 DEF RegisterRead, Goto
  <2> HIDE DEF new
  <2>5. QED BY <2>1, <2>2, <2>3, <2>4 DEF SeedInv, At, SeedSteps
<1>6. ASSUME NEW r \in Requests, NEW e \in SeedEmails, SeedLook(r, e)
      PROVE  SeedInv'
  <2> DEFINE new == [Idle EXCEPT !.at = "seed", !.email = e, !.role = "SUPERADMIN"]
  <2>1. new.at = "seed"
    BY DEF Idle
  <2>2. \A q \in Requests : request'[q] = IF q = r THEN new ELSE request[q]
    BY <1>0, <1>6 DEF SeedLook, Goto, Becomes
  <2>3. Superadmins = {} /\ Superadmins' = {}
    BY <1>6 DEF SeedLook, rows, Superadmins, Exists
  <2>4. raced' = raced
    BY <1>6 DEF SeedLook, Goto
  <2> HIDE DEF new
  <2>5. QED BY <2>1, <2>2, <2>3, <2>4 DEF SeedInv, At
<1>7. ASSUME NEW r \in Requests, SeedRead(r)
      PROVE  SeedInv'
  <2>1. Superadmins' = Superadmins
    BY <1>7 DEF SeedRead, rows, Superadmins, Exists
  <2>2. CASE Finish(r)
    BY <1>3, <2>1, <2>2, FinishAside
  <2>3. CASE Goto(r, [request[r] EXCEPT !.at = "seedCreate"])
    <3>1. [request[r] EXCEPT !.at = "seedCreate"].at = "seedCreate"
      BY <1>0 DEF Request
    <3>2. \A q \in Requests : q # r => request'[q] = request[q]
      BY <1>0, <2>3 DEF Goto, Becomes
    <3>3. request'[r].at = "seedCreate" /\ request[r].at \in SeedSteps
      BY <1>0, <1>7, <2>3, <3>1 DEF Goto, Becomes, SeedRead, At, SeedSteps
    <3>4. raced' = raced
      BY <2>3 DEF Goto
    <3>5. QED BY <2>1, <3>2, <3>3, <3>4 DEF SeedInv, At
  <2>4. QED BY <1>7, <2>2, <2>3 DEF SeedRead
<1>8. ASSUME NEW r \in Requests, SeedCommit(r)
      PROVE  SeedInv'
  <2>1. request[r].at \in SeedSteps
    BY <1>8 DEF SeedCommit, At, SeedSteps
  <2>2. \A q \in Requests : request'[q] = IF q = r THEN Idle ELSE request[q]
    BY <1>0, <1>8 DEF SeedCommit, Becomes
  <2>3. Idle.at \notin SeedSteps \cup {"register"}
    BY DEF Idle, SeedSteps
  <2>4. ASSUME ~raced'
        PROVE  /\ \A e, f \in Superadmins' : e = f
               /\ Superadmins' # {} => \A q \in Requests : request'[q].at \notin SeedSteps
    <3>1. /\ ~raced
          /\ Exists(request[r].email) \/ Seeds = {r}
      BY <1>8, <2>4 DEF SeedCommit
    <3>2. Superadmins = {}
      BY <2>1, <3>1 DEF SeedInv
    <3>3. CASE Exists(request[r].email)
      <4>1. user' = user
        BY <1>8, <3>3 DEF SeedCommit, Insert
      <4>2. QED BY <3>2, <4>1 DEF Superadmins, Exists
    <3>4. CASE Seeds = {r}
      <4>1. \A f \in Emails : f # request[r].email => user'[f] = user[f]
        BY <1>8 DEF SeedCommit, Insert, IInv, TypeOK
      <4>2. \A f \in Superadmins' : f = request[r].email
        BY <3>2, <4>1 DEF Superadmins, Exists
      <4>3. \A q \in Requests : request'[q].at \notin SeedSteps
        BY <2>2, <2>3, <3>4 DEF Seeds, SeedSteps
      <4>4. QED BY <4>2, <4>3
    <3>5. QED BY <3>1, <3>3, <3>4
  <2>5. \A q \in Requests : At(q, "register")' => request'[q].role # "SUPERADMIN"
    BY <2>2, <2>3 DEF SeedInv, At
  <2>6. QED BY <2>4, <2>5 DEF SeedInv, At
<1>9. ASSUME NEW r \in Requests, RegisterCommit(r)
      PROVE  SeedInv'
  <2>1. ~SeedCommit(r)
    BY <1>9 DEF RegisterCommit, SeedCommit, At
  <2>2. Superadmins' = Superadmins
    BY <1>9, <2>1, StepKeepsRoles DEF Creation
  <2>3. QED BY <1>3, <1>9, <2>2, FinishAside DEF RegisterCommit
<1>10. QED
  BY <1>1, <1>2, <1>4, <1>5, <1>6, <1>7, <1>8, <1>9 DEF Next, Creation

(***************************************************************************)
(* Theorems                                                                *)
(***************************************************************************)

\* Rows and requests keep their shape, and every link leads to an account.
THEOREM TypeCorrect == Spec => []TypeOK
<1>1. IInv => TypeOK
  BY DEF IInv
<1>2. QED BY <1>1, Invariance, PTL

\* However unlinking, linking and setting passwords overlap, no account is ever
\* left without a password and without a Google identity.
THEOREM WayIn == Spec => []AlwaysAWayIn
<1>1. IInv => AlwaysAWayIn
  BY DEF IInv
<1>2. QED BY <1>1, Invariance, PTL

\* No address counts as verified by a Google account that does not answer for it.
THEOREM GoogleVerification == Spec => []VerifiedByItsGoogle
<1>1. IInv => VerifiedByItsGoogle
  BY DEF IInv
<1>2. QED BY <1>1, Invariance, PTL

\* An account that exists gets an identity only from a request of its owner to
\* link it, however first logins and registrations overlap.
THEOREM OwnersLink == Spec => OnlyOwnersLink
<1>1. ASSUME IInv, [Next]_vars, NEW s \in Subjects, NEW e \in Emails,
             Exists(e), owner[s] # e, owner'[s] = e
      PROVE  \E r \in Requests : At(r, "linkWrite") /\ request[r].email = e
                                 /\ request[r].identity.subject = s
  <2>1. owner' # owner
    BY <1>1
  <2>2. e # None /\ owner \in [Subjects -> Emails \cup {None}]
    BY NoneAssumption, <1>1 DEF IInv, TypeOK
  <2>3. ASSUME NEW r \in Requests, LinkCommit(r)
        PROVE  /\ At(r, "linkWrite") /\ request[r].email = e
               /\ request[r].identity.subject = s
    BY <1>1, <2>1, <2>2, <2>3 DEF LinkCommit, rows
  <2>4. ASSUME NEW r \in Requests, CreateCustomer(r)
        PROVE  FALSE
    BY <1>1, <2>1, <2>2, <2>4 DEF CreateCustomer, Conflict
  <2>5. ASSUME NEW r \in Requests, UnlinkCommit(r)
        PROVE  FALSE
    BY <1>1, <2>2, <2>5 DEF UnlinkCommit
  <2>6. QED
    BY <1>1, <2>1, <2>3, <2>4, <2>5
    DEF Next, vars, rows, Login, Linking, Creation, Abort, LoginFind,
        LoginReadAddress, CreateConflicts, LoginFindAgain, LoginOpen, LinkRead,
        LinkFindIdentity, LinkFindOther, Vouch, UnlinkRead, RegisterRead,
        RegisterCommit, SeedLook, SeedRead, SeedCommit, SetPassword,
        ConfirmAddress, Govern
<1>2. IInv /\ [Next]_vars =>
      [\A s \in Subjects, e \in Emails :
          Exists(e) /\ owner[s] # e /\ owner'[s] = e
          => \E r \in Requests : At(r, "linkWrite") /\ request[r].email = e
                                  /\ request[r].identity.subject = s]_vars
  BY <1>1
<1>3. QED BY <1>2, Invariance, PTL DEF Spec, OnlyOwnersLink

\* A login that has lost the race for an identity or an address ends in a
\* conflict only if it finds, on looking again, that the identity is nobody's.
THEOREM LosersAreAdmitted == Spec => LosersGetIn
<1>1. ASSUME IInv, [Next]_vars, NEW r \in Requests,
             request[r].at \in {"create", "findAgain"}, request'[r].at = "conflict"
      PROVE  owner[request[r].identity.subject] = None
  <2>1. request \in [Requests -> Request] /\ request'[r] # request[r]
    BY <1>1 DEF IInv, TypeOK, Request
  <2>2. ASSUME NEW q \in Requests, NEW req, Goto(q, req) \/ Becomes(q, req)
        PROVE  q = r /\ req.at = "conflict"
    BY <1>1, <2>1, <2>2 DEF Goto, Becomes
  <2>3. ASSUME NEW q \in Requests, LoginFindAgain(q)
        PROVE  owner[request[r].identity.subject] = None
    <3> DEFINE e == owner[request[q].identity.subject]
    <3>1. q = r
      <4>1. \E req : Goto(q, req)
        BY <2>3 DEF LoginFindAgain, Found, Finish
      <4>2. QED BY <2>2, <4>1
    <3>2. ~Found(q, request[q], e)
      <4>1. ~Goto(q, [request[q] EXCEPT !.at = "open", !.email = e])
        <5>1. [request[q] EXCEPT !.at = "open", !.email = e].at # "conflict"
          BY <2>1 DEF Request
        <5>2. QED BY <2>2, <5>1
      <4>2. ~Finish(q)
        BY <2>2 DEF Finish, Idle
      <4>3. QED BY <4>1, <4>2 DEF Found
    <3>3. QED BY <2>3, <3>1, <3>2 DEF LoginFindAgain
  <2>4. ASSUME NEW q \in Requests, LoginReadAddress(q)
        PROVE  FALSE
    BY <1>1, <2>2, <2>4 DEF LoginReadAddress, Finish, Idle, At
  <2>5. ASSUME NEW q \in Requests, CreateConflicts(q)
        PROVE  FALSE
    BY <2>1, <2>2, <2>5 DEF CreateConflicts, Request
  <2>6. ASSUME NEW q \in Requests, Finish(q)
        PROVE  FALSE
    BY <2>2, <2>6 DEF Finish, Idle
  <2>7. ASSUME NEW q \in Requests, NEW i, NEW role, LoginFind(q, i, role)
        PROVE  FALSE
    <3>1. q = r
      <4>1. \E req : Goto(q, req)
        BY <2>7 DEF LoginFind, Found, Finish
      <4>2. QED BY <2>2, <4>1
    <3>2. QED BY <1>1, <2>7, <3>1 DEF LoginFind, At
  <2>8. ASSUME NEW q \in Requests, Linking(q)
        PROVE  FALSE
    <3>1. \E req : Goto(q, req) /\ ~At(q, "create") /\ ~At(q, "findAgain")
      BY <2>8
      DEF Linking, LinkRead, LinkFindIdentity, LinkFindOther, LinkCommit, Vouch,
          UnlinkRead, UnlinkCommit, Finish, At
    <3>2. QED BY <1>1, <2>2, <3>1 DEF At
  <2>9. ASSUME NEW q \in Requests, Creation(q)
        PROVE  FALSE
    <3>1. \E req : Becomes(q, req) /\ ~At(q, "create") /\ ~At(q, "findAgain")
      BY <2>9
      DEF Goto, Creation, RegisterRead, RegisterCommit, SeedLook, SeedRead, SeedCommit,
          Finish, At
    <3>2. QED BY <1>1, <2>2, <3>1 DEF At
  <2>10. request' # request
    BY <2>1
  <2>11. QED
    BY <1>1, <2>3, <2>4, <2>5, <2>6, <2>7, <2>8, <2>9, <2>10
    DEF Next, vars, Login, Abort, CreateCustomer, LoginOpen, SetPassword,
        ConfirmAddress, Govern
<1>2. IInv /\ [Next]_vars =>
      [\A r \in Requests :
          /\ request[r].at \in {"create", "findAgain"}
          /\ request'[r].at = "conflict"
          => owner[request[r].identity.subject] = None]_vars
  BY <1>1
<1>3. QED BY <1>2, Invariance, PTL DEF Spec, LosersGetIn

(***************************************************************************)
(* AccountAccess                                                           *)
(***************************************************************************)

\* The rows of two states show the same accounts.
LEMMA SameRows ==
    ASSUME UNCHANGED rows
    PROVE  UNCHANGED Access!vars
<1>1. opened' = opened
  BY DEF rows, opened, Exists
<1>2. secured' = secured
  BY <1>1 DEF rows, secured
<1>3. QED BY <1>1, <1>2 DEF rows, Access!vars

LEMMA RegistersImplements ==
    ASSUME RowsOK, NEW e \in Emails, Registers(e)
    PROVE  Access!Register(e)
<1>1. PICK row \in User : /\ user' = [user EXCEPT ![e] = row]
                          /\ row.password
  BY DEF Registers
<1>2. row # None /\ ~Exists(e) /\ owner' = owner
  BY NoneAssumption DEF Registers
<1>3. \A x \in Emails : user'[x] = IF x = e THEN row ELSE user[x]
  BY <1>1 DEF RowsOK
<1>4. opened' = opened \cup {e} /\ e \notin opened
  BY <1>2, <1>3 DEF opened, Exists
<1>5. secured' = secured \cup {e}
  BY <1>1, <1>2, <1>3, <1>4 DEF secured, opened, Exists
<1>6. QED BY <1>2, <1>4, <1>5 DEF Access!Register

LEMMA AdoptsImplements ==
    ASSUME RowsOK, NEW i \in Identities, Adopts(i)
    PROVE  Access!SignUp(i.email, i.subject)
<1>1. /\ user' = [user EXCEPT ![i.email] = Customer]
      /\ owner' = [owner EXCEPT ![i.subject] = i.email]
      /\ owner[i.subject] = None /\ ~Exists(i.email)
      /\ i.email \in Emails
  BY IdentitiesAssumption DEF Adopts, Identity
<1>2. \A x \in Emails : user'[x] = IF x = i.email THEN Customer ELSE user[x]
  BY <1>1 DEF RowsOK
<1>3. opened' = opened \cup {i.email} /\ i.email \notin opened
  BY <1>1, <1>2, CustomerType DEF opened, Exists
<1>4. ~Customer.password
  BY DEF Customer
<1>5. secured' = secured
  BY <1>1, <1>2, <1>3, <1>4 DEF secured, opened, Exists
<1>6. QED BY <1>1, <1>3, <1>5 DEF Access!SignUp

\* A change of a row is at most a first password.
LEMMA ChangesShown ==
    ASSUME RowsOK, NEW e \in Emails, Changes(e)
    PROVE  /\ e \in opened
           /\ opened' = opened
           /\ secured' = secured \/ secured' = secured \cup {e}
           /\ user'[e].password = user[e].password => secured' = secured
<1>1. PICK row \in User : /\ user' = [user EXCEPT ![e] = row]
                          /\ user[e].password => row.password
  BY DEF Changes
<1>2. row # None /\ Exists(e) /\ row.password \in BOOLEAN
  BY NoneAssumption DEF Changes, User
<1>3. \A x \in Emails : user'[x] = IF x = e THEN row ELSE user[x]
  BY <1>1 DEF RowsOK
<1>4. opened' = opened /\ e \in opened
  BY <1>2, <1>3 DEF opened, Exists
<1>5. \A x \in opened \ {e} : x \in secured' <=> x \in secured
  BY <1>3, <1>4 DEF secured, opened
<1>6. e \in secured => e \in secured'
  BY <1>1, <1>3, <1>4 DEF secured
<1>7. user'[e].password = user[e].password => (e \in secured' <=> e \in secured)
  BY <1>4 DEF secured
<1>8. secured \subseteq opened /\ secured' \subseteq opened
  BY <1>4 DEF secured
<1>9. QED BY <1>4, <1>5, <1>6, <1>7, <1>8

LEMMA LinksImplements ==
    ASSUME RowsOK, NEW e \in Emails, NEW s \in Subjects, Links(e, s)
    PROVE  Access!Link(e, s)
<1>1. owner[s] = None /\ Exists(e) /\ owner' = [owner EXCEPT ![s] = e]
  BY DEF Links
<1>2. opened' = opened /\ secured' = secured
  <2>1. CASE user' = user
    BY <2>1 DEF opened, secured, Exists
  <2>2. QED BY <2>1, ChangesShown DEF Links
<1>3. QED BY <1>1, <1>2 DEF Access!Link, opened

LEMMA UnlinksImplements ==
    ASSUME RowsOK, NEW e \in Emails, Unlinks(e)
    PROVE  Access!Unlink(e)
<1>1. e \in secured
  BY DEF Unlinks, secured, opened
<1>2. opened' = opened /\ secured' = secured
  BY DEF Unlinks, opened, secured, Exists
<1>3. QED BY <1>1, <1>2 DEF Unlinks, Access!Unlink

LEMMA EffectImplements ==
    ASSUME RowsOK, Effect
    PROVE  Access!Next \/ UNCHANGED Access!vars
<1>1. CASE UNCHANGED rows
  BY <1>1, SameRows
<1>2. ASSUME NEW e \in Emails, Registers(e) \/ (Changes(e) /\ owner' = owner) \/ Unlinks(e)
      PROVE  Access!Next \/ UNCHANGED Access!vars
  <2>1. CASE Changes(e) /\ owner' = owner
    <3>1. e \in opened /\ opened' = opened /\ owner' = owner
      BY <2>1, ChangesShown
    <3>2. CASE secured' = secured
      BY <3>1, <3>2 DEF Access!vars
    <3>3. CASE secured' = secured \cup {e}
      BY <3>1, <3>3 DEF Access!SetPassword, Access!Next
    <3>4. QED BY <2>1, <3>2, <3>3, ChangesShown
  <2>2. QED
    BY <1>2, <2>1, RegistersImplements, UnlinksImplements DEF Access!Next
<1>3. ASSUME NEW i \in Identities, Adopts(i)
      PROVE  Access!Next
  <2>1. i.email \in Emails /\ i.subject \in Subjects
    BY IdentitiesAssumption DEF Identity
  <2>2. QED BY <1>3, <2>1, AdoptsImplements DEF Access!Next
<1>4. ASSUME NEW e \in Emails, NEW s \in Subjects, Links(e, s)
      PROVE  Access!Next
  BY <1>4, LinksImplements DEF Access!Next
<1>5. QED BY <1>1, <1>2, <1>3, <1>4 DEF Effect

\* However the checks and writes of requests overlap, accounts are opened and
\* gain and lose their ways in as AccountAccess promises.
THEOREM Implementation == Spec => ImplementsAccountAccess
<1>1. Init => Access!Init
  BY DEF Init, Access!Init, opened, secured, Exists
<1>2. ASSUME IInv, [Next]_vars
      PROVE  [Access!Next]_(Access!vars)
  <2>1. CASE UNCHANGED vars
    BY <2>1, SameRows DEF vars
  <2>2. CASE Next
    <3>1. RowsOK
      BY <1>2 DEF IInv, TypeOK, RowsOK
    <3>2. QED BY <1>2, <2>2, <3>1, StepEffect, EffectImplements
  <2>3. QED BY <1>2, <2>1, <2>2
<1>3. QED BY <1>1, <1>2, Invariance, PTL DEF Spec, ImplementsAccountAccess, Access!Spec

\* The script makes one superadmin and nothing else makes any, whatever other
\* requests do between its look for one, its look at the address and its
\* creation of the row, as long as no run of it creates a row during another
\* (seed-superadmin).
THEOREM SingleSuperadmin == Spec => []OneSuperadminUnlessRaced
<1>1. SeedInv => OneSuperadminUnlessRaced
  <2> SUFFICES ASSUME SeedInv, ~raced PROVE Cardinality(Superadmins) <= 1
    BY DEF OneSuperadminUnlessRaced, OneSuperadmin
  <2>1. CASE Superadmins = {}
    BY <2>1, FS_EmptySet
  <2>2. CASE Superadmins # {}
    <3>1. PICK e \in Superadmins : Superadmins = {e}
      BY <2>2 DEF SeedInv
    <3>2. Cardinality({e}) = 1
      BY FS_Singleton
    <3>3. QED BY <3>1, <3>2
  <2>3. QED BY <2>1, <2>2
<1>2. QED BY <1>1, SeedInit, SeedNext, Invariance, PTL DEF Spec

\* Run one at a time, the script makes one superadmin for good.
SeededApart == \A q, r \in Seeds : q = r

THEOREM OneSuperadminWhenSeededApart == Spec /\ []SeededApart => []OneSuperadmin
<1>1. Init => ~raced
  BY DEF Init
<1>2. ASSUME ~raced, SeededApart, [Next]_vars
      PROVE  ~raced'
  <2>1. CASE UNCHANGED vars
    BY <1>2, <2>1 DEF vars
  <2>2. ASSUME NEW r \in Requests, SeedCommit(r)
        PROVE  Seeds = {r}
    BY <1>2, <2>2 DEF SeededApart, Seeds, SeedCommit, At
  <2>3. QED BY <1>2, <2>1, <2>2, RacedOnlyBySeeding
<1>3. ~raced /\ OneSuperadminUnlessRaced => OneSuperadmin
  BY DEF OneSuperadminUnlessRaced
<1>4. QED BY <1>1, <1>2, <1>3, SingleSuperadmin, PTL DEF Spec
=============================================================================

------------------------------ MODULE Accounts ------------------------------
(***************************************************************************)
(* How accounts come to be and how people get into them: registration with *)
(* a password, the first login with Google, the creation of administrators *)
(* and of the superadmin, linking a Google identity to an account and      *)
(* taking it away again.  Every handler reads, awaits and then writes in a *)
(* transaction of its own; the database's unique keys are all that orders  *)
(* two of them.  An address belongs to at most one account and none is     *)
(* ever changed or deleted, so an address stands for its account.          *)
(***************************************************************************)
EXTENDS Naturals, FiniteSets

CONSTANTS
    Emails,       \* addresses
    Subjects,     \* Google's ids of its accounts
    Identities,   \* what verified Google tokens may say
    SeedEmails,   \* the addresses the seeding script may be configured with
    Requests,     \* slots for the requests being served at one time
    None          \* no account, no identity

Identity == [subject : Subjects, email : Emails, authoritative : BOOLEAN]

ASSUME IdentitiesAssumption == Identities \subseteq Identity
ASSUME SeedAssumption == SeedEmails \subseteq Emails

VARIABLES
    user,      \* the account of an address
    owner,     \* the account that a Google identity is linked to
    request,   \* what each request being served is doing
    \* What happened; not part of the program.
    raced      \* a run of the seeding script created its account during another run

rows == <<user, owner>>
vars == <<rows, request, raced>>

Roles == {"CUSTOMER", "ADMIN", "SUPERADMIN"}

\* `password': it has a local password.  `verified': who vouched for the
\* address, "no" while emailVerifiedAt is NULL.
User == [role : Roles, active : BOOLEAN, password : BOOLEAN,
         verified : {"no", "mail", "google", "script"}]

ASSUME NoneAssumption == None \notin Emails \cup Identity \cup User

\* A request for the account `email', with a token that says `identity'.  `role'
\* is the one the account must have or will get; `unverified' what was read.
Idle == [at |-> "idle", email |-> None, identity |-> None, role |-> "CUSTOMER",
         unverified |-> FALSE]

At(r, step) == request[r].at = step
Becomes(r, req) == request' = [request EXCEPT ![r] = req]
Goto(r, req) == Becomes(r, req) /\ UNCHANGED raced
Finish(r) == Goto(r, Idle)

Exists(e) == user[e] # None
Linked(e) == {s \in Subjects : owner[s] = e}
Superadmins == {e \in Emails : Exists(e) /\ user[e].role = "SUPERADMIN"}

Init ==
    /\ user = [e \in Emails |-> None]
    /\ owner = [s \in Subjects |-> None]
    /\ request = [r \in Requests |-> Idle]
    /\ raced = FALSE

(***************************************************************************)
(* Registration, and the creation of an administrator                      *)
(***************************************************************************)

\* Only a superadmin creates administrators.
RegisterRead(r, e, role) ==
    /\ At(r, "idle")
    /\ role = "ADMIN" => Superadmins # {}
    /\ ~Exists(e)
    /\ Goto(r, [Idle EXCEPT !.at = "register", !.email = e, !.role = role])
    /\ UNCHANGED rows

\* The unique address decides between requests that have all found it free.
Insert(e, row) == user' = IF Exists(e) THEN user ELSE [user EXCEPT ![e] = row]

RegisterCommit(r) ==
    /\ At(r, "register")
    /\ Insert(request[r].email, [role |-> request[r].role, active |-> TRUE,
                                 password |-> TRUE, verified |-> "no"])
    /\ Finish(r)
    /\ UNCHANGED owner

(***************************************************************************)
(* The seeding script                                                      *)
(***************************************************************************)

\* The runs of the script under way.
Seeds == {r \in Requests : request[r].at \in {"seed", "seedCreate"}}

\* Mutant: the script looks for its own address only.
SeedLookOwn(r, e) ==
    /\ At(r, "idle")
    /\ e \notin Superadmins
    /\ Goto(r, [Idle EXCEPT !.at = "seed", !.email = e, !.role = "SUPERADMIN"])
    /\ UNCHANGED rows

\* It goes on only if there is no superadmin at all.  Nothing keeps another run,
\* perhaps with another address, from finding the same.
SeedLook(r, e) ==
    /\ At(r, "idle")
    /\ Superadmins = {}
    /\ Goto(r, [Idle EXCEPT !.at = "seed", !.email = e, !.role = "SUPERADMIN"])
    /\ UNCHANGED rows

SeedRead(r) ==
    /\ At(r, "seed")
    /\ IF Exists(request[r].email) THEN Finish(r)
       ELSE Goto(r, [request[r] EXCEPT !.at = "seedCreate"])
    /\ UNCHANGED rows

SeedCommit(r) ==
    /\ At(r, "seedCreate")
    /\ Insert(request[r].email, [role |-> "SUPERADMIN", active |-> TRUE,
                                 password |-> TRUE, verified |-> "script"])
    /\ raced' = (raced \/ (~Exists(request[r].email) /\ Seeds # {r}))
    /\ Becomes(r, Idle)
    /\ UNCHANGED owner

(***************************************************************************)
(* Logging in with Google                                                  *)
(***************************************************************************)

Admits(role, e) ==
    /\ user[e].active
    /\ IF role = "ADMIN" THEN user[e].role # "CUSTOMER" ELSE user[e].role = role

\* The account is judged as it was read together with the identity.
Found(r, req, e) ==
    IF Admits(req.role, e) THEN Goto(r, [req EXCEPT !.at = "open", !.email = e])
                           ELSE Finish(r)

LoginFind(r, i, role) ==
    LET req == [Idle EXCEPT !.identity = i, !.role = role]
        e == owner[i.subject]
    IN
    /\ At(r, "idle")
    /\ IF e # None THEN Found(r, req, e)
       ELSE role = "CUSTOMER" /\ Goto(r, [req EXCEPT !.at = "address"])
    /\ UNCHANGED rows

\* Only a free address, and one that Google answers for, makes an account.  A
\* conflict is a state of its own for the sake of the properties.
LoginReadAddress(r) ==
    LET i == request[r].identity IN
    /\ At(r, "address")
    /\ CASE Exists(i.email) -> Goto(r, [request[r] EXCEPT !.at = "conflict"])
         [] ~Exists(i.email) /\ i.authoritative ->
                Goto(r, [request[r] EXCEPT !.at = "create"])
         [] OTHER -> Finish(r)
    /\ UNCHANGED rows

Conflict(i) == Exists(i.email) \/ owner[i.subject] # None

Customer == [role |-> "CUSTOMER", active |-> TRUE, password |-> FALSE,
             verified |-> "google"]

\* Mutants: an account with the address is taken for the identity's own; the
\* account is created when its identity has been stored.
AdoptOrCreate(r) ==
    LET i == request[r].identity IN
    /\ At(r, "create")
    /\ owner[i.subject] = None
    /\ Insert(i.email, Customer)
    /\ owner' = [owner EXCEPT ![i.subject] = i.email]
    /\ Finish(r)

LinkThenCreate(r) ==
    LET i == request[r].identity IN
    /\ At(r, "create")
    /\ ~Conflict(i)
    /\ owner' = [owner EXCEPT ![i.subject] = i.email]
    /\ Goto(r, [Idle EXCEPT !.at = "register", !.email = i.email])
    /\ UNCHANGED user

CreateCustomer(r) ==
    LET i == request[r].identity IN
    /\ At(r, "create")
    /\ ~Conflict(i)
    /\ Insert(i.email, Customer)
    /\ owner' = [owner EXCEPT ![i.subject] = i.email]
    /\ Finish(r)

\* Mutant: the loser of the creation is refused at once.
CreateRefused(r) ==
    /\ At(r, "create")
    /\ Conflict(request[r].identity)
    /\ Goto(r, [request[r] EXCEPT !.at = "conflict"])
    /\ UNCHANGED rows

CreateConflicts(r) ==
    /\ At(r, "create")
    /\ Conflict(request[r].identity)
    /\ Goto(r, [request[r] EXCEPT !.at = "findAgain"])
    /\ UNCHANGED rows

LoginFindAgain(r) ==
    LET e == owner[request[r].identity.subject] IN
    /\ At(r, "findAgain")
    /\ IF e # None THEN Found(r, request[r], e)
       ELSE Goto(r, [request[r] EXCEPT !.at = "conflict"])
    /\ UNCHANGED rows

\* The session of the account found; AuthSessions has what it does.
LoginOpen(r) ==
    /\ At(r, "open")
    /\ Finish(r)
    /\ UNCHANGED rows

(***************************************************************************)
(* Linking and unlinking, as the account's signed-in owner                 *)
(***************************************************************************)

LinkRead(r, e, i) ==
    /\ At(r, "idle")
    /\ Exists(e) /\ user[e].active
    /\ Goto(r, [Idle EXCEPT !.at = "link", !.email = e, !.identity = i,
                            !.unverified = user[e].verified = "no"])
    /\ UNCHANGED rows

\* An identity that is linked already may still vouch for the account's address.
LinkFindIdentity(r) ==
    LET req == request[r]
        o == owner[req.identity.subject]
    IN
    /\ At(r, "link")
    /\ CASE o = req.email -> Goto(r, [req EXCEPT !.at = "vouch"])
         [] o = None /\ req.identity.email = req.email ->
                Goto(r, [req EXCEPT !.at = "linkOnly"])
         [] OTHER -> Finish(r)
    /\ UNCHANGED rows

LinkFindOther(r) ==
    /\ At(r, "linkOnly")
    /\ IF Linked(request[r].email) # {} THEN Finish(r)
       ELSE Goto(r, [request[r] EXCEPT !.at = "linkWrite"])
    /\ UNCHANGED rows

\* The account verified by the time of the write is verified anew.
Verify(e) == user' = [user EXCEPT ![e].verified = "google"]

\* Mutant: the identity is upserted, whoever has got it meanwhile.
LinkCommitUpserts(r) ==
    LET req == request[r] IN
    /\ At(r, "linkWrite")
    /\ owner' = [owner EXCEPT ![req.identity.subject] = req.email]
    /\ IF req.identity.authoritative /\ req.unverified
       THEN Verify(req.email) ELSE UNCHANGED user
    /\ Finish(r)

LinkCommit(r) ==
    LET req == request[r] IN
    /\ At(r, "linkWrite")
    /\ IF owner[req.identity.subject] # None THEN UNCHANGED rows
       ELSE /\ owner' = [owner EXCEPT ![req.identity.subject] = req.email]
            /\ IF req.identity.authoritative /\ req.unverified
               THEN Verify(req.email) ELSE UNCHANGED user
    /\ Finish(r)

\* Mutant: that the identity is the account's own is thought to be enough.
VouchForOwn(r) ==
    LET req == request[r] IN
    /\ At(r, "vouch")
    /\ IF req.unverified /\ req.identity.authoritative THEN Verify(req.email)
       ELSE UNCHANGED user
    /\ Finish(r)
    /\ UNCHANGED owner

\* The address of a Google account may have changed since it was linked.
Vouch(r) ==
    LET req == request[r] IN
    /\ At(r, "vouch")
    /\ IF req.unverified /\ req.identity.authoritative
                         /\ req.identity.email = req.email
       THEN Verify(req.email) ELSE UNCHANGED user
    /\ Finish(r)
    /\ UNCHANGED owner

\* Mutant: the confirmed address counts as a way in.
UnlinkReadVerified(r, e) ==
    /\ At(r, "idle")
    /\ Exists(e) /\ user[e].active
    /\ Linked(e) # {}
    /\ user[e].password \/ user[e].verified # "no"
    /\ Goto(r, [Idle EXCEPT !.at = "unlink", !.email = e])
    /\ UNCHANGED rows

\* The password must exist and be the one given.
UnlinkRead(r, e) ==
    /\ At(r, "idle")
    /\ Exists(e) /\ user[e].active
    /\ Linked(e) # {}
    /\ user[e].password
    /\ Goto(r, [Idle EXCEPT !.at = "unlink", !.email = e])
    /\ UNCHANGED rows

\* Every identity the account has by now.
UnlinkCommit(r) ==
    /\ At(r, "unlink")
    /\ owner' = [s \in Subjects |-> IF owner[s] = request[r].email THEN None
                                    ELSE owner[s]]
    /\ Finish(r)
    /\ UNCHANGED user

(***************************************************************************)
(* What other components do to an account                                  *)
(***************************************************************************)

\* A first password, set by the owner or with a reset link.  This and the next
\* may still commit when the account has been blocked.
SetPassword(e) ==
    /\ Exists(e) /\ ~user[e].password
    /\ user' = [user EXCEPT ![e].password = TRUE]
    /\ UNCHANGED <<owner, request, raced>>

ConfirmAddress(e) ==
    /\ Exists(e) /\ user[e].verified = "no"
    /\ user' = [user EXCEPT ![e].verified = "mail"]
    /\ UNCHANGED <<owner, request, raced>>

\* Blocking and unblocking; a superadmin is beyond both.
Govern(e) ==
    /\ Exists(e) /\ user[e].role # "SUPERADMIN"
    /\ user' = [user EXCEPT ![e].active = ~@]
    /\ UNCHANGED <<owner, request, raced>>

\* A refused statement, the end of the process, or the answer to a conflict.
Abort(r) ==
    /\ request[r] # Idle
    /\ Finish(r)
    /\ UNCHANGED rows

Login(r) ==
    \/ \E i \in Identities, role \in {"CUSTOMER", "ADMIN"} : LoginFind(r, i, role)
    \/ LoginReadAddress(r) \/ CreateCustomer(r) \/ CreateConflicts(r)
    \/ LoginFindAgain(r) \/ LoginOpen(r)

Linking(r) ==
    \/ \E e \in Emails, i \in Identities : LinkRead(r, e, i)
    \/ LinkFindIdentity(r) \/ LinkFindOther(r) \/ LinkCommit(r) \/ Vouch(r)
    \/ (\E e \in Emails : UnlinkRead(r, e)) \/ UnlinkCommit(r)

Creation(r) ==
    \/ \E e \in Emails, role \in {"CUSTOMER", "ADMIN"} : RegisterRead(r, e, role)
    \/ RegisterCommit(r)
    \/ (\E e \in SeedEmails : SeedLook(r, e)) \/ SeedRead(r) \/ SeedCommit(r)

Next ==
    \/ \E r \in Requests : Login(r) \/ Linking(r) \/ Creation(r) \/ Abort(r)
    \/ \E e \in Emails : SetPassword(e) \/ ConfirmAddress(e) \/ Govern(e)

Spec == Init /\ [][Next]_vars

(***************************************************************************)
(* Properties                                                              *)
(***************************************************************************)

\* Rows and requests keep their shape, and nothing is linked to an account that
\* does not exist.
TypeOK ==
    /\ user \in [Emails -> User \cup {None}]
    /\ owner \in [Subjects -> Emails \cup {None}]
    /\ \A s \in Subjects : owner[s] # None => Exists(owner[s])
    /\ request \in [Requests ->
          [at : {"idle", "register", "seed", "seedCreate", "address", "create",
                 "findAgain", "conflict", "open", "link", "linkOnly", "linkWrite", "vouch",
                 "unlink"},
           email : Emails \cup {None}, identity : Identities \cup {None},
           role : Roles, unverified : BOOLEAN]]
    /\ raced \in BOOLEAN

\* Whoever has an account can get into it: it has a password or an identity of
\* Google's.  What an unlinking has judged still holds when it deletes.
AlwaysAWayIn ==
    \A e \in Emails : Exists(e) => user[e].password \/ Linked(e) # {}

\* An address counts as verified by Google only if Google answers for that very
\* address, whatever addresses the linked identity had before or has since.
VerifiedByItsGoogle ==
    \A e \in Emails : Exists(e) /\ user[e].verified = "google"
        => \E i \in Identities : i.email = e /\ i.authoritative

\* An account that exists gets an identity only by linking: a login with Google
\* never attaches itself to an account somebody registered while it was looking.
OnlyOwnersLink ==
    [][\A s \in Subjects, e \in Emails :
          Exists(e) /\ owner[s] # e /\ owner'[s] = e
          => \E r \in Requests : At(r, "linkWrite") /\ request[r].email = e
                                  /\ request[r].identity.subject = s]_vars

\* The loser of two first logins of one identity gets into the winner's account:
\* of the logins that reach the creation only those are told of a conflict whose
\* identity belongs to nobody.
LosersGetIn ==
    [][\A r \in Requests :
          /\ request[r].at \in {"create", "findAgain"}
          /\ request'[r].at = "conflict"
          => owner[request[r].identity.subject] = None]_vars

\* The script makes one superadmin, whatever it is configured with later and
\* whatever others do between its steps, unless two runs of it overlap: both may
\* have found none, and with two addresses both create one.
OneSuperadmin == Cardinality(Superadmins) <= 1
OneSuperadminUnlessRaced == ~raced => OneSuperadmin

\* The rows as the holders of accounts see them.
opened == {e \in Emails : Exists(e)}
secured == {e \in opened : user[e].password}

Access == INSTANCE AccountAccess
          WITH Accounts <- Emails, Identities <- Subjects, opened <- opened,
               secured <- secured, owner <- owner

\* Registrations, first logins, links and unlinkings, however their checks and
\* writes overlap, implement AccountAccess: no identity changes hands but by way
\* of nobody, and what an unlinking leaves is an account with a password.
ImplementsAccountAccess == Access!Spec
=============================================================================

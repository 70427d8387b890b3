----------------------------- MODULE MailTokens -----------------------------
(***************************************************************************)
(* The one-time tokens mailed to the owner of one account: the links that  *)
(* reset its password (kind = "reset") and that verify its email address   *)
(* (kind = "verify").                                                      *)
(*                                                                         *)
(* Issuing a token takes four awaits: look for a recent token, insert the  *)
(* new row, hand the mail to the transport, retire the other tokens.  The  *)
(* two services do the same steps, but differ in what happens when the     *)
(* last one fails.  Confirming reads the row, then claims it in a          *)
(* transaction that also retires every other token.                        *)
(***************************************************************************)
EXTENDS Naturals, FiniteSets

CONSTANTS
    Kinds,       \* the kinds of tokens to consider: "reset", "verify"
    Tokens,      \* tokens that may be generated
    Issuers,     \* slots for requests that ask for a mail
    Confirmers,  \* slots for requests that present a token
    Ttl,         \* lifetime of a token
    Cooldown,    \* AUTH_EMAIL_ACTION_COOLDOWN_SECONDS
    MaxClock,    \* bound on the clock
    None

ASSUME KindsAssumption == Kinds \subseteq {"reset", "verify"}
ASSUME NoneAssumption == None \notin Tokens
ASSUME TimesAssumption == Ttl \in Nat \ {0} /\ Cooldown \in Nat /\ MaxClock \in Nat

VARIABLES
    kind,       \* which of the two services and their table
    token,      \* the rows: "absent", "unused", "used" or "deleted"
    createdAt,  \* when each was inserted
    expiresAt,
    clock,
    issuer,     \* the step of each issuing request, its token and its `now'
    confirmer,  \* the step of each confirming request, its token and its `now'
    verified,   \* user.emailVerifiedAt is set; stays FALSE for resets
    \* What happened; not columns of the program.
    delivered,  \* tokens whose mail reached the transport
    abandoned,  \* tokens whose issuing request ended before its last step
    confirmed   \* how often each token brought about its effect

rows == <<token, createdAt, expiresAt>>
history == <<delivered, abandoned, confirmed>>
vars == <<kind, rows, clock, issuer, confirmer, verified, history>>

Idle == [step |-> "idle", token |-> None, now |-> 0]

Init ==
    /\ kind \in Kinds
    /\ token = [t \in Tokens |-> "absent"]
    /\ createdAt = [t \in Tokens |-> 0]
    /\ expiresAt = [t \in Tokens |-> 0]
    /\ clock = 0
    /\ issuer = [i \in Issuers |-> Idle]
    /\ confirmer = [c \in Confirmers |-> Idle]
    /\ verified = FALSE
    /\ delivered = {}
    /\ abandoned = {}
    /\ confirmed = [t \in Tokens |-> 0]

Unused == {t \in Tokens : token[t] = "unused"}

(***************************************************************************)
(* Issuing                                                                 *)
(***************************************************************************)

\* The latest unused, unexpired token stands in the way if it is recent.
CoolingDown ==
    LET valid == {t \in Unused : expiresAt[t] > clock}
        latest == {t \in valid : \A u \in valid : createdAt[u] <= createdAt[t]}
    IN \E t \in latest : createdAt[t] + Cooldown > clock

RequestRead(i) ==
    /\ issuer[i] = Idle
    /\ ~verified
    /\ ~CoolingDown
    /\ issuer' = [issuer EXCEPT ![i] = [step |-> "create", token |-> None, now |-> clock]]
    /\ UNCHANGED <<rows, clock, kind, confirmer, verified, history>>

\* Mutant: the older links are retired before the new one is on its way.
CreateTokenRetiringOthers(i, t) ==
    /\ issuer[i].step = "create"
    /\ token[t] = "absent"
    /\ token' = [u \in Tokens |-> IF u = t THEN "unused"
                                  ELSE IF u \in Unused THEN "used" ELSE token[u]]
    /\ createdAt' = [createdAt EXCEPT ![t] = clock]
    /\ expiresAt' = [expiresAt EXCEPT ![t] = issuer[i].now + Ttl]
    /\ issuer' = [issuer EXCEPT ![i] = [step |-> "mail", token |-> t, now |-> 0]]
    /\ UNCHANGED <<clock, kind, confirmer, verified, history>>

CreateToken(i, t) ==
    /\ issuer[i].step = "create"
    /\ token[t] = "absent"
    /\ token' = [token EXCEPT ![t] = "unused"]
    /\ createdAt' = [createdAt EXCEPT ![t] = clock]
    /\ expiresAt' = [expiresAt EXCEPT ![t] = issuer[i].now + Ttl]
    /\ issuer' = [issuer EXCEPT ![i] = [step |-> "mail", token |-> t, now |-> 0]]
    /\ UNCHANGED <<clock, kind, confirmer, verified, history>>

Goto(i, step) == issuer' = [issuer EXCEPT ![i].step = step]
EndIssue(i) == issuer' = [issuer EXCEPT ![i] = Idle]

MailSent(i) ==
    /\ issuer[i].step = "mail"
    /\ delivered' = delivered \cup {issuer[i].token}
    /\ Goto(i, "retire")
    /\ UNCHANGED <<rows, clock, kind, confirmer, verified, abandoned, confirmed>>

MailFails(i) ==
    /\ issuer[i].step = "mail"
    /\ Goto(i, "delete")
    /\ UNCHANGED <<rows, clock, kind, confirmer, verified, history>>

\* Mutant: only older tokens are retired, none created at the same time.
RetireOlder(i) ==
    /\ issuer[i].step = "retire"
    /\ token' = [t \in Tokens |->
           IF t \in Unused /\ createdAt[t] < createdAt[issuer[i].token]
           THEN "used" ELSE token[t]]
    /\ EndIssue(i)
    /\ UNCHANGED <<createdAt, expiresAt, clock, kind, confirmer, verified, history>>

RetireOthers(i) ==
    /\ issuer[i].step = "retire"
    /\ token' = [t \in Tokens |-> IF t \in Unused \ {issuer[i].token}
                                  THEN "used" ELSE token[t]]
    /\ EndIssue(i)
    /\ UNCHANGED <<createdAt, expiresAt, clock, kind, confirmer, verified, history>>

\* Mutant: the update is part of the try block in both services.
RetireFailsAsMail(i) ==
    /\ issuer[i].step = "retire"
    /\ Goto(i, "delete")
    /\ UNCHANGED <<rows, clock, kind, confirmer, verified, history>>

\* The update is part of the try block of requestReset, so that its failure
\* is handled as a failed delivery; EmailVerificationService.request has it
\* after the try block.
RetireFails(i) ==
    /\ issuer[i].step = "retire"
    /\ IF kind = "reset"
       THEN Goto(i, "delete") /\ UNCHANGED abandoned
       ELSE EndIssue(i) /\ abandoned' = abandoned \cup {issuer[i].token}
    /\ UNCHANGED <<rows, clock, kind, confirmer, verified, delivered, confirmed>>

DeleteToken(i) ==
    /\ issuer[i].step = "delete"
    /\ token' = IF issuer[i].token \in Unused
                THEN [token EXCEPT ![issuer[i].token] = "deleted"]
                ELSE token
    /\ EndIssue(i)
    /\ UNCHANGED <<createdAt, expiresAt, clock, kind, confirmer, verified, history>>

\* The process dies, or the database refuses a statement, between two steps.
IssuerStops(i) ==
    /\ issuer[i].step \in {"create", "mail", "retire", "delete"}
    /\ EndIssue(i)
    /\ abandoned' = abandoned \cup ({issuer[i].token} \ {None})
    /\ UNCHANGED <<rows, clock, kind, confirmer, verified, delivered, confirmed>>

(***************************************************************************)
(* Confirming                                                              *)
(***************************************************************************)

EndConfirm(c) == confirmer' = [confirmer EXCEPT ![c] = Idle]

ConfirmRead(c, t) ==
    /\ confirmer[c] = Idle
    /\ t \in delivered
    /\ t \in Unused
    /\ expiresAt[t] > clock
    /\ confirmer' = [confirmer EXCEPT ![c] = [step |-> "claim", token |-> t, now |-> clock]]
    /\ UNCHANGED <<rows, clock, kind, issuer, verified, history>>

\* Mutant: the claim finds the row by its id alone.
ClaimableById(c) == confirmer[c].step = "claim"

Claimable(c) == /\ confirmer[c].token \in Unused
                /\ expiresAt[confirmer[c].token] > confirmer[c].now

\* Mutants: only the presented token is retired; or a reset, having proved the
\* ownership of the mailbox, marks the address as verified.
ClaimOne(c) ==
    LET t == confirmer[c].token IN
    /\ confirmer[c].step = "claim"
    /\ Claimable(c)
    /\ token' = [token EXCEPT ![t] = "used"]
    /\ verified' = (kind = "verify")
    /\ confirmed' = [confirmed EXCEPT ![t] = @ + 1]
    /\ EndConfirm(c)
    /\ UNCHANGED <<createdAt, expiresAt, clock, kind, issuer, delivered, abandoned>>

ClaimVerifies(c) ==
    LET t == confirmer[c].token IN
    /\ confirmer[c].step = "claim"
    /\ Claimable(c)
    /\ token' = [u \in Tokens |-> IF u \in Unused THEN "used" ELSE token[u]]
    /\ verified' = TRUE
    /\ confirmed' = [confirmed EXCEPT ![t] = @ + 1]
    /\ EndConfirm(c)
    /\ UNCHANGED <<createdAt, expiresAt, clock, kind, issuer, delivered, abandoned>>

\* One transaction: claim the token, take effect, retire the other tokens.
Claim(c) ==
    LET t == confirmer[c].token IN
    /\ confirmer[c].step = "claim"
    /\ Claimable(c)
    /\ token' = [u \in Tokens |-> IF u \in Unused THEN "used" ELSE token[u]]
    /\ verified' = (kind = "verify")
    /\ confirmed' = [confirmed EXCEPT ![t] = @ + 1]
    /\ EndConfirm(c)
    /\ UNCHANGED <<createdAt, expiresAt, clock, kind, issuer, delivered, abandoned>>

ClaimFails(c) ==
    /\ confirmer[c].step = "claim"
    /\ EndConfirm(c)
    /\ UNCHANGED <<rows, clock, kind, issuer, verified, history>>

\* A password change, or setting a local password, retires the reset tokens.
RetiredElsewhere ==
    /\ kind = "reset"
    /\ token' = [t \in Tokens |-> IF t \in Unused THEN "used" ELSE token[t]]
    /\ UNCHANGED <<createdAt, expiresAt, clock, kind, issuer, confirmer, verified, history>>

Tick ==
    /\ clock < MaxClock
    /\ clock' = clock + 1
    /\ UNCHANGED <<rows, kind, issuer, confirmer, verified, history>>

Next ==
    \/ \E i \in Issuers : \/ RequestRead(i)
                          \/ \E t \in Tokens : CreateToken(i, t)
                          \/ MailSent(i)
                          \/ MailFails(i)
                          \/ RetireOthers(i)
                          \/ RetireFails(i)
                          \/ DeleteToken(i)
                          \/ IssuerStops(i)
    \/ \E c \in Confirmers : \/ \E t \in Tokens : ConfirmRead(c, t)
                             \/ Claim(c)
                             \/ ClaimFails(c)
    \/ RetiredElsewhere
    \/ Tick

Spec == Init /\ [][Next]_vars

-----------------------------------------------------------------------------
(* Properties *)

Step(states) == [step : states, token : Tokens \cup {None}, now : Nat]

\* Rows, requests and history hold values of their types; a reset verifies no
\* email address.
TypeOK ==
    /\ kind \in Kinds
    /\ token \in [Tokens -> {"absent", "unused", "used", "deleted"}]
    /\ createdAt \in [Tokens -> Nat]
    /\ expiresAt \in [Tokens -> Nat]
    /\ clock \in Nat
    /\ issuer \in [Issuers -> Step({"idle", "create", "mail", "retire", "delete"})]
    /\ confirmer \in [Confirmers -> Step({"idle", "claim"})]
    /\ verified \in BOOLEAN
    /\ kind = "reset" => ~verified
    /\ delivered \subseteq Tokens
    /\ abandoned \subseteq Tokens
    /\ confirmed \in [Tokens -> Nat]

\* A link works once, however many requests present it at the same time.
TokenWorksOnce == \A t \in Tokens : confirmed[t] <= 1

\* The rows as the owner of the mailbox sees them, expiry apart.
linkState == [t \in Tokens |-> CASE token[t] = "absent" -> "absent"
                               [] token[t] = "unused" -> "valid"
                               [] OTHER -> "spent"]

OneTime == INSTANCE OneTimeLinks
           WITH Links <- Tokens, link <- linkState, effects <- confirmed

\* All the issuing, retiring, deleting and confirming above, however it
\* interleaves, fails or breaks off, implements OneTimeLinks: a link that was
\* retired by a newer mail, by a password change or by another confirmation
\* never takes effect again, and one that takes effect retires the others.
ImplementsOneTimeLinks == OneTime!Spec

InProgress(t) == \E i \in Issuers : issuer[i].token = t

\* Two tokens are valid side by side only until the request that issued one of
\* them retires the other, or if that request broke off.
OneTokenWhenQuiet ==
    \A t, u \in Unused : \/ t = u
                         \/ \E x \in {t, u} : InProgress(x) \/ x \in abandoned

\* The links in the mailbox that work, their expiry apart.
Working == delivered \cap Unused

\* Whoever has a verification link that works keeps one, whatever becomes of the
\* mails that are requested after it: they may fail at every step.  The exception
\* is two requests that retire each other's links, of which the later finds its
\* own link retired.
IssuingKeepsALink ==
    [][(kind = "verify" /\ issuer' # issuer /\ Working # {}) =>
          \/ Working' # {}
          \/ \E i \in Issuers : issuer[i].step = "retire" /\ issuer[i].token \notin Unused
      ]_<<issuer, token, delivered, kind>>

\* A token is deleted because its mail could not be sent.
OnlyUndeliveredIsDeleted == \A t \in delivered : token[t] # "deleted"
=============================================================================

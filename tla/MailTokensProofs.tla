-------------------------- MODULE MailTokensProofs --------------------------
(***************************************************************************)
(* Proofs, for any number of tokens and requests, of what the run of       *)
(* MCMailTokens checks on a small instance.                                *)
(***************************************************************************)
EXTENDS MailTokens, TLAPS

Issuing == {"create", "mail", "retire", "delete"}

\* A request that has inserted a token, or claims one, knows which.
KnowsToken ==
    /\ \A i \in Issuers : IF issuer[i].step \in {"idle", "create"}
                          THEN issuer[i].token = None
                          ELSE issuer[i].token \in Tokens
    /\ \A c \in Confirmers : confirmer[c].step = "claim"
                             => confirmer[c].token \in Tokens

\* A token that took effect is used up.
UsedUp == \A t \in Tokens : /\ confirmed[t] <= 1
                            /\ confirmed[t] > 0 => token[t] = "used"

IInv == TypeOK /\ KnowsToken /\ UsedUp /\ OneTokenWhenQuiet

(***************************************************************************)
(* What a step may do to the links                                         *)
(***************************************************************************)

Issues(t) ==
    /\ token[t] = "absent"
    /\ token' = [token EXCEPT ![t] = "unused"]
    /\ confirmed' = confirmed

Retires(S, state) ==
    /\ S \subseteq Unused
    /\ state \in {"used", "deleted"}
    /\ token' = [t \in Tokens |-> IF t \in S THEN state ELSE token[t]]
    /\ confirmed' = confirmed

Uses(t) ==
    /\ t \in Unused
    /\ token' = [u \in Tokens |-> IF u \in Unused THEN "used" ELSE token[u]]
    /\ confirmed' = [confirmed EXCEPT ![t] = @ + 1]

Effect ==
    \/ UNCHANGED <<token, confirmed>>
    \/ \E t \in Tokens : Issues(t) \/ Uses(t)
    \/ \E S \in SUBSET Tokens, state \in {"used", "deleted"} : Retires(S, state)

\* Deleting a token retires it alone, or nothing if it is not unused any more.
LEMMA DeleteEffect ==
    ASSUME IInv, NEW i \in Issuers, DeleteToken(i)
    PROVE  Effect
<1> DEFINE t == issuer[i].token
<1>1. token \in [Tokens -> {"absent", "unused", "used", "deleted"}]
  BY DEF IInv, TypeOK
<1>2. confirmed' = confirmed
  BY DEF DeleteToken, history
<1>3. CASE t \in Unused
  <2>1. token' = [u \in Tokens |-> IF u \in {t} THEN "deleted" ELSE token[u]]
    BY <1>1, <1>3 DEF DeleteToken, Unused
  <2>2. Retires({t}, "deleted")
    BY <1>2, <1>3, <2>1 DEF Retires
  <2>3. {t} \in SUBSET Tokens
    BY <1>3 DEF Unused
  <2>4. QED BY <2>2, <2>3 DEF Effect
<1>4. CASE t \notin Unused
  BY <1>2, <1>4 DEF DeleteToken, Effect
<1>5. QED BY <1>3, <1>4

LEMMA StepEffect ==
    ASSUME IInv, Next
    PROVE  Effect
<1>1. ASSUME NEW i \in Issuers, NEW t \in Tokens, CreateToken(i, t)
      PROVE  Effect
  <2>1. Issues(t)
    BY <1>1 DEF CreateToken, Issues, history
  <2>2. QED BY <2>1 DEF Effect
<1>2. ASSUME NEW i \in Issuers, RetireOthers(i)
      PROVE  Effect
  <2> DEFINE S == Unused \ {issuer[i].token}
  <2>1. Retires(S, "used") /\ S \in SUBSET Tokens
    BY <1>2 DEF RetireOthers, Retires, Unused, history
  <2>2. QED BY <2>1 DEF Effect
<1>3. ASSUME NEW c \in Confirmers, Claim(c)
      PROVE  Effect
  <2>1. Uses(confirmer[c].token) /\ confirmer[c].token \in Tokens
    BY <1>3 DEF Claim, Claimable, Uses, Unused
  <2>2. QED BY <2>1 DEF Effect
<1>4. CASE RetiredElsewhere
  <2>1. Retires(Unused, "used") /\ Unused \in SUBSET Tokens
    BY <1>4 DEF RetiredElsewhere, Retires, Unused, history
  <2>2. QED BY <2>1 DEF Effect
<1>5. ASSUME NEW i \in Issuers,
             \/ RequestRead(i) \/ MailSent(i) \/ MailFails(i) \/ RetireFails(i)
             \/ IssuerStops(i)
      PROVE  Effect
  BY <1>5 DEF RequestRead, MailSent, MailFails, RetireFails, IssuerStops,
     rows, history, Effect
<1>6. ASSUME NEW c \in Confirmers,
             \/ \E t \in Tokens : ConfirmRead(c, t)
             \/ ClaimFails(c)
      PROVE  Effect
  BY <1>6 DEF ConfirmRead, ClaimFails, rows, history, Effect
<1>7. CASE Tick
  BY <1>7 DEF Tick, rows, history, Effect
<1>8. QED
  BY <1>1, <1>2, <1>3, <1>4, <1>5, <1>6, <1>7, DeleteEffect DEF Next

LEMMA StepUsedUp ==
    ASSUME IInv, Next
    PROVE  UsedUp'
<1> USE DEF IInv, TypeOK, UsedUp
<1>1. CASE UNCHANGED <<token, confirmed>>
  BY <1>1
<1>2. ASSUME NEW t \in Tokens, Issues(t)
      PROVE  UsedUp'
  BY <1>2 DEF Issues
<1>3. ASSUME NEW t \in Tokens, Uses(t)
      PROVE  UsedUp'
  BY <1>3 DEF Uses, Unused
<1>4. ASSUME NEW S \in SUBSET Tokens, NEW state \in {"used", "deleted"}, Retires(S, state)
      PROVE  UsedUp'
  BY <1>4 DEF Retires, Unused
<1>5. QED BY <1>1, <1>2, <1>3, <1>4, StepEffect DEF Effect

(***************************************************************************)
(* The invariant                                                           *)
(***************************************************************************)

LEMMA InitCorrect == Init => IInv
<1> SUFFICES ASSUME Init PROVE IInv
  OBVIOUS
<1>1. TypeOK
  BY NoneAssumption DEF Init, TypeOK, Idle, Step
<1>2. KnowsToken /\ UsedUp /\ OneTokenWhenQuiet
  BY DEF Init, KnowsToken, Idle, UsedUp, OneTokenWhenQuiet, Unused
<1>3. QED BY <1>1, <1>2 DEF IInv

\* The state of a link changes as Effect says, and so keeps its type.
LEMMA RowsType ==
    ASSUME IInv, Next
    PROVE  /\ token' \in [Tokens -> {"absent", "unused", "used", "deleted"}]
           /\ confirmed' \in [Tokens -> Nat]
<1> USE DEF IInv, TypeOK
<1>1. CASE UNCHANGED <<token, confirmed>>
  BY <1>1
<1>2. ASSUME NEW t \in Tokens, Issues(t) \/ Uses(t)
      PROVE  /\ token' \in [Tokens -> {"absent", "unused", "used", "deleted"}]
             /\ confirmed' \in [Tokens -> Nat]
  BY <1>2 DEF Issues, Uses
<1>3. ASSUME NEW S \in SUBSET Tokens, NEW state \in {"used", "deleted"}, Retires(S, state)
      PROVE  /\ token' \in [Tokens -> {"absent", "unused", "used", "deleted"}]
             /\ confirmed' \in [Tokens -> Nat]
  BY <1>3 DEF Retires
<1>4. QED BY <1>1, <1>2, <1>3, StepEffect DEF Effect

\* What the requests know keeps its type.
LEMMA RequestsType ==
    ASSUME IInv, Next
    PROVE  /\ issuer' \in [Issuers -> Step({"idle"} \cup Issuing)]
           /\ confirmer' \in [Confirmers -> Step({"idle", "claim"})]
           /\ KnowsToken'
<1> DEFINE Goal == /\ issuer' \in [Issuers -> Step({"idle"} \cup Issuing)]
                   /\ confirmer' \in [Confirmers -> Step({"idle", "claim"})]
                   /\ KnowsToken'
<1> USE NoneAssumption DEF IInv, TypeOK, KnowsToken, Issuing, Step, Idle
<1>1. ASSUME NEW i \in Issuers, RequestRead(i)
      PROVE  Goal
  BY <1>1 DEF RequestRead
<1>2. ASSUME NEW i \in Issuers, NEW t \in Tokens, CreateToken(i, t)
      PROVE  Goal
  BY <1>2 DEF CreateToken
<1>3. ASSUME NEW i \in Issuers, MailSent(i) \/ MailFails(i)
      PROVE  Goal
  BY <1>3 DEF MailSent, MailFails, Goto
<1>4. ASSUME NEW i \in Issuers, RetireOthers(i) \/ DeleteToken(i) \/ IssuerStops(i)
      PROVE  Goal
  BY <1>4 DEF RetireOthers, DeleteToken, IssuerStops, EndIssue
<1>5. ASSUME NEW i \in Issuers, RetireFails(i)
      PROVE  Goal
  BY <1>5 DEF RetireFails, Goto, EndIssue
<1>6. ASSUME NEW c \in Confirmers, NEW t \in Tokens, ConfirmRead(c, t)
      PROVE  Goal
  BY <1>6 DEF ConfirmRead
<1>7. ASSUME NEW c \in Confirmers, Claim(c) \/ ClaimFails(c)
      PROVE  Goal
  <2>1. confirmer' = [confirmer EXCEPT ![c] = Idle] /\ issuer' = issuer
    BY <1>7 DEF Claim, ClaimFails, EndConfirm
  <2>2. QED BY <2>1
<1>8. CASE RetiredElsewhere \/ Tick
  BY <1>8 DEF RetiredElsewhere, Tick
<1>9. QED
  BY <1>1, <1>2, <1>3, <1>4, <1>5, <1>6, <1>7, <1>8 DEF Next

\* So do the times and what happened.
LEMMA RestType ==
    ASSUME IInv, Next
    PROVE  /\ kind' \in Kinds /\ createdAt' \in [Tokens -> Nat]
           /\ expiresAt' \in [Tokens -> Nat] /\ clock' \in Nat
           /\ verified' \in BOOLEAN /\ (kind' = "reset" => ~verified')
           /\ delivered' \subseteq Tokens /\ abandoned' \subseteq Tokens
<1> DEFINE Goal == /\ kind' \in Kinds /\ createdAt' \in [Tokens -> Nat]
                   /\ expiresAt' \in [Tokens -> Nat] /\ clock' \in Nat
                   /\ verified' \in BOOLEAN /\ (kind' = "reset" => ~verified')
                   /\ delivered' \subseteq Tokens /\ abandoned' \subseteq Tokens
<1> USE DEF IInv, TypeOK, KnowsToken, Step, rows, history
<1>1. ASSUME NEW i \in Issuers, NEW t \in Tokens, CreateToken(i, t)
      PROVE  Goal
  <2>1. issuer[i].now + Ttl \in Nat
    BY TimesAssumption
  <2>2. QED BY <1>1, <2>1 DEF CreateToken
<1>2. ASSUME NEW i \in Issuers, MailSent(i) \/ MailFails(i) \/ RequestRead(i)
      PROVE  Goal
  BY <1>2 DEF MailSent, MailFails, RequestRead
<1>3. ASSUME NEW i \in Issuers, RetireOthers(i) \/ DeleteToken(i)
      PROVE  Goal
  BY <1>3 DEF RetireOthers, DeleteToken
<1>4. ASSUME NEW i \in Issuers, RetireFails(i) \/ IssuerStops(i)
      PROVE  Goal
  BY <1>4 DEF RetireFails, IssuerStops
<1>5. ASSUME NEW c \in Confirmers,
             Claim(c) \/ ClaimFails(c) \/ \E t \in Tokens : ConfirmRead(c, t)
      PROVE  Goal
  <2>1. UNCHANGED <<createdAt, expiresAt, clock, kind, delivered, abandoned>>
    BY <1>5 DEF Claim, ClaimFails, ConfirmRead
  <2>2. verified' = verified \/ verified' = (kind = "verify")
    BY <1>5 DEF Claim, ClaimFails, ConfirmRead
  <2>3. verified' \in BOOLEAN /\ (kind = "reset" => ~verified')
    <3>1. CASE verified' = verified
      BY <3>1
    <3>2. CASE verified' = (kind = "verify")
      <4>1. (kind = "verify") \in BOOLEAN /\ (kind = "reset" => kind # "verify")
        OBVIOUS
      <4>2. QED BY <3>2, <4>1, Zenon
    <3>3. QED BY <2>2, <3>1, <3>2
  <2>4. QED BY <2>1, <2>3
<1>6. CASE RetiredElsewhere \/ Tick
  BY <1>6 DEF RetiredElsewhere, Tick
<1>7. QED
  BY <1>1, <1>2, <1>3, <1>4, <1>5, <1>6 DEF Next

LEMMA StepType ==
    ASSUME IInv, Next
    PROVE  TypeOK' /\ KnowsToken'
BY RowsType, RequestsType, RestType DEF TypeOK, Issuing

\* Two valid links stay excused: the request that brings one of them in is in
\* progress, and ends by retiring the other, by deleting its own or abandoned.
LEMMA StepQuiet ==
    ASSUME IInv, Next
    PROVE  OneTokenWhenQuiet'
<1> USE NoneAssumption DEF IInv, TypeOK, KnowsToken, OneTokenWhenQuiet, InProgress,
        Unused, Step, rows, history
<1>1. ASSUME NEW i \in Issuers, NEW t \in Tokens, CreateToken(i, t)
      PROVE  OneTokenWhenQuiet'
  <2>1. \A u \in Tokens : InProgress(u) => InProgress(u)'
    BY <1>1 DEF CreateToken
  <2>2. InProgress(t)'
    BY <1>1 DEF CreateToken
  <2>3. Unused' = Unused \cup {t} /\ abandoned' = abandoned
    BY <1>1 DEF CreateToken
  <2>4. QED BY <2>1, <2>2, <2>3
<1>2. ASSUME NEW i \in Issuers, RequestRead(i) \/ MailSent(i) \/ MailFails(i)
      PROVE  OneTokenWhenQuiet'
  <2>1. \A u \in Tokens : InProgress(u) => InProgress(u)'
    BY <1>2 DEF RequestRead, MailSent, MailFails, Idle, Goto
  <2>2. Unused' = Unused /\ abandoned' = abandoned
    BY <1>2 DEF RequestRead, MailSent, MailFails
  <2>3. QED BY <2>1, <2>2
<1>3. ASSUME NEW i \in Issuers, RetireOthers(i)
      PROVE  OneTokenWhenQuiet'
  <2>1. Unused' \subseteq {issuer[i].token}
    BY <1>3 DEF RetireOthers
  <2>2. QED BY <2>1
<1>4. ASSUME NEW i \in Issuers, RetireFails(i) \/ IssuerStops(i)
      PROVE  OneTokenWhenQuiet'
  <2>1. \A u \in Tokens : InProgress(u) => InProgress(u)' \/ u \in abandoned'
    BY <1>4 DEF RetireFails, IssuerStops, Goto, EndIssue
  <2>2. Unused' = Unused /\ abandoned \subseteq abandoned'
    BY <1>4 DEF RetireFails, IssuerStops
  <2>3. QED BY <2>1, <2>2
<1>5. ASSUME NEW i \in Issuers, DeleteToken(i)
      PROVE  OneTokenWhenQuiet'
  <2>1. Unused' = Unused \ {issuer[i].token} /\ abandoned' = abandoned
    BY <1>5 DEF DeleteToken
  <2>2. \A u \in Tokens \ {issuer[i].token} : InProgress(u) => InProgress(u)'
    BY <1>5 DEF DeleteToken, EndIssue
  <2>3. QED BY <2>1, <2>2
<1>6. ASSUME NEW c \in Confirmers, Claim(c)
      PROVE  OneTokenWhenQuiet'
  BY <1>6 DEF Claim
<1>7. ASSUME NEW c \in Confirmers, ClaimFails(c) \/ \E t \in Tokens : ConfirmRead(c, t)
      PROVE  OneTokenWhenQuiet'
  BY <1>7 DEF ClaimFails, ConfirmRead
<1>8. CASE RetiredElsewhere
  BY <1>8 DEF RetiredElsewhere
<1>9. CASE Tick
  BY <1>9 DEF Tick
<1>10. QED
  BY <1>1, <1>2, <1>3, <1>4, <1>5, <1>6, <1>7, <1>8, <1>9 DEF Next

LEMMA Inductive == IInv /\ [Next]_vars => IInv'
<1> SUFFICES ASSUME IInv, [Next]_vars PROVE IInv'
  OBVIOUS
<1>1. CASE Next
  BY <1>1, StepType, StepUsedUp, StepQuiet DEF IInv
<1>2. CASE UNCHANGED vars
  BY <1>2 DEF IInv, TypeOK, KnowsToken, UsedUp, OneTokenWhenQuiet, Unused,
     InProgress, vars, rows, history
<1>3. QED BY <1>1, <1>2

LEMMA Invariance == Spec => []IInv
BY InitCorrect, Inductive, PTL DEF Spec

(***************************************************************************)
(* The theorems                                                            *)
(***************************************************************************)

\* Rows, requests and history keep their types, and a reset verifies no address.
THEOREM TypeCorrect == Spec => []TypeOK
<1>1. IInv => TypeOK
  BY DEF IInv
<1>2. QED BY <1>1, Invariance, PTL

\* However many requests present a link at once, it takes effect once.
THEOREM WorksOnce == Spec => []TokenWorksOnce
<1>1. IInv => TokenWorksOnce
  BY DEF IInv, UsedUp, TokenWorksOnce
<1>2. QED BY <1>1, Invariance, PTL

\* Links are valid side by side only while a request is under way, or after one
\* broke off.
THEOREM QuietMailbox == Spec => []OneTokenWhenQuiet
<1>1. IInv => OneTokenWhenQuiet
  BY DEF IInv
<1>2. QED BY <1>1, Invariance, PTL

LEMMA InitImplements == Init => OneTime!Init
BY DEF Init, OneTime!Init, linkState

LEMMA StepImplements ==
    ASSUME IInv, [Next]_vars
    PROVE  [OneTime!Next]_(OneTime!vars)
<1> USE DEF IInv, TypeOK, linkState, OneTime!vars, OneTime!Next
<1>1. CASE UNCHANGED vars
  BY <1>1 DEF vars, rows, history
<1>2. CASE UNCHANGED <<token, confirmed>>
  BY <1>2
<1>3. ASSUME NEW t \in Tokens, Issues(t)
      PROVE  OneTime!Issue(t)
  <2>1. linkState' = [linkState EXCEPT ![t] = "valid"]
    BY <1>3 DEF Issues
  <2>2. QED BY <1>3, <2>1 DEF Issues, OneTime!Issue
<1>4. Unused = OneTime!Valid
  BY DEF Unused, OneTime!Valid
<1>5. ASSUME NEW t \in Tokens, Uses(t)
      PROVE  OneTime!Use(t)
  <2>1. linkState' = [u \in Tokens |-> IF u \in Unused THEN "spent" ELSE linkState[u]]
    BY <1>5 DEF Uses, Unused
  <2>2. QED BY <1>4, <1>5, <2>1 DEF Uses, OneTime!Use, OneTime!Spend
<1>6. ASSUME NEW S \in SUBSET Tokens, NEW state \in {"used", "deleted"}, Retires(S, state)
      PROVE  OneTime!Retire(S)
  <2>1. linkState' = [u \in Tokens |-> IF u \in S THEN "spent" ELSE linkState[u]]
    BY <1>6 DEF Retires
  <2>2. QED BY <1>4, <1>6, <2>1 DEF Retires, OneTime!Retire, OneTime!Spend
<1>7. QED BY <1>1, <1>2, <1>3, <1>5, <1>6, StepEffect DEF Effect

\* Issuing, mailing, retiring and confirming implement the one-time link.
THEOREM Implementation == Spec => ImplementsOneTimeLinks
<1>1. IInv /\ [Next]_vars => [OneTime!Next]_(OneTime!vars)
  BY StepImplements
<1>2. QED
  BY InitImplements, Invariance, <1>1, PTL
     DEF Spec, ImplementsOneTimeLinks, OneTime!Spec

(***************************************************************************)
(* A working verification link is kept: the request that retires links has *)
(* delivered its own, and the request that deletes one has not.            *)
(***************************************************************************)

Present(t) == token[t] # "absent"

\* Each token is one request's, and in the mailbox once its mail was sent.
Mailed ==
    /\ \A t \in delivered : Present(t)
    /\ \A i \in Issuers : LET t == issuer[i].token IN
          /\ t # None => Present(t)
          /\ \A j \in Issuers \ {i} : t # None => t # issuer[j].token
          /\ issuer[i].step = "mail" => t \notin delivered
          /\ issuer[i].step = "retire" => t \in delivered
          /\ issuer[i].step = "delete" /\ kind = "verify" => t \notin delivered

\* A row, once inserted, stays in the table or is marked as deleted.
LEMMA StaysPresent ==
    ASSUME IInv, [Next]_vars, NEW t \in Tokens, Present(t)
    PROVE  Present(t)'
<1> USE DEF IInv, TypeOK, Present
<1>1. CASE UNCHANGED <<token, confirmed>>
  BY <1>1
<1>2. ASSUME NEW u \in Tokens, Issues(u) \/ Uses(u)
      PROVE  Present(t)'
  BY <1>2 DEF Issues, Uses
<1>3. ASSUME NEW S \in SUBSET Tokens, NEW state \in {"used", "deleted"}, Retires(S, state)
      PROVE  Present(t)'
  BY <1>3 DEF Retires
<1>4. CASE UNCHANGED vars
  BY <1>4 DEF vars, rows
<1>5. QED BY <1>1, <1>2, <1>3, <1>4, StepEffect DEF Effect

LEMMA MailedStep ==
    ASSUME IInv, Mailed, [Next]_vars
    PROVE  Mailed'
<1>1. \A t \in Tokens : Present(t) => Present(t)'
  BY StaysPresent
<1>2. KnowsToken /\ delivered \subseteq Tokens /\ TypeOK
  BY DEF IInv, TypeOK
<1> USE NoneAssumption, <1>1, <1>2 DEF Mailed, KnowsToken, TypeOK, Issuing, Step, Idle, rows, history
<1>3. CASE UNCHANGED <<issuer, delivered, kind>>
  <2>1. \A i \in Issuers : issuer[i].token # None => issuer[i].token \in Tokens
    OBVIOUS
  <2>2. QED BY <1>3, <2>1
<1>4. ASSUME NEW i \in Issuers, RequestRead(i)
      PROVE  Mailed'
  BY <1>4 DEF RequestRead, Present
<1>5. ASSUME NEW i \in Issuers, NEW t \in Tokens, CreateToken(i, t)
      PROVE  Mailed'
  <2>1. /\ issuer' = [issuer EXCEPT ![i] = [step |-> "mail", token |-> t, now |-> 0]]
        /\ delivered' = delivered /\ kind' = kind
        /\ Present(t)' /\ t \notin delivered
        /\ \A j \in Issuers : issuer[j].token # t
    BY <1>5 DEF CreateToken, Present
  <2>2. QED BY <2>1
<1>6. ASSUME NEW i \in Issuers, MailSent(i)
      PROVE  Mailed'
  <2>1. /\ issuer' = [issuer EXCEPT ![i].step = "retire"]
        /\ delivered' = delivered \cup {issuer[i].token}
        /\ kind' = kind /\ issuer[i].token \in Tokens
    BY <1>6 DEF MailSent, Goto
  <2>2. QED BY <2>1
<1>7. ASSUME NEW i \in Issuers, MailFails(i)
      PROVE  Mailed'
  <2>1. /\ issuer' = [issuer EXCEPT ![i].step = "delete"]
        /\ delivered' = delivered /\ kind' = kind
        /\ issuer[i].token \in Tokens /\ issuer[i].token \notin delivered
    BY <1>7 DEF MailFails, Goto
  <2>2. QED BY <2>1
<1>8. ASSUME NEW i \in Issuers,
             issuer' = [issuer EXCEPT ![i] = Idle], UNCHANGED <<delivered, kind>>
      PROVE  Mailed'
  BY <1>8
<1>9. ASSUME NEW i \in Issuers, RetireFails(i)
      PROVE  Mailed'
  <2>1. CASE kind = "reset"
    <3>1. /\ issuer' = [issuer EXCEPT ![i].step = "delete"]
          /\ delivered' = delivered /\ kind' = "reset"
          /\ issuer[i].token \in Tokens
      BY <1>9, <2>1 DEF RetireFails, Goto
    <3>2. QED BY <3>1
  <2>2. CASE kind # "reset"
    BY <1>8, <1>9, <2>2 DEF RetireFails, EndIssue
  <2>3. QED BY <2>1, <2>2
<1>10. ASSUME NEW i \in Issuers, RetireOthers(i) \/ DeleteToken(i) \/ IssuerStops(i)
       PROVE  Mailed'
  BY <1>8, <1>10 DEF RetireOthers, DeleteToken, IssuerStops, EndIssue
<1>11. ASSUME NEW c \in Confirmers,
              Claim(c) \/ ClaimFails(c) \/ \E t \in Tokens : ConfirmRead(c, t)
       PROVE  Mailed'
  BY <1>3, <1>11 DEF Claim, ClaimFails, ConfirmRead
<1>12. CASE RetiredElsewhere \/ Tick \/ UNCHANGED vars
  BY <1>3, <1>12 DEF RetiredElsewhere, Tick, vars
<1>13. QED
  BY <1>4, <1>5, <1>6, <1>7, <1>9, <1>10, <1>11, <1>12 DEF Next

\* What an issuing step leaves in the mailbox.
LEMMA StepKeepsALink ==
    ASSUME IInv, Mailed, Next, kind = "verify", issuer' # issuer, Working # {}
    PROVE  \/ Working' # {}
           \/ \E i \in Issuers : issuer[i].step = "retire" /\ issuer[i].token \notin Unused
<1> USE NoneAssumption DEF IInv, TypeOK, KnowsToken, Mailed, Present, Issuing,
        Working, Unused, rows, history
<1>1. ASSUME delivered \subseteq delivered', token' = token
      PROVE  Working' # {}
  BY <1>1
<1>2. ASSUME NEW i \in Issuers,
             \/ RequestRead(i) \/ MailSent(i) \/ MailFails(i)
             \/ RetireFails(i) \/ IssuerStops(i)
      PROVE  Working' # {}
  BY <1>1, <1>2 DEF RequestRead, MailSent, MailFails, RetireFails, IssuerStops
<1>3. ASSUME NEW i \in Issuers, NEW t \in Tokens, CreateToken(i, t)
      PROVE  Working' # {}
  BY <1>3 DEF CreateToken
<1>4. ASSUME NEW i \in Issuers, RetireOthers(i), issuer[i].token \in Unused
      PROVE  issuer[i].token \in Working'
  BY <1>4 DEF RetireOthers
<1>5. ASSUME NEW i \in Issuers, RetireOthers(i), issuer[i].token \notin Unused
      PROVE  issuer[i].step = "retire"
  BY <1>5 DEF RetireOthers
<1>6. ASSUME NEW i \in Issuers, DeleteToken(i)
      PROVE  Working' # {}
  <2>1. issuer[i].token \notin delivered
    BY <1>6 DEF DeleteToken
  <2>2. QED BY <1>6, <2>1 DEF DeleteToken
<1>7. QED
  BY <1>2, <1>3, <1>4, <1>5, <1>6
  DEF Next, Claim, ClaimFails, ConfirmRead, RetiredElsewhere, Tick

\* Whoever has a working verification link keeps one while others are issued,
\* however many requests issue them, unless two requests retire each other's.
THEOREM IssuingKeeps == Spec => IssuingKeepsALink
<1>1. Init => Mailed
  BY DEF Init, Mailed, Idle
<1>2. Spec => []Mailed
  BY <1>1, MailedStep, Invariance, PTL DEF Spec
<1>3. ASSUME IInv, Mailed, [Next]_vars
      PROVE  [(kind = "verify" /\ issuer' # issuer /\ Working # {}) =>
                \/ Working' # {}
                \/ \E i \in Issuers :
                      issuer[i].step = "retire" /\ issuer[i].token \notin Unused
             ]_<<issuer, token, delivered, kind>>
  BY <1>3, StepKeepsALink DEF vars, rows, history
<1>4. QED BY Invariance, <1>2, <1>3, PTL DEF Spec, IssuingKeepsALink
=============================================================================

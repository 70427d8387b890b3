---------------------------- MODULE OneTimeLinks ----------------------------
(***************************************************************************)
(* What the owner of a mailbox may rely on, without mails, requests or     *)
(* clocks: a link becomes valid once; it may be retired at any time; if it *)
(* takes effect it was valid until then, and from then on neither it nor   *)
(* any link that was valid beside it can take effect.                      *)
(***************************************************************************)
EXTENDS Naturals

CONSTANT Links

VARIABLES
    link,      \* "absent", "valid" or "spent"
    effects    \* how often each link has brought about what it is for

vars == <<link, effects>>

Init ==
    /\ link = [l \in Links |-> "absent"]
    /\ effects = [l \in Links |-> 0]

Valid == {l \in Links : link[l] = "valid"}

Spend(S) == link' = [l \in Links |-> IF l \in S THEN "spent" ELSE link[l]]

Issue(l) ==
    /\ link[l] = "absent"
    /\ link' = [link EXCEPT ![l] = "valid"]
    /\ UNCHANGED effects

Retire(S) ==
    /\ S \subseteq Valid
    /\ Spend(S)
    /\ UNCHANGED effects

Use(l) ==
    /\ l \in Valid
    /\ Spend(Valid)
    /\ effects' = [effects EXCEPT ![l] = @ + 1]

Next ==
    \/ \E l \in Links : Issue(l) \/ Use(l)
    \/ \E S \in SUBSET Links : Retire(S)

Spec == Init /\ [][Next]_vars
=============================================================================

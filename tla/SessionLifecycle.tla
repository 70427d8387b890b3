-------------------------- MODULE SessionLifecycle --------------------------
(***************************************************************************)
(* What clients may rely on, without requests, transactions or snapshots:  *)
(* a session is opened once and closed once; while it is open exactly one  *)
(* token is current, and only a token that nobody has seen before takes    *)
(* its place; a closed session has none.                                   *)
(***************************************************************************)
CONSTANTS Sessions, Tokens

VARIABLES
    status,    \* "absent", "open" or "closed"
    current,   \* the tokens that can be exchanged for the session
    issued     \* every token handed out so far

vars == <<status, current, issued>>

Init ==
    /\ status = [s \in Sessions |-> "absent"]
    /\ current = [s \in Sessions |-> {}]
    /\ issued = {}

Open(s, t) ==
    /\ status[s] = "absent"
    /\ t \notin issued
    /\ status' = [status EXCEPT ![s] = "open"]
    /\ current' = [current EXCEPT ![s] = {t}]
    /\ issued' = issued \cup {t}

Rotate(s, old, next) ==
    /\ status[s] = "open"
    /\ current[s] = {old}
    /\ next \notin issued
    /\ current' = [current EXCEPT ![s] = {next}]
    /\ issued' = issued \cup {next}
    /\ UNCHANGED status

Close(S) ==
    /\ \A s \in S : status[s] = "open"
    /\ status' = [s \in Sessions |-> IF s \in S THEN "closed" ELSE status[s]]
    /\ current' = [s \in Sessions |-> IF s \in S THEN {} ELSE current[s]]
    /\ UNCHANGED issued

\* A refresh that lost a race with the closing of its session may still answer
\* with a token, but that token is dead on arrival.
IssueDead(s, t) ==
    /\ status[s] = "closed"
    /\ t \notin issued
    /\ issued' = issued \cup {t}
    /\ UNCHANGED <<status, current>>

Next ==
    \/ \E s \in Sessions, t \in Tokens : Open(s, t) \/ IssueDead(s, t)
    \/ \E s \in Sessions, old, next \in Tokens : Rotate(s, old, next)
    \/ \E S \in SUBSET Sessions : Close(S)

Spec == Init /\ [][Next]_vars
=============================================================================

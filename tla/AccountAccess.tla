--------------------------- MODULE AccountAccess ---------------------------
(***************************************************************************)
(* What holders of accounts may rely on, without requests, checks or       *)
(* conflicts: an account is opened once, with one way in, a password or an *)
(* identity that nobody had; it gains others one at a time; it never loses *)
(* its password, and identities only while it has one.  An identity leads  *)
(* to one account, and to another only after it was given up.              *)
(***************************************************************************)
CONSTANTS Accounts, Identities, None

VARIABLES
    opened,     \* the accounts that exist
    secured,    \* those of them that have a password
    owner       \* the account each identity leads to

vars == <<opened, secured, owner>>

Init ==
    /\ opened = {}
    /\ secured = {}
    /\ owner = [i \in Identities |-> None]

Register(a) ==
    /\ a \notin opened
    /\ opened' = opened \cup {a}
    /\ secured' = secured \cup {a}
    /\ UNCHANGED owner

SignUp(a, i) ==
    /\ a \notin opened
    /\ owner[i] = None
    /\ opened' = opened \cup {a}
    /\ owner' = [owner EXCEPT ![i] = a]
    /\ UNCHANGED secured

SetPassword(a) ==
    /\ a \in opened
    /\ secured' = secured \cup {a}
    /\ UNCHANGED <<opened, owner>>

Link(a, i) ==
    /\ a \in opened
    /\ owner[i] = None
    /\ owner' = [owner EXCEPT ![i] = a]
    /\ UNCHANGED <<opened, secured>>

Unlink(a) ==
    /\ a \in secured
    /\ owner' = [i \in Identities |-> IF owner[i] = a THEN None ELSE owner[i]]
    /\ UNCHANGED <<opened, secured>>

Next ==
    \/ \E a \in Accounts : Register(a) \/ SetPassword(a) \/ Unlink(a)
    \/ \E a \in Accounts, i \in Identities : SignUp(a, i) \/ Link(a, i)

Spec == Init /\ [][Next]_vars
=============================================================================

----------------------------- MODULE MCAccounts -----------------------------
(* The finite instance of Accounts that TLC checks. *)
EXTENDS Accounts, TLC

CONSTANTS e1, e2, s1, s2

\* The first Google account changed its address: Google does not answer for the
\* old one, but does for the new one, which a second account has as well.
TwoAccounts ==
    {[subject |-> s1, email |-> e1, authoritative |-> FALSE],
     [subject |-> s1, email |-> e2, authoritative |-> TRUE],
     [subject |-> s2, email |-> e2, authoritative |-> TRUE]}

Symmetric == Permutations(Requests)
=============================================================================

--------------------------- MODULE MCAuthSessions ---------------------------
(* The finite instances of AuthSessions that TLC checks. *)
EXTENDS AuthSessions, TLC

Customers == [u \in Users |-> "CUSTOMER"]

\* The identifiers of rows, tokens, passwords and requests are interchangeable.
Symmetric == Permutations(Sessions) \cup Permutations(Tokens)
             \cup Permutations(Requests) \cup Permutations(Passwords)
=============================================================================

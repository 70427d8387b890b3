------------------------ MODULE MCSessionEntitlement ------------------------
(* The finite instances of SessionEntitlement that TLC checks. *)
EXTENDS SessionEntitlement, TLC

Customers == [u \in Users |-> "CUSTOMER"]

Symmetric == Permutations(Users) \cup Permutations(Sessions) \cup Permutations(Tokens)
             \cup Permutations(Requests) \cup Permutations(Passwords)
=============================================================================

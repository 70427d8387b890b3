---------------------------- MODULE MCMailTokens ----------------------------
(* The finite instances of MailTokens that TLC checks. *)
EXTENDS MailTokens, TLC

Symmetric == Permutations(Tokens) \cup Permutations(Issuers)
             \cup Permutations(Confirmers)
=============================================================================

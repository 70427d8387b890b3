--------------------------- MODULE MCCategoryTree ---------------------------
(* The finite instances of CategoryTree that TLC checks. *)
EXTENDS CategoryTree, TLC

Symmetric == Permutations(Categories) \cup Permutations(Requests)
=============================================================================

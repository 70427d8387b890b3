------------------------ MODULE MCProductPublication ------------------------
(* The finite instances of ProductPublication that TLC checks. *)
EXTENDS ProductPublication, TLC

\* PATCHes of one field: the conditions on an active product are independent of
\* each other, so that one of several fields is refused exactly if one of its
\* fields alone would be.
OneField == {patch \in Patch : Cardinality({f \in DOMAIN patch : patch[f] # Keep}) = 1}

\* Within a kind, identifiers are interchangeable.
Symmetric == Permutations(Products) \cup Permutations(Images)
             \cup Permutations(Stores) \cup Permutations(Requests)
=============================================================================

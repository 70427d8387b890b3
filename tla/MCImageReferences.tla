------------------------- MODULE MCImageReferences -------------------------
(* The finite instances of ImageReferences that TLC checks. *)
EXTENDS ImageReferences, TLC

Symmetric == Permutations(Objects) \cup Permutations(Requests)
=============================================================================

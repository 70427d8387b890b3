-------------------------- MODULE MCCatalogRecords --------------------------
(* The finite instance of CatalogRecords that TLC checks. *)
EXTENDS CatalogRecords, TLC

CONSTANTS ana, bose, ana1, ana2, ana3, bose1

\* The second slug of one text is the first of another.
Overlapping == ana :> <<ana1, ana2, ana3>> @@ bose :> <<ana2, bose1>>

Body(base, original, selling) ==
    [base |-> base, original |-> original, selling |-> selling]

\* What a new product is given, and PATCHes of a price, of both or of the slug.
Bodies ==
    {Body(b, 7, 5) : b \in Bases}
    \cup {Body(Keep, o, Keep) : o \in Prices}
    \cup {Body(Keep, Keep, s) : s \in Prices}
    \cup {Body(Keep, 5, 2)}
    \cup {Body(b, Keep, Keep) : b \in Bases}

Symmetric == Permutations(Records) \cup Permutations(Requests)
=============================================================================

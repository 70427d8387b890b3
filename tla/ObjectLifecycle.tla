--------------------------- MODULE ObjectLifecycle ---------------------------
(***************************************************************************)
(* What the pages that show images may rely on, without requests, failures *)
(* or snapshots: an object is stored once, under an address never used     *)
(* before; one row at most ever shows it; it is deleted only after it was  *)
(* let go, and nothing shows it again from then on.                        *)
(***************************************************************************)
CONSTANTS
    Owners,    \* the rows that show objects
    Single,    \* those that show one object at most
    Objects

VARIABLES
    stage,     \* "absent", "held" until a row shows it, "shown", "loose" or "gone"
    shows      \* the objects each row shows

vars == <<stage, shows>>

Init ==
    /\ stage = [x \in Objects |-> "absent"]
    /\ shows = [o \in Owners |-> {}]

Move(S, to) == stage' = [x \in Objects |-> IF x \in S THEN to ELSE stage[x]]

\* All of S stands at the given stage.
AllAt(S, at) == \A x \in S : stage[x] = at

Store(x) ==
    /\ stage[x] = "absent"
    /\ Move({x}, "held")
    /\ UNCHANGED shows

\* A stored object that no row is going to show.
Drop(x) ==
    /\ stage[x] = "held"
    /\ Move({x}, "loose")
    /\ UNCHANGED shows

\* An object is stored for an upload that has been given up.
Stray(x) ==
    /\ stage[x] = "absent"
    /\ Move({x}, "loose")
    /\ UNCHANGED shows

\* A row shows S from now on, and lets go of the rest.
Write(o, S) ==
    /\ AllAt(S \ shows[o], "held")
    /\ o \in Single => \A x, y \in S : x = y
    /\ shows' = [shows EXCEPT ![o] = S]
    /\ stage' = [x \in Objects |-> IF x \in S THEN "shown"
                                   ELSE IF x \in shows[o] THEN "loose" ELSE stage[x]]

Delete(S) ==
    /\ AllAt(S, "loose")
    /\ Move(S, "gone")
    /\ UNCHANGED shows

Next ==
    \/ \E x \in Objects : Store(x) \/ Drop(x) \/ Stray(x)
    \/ \E o \in Owners, S \in SUBSET Objects : Write(o, S)
    \/ \E S \in SUBSET Objects : Delete(S)

Spec == Init /\ [][Next]_vars
=============================================================================

---------------------------- MODULE CategoryTree ----------------------------
(***************************************************************************)
(* The hierarchy of categories.  Before a category gets a parent, when it  *)
(* is created or later, the server walks from that parent to the root, one *)
(* query per step and in no transaction, and refuses if it meets the       *)
(* category itself (a cycle would arise) or one that it has already met    *)
(* (there is a cycle); then it writes the row.                             *)
(***************************************************************************)
EXTENDS Naturals, FiniteSets

CONSTANTS
    Categories,   \* ids that category rows may get
    Requests,     \* slots for the requests being served at one time
    None          \* a NULL parentId

ASSUME NoneAssumption == None \notin Categories

VARIABLES
    exists,    \* the category rows
    parent,    \* category.parentId
    ids,       \* the ids given so far: no id is given twice
    request,   \* what each request being served is doing
    \* What happened; not part of the program.
    stale,     \* the requests that began before the last move of another
    raced      \* whether one of them moved a category

rows == <<exists, parent, ids>>
history == <<stale, raced>>
vars == <<rows, request, history>>

\* A request that has met `visited' on its way up and will look at `next'; its
\* category is None while there is none yet.
Walk == [step : {"idle", "walk", "write", "remove"}, category : Categories \cup {None},
         parent : Categories \cup {None}, next : Categories \cup {None},
         visited : SUBSET Categories]

Idle == [step |-> "idle", category |-> None, parent |-> None, next |-> None,
         visited |-> {}]

At(r, step) == request[r].step = step
Goto(r, req) == request' = [request EXCEPT ![r] = req]
Finish(r) == /\ Goto(r, Idle)
             /\ stale' = stale \ {r}
             /\ UNCHANGED raced

Init ==
    /\ exists = {}
    /\ parent = [c \in Categories |-> None]
    /\ ids = {}
    /\ request = [r \in Requests |-> Idle]
    /\ stale = {}
    /\ raced = FALSE

(***************************************************************************)
(* Creating and moving                                                     *)
(***************************************************************************)

\* No parent at all needs no walk.
GiveParent(r, c, p) ==
    /\ request[r] = Idle
    /\ c # p \/ p = None
    /\ Goto(r, IF p = None
               THEN [Idle EXCEPT !.step = "write", !.category = c]
               ELSE [Idle EXCEPT !.step = "walk", !.category = c, !.parent = p,
                                 !.next = p])
    /\ UNCHANGED <<rows, history>>

Create(r, p) == GiveParent(r, None, p)

Move(r, c, p) == c \in exists /\ GiveParent(r, c, p)

\* Mutants: the walk does not look for the category, or for what it has met.
CyclicAlready(r) == request[r].next \in request[r].visited

CyclicThrough(r) == request[r].next = request[r].category

\* The category just read is the one being moved, or was met before.
Cyclic(r) == request[r].next \in {request[r].category} \cup request[r].visited

\* The walk goes on from a row it has read to that row's parent.
WalkOn(r) ==
    LET c == request[r].next IN
    /\ At(r, "walk")
    /\ c \in exists
    /\ ~Cyclic(r)
    /\ parent[c] # None
    /\ Goto(r, [request[r] EXCEPT !.next = parent[c], !.visited = @ \cup {c}])
    /\ UNCHANGED <<rows, history>>

\* It is satisfied at a root, and at a row deleted after its child was read.
WalkEnds(r) ==
    LET c == request[r].next IN
    /\ At(r, "walk")
    /\ IF c \in exists THEN ~Cyclic(r) /\ parent[c] = None
                       ELSE request[r].visited # {}
    /\ Goto(r, [Idle EXCEPT !.step = "write", !.category = request[r].category,
                            !.parent = request[r].parent])
    /\ UNCHANGED <<rows, history>>

\* A cycle, or no such parent.
WalkRefuses(r) ==
    LET c == request[r].next IN
    /\ At(r, "walk")
    /\ IF c \in exists THEN Cyclic(r) ELSE request[r].visited = {}
    /\ Finish(r)
    /\ UNCHANGED rows

\* The foreign key wants the parent to exist.
WriteRow(r) ==
    LET p == request[r].parent
        c == request[r].category
    IN
    /\ At(r, "write")
    /\ p \in exists \cup {None}
    /\ IF c = None
       THEN /\ \E new \in Categories \ ids :
                  /\ ids' = ids \cup {new}
                  /\ exists' = exists \cup {new}
                  /\ parent' = [parent EXCEPT ![new] = p]
            /\ Finish(r)
       ELSE /\ c \in exists
            /\ parent' = [parent EXCEPT ![c] = p]
            /\ stale' = {q \in Requests \ {r} : request[q] # Idle}
            /\ raced' = (raced \/ r \in stale)
            /\ Goto(r, Idle)
            /\ UNCHANGED <<exists, ids>>

(***************************************************************************)
(* Removing a category                                                     *)
(***************************************************************************)

Children(c) == {d \in exists : parent[d] = c}

RemoveRead(r, c) ==
    /\ request[r] = Idle
    /\ c \in exists
    /\ Children(c) = {}
    /\ Goto(r, [Idle EXCEPT !.step = "remove", !.category = c])
    /\ UNCHANGED <<rows, history>>

\* Mutant: children that came in the meantime are left without their parent.
RemoveRegardless(r) ==
    /\ At(r, "remove")
    /\ request[r].category \in exists
    /\ exists' = exists \ {request[r].category}
    /\ Finish(r)
    /\ UNCHANGED <<parent, ids>>

\* The foreign key refuses (P2003) if a child has come in the meantime.
Remove(r) ==
    LET c == request[r].category IN
    /\ At(r, "remove")
    /\ c \in exists
    /\ Children(c) = {}
    /\ exists' = exists \ {c}
    /\ parent' = [parent EXCEPT ![c] = None]
    /\ Finish(r)
    /\ UNCHANGED ids

\* The write is refused, or the process dies.
Abort(r) ==
    /\ request[r] # Idle
    /\ Finish(r)
    /\ UNCHANGED rows

Step(r) == WalkOn(r) \/ WalkEnds(r) \/ WalkRefuses(r)

Next == \E r \in Requests :
    \/ \E p \in Categories \cup {None} :
          Create(r, p) \/ \E c \in Categories : Move(r, c, p)
    \/ Step(r)
    \/ WriteRow(r)
    \/ \E c \in Categories : RemoveRead(r, c)
    \/ Remove(r)
    \/ Abort(r)

Spec == Init /\ [][Next]_vars

\* The database answers the queries of a walk, whatever other requests do.
FairSpec == Spec /\ \A r \in Requests : WF_vars(Step(r))

-----------------------------------------------------------------------------
(* Properties *)

\* Rows and requests hold values of their types, and a parent is a row.
TypeOK ==
    /\ ids \subseteq Categories
    /\ exists \subseteq ids
    /\ parent \in [Categories -> exists \cup {None}]
    /\ request \in [Requests -> Walk]
    /\ stale \subseteq {r \in Requests : request[r] # Idle}
    /\ raced \in BOOLEAN

\* No set of categories hangs together without a root: from every category the
\* way up ends.
Acyclic ==
    \A S \in SUBSET exists : S # {} => \E c \in S : parent[c] \notin S

\* The walk keeps the hierarchy free of cycles, as long as no category is moved
\* on the strength of a walk that another move has overtaken.
AcyclicUnlessRaced == ~raced => Acyclic

\* A walk ends even if the categories it meets are moved under its feet, or
\* already form a cycle: it cannot keep the request, and a connection of the
\* pool, for ever.
EveryWalkEnds ==
    \A r \in Requests : At(r, "walk") ~> ~At(r, "walk")

\* Why it ends: every query of a walk that goes on meets a category that it had
\* not met, so that there are no more queries than categories.
WalksClimb ==
    [][\A r \in Requests : At(r, "walk") /\ At(r, "walk")' /\ request'[r] # request[r] =>
          /\ Cardinality(request'[r].visited) = Cardinality(request[r].visited) + 1
          /\ request'[r].visited \subseteq Categories]_request
=============================================================================

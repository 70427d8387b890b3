------------------------- MODULE CategoryTreeProofs -------------------------
(***************************************************************************)
(* Proof, for any number of categories and requests, that the walk keeps   *)
(* the hierarchy free of cycles unless a move has overtaken it.            *)
(*                                                                         *)
(* What a walk has met is closed under `parent' but for the row it is      *)
(* about to read; at its end it is closed, and without the category.  A    *)
(* cycle that the write made would lie in it.                              *)
(***************************************************************************)
EXTENDS CategoryTree, FiniteSetTheorems, TLAPS

\* V contains p, does not contain c, and the way up does not leave it.
Above(V, p, c) ==
    /\ V \subseteq ids
    /\ p \in V /\ c \notin V
    /\ \A v \in V : parent[v] \in V \cup {None}

\* What a request that no move has overtaken knows of the way up.
Climbed(r) ==
    LET req == request[r] IN
    r \notin stale =>
       /\ req.step = "walk" =>
             /\ req.visited \subseteq ids
             /\ req.category \notin req.visited
             /\ req.visited = {} => req.parent = req.next
             /\ req.visited # {} => req.parent \in req.visited
             /\ req.next # None
             /\ \A v \in req.visited : parent[v] \in req.visited \cup {req.next, None}
       /\ req.step = "write" /\ req.parent # None =>
             \E V \in SUBSET Categories : Above(V, req.parent, req.category)

\* A row that is not there has no parent.
NoGhosts == \A c \in Categories \ exists : parent[c] = None

IInv ==
    /\ TypeOK
    /\ NoGhosts
    /\ \A r \in Requests : Climbed(r)
    /\ AcyclicUnlessRaced

LEMMA InitCorrect == Init => IInv
<1> SUFFICES ASSUME Init PROVE IInv
  OBVIOUS
<1>1. TypeOK
  BY DEF Init, TypeOK, Idle, Walk
<1>2. NoGhosts /\ \A r \in Requests : Climbed(r)
  BY DEF Init, NoGhosts, Climbed, Idle
<1>3. AcyclicUnlessRaced
  BY DEF Init, AcyclicUnlessRaced, Acyclic
<1>4. QED BY <1>1, <1>2, <1>3 DEF IInv

(***************************************************************************)
(* Steps that leave the rows alone                                         *)
(***************************************************************************)

\* A request goes on, or begins, with req.
LEMMA GoCorrect ==
    ASSUME IInv, NEW r \in Requests, NEW req \in Walk, Goto(r, req),
           UNCHANGED <<rows, history>>,
           r \in stale => req # Idle,
           r \notin stale =>
              /\ req.step = "walk" =>
                    /\ req.visited \subseteq ids
                    /\ req.category \notin req.visited
                    /\ req.visited = {} => req.parent = req.next
                    /\ req.visited # {} => req.parent \in req.visited
                    /\ req.next # None
                    /\ \A v \in req.visited : parent[v] \in req.visited \cup {req.next, None}
              /\ req.step = "write" /\ req.parent # None =>
                    \E V \in SUBSET Categories : Above(V, req.parent, req.category)
    PROVE  IInv'
<1>1. /\ request' = [request EXCEPT ![r] = req]
      /\ UNCHANGED <<exists, parent, ids, stale, raced>>
  BY DEF Goto, rows, history
<1>2. TypeOK'
  BY <1>1 DEF IInv, TypeOK
<1>3. NoGhosts' /\ AcyclicUnlessRaced'
  BY <1>1 DEF IInv, NoGhosts, AcyclicUnlessRaced, Acyclic
<1>4. \A q \in Requests : request'[q] = IF q = r THEN req ELSE request[q]
  BY <1>1 DEF IInv, TypeOK
<1>5. ASSUME NEW q \in Requests PROVE Climbed(q)'
  BY <1>1, <1>4 DEF IInv, Climbed, Above
<1>6. QED BY <1>2, <1>3, <1>5 DEF IInv

\* A request ends without having written.
LEMMA EndCorrect ==
    ASSUME IInv, NEW r \in Requests, Finish(r), UNCHANGED rows
    PROVE  IInv'
<1>1. /\ request' = [request EXCEPT ![r] = Idle]
      /\ stale' = stale \ {r}
      /\ UNCHANGED <<exists, parent, ids, raced>>
  BY DEF Finish, Goto, rows
<1>2. TypeOK'
  BY <1>1 DEF IInv, TypeOK, Idle, Walk
<1>3. NoGhosts' /\ AcyclicUnlessRaced'
  BY <1>1 DEF IInv, NoGhosts, AcyclicUnlessRaced, Acyclic
<1>4. \A q \in Requests : request'[q] = IF q = r THEN Idle ELSE request[q]
  BY <1>1 DEF IInv, TypeOK
<1>5. ASSUME NEW q \in Requests PROVE Climbed(q)'
  BY <1>1, <1>4 DEF IInv, Climbed, Above, Idle
<1>6. QED BY <1>2, <1>3, <1>5 DEF IInv

LEMMA BeginCorrect ==
    ASSUME IInv, NEW r \in Requests,
           \/ \E c \in Categories \cup {None}, p \in Categories \cup {None} :
                 GiveParent(r, c, p)
           \/ \E c \in Categories : RemoveRead(r, c)
    PROVE  IInv'
<1> r \in stale => request[r] # Idle
  BY DEF IInv, TypeOK
<1>1. ASSUME NEW c \in Categories \cup {None}, NEW p \in Categories \cup {None},
             GiveParent(r, c, p)
      PROVE  IInv'
  <2> DEFINE req == IF p = None
                    THEN [Idle EXCEPT !.step = "write", !.category = c]
                    ELSE [Idle EXCEPT !.step = "walk", !.category = c, !.parent = p,
                                      !.next = p]
  <2>1. Goto(r, req) /\ UNCHANGED <<rows, history>> /\ r \notin stale
    BY <1>1 DEF GiveParent
  <2>2. req \in Walk
    BY DEF Idle, Walk
  <2>3. /\ req.step = "walk" => /\ req.visited = {}
                                /\ req.parent = req.next
                                /\ req.next # None
        /\ req.step = "write" => req.parent = None
    BY DEF Idle
  <2> HIDE DEF req
  <2>4. QED BY <2>1, <2>2, <2>3, GoCorrect
<1>2. ASSUME NEW c \in Categories, RemoveRead(r, c) PROVE IInv'
  <2> DEFINE req == [Idle EXCEPT !.step = "remove", !.category = c]
  <2>1. Goto(r, req) /\ UNCHANGED <<rows, history>> /\ r \notin stale
    BY <1>2 DEF RemoveRead
  <2>2. req \in Walk /\ req.step = "remove"
    BY DEF Idle, Walk
  <2> HIDE DEF req
  <2>3. QED BY <2>1, <2>2, GoCorrect
<1>3. QED BY <1>1, <1>2

LEMMA WalkOnCorrect ==
    ASSUME IInv, NEW r \in Requests, WalkOn(r)
    PROVE  IInv'
<1> DEFINE c == request[r].next
           old == request[r]
           req == [old EXCEPT !.next = parent[c], !.visited = @ \cup {c}]
<1>1. /\ old.step = "walk"
      /\ c \in exists /\ parent[c] # None
      /\ c # old.category
      /\ Goto(r, req) /\ UNCHANGED <<rows, history>>
  BY DEF WalkOn, At, Cyclic
<1>2. old \in Walk /\ exists \subseteq ids /\ ids \subseteq Categories
  BY DEF IInv, TypeOK
<1>3. c \in Categories /\ parent[c] \in Categories
  BY <1>1, <1>2 DEF IInv, TypeOK
<1>4. /\ req \in Walk
      /\ req.step = "walk" /\ req.category = old.category
      /\ req.parent = old.parent /\ req.next = parent[c]
      /\ req.visited = old.visited \cup {c}
  BY <1>1, <1>2, <1>3 DEF Walk
<1> HIDE DEF req
<1>5. req # Idle
  BY <1>1, <1>4 DEF Idle
<1>6. r \notin stale =>
         /\ old.visited \subseteq ids
         /\ old.category \notin old.visited
         /\ old.visited = {} => old.parent = c
         /\ old.visited # {} => old.parent \in old.visited
         /\ \A v \in old.visited : parent[v] \in old.visited \cup {c, None}
  BY <1>1 DEF IInv, Climbed
<1>7. r \notin stale =>
         /\ req.visited \subseteq ids
         /\ req.category \notin req.visited
         /\ req.visited # {} /\ req.parent \in req.visited
         /\ \A v \in req.visited : parent[v] \in req.visited \cup {req.next, None}
  BY <1>1, <1>2, <1>3, <1>4, <1>6
<1>8. QED BY <1>1, <1>3, <1>4, <1>5, <1>7, NoneAssumption, GoCorrect

LEMMA WalkEndsCorrect ==
    ASSUME IInv, NEW r \in Requests, WalkEnds(r)
    PROVE  IInv'
<1> DEFINE c == request[r].next
           old == request[r]
           req == [Idle EXCEPT !.step = "write", !.category = old.category,
                               !.parent = old.parent]
<1>1. /\ old.step = "walk"
      /\ IF c \in exists THEN ~Cyclic(r) /\ parent[c] = None ELSE old.visited # {}
      /\ Goto(r, req) /\ UNCHANGED <<rows, history>>
  BY DEF WalkEnds, At
<1>2. /\ old \in Walk /\ exists \subseteq ids /\ ids \subseteq Categories
      /\ \A d \in Categories : parent[d] \in exists \cup {None}
  BY DEF IInv, TypeOK
<1>3. /\ req \in Walk /\ req # Idle /\ req.step = "write"
      /\ req.parent = old.parent /\ req.category = old.category
  BY <1>2 DEF Walk, Idle
<1>4. ASSUME r \notin stale
      PROVE  \E V \in SUBSET Categories : Above(V, old.parent, old.category)
  <2>1. /\ old.visited \subseteq ids
        /\ old.category \notin old.visited
        /\ old.visited = {} => old.parent = c
        /\ old.visited # {} => old.parent \in old.visited
        /\ \A v \in old.visited : parent[v] \in old.visited \cup {c, None}
    BY <1>1, <1>4 DEF IInv, Climbed
  <2>2. CASE c \in exists
    <3>1. Above(old.visited \cup {c}, old.parent, old.category)
      BY <1>1, <1>2, <2>1, <2>2 DEF Above, Cyclic
    <3>2. old.visited \cup {c} \in SUBSET Categories
      BY <1>2, <2>1, <2>2
    <3>3. QED BY <3>1, <3>2
  <2>3. CASE c \notin exists
    \* No row has the parent c, so that the way up ends before it.
    <3>1. \A v \in old.visited : parent[v] \in old.visited \cup {None}
      <4>1. c # None
        BY <1>1, <1>4 DEF IInv, Climbed
      <4>2. QED BY <1>2, <2>1, <2>3, <4>1
    <3>2. old.parent \in old.visited
      BY <1>1, <2>1, <2>3
    <3>3. Above(old.visited, old.parent, old.category)
      BY <2>1, <3>1, <3>2 DEF Above
    <3>4. QED BY <1>2, <2>1, <3>3
  <2>4. QED BY <2>2, <2>3
<1> HIDE DEF req
<1>5. QED BY <1>1, <1>3, <1>4, GoCorrect
(***************************************************************************)
(* Steps that write rows                                                   *)
(***************************************************************************)

\* A new row has no children yet, so that nothing can hang together through it.
LEMMA CreateCorrect ==
    ASSUME IInv, NEW r \in Requests, WriteRow(r), request[r].category = None
    PROVE  IInv'
<1> DEFINE p == request[r].parent
<1>1. PICK new \in Categories \ ids :
         /\ p \in exists \cup {None}
         /\ ids' = ids \cup {new}
         /\ exists' = exists \cup {new}
         /\ parent' = [parent EXCEPT ![new] = p]
         /\ request' = [request EXCEPT ![r] = Idle]
         /\ stale' = stale \ {r}
         /\ raced' = raced
  BY DEF WriteRow, Finish, Goto
<1>2. /\ exists \subseteq ids /\ ids \subseteq Categories
      /\ new \notin exists /\ p # new
      /\ \A d \in Categories : parent[d] \in exists \cup {None}
      /\ \A d \in Categories : parent'[d] = IF d = new THEN p ELSE parent[d]
  BY <1>1, NoneAssumption DEF IInv, TypeOK
<1>3. TypeOK'
  BY <1>1, <1>2 DEF IInv, TypeOK, Idle, Walk
<1>4. NoGhosts'
  BY <1>1, <1>2 DEF IInv, NoGhosts
<1>5. \A q \in Requests : request'[q] = IF q = r THEN Idle ELSE request[q]
  BY <1>1 DEF IInv, TypeOK
<1>6. ASSUME NEW q \in Requests PROVE Climbed(q)'
  <2>1. CASE q = r
    BY <1>5, <2>1 DEF Climbed, Idle
  <2>2. CASE q # r
    <3> DEFINE req == request[q]
    <3>1. req' = req /\ (q \notin stale' => q \notin stale)
      BY <1>1, <1>5, <2>2
    <3>2. Climbed(q)
      BY DEF IInv
    <3>3. \A V \in SUBSET ids : \A v \in V : v # new /\ parent'[v] = parent[v]
      BY <1>1, <1>2
    <3>4. \A V \in SUBSET Categories :
             Above(V, req.parent, req.category) => Above(V, req.parent, req.category)'
      BY <1>1, <3>1, <3>3 DEF Above
    <3>5. ids \subseteq ids'
      BY <1>1
    <3> HIDE DEF req
    <3>6. QED BY <3>1, <3>2, <3>3, <3>4, <3>5 DEF Climbed, req
  <2>3. QED BY <2>1, <2>2
<1>7. ASSUME Acyclic PROVE Acyclic'
  <2> SUFFICES ASSUME NEW S \in SUBSET exists', S # {}
               PROVE  \E d \in S : parent'[d] \notin S
    BY DEF Acyclic
  <2>1. CASE S = {new}
    BY <1>2, <2>1
  <2>2. CASE S # {new}
    <3>1. S \ {new} # {} /\ S \ {new} \in SUBSET exists
      BY <1>1, <2>2
    <3>2. PICK d \in S \ {new} : parent[d] \notin S \ {new}
      BY <1>7, <3>1 DEF Acyclic
    <3>3. d \in Categories /\ parent[d] # new
      BY <1>1, <1>2, <3>1, NoneAssumption
    <3>4. QED BY <1>2, <3>2, <3>3
  <2>3. QED BY <2>1, <2>2
<1>8. AcyclicUnlessRaced'
  BY <1>1, <1>7 DEF IInv, AcyclicUnlessRaced
<1>9. QED BY <1>3, <1>4, <1>6, <1>8 DEF IInv

\* A cycle through the moved row would lie in what its walk has met, but for
\* the row itself, which the walk has not met.
LEMMA MoveCorrect ==
    ASSUME IInv, NEW r \in Requests, WriteRow(r), request[r].category # None
    PROVE  IInv'
<1> DEFINE p == request[r].parent
           c == request[r].category
<1>1. /\ request[r].step = "write"
      /\ p \in exists \cup {None} /\ c \in exists
      /\ parent' = [parent EXCEPT ![c] = p]
      /\ stale' = {q \in Requests \ {r} : request[q] # Idle}
      /\ raced' = (raced \/ r \in stale)
      /\ request' = [request EXCEPT ![r] = Idle]
      /\ UNCHANGED <<exists, ids>>
  BY DEF WriteRow, Goto, At
<1>2. /\ exists \subseteq ids /\ ids \subseteq Categories
      /\ \A d \in Categories : parent[d] \in exists \cup {None}
      /\ \A d \in Categories : parent'[d] = IF d = c THEN p ELSE parent[d]
  BY <1>1 DEF IInv, TypeOK
<1>3. \A q \in Requests : request'[q] = IF q = r THEN Idle ELSE request[q]
  BY <1>1 DEF IInv, TypeOK
<1>4. TypeOK'
  <2>1. parent' \in [Categories -> exists' \cup {None}]
    BY <1>1, <1>2 DEF IInv, TypeOK
  <2>2. request' \in [Requests -> Walk]
    BY <1>1 DEF IInv, TypeOK, Idle, Walk
  <2>3. stale' \subseteq {q \in Requests : request'[q] # Idle}
    BY <1>1, <1>3
  <2>4. raced' \in BOOLEAN
    BY <1>1 DEF IInv, TypeOK
  <2>5. QED BY <1>1, <1>2, <2>1, <2>2, <2>3, <2>4 DEF TypeOK
<1>5. NoGhosts'
  BY <1>1, <1>2 DEF IInv, NoGhosts
<1>6. ASSUME NEW q \in Requests PROVE Climbed(q)'
  BY <1>1, <1>3 DEF Climbed, Idle
<1>7. ASSUME Acyclic, r \notin stale PROVE Acyclic'
  <2> SUFFICES ASSUME NEW S \in SUBSET exists, S # {},
                      \A d \in S : parent'[d] \in S
               PROVE  FALSE
    BY <1>1 DEF Acyclic
  <2>1. c \in S
    <3>1. PICK d \in S : parent[d] \notin S
      BY <1>7 DEF Acyclic
    <3>2. QED BY <1>2, <3>1
  <2>2. p \in S /\ p # None
    BY <1>2, <2>1, NoneAssumption
  <2>3. PICK V \in SUBSET Categories : Above(V, p, c)
    BY <1>1, <1>7, <2>2 DEF IInv, Climbed
  <2>4. S \cap V # {} /\ S \cap V \in SUBSET exists
    BY <2>2, <2>3 DEF Above
  <2>5. PICK d \in S \cap V : parent[d] \notin S \cap V
    BY <1>7, <2>4 DEF Acyclic
  <2>6. d # c /\ parent[d] \in V \cup {None}
    BY <2>3, <2>5 DEF Above
  <2>7. parent[d] \in S
    BY <1>2, <2>5, <2>6
  <2>8. QED BY <1>2, <2>5, <2>6, <2>7, NoneAssumption
<1>8. AcyclicUnlessRaced'
  BY <1>1, <1>7 DEF IInv, AcyclicUnlessRaced
<1>9. QED BY <1>4, <1>5, <1>6, <1>8 DEF IInv

\* A row without children lies on nobody's way up for long: it becomes a root.
LEMMA RemoveCorrect ==
    ASSUME IInv, NEW r \in Requests, Remove(r)
    PROVE  IInv'
<1> DEFINE c == request[r].category
<1>1. /\ c \in exists
      /\ \A d \in exists : parent[d] # c
      /\ exists' = exists \ {c}
      /\ parent' = [parent EXCEPT ![c] = None]
      /\ request' = [request EXCEPT ![r] = Idle]
      /\ stale' = stale \ {r}
      /\ UNCHANGED <<ids, raced>>
  BY DEF Remove, Finish, Goto, Children
<1>2. /\ exists \subseteq ids /\ ids \subseteq Categories
      /\ \A d \in Categories : parent[d] \in exists \cup {None}
      /\ \A d \in Categories : parent'[d] = IF d = c THEN None ELSE parent[d]
  BY <1>1 DEF IInv, TypeOK
<1>3. \A d \in Categories : parent'[d] \in exists' \cup {None}
  BY <1>1, <1>2 DEF IInv, NoGhosts
<1>4. TypeOK'
  <2>1. parent' \in [Categories -> exists' \cup {None}]
    BY <1>1, <1>3 DEF IInv, TypeOK
  <2>2. request' \in [Requests -> Walk]
    BY <1>1 DEF IInv, TypeOK, Idle, Walk
  <2>3. stale' \subseteq {q \in Requests : request'[q] # Idle}
    BY <1>1 DEF IInv, TypeOK
  <2>4. QED BY <1>1, <1>2, <2>1, <2>2, <2>3 DEF IInv, TypeOK
<1>5. NoGhosts'
  BY <1>1, <1>2 DEF IInv, NoGhosts
<1>6. \A q \in Requests : request'[q] = IF q = r THEN Idle ELSE request[q]
  BY <1>1 DEF IInv, TypeOK
<1>7. ASSUME NEW q \in Requests PROVE Climbed(q)'
  <2>1. CASE q = r
    BY <1>6, <2>1 DEF Climbed, Idle
  <2>2. CASE q # r
    <3> DEFINE req == request[q]
    <3>1. req' = req /\ (q \notin stale' => q \notin stale) /\ ids' = ids
      BY <1>1, <1>6, <2>2
    <3>2. Climbed(q)
      BY DEF IInv
    <3>3. \A v \in ids : parent'[v] \in {parent[v], None}
      BY <1>2
    <3>4. \A V \in SUBSET Categories :
             Above(V, req.parent, req.category) => Above(V, req.parent, req.category)'
      BY <3>1, <3>3 DEF Above
    <3> HIDE DEF req
    <3>5. QED BY <3>1, <3>2, <3>3, <3>4 DEF Climbed, req
  <2>3. QED BY <2>1, <2>2
<1>8. ASSUME Acyclic PROVE Acyclic'
  BY <1>1, <1>2, <1>8 DEF Acyclic
<1>9. AcyclicUnlessRaced'
  BY <1>1, <1>8 DEF IInv, AcyclicUnlessRaced
<1>10. QED BY <1>4, <1>5, <1>7, <1>9 DEF IInv

LEMMA NextCorrect == IInv /\ [Next]_vars => IInv'
<1> SUFFICES ASSUME IInv, [Next]_vars PROVE IInv'
  OBVIOUS
<1>1. CASE UNCHANGED vars
  BY <1>1 DEF vars, rows, history, IInv, TypeOK, NoGhosts, Climbed, Above,
              AcyclicUnlessRaced, Acyclic
<1>2. ASSUME NEW r \in Requests,
             \/ \E p \in Categories \cup {None} :
                   Create(r, p) \/ \E c \in Categories : Move(r, c, p)
             \/ Step(r)
             \/ WriteRow(r)
             \/ \E c \in Categories : RemoveRead(r, c)
             \/ Remove(r)
             \/ Abort(r)
      PROVE  IInv'
  <2>1. CASE \/ \E p \in Categories \cup {None} :
                   Create(r, p) \/ \E c \in Categories : Move(r, c, p)
             \/ \E c \in Categories : RemoveRead(r, c)
    BY <2>1, BeginCorrect DEF Create, Move
  <2>2. CASE Step(r)
    BY <2>2, WalkOnCorrect, WalkEndsCorrect, EndCorrect DEF Step, WalkRefuses
  <2>3. CASE WriteRow(r)
    BY <2>3, CreateCorrect, MoveCorrect
  <2>4. CASE Remove(r)
    BY <2>4, RemoveCorrect
  <2>5. CASE Abort(r)
    BY <2>5, EndCorrect DEF Abort
  <2>6. QED BY <1>2, <2>1, <2>2, <2>3, <2>4, <2>5
<1>3. QED BY <1>1, <1>2 DEF Next

LEMMA InvariantHolds == Spec => []IInv
BY InitCorrect, NextCorrect, PTL DEF Spec

(***************************************************************************)
(* Theorems                                                                *)
(***************************************************************************)

\* The rows, the requests and the history hold values of their types; a parent
\* is always a row (admin-categories.service, the foreign key on parentId).
THEOREM TypeCorrect == Spec => []TypeOK
<1>1. IInv => TypeOK
  BY DEF IInv
<1>2. QED BY <1>1, InvariantHolds, PTL

\* However many categories there are, whatever else is created, moved and
\* removed between the queries of a walk, the hierarchy stays free of cycles
\* unless a category was moved after another move had overtaken its walk
\* (assertNoCycle in admin-categories.service).
THEOREM StaysAcyclic == Spec => []AcyclicUnlessRaced
<1>1. IInv => AcyclicUnlessRaced
  BY DEF IInv
<1>2. QED BY <1>1, InvariantHolds, PTL

\* A walk that goes on, of a request that was walking, goes on by WalkOn.
LEMMA WalkingIsWalkOn ==
    ASSUME IInv, Next, NEW r \in Requests, At(r, "walk"), At(r, "walk")',
           request'[r] # request[r]
    PROVE  WalkOn(r)
<1>1. request \in [Requests -> Walk] /\ request[r] # Idle
  BY DEF IInv, TypeOK, At, Idle
<1>2. ASSUME NEW q \in Requests, NEW req, Goto(q, req)
      PROVE  q = r /\ req.step = "walk"
  BY <1>1, <1>2 DEF Goto, At
<1>3. ASSUME NEW q \in Requests, Finish(q) PROVE FALSE
  BY <1>2, <1>3 DEF Finish, Idle
<1>4. PICK q \in Requests :
         \/ \E p \in Categories \cup {None} :
               Create(q, p) \/ \E c \in Categories : Move(q, c, p)
         \/ Step(q)
         \/ WriteRow(q)
         \/ \E c \in Categories : RemoveRead(q, c)
         \/ Remove(q)
         \/ Abort(q)
  BY DEF Next
<1>5. CASE \E p \in Categories \cup {None} :
              Create(q, p) \/ \E c \in Categories : Move(q, c, p)
  BY <1>1, <1>2, <1>5 DEF Create, Move, GiveParent
<1>6. CASE WriteRow(q)
  BY <1>2, <1>3, <1>6 DEF WriteRow, Idle
<1>7. CASE \E c \in Categories : RemoveRead(q, c)
  BY <1>1, <1>2, <1>7 DEF RemoveRead
<1>8. CASE WalkEnds(q)
  <2> DEFINE req == [Idle EXCEPT !.step = "write", !.category = request[q].category,
                                 !.parent = request[q].parent]
  <2>1. Goto(q, req) /\ req.step = "write"
    BY <1>8 DEF WalkEnds, Idle
  <2> HIDE DEF req
  <2>2. QED BY <1>2, <2>1
<1>9. CASE WalkOn(q)
  <2>1. q = r
    BY <1>2, <1>9 DEF WalkOn
  <2>2. QED BY <1>9, <2>1
<1>10. QED
  BY <1>3, <1>4, <1>5, <1>6, <1>7, <1>8, <1>9 DEF Step, WalkRefuses, Remove, Abort

\* However many requests move the categories it meets, a walk meets a new one
\* with every query and no more than there are (the loop of assertValidParent
\* in admin-categories.service): the bound that lets EveryWalkEnds hold.
THEOREM WalksAreShort ==
    ASSUME IsFiniteSet(Categories)
    PROVE  Spec => WalksClimb
<1>1. ASSUME IInv, [Next]_vars, NEW r \in Requests, At(r, "walk"), At(r, "walk")',
             request'[r] # request[r]
      PROVE  /\ Cardinality(request'[r].visited) = Cardinality(request[r].visited) + 1
             /\ request'[r].visited \subseteq Categories
  <2> DEFINE c == request[r].next
             old == request[r].visited
  <2>1. WalkOn(r)
    BY <1>1, WalkingIsWalkOn DEF vars
  <2>2. request \in [Requests -> Walk] /\ exists \subseteq Categories
    BY <1>1 DEF IInv, TypeOK
  <2>3. c \in Categories /\ c \notin old /\ old \subseteq Categories
    BY <2>1, <2>2 DEF WalkOn, Cyclic, Walk
  <2>4. request'[r].visited = old \cup {c}
    BY <2>1, <2>2 DEF WalkOn, Goto, Walk
  <2>5. IsFiniteSet(old)
    BY <2>3, FS_Subset
  <2> HIDE DEF old
  <2>6. Cardinality(old \cup {c}) = Cardinality(old) + 1
    BY <2>3, <2>5, FS_AddElement
  <2>7. QED BY <2>3, <2>4, <2>6 DEF old
<1>2. IInv /\ [Next]_vars =>
      [\A r \in Requests : At(r, "walk") /\ At(r, "walk")' /\ request'[r] # request[r] =>
          /\ Cardinality(request'[r].visited) = Cardinality(request[r].visited) + 1
          /\ request'[r].visited \subseteq Categories]_request
  BY <1>1
<1>3. QED BY <1>2, InvariantHolds, PTL DEF Spec, WalksClimb

\* One request is served at a time.
Serial == \A q, r \in Requests : request[q] # Idle /\ request[r] # Idle => q = r

NoMoveOvertakes == stale = {} /\ ~raced

LEMMA SerialStep ==
    ASSUME IInv, Serial, NoMoveOvertakes, [Next]_vars
    PROVE  NoMoveOvertakes'
<1>1. CASE UNCHANGED history
  BY <1>1 DEF history, NoMoveOvertakes
<1>2. ASSUME NEW r \in Requests, Finish(r) PROVE NoMoveOvertakes'
  BY <1>2 DEF Finish, NoMoveOvertakes
<1>3. ASSUME NEW r \in Requests, WriteRow(r) PROVE NoMoveOvertakes'
  <2>1. request[r] # Idle
    BY <1>3 DEF WriteRow, At, Idle
  <2>2. CASE request[r].category = None
    BY <1>2, <1>3, <2>2 DEF WriteRow
  <2>3. CASE request[r].category # None
    <3>1. stale' = {q \in Requests \ {r} : request[q] # Idle} /\ raced' = (raced \/ r \in stale)
      BY <1>3, <2>3 DEF WriteRow
    <3>2. QED BY <2>1, <3>1 DEF Serial, NoMoveOvertakes
  <2>4. QED BY <2>2, <2>3
<1>4. QED
  BY <1>1, <1>2, <1>3 DEF Next, vars, Create, Move, GiveParent, Step, WalkOn, WalkEnds,
     WalkRefuses, RemoveRead, Remove, Abort

\* Where no two requests overlap, the walk keeps the hierarchy free of cycles
\* without exception: what AcyclicUnlessRaced excepts is a matter of overlap.
THEOREM AcyclicWhenSerial == Spec /\ []Serial => []Acyclic
<1>1. Init => NoMoveOvertakes
  BY DEF Init, NoMoveOvertakes
<1>2. IInv /\ NoMoveOvertakes => Acyclic
  BY DEF IInv, AcyclicUnlessRaced, NoMoveOvertakes
<1>3. IInv /\ Serial /\ NoMoveOvertakes /\ [Next]_vars => NoMoveOvertakes'
  BY SerialStep
<1>4. QED BY <1>1, <1>2, <1>3, InvariantHolds, PTL DEF Spec
=============================================================================

----------------------- MODULE ImageReferencesProofs -----------------------
(***************************************************************************)
(* Proofs, for any number of rows, objects and requests, that no row       *)
(* refers to an object that is not in the bucket, and that every object in *)
(* the bucket is accounted for.                                            *)
(*                                                                         *)
(* Objects are deleted by requests that have let go of their row, and what *)
(* they then hold is referred to by nobody: what they took from a row no   *)
(* other row ever referred to, and what they stored nobody has seen.       *)
(***************************************************************************)
EXTENDS ImageReferences, FiniteSetTheorems, TLAPS

\* A request holds a row until it deletes, and a new object only to commit it;
\* an upload to a gallery replaces nothing.
Shape ==
    \A r \in Requests : LET req == request[r] IN
        /\ req.step = "commit" <=> req.stored # None
        /\ req.step \in {"idle", "delete"} <=> req.owner = None
        /\ req.step \in {"store", "commit"} /\ req.owner \in Galleries => req.stale = {}

\* No two rows refer to one object.
Disjoint == \A o, p \in Owners : o # p => refers[o] \cap refers[p] = {}

\* What a request means to delete only its own row refers to.
Apart ==
    \A r \in Requests, o \in Owners :
        o # request[r].owner => request[r].stale \cap refers[o] = {}

\* A new object is in the bucket, and one request's alone.
Fresh ==
    \A r \in Requests : request[r].stored # None =>
        /\ request[r].stored \in bucket
        /\ \A o \in Owners : request[r].stored \notin refers[o]
        /\ \A q \in Requests : request[r].stored \notin request[q].stale
        /\ \A q \in Requests \ {r} : request[r].stored # request[q].stored

\* The requests that answer for x.
Answers(r, x) ==
    \/ request[r].stored = x
    \/ request[r].step = "delete" /\ x \in request[r].stale

Kept ==
    \A x \in bucket :
        \/ \E o \in Owners : x \in refers[o]
        \/ \E r \in Requests : Answers(r, x)
        \/ x \in excused \cup overtaken

IInv == TypeOK /\ Shape /\ Disjoint /\ Apart /\ Fresh /\ Kept /\ ReferencedObjectExists

Request ==
    [step : {"idle", "store", "commit", "remove", "deleteRow", "delete"},
     owner : Owners \cup {None}, stored : paths \cup {None}, stale : SUBSET paths]

LEMMA IdleIsRequest == Idle \in Request
BY DEF Idle, Request

\* The parts of the invariant that steps use, without its quantifiers.
LEMMA Types ==
    ASSUME TypeOK
    PROVE  /\ request \in [Requests -> Request]
           /\ refers \in [Owners -> SUBSET paths]
           /\ bucket \subseteq paths /\ paths \subseteq Objects
           /\ None \notin paths /\ None \notin Owners
           /\ \A o \in Owners : refers[o] \subseteq paths
BY NoneAssumption DEF TypeOK, Request

LEMMA InitCorrect == Init => IInv
<1> SUFFICES ASSUME Init PROVE IInv
  OBVIOUS
<1>1. \A r \in Requests : request[r] = Idle
  BY DEF Init
<1>2. \A o \in Owners : refers[o] = {}
  BY DEF Init
<1>3. TypeOK
  <2>1. \A o \in Single : Cardinality(refers[o]) <= 1
    BY <1>2, FS_EmptySet DEF Owners
  <2>2. request \in [Requests -> Request]
    BY IdleIsRequest DEF Init
  <2>3. QED BY <1>2, <2>1, <2>2 DEF Init, TypeOK, Request
<1>4. Shape /\ Apart /\ Fresh
  BY <1>1, NoneAssumption DEF Shape, Apart, Fresh, Idle
<1>5. Disjoint /\ Kept /\ ReferencedObjectExists
  BY <1>2 DEF Init, Disjoint, Kept, ReferencedObjectExists
<1>6. QED BY <1>3, <1>4, <1>5 DEF IInv

(***************************************************************************)
(* Steps that touch neither rows nor bucket                                *)
(***************************************************************************)

\* A request reads, or gives up, and keeps what it answers for.
LEMMA GoCorrect ==
    ASSUME IInv, NEW r \in Requests, NEW req \in Request,
           Goto(r, req), UNCHANGED <<exists, refers, bucket, paths, excused, overtaken>>,
           req.step # "commit" /\ req.stored = None,
           req.step \in {"idle", "delete"} <=> req.owner = None,
           req.step = "store" /\ req.owner \in Galleries => req.stale = {},
           \A o \in Owners : o # req.owner => req.stale \cap refers[o] = {},
           \A q \in Requests \ {r} : request[q].stored \notin req.stale,
           ~At(r, "delete"),
           request[r].stored # None => req.step = "delete" /\ request[r].stored \in req.stale
    PROVE  IInv'
<1>1. /\ request' = [request EXCEPT ![r] = req]
      /\ UNCHANGED <<exists, refers, bucket, paths, excused, overtaken>>
  BY DEF Goto
<1>2. \A q \in Requests : request'[q] = IF q = r THEN req ELSE request[q]
  BY <1>1, Types DEF IInv
<1>3. TypeOK'
  BY <1>1 DEF IInv, TypeOK, Request
<1>4. Shape'
  BY <1>2 DEF IInv, Shape
<1>5. Disjoint' /\ ReferencedObjectExists'
  BY <1>1 DEF IInv, Disjoint, ReferencedObjectExists
<1>6. Apart'
  BY <1>1, <1>2 DEF IInv, Apart
<1>7. Fresh'
  BY <1>1, <1>2, Types DEF IInv, Fresh
<1>8. ASSUME NEW q \in Requests, NEW x \in bucket, Answers(q, x)
      PROVE  \E p \in Requests : Answers(p, x)'
  <2>1. x # None
    BY Types DEF IInv
  <2>2. Answers(q, x)'
    BY <1>2, <1>8, <2>1 DEF Answers, At
  <2>3. QED BY <2>2
<1>9. Kept'
  BY <1>1, <1>8 DEF IInv, Kept
<1>10. QED BY <1>3, <1>4, <1>5, <1>6, <1>7, <1>9 DEF IInv

LEMMA UploadReadCorrect ==
    ASSUME IInv, NEW r \in Requests, NEW o \in Owners, UploadRead(r, o)
    PROVE  IInv'
<1> DEFINE req == [Idle EXCEPT !.step = "store", !.owner = o,
                               !.stale = IF o \in Single THEN refers[o] ELSE {}]
<1>1. /\ request[r] = Idle /\ Goto(r, req)
      /\ UNCHANGED <<exists, refers, bucket, paths, excused, overtaken>>
  BY DEF UploadRead
<1>2. /\ req.step = "store" /\ req.owner = o /\ req.stored = None
      /\ req.stale \in {refers[o], {}}
      /\ o \in Galleries => req.stale = {}
      /\ req \in Request
  BY Types, OwnersAssumption DEF Idle, Request, IInv
<1> HIDE DEF req
<1>3. /\ \A p \in Owners : p # o => req.stale \cap refers[p] = {}
      /\ \A q \in Requests : request[q].stored \notin req.stale
  BY <1>2, Types DEF IInv, Disjoint, Fresh
<1>4. ~At(r, "delete") /\ request[r].stored = None
  BY <1>1 DEF At, Idle
<1>5. QED BY <1>1, <1>2, <1>3, <1>4, Types, GoCorrect DEF IInv

LEMMA RemovalReadCorrect ==
    ASSUME IInv, NEW r \in Requests, NEW o \in Owners,
           NEW step \in {"remove", "deleteRow"}, NEW S \in SUBSET refers[o],
           request[r] = Idle,
           Goto(r, [step |-> step, owner |-> o, stored |-> None, stale |-> S]),
           UNCHANGED <<exists, refers, bucket, paths, excused, overtaken>>
    PROVE  IInv'
<1> DEFINE req == [step |-> step, owner |-> o, stored |-> None, stale |-> S]
<1>1. req \in Request
  BY Types DEF Request, IInv
<1>2. req.step = step /\ req.owner = o /\ req.stored = None /\ req.stale = S
  OBVIOUS
<1>3. Goto(r, req)
  OBVIOUS
<1> HIDE DEF req
<1>4. /\ \A p \in Owners : p # o => req.stale \cap refers[p] = {}
      /\ \A q \in Requests : request[q].stored \notin req.stale
  BY <1>2, Types DEF IInv, Disjoint, Fresh
<1>5. ~At(r, "delete") /\ request[r].stored = None
  BY DEF At, Idle
<1>6. QED BY <1>1, <1>2, <1>3, <1>4, <1>5, Types, GoCorrect DEF IInv

LEMMA GivesUpCorrect ==
    ASSUME IInv, NEW r \in Requests, StoreFails(r) \/ RemovalFails(r)
    PROVE  IInv'
<1>1. /\ request[r].step \in {"store", "remove", "deleteRow"}
      /\ Goto(r, Idle)
      /\ UNCHANGED <<exists, refers, bucket, paths, excused, overtaken>>
  BY DEF StoreFails, RemovalFails, At
<1>2. ~At(r, "delete") /\ request[r].stored = None
  BY <1>1 DEF At, IInv, Shape
<1>3. QED BY <1>1, <1>2, IdleIsRequest, GoCorrect DEF Idle

LEMMA CommitFailsCorrect ==
    ASSUME IInv, NEW r \in Requests, CommitFails(r)
    PROVE  IInv'
<1> DEFINE req == [Idle EXCEPT !.step = "delete", !.stale = {request[r].stored}]
<1>1. /\ request[r].step = "commit" /\ Goto(r, req)
      /\ UNCHANGED <<exists, refers, bucket, paths, excused, overtaken>>
  BY DEF CommitFails, At
<1>2. request[r].stored # None /\ request[r].stored \in paths
  BY <1>1, Types DEF IInv, Shape, Request
<1>3. /\ req.step = "delete" /\ req.owner = None /\ req.stored = None
      /\ req.stale = {request[r].stored} /\ req \in Request
  BY <1>2 DEF Idle, Request
<1> HIDE DEF req
<1>4. /\ \A o \in Owners : req.stale \cap refers[o] = {}
      /\ \A q \in Requests \ {r} : request[q].stored \notin req.stale
  BY <1>2, <1>3 DEF IInv, Fresh
<1>5. QED BY <1>1, <1>2, <1>3, <1>4, GoCorrect DEF At

(***************************************************************************)
(* Steps that write the bucket                                             *)
(***************************************************************************)

LEMMA StoreObjectCorrect ==
    ASSUME IInv, NEW r \in Requests, NEW x \in Objects, StoreObject(r, x)
    PROVE  IInv'
<1> DEFINE req == [request[r] EXCEPT !.step = "commit", !.stored = x]
<1>1. /\ request[r].step = "store" /\ x \notin paths
      /\ paths' = paths \cup {x} /\ bucket' = bucket \cup {x}
      /\ request' = [request EXCEPT ![r] = req]
      /\ UNCHANGED <<exists, refers, excused, overtaken>>
  BY DEF StoreObject, At, Goto
<1>2. /\ req.step = "commit" /\ req.stored = x
      /\ req.owner = request[r].owner /\ req.stale = request[r].stale
  BY Types DEF IInv, Request
<1>3. /\ \A q \in Requests : request'[q] = IF q = r THEN req ELSE request[q]
      /\ \A q \in Requests : request[q].stale \subseteq paths /\ request[q].stored # x
      /\ x # None /\ request[r].stored = None
  BY <1>1, Types, NoneAssumption DEF IInv, Request, Shape
<1>4. TypeOK'
  <2>1. request' \in [Requests -> Request']
    <3>1. req \in Request'
      BY <1>1, Types DEF IInv, Request
    <3>2. \A q \in Requests : request[q] \in Request'
      BY <1>1, Types DEF IInv, Request
    <3> HIDE DEF req
    <3>3. QED BY <1>1, <3>1, <3>2, Types DEF IInv
  <2>2. QED BY <1>1, <2>1 DEF IInv, TypeOK, Request
<1> HIDE DEF req
<1>5. Shape'
  BY <1>1, <1>2, <1>3 DEF IInv, Shape
<1>6. Disjoint' /\ ReferencedObjectExists'
  BY <1>1 DEF IInv, Disjoint, ReferencedObjectExists
<1>7. Apart'
  BY <1>1, <1>2, <1>3 DEF IInv, Apart
<1>8. Fresh'
  <2> SUFFICES ASSUME NEW p \in Requests, request'[p].stored # None
               PROVE  /\ request'[p].stored \in bucket'
                      /\ \A o \in Owners : request'[p].stored \notin refers'[o]
                      /\ \A q \in Requests : request'[p].stored \notin request'[q].stale
                      /\ \A q \in Requests \ {p} : request'[p].stored # request'[q].stored
    BY DEF Fresh
  <2>1. \A q \in Requests : request'[q].stale = request[q].stale
    BY <1>2, <1>3
  <2>2. CASE p = r
    BY <1>1, <1>2, <1>3, <2>1, <2>2, Types DEF IInv
  <2>3. CASE p # r
    BY <1>1, <1>2, <1>3, <2>1, <2>3 DEF IInv, Fresh
  <2>4. QED BY <2>2, <2>3
<1>9. ASSUME NEW y \in bucket, NEW q \in Requests, Answers(q, y)
      PROVE  Answers(q, y)'
  <2>1. y # None
    BY Types DEF IInv
  <2>2. QED BY <1>1, <1>3, <1>9, <2>1 DEF Answers
<1>10. Answers(r, x)'
  BY <1>2, <1>3 DEF Answers
<1>11. Kept'
  BY <1>1, <1>9, <1>10 DEF IInv, Kept
<1>12. QED BY <1>4, <1>5, <1>6, <1>7, <1>8, <1>11 DEF IInv

\* A request gives up, and the object it stored is excused.
LEMMA StoreUnconfirmedCorrect ==
    ASSUME IInv, NEW r \in Requests, NEW x \in Objects, StoreUnconfirmed(r, x)
    PROVE  IInv'
<1>1. /\ request[r].step = "store" /\ x \notin paths
      /\ paths' = paths \cup {x} /\ bucket' = bucket \cup {x}
      /\ excused' = excused \cup {x}
      /\ request' = [request EXCEPT ![r] = Idle]
      /\ UNCHANGED <<exists, refers, overtaken>>
  BY DEF StoreUnconfirmed, At, Goto
<1>2. \A q \in Requests : request'[q] = IF q = r THEN Idle ELSE request[q]
  BY <1>1, Types DEF IInv
<1>3. TypeOK'
  <2>1. Idle \in Request' /\ \A q \in Requests : request[q] \in Request'
    BY <1>1, IdleIsRequest, Types DEF IInv, Request
  <2>2. request' \in [Requests -> Request']
    BY <1>1, <2>1, Types DEF IInv
  <2>3. QED BY <1>1, <2>2 DEF IInv, TypeOK, Request
<1>4. Shape' /\ Apart'
  BY <1>1, <1>2 DEF IInv, Shape, Apart, Idle
<1>5. Disjoint' /\ ReferencedObjectExists'
  BY <1>1 DEF IInv, Disjoint, ReferencedObjectExists
<1>6. Fresh'
  BY <1>1, <1>2, Types DEF IInv, Fresh, Idle
<1>7. ASSUME NEW y \in bucket, NEW q \in Requests, Answers(q, y)
      PROVE  Answers(q, y)'
  <2>1. y # None /\ request[r].stored = None
    BY <1>1, Types DEF IInv, Shape
  <2>2. q # r
    BY <1>1, <1>7, <2>1 DEF Answers
  <2>3. QED BY <1>2, <1>7, <2>2 DEF Answers
<1>8. Kept'
  BY <1>1, <1>7 DEF IInv, Kept
<1>9. QED BY <1>3, <1>4, <1>5, <1>6, <1>8 DEF IInv

\* A request ends; what it answered for and has not deleted is excused.
LEMMA EndCorrect ==
    ASSUME IInv, NEW r \in Requests, Goto(r, Idle), UNCHANGED <<exists, refers, paths, overtaken>>,
           bucket' \subseteq bucket, bucket \ bucket' \subseteq request[r].stale,
           bucket' # bucket => At(r, "delete"),
           excused \subseteq excused' /\ excused' \subseteq paths,
           At(r, "delete") => request[r].stale \cap bucket' \subseteq excused',
           request[r].stored # None => request[r].stored \in excused'
    PROVE  IInv'
<1>1. \A q \in Requests : request'[q] = IF q = r THEN Idle ELSE request[q]
  BY Types DEF Goto, IInv
<1>2. TypeOK'
  <2>1. request' \in [Requests -> Request]
    BY Types, IdleIsRequest DEF Goto, IInv
  <2>2. QED BY <2>1 DEF IInv, TypeOK, Request
<1>3. Shape' /\ Disjoint' /\ Apart'
  BY <1>1 DEF IInv, Shape, Disjoint, Apart, Idle
<1>4. Fresh'
  BY <1>1, Types DEF IInv, Fresh, Idle
<1>5. ASSUME NEW y \in bucket', NEW q \in Requests, Answers(q, y), y \notin excused'
      PROVE  Answers(q, y)'
  <2>1. y # None
    BY Types DEF IInv
  <2>2. q # r
    BY <1>5, <2>1 DEF Answers, At
  <2>3. QED BY <1>1, <1>5, <2>2 DEF Answers
<1>6. Kept'
  BY <1>5 DEF IInv, Kept
<1>7. ReferencedObjectExists'
  <2>1. CASE bucket' = bucket
    BY <2>1 DEF IInv, ReferencedObjectExists
  <2>2. CASE bucket' # bucket
    <3>1. \A o \in Owners : request[r].stale \cap refers[o] = {}
      BY <2>2, Types DEF IInv, Shape, Apart, At
    <3>2. QED BY <3>1 DEF IInv, ReferencedObjectExists
  <2>3. QED BY <2>1, <2>2
<1>8. QED BY <1>2, <1>3, <1>4, <1>6, <1>7 DEF IInv

LEMMA DeleteStaleCorrect ==
    ASSUME IInv, NEW r \in Requests, DeleteStale(r)
    PROVE  IInv'
<1>1. PICK failed \in SUBSET request[r].stale :
         /\ bucket' = bucket \ (request[r].stale \ failed)
         /\ excused' = excused \cup failed
  BY DEF DeleteStale
<1>2. /\ At(r, "delete") /\ Goto(r, Idle)
      /\ UNCHANGED <<exists, refers, paths, overtaken>>
  BY DEF DeleteStale
<1>3. request[r].stale \subseteq paths /\ excused \subseteq paths /\ request[r].stored = None
  BY <1>2, Types DEF IInv, TypeOK, Request, Shape, At
<1>4. QED BY <1>1, <1>2, <1>3, EndCorrect

LEMMA CrashCorrect ==
    ASSUME IInv, NEW r \in Requests, Crash(r)
    PROVE  IInv'
<1>1. /\ excused' = excused \cup (IF At(r, "delete") THEN request[r].stale ELSE {})
                            \cup ({request[r].stored} \ {None})
      /\ Goto(r, Idle)
      /\ UNCHANGED <<exists, refers, bucket, paths, overtaken>>
  BY DEF Crash
<1>2. /\ request[r].stale \subseteq paths /\ excused \subseteq paths
      /\ request[r].stored \in paths \cup {None}
  BY Types DEF IInv, TypeOK, Request
<1>3. QED BY <1>1, <1>2, EndCorrect

(***************************************************************************)
(* Steps that write rows                                                   *)
(***************************************************************************)

\* A request writes its row o, which then refers to S, and goes on to delete
\* what it had read there.
LEMMA WriteCorrect ==
    ASSUME IInv, NEW r \in Requests, NEW o \in Owners, NEW S \in SUBSET paths,
           request[r].owner = o,
           exists' \in {exists, exists \ {o}}, o \notin exists' => S = {},
           refers' = [refers EXCEPT ![o] = S],
           o \in Single => Cardinality(S) <= 1,
           Goto(r, [Idle EXCEPT !.step = "delete", !.stale = request[r].stale]),
           Overtake(r, o),
           UNCHANGED <<bucket, paths, excused>>,
           S \cap request[r].stale = {},
           S \subseteq refers[o] \cup ({request[r].stored} \ {None}),
           request[r].stored # None => request[r].stored \in S
    PROVE  IInv'
<1> DEFINE req == [Idle EXCEPT !.step = "delete", !.stale = request[r].stale]
<1>1. /\ req.step = "delete" /\ req.owner = None /\ req.stored = None
      /\ req.stale = request[r].stale /\ req \in Request
  BY Types DEF Idle, Request, IInv
<1> HIDE DEF req
<1>2. \A q \in Requests : request'[q] = IF q = r THEN req ELSE request[q]
  BY Types DEF Goto, IInv, req
<1>3. /\ \A p \in Owners : refers'[p] = IF p = o THEN S ELSE refers[p]
      /\ overtaken' = overtaken \cup ((refers[o] \ S) \ request[r].stale)
  BY Types DEF Overtake, IInv
<1>4. S \subseteq bucket
  BY Types DEF IInv, ReferencedObjectExists, Fresh
<1>5. TypeOK'
  <2>1. request' \in [Requests -> Request]
    BY <1>1, Types DEF Goto, IInv, req
  <2>2. refers' \in [Owners -> SUBSET paths]
    BY Types DEF IInv
  <2>3. \A p \in Owners : p \notin exists' => refers'[p] = {}
    BY <1>3 DEF IInv, TypeOK
  <2>4. \A p \in Single : Cardinality(refers'[p]) <= 1
    BY <1>3 DEF IInv, TypeOK, Owners
  <2>5. overtaken' \subseteq paths
    BY <1>3, Types DEF IInv, TypeOK
  <2>6. QED BY <2>1, <2>2, <2>3, <2>4, <2>5 DEF IInv, TypeOK, Request
<1>6. Shape'
  BY <1>1, <1>2, Types DEF IInv, Shape
<1>7. \A x \in S, p \in Owners \ {o} : x \notin refers[p]
  BY DEF IInv, Disjoint, Fresh
<1>8. Disjoint'
  BY <1>3, <1>7 DEF IInv, Disjoint
<1>9. \A x \in S, q \in Requests : request[q].owner # o => x \notin request[q].stale
  BY DEF IInv, Apart, Fresh
<1>10. Apart'
  <2> SUFFICES ASSUME NEW q \in Requests, NEW p \in Owners, p # request'[q].owner
               PROVE  request'[q].stale \cap refers'[p] = {}
    BY DEF Apart
  <2>1. CASE q = r
    BY <1>1, <1>2, <1>3, <2>1 DEF IInv, Apart
  <2>2. CASE q # r
    BY <1>2, <1>3, <1>9, <2>2 DEF IInv, Apart
  <2>3. QED BY <2>1, <2>2
<1>11. Fresh'
  <2> SUFFICES ASSUME NEW p \in Requests, request'[p].stored # None
               PROVE  /\ request'[p].stored \in bucket'
                      /\ \A d \in Owners : request'[p].stored \notin refers'[d]
                      /\ \A q \in Requests : request'[p].stored \notin request'[q].stale
                      /\ \A q \in Requests \ {p} : request'[p].stored # request'[q].stored
    BY DEF Fresh
  <2>1. p # r /\ request'[p].stored = request[p].stored
    BY <1>1, <1>2
  <2>2. request[p].stored \notin S
    BY <2>1 DEF IInv, Fresh
  <2>3. \A q \in Requests : request'[q].stale = request[q].stale
    BY <1>1, <1>2
  <2>4. \A q \in Requests : request'[q].stored \in {request[q].stored, None}
    BY <1>1, <1>2
  <2>5. QED BY <1>3, <2>1, <2>2, <2>3, <2>4 DEF IInv, Fresh
<1>12. ASSUME NEW y \in bucket
       PROVE  \/ \E p \in Owners : y \in refers'[p]
              \/ \E q \in Requests : Answers(q, y)'
              \/ y \in excused \cup overtaken'
  <2>0. y # None
    BY Types DEF IInv
  <2>1. CASE y \in request[r].stale
    BY <1>1, <1>2, <2>1 DEF Answers
  <2>2. CASE y \in S
    BY <1>3, <2>2
  <2>3. CASE y \notin request[r].stale /\ y \notin S
    <3>1. CASE \E p \in Owners : y \in refers[p]
      BY <1>3, <2>3, <3>1
    <3>2. ASSUME NEW q \in Requests, Answers(q, y) PROVE Answers(q, y)'
      BY <1>1, <1>2, <2>0, <2>3, <3>2 DEF Answers
    <3>3. CASE y \in excused \cup overtaken
      BY <1>3, <3>3
    <3>4. QED BY <3>1, <3>2, <3>3 DEF IInv, Kept
  <2>4. QED BY <2>1, <2>2, <2>3
<1>13. Kept'
  BY <1>12 DEF Kept
<1>14. ReferencedObjectExists'
  BY <1>3, <1>4 DEF IInv, ReferencedObjectExists
<1>15. QED BY <1>5, <1>6, <1>8, <1>10, <1>11, <1>13, <1>14 DEF IInv

LEMMA CommitReferenceCorrect ==
    ASSUME IInv, NEW r \in Requests, CommitReference(r)
    PROVE  IInv'
<1> DEFINE o == request[r].owner
           x == request[r].stored
           S == IF o \in Single THEN {x} ELSE refers[o] \cup {x}
<1>1. /\ request[r].step = "commit" /\ o \in exists
      /\ Goto(r, [Idle EXCEPT !.step = "delete", !.stale = request[r].stale])
      /\ Overtake(r, o)
      /\ UNCHANGED <<exists, bucket, paths, excused>>
  BY DEF CommitReference, At
<1>2. o \in Owners /\ x \in paths /\ x # None
  BY <1>1, Types DEF IInv, TypeOK, Shape, Request
<1>3. refers' = [refers EXCEPT ![o] = S]
  BY <1>2, Types DEF CommitReference, IInv
<1>4. S \in SUBSET paths /\ S \subseteq refers[o] \cup {x} /\ x \in S
  BY <1>2, Types DEF IInv
<1>5. S \cap request[r].stale = {}
  BY <1>1, <1>2 DEF IInv, Fresh, Shape, Owners
<1>6. o \in Single => Cardinality(S) <= 1
  <2>1. Cardinality({x}) = 1
    BY FS_Singleton
  <2>2. QED BY <2>1
<1>7. QED BY <1>1, <1>2, <1>3, <1>4, <1>5, <1>6, WriteCorrect

LEMMA CommitRemovalCorrect ==
    ASSUME IInv, NEW r \in Requests, CommitRemoval(r)
    PROVE  IInv'
<1> DEFINE o == request[r].owner
           S == IF o \in Single THEN {} ELSE refers[o] \ request[r].stale
<1>1. /\ request[r].step = "remove" /\ o \in exists
      /\ Goto(r, [Idle EXCEPT !.step = "delete", !.stale = request[r].stale])
      /\ Overtake(r, o)
      /\ UNCHANGED <<exists, bucket, paths, excused>>
  BY DEF CommitRemoval, At
<1>2. o \in Owners /\ request[r].stored = None
  BY <1>1, Types DEF IInv, TypeOK, Shape, Request
<1>3. refers' = [refers EXCEPT ![o] = S]
  BY <1>2, Types DEF CommitRemoval, IInv
<1>4. S \in SUBSET paths /\ S \subseteq refers[o] /\ S \cap request[r].stale = {}
  BY <1>2, Types DEF IInv
<1>5. o \in Single => Cardinality(S) <= 1
  BY FS_EmptySet
<1>6. QED BY <1>1, <1>2, <1>3, <1>4, <1>5, WriteCorrect

LEMMA DeleteRowCorrect ==
    ASSUME IInv, NEW r \in Requests, DeleteRow(r)
    PROVE  IInv'
<1> DEFINE o == request[r].owner
<1>1. /\ request[r].step = "deleteRow" /\ o \in exists
      /\ exists' = exists \ {o}
      /\ refers' = [refers EXCEPT ![o] = {}]
      /\ Goto(r, [Idle EXCEPT !.step = "delete", !.stale = request[r].stale])
      /\ Overtake(r, o)
      /\ UNCHANGED <<bucket, paths, excused>>
  BY DEF DeleteRow, At
<1>2. o \in Owners /\ request[r].stored = None
  BY <1>1, Types DEF IInv, TypeOK, Shape, Request
<1>3. Cardinality({}) <= 1
  BY FS_EmptySet
<1>4. /\ {} \in SUBSET paths /\ {} \cap request[r].stale = {}
      /\ {} \subseteq refers[o] \cup ({request[r].stored} \ {None})
  OBVIOUS
<1> HIDE DEF o
<1>5. QED BY <1>1, <1>2, <1>3, <1>4, WriteCorrect DEF o

LEMMA NextCorrect == IInv /\ [Next]_vars => IInv'
<1> SUFFICES ASSUME IInv, [Next]_vars PROVE IInv'
  OBVIOUS
<1>1. CASE UNCHANGED vars
  BY <1>1 DEF vars, IInv, TypeOK, Shape, Disjoint, Apart, Fresh, Kept, Answers,
              ReferencedObjectExists
<1>2. ASSUME NEW r \in Requests, NEW o \in Owners, UploadRead(r, o) PROVE IInv'
  BY <1>2, UploadReadCorrect
<1>3. ASSUME NEW r \in Requests, NEW o \in Owners, DeleteRowRead(r, o) PROVE IInv'
  BY <1>3, RemovalReadCorrect DEF DeleteRowRead
<1>4. ASSUME NEW r \in Requests, NEW o \in Owners, NEW x \in Objects, RemoveRead(r, o, x)
      PROVE  IInv'
  BY <1>4, RemovalReadCorrect DEF RemoveRead
<1>5. ASSUME NEW r \in Requests, NEW x \in Objects,
             StoreObject(r, x) \/ StoreUnconfirmed(r, x)
      PROVE  IInv'
  BY <1>5, StoreObjectCorrect, StoreUnconfirmedCorrect
<1>6. ASSUME NEW r \in Requests, StoreFails(r) \/ RemovalFails(r) PROVE IInv'
  BY <1>6, GivesUpCorrect
<1>7. ASSUME NEW r \in Requests, CommitReference(r) \/ CommitFails(r) PROVE IInv'
  BY <1>7, CommitReferenceCorrect, CommitFailsCorrect
<1>8. ASSUME NEW r \in Requests, CommitRemoval(r) \/ DeleteRow(r) PROVE IInv'
  BY <1>8, CommitRemovalCorrect, DeleteRowCorrect
<1>9. ASSUME NEW r \in Requests, DeleteStale(r) \/ Crash(r) PROVE IInv'
  BY <1>9, DeleteStaleCorrect, CrashCorrect
<1>10. QED
  BY <1>1, <1>2, <1>3, <1>4, <1>5, <1>6, <1>7, <1>8, <1>9 DEF Next

LEMMA InvariantHolds == Spec => []IInv
BY InitCorrect, NextCorrect, PTL DEF Spec

(***************************************************************************)
(* Requests one at a time                                                  *)
(***************************************************************************)

\* No two requests are being served.
Alone == \A q, r \in Requests : request[q] = Idle \/ request[r] = Idle \/ q = r

\* A request has read all that it is going to take from its row.
Caught ==
    \A r \in Requests : LET req == request[r] IN
        req.step = "deleteRow" \/ (req.step # "idle" /\ req.owner \in Single)
            => refers[req.owner] \subseteq req.stale

\* A row with one image column refers to one object at most.
OneEach == \A o \in Single : \A x, y \in refers[o] : x = y

AloneInv == Caught /\ OneEach /\ overtaken = {}

LEMMA AloneInit == Init => AloneInv
BY DEF Init, AloneInv, Caught, OneEach, Owners, Idle

LEMMA Goes ==
    ASSUME IInv, NEW r \in Requests, NEW req, Goto(r, req)
    PROVE  \A q \in Requests : request'[q] = IF q = r THEN req ELSE request[q]
BY Types DEF Goto, IInv

\* A request goes on without writing a row.
LEMMA AloneGoes ==
    ASSUME IInv, AloneInv, NEW r \in Requests, NEW req, Goto(r, req),
           UNCHANGED <<refers, overtaken>>,
           req.step = "deleteRow" \/ (req.step # "idle" /\ req.owner \in Single)
               => refers[req.owner] \subseteq req.stale
    PROVE  AloneInv'
<1>1. Caught'
  BY Goes DEF AloneInv, Caught
<1>2. QED BY <1>1 DEF AloneInv, OneEach

LEMMA AloneReads ==
    ASSUME IInv, AloneInv, NEW r \in Requests, NEW o \in Owners, NEW x,
           UploadRead(r, o) \/ DeleteRowRead(r, o) \/ RemoveRead(r, o, x)
    PROVE  AloneInv'
<1>1. CASE UploadRead(r, o)
  <2> DEFINE req == [Idle EXCEPT !.step = "store", !.owner = o,
                                 !.stale = IF o \in Single THEN refers[o] ELSE {}]
  <2>1. /\ Goto(r, req) /\ UNCHANGED <<refers, overtaken>>
        /\ req.owner = o /\ req.step = "store"
        /\ o \in Single => req.stale = refers[o]
    BY <1>1 DEF UploadRead, Idle
  <2> HIDE DEF req
  <2>2. QED BY <2>1, AloneGoes
<1>2. CASE DeleteRowRead(r, o)
  <2> DEFINE req == [step |-> "deleteRow", owner |-> o, stored |-> None, stale |-> refers[o]]
  <2>1. /\ Goto(r, req) /\ UNCHANGED <<refers, overtaken>>
        /\ req.owner = o /\ req.stale = refers[o]
    BY <1>2 DEF DeleteRowRead
  <2> HIDE DEF req
  <2>2. QED BY <2>1, AloneGoes
<1>3. CASE RemoveRead(r, o, x)
  <2> DEFINE req == [step |-> "remove", owner |-> o, stored |-> None, stale |-> {x}]
  <2>1. /\ Goto(r, req) /\ UNCHANGED <<refers, overtaken>> /\ x \in refers[o]
        /\ req.owner = o /\ req.step = "remove" /\ req.stale = {x}
    BY <1>3 DEF RemoveRead
  <2> HIDE DEF req
  <2>2. o \in Single => refers[o] \subseteq req.stale
    BY <2>1 DEF AloneInv, OneEach
  <2>3. QED BY <2>1, <2>2, AloneGoes
<1>4. QED BY <1>1, <1>2, <1>3

LEMMA AloneStores ==
    ASSUME IInv, AloneInv, NEW r \in Requests, NEW x, StoreObject(r, x)
    PROVE  AloneInv'
<1> DEFINE req == [request[r] EXCEPT !.step = "commit", !.stored = x]
<1>1. /\ Goto(r, req) /\ UNCHANGED <<refers, overtaken>> /\ request[r].step = "store"
      /\ request[r] \in Request
  BY Types DEF StoreObject, At, IInv
<1>2. req.step = "commit" /\ req.owner = request[r].owner /\ req.stale = request[r].stale
  BY <1>1 DEF Request
<1> HIDE DEF req
<1>3. req.owner \in Single => refers[req.owner] \subseteq req.stale
  BY <1>1, <1>2 DEF AloneInv, Caught
<1>4. QED BY <1>1, <1>2, <1>3, AloneGoes

\* A request ends, or goes on to delete, without a row of its own.
LEMMA AloneEnds ==
    ASSUME IInv, AloneInv, NEW r \in Requests, NEW x,
           \/ StoreFails(r) \/ StoreUnconfirmed(r, x) \/ CommitFails(r)
           \/ RemovalFails(r) \/ DeleteStale(r) \/ Crash(r)
    PROVE  AloneInv'
<1> DEFINE req == [Idle EXCEPT !.step = "delete", !.stale = {request[r].stored}]
<1>1. /\ Goto(r, Idle) \/ Goto(r, req)
      /\ UNCHANGED <<refers, overtaken>>
  BY DEF StoreFails, StoreUnconfirmed, CommitFails, RemovalFails, DeleteStale, Crash
<1>2. Idle.owner = None /\ Idle.step = "idle" /\ req.owner = None /\ req.step = "delete"
  BY DEF Idle
<1> HIDE DEF req
<1>3. None \notin Single
  BY NoneAssumption DEF Owners
<1>4. QED BY <1>1, <1>2, <1>3, AloneGoes

\* A request writes its row, and takes from it only what it had read.
LEMMA AloneWrites ==
    ASSUME IInv, AloneInv, Alone, NEW r \in Requests,
           CommitReference(r) \/ CommitRemoval(r) \/ DeleteRow(r)
    PROVE  AloneInv'
<1> DEFINE o == request[r].owner
           S == refers'[o]
           req == [Idle EXCEPT !.step = "delete", !.stale = request[r].stale]
<1>1. /\ request[r].step \in {"commit", "remove", "deleteRow"} /\ o \in exists
      /\ Goto(r, req) /\ Overtake(r, o)
  BY DEF CommitReference, CommitRemoval, DeleteRow, At
<1>2. req.owner = None /\ req.step = "delete" /\ o \in Owners
  BY <1>1, Types DEF Idle, IInv, TypeOK
<1> HIDE DEF req
<1>3. /\ refers[o] \ S \subseteq request[r].stale
      /\ o \in Single => \A x, y \in S : x = y
      /\ \A p \in Owners \ {o} : refers'[p] = refers[p]
  <2>1. /\ request[r].step = "deleteRow" => refers[o] \subseteq request[r].stale
        /\ o \in Single => refers[o] \subseteq request[r].stale
    BY <1>1 DEF AloneInv, Caught
  <2>2. CASE CommitReference(r)
    BY <1>2, <2>1, <2>2, Types DEF CommitReference, IInv
  <2>3. CASE CommitRemoval(r)
    BY <1>2, <2>1, <2>3, Types DEF CommitRemoval, IInv
  <2>4. CASE DeleteRow(r)
    BY <1>2, <2>1, <2>4, Types DEF DeleteRow, At, IInv
  <2>5. QED BY <2>2, <2>3, <2>4
<1>4. overtaken' = {}
  BY <1>1, <1>3 DEF Overtake, AloneInv
<1>5. OneEach'
  BY <1>3 DEF AloneInv, OneEach, Owners
<1>6. Caught'
  <2>1. \A q \in Requests \ {r} : request[q] = Idle
    BY <1>1 DEF Alone, Idle
  <2>2. \A q \in Requests \ {r} : request'[q].step = "idle"
    BY <1>1, <2>1, Goes DEF Idle
  <2>3. request'[r] = req /\ None \notin Single
    BY <1>1, Goes, NoneAssumption DEF Owners
  <2>4. QED BY <1>2, <2>2, <2>3 DEF Caught
<1>7. QED BY <1>4, <1>5, <1>6 DEF AloneInv

LEMMA AloneNext == IInv /\ AloneInv /\ Alone /\ [Next]_vars => AloneInv'
<1> SUFFICES ASSUME IInv, AloneInv, Alone, [Next]_vars PROVE AloneInv'
  OBVIOUS
<1>1. CASE UNCHANGED vars
  BY <1>1 DEF vars, AloneInv, Caught, OneEach
<1>2. ASSUME NEW r \in Requests, NEW o \in Owners, UploadRead(r, o) \/ DeleteRowRead(r, o)
      PROVE  AloneInv'
  BY <1>2, AloneReads
<1>3. ASSUME NEW r \in Requests, NEW o \in Owners, NEW x \in Objects, RemoveRead(r, o, x)
      PROVE  AloneInv'
  BY <1>3, AloneReads
<1>4. ASSUME NEW r \in Requests, NEW x \in Objects, StoreObject(r, x)
      PROVE  AloneInv'
  BY <1>4, AloneStores
<1>5. ASSUME NEW r \in Requests, NEW x \in Objects, StoreUnconfirmed(r, x)
      PROVE  AloneInv'
  BY <1>5, AloneEnds
<1>6. ASSUME NEW r \in Requests,
             StoreFails(r) \/ CommitFails(r) \/ RemovalFails(r) \/ DeleteStale(r) \/ Crash(r)
      PROVE  AloneInv'
  BY <1>6, AloneEnds
<1>7. ASSUME NEW r \in Requests, CommitReference(r) \/ CommitRemoval(r) \/ DeleteRow(r)
      PROVE  AloneInv'
  BY <1>7, AloneWrites
<1>8. QED BY <1>1, <1>2, <1>3, <1>4, <1>5, <1>6, <1>7 DEF Next

(***************************************************************************)
(* The life cycle of objects                                               *)
(***************************************************************************)

\* What the invariant says of stages: a row shows what is in the bucket, a
\* request holds what nobody shows.
StagesKnown ==
    /\ stage = [x \in Objects |-> stage[x]]
    /\ \A x \in Objects :
          /\ x \notin paths => stage[x] = "absent"
          /\ x \in paths \ bucket => stage[x] = "gone"
          /\ Shown(x) => stage[x] = "shown"
          /\ Held(x) => stage[x] = "held"
          /\ x \in bucket /\ ~Shown(x) /\ ~Held(x) => stage[x] = "loose"

LEMMA InvariantTellsStages == IInv => StagesKnown
<1> SUFFICES ASSUME IInv PROVE StagesKnown
  OBVIOUS
<1>1. bucket \subseteq paths /\ None \notin paths
  BY Types DEF IInv
<1>2. ASSUME NEW x \in Objects
      PROVE  /\ x \notin paths => stage[x] = "absent"
             /\ x \in paths \ bucket => stage[x] = "gone"
             /\ Shown(x) => stage[x] = "shown"
             /\ Held(x) => stage[x] = "held"
             /\ x \in bucket /\ ~Shown(x) /\ ~Held(x) => stage[x] = "loose"
  <2>1. stage[x] = StageOf(x)
    BY DEF stage
  <2>2. Shown(x) => x \in bucket
    BY DEF IInv, ReferencedObjectExists, Shown
  <2>3. Held(x) => x \in bucket /\ ~Shown(x)
    BY NoneAssumption DEF IInv, Fresh, Held, Shown
  <2> HIDE DEF Shown, Held
  <2>4. QED BY <1>1, <2>1, <2>2, <2>3 DEF StageOf
<1>3. stage = [x \in Objects |-> stage[x]]
  BY DEF stage
<1>4. QED BY <1>2, <1>3 DEF StagesKnown

LEMMA StagesKnownNext == IInv' => StagesKnown'
BY InvariantTellsStages, PTL

LEMMA InitImplements == Init => Lifecycle!Init
<1> SUFFICES ASSUME Init PROVE Lifecycle!Init
  OBVIOUS
<1>1. StagesKnown
  BY InitCorrect, InvariantTellsStages
<1>2. \A x \in Objects : stage[x] = "absent"
  BY <1>1 DEF Init, StagesKnown
<1>3. QED BY <1>1, <1>2 DEF Init, StagesKnown, Lifecycle!Init

\* Rows, bucket and held objects stay: nothing happens to any object.
LEMMA StagesStay ==
    ASSUME IInv, IInv', UNCHANGED <<refers, bucket, paths>>,
           \A x \in Objects : Held(x)' <=> Held(x)
    PROVE  UNCHANGED Lifecycle!vars
<1>1. StagesKnown /\ StagesKnown'
  BY InvariantTellsStages, StagesKnownNext
<1>2. \A x \in Objects : Shown(x)' <=> Shown(x)
  BY DEF Shown
<1>3. \A x \in Objects : stage'[x] = stage[x]
  <2> SUFFICES ASSUME NEW x \in Objects PROVE stage'[x] = stage[x]
    OBVIOUS
  <2>1. bucket \subseteq paths
    BY Types DEF IInv
  <2>2. QED BY <1>1, <1>2, <2>1 DEF StagesKnown
<1>4. stage' = stage
  BY <1>1, <1>3 DEF StagesKnown
<1>5. QED BY <1>4 DEF Lifecycle!vars

\* Only r moves, and holds nothing afterwards.
HoldsNothing(r) ==
    /\ \A q \in Requests \ {r} : request'[q] = request[q]
    /\ request'[r].stored = None

LEMMA GoesWithNothing ==
    ASSUME IInv, NEW r \in Requests, NEW req, Goto(r, req), req.stored = None
    PROVE  HoldsNothing(r)
BY Types DEF Goto, HoldsNothing, IInv

\* A request that held nothing goes on with nothing.
LEMMA QuietImplements ==
    ASSUME IInv, IInv', NEW r \in Requests, HoldsNothing(r),
           request[r].stored = None, UNCHANGED <<refers, bucket, paths>>
    PROVE  UNCHANGED Lifecycle!vars
<1>1. \A x \in Objects : Held(x)' <=> Held(x)
  BY NoneAssumption DEF Held, HoldsNothing
<1>2. QED BY <1>1, StagesStay

LEMMA ReadImplements ==
    ASSUME IInv, IInv', NEW r \in Requests, NEW o \in Owners, NEW x,
           UploadRead(r, o) \/ DeleteRowRead(r, o) \/ RemoveRead(r, o, x)
    PROVE  UNCHANGED Lifecycle!vars
<1>1. request[r].stored = None /\ UNCHANGED <<refers, bucket, paths>>
  BY DEF UploadRead, DeleteRowRead, RemoveRead, Idle
<1>2. HoldsNothing(r)
  <2>1. CASE UploadRead(r, o)
    <3> DEFINE req == [Idle EXCEPT !.step = "store", !.owner = o,
                                   !.stale = IF o \in Single THEN refers[o] ELSE {}]
    <3>1. Goto(r, req) /\ req.stored = None
      BY <2>1 DEF UploadRead, Idle
    <3> HIDE DEF req
    <3>2. QED BY <3>1, GoesWithNothing
  <2>2. CASE DeleteRowRead(r, o) \/ RemoveRead(r, o, x)
    BY <2>2, Types DEF DeleteRowRead, RemoveRead, Goto, HoldsNothing, IInv
  <2>3. QED BY <2>1, <2>2
<1>3. QED BY <1>1, <1>2, QuietImplements

LEMMA GivesUpImplements ==
    ASSUME IInv, IInv', NEW r \in Requests, StoreFails(r) \/ RemovalFails(r)
    PROVE  UNCHANGED Lifecycle!vars
<1>1. /\ request[r].step \in {"store", "remove", "deleteRow"}
      /\ Goto(r, Idle)
      /\ UNCHANGED <<exists, refers, bucket, paths, excused, overtaken>>
  BY DEF StoreFails, RemovalFails, At
<1>2. request[r].stored = None
  BY <1>1 DEF IInv, Shape
<1>3. QED BY <1>1, <1>2, GoesWithNothing, QuietImplements DEF Idle

LEMMA StoreImplements ==
    ASSUME IInv, IInv', NEW r \in Requests, NEW x \in Objects, StoreObject(r, x)
    PROVE  Lifecycle!Store(x)
<1>1. /\ x \notin paths /\ paths' = paths \cup {x} /\ bucket' = bucket \cup {x}
      /\ request' = [request EXCEPT ![r] =
                        [request[r] EXCEPT !.step = "commit", !.stored = x]]
      /\ request[r].stored = None /\ refers' = refers
  BY DEF StoreObject, Goto, IInv, Shape, At
<1>2. request'[r].stored = x /\ \A q \in Requests \ {r} : request'[q] = request[q]
  BY <1>1, Types DEF IInv, Request
<1>3. StagesKnown /\ StagesKnown'
  BY InvariantTellsStages, StagesKnownNext
<1>4. stage[x] = "absent" /\ stage'[x] = "held"
  <2>1. Held(x)'
    BY <1>2 DEF Held
  <2>2. QED BY <1>1, <1>3, <2>1 DEF StagesKnown
<1>5. ASSUME NEW y \in Objects, y # x PROVE stage'[y] = stage[y]
  <2>1. Held(y)' <=> Held(y)
    BY <1>1, <1>2, <1>5, NoneAssumption DEF Held
  <2>2. Shown(y)' <=> Shown(y)
    BY <1>1 DEF Shown
  <2>3. bucket \subseteq paths
    BY Types DEF IInv
  <2>4. QED BY <1>1, <1>3, <1>5, <2>1, <2>2, <2>3 DEF StagesKnown
<1>6. stage' = [y \in Objects |-> IF y \in {x} THEN "held" ELSE stage[y]]
  BY <1>3, <1>4, <1>5 DEF StagesKnown
<1>7. QED BY <1>1, <1>4, <1>6 DEF Lifecycle!Store, Lifecycle!Move

LEMMA StoreUnconfirmedImplements ==
    ASSUME IInv, IInv', NEW r \in Requests, NEW x \in Objects, StoreUnconfirmed(r, x)
    PROVE  Lifecycle!Stray(x)
<1>1. /\ x \notin paths /\ paths' = paths \cup {x} /\ bucket' = bucket \cup {x}
      /\ Goto(r, Idle) /\ request[r].stored = None /\ refers' = refers
  BY DEF StoreUnconfirmed, IInv, Shape, At
<1>2. HoldsNothing(r)
  BY <1>1, GoesWithNothing DEF Idle
<1>3. StagesKnown /\ StagesKnown'
  BY InvariantTellsStages, StagesKnownNext
<1>4. \A y \in Objects : (Held(y)' <=> Held(y)) /\ (Shown(y)' <=> Shown(y))
  BY <1>1, <1>2, NoneAssumption DEF HoldsNothing, Held, Shown
<1>5. stage[x] = "absent" /\ stage'[x] = "loose"
  <2>1. ~Held(x) /\ ~Shown(x)
    BY <1>1, NoneAssumption, Types DEF IInv, Fresh, Held, Shown
  <2>2. QED BY <1>1, <1>3, <1>4, <2>1 DEF StagesKnown
<1>6. ASSUME NEW y \in Objects, y # x PROVE stage'[y] = stage[y]
  <2>1. bucket \subseteq paths
    BY Types DEF IInv
  <2>2. QED BY <1>1, <1>3, <1>4, <1>6, <2>1 DEF StagesKnown
<1>7. stage' = [y \in Objects |-> IF y \in {x} THEN "loose" ELSE stage[y]]
  BY <1>3, <1>5, <1>6 DEF StagesKnown
<1>8. QED BY <1>1, <1>5, <1>7 DEF Lifecycle!Stray, Lifecycle!Move

\* A request lets go of what it has stored, if anything.
LEMMA DropImplements ==
    ASSUME IInv, IInv', NEW r \in Requests, HoldsNothing(r),
           UNCHANGED <<refers, bucket, paths>>
    PROVE  Lifecycle!Next \/ UNCHANGED Lifecycle!vars
<1>1. CASE request[r].stored = None
  BY <1>1, QuietImplements
<1>2. ASSUME NEW x, x = request[r].stored, x # None PROVE Lifecycle!Next
  <2>1. /\ x \in Objects /\ x \in bucket /\ ~Shown(x)
        /\ \A q \in Requests \ {r} : request[q].stored # x
    BY <1>2, Types DEF IInv, Fresh, Shown, Request
  <2>2. Held(x) /\ ~Held(x)'
    BY <1>2, <2>1 DEF Held, HoldsNothing
  <2>3. \A y \in Objects : Shown(y)' <=> Shown(y)
    BY DEF Shown
  <2>4. StagesKnown /\ StagesKnown'
    BY InvariantTellsStages, StagesKnownNext
  <2>5. stage[x] = "held" /\ stage'[x] = "loose"
    BY <2>1, <2>2, <2>3, <2>4 DEF StagesKnown
  <2>6. ASSUME NEW y \in Objects, y # x PROVE stage'[y] = stage[y]
    <3>1. Held(y)' <=> Held(y)
      BY <1>2, <2>6, NoneAssumption DEF Held, HoldsNothing
    <3>2. bucket \subseteq paths
      BY Types DEF IInv
    <3>3. QED BY <2>3, <2>4, <2>6, <3>1, <3>2 DEF StagesKnown
  <2>7. stage' = [y \in Objects |-> IF y \in {x} THEN "loose" ELSE stage[y]]
    BY <2>4, <2>5, <2>6 DEF StagesKnown
  <2>8. Lifecycle!Drop(x)
    BY <2>5, <2>7 DEF Lifecycle!Drop, Lifecycle!Move
  <2>9. QED BY <2>1, <2>8 DEF Lifecycle!Next
<1>3. QED BY <1>1, <1>2

LEMMA DeleteImplements ==
    ASSUME IInv, IInv', NEW r \in Requests, DeleteStale(r)
    PROVE  Lifecycle!Next
<1>1. PICK failed \in SUBSET request[r].stale :
         bucket' = bucket \ (request[r].stale \ failed)
  BY DEF DeleteStale
<1>2. /\ request[r].step = "delete" /\ Goto(r, Idle) /\ refers' = refers /\ paths' = paths
      /\ request[r].owner = None /\ request[r].stored = None
  BY DEF DeleteStale, At, IInv, Shape
<1> DEFINE S == bucket \cap (request[r].stale \ failed)
<1>3. S \subseteq Objects /\ S \subseteq bucket /\ bucket \subseteq paths /\ bucket' = bucket \ S
  BY <1>1, Types DEF IInv
<1>4. \A x \in S : ~Shown(x) /\ ~Held(x)
  BY <1>2, <1>3, Types DEF IInv, Apart, Fresh, Shown, Held
<1> HIDE DEF S
<1>5. HoldsNothing(r)
  BY <1>2, GoesWithNothing DEF Idle
<1>6. \A x \in Objects : (Held(x)' <=> Held(x)) /\ (Shown(x)' <=> Shown(x))
  BY <1>2, <1>5, NoneAssumption DEF HoldsNothing, Held, Shown
<1>7. StagesKnown /\ StagesKnown'
  BY InvariantTellsStages, StagesKnownNext
<1>8. \A x \in S : stage[x] = "loose" /\ stage'[x] = "gone"
  <2> SUFFICES ASSUME NEW x \in S PROVE stage[x] = "loose" /\ stage'[x] = "gone"
    OBVIOUS
  <2>1. QED BY <1>2, <1>3, <1>4, <1>7 DEF StagesKnown
<1>9. \A x \in Objects \ S : stage'[x] = stage[x]
  <2> SUFFICES ASSUME NEW x \in Objects \ S PROVE stage'[x] = stage[x]
    OBVIOUS
  <2>1. QED BY <1>2, <1>3, <1>6, <1>7 DEF StagesKnown
<1>10. stage' = [x \in Objects |-> IF x \in S THEN "gone" ELSE stage[x]]
  BY <1>3, <1>7, <1>8, <1>9 DEF StagesKnown
<1>11. Lifecycle!Delete(S)
  BY <1>2, <1>8, <1>10 DEF Lifecycle!Delete, Lifecycle!Move, Lifecycle!AllAt
<1>12. QED BY <1>3, <1>11 DEF Lifecycle!Next

\* A request writes its row o, which then shows S: what it had there, less what
\* goes, and what the request stored.
LEMMA WriteImplements ==
    ASSUME IInv, IInv', NEW r \in Requests, NEW o \in Owners, NEW S \in SUBSET paths,
           refers' = [refers EXCEPT ![o] = S],
           HoldsNothing(r),
           UNCHANGED <<bucket, paths>>,
           S \subseteq refers[o] \cup ({request[r].stored} \ {None}),
           request[r].stored # None => request[r].stored \in S,
           o \in Single => \A x, y \in S : x = y
    PROVE  Lifecycle!Next
<1>1. \A p \in Owners : refers'[p] = IF p = o THEN S ELSE refers[p]
  BY Types DEF IInv
<1>2. S \subseteq Objects /\ refers[o] \subseteq Objects /\ bucket \subseteq paths
  BY Types DEF IInv
<1>3. StagesKnown /\ StagesKnown'
  BY InvariantTellsStages, StagesKnownNext
<1>4. \A x \in S \ refers[o] : stage[x] = "held"
  <2> SUFFICES ASSUME NEW x \in S \ refers[o] PROVE stage[x] = "held"
    OBVIOUS
  <2>1. Held(x)
    BY DEF Held
  <2>2. QED BY <1>2, <1>3, <2>1 DEF StagesKnown
<1>5. ASSUME NEW x \in S PROVE stage'[x] = "shown"
  <2>1. Shown(x)'
    BY <1>1 DEF Shown
  <2>2. QED BY <1>2, <1>3, <2>1 DEF StagesKnown
<1>6. ASSUME NEW x \in refers[o] \ S PROVE stage'[x] = "loose"
  <2>1. ~Shown(x)'
    BY <1>1, <1>6 DEF IInv, Disjoint, Shown
  <2>2. ~Held(x)'
    BY <1>2, <1>6, NoneAssumption DEF IInv, Fresh, Held, HoldsNothing
  <2>3. x \in bucket'
    BY <1>6 DEF IInv, ReferencedObjectExists
  <2>4. QED BY <1>2, <1>3, <1>6, <2>1, <2>2, <2>3 DEF StagesKnown
<1>7. ASSUME NEW x \in Objects \ (S \cup refers[o]) PROVE stage'[x] = stage[x]
  <2>1. Shown(x)' <=> Shown(x)
    BY <1>1, <1>7 DEF Shown
  <2>2. Held(x)' <=> Held(x)
    BY <1>7, NoneAssumption DEF Held, HoldsNothing
  <2>3. QED BY <1>2, <1>3, <2>1, <2>2 DEF StagesKnown
<1>8. stage' = [x \in Objects |-> IF x \in S THEN "shown"
                                  ELSE IF x \in refers[o] THEN "loose" ELSE stage[x]]
  <2>1. \A x \in Objects : stage'[x] = IF x \in S THEN "shown"
                                       ELSE IF x \in refers[o] THEN "loose" ELSE stage[x]
    BY <1>5, <1>6, <1>7
  <2>2. QED BY <1>3, <2>1 DEF StagesKnown
<1>9. Lifecycle!Write(o, S)
  BY <1>4, <1>8 DEF Lifecycle!Write, Lifecycle!AllAt
<1>10. QED BY <1>2, <1>9 DEF Lifecycle!Next

LEMMA CommitImplements ==
    ASSUME IInv, IInv', NEW r \in Requests, CommitReference(r)
    PROVE  Lifecycle!Next
<1> DEFINE o == request[r].owner
           x == request[r].stored
           S == IF o \in Single THEN {x} ELSE refers[o] \cup {x}
           req == [Idle EXCEPT !.step = "delete", !.stale = request[r].stale]
<1>1. /\ request[r].step = "commit" /\ o \in exists /\ Goto(r, req) /\ req.stored = None
      /\ UNCHANGED <<bucket, paths>>
  BY DEF CommitReference, At, Idle
<1> HIDE DEF req
<1>2. o \in Owners /\ x \in paths /\ x # None
  BY <1>1, Types DEF IInv, TypeOK, Shape, Request
<1>3. refers' = [refers EXCEPT ![o] = S]
  BY <1>2, Types DEF CommitReference, IInv
<1>4. /\ S \in SUBSET paths /\ S \subseteq refers[o] \cup {x} /\ x \in S
      /\ o \in Single => \A y, z \in S : y = z
  BY <1>2, Types DEF IInv
<1> HIDE DEF S
<1>5. HoldsNothing(r)
  BY <1>1, GoesWithNothing
<1>6. /\ S \subseteq refers[o] \cup ({request[r].stored} \ {None})
      /\ request[r].stored # None => request[r].stored \in S
  BY <1>2, <1>4
<1>7. QED BY <1>1, <1>2, <1>3, <1>4, <1>5, <1>6, WriteImplements

LEMMA RemovalImplements ==
    ASSUME IInv, IInv', NEW r \in Requests, CommitRemoval(r) \/ DeleteRow(r)
    PROVE  Lifecycle!Next
<1> DEFINE o == request[r].owner
           req == [Idle EXCEPT !.step = "delete", !.stale = request[r].stale]
<1>1. /\ request[r].step \in {"remove", "deleteRow"} /\ o \in exists
      /\ Goto(r, req) /\ req.stored = None
      /\ UNCHANGED <<bucket, paths>>
  BY DEF CommitRemoval, DeleteRow, At, Idle
<1> HIDE DEF req
<1>2. o \in Owners /\ request[r].stored = None
  BY <1>1, Types DEF IInv, TypeOK, Shape, Request
<1>3. HoldsNothing(r)
  BY <1>1, GoesWithNothing
<1>4. ASSUME NEW S \in {{}, refers[o] \ request[r].stale}, o \in Single => S = {},
             refers' = [refers EXCEPT ![o] = S]
      PROVE  Lifecycle!Next
  <2>1. S \in SUBSET paths /\ S \subseteq refers[o]
    BY <1>2, <1>4, Types DEF IInv
  <2>2. o \in Single => \A y, z \in S : y = z
    BY <1>4
  <2>3. QED BY <1>1, <1>2, <1>3, <1>4, <2>1, <2>2, WriteImplements
<1>5. CASE DeleteRow(r)
  BY <1>4, <1>5 DEF DeleteRow
<1>6. CASE CommitRemoval(r)
  <2> DEFINE S == IF o \in Single THEN {} ELSE refers[o] \ request[r].stale
  <2>1. refers' = [refers EXCEPT ![o] = S]
    BY <1>2, <1>6, Types DEF CommitRemoval, IInv
  <2>2. S \in {{}, refers[o] \ request[r].stale} /\ (o \in Single => S = {})
    OBVIOUS
  <2> HIDE DEF S
  <2>3. QED BY <1>4, <2>1, <2>2
<1>7. QED BY <1>5, <1>6

LEMMA StepImplements ==
    ASSUME IInv, [Next]_vars, IInv'
    PROVE  [Lifecycle!Next]_(Lifecycle!vars)
<1>1. CASE UNCHANGED vars
  BY <1>1, StagesStay DEF vars, Held
<1>2. ASSUME NEW r \in Requests, NEW o \in Owners, UploadRead(r, o) \/ DeleteRowRead(r, o)
      PROVE  [Lifecycle!Next]_(Lifecycle!vars)
  BY <1>2, ReadImplements
<1>3. ASSUME NEW r \in Requests, NEW o \in Owners, NEW x \in Objects, RemoveRead(r, o, x)
      PROVE  [Lifecycle!Next]_(Lifecycle!vars)
  BY <1>3, ReadImplements
<1>4. ASSUME NEW r \in Requests, StoreFails(r) \/ RemovalFails(r)
      PROVE  [Lifecycle!Next]_(Lifecycle!vars)
  BY <1>4, GivesUpImplements
<1>5. ASSUME NEW r \in Requests, NEW x \in Objects,
             StoreObject(r, x) \/ StoreUnconfirmed(r, x)
      PROVE  [Lifecycle!Next]_(Lifecycle!vars)
  BY <1>5, StoreImplements, StoreUnconfirmedImplements DEF Lifecycle!Next
<1>6. ASSUME NEW r \in Requests, CommitFails(r) \/ Crash(r)
      PROVE  [Lifecycle!Next]_(Lifecycle!vars)
  <2> DEFINE req == [Idle EXCEPT !.step = "delete", !.stale = {request[r].stored}]
  <2>1. Goto(r, Idle) \/ Goto(r, req)
    BY <1>6 DEF CommitFails, Crash
  <2>2. Idle.stored = None /\ req.stored = None
    BY DEF Idle
  <2> HIDE DEF req
  <2>3. HoldsNothing(r)
    BY <2>1, <2>2, GoesWithNothing
  <2>4. UNCHANGED <<refers, bucket, paths>>
    BY <1>6 DEF CommitFails, Crash
  <2>5. QED BY <2>3, <2>4, DropImplements
<1>7. ASSUME NEW r \in Requests, DeleteStale(r) \/ CommitReference(r)
                                 \/ CommitRemoval(r) \/ DeleteRow(r)
      PROVE  [Lifecycle!Next]_(Lifecycle!vars)
  BY <1>7, DeleteImplements, CommitImplements, RemovalImplements
<1>8. QED BY <1>1, <1>2, <1>3, <1>4, <1>5, <1>6, <1>7 DEF Next

(***************************************************************************)
(* Theorems                                                                *)
(***************************************************************************)

\* Rows, bucket and requests hold values of their types: only rows that exist
\* refer to objects, and a row with one image column to one at most.
THEOREM TypeCorrect == Spec => []TypeOK
<1>1. IInv => TypeOK
  BY DEF IInv
<1>2. QED BY <1>1, InvariantHolds, PTL

\* However uploads, removals and deletions of rows overlap, fail or break off,
\* the object of every reference is in the bucket: the services delete only
\* after they have committed (updateLogo, removeLogo, remove; the
\* deleteQuietly of image-storage.service).
THEOREM NoDanglingReference == Spec => []ReferencedObjectExists
<1>1. IInv => ReferencedObjectExists
  BY DEF IInv
<1>2. QED BY <1>1, InvariantHolds, PTL

\* An object in the bucket is referred to, or some request answers for it, or
\* its deletion failed or its upload was answered with an error, or a request
\* took it from a row that it had read before the object came.
THEOREM NothingLost == Spec => []NothingIsLeftBehind
<1>1. ASSUME IInv PROVE NothingIsLeftBehind
  <2> SUFFICES ASSUME NEW x \in bucket
               PROVE  \/ \E o \in Owners : x \in refers[o]
                      \/ x \in Pending
                      \/ x \in excused \cup overtaken
    BY DEF NothingIsLeftBehind
  <2>1. x # None
    BY <1>1, Types DEF IInv
  <2>2. ASSUME NEW r \in Requests, Answers(r, x) PROVE x \in Pending
    BY <2>1, <2>2 DEF Answers, Pending
  <2>3. QED BY <1>1, <2>2 DEF IInv, Kept
<1>2. QED BY <1>1, InvariantHolds, PTL

\* Replacing or removing an image deletes the previous object, as
\* docs/image-storage.md says, when no two requests overlap: whatever else is in
\* the bucket, its deletion failed, its request died, or its upload was answered
\* with an error.
THEOREM NothingLostWhenSerial ==
    Spec /\ []Alone
        => [](bucket \subseteq (UNION {refers[o] : o \in Owners}) \cup Pending \cup excused)
<1>1. AloneInv /\ NothingIsLeftBehind
          => bucket \subseteq (UNION {refers[o] : o \in Owners}) \cup Pending \cup excused
  BY DEF AloneInv, NothingIsLeftBehind
<1>2. QED
  BY AloneInit, AloneNext, InvariantHolds, NothingLost, <1>1, PTL DEF Spec

\* Whatever overlaps, fails or breaks off, an object is stored once and shown
\* by one row at most; the services delete it only after that row has let go of
\* it, and no request that was decided before brings it back.
THEOREM ObjectsHaveOneLife == Spec => ImplementsObjectLifecycle
<1>1. IInv /\ [Next]_vars => [Lifecycle!Next]_(Lifecycle!vars)
  BY NextCorrect, StepImplements
<1>2. QED
  BY InitImplements, InvariantHolds, <1>1, PTL
     DEF Spec, ImplementsObjectLifecycle, Lifecycle!Spec
=============================================================================

---------------------- MODULE ProductPublicationProofs ----------------------
(***************************************************************************)
(* Proofs, for any number of products, images, parents and overlapping     *)
(* requests, and for selections of any size, of what the run of            *)
(* MCProductPublication checks on one product.                             *)
(***************************************************************************)
EXTENDS ProductPublication, FiniteSetTheorems, TLAPS

\* Exactly one image of p is primary.
OnePrimary(p) == \E i \in Images : PrimariesOf(p) = {i}

\* What customers would see of p with this row is complete.
Fit(p, row) ==
    /\ row.described
    /\ \A x \in ParentsOf(row) : enabled[x]
    /\ OnePrimary(p)

\* The rows of products, images and parents are well formed.
RowsOK ==
    /\ product \in [Products -> ProductRow \cup {None}]
    /\ image \in [Images -> [product : Products \cup {None}, primary : BOOLEAN]]
    /\ \A i \in Images : IF image[i].product = None THEN image[i] = NoImage
                                                    ELSE Exists(image[i].product)
    /\ enabled \in [Parents -> BOOLEAN]

BulkData == [status : Statuses] \cup [store : Stores] \cup [unexpired : {TRUE}]

\* What a request carries, by the step it is at.
Shape(req) ==
    /\ req.step = "idle" => req = Idle
    /\ req.step \in {"update", "remove", "addImage", "updateImage", "removeImage"}
          => req.product \in Products
    /\ req.step = "update" => req.patch \in Patch
    /\ req.step = "bulk" => req.products \subseteq Products /\ req.data \in BulkData
    /\ req.step \in {"updateImage", "removeImage"} => req.image \in Images
    /\ req.step \in {"addImage", "updateImage", "removeImage"} => req.primary \in BOOLEAN
    /\ req.step = "deactivate" => req.parent \in Parents

\* What a request has found in the rows J.
JudgedUpdate(req, J) ==
    LET p == req.product IN
    req.step = "update" =>
       /\ p \in J /\ Exists(p)
       /\ ParentsOf(Patched(product[p], req.patch)) \subseteq J
       /\ Active(p) => Fit(p, Patched(product[p], req.patch))

JudgedRemove(req, J) ==
    LET p == req.product IN
    req.step = "remove" => p \in J /\ Exists(p) /\ product[p].status = "DRAFT"

JudgedBulk(req, J) ==
    req.step = "bulk" => \A p \in req.products :
       /\ p \in J /\ Exists(p)
       /\ req.data = [status |-> "ACTIVE"] =>
             /\ product[p].status # "ARCHIVED"
             /\ ParentsOf(product[p]) \subseteq J
             /\ Fit(p, product[p])
       /\ \A s \in Stores : req.data = [store |-> s] =>
             s \in J /\ (Active(p) => enabled[s])

JudgedImage(req, J) ==
    LET i == req.image
        p == req.product
    IN
    req.step \in {"updateImage", "removeImage"} =>
       /\ p \in J
       /\ image[i].product = p
       /\ req.step = "updateImage" /\ ~req.primary => ~(image[i].primary /\ Active(p))
       /\ req.step = "removeImage" =>
             /\ req.primary = image[i].primary
             /\ Active(p) => \E j \in ImagesOf(p) : j # i

JudgedDeactivate(req, J) ==
    req.step = "deactivate" => \A p \in Products :
       p \in J /\ (Active(p) => req.parent \notin ParentsOf(product[p]))

Judged(req, J) == /\ JudgedUpdate(req, J)
                  /\ JudgedRemove(req, J)
                  /\ JudgedBulk(req, J)
                  /\ JudgedImage(req, J)
                  /\ JudgedDeactivate(req, J)

\* What a request has found still holds as long as it is not stale.
Fresh(r) == r \notin stale => Judged(request[r], reads[r])

HistoryOK ==
    /\ DOMAIN request = Requests
    /\ \A r \in Requests : Shape(request[r])
    /\ reads \in [Requests -> SUBSET (Products \cup Parents)]
    /\ stale \subseteq Requests
    /\ raced \subseteq Products

IInv ==
    /\ RowsOK
    /\ HistoryOK
    /\ \A r \in Requests : Fresh(r)
    /\ \A p \in Products \ raced : Active(p) => Fit(p, product[p])

\* The images of a product, and the product, are not touched by a step.
SameImages(p) == \A i \in Images : \/ image[i].product = p
                                   \/ image'[i].product = p
                                   => image'[i] = image[i]

Same(p) == product'[p] = product[p] /\ SameImages(p)

(***************************************************************************)
(* Facts about rows                                                        *)
(***************************************************************************)

LEMMA OnePrimaryIsCardinality ==
    \A p : OnePrimary(p) <=> Cardinality(PrimariesOf(p)) = 1
<1> TAKE p
<1>1. IsFiniteSet(PrimariesOf(p)) /\ PrimariesOf(p) \subseteq Images
  BY FiniteAssumption, FS_Subset DEF PrimariesOf, ImagesOf
<1>2. Cardinality(PrimariesOf(p)) = 1 <=> \E i : PrimariesOf(p) = {i}
  BY <1>1, FS_Singleton
<1>3. QED BY <1>1, <1>2 DEF OnePrimary

LEMMA SamePrimaries ==
    ASSUME NEW p, SameImages(p)
    PROVE  OnePrimary(p)' <=> OnePrimary(p)
<1>1. PrimariesOf(p)' = PrimariesOf(p)
  BY DEF SameImages, PrimariesOf, ImagesOf
<1>2. QED BY <1>1 DEF OnePrimary

\* What a PATCH makes of a row.
LEMMA PatchedRow ==
    ASSUME NEW row \in ProductRow, NEW patch \in Patch
    PROVE  /\ Patched(row, patch) \in ProductRow
           /\ Patched(row, patch).status = row.status
<1>1. DOMAIN row = {"status", "store", "category", "brand", "described", "unexpired"}
  BY DEF ProductRow
<1>2. \A f \in DOMAIN row : Patched(row, patch)[f] =
          IF f # "status" /\ patch[f] # Keep THEN patch[f] ELSE row[f]
  BY DEF Patched
<1>3. /\ patch.store \in Stores \cup {Keep}
      /\ patch.category \in Categories \cup {Keep}
      /\ patch.brand \in Brands \cup {None, Keep}
      /\ patch.described \in BOOLEAN \cup {Keep}
      /\ patch.unexpired \in {TRUE, Keep}
  BY DEF Patch
<1>4. /\ row.status \in Statuses /\ row.store \in Stores /\ row.category \in Categories
      /\ row.brand \in Brands \cup {None}
      /\ row.described \in BOOLEAN /\ row.unexpired \in BOOLEAN
  BY DEF ProductRow
<1> DEFINE new == Patched(row, patch)
<1>5. new = [status |-> new.status, store |-> new.store, category |-> new.category,
             brand |-> new.brand, described |-> new.described,
             unexpired |-> new.unexpired]
  BY <1>1 DEF Patched
<1>6. new.status = row.status
  BY <1>1, <1>2
<1>7. new.store \in Stores /\ new.category \in Categories /\ new.brand \in Brands \cup {None}
  BY <1>1, <1>2, <1>3, <1>4
<1>8. new.described \in BOOLEAN
  BY <1>1, <1>2, <1>3, <1>4
<1>9. new.unexpired \in BOOLEAN
  BY <1>1, <1>2, <1>3, <1>4
<1> HIDE DEF new
<1>10. new \in ProductRow
  BY <1>4, <1>5, <1>6, <1>7, <1>8, <1>9 DEF ProductRow
<1>11. QED BY <1>6, <1>10 DEF new

\* What a bulk operation makes of a row.
Merged(row, data) == [f \in DOMAIN row |-> IF f \in DOMAIN data THEN data[f] ELSE row[f]]

LEMMA MergedRow ==
    ASSUME NEW row \in ProductRow, NEW data \in BulkData
    PROVE  /\ Merged(row, data) \in ProductRow
           /\ \/ /\ data = [status |-> data.status]
                 /\ data.status \in Statuses
                 /\ Merged(row, data) = [row EXCEPT !.status = data.status]
              \/ /\ data = [store |-> data.store]
                 /\ data.store \in Stores
                 /\ Merged(row, data) = [row EXCEPT !.store = data.store]
              \/ /\ data = [unexpired |-> TRUE]
                 /\ Merged(row, data) = [row EXCEPT !.unexpired = TRUE]
<1>1. DOMAIN row = {"status", "store", "category", "brand", "described", "unexpired"}
  BY DEF ProductRow
<1>2. CASE data \in [status : Statuses]
  <2>1. DOMAIN data = {"status"} /\ data = [status |-> data.status] /\ data.status \in Statuses
    BY <1>2
  <2>2. Merged(row, data) = [row EXCEPT !.status = data.status]
    BY <1>1, <2>1 DEF Merged
  <2>3. QED BY <2>1, <2>2 DEF ProductRow
<1>3. CASE data \in [store : Stores]
  <2>1. DOMAIN data = {"store"} /\ data = [store |-> data.store] /\ data.store \in Stores
    BY <1>3
  <2>2. Merged(row, data) = [row EXCEPT !.store = data.store]
    BY <1>1, <2>1 DEF Merged
  <2>3. QED BY <2>1, <2>2 DEF ProductRow
<1>4. CASE data \in [unexpired : {TRUE}]
  <2>1. DOMAIN data = {"unexpired"} /\ data = [unexpired |-> TRUE] /\ data.unexpired = TRUE
    BY <1>4
  <2>2. Merged(row, data) = [row EXCEPT !.unexpired = TRUE]
    BY <1>1, <2>1 DEF Merged
  <2>3. QED BY <2>1, <2>2 DEF ProductRow
<1>5. QED BY <1>2, <1>3, <1>4 DEF BulkData

(***************************************************************************)
(* The kinds of step                                                       *)
(***************************************************************************)

LEMMA InitCorrect == Init => IInv
<1> SUFFICES ASSUME Init PROVE IInv
  OBVIOUS
<1>1. RowsOK
  BY DEF Init, RowsOK, NoImage
<1>2. HistoryOK
  BY DEF Init, HistoryOK, Shape, Idle
<1>3. \A r \in Requests : Fresh(r)
  BY DEF Init, Fresh, Judged, JudgedUpdate, JudgedRemove, JudgedBulk, JudgedImage,
         JudgedDeactivate, Idle
<1>4. \A p \in Products : ~Active(p)
  BY DEF Init, Active, Exists
<1>5. QED BY <1>1, <1>2, <1>3, <1>4 DEF IInv

\* A request that begins has judged what it has read.
LEMMA BeginCorrect ==
    ASSUME IInv, NEW r \in Requests, NEW req, NEW J \in SUBSET (Products \cup Parents),
           Begin(r, req, J), Shape(req), Judged(req, J)
    PROVE  IInv'
<1>1. /\ request' = [request EXCEPT ![r] = req]
      /\ reads' = [reads EXCEPT ![r] = J]
      /\ UNCHANGED <<product, image, enabled, stale, raced>>
  BY DEF Begin, rows
<1>2. RowsOK'
  BY <1>1 DEF IInv, RowsOK, Exists
<1>3. HistoryOK'
  BY <1>1 DEF IInv, HistoryOK, Shape
<1>4. /\ \A p : OnePrimary(p)' <=> OnePrimary(p)
      /\ \A p : ImagesOf(p)' = ImagesOf(p)
  BY <1>1 DEF OnePrimary, PrimariesOf, ImagesOf
<1>5. ASSUME NEW q \in Requests PROVE Fresh(q)'
  <2>1. CASE q = r
    <3>1. request'[q] = req /\ reads'[q] = J
      BY <1>1, <2>1 DEF IInv, HistoryOK
    <3>2. Judged(request[q], reads[q])'
      BY <1>1, <1>4, <3>1 DEF Judged, JudgedUpdate, JudgedRemove, JudgedBulk,
            JudgedImage, JudgedDeactivate, Exists, Active, Fit
    <3>3. QED BY <3>2 DEF Fresh
  <2>2. CASE q # r
    <3>1. request'[q] = request[q] /\ reads'[q] = reads[q]
      BY <1>1, <2>2 DEF IInv, HistoryOK
    <3>2. QED
      BY <1>1, <1>4, <3>1 DEF IInv, Fresh, Judged, JudgedUpdate, JudgedRemove, JudgedBulk,
            JudgedImage, JudgedDeactivate, Exists, Active, Fit
  <2>3. QED BY <2>1, <2>2
<1>6. \A p \in Products \ raced' : Active(p)' => Fit(p, product[p])'
  BY <1>1, <1>4 DEF IInv, Active, Exists, Fit
<1>7. QED BY <1>2, <1>3, <1>5, <1>6 DEF IInv

\* What another request has found of the rows J holds if the products among them
\* are the same, or new, and no parent among them has been switched off.
LEMMA JudgedStays ==
    ASSUME NEW req, NEW J, RowsOK, Shape(req), Judged(req, J),
           \A p \in Products \cap J : Same(p) \/ ~(Exists(p) \/ Active(p)'),
           \A x \in Parents \cap J : enabled[x] => enabled'[x]
    PROVE  Judged(req, J)'
<1>1. \A p \in Products \cap J :
         /\ Active(p)' <=> Active(p)
         /\ Exists(p) => /\ OnePrimary(p)' <=> OnePrimary(p)
                         /\ product'[p] = product[p]
                         /\ Exists(p)'
                         /\ \A i \in Images : image[i].product = p => image'[i] = image[i]
                         /\ \A i \in ImagesOf(p) : i \in ImagesOf(p)'
         /\ Active(p) => Exists(p)
  BY SamePrimaries DEF Same, SameImages, Active, Exists, ImagesOf
<1>2. \A row \in ProductRow : ParentsOf(row) \subseteq Parents
  BY DEF ProductRow, ParentsOf, Parents
<1>3. \A p \in Products : Exists(p) => product[p] \in ProductRow
  BY DEF RowsOK, Exists
<1>4. JudgedUpdate(req, J)'
  <2> DEFINE p == req.product
             row == Patched(product[p], req.patch)
  <2> SUFFICES ASSUME req.step = "update"
               PROVE  JudgedUpdate(req, J)'
    BY DEF JudgedUpdate
  <2>1. p \in Products \cap J /\ Exists(p) /\ ParentsOf(row) \subseteq J
    BY DEF Judged, JudgedUpdate, Shape
  <2>2. row \in ProductRow
    BY <1>3, <2>1, PatchedRow DEF Shape
  <2>3. row' = row
    BY <1>1, <2>1
  <2>4. Fit(p, row) => Fit(p, row)'
    BY <1>1, <1>2, <2>1, <2>2, <2>3 DEF Fit
  <2>5. QED
    BY <1>1, <2>1, <2>3, <2>4 DEF Judged, JudgedUpdate
<1>5. JudgedRemove(req, J)'
  BY <1>1 DEF Judged, JudgedRemove, Shape
<1>6. JudgedBulk(req, J)'
  <2> SUFFICES ASSUME req.step = "bulk", NEW p \in req.products
               PROVE  /\ p \in J /\ Exists(p)'
                      /\ req.data = [status |-> "ACTIVE"] =>
                            /\ product'[p].status # "ARCHIVED"
                            /\ ParentsOf(product'[p]) \subseteq J
                            /\ Fit(p, product[p])'
                      /\ \A s \in Stores : req.data = [store |-> s] =>
                            s \in J /\ (Active(p)' => enabled'[s])
    BY DEF JudgedBulk
  <2>1. p \in Products \cap J /\ Exists(p) /\ product[p] \in ProductRow
    BY <1>3 DEF Judged, JudgedBulk, Shape
  <2>2. req.data = [status |-> "ACTIVE"] =>
            ParentsOf(product[p]) \subseteq J /\ Fit(p, product[p])'
    BY <1>1, <1>2, <2>1 DEF Judged, JudgedBulk, Fit
  <2>3. QED
    BY <1>1, <2>1, <2>2 DEF Judged, JudgedBulk, Parents
<1>7. JudgedImage(req, J)'
  <2>1. \A i \in Images : image[i].product \in Products => Exists(image[i].product)
    BY ParentsAssumption DEF RowsOK
  <2>2. QED BY <1>1, <2>1 DEF Judged, JudgedImage, Shape
<1>8. JudgedDeactivate(req, J)'
  BY <1>1 DEF Judged, JudgedDeactivate
<1>9. QED BY <1>4, <1>5, <1>6, <1>7, <1>8 DEF Judged

\* A request that has written the rows W ends, and the requests that had judged
\* one of them are stale from then on.
LEMMA FinishCorrect ==
    ASSUME IInv, NEW r \in Requests, NEW W, NEW P \in SUBSET Products, Finish(r, W, P),
           \A p \in Products \ W : Same(p),
           \A x \in Parents \ W : enabled[x] => enabled'[x]
    PROVE  HistoryOK' /\ \A q \in Requests : Fresh(q)'
<1>1. /\ request' = [request EXCEPT ![r] = Idle]
      /\ reads' = [reads EXCEPT ![r] = {}]
      /\ raced' = IF r \in stale THEN raced \cup P
                  ELSE IF Publishes(r) THEN raced \ P ELSE raced
      /\ stale' = (stale \ {r}) \cup {q \in Requests \ {r} : reads[q] \cap W # {}}
  BY DEF Finish, End
<1>2. HistoryOK'
  <2>1. Shape(Idle)
    BY DEF Shape, Idle
  <2>2. \A q \in Requests : Shape(request'[q])
    BY <1>1, <2>1 DEF IInv, HistoryOK
  <2>3. \A q \in Requests : Shape(request[q])'
    BY <2>2 DEF Shape
  <2>4. stale' \subseteq Requests /\ raced' \subseteq Products
    BY <1>1 DEF IInv, HistoryOK
  <2>5. QED BY <1>1, <2>3, <2>4 DEF IInv, HistoryOK
<1>3. ASSUME NEW q \in Requests PROVE Fresh(q)'
  <2>1. CASE q = r
    <3>1. request'[q] = Idle
      BY <1>1, <2>1 DEF IInv, HistoryOK
    <3>2. QED
      BY <3>1 DEF Fresh, Judged, JudgedUpdate, JudgedRemove, JudgedBulk, JudgedImage,
         JudgedDeactivate, Idle
  <2>2. CASE q # r
    <3> SUFFICES ASSUME q \notin stale' PROVE Judged(request[q], reads[q])'
      BY DEF Fresh
    <3>1. request'[q] = request[q] /\ reads'[q] = reads[q]
      BY <1>1, <2>2 DEF IInv, HistoryOK
    <3>2. q \notin stale /\ reads[q] \cap W = {}
      BY <1>1, <2>2
    <3> DEFINE req == request[q]
               J == reads[q]
    <3>3. Shape(req) /\ Judged(req, J) /\ RowsOK
      BY <3>2 DEF IInv, Fresh, HistoryOK
    <3>4. \A p \in Products \cap J : Same(p)
      BY <3>2
    <3>5. \A x \in Parents \cap J : enabled[x] => enabled'[x]
      BY <3>2
    <3>6. \A q1, J1 : q1 = req /\ J1 = J => Judged(q1, J1)'
      <4> SUFFICES ASSUME NEW q1, NEW J1, q1 = req, J1 = J PROVE Judged(q1, J1)'
        OBVIOUS
      <4>1. Shape(q1)
        BY <3>3
      <4>2. Judged(q1, J1)
        BY <3>3
      <4>3. QED BY <3>3, <3>4, <3>5, <4>1, <4>2, JudgedStays
    <3>7. QED
      BY <3>1, <3>6 DEF Judged, JudgedUpdate, JudgedRemove, JudgedBulk, JudgedImage,
         JudgedDeactivate
  <2>3. QED BY <2>1, <2>2
<1>4. QED BY <1>2, <1>3

\* A request that writes the products P ends.
LEMMA WriteCorrect ==
    ASSUME IInv, NEW r \in Requests, NEW P \in SUBSET Products,
           Finish(r, P, P), UNCHANGED enabled, RowsOK',
           \A p \in Products \ P : Same(p),
           ASSUME r \notin stale, NEW p \in P, p \notin raced \/ Publishes(r), Active(p)'
           PROVE  Fit(p, product[p])'
    PROVE  IInv'
<1>1. raced' = IF r \in stale THEN raced \cup P
               ELSE IF Publishes(r) THEN raced \ P ELSE raced
  BY DEF Finish
<1>2. HistoryOK' /\ \A q \in Requests : Fresh(q)'
  BY FinishCorrect
<1>3. ASSUME NEW p \in Products \ raced', Active(p)'
      PROVE  Fit(p, product[p])'
  <2>1. CASE p \in P
    <3>1. r \notin stale /\ (p \notin raced \/ Publishes(r))
      BY <1>1, <1>3, <2>1
    <3>2. QED BY <1>3, <2>1, <3>1
  <2>2. CASE p \notin P
    <3>1. p \notin raced
      BY <1>1, <1>3, <2>2
    <3>2. Same(p) /\ (OnePrimary(p)' <=> OnePrimary(p))
      BY <2>2, SamePrimaries DEF Same
    <3>3. Active(p)
      BY <1>3, <3>2 DEF Active, Exists, Same
    <3>4. QED BY <3>1, <3>2, <3>3 DEF IInv, Fit, Same
  <2>3. QED BY <2>1, <2>2
<1>4. QED BY <1>2, <1>3 DEF IInv

(***************************************************************************)
(* Requests that begin                                                     *)
(***************************************************************************)

\* In terms of the model, a product is fit if the checks of the program say so.
LEMMA ReadyIsFit ==
    ASSUME NEW p \in Products, NEW row, Ready(p, row)
    PROVE  Fit(p, row)
BY OnePrimaryIsCardinality DEF Ready, Fit

LEMMA RowFacts ==
    ASSUME RowsOK
    PROVE  /\ \A row \in ProductRow : ParentsOf(row) \subseteq Parents
           /\ \A p \in Products : Exists(p) => product[p] \in ProductRow
           /\ \A i \in Images : image[i] # NoImage =>
                 /\ image[i].product \in Products
                 /\ Exists(image[i].product)
BY DEF RowsOK, Exists, ProductRow, ParentsOf, Parents, NoImage

LEMMA EditingBegins ==
    ASSUME IInv, NEW r \in Requests, NEW p \in Products,
           \/ \E patch \in Patches : UpdateRead(r, p, patch)
           \/ RemoveRead(r, p)
    PROVE  IInv'
<1> RowsOK
  BY DEF IInv
<1>1. ASSUME NEW patch \in Patches, UpdateRead(r, p, patch) PROVE IInv'
  <2> DEFINE req == [step |-> "update", product |-> p, patch |-> patch]
             row == Patched(product[p], patch)
             J == {p} \cup ParentsOf(row)
  <2>1. Exists(p) /\ PatchAllowed(p, row) /\ Begin(r, req, J)
    BY <1>1 DEF UpdateRead
  <2>2. patch \in Patch
    BY PatchesAssumption
  <2>3. row \in ProductRow /\ row.status = product[p].status
    BY <2>1, <2>2, PatchedRow, RowFacts
  <2>4. Active(p) => Fit(p, row)
    BY <2>1, <2>3, ReadyIsFit DEF PatchAllowed, Active
  <2>5. J \in SUBSET (Products \cup Parents)
    BY <2>3, RowFacts
  <2>6. Shape(req)
    BY <2>2 DEF Shape
  <2>7. Judged(req, J)
    BY <2>1, <2>4 DEF Judged, JudgedUpdate, JudgedRemove, JudgedBulk, JudgedImage,
       JudgedDeactivate
  <2>8. QED BY <2>1, <2>5, <2>6, <2>7, BeginCorrect
<1>2. ASSUME RemoveRead(r, p) PROVE IInv'
  <2> DEFINE req == [step |-> "remove", product |-> p]
  <2>1. Exists(p) /\ product[p].status = "DRAFT" /\ Begin(r, req, {p})
    BY <1>2 DEF RemoveRead
  <2>2. Shape(req) /\ Judged(req, {p})
    BY <2>1 DEF Shape, Judged, JudgedUpdate, JudgedRemove, JudgedBulk, JudgedImage,
       JudgedDeactivate
  <2>3. QED BY <2>1, <2>2, BeginCorrect
<1>3. QED BY <1>1, <1>2

\* A bulk operation begins: P has been judged and `changed' will be written.
LEMMA BulkBegins ==
    ASSUME IInv, NEW r \in Requests, NEW P \in SUBSET Products,
           NEW changed \in SUBSET P, NEW data \in BulkData,
           NEW J \in SUBSET (Products \cup Parents), P \subseteq J,
           Bulk(r, changed, data, J),
           \A p \in P :
              /\ Exists(p)
              /\ data = [status |-> "ACTIVE"] =>
                    /\ product[p].status # "ARCHIVED"
                    /\ ParentsOf(product[p]) \subseteq J
                    /\ Fit(p, product[p])
              /\ \A s \in Stores : data = [store |-> s] => s \in J /\ (Active(p) => enabled[s])
    PROVE  IInv'
<1> DEFINE req == [step |-> "bulk", products |-> changed, data |-> data]
<1>1. Begin(r, req, J)
  BY DEF Bulk
<1>2. Shape(req)
  BY DEF Shape
<1>3. Judged(req, J)
  BY DEF Judged, JudgedUpdate, JudgedRemove, JudgedBulk, JudgedImage, JudgedDeactivate
<1>4. QED BY <1>1, <1>2, <1>3, BeginCorrect

LEMMA BulkingBegins ==
    ASSUME IInv, NEW r \in Requests, NEW P \in SUBSET Products,
           \/ PublishRead(r, P)
           \/ UnpublishRead(r, P)
           \/ ArchiveRead(r, P)
           \/ RestoreRead(r, P)
           \/ \E s \in Stores : AssignStoreRead(r, P, s)
           \/ SetExpirationRead(r, P)
    PROVE  IInv'
<1> RowsOK
  BY DEF IInv
<1>1. \A status \in Statuses : [status |-> status] \in BulkData
  BY DEF BulkData
<1>2. CASE PublishRead(r, P)
  <2> DEFINE J == P \cup ParentsOfAll(P)
  <2>1. \A p \in P : /\ Exists(p)
                     /\ product[p].status # "ARCHIVED"
                     /\ Fit(p, product[p])
                     /\ ParentsOf(product[p]) \subseteq J
    BY <1>2, ReadyIsFit DEF PublishRead, ParentsOfAll
  <2>2. J \in SUBSET (Products \cup Parents)
    BY <2>1, RowFacts DEF ParentsOfAll
  <2>3. \A s : [store |-> s] # [status |-> "ACTIVE"]
    OBVIOUS
  <2>4. Bulk(r, {p \in P : ~Active(p)}, [status |-> "ACTIVE"], J)
    BY <1>2 DEF PublishRead
  <2> HIDE DEF J
  <2>5. \A s : [status |-> "ACTIVE"] # [store |-> s]
    BY <2>3
  <2>6. QED BY <1>1, <2>1, <2>2, <2>4, <2>5, BulkBegins DEF Statuses, J
<1>3. \A s, status : [status |-> status] # [store |-> s]
  OBVIOUS
<1>4. [status |-> "DRAFT"] # [status |-> "ACTIVE"] /\ [status |-> "ARCHIVED"] # [status |-> "ACTIVE"]
  OBVIOUS
<1>5. CASE UnpublishRead(r, P)
  BY <1>1, <1>3, <1>4, <1>5, BulkBegins DEF UnpublishRead, Statuses
<1>6. CASE ArchiveRead(r, P)
  BY <1>1, <1>3, <1>4, <1>6, BulkBegins DEF ArchiveRead, Statuses
<1>7. CASE RestoreRead(r, P)
  BY <1>1, <1>3, <1>4, <1>7, BulkBegins DEF RestoreRead, Statuses
<1>8. ASSUME NEW s \in Stores, AssignStoreRead(r, P, s) PROVE IInv'
  <2>1. /\ \A p \in P : Exists(p) /\ (Active(p) => enabled[s])
        /\ Bulk(r, {p \in P : product[p].store # s}, [store |-> s], P \cup {s})
    BY <1>8 DEF AssignStoreRead
  <2>2. /\ [store |-> s] \in BulkData
        /\ [store |-> s] # [status |-> "ACTIVE"]
        /\ \A t : [store |-> s] = [store |-> t] => t = s
    BY DEF BulkData
  <2>3. P \cup {s} \in SUBSET (Products \cup Parents)
    BY DEF Parents
  <2>4. QED BY <2>1, <2>2, <2>3, BulkBegins
<1>9. CASE SetExpirationRead(r, P)
  <2>1. /\ [unexpired |-> TRUE] \in BulkData
        /\ [unexpired |-> TRUE] # [status |-> "ACTIVE"]
        /\ \A s : [unexpired |-> TRUE] # [store |-> s]
    BY DEF BulkData
  <2>2. (\A p \in P : Exists(p)) /\ Bulk(r, P, [unexpired |-> TRUE], P)
    BY <1>9 DEF SetExpirationRead
  <2>3. QED BY <2>1, <2>2, BulkBegins
<1>10. QED BY <1>2, <1>5, <1>6, <1>7, <1>8, <1>9

LEMMA AddImageBegins ==
    ASSUME IInv, NEW r \in Requests, NEW p \in Products, NEW primary \in BOOLEAN,
           AddImageRead(r, p, primary)
    PROVE  IInv'
<1> DEFINE first == Cardinality(ImagesOf(p)) = 0 \/ primary
           req == [step |-> "addImage", product |-> p, primary |-> first]
<1>1. Begin(r, req, {p})
  BY DEF AddImageRead
<1>2. first \in BOOLEAN
  OBVIOUS
<1> HIDE DEF first
<1>3. Shape(req) /\ Judged(req, {p})
  BY <1>2 DEF Shape, Judged, JudgedUpdate, JudgedRemove, JudgedBulk, JudgedImage,
     JudgedDeactivate
<1>4. QED BY <1>1, <1>3, BeginCorrect

LEMMA ImageBegins ==
    ASSUME IInv, NEW r \in Requests, NEW i \in Images,
           \/ \E primary \in BOOLEAN : UpdateImageRead(r, i, primary)
           \/ RemoveImageRead(r, i)
    PROVE  IInv'
<1> DEFINE p == image[i].product
<1>1. image[i] # NoImage
  BY DEF UpdateImageRead, RemoveImageRead
<1>2. p \in Products /\ image[i].primary \in BOOLEAN /\ i \in ImagesOf(p)
  BY <1>1, RowFacts DEF IInv, RowsOK, ImagesOf
<1>3. ASSUME NEW primary \in BOOLEAN, UpdateImageRead(r, i, primary) PROVE IInv'
  <2> DEFINE req == [step |-> "updateImage", image |-> i, product |-> p, primary |-> primary]
  <2>1. Begin(r, req, {p}) /\ (~primary => ~(image[i].primary /\ Active(p)))
    BY <1>3 DEF UpdateImageRead
  <2>2. Shape(req) /\ Judged(req, {p})
    BY <1>2, <2>1 DEF Shape, Judged, JudgedUpdate, JudgedRemove, JudgedBulk, JudgedImage,
       JudgedDeactivate
  <2>3. QED BY <1>2, <2>1, <2>2, BeginCorrect
<1>4. ASSUME RemoveImageRead(r, i) PROVE IInv'
  <2> DEFINE req == [step |-> "removeImage", image |-> i, product |-> p,
                     primary |-> image[i].primary]
  <2>1. Begin(r, req, {p}) /\ (Active(p) => Cardinality(ImagesOf(p)) > 1)
    BY <1>4 DEF RemoveImageRead
  <2>2. Active(p) => \E j \in ImagesOf(p) : j # i
    <3> SUFFICES ASSUME \A j \in ImagesOf(p) : j = i, Cardinality(ImagesOf(p)) > 1
                 PROVE  FALSE
      BY <2>1
    <3>1. ImagesOf(p) = {i}
      BY <1>2
    <3>2. QED BY <3>1, FS_Singleton
  <2>3. Shape(req) /\ Judged(req, {p})
    BY <1>2, <2>2 DEF Shape, Judged, JudgedUpdate, JudgedRemove, JudgedBulk, JudgedImage,
       JudgedDeactivate
  <2>4. QED BY <1>2, <2>1, <2>3, BeginCorrect
<1>5. QED BY <1>3, <1>4

LEMMA DeactivateBegins ==
    ASSUME IInv, NEW r \in Requests, NEW x \in Parents, DeactivateRead(r, x)
    PROVE  IInv'
<1> DEFINE req == [step |-> "deactivate", parent |-> x]
<1>1. /\ \A p \in Products : Active(p) => x \notin ParentsOf(product[p])
      /\ Begin(r, req, Products)
  BY DEF DeactivateRead
<1>2. Shape(req) /\ Judged(req, Products)
  BY <1>1 DEF Shape, Judged, JudgedUpdate, JudgedRemove, JudgedBulk, JudgedImage,
     JudgedDeactivate
<1>3. QED BY <1>1, <1>2, BeginCorrect

(***************************************************************************)
(* Requests that write                                                     *)
(***************************************************************************)

LEMMA UpdateWrites ==
    ASSUME IInv, NEW r \in Requests, UpdateWrite(r)
    PROVE  IInv'
<1> request[r].product \in Products
  BY DEF UpdateWrite, At, IInv, HistoryOK, Shape
<1> PICK p \in Products : p = request[r].product
  OBVIOUS
<1> DEFINE patch == request[r].patch
           row == Patched(product[p], patch)
<1>1. /\ request[r].step = "update" /\ Exists(p)
      /\ product' = [product EXCEPT ![p] = row]
      /\ Finish(r, {p}, {p})
      /\ UNCHANGED <<image, enabled>>
  BY DEF UpdateWrite, At
<1>2. RowsOK /\ p \in Products /\ patch \in Patch
  BY <1>1 DEF IInv, HistoryOK, Shape
<1>3. row \in ProductRow /\ row.status = product[p].status
  BY <1>1, <1>2, PatchedRow, RowFacts
<1> HIDE DEF row
<1>4. product'[p] = row /\ \A q \in Products \ {p} : product'[q] = product[q]
  BY <1>1, <1>2 DEF RowsOK
<1>5. RowsOK'
  BY <1>1, <1>2, <1>3, NoneAssumption DEF RowsOK, Exists
<1>6. \A q \in Products \ {p} : Same(q)
  BY <1>1, <1>4 DEF Same, SameImages
<1>7. ASSUME r \notin stale, Active(p)' PROVE Fit(p, product[p])'
  <2>1. Active(p) /\ (OnePrimary(p)' <=> OnePrimary(p))
    BY <1>1, <1>3, <1>4, <1>7 DEF Active, Exists, OnePrimary, PrimariesOf, ImagesOf
  <2>2. Judged(request[r], reads[r])
    BY <1>7 DEF IInv, Fresh
  <2>3. Fit(p, row)
    BY <1>1, <2>1, <2>2 DEF Judged, JudgedUpdate, row
  <2>4. QED BY <1>1, <1>4, <2>1, <2>3 DEF Fit
<1>8. QED BY <1>1, <1>2, <1>5, <1>6, <1>7, WriteCorrect

LEMMA RemoveWrites ==
    ASSUME IInv, NEW r \in Requests, RemoveWrite(r)
    PROVE  IInv'
<1> request[r].product \in Products
  BY DEF RemoveWrite, At, IInv, HistoryOK, Shape
<1> PICK p \in Products : p = request[r].product
  OBVIOUS
<1>1. /\ request[r].step = "remove"
      /\ product' = [product EXCEPT ![p] = None]
      /\ image' = [i \in Images |-> IF i \in ImagesOf(p) THEN NoImage ELSE image[i]]
      /\ Finish(r, {p}, {p})
      /\ UNCHANGED enabled
  BY DEF RemoveWrite, At
<1>2. RowsOK /\ p \in Products
  BY <1>1 DEF IInv, HistoryOK, Shape
<1>3. product'[p] = None /\ \A q \in Products \ {p} : product'[q] = product[q]
  BY <1>1, <1>2 DEF RowsOK
<1>4. RowsOK'
  BY <1>1, <1>2 DEF RowsOK, Exists, NoImage, ImagesOf
<1>5. \A q \in Products \ {p} : Same(q)
  <2>1. None \notin Products
    BY ParentsAssumption
  <2>2. QED BY <1>1, <1>3, <2>1 DEF Same, SameImages, ImagesOf, NoImage
<1>6. ~Active(p)'
  BY <1>3 DEF Active, Exists
<1>7. QED BY <1>1, <1>2, <1>4, <1>5, <1>6, WriteCorrect

LEMMA BulkWrites ==
    ASSUME IInv, NEW r \in Requests, BulkWrite(r)
    PROVE  IInv'
<1> DEFINE P == request[r].products
           data == request[r].data
<1>1. /\ request[r].step = "bulk"
      /\ product' = [p \in Products |-> IF p \in P /\ Exists(p) THEN Merged(product[p], data)
                                                                ELSE product[p]]
      /\ Finish(r, P, P)
      /\ UNCHANGED <<image, enabled>>
  BY DEF BulkWrite, At, Merged
<1>2. RowsOK /\ P \subseteq Products /\ data \in BulkData
  BY <1>1 DEF IInv, HistoryOK, Shape
<1>3. \A p \in Products : Exists(p) => /\ product[p] \in ProductRow
                                       /\ Merged(product[p], data) \in ProductRow
  BY <1>2, RowFacts, MergedRow
<1>4. RowsOK'
  BY <1>1, <1>2, <1>3, NoneAssumption DEF RowsOK, Exists
<1>5. \A q \in Products \ P : Same(q)
  BY <1>1 DEF Same, SameImages
<1>6. ASSUME r \notin stale, NEW p \in P, p \notin raced \/ Publishes(r), Active(p)'
      PROVE  Fit(p, product[p])'
  <2> DEFINE row == product[p]
  <2>1. /\ p \in Products
        /\ Exists(p)
        /\ data = [status |-> "ACTIVE"] => Fit(p, row)
        /\ \A s \in Stores : data = [store |-> s] => (Active(p) => enabled[s])
    BY <1>1, <1>2, <1>6 DEF IInv, Fresh, Judged, JudgedBulk
  <2>2. /\ row \in ProductRow /\ product'[p] = Merged(row, data)
        /\ OnePrimary(p)' <=> OnePrimary(p)
    BY <1>1, <1>3, <2>1 DEF OnePrimary, PrimariesOf, ImagesOf
  <2>3. Merged(row, data).status = "ACTIVE"
    BY <1>6, <2>2 DEF Active
  <2>4. p \notin raced /\ Active(p) => Fit(p, row)
    BY <2>1 DEF IInv
  <2>5. Publishes(r) => data = [status |-> "ACTIVE"]
    BY DEF Publishes
  <2> HIDE DEF row, data, P
  <2>6. CASE data = [status |-> data.status] /\ Merged(row, data) = [row EXCEPT !.status = data.status]
    <3>1. data.status = "ACTIVE"
      BY <2>2, <2>3, <2>6 DEF ProductRow
    <3>2. Fit(p, row)
      BY <2>1, <2>6, <3>1
    <3>3. QED BY <1>1, <2>2, <2>6, <3>2 DEF Fit, ParentsOf, ProductRow
  <2>7. CASE data = [store |-> data.store] /\ data.store \in Stores
                 /\ Merged(row, data) = [row EXCEPT !.store = data.store]
    <3>1. data # [status |-> "ACTIVE"]
      BY <2>7
    <3>2. Active(p) /\ p \notin raced
      BY <1>6, <2>1, <2>2, <2>3, <2>5, <2>7, <3>1 DEF ProductRow, Active, row
    <3>3. enabled[data.store] /\ Fit(p, row)
      BY <2>1, <2>4, <2>7, <3>2
    <3>4. QED BY <1>1, <2>2, <2>7, <3>3 DEF Fit, ParentsOf, ProductRow
  <2>8. CASE data = [unexpired |-> TRUE] /\ Merged(row, data) = [row EXCEPT !.unexpired = TRUE]
    <3>1. data # [status |-> "ACTIVE"]
      BY <2>8
    <3>2. Active(p) /\ p \notin raced
      BY <1>6, <2>1, <2>2, <2>3, <2>5, <2>8, <3>1 DEF ProductRow, Active, row
    <3>3. Fit(p, row)
      BY <2>4, <3>2
    <3>4. QED BY <1>1, <2>2, <2>8, <3>3 DEF Fit, ParentsOf, ProductRow
  <2>9. QED BY <1>2, <2>2, <2>6, <2>7, <2>8, MergedRow
<1>7. QED BY <1>1, <1>2, <1>4, <1>5, <1>6, WriteCorrect

LEMMA AddImageWrites ==
    ASSUME IInv, NEW r \in Requests, NEW i \in Images, AddImageWrite(r, i)
    PROVE  IInv'
<1> request[r].product \in Products /\ request[r].primary \in BOOLEAN
  BY DEF AddImageWrite, At, IInv, HistoryOK, Shape
<1> PICK p \in Products : p = request[r].product
  OBVIOUS
<1> PICK primary \in BOOLEAN : primary = request[r].primary
  OBVIOUS
<1>1. /\ Exists(p) /\ image[i] = NoImage
      /\ image' = [(IF primary THEN MakePrimary(i, p) ELSE image)
                      EXCEPT ![i] = [product |-> p, primary |-> primary]]
      /\ Finish(r, {p}, {p})
      /\ UNCHANGED <<product, enabled>>
  BY DEF AddImageWrite
<1>2. RowsOK /\ None \notin Products /\ i \notin ImagesOf(p)
  BY <1>1, ParentsAssumption DEF IInv, ImagesOf, NoImage
<1>3. \A j \in Images :
         /\ j = i => image'[j] = [product |-> p, primary |-> primary]
         /\ j # i => image'[j].product = image[j].product
         /\ j # i /\ j \in ImagesOf(p) => image'[j].primary = (image[j].primary /\ ~primary)
         /\ j # i /\ j \notin ImagesOf(p) => image'[j] = image[j]
  BY <1>1, <1>2 DEF MakePrimary, RowsOK
<1>4. image' \in [Images -> [product : Products \cup {None}, primary : BOOLEAN]]
  <2> DEFINE gallery == IF primary THEN MakePrimary(i, p) ELSE image
  <2>1. [product |-> p, primary |-> primary] \in [product : Products \cup {None},
                                                  primary : BOOLEAN]
    OBVIOUS
  <2>2. \A j \in Images : [image[j] EXCEPT !.primary = (j = i)]
                             \in [product : Products \cup {None}, primary : BOOLEAN]
    BY <1>2 DEF RowsOK
  <2>3. gallery \in [Images -> [product : Products \cup {None}, primary : BOOLEAN]]
    BY <1>2, <2>2 DEF MakePrimary, RowsOK
  <2> HIDE DEF gallery
  <2>4. image' = [gallery EXCEPT ![i] = [product |-> p, primary |-> primary]]
    BY <1>1 DEF gallery
  <2>5. QED BY <2>1, <2>3, <2>4
<1>5. RowsOK'
  <2>1. ASSUME NEW j \in Images
        PROVE  IF image'[j].product = None THEN image'[j] = NoImage
                                           ELSE Exists(image'[j].product)
    <3>1. CASE j \in ImagesOf(p) \/ j = i
      BY <1>1, <1>2, <1>3, <3>1 DEF ImagesOf
    <3>2. CASE ~(j \in ImagesOf(p) \/ j = i)
      BY <1>2, <1>3, <3>2 DEF RowsOK
    <3>3. QED BY <3>1, <3>2
  <2>2. QED BY <1>1, <1>2, <1>4, <2>1 DEF RowsOK, Exists, NoImage
<1>6. \A q \in Products \ {p} : Same(q)
  <2> SUFFICES ASSUME NEW q \in Products \ {p}, NEW j \in Images,
                      image[j].product = q \/ image'[j].product = q
               PROVE  image'[j] = image[j]
    BY <1>1 DEF Same, SameImages
  <2>1. j # i
    BY <1>1, <1>2, <1>3 DEF NoImage
  <2>2. j \notin ImagesOf(p)
    BY <1>3, <2>1 DEF ImagesOf
  <2>3. QED BY <1>3, <2>1, <2>2
<1>7. ASSUME OnePrimary(p) PROVE OnePrimary(p)'
  <2>1. CASE primary
    <3>1. ASSUME NEW j \in Images
          PROVE  image'[j].product = p /\ image'[j].primary <=> j = i
      <4>1. CASE j = i
        <5>1. image'[j].product = p /\ image'[j].primary = primary
          BY <1>3, <4>1
        <5>2. QED BY <2>1, <4>1, <5>1
      <4>2. CASE j # i
        <5>1. image'[j].product = p => j \in ImagesOf(p)
          BY <1>3, <4>2 DEF ImagesOf
        <5>2. image'[j].product = p => ~image'[j].primary
          BY <1>3, <2>1, <4>2, <5>1
        <5>3. QED BY <4>2, <5>2
      <4>3. QED BY <4>1, <4>2
    <3>2. PrimariesOf(p)' = {i}
      BY <3>1 DEF PrimariesOf, ImagesOf
    <3>3. QED BY <3>2 DEF OnePrimary
  <2>2. CASE ~primary
    <3>1. ASSUME NEW j \in Images
          PROVE  image'[j].product = p /\ image'[j].primary
                    <=> j \in ImagesOf(p) /\ image[j].primary
      <4>1. CASE j = i
        <5>1. image'[j].primary = primary
          BY <1>3, <4>1
        <5>2. QED BY <1>2, <2>2, <4>1, <5>1
      <4>2. CASE j # i
        <5>1. image'[j].product = p <=> j \in ImagesOf(p)
          BY <1>3, <4>2 DEF ImagesOf
        <5>2. j \in ImagesOf(p) => (image'[j].primary <=> image[j].primary)
          BY <1>3, <2>2, <4>2
        <5>3. QED BY <5>1, <5>2
      <4>3. QED BY <4>1, <4>2
    <3>2. PrimariesOf(p)' = PrimariesOf(p)
      BY <3>1 DEF PrimariesOf, ImagesOf
    <3>3. QED BY <1>7, <3>2 DEF OnePrimary
  <2>3. QED BY <2>1, <2>2
<1>8. ~Publishes(r)
  BY DEF Publishes, AddImageWrite, At
<1>9. ASSUME p \notin raced, Active(p)' PROVE Fit(p, product[p])'
  BY <1>1, <1>7, <1>9 DEF IInv, Fit, Active, Exists
<1>10. QED BY <1>1, <1>5, <1>6, <1>8, <1>9, WriteCorrect

LEMMA UpdateImageWrites ==
    ASSUME IInv, NEW r \in Requests, UpdateImageWrite(r)
    PROVE  IInv'
<1> /\ request[r].product \in Products
    /\ request[r].image \in Images
    /\ request[r].primary \in BOOLEAN
  BY DEF UpdateImageWrite, At, IInv, HistoryOK, Shape
<1> PICK p \in Products : p = request[r].product
  OBVIOUS
<1> PICK i \in Images : i = request[r].image
  OBVIOUS
<1> PICK primary \in BOOLEAN : primary = request[r].primary
  OBVIOUS
<1>1. /\ request[r].step = "updateImage"
      /\ image[i].product = p
      /\ image' = IF primary THEN MakePrimary(i, p) ELSE [image EXCEPT ![i].primary = FALSE]
      /\ Finish(r, {p}, {p})
      /\ UNCHANGED <<product, enabled>>
  BY DEF UpdateImageWrite, At
<1>2. RowsOK /\ None \notin Products /\ i \in ImagesOf(p)
  BY <1>1, ParentsAssumption DEF IInv, ImagesOf
<1>3. \A j \in Images :
         /\ image'[j].product = image[j].product
         /\ image'[j].primary \in BOOLEAN
         /\ j \notin ImagesOf(p) => image'[j] = image[j]
         /\ primary /\ j \in ImagesOf(p) => image'[j].primary = (j = i)
         /\ ~primary => image'[j].primary = (image[j].primary /\ j # i)
  BY <1>1, <1>2 DEF MakePrimary, RowsOK, ImagesOf
<1>4. image' \in [Images -> [product : Products \cup {None}, primary : BOOLEAN]]
  BY <1>1, <1>2 DEF MakePrimary, RowsOK
<1>5. RowsOK'
  <2>1. \A j \in Images : j \in ImagesOf(p) => image[j].product = p
    BY DEF ImagesOf
  <2>2. \A j \in Images : /\ image'[j].product = None => image'[j] = NoImage
                          /\ image'[j].product # None => product[image'[j].product] # None
    BY <1>2, <1>3, <2>1 DEF RowsOK, Exists
  <2>3. QED BY <1>1, <1>2, <1>4, <2>2 DEF RowsOK, Exists, NoImage
<1>6. \A q \in Products \ {p} : Same(q)
  <2> SUFFICES ASSUME NEW q \in Products \ {p}, NEW j \in Images,
                      image[j].product = q \/ image'[j].product = q
               PROVE  image'[j] = image[j]
    BY <1>1 DEF Same, SameImages
  <2>1. QED BY <1>3 DEF ImagesOf
<1>7. ~Publishes(r)
  BY <1>1 DEF Publishes, At
<1>8. ASSUME r \notin stale, p \notin raced, Active(p)' PROVE Fit(p, product[p])'
  <2>1. Active(p) /\ Fit(p, product[p])
    BY <1>1, <1>8 DEF IInv, Active, Exists
  <2>2. ~primary => ~image[i].primary
    BY <1>1, <1>8, <2>1 DEF IInv, Fresh, Judged, JudgedImage
  <2>3. CASE primary
    <3>1. PrimariesOf(p)' = {i}
      BY <1>2, <1>3, <2>3 DEF PrimariesOf, ImagesOf
    <3>2. QED BY <1>1, <2>1, <3>1 DEF Fit, OnePrimary
  <2>4. CASE ~primary
    <3>1. PrimariesOf(p)' = PrimariesOf(p)
      BY <1>2, <1>3, <2>2, <2>4 DEF PrimariesOf, ImagesOf, RowsOK
    <3>2. QED BY <1>1, <2>1, <3>1 DEF Fit, OnePrimary
  <2>5. QED BY <2>3, <2>4
<1>9. QED BY <1>1, <1>5, <1>6, <1>7, <1>8, WriteCorrect

LEMMA RemoveImageWrites ==
    ASSUME IInv, NEW r \in Requests, RemoveImageWrite(r)
    PROVE  IInv'
<1> /\ request[r].product \in Products
    /\ request[r].image \in Images
    /\ request[r].primary \in BOOLEAN
  BY DEF RemoveImageWrite, At, IInv, HistoryOK, Shape
<1> PICK p \in Products : p = request[r].product
  OBVIOUS
<1> PICK i \in Images : i = request[r].image
  OBVIOUS
<1> PICK primary \in BOOLEAN : primary = request[r].primary
  OBVIOUS
<1>1. /\ request[r].step = "removeImage"
      /\ image[i].product = p
      /\ IF primary /\ ImagesOf(p) \ {i} # {}
         THEN \E first \in ImagesOf(p) \ {i} :
                 image' = [image EXCEPT ![i] = NoImage, ![first].primary = TRUE]
         ELSE image' = [image EXCEPT ![i] = NoImage]
      /\ Finish(r, {p}, {p})
      /\ UNCHANGED <<product, enabled>>
  BY DEF RemoveImageWrite, At
<1>2. RowsOK /\ None \notin Products /\ i \in ImagesOf(p)
  BY <1>1, ParentsAssumption DEF IInv, ImagesOf
<1>3. PICK next : /\ next # i
                  /\ primary /\ ImagesOf(p) \ {i} # {} <=> next \in ImagesOf(p)
                  /\ image' = [j \in Images |->
                        IF j = i THEN NoImage
                        ELSE IF j = next /\ next \in ImagesOf(p)
                             THEN [image[j] EXCEPT !.primary = TRUE] ELSE image[j]]
  <2>1. CASE primary /\ ImagesOf(p) \ {i} # {}
    <3>1. PICK first \in ImagesOf(p) \ {i} :
             image' = [image EXCEPT ![i] = NoImage, ![first].primary = TRUE]
      BY <1>1, <2>1
    <3>2. image' = [j \in Images |-> IF j = i THEN NoImage
                        ELSE IF j = first /\ first \in ImagesOf(p)
                             THEN [image[j] EXCEPT !.primary = TRUE] ELSE image[j]]
      BY <1>2, <3>1 DEF RowsOK, ImagesOf
    <3>3. QED BY <2>1, <3>1, <3>2
  <2>2. CASE ~(primary /\ ImagesOf(p) \ {i} # {})
    <3>1. /\ None \notin ImagesOf(p) /\ i # None
      BY ParentsAssumption DEF ImagesOf
    <3>2. image' = [image EXCEPT ![i] = NoImage]
      BY <1>1, <2>2
    <3>3. image' = [j \in Images |-> IF j = i THEN NoImage
                        ELSE IF j = None /\ None \in ImagesOf(p)
                             THEN [image[j] EXCEPT !.primary = TRUE] ELSE image[j]]
      BY <1>2, <3>1, <3>2 DEF RowsOK
    <3>4. QED BY <2>2, <3>1, <3>3
  <2>3. QED BY <2>1, <2>2
<1>4. RowsOK'
  <2>1. image' \in [Images -> [product : Products \cup {None}, primary : BOOLEAN]]
    BY <1>2, <1>3 DEF RowsOK, NoImage
  <2>2. \A j \in Images : image'[j] = NoImage \/ image'[j].product = image[j].product
    BY <1>2, <1>3 DEF RowsOK
  <2>3. ASSUME NEW j \in Images
        PROVE  IF image'[j].product = None THEN image'[j] = NoImage
                                           ELSE Exists(image'[j].product)
    <3>1. CASE j \in ImagesOf(p) /\ image'[j] # NoImage
      BY <1>2, <2>2, <3>1 DEF ImagesOf, RowsOK
    <3>2. CASE j \notin ImagesOf(p)
      BY <1>2, <1>3, <3>2 DEF RowsOK
    <3>3. CASE image'[j] = NoImage
      BY <3>3 DEF NoImage
    <3>4. QED BY <3>1, <3>2, <3>3
  <2>4. QED BY <1>1, <1>2, <2>1, <2>3 DEF RowsOK, Exists, NoImage
<1>5. \A q \in Products \ {p} : Same(q)
  BY <1>1, <1>2, <1>3 DEF Same, SameImages, ImagesOf, NoImage
<1>6. ~Publishes(r)
  BY <1>1 DEF Publishes, At
<1>7. ASSUME r \notin stale, p \notin raced, Active(p)' PROVE Fit(p, product[p])'
  <2>1. Active(p) /\ Fit(p, product[p])
    BY <1>1, <1>7 DEF IInv, Active, Exists
  <2>2. primary = image[i].primary /\ \E j \in ImagesOf(p) : j # i
    BY <1>1, <1>7, <2>1 DEF IInv, Fresh, Judged, JudgedImage
  <2>3. PICK k \in Images : PrimariesOf(p) = {k}
    BY <2>1 DEF Fit, OnePrimary
  <2>4. CASE primary
    <3>1. k = i /\ next \in ImagesOf(p)
      BY <1>2, <1>3, <2>2, <2>3, <2>4 DEF PrimariesOf
    <3>2. \A j \in ImagesOf(p) : j # i => ~image[j].primary
      BY <2>3, <3>1 DEF PrimariesOf, RowsOK
    <3>3. PrimariesOf(p)' = {next}
      BY <1>2, <1>3, <3>1, <3>2 DEF PrimariesOf, ImagesOf, NoImage, RowsOK
    <3>4. next \in Images
      BY <3>1 DEF ImagesOf
    <3>5. QED BY <1>1, <2>1, <3>3, <3>4 DEF Fit, OnePrimary
  <2>5. CASE ~primary
    <3>1. k # i /\ next \notin ImagesOf(p)
      BY <1>3, <2>2, <2>3, <2>5 DEF PrimariesOf
    <3>2. PrimariesOf(p)' = PrimariesOf(p)
      BY <1>2, <1>3, <2>2, <2>5, <3>1 DEF PrimariesOf, ImagesOf, NoImage, RowsOK
    <3>3. QED BY <1>1, <2>1, <3>2 DEF Fit, OnePrimary
  <2>6. QED BY <2>4, <2>5
<1>8. QED BY <1>1, <1>4, <1>5, <1>6, <1>7, WriteCorrect

\* A parent that active products belong to is switched off by a stale request
\* only, and these products are an exception from then on.
LEMMA DeactivateWrites ==
    ASSUME IInv, NEW r \in Requests, DeactivateWrite(r)
    PROVE  IInv'
<1> request[r].parent \in Parents
  BY DEF DeactivateWrite, At, IInv, HistoryOK, Shape
<1> PICK x \in Parents : x = request[r].parent
  OBVIOUS
<1> DEFINE P == {p \in Products : Active(p) /\ x \in ParentsOf(product[p])}
<1>1. /\ request[r].step = "deactivate"
      /\ enabled' = [enabled EXCEPT ![x] = FALSE]
      /\ Finish(r, {x}, P)
      /\ UNCHANGED <<product, image>>
  BY DEF DeactivateWrite, At
<1>2. RowsOK /\ RowsOK'
  BY <1>1 DEF IInv, RowsOK, Exists
<1>3. \A y \in Parents \ {x} : enabled'[y] = enabled[y]
  BY <1>1, <1>2 DEF RowsOK
<1>4. HistoryOK' /\ \A q \in Requests : Fresh(q)'
  <2>1. \A p \in Products : Same(p)
    BY <1>1 DEF Same, SameImages
  <2>2. P \in SUBSET Products
    OBVIOUS
  <2> HIDE DEF P
  <2>3. QED BY <1>1, <1>3, <2>1, <2>2, FinishCorrect
<1>5. ASSUME NEW p \in Products \ raced', Active(p)'
      PROVE  Fit(p, product[p])'
  <2>1. Active(p) /\ (OnePrimary(p)' <=> OnePrimary(p))
    BY <1>1, <1>5 DEF Active, Exists, OnePrimary, PrimariesOf, ImagesOf
  <2>2. ~Publishes(r)
    BY <1>1 DEF Publishes, At
  <2>3. raced' = IF r \in stale THEN raced \cup P ELSE raced
    BY <1>1, <2>2 DEF Finish
  <2>4. x \notin ParentsOf(product[p])
    <3>1. CASE r \in stale
      BY <1>5, <2>1, <2>3, <3>1
    <3>2. CASE r \notin stale
      BY <1>1, <2>1, <3>2 DEF IInv, Fresh, Judged, JudgedDeactivate
    <3>3. QED BY <3>1, <3>2
  <2>5. Fit(p, product[p]) /\ ParentsOf(product[p]) \subseteq Parents
    BY <1>2, <1>5, <2>1, <2>3, RowFacts DEF IInv, Active
  <2>6. QED BY <1>1, <1>3, <2>1, <2>4, <2>5 DEF Fit
<1>6. QED BY <1>2, <1>4, <1>5 DEF IInv

(***************************************************************************)
(* The other steps                                                         *)
(***************************************************************************)

\* A step that no request takes keeps what the requests have found.
LEMMA FreshStays ==
    ASSUME IInv, UNCHANGED <<request, reads, stale>>,
           \A p \in Products : Same(p) \/ ~(Exists(p) \/ Active(p)'),
           \A x \in Parents : enabled[x] => enabled'[x]
    PROVE  \A q \in Requests : Fresh(q)'
<1> SUFFICES ASSUME NEW q \in Requests, q \notin stale PROVE Judged(request[q], reads[q])'
  BY DEF Fresh
<1>1. Shape(request[q]) /\ Judged(request[q], reads[q]) /\ RowsOK
  BY DEF IInv, HistoryOK, Fresh
<1>2. \A req, J : req = request[q] /\ J = reads[q] => Judged(req, J)'
  <2> SUFFICES ASSUME NEW req, NEW J, req = request[q], J = reads[q]
               PROVE  Judged(req, J)'
    OBVIOUS
  <2>1. Shape(req) /\ Judged(req, J)
    BY <1>1
  <2>2. QED BY <1>1, <2>1, JudgedStays
<1>3. request'[q] = request[q] /\ reads'[q] = reads[q]
  OBVIOUS
<1>4. QED
  BY <1>2, <1>3 DEF Judged, JudgedUpdate, JudgedRemove, JudgedBulk, JudgedImage,
     JudgedDeactivate

LEMMA CreateProductCorrect ==
    ASSUME IInv, NEW p \in Products, NEW s \in Stores, NEW c \in Categories,
           NEW b \in Brands \cup {None}, NEW described \in BOOLEAN,
           CreateProduct(p, s, c, b, described)
    PROVE  IInv'
<1> DEFINE row == [status |-> "DRAFT", store |-> s, category |-> c, brand |-> b,
                   described |-> described, unexpired |-> TRUE]
<1>1. /\ ~Exists(p) /\ product' = [product EXCEPT ![p] = row]
      /\ raced' = raced \ {p}
      /\ UNCHANGED <<image, enabled, request, reads, stale>>
  BY DEF CreateProduct
<1>2. RowsOK /\ row \in ProductRow /\ row.status # "ACTIVE"
  BY DEF IInv, ProductRow, Statuses
<1> HIDE DEF row
<1>3. product'[p] = row /\ \A q \in Products \ {p} : product'[q] = product[q]
  BY <1>1, <1>2 DEF RowsOK
<1>4. RowsOK'
  BY <1>1, <1>2, NoneAssumption DEF RowsOK, Exists
<1>5. HistoryOK'
  BY <1>1 DEF IInv, HistoryOK, Shape
<1>6. ~Active(p)' /\ \A q \in Products \ {p} : Same(q)
  BY <1>1, <1>2, <1>3 DEF Active, Same, SameImages
<1>7. \A q \in Requests : Fresh(q)'
  BY <1>1, <1>6, FreshStays
<1>8. ASSUME NEW q \in Products \ raced', Active(q)'
      PROVE  Fit(q, product[q])'
  <2>1. q # p /\ q \notin raced /\ product'[q] = product[q] /\ Active(q)
    BY <1>1, <1>3, <1>6, <1>8 DEF Active, Exists
  <2>2. OnePrimary(q)' <=> OnePrimary(q)
    BY <1>1 DEF OnePrimary, PrimariesOf, ImagesOf
  <2>3. QED BY <1>1, <2>1, <2>2 DEF IInv, Fit
<1>9. QED BY <1>4, <1>5, <1>7, <1>8 DEF IInv

LEMMA ActivateCorrect ==
    ASSUME IInv, NEW x \in Parents, Activate(x)
    PROVE  IInv'
<1>1. /\ enabled' = [enabled EXCEPT ![x] = TRUE]
      /\ UNCHANGED <<product, image, request, reads, stale, raced>>
  BY DEF Activate, history
<1>2. RowsOK /\ RowsOK'
  BY <1>1 DEF IInv, RowsOK, Exists
<1>3. HistoryOK'
  BY <1>1 DEF IInv, HistoryOK, Shape
<1>4. \A y \in Parents : enabled[y] => enabled'[y]
  BY <1>1, <1>2 DEF RowsOK
<1>5. \A p \in Products : Same(p) /\ (OnePrimary(p)' <=> OnePrimary(p))
  BY <1>1, SamePrimaries DEF Same, SameImages
<1>6. \A q \in Requests : Fresh(q)'
  BY <1>1, <1>4, <1>5, FreshStays
<1>7. ASSUME NEW p \in Products \ raced', Active(p)'
      PROVE  Fit(p, product[p])'
  <2>1. Active(p) /\ Fit(p, product[p]) /\ ParentsOf(product[p]) \subseteq Parents
    BY <1>1, <1>2, <1>7, RowFacts DEF IInv, Active, Exists
  <2>2. QED BY <1>1, <1>4, <1>5, <2>1 DEF Fit
<1>8. QED BY <1>2, <1>3, <1>6, <1>7 DEF IInv

LEMMA AbortCorrect ==
    ASSUME IInv, NEW r \in Requests, Abort(r)
    PROVE  IInv'
<1>1. /\ request' = [request EXCEPT ![r] = Idle]
      /\ reads' = [reads EXCEPT ![r] = {}]
      /\ stale' = stale \ {r}
      /\ UNCHANGED <<product, image, enabled, raced>>
  BY DEF Abort, End, rows
<1>2. RowsOK'
  BY <1>1 DEF IInv, RowsOK, Exists
<1>3. HistoryOK'
  <2>1. \A q \in Requests : Shape(request'[q])
    BY <1>1 DEF IInv, HistoryOK, Shape, Idle
  <2>2. QED BY <1>1, <2>1 DEF IInv, HistoryOK, Shape
<1>4. \A p \in Products : /\ OnePrimary(p)' <=> OnePrimary(p)
                          /\ ImagesOf(p)' = ImagesOf(p)
  BY <1>1 DEF OnePrimary, PrimariesOf, ImagesOf
<1>5. ASSUME NEW q \in Requests PROVE Fresh(q)'
  <2>1. CASE q = r
    <3>1. request'[q] = Idle
      BY <1>1, <2>1 DEF IInv, HistoryOK
    <3>2. QED
      BY <3>1 DEF Fresh, Judged, JudgedUpdate, JudgedRemove, JudgedBulk, JudgedImage,
         JudgedDeactivate, Idle
  <2>2. CASE q # r
    <3>1. request'[q] = request[q] /\ reads'[q] = reads[q] /\ (q \in stale' <=> q \in stale)
      BY <1>1, <2>2 DEF IInv, HistoryOK
    <3>2. Shape(request[q])
      BY DEF IInv, HistoryOK
    <3>3. QED
      BY <1>1, <1>4, <3>1, <3>2 DEF IInv, Fresh, Judged, JudgedUpdate, JudgedRemove,
         JudgedBulk, JudgedImage, JudgedDeactivate, Exists, Active, Fit, Shape
  <2>3. QED BY <2>1, <2>2
<1>6. \A p \in Products \ raced' : Active(p)' => Fit(p, product[p])'
  BY <1>1, <1>4 DEF IInv, Active, Exists, Fit
<1>7. QED BY <1>2, <1>3, <1>5, <1>6 DEF IInv

\* Nothing a request judges, and nothing customers see, depends on the expiry.
LEMMA ExpireCorrect ==
    ASSUME IInv, NEW p \in Products, Expire(p)
    PROVE  IInv'
<1> DEFINE row == product[p]
           late == [row EXCEPT !.unexpired = FALSE]
<1>1. /\ Exists(p)
      /\ product' = [product EXCEPT ![p] = late]
      /\ UNCHANGED <<image, enabled, request, reads, stale, raced>>
  BY DEF Expire, history
<1>2. RowsOK /\ row \in ProductRow /\ late \in ProductRow
  BY <1>1, RowFacts DEF IInv, ProductRow
<1>3. /\ product'[p] = late
      /\ \A q \in Products \ {p} : product'[q] = product[q]
  BY <1>1, <1>2 DEF RowsOK
<1>4. /\ late.status = row.status
      /\ late.described = row.described
      /\ ParentsOf(late) = ParentsOf(row)
  BY <1>2 DEF ProductRow, ParentsOf
<1>5. ASSUME NEW patch \in Patch
      PROVE  /\ Patched(late, patch).described = Patched(row, patch).described
             /\ ParentsOf(Patched(late, patch)) = ParentsOf(Patched(row, patch))
  <2>1. /\ DOMAIN late = DOMAIN row
        /\ \A f \in DOMAIN row : f # "unexpired" => late[f] = row[f]
        /\ {"store", "category", "brand", "described"} \subseteq DOMAIN row
    BY <1>2 DEF ProductRow
  <2> HIDE DEF late
  <2>2. \A f \in DOMAIN row : f # "unexpired" => Patched(late, patch)[f] = Patched(row, patch)[f]
    BY <2>1 DEF Patched
  <2>3. /\ Patched(late, patch).store = Patched(row, patch).store
        /\ Patched(late, patch).category = Patched(row, patch).category
        /\ Patched(late, patch).brand = Patched(row, patch).brand
        /\ Patched(late, patch).described = Patched(row, patch).described
    BY <2>1, <2>2
  <2>4. QED BY <2>3 DEF ParentsOf
<1>6. late # None
  BY <1>2, NoneAssumption
<1> HIDE DEF row, late
<1>7. RowsOK'
  BY <1>1, <1>2, <1>6 DEF RowsOK, Exists
<1>8. HistoryOK'
  BY <1>1 DEF IInv, HistoryOK, Shape
<1>9. ASSUME NEW q \in Products
      PROVE  /\ Exists(q)' <=> Exists(q)
             /\ Active(q)' <=> Active(q)
             /\ Exists(q) => /\ product'[q].status = product[q].status
                             /\ product'[q].described = product[q].described
                             /\ ParentsOf(product'[q]) = ParentsOf(product[q])
             /\ OnePrimary(q)' <=> OnePrimary(q)
             /\ ImagesOf(q)' = ImagesOf(q)
  <2>1. (OnePrimary(q)' <=> OnePrimary(q)) /\ ImagesOf(q)' = ImagesOf(q)
    BY <1>1 DEF OnePrimary, PrimariesOf, ImagesOf
  <2>2. CASE q = p
    BY <1>1, <1>3, <1>4, <1>6, <2>1, <2>2 DEF Exists, Active, row
  <2>3. CASE q # p
    BY <1>3, <2>1, <2>3 DEF Exists, Active
  <2>4. QED BY <2>2, <2>3
<1>10. ASSUME NEW q \in Requests, q \notin stale PROVE Judged(request[q], reads[q])'
  <2> DEFINE req == request[q]
             J == reads[q]
  <2>1. Shape(req) /\ Judged(req, J) /\ request'[q] = req /\ reads'[q] = J
    BY <1>1, <1>10 DEF IInv, HistoryOK, Fresh
  <2>2. JudgedUpdate(request[q], reads[q])'
    <3> SUFFICES ASSUME req.step = "update" PROVE JudgedUpdate(request[q], reads[q])'
      BY <2>1 DEF JudgedUpdate
    <3> PICK x \in Products : x = req.product
      BY <2>1 DEF Shape
    <3> PICK patch \in Patch : patch = req.patch
      BY <2>1 DEF Shape
    <3>1. /\ Patched(product'[x], patch).described = Patched(product[x], patch).described
          /\ ParentsOf(Patched(product'[x], patch)) = ParentsOf(Patched(product[x], patch))
      BY <1>3, <1>5 DEF row
    <3>2. x \in J /\ Exists(x) /\ ParentsOf(Patched(product[x], patch)) \subseteq J
      BY <2>1 DEF Judged, JudgedUpdate
    <3>3. Active(x) => Fit(x, Patched(product[x], patch))
      BY <2>1 DEF Judged, JudgedUpdate
    <3>4. Active(x)' => Fit(x, Patched(product[x], patch))'
      BY <1>1, <1>9, <3>1, <3>3 DEF Fit
    <3>5. QED BY <1>9, <2>1, <3>1, <3>2, <3>4 DEF JudgedUpdate
  <2>3. JudgedRemove(request[q], reads[q])'
    BY <1>9, <2>1 DEF Judged, JudgedRemove, Shape
  <2>4. JudgedBulk(request[q], reads[q])'
    BY <1>1, <1>9, <2>1 DEF Judged, JudgedBulk, Shape, Fit
  <2>5. JudgedImage(request[q], reads[q])'
    BY <1>1, <1>9, <2>1 DEF Judged, JudgedImage, Shape
  <2>6. JudgedDeactivate(request[q], reads[q])'
    BY <1>9, <2>1 DEF Judged, JudgedDeactivate, Active
  <2>7. QED BY <2>2, <2>3, <2>4, <2>5, <2>6 DEF Judged
<1>11. ASSUME NEW q \in Products \ raced', Active(q)'
       PROVE  Fit(q, product[q])'
  <2>1. Exists(q) /\ Fit(q, product[q])
    BY <1>1, <1>9, <1>11 DEF IInv, Active
  <2>2. QED BY <1>1, <1>9, <2>1 DEF Fit
<1>12. QED BY <1>1, <1>7, <1>8, <1>10, <1>11 DEF IInv, Fresh

LEMMA NextCorrect == IInv /\ [Next]_vars => IInv'
<1> SUFFICES ASSUME IInv, [Next]_vars PROVE IInv'
  OBVIOUS
<1>1. ASSUME NEW r \in Requests, Editing(r) PROVE IInv'
  <2>1. ASSUME NEW p \in Products, \E patch \in Patches : UpdateRead(r, p, patch) PROVE IInv'
    BY <2>1, EditingBegins
  <2>2. ASSUME NEW p \in Products, RemoveRead(r, p) PROVE IInv'
    BY <2>2, EditingBegins
  <2>3. QED BY <1>1, <2>1, <2>2, UpdateWrites, RemoveWrites DEF Editing
<1>2. ASSUME NEW r \in Requests, Bulking(r) PROVE IInv'
  <2>1. CASE BulkWrite(r)
    BY <2>1, BulkWrites
  <2>2. CASE ~BulkWrite(r)
    <3>1. PICK P \in SUBSET Products :
             \/ PublishRead(r, P)
             \/ UnpublishRead(r, P)
             \/ ArchiveRead(r, P)
             \/ RestoreRead(r, P)
             \/ \E s \in Stores : AssignStoreRead(r, P, s)
             \/ SetExpirationRead(r, P)
      BY <1>2, <2>2 DEF Bulking
    <3>2. QED BY <3>1, BulkingBegins
  <2>3. QED BY <2>1, <2>2
<1>3. ASSUME NEW r \in Requests, Imaging(r) PROVE IInv'
  <2>1. ASSUME NEW i \in Images, NEW primary \in BOOLEAN, UpdateImageRead(r, i, primary)
        PROVE  IInv'
    BY <2>1, ImageBegins
  <2>2. ASSUME NEW i \in Images, RemoveImageRead(r, i) PROVE IInv'
    BY <2>2, ImageBegins
  <2>3. QED
    BY <1>3, <2>1, <2>2, AddImageBegins, AddImageWrites, UpdateImageWrites,
       RemoveImageWrites DEF Imaging
<1>4. ASSUME NEW r \in Requests, Switching(r) PROVE IInv'
  BY <1>4, DeactivateBegins, DeactivateWrites DEF Switching
<1>5. ASSUME NEW r \in Requests, Abort(r) PROVE IInv'
  BY <1>5, AbortCorrect
<1>6. ASSUME NEW p \in Products, Expire(p) PROVE IInv'
  BY <1>6, ExpireCorrect
<1>7. ASSUME NEW p \in Products, NEW s \in Stores, NEW c \in Categories,
             NEW b \in Brands \cup {None}, NEW described \in BOOLEAN,
             CreateProduct(p, s, c, b, described)
      PROVE  IInv'
  BY <1>7, CreateProductCorrect
<1>8. ASSUME NEW x \in Parents, Activate(x) PROVE IInv'
  BY <1>8, ActivateCorrect
<1>9. CASE UNCHANGED vars
  <2>1. UNCHANGED <<product, image, enabled, request, reads, stale, raced>>
    BY <1>9 DEF vars, rows, history
  <2>2. /\ RowsOK' /\ HistoryOK'
    BY <2>1 DEF IInv, RowsOK, HistoryOK, Exists, Shape
  <2>3. \A q \in Requests : Fresh(q)'
    BY <2>1, FreshStays DEF Same, SameImages
  <2>4. \A p \in Products \ raced' : Active(p)' => Fit(p, product[p])'
    BY <2>1 DEF IInv, Active, Exists, Fit, OnePrimary, PrimariesOf, ImagesOf
  <2>5. QED BY <2>2, <2>3, <2>4 DEF IInv
<1>10. QED
  BY <1>1, <1>2, <1>3, <1>4, <1>5, <1>6, <1>7, <1>8, <1>9 DEF Next

LEMMA InvariantHolds == Spec => []IInv
BY InitCorrect, NextCorrect, PTL DEF Spec

(***************************************************************************)
(* The number of images                                                    *)
(***************************************************************************)

\* The requests that are about to add an image to p.
Adding(p) == {r \in Requests : At(r, "addImage") /\ request[r].product = p}

\* The images a product has and those under way, if n are under way at most.
LimitInv(n) == \A p \in Products : Cardinality(ImagesOf(p)) + Cardinality(Adding(p))
                                      <= ImageLimit + n - 1

LEMMA Counts ==
    /\ Cardinality(Requests) \in Nat
    /\ ImageLimit \in Nat \ {0}
    /\ \A p : /\ IsFiniteSet(ImagesOf(p)) /\ Cardinality(ImagesOf(p)) \in Nat
              /\ IsFiniteSet(Adding(p)) /\ Cardinality(Adding(p)) \in Nat
              /\ Cardinality(Adding(p)) <= Cardinality(Requests)
<1>1. \A p : ImagesOf(p) \in SUBSET Images /\ Adding(p) \in SUBSET Requests
  BY DEF ImagesOf, Adding
<1>2. QED
  BY <1>1, FiniteAssumption, ImageLimitAssumption, FS_Subset, FS_CardinalityType

\* A step that neither adds an image nor begins to.
LEMMA FewerImages ==
    ASSUME NEW n \in Nat, LimitInv(n), NEW p \in Products,
           ImagesOf(p)' \subseteq ImagesOf(p), Adding(p)' \subseteq Adding(p)
    PROVE  (Cardinality(ImagesOf(p)) + Cardinality(Adding(p)))'
               <= ImageLimit + n - 1
<1>1. /\ Cardinality(ImagesOf(p)') <= Cardinality(ImagesOf(p))
      /\ Cardinality(Adding(p)') <= Cardinality(Adding(p))
      /\ Cardinality(ImagesOf(p)') \in Nat /\ Cardinality(Adding(p)') \in Nat
  BY Counts, FS_Subset, FS_CardinalityType
<1>2. QED BY <1>1, Counts DEF LimitInv

LEMMA EndAdds ==
    ASSUME IInv, NEW r \in Requests, request' = [request EXCEPT ![r] = Idle]
    PROVE  \A p : Adding(p)' = Adding(p) \ {r}
BY DEF Adding, At, Idle, IInv, HistoryOK

LEMMA BeginAdds ==
    ASSUME IInv, NEW r \in Requests, NEW req, NEW J, Begin(r, req, J)
    PROVE  /\ \A p : ImagesOf(p)' = ImagesOf(p)
           /\ req.step # "addImage" => \A p : Adding(p)' \subseteq Adding(p)
           /\ \A p : req.product # p => Adding(p)' \subseteq Adding(p)
<1>1. /\ request' = [request EXCEPT ![r] = req] /\ UNCHANGED image
      /\ DOMAIN request = Requests
  BY DEF Begin, rows, IInv, HistoryOK
<1>2. QED BY <1>1 DEF Adding, At, ImagesOf

LEMMA LimitInit ==
    ASSUME NEW n \in Nat, Init
    PROVE  LimitInv(n)
<1> SUFFICES ASSUME NEW p \in Products
             PROVE  Cardinality(ImagesOf(p)) + Cardinality(Adding(p))
                       <= ImageLimit + n - 1
  BY DEF LimitInv
<1>1. ImagesOf(p) = {}
  BY ParentsAssumption DEF Init, ImagesOf, NoImage
<1>2. Adding(p) = {}
  BY DEF Init, Adding, At, Idle
<1>3. Cardinality(ImagesOf(p)) = 0 /\ Cardinality(Adding(p)) = 0
  BY <1>1, <1>2, FS_EmptySet
<1>4. QED BY <1>3, Counts

LEMMA AddImageLimit ==
    ASSUME NEW n \in Nat, IInv, LimitInv(n), NEW r \in Requests,
           \A p \in Products : Cardinality(Adding(p))' <= n
    PROVE  /\ \A q \in Products, primary \in BOOLEAN : AddImageRead(r, q, primary) => LimitInv(n)'
           /\ \A i \in Images : AddImageWrite(r, i) => LimitInv(n)'
<1>1. ASSUME NEW q \in Products, NEW primary \in BOOLEAN, AddImageRead(r, q, primary),
             NEW p \in Products
      PROVE  (Cardinality(ImagesOf(p)) + Cardinality(Adding(p)))'
                <= ImageLimit + n - 1
  <2> DEFINE req == [step |-> "addImage", product |-> q,
                     primary |-> (Cardinality(ImagesOf(q)) = 0 \/ primary)]
  <2>1. Begin(r, req, {q}) /\ Cardinality(ImagesOf(q)) < ImageLimit
    BY <1>1 DEF AddImageRead
  <2>2. ImagesOf(p)' = ImagesOf(p) /\ (q # p => Adding(p)' \subseteq Adding(p))
    BY <2>1, BeginAdds
  <2>3. CASE q # p
    BY <2>2, <2>3, FewerImages
  <2>4. CASE q = p
    <3>1. Adding(p)' \in SUBSET Requests
      BY DEF Adding
    <3>2. Cardinality(Adding(p)') <= n /\ Cardinality(Adding(p)') \in Nat
      BY <3>1, FiniteAssumption, FS_Subset, FS_CardinalityType
    <3>3. QED BY <2>1, <2>2, <2>4, <3>2, Counts
  <2>5. QED BY <2>3, <2>4
<1>2. ASSUME NEW i \in Images, AddImageWrite(r, i), NEW p \in Products
      PROVE  (Cardinality(ImagesOf(p)) + Cardinality(Adding(p)))'
                <= ImageLimit + n - 1
  <2> PICK q : q = request[r].product
    OBVIOUS
  <2>1. /\ At(r, "addImage")
        /\ image[i] = NoImage
        /\ request' = [request EXCEPT ![r] = Idle]
    BY <1>2 DEF AddImageWrite, Finish, End
  <2>2. Adding(p)' = Adding(p) \ {r} /\ (q = p <=> r \in Adding(p))
    BY <2>1, EndAdds DEF Adding
  <2>3. \A j \in Images : /\ j # i => image'[j].product = image[j].product
                          /\ image'[i].product = q
    BY <1>2, <2>1 DEF AddImageWrite, MakePrimary, IInv, RowsOK
  <2>4. CASE q # p
    <3>1. ImagesOf(p)' \subseteq ImagesOf(p)
      BY <2>3, <2>4 DEF ImagesOf
    <3>2. QED BY <2>2, <3>1, FewerImages
  <2>5. CASE q = p
    <3>1. i \notin ImagesOf(p)
      BY <2>1, ParentsAssumption DEF ImagesOf, NoImage
    <3>2. ImagesOf(p)' = ImagesOf(p) \cup {i}
      BY <2>3, <2>5 DEF ImagesOf
    <3>3. Cardinality(ImagesOf(p)') = Cardinality(ImagesOf(p)) + 1
      BY <3>1, <3>2, Counts, FS_AddElement
    <3>4. Cardinality(Adding(p)') = Cardinality(Adding(p)) - 1
      BY <2>2, <2>5, Counts, FS_RemoveElement
    <3>5. QED BY <3>3, <3>4, Counts DEF LimitInv
  <2>6. QED BY <2>4, <2>5
<1>3. QED BY <1>1, <1>2 DEF LimitInv

LEMMA LimitNext ==
    ASSUME NEW n \in Nat, IInv, LimitInv(n), [Next]_vars,
           \A p \in Products : Cardinality(Adding(p))' <= n
    PROVE  LimitInv(n)'
<1> DEFINE Fewer == \A p \in Products : /\ ImagesOf(p)' \subseteq ImagesOf(p)
                                        /\ Adding(p)' \subseteq Adding(p)
<1>1. Fewer => LimitInv(n)'
  BY FewerImages DEF LimitInv
<1>2. ASSUME NEW r \in Requests, NEW req, NEW J, Begin(r, req, J), req.step # "addImage"
      PROVE  Fewer
  BY <1>2, BeginAdds
<1>3. ASSUME NEW r \in Requests, request' = [request EXCEPT ![r] = Idle],
             \A j \in Images : image'[j].product \in {None, image[j].product}
      PROVE  Fewer
  BY <1>3, EndAdds, ParentsAssumption DEF ImagesOf
<1>4. ASSUME UNCHANGED <<image, request>> PROVE Fewer
  BY <1>4 DEF Adding, At, ImagesOf
<1>5. ASSUME NEW r \in Requests, Editing(r) PROVE Fewer
  <2>1. ASSUME NEW p \in Products, NEW patch \in Patches, UpdateRead(r, p, patch) PROVE Fewer
    BY <1>2, <2>1 DEF UpdateRead
  <2>2. ASSUME NEW p \in Products, RemoveRead(r, p) PROVE Fewer
    BY <1>2, <2>2 DEF RemoveRead
  <2>3. CASE UpdateWrite(r)
    BY <1>3, <2>3 DEF UpdateWrite, Finish, End
  <2>4. CASE RemoveWrite(r)
    BY <1>3, <2>4 DEF RemoveWrite, Finish, End, NoImage
  <2>5. QED BY <1>5, <2>1, <2>2, <2>3, <2>4 DEF Editing
<1>6. ASSUME NEW r \in Requests, Bulking(r) PROVE Fewer
  <2>1. ASSUME NEW changed, NEW data, NEW J, Bulk(r, changed, data, J) PROVE Fewer
    BY <1>2, <2>1 DEF Bulk
  <2>2. CASE BulkWrite(r)
    BY <1>3, <2>2 DEF BulkWrite, Finish, End
  <2>3. QED
    BY <1>6, <2>1, <2>2 DEF Bulking, PublishRead, UnpublishRead, ArchiveRead, RestoreRead,
       AssignStoreRead, SetExpirationRead
<1>7. ASSUME NEW r \in Requests, Imaging(r) PROVE LimitInv(n)'
  <2>1. ASSUME NEW i \in Images, NEW primary \in BOOLEAN, UpdateImageRead(r, i, primary)
        PROVE  Fewer
    BY <1>2, <2>1 DEF UpdateImageRead
  <2>2. ASSUME NEW i \in Images, RemoveImageRead(r, i) PROVE Fewer
    BY <1>2, <2>2 DEF RemoveImageRead
  <2>3. CASE UpdateImageWrite(r)
    <3>1. request' = [request EXCEPT ![r] = Idle]
      BY <2>3 DEF UpdateImageWrite, Finish, End
    <3>2. \A j \in Images : image'[j].product = image[j].product
      BY <2>3 DEF UpdateImageWrite, MakePrimary, IInv, RowsOK
    <3>3. QED BY <1>1, <1>3, <3>1, <3>2
  <2>4. CASE RemoveImageWrite(r)
    <3>1. request' = [request EXCEPT ![r] = Idle]
      BY <2>4 DEF RemoveImageWrite, Finish, End
    <3>2. \A j \in Images : image'[j].product \in {None, image[j].product}
      BY <2>4 DEF RemoveImageWrite, NoImage, IInv, RowsOK
    <3>3. QED BY <1>1, <1>3, <3>1, <3>2
  <2> HIDE DEF Fewer
  <2>5. QED BY <1>1, <1>7, <2>1, <2>2, <2>3, <2>4, AddImageLimit DEF Imaging
<1>8. ASSUME NEW r \in Requests, Switching(r) \/ Abort(r) PROVE Fewer
  <2>1. ASSUME NEW x \in Parents, DeactivateRead(r, x) PROVE Fewer
    BY <1>2, <2>1 DEF DeactivateRead
  <2>2. CASE DeactivateWrite(r) \/ Abort(r)
    BY <1>3, <2>2 DEF DeactivateWrite, Abort, Finish, End, rows
  <2>3. QED BY <1>8, <2>1, <2>2 DEF Switching
<1>9. ASSUME \/ UNCHANGED vars
             \/ \E p \in Products : Expire(p)
             \/ \E p \in Products, s \in Stores, c \in Categories, b \in Brands \cup {None},
                   described \in BOOLEAN : CreateProduct(p, s, c, b, described)
             \/ \E x \in Parents : Activate(x)
      PROVE  Fewer
  BY <1>4, <1>9 DEF vars, rows, Expire, CreateProduct, Activate
<1> HIDE DEF Fewer
<1>10. QED BY <1>1, <1>5, <1>6, <1>7, <1>8, <1>9 DEF Next

(***************************************************************************)
(* The theorems                                                            *)
(***************************************************************************)

\* Every row, and what the history says, is well formed (ProductPublication.TypeOK).
THEOREM TypeCorrect == Spec => []TypeOK
<1>1. IInv => TypeOK
  BY DEF IInv, RowsOK, HistoryOK, TypeOK
<1>2. QED BY <1>1, InvariantHolds, PTL

\* However publications, PATCHes, image requests and deactivations overlap, an
\* active product lacks something customers must see only after a request wrote
\* it, or switched its parent off, on rows another had written since
\* (admin-product-publication.service.ts, admin-products.service.ts).
THEOREM StaysPresentable == Spec => []PresentableUnlessRaced
<1>1. IInv => PresentableUnlessRaced
  BY OnePrimaryIsCardinality DEF IInv, PresentableUnlessRaced, Presentable, Fit
<1>2. QED BY <1>1, InvariantHolds, PTL

\* An archived product only comes back as a draft and only drafts are deleted,
\* in any sequence of requests that overlap on other rows
\* (admin-product-archive.service.ts, AdminProductsService.remove).
THEOREM Lifecycle == Spec => LifecycleUnlessRaced
<1> DEFINE Step == \A p \in Products \ raced' : Exists(p) =>
                      /\ product'[p] = None => product[p].status = "DRAFT"
                      /\ product[p].status = "ARCHIVED" => ~Active(p)'
<1>1. ASSUME UNCHANGED product PROVE Step
  BY <1>1 DEF Exists, Active
<1>2. ASSUME IInv, NEW r \in Requests, UpdateWrite(r) PROVE Step
  <2> RowsOK /\ request[r].product \in Products /\ request[r].patch \in Patch
    BY <1>2 DEF IInv, HistoryOK, Shape, UpdateWrite, At
  <2> DEFINE row == Patched(product[request[r].product], request[r].patch)
  <2>1. row # None /\ row.status = product[request[r].product].status
    BY <1>2, PatchedRow, RowFacts, NoneAssumption DEF UpdateWrite
  <2>2. product' = [product EXCEPT ![request[r].product] = row]
    BY <1>2 DEF UpdateWrite
  <2> HIDE DEF row
  <2>3. QED BY <2>1, <2>2 DEF RowsOK, Exists, Active
<1>3. ASSUME IInv, NEW r \in Requests, RemoveWrite(r) PROVE Step
  <2> DEFINE q == request[r].product
  <2>1. /\ RowsOK /\ request[r].step = "remove"
        /\ product' = [product EXCEPT ![q] = None]
        /\ r \in stale => q \in raced'
    BY <1>3 DEF IInv, RemoveWrite, At, Finish
  <2>2. r \notin stale => product[q].status = "DRAFT"
    BY <1>3, <2>1 DEF IInv, Fresh, Judged, JudgedRemove
  <2> HIDE DEF q
  <2>3. \A p \in Products : p # q => product'[p] = product[p]
    BY <2>1 DEF RowsOK
  <2>4. \A p \in Products : p = q => product'[p] = None
    BY <2>1 DEF RowsOK
  <2>5. QED BY <2>1, <2>2, <2>3, <2>4 DEF Exists, Active
<1>4. ASSUME IInv, NEW r \in Requests, BulkWrite(r) PROVE Step
  <2> DEFINE P == request[r].products
             data == request[r].data
  <2>1. /\ request[r].step = "bulk"
        /\ product' = [p \in Products |-> IF p \in P /\ Exists(p) THEN Merged(product[p], data)
                                                                  ELSE product[p]]
        /\ r \in stale => P \subseteq raced'
        /\ data \in BulkData
    BY <1>4 DEF IInv, HistoryOK, Shape, BulkWrite, At, Merged, Finish
  <2>2. r \notin stale => \A p \in P : data = [status |-> "ACTIVE"] =>
                             product[p].status # "ARCHIVED"
    BY <1>4, <2>1 DEF IInv, Fresh, Judged, JudgedBulk
  <2> HIDE DEF P, data
  <2> SUFFICES ASSUME NEW p \in Products \ raced', Exists(p)
               PROVE  /\ product'[p] = None => product[p].status = "DRAFT"
                      /\ product[p].status = "ARCHIVED" => ~Active(p)'
    OBVIOUS
  <2>3. CASE p \notin P
    BY <2>1, <2>3 DEF Exists, Active
  <2>4. CASE p \in P
    <3>1. /\ product[p] \in ProductRow
          /\ product'[p] = Merged(product[p], data)
          /\ product'[p] \in ProductRow
      BY <1>4, <2>1, <2>4, RowFacts, MergedRow DEF IInv
    <3>2. product'[p] # None
      BY <3>1, NoneAssumption
    <3>3. ASSUME product[p].status = "ARCHIVED" PROVE product'[p].status # "ACTIVE"
      <4>1. data # [status |-> "ACTIVE"]
        BY <2>1, <2>2, <2>4, <3>3
      <4>2. CASE data = [status |-> data.status]
                 /\ Merged(product[p], data) = [product[p] EXCEPT !.status = data.status]
        BY <3>1, <4>1, <4>2 DEF ProductRow
      <4>3. CASE Merged(product[p], data) = [product[p] EXCEPT !.store = data.store]
        BY <3>1, <3>3, <4>3 DEF ProductRow
      <4>4. CASE Merged(product[p], data) = [product[p] EXCEPT !.unexpired = TRUE]
        BY <3>1, <3>3, <4>4 DEF ProductRow
      <4>5. QED BY <2>1, <3>1, <4>2, <4>3, <4>4, MergedRow
    <3>4. QED BY <3>2, <3>3 DEF Active
  <2>5. QED BY <2>3, <2>4
<1>5. ASSUME IInv, NEW q \in Products, NEW s \in Stores, NEW c \in Categories,
             NEW b \in Brands \cup {None}, NEW described \in BOOLEAN,
             CreateProduct(q, s, c, b, described)
      PROVE  Step
  <2>1. \A p \in Products : p # q => product'[p] = product[p]
    BY <1>5 DEF CreateProduct, IInv, RowsOK
  <2>2. ~Exists(q)
    BY <1>5 DEF CreateProduct
  <2>3. QED BY <2>1, <2>2 DEF Exists, Active
<1>6. ASSUME IInv, NEW q \in Products, Expire(q) PROVE Step
  <2>1. /\ product' = [product EXCEPT ![q].unexpired = FALSE]
        /\ product[q] \in ProductRow /\ RowsOK
    BY <1>6, RowFacts DEF Expire, IInv
  <2>2. /\ product'[q].status = product[q].status
        /\ product'[q] \in ProductRow
        /\ \A p \in Products : p # q => product'[p] = product[p]
    BY <2>1 DEF RowsOK, ProductRow
  <2>3. QED BY <2>2, NoneAssumption DEF Exists, Active
<1>7. IInv /\ [Next]_vars => [Step]_<<product, raced>>
  <2> SUFFICES ASSUME IInv, [Next]_vars PROVE Step \/ UNCHANGED <<product, raced>>
    OBVIOUS
  <2> HIDE DEF Step
  <2>1. ASSUME NEW r \in Requests, Editing(r) PROVE Step
    BY <1>1, <1>2, <1>3, <2>1 DEF Editing, UpdateRead, RemoveRead, Begin, rows
  <2>2. ASSUME NEW r \in Requests, Bulking(r) PROVE Step
    BY <1>1, <1>4, <2>2 DEF Bulking, PublishRead, UnpublishRead, ArchiveRead, RestoreRead,
       AssignStoreRead, SetExpirationRead, Bulk, Begin, rows
  <2>3. ASSUME NEW r \in Requests, Imaging(r) \/ Switching(r) \/ Abort(r) PROVE Step
    BY <1>1, <2>3 DEF Imaging, Switching, Abort, AddImageRead, AddImageWrite,
       UpdateImageRead, UpdateImageWrite, RemoveImageRead, RemoveImageWrite,
       DeactivateRead, DeactivateWrite, Begin, rows
  <2>4. ASSUME NEW x \in Parents, Activate(x) PROVE Step
    BY <1>1, <2>4 DEF Activate
  <2>5. CASE UNCHANGED vars
    BY <2>5 DEF vars, rows, history
  <2>6. QED
    BY <1>5, <1>6, <2>1, <2>2, <2>3, <2>4, <2>5 DEF Next
<1>8. QED BY <1>7, InvariantHolds, PTL DEF Spec, LifecycleUnlessRaced

\* If no more than n uploads to one product overlap at any time, it exceeds the
\* limit of images by n - 1 at most: where they do not overlap, not at all.
THEOREM LimitByOverlap ==
    ASSUME NEW n \in Nat \ {0}
    PROVE  Spec /\ [](\A p \in Products : Cardinality(Adding(p)) <= n)
           => [](\A p \in Products : Cardinality(ImagesOf(p)) <= ImageLimit + n - 1)
<1>1. Init => LimitInv(n)
  BY LimitInit
<1>2. IInv /\ LimitInv(n) /\ [Next]_vars /\ (\A p \in Products : Cardinality(Adding(p)) <= n)'
      => LimitInv(n)'
  BY LimitNext
<1>3. LimitInv(n) => \A p \in Products : Cardinality(ImagesOf(p)) <= ImageLimit + n - 1
  BY Counts DEF LimitInv
<1>4. QED BY <1>1, <1>2, <1>3, InvariantHolds, PTL DEF Spec

\* Uploads that were counted before any of them was inserted exceed the limit by
\* at most one image for each other request (AdminProductImagesService.create).
THEOREM ImageLimitKept == Spec => []ImagesBoundedByOverlap
<1> DEFINE n == Cardinality(Requests)
<1>1. n \in Nat /\ \A p : Cardinality(Adding(p)) <= n
  BY Counts
<1>2. Init => LimitInv(n)
  BY <1>1, LimitInit
<1>3. (\A p : Cardinality(Adding(p)) <= n)'
  BY <1>1, PTL
<1>4. IInv /\ LimitInv(n) /\ [Next]_vars => LimitInv(n)'
  BY <1>1, <1>3, LimitNext
<1>5. LimitInv(n) => ImagesBoundedByOverlap
  BY <1>1, Counts DEF LimitInv, ImagesBoundedByOverlap
<1>6. QED BY <1>2, <1>4, <1>5, InvariantHolds, PTL DEF Spec

(***************************************************************************)
(* Requests that do not overlap                                            *)
(***************************************************************************)

\* One request is served at a time.
Serial == \A q, r \in Requests : request[q] # Idle /\ request[r] # Idle => q = r

NothingIsRaced ==
    /\ stale = {} /\ raced = {}
    /\ \A r \in Requests : request[r] = Idle => reads[r] = {}

LEMMA SerialStep ==
    ASSUME IInv, Serial, NothingIsRaced, [Next]_vars
    PROVE  NothingIsRaced'
<1> USE DEF NothingIsRaced
<1>1. DOMAIN request = Requests /\ DOMAIN reads = Requests
  BY DEF IInv, HistoryOK
<1>2. ASSUME NEW r \in Requests, End(r), raced' = {}, stale' = {} PROVE NothingIsRaced'
  BY <1>1, <1>2 DEF End
<1>3. ASSUME NEW r \in Requests, NEW W, NEW P, Finish(r, W, P), request[r] # Idle
      PROVE  NothingIsRaced'
  <2>1. stale' = {}
    BY <1>3 DEF Finish, Serial
  <2>2. raced' = {}
    BY <1>3 DEF Finish
  <2>3. QED BY <1>2, <1>3, <2>1, <2>2 DEF Finish
<1>4. ASSUME NEW r \in Requests, NEW req, NEW J, Begin(r, req, J), req # Idle
      PROVE  NothingIsRaced'
  BY <1>1, <1>4 DEF Begin
<1>5. \A step \in {"update", "remove", "bulk", "addImage", "updateImage", "removeImage",
                   "deactivate"} :
         /\ \A r \in Requests : At(r, step) => request[r] # Idle
         /\ \A req : req.step = step => req # Idle
  BY DEF At, Idle
<1>6. ASSUME NEW r \in Requests, Editing(r) PROVE NothingIsRaced'
  BY <1>3, <1>4, <1>5, <1>6 DEF Editing, UpdateRead, UpdateWrite, RemoveRead, RemoveWrite
<1>7. ASSUME NEW r \in Requests, Bulking(r) PROVE NothingIsRaced'
  BY <1>3, <1>4, <1>5, <1>7 DEF Bulking, BulkWrite, PublishRead, UnpublishRead, ArchiveRead,
     RestoreRead, AssignStoreRead, SetExpirationRead, Bulk
<1>8. ASSUME NEW r \in Requests, Imaging(r) PROVE NothingIsRaced'
  BY <1>3, <1>4, <1>5, <1>8 DEF Imaging, AddImageRead, AddImageWrite, UpdateImageRead,
     UpdateImageWrite, RemoveImageRead, RemoveImageWrite
<1>9. ASSUME NEW r \in Requests, Switching(r) PROVE NothingIsRaced'
  BY <1>3, <1>4, <1>5, <1>9 DEF Switching, DeactivateRead, DeactivateWrite
<1>10. ASSUME NEW r \in Requests, Abort(r) PROVE NothingIsRaced'
  BY <1>2, <1>10 DEF Abort
<1>11. QED
  BY <1>6, <1>7, <1>8, <1>9, <1>10
  DEF Next, vars, history, Expire, CreateProduct, Activate

\* Where no two requests overlap there is no exception: what is active is
\* presentable, its store is active, archived products come back as drafts and
\* only drafts are deleted.  That an active product may belong to an inactive store
\* (admin-products refuses it: "must belong to an active store") is therefore a
\* matter of overlap.
THEOREM PresentableWhenSerial ==
    Spec /\ []Serial =>
        /\ []((\A p \in Products : Active(p) => Presentable(p)) /\ ActiveProductHasActiveStore)
        /\ [][\A p \in Products : Exists(p) =>
                 /\ product'[p] = None => product[p].status = "DRAFT"
                 /\ product[p].status = "ARCHIVED" => ~Active(p)']_product
<1>1. Init => NothingIsRaced
  BY DEF Init, NothingIsRaced
<1>2. IInv /\ Serial /\ NothingIsRaced /\ [Next]_vars => NothingIsRaced'
  BY SerialStep
<1>3. Spec /\ []Serial => [](IInv /\ NothingIsRaced)
  BY <1>1, <1>2, InvariantHolds, PTL DEF Spec
<1>4. ASSUME IInv, NothingIsRaced, NEW p \in Products, Active(p)
      PROVE  Presentable(p) /\ enabled[product[p].store]
  <2>1. Fit(p, product[p])
    BY <1>4 DEF IInv, NothingIsRaced
  <2>2. product[p] \in ProductRow
    BY <1>4, RowFacts DEF IInv, Active
  <2>3. product[p].store \in ParentsOf(product[p])
    BY <2>2, ParentsAssumption DEF ProductRow, ParentsOf
  <2>4. QED BY <2>1, <2>3, OnePrimaryIsCardinality DEF Fit, Presentable
<1>5. IInv /\ NothingIsRaced =>
      (\A p \in Products : Active(p) => Presentable(p)) /\ ActiveProductHasActiveStore
  BY <1>4 DEF ActiveProductHasActiveStore
<1>6. NothingIsRaced' /\ [\A p \in Products \ raced' : Exists(p) =>
                             /\ product'[p] = None => product[p].status = "DRAFT"
                             /\ product[p].status = "ARCHIVED" => ~Active(p)'
                         ]_<<product, raced>>
      => [\A p \in Products : Exists(p) =>
             /\ product'[p] = None => product[p].status = "DRAFT"
             /\ product[p].status = "ARCHIVED" => ~Active(p)']_product
  BY DEF NothingIsRaced
<1>7. QED BY <1>3, <1>5, <1>6, Lifecycle, PTL DEF LifecycleUnlessRaced
=============================================================================

------------------------- MODULE ProductPublication -------------------------
(***************************************************************************)
(* What makes a product fit for customers, and keeps it so: publishing,    *)
(* archiving, editing and deleting products, their images, and switching   *)
(* off the stores, categories and brands they belong to.                   *)
(*                                                                         *)
(* Every administrator's request decides on rows it has read and writes    *)
(* afterwards, by primary key: nothing the decision depended on is read    *)
(* again or locked.  The reads of a request are one step and its writing   *)
(* transaction is another; the blob store is left out (an image is its     *)
(* row), slugs and prices are in CatalogRecords.  Ids are taken            *)
(* again once their row is gone, which the program's never are: that only  *)
(* adds behaviours.                                                        *)
(*                                                                         *)
(* The history variables say which requests have written after a row they  *)
(* had judged was written by another, and to which products it happened:   *)
(* what the program promises of a product it keeps as long as that product *)
(* is not among them.                                                      *)
(***************************************************************************)
EXTENDS Naturals, FiniteSets

CONSTANTS
    Products,     \* ids of product rows
    Images,       \* ids of product_image rows
    Stores, Categories, Brands,
    Requests,     \* slots for the requests being served at one time
    Patches,      \* the PATCHes of products to consider
    ImageLimit,   \* PRODUCT_IMAGE_LIMIT
    Keep,         \* a field that a PATCH does not mention
    None          \* NULL, or an absent row

ASSUME ImageLimitAssumption == ImageLimit \in Nat \ {0}
ASSUME FiniteAssumption == IsFiniteSet(Images) /\ IsFiniteSet(Requests)
ASSUME ParentsAssumption ==
    /\ Stores \cap Categories = {}
    /\ (Stores \cup Categories) \cap Brands = {}
    /\ {Keep, None} \cap (Stores \cup Categories \cup Brands) = {}
    /\ None \notin Products \cup Images
    /\ Keep \notin {None} \cup BOOLEAN

Parents == Stores \cup Categories \cup Brands

VARIABLES
    product,   \* product rows
    image,     \* product_image rows
    enabled,   \* isActive of stores, categories and brands
    request,   \* what each request being served has decided to write
    \* What happened; not part of the program.
    reads,     \* the rows each request has judged
    stale,     \* the requests of which another has written such a row since
    raced      \* the products a stale request has written, or has let down

rows == <<product, image, enabled>>
history == <<reads, stale, raced>>
vars == <<rows, request, history>>

(***************************************************************************)
(* Rows.  `described' and `unexpired' stand for a description that is not  *)
(* blank and an expiresAt that lies in the future.                         *)
(***************************************************************************)

Statuses == {"DRAFT", "ACTIVE", "ARCHIVED"}

ProductRow == [status : Statuses, store : Stores, category : Categories,
               brand : Brands \cup {None}, described : BOOLEAN, unexpired : BOOLEAN]

ASSUME NoneAssumption == None \notin ProductRow

NoImage == [product |-> None, primary |-> FALSE]

Exists(p) == product[p] # None
Active(p) == Exists(p) /\ product[p].status = "ACTIVE"
ParentsOf(row) == {row.store, row.category, row.brand} \ {None}
ParentsOfAll(P) == UNION {ParentsOf(product[p]) : p \in P}
ImagesOf(p) == {i \in Images : image[i].product = p}
PrimariesOf(p) == {i \in ImagesOf(p) : image[i].primary}

\* The fields a PATCH of a product may change, of those modelled.
Patch == [store : Stores \cup {Keep}, category : Categories \cup {Keep},
          brand : Brands \cup {None, Keep}, described : BOOLEAN \cup {Keep},
          unexpired : {TRUE, Keep}]

ASSUME PatchesAssumption == Patches \subseteq Patch

Patched(row, patch) ==
    [f \in DOMAIN row |-> IF f # "status" /\ patch[f] # Keep THEN patch[f] ELSE row[f]]

\* assertPublicationReady and assertCanActivate ask the same of a product.
Ready(p, row) ==
    /\ row.described
    /\ row.unexpired
    /\ \A x \in ParentsOf(row) : enabled[x]
    /\ Cardinality(PrimariesOf(p)) = 1

(***************************************************************************)
(* Requests                                                                *)
(***************************************************************************)

Idle == [step |-> "idle"]

At(r, step) == request[r].step = step

\* A request has judged the products and parents J (a product with its images).
Begin(r, req, J) ==
    /\ request[r] = Idle
    /\ request' = [request EXCEPT ![r] = req]
    /\ reads' = [reads EXCEPT ![r] = J]
    /\ UNCHANGED <<rows, stale, raced>>

End(r) == /\ request' = [request EXCEPT ![r] = Idle]
          /\ reads' = [reads EXCEPT ![r] = {}]

Publishes(r) == At(r, "bulk") /\ request[r].data = [status |-> "ACTIVE"]

\* A request that has written the rows W answers; P are the products it answers
\* for.  A publication that is not stale has judged all there is to judge.
Finish(r, W, P) ==
    /\ raced' = IF r \in stale THEN raced \cup P
                ELSE IF Publishes(r) THEN raced \ P ELSE raced
    /\ stale' = (stale \ {r}) \cup {q \in Requests \ {r} : reads[q] \cap W # {}}
    /\ End(r)

Init ==
    /\ product = [p \in Products |-> None]
    /\ image = [i \in Images |-> NoImage]
    /\ enabled \in [Parents -> BOOLEAN]
    /\ request = [r \in Requests |-> Idle]
    /\ reads = [r \in Requests |-> {}]
    /\ stale = {}
    /\ raced = {}

(***************************************************************************)
(* Products                                                                *)
(***************************************************************************)

\* A product starts as a draft that expires in the future.
CreateProduct(p, store, category, brand, described) ==
    /\ ~Exists(p)
    /\ product' = [product EXCEPT ![p] =
           [status |-> "DRAFT", store |-> store, category |-> category,
            brand |-> brand, described |-> described, unexpired |-> TRUE]]
    /\ raced' = raced \ {p}
    /\ UNCHANGED <<image, enabled, request, reads, stale>>

\* An active product stays publishable under the values it will have; a draft
\* or an archived product may be given any.
PatchAllowed(p, row) == row.status = "ACTIVE" => Ready(p, row)

UpdateRead(r, p, patch) ==
    /\ Exists(p)
    /\ PatchAllowed(p, Patched(product[p], patch))
    /\ Begin(r, [step |-> "update", product |-> p, patch |-> patch],
             {p} \cup ParentsOf(Patched(product[p], patch)))

UpdateWrite(r) ==
    LET p == request[r].product IN
    /\ At(r, "update")
    /\ Exists(p)
    /\ product' = [product EXCEPT ![p] = Patched(@, request[r].patch)]
    /\ Finish(r, {p}, {p})
    /\ UNCHANGED <<image, enabled>>

\* Mutant: only active products are protected.
RemoveReadUnlessActive(r, p) ==
    /\ Exists(p)
    /\ ~Active(p)
    /\ Begin(r, [step |-> "remove", product |-> p], {p})

RemoveRead(r, p) ==
    /\ Exists(p)
    /\ product[p].status = "DRAFT"
    /\ Begin(r, [step |-> "remove", product |-> p], {p})

\* Mutant: the image rows stay.
RemoveWriteKeepingImages(r) ==
    /\ At(r, "remove")
    /\ Exists(request[r].product)
    /\ product' = [product EXCEPT ![request[r].product] = None]
    /\ Finish(r, {request[r].product}, {request[r].product})
    /\ UNCHANGED <<image, enabled>>

\* The image rows go with the product.
RemoveWrite(r) ==
    LET p == request[r].product IN
    /\ At(r, "remove")
    /\ Exists(p)
    /\ product' = [product EXCEPT ![p] = None]
    /\ image' = [i \in Images |-> IF i \in ImagesOf(p) THEN NoImage ELSE image[i]]
    /\ Finish(r, {p}, {p})
    /\ UNCHANGED enabled

\* Time passes the expiresAt of a product; nothing reacts to it.
Expire(p) ==
    /\ Exists(p)
    /\ product[p].unexpired
    /\ product' = [product EXCEPT ![p].unexpired = FALSE]
    /\ UNCHANGED <<image, enabled, request, history>>

(***************************************************************************)
(* Bulk operations: the selection is judged as a whole and only the rows   *)
(* that differ are written, whatever they have become in the meantime.     *)
(***************************************************************************)

Bulk(r, changed, data, J) ==
    /\ changed # {}
    /\ Begin(r, [step |-> "bulk", products |-> changed, data |-> data], J)

BulkWrite(r) ==
    LET req == request[r] IN
    /\ At(r, "bulk")
    /\ product' = [p \in Products |->
           IF p \in req.products /\ Exists(p)
           THEN [f \in DOMAIN product[p] |->
                    IF f \in DOMAIN req.data THEN req.data[f] ELSE product[p][f]]
           ELSE product[p]]
    /\ Finish(r, req.products, req.products)
    /\ UNCHANGED <<image, enabled>>

\* Mutant: archived products are published with the others.
PublishReadArchived(r, P) ==
    /\ \A p \in P : Exists(p) /\ Ready(p, product[p])
    /\ Bulk(r, {p \in P : ~Active(p)}, [status |-> "ACTIVE"], P \cup ParentsOfAll(P))

PublishRead(r, P) ==
    /\ \A p \in P : /\ Exists(p)
                    /\ product[p].status # "ARCHIVED"
                    /\ Ready(p, product[p])
    /\ Bulk(r, {p \in P : ~Active(p)}, [status |-> "ACTIVE"], P \cup ParentsOfAll(P))

UnpublishRead(r, P) ==
    /\ \A p \in P : Exists(p) /\ product[p].status # "ARCHIVED"
    /\ Bulk(r, {p \in P : Active(p)}, [status |-> "DRAFT"], P)

ArchiveRead(r, P) ==
    /\ \A p \in P : Exists(p)
    /\ Bulk(r, {p \in P : product[p].status # "ARCHIVED"}, [status |-> "ARCHIVED"], P)

RestoreRead(r, P) ==
    /\ \A p \in P : Exists(p)
    /\ Bulk(r, {p \in P : product[p].status = "ARCHIVED"}, [status |-> "DRAFT"], P)

AssignStoreRead(r, P, s) ==
    /\ \A p \in P : Exists(p)
    /\ enabled[s] \/ \A p \in P : ~Active(p)
    /\ Bulk(r, {p \in P : product[p].store # s}, [store |-> s], P \cup {s})

\* The new expiry is always in the future.
SetExpirationRead(r, P) ==
    /\ \A p \in P : Exists(p)
    /\ Bulk(r, P, [unexpired |-> TRUE], P)

(***************************************************************************)
(* Images                                                                  *)
(***************************************************************************)

\* The rows of P with i as the only primary one; every other image unchanged.
MakePrimary(i, p) ==
    [j \in Images |-> IF j \in ImagesOf(p)
                      THEN [image[j] EXCEPT !.primary = (j = i)] ELSE image[j]]

AddImageRead(r, p, primary) ==
    LET count == Cardinality(ImagesOf(p)) IN
    /\ Exists(p)
    /\ count < ImageLimit
    /\ Begin(r, [step |-> "addImage", product |-> p,
                 primary |-> (count = 0 \/ primary)], {p})

AddImageWrite(r, i) ==
    LET p == request[r].product
        primary == request[r].primary
        others == IF primary THEN MakePrimary(i, p) ELSE image
    IN
    /\ At(r, "addImage")
    /\ Exists(p)
    /\ image[i] = NoImage
    /\ image' = [others EXCEPT ![i] = [product |-> p, primary |-> primary]]
    /\ Finish(r, {p}, {p})
    /\ UNCHANGED <<product, enabled>>

UpdateImageRead(r, i, primary) ==
    /\ image[i] # NoImage
    /\ ~primary => ~(image[i].primary /\ Active(image[i].product))
    /\ Begin(r, [step |-> "updateImage", image |-> i, product |-> image[i].product,
                 primary |-> primary], {image[i].product})

UpdateImageWrite(r) ==
    LET i == request[r].image
        p == request[r].product
    IN
    /\ At(r, "updateImage")
    /\ image[i].product = p
    /\ image' = IF request[r].primary THEN MakePrimary(i, p)
                ELSE [image EXCEPT ![i].primary = FALSE]
    /\ Finish(r, {p}, {p})
    /\ UNCHANGED <<product, enabled>>

RemoveImageRead(r, i) ==
    LET p == image[i].product IN
    /\ image[i] # NoImage
    /\ Active(p) => Cardinality(ImagesOf(p)) > 1
    /\ Begin(r, [step |-> "removeImage", image |-> i, product |-> p,
                 primary |-> image[i].primary], {p})

\* Mutant: no other image takes the place of the primary one.
RemoveImageWriteOnly(r) ==
    /\ At(r, "removeImage")
    /\ image[request[r].image].product = request[r].product
    /\ image' = [image EXCEPT ![request[r].image] = NoImage]
    /\ Finish(r, {request[r].product}, {request[r].product})
    /\ UNCHANGED <<product, enabled>>

\* If the image was primary when it was read, the first of those left takes its
\* place; which of them is first, by sortOrder and createdAt, is left open.
RemoveImageWrite(r) ==
    LET i == request[r].image
        p == request[r].product
        left == ImagesOf(p) \ {i}
    IN
    /\ At(r, "removeImage")
    /\ image[i].product = p
    /\ IF request[r].primary /\ left # {}
       THEN \E first \in left :
              image' = [image EXCEPT ![i] = NoImage, ![first].primary = TRUE]
       ELSE image' = [image EXCEPT ![i] = NoImage]
    /\ Finish(r, {p}, {p})
    /\ UNCHANGED <<product, enabled>>

(***************************************************************************)
(* Stores, categories and brands                                           *)
(***************************************************************************)

DeactivateRead(r, x) ==
    /\ \A p \in Products : Active(p) => x \notin ParentsOf(product[p])
    /\ Begin(r, [step |-> "deactivate", parent |-> x], Products)

DeactivateWrite(r) ==
    LET x == request[r].parent IN
    /\ At(r, "deactivate")
    /\ enabled' = [enabled EXCEPT ![x] = FALSE]
    /\ Finish(r, {x}, {p \in Products : Active(p) /\ x \in ParentsOf(product[p])})
    /\ UNCHANGED <<product, image>>

Activate(x) ==
    /\ ~enabled[x]
    /\ enabled' = [enabled EXCEPT ![x] = TRUE]
    /\ UNCHANGED <<product, image, request, history>>

\* The transaction fails, or the process dies before it.
Abort(r) ==
    /\ request[r] # Idle
    /\ End(r)
    /\ stale' = stale \ {r}
    /\ UNCHANGED <<rows, raced>>

(***************************************************************************)
(* The specification                                                       *)
(***************************************************************************)

Editing(r) ==
    \/ \E p \in Products, patch \in Patches : UpdateRead(r, p, patch)
    \/ UpdateWrite(r)
    \/ \E p \in Products : RemoveRead(r, p)
    \/ RemoveWrite(r)

Bulking(r) ==
    \/ \E P \in SUBSET Products :
          \/ PublishRead(r, P)
          \/ UnpublishRead(r, P)
          \/ ArchiveRead(r, P)
          \/ RestoreRead(r, P)
          \/ \E s \in Stores : AssignStoreRead(r, P, s)
          \/ SetExpirationRead(r, P)
    \/ BulkWrite(r)

Imaging(r) ==
    \/ \E p \in Products, primary \in BOOLEAN : AddImageRead(r, p, primary)
    \/ \E i \in Images, primary \in BOOLEAN : UpdateImageRead(r, i, primary)
    \/ \E i \in Images : AddImageWrite(r, i) \/ RemoveImageRead(r, i)
    \/ UpdateImageWrite(r)
    \/ RemoveImageWrite(r)

Switching(r) ==
    \/ \E x \in Parents : DeactivateRead(r, x)
    \/ DeactivateWrite(r)

Next ==
    \/ \E r \in Requests : Editing(r) \/ Bulking(r) \/ Imaging(r) \/ Switching(r)
                           \/ Abort(r)
    \/ \E p \in Products : Expire(p)
    \/ \E p \in Products, s \in Stores, c \in Categories, b \in Brands \cup {None},
          described \in BOOLEAN : CreateProduct(p, s, c, b, described)
    \/ \E x \in Parents : Activate(x)

Spec == Init /\ [][Next]_vars

-----------------------------------------------------------------------------
(* Properties *)

\* Rows hold values of their types, and an image belongs to an existing product.
TypeOK ==
    /\ product \in [Products -> ProductRow \cup {None}]
    /\ image \in [Images -> [product : Products \cup {None}, primary : BOOLEAN]]
    /\ \A i \in Images : IF image[i].product = None THEN image[i] = NoImage
                                                    ELSE Exists(image[i].product)
    /\ enabled \in [Parents -> BOOLEAN]
    /\ reads \in [Requests -> SUBSET (Products \cup Parents)]
    /\ stale \subseteq Requests
    /\ raced \subseteq Products

\* What customers see is complete: an active product has a description, belongs
\* to an active store and category and to no inactive brand, and has images of
\* which exactly one is primary.  (Its expiry may pass while it is active.)
Presentable(p) ==
    /\ product[p].described
    /\ \A x \in ParentsOf(product[p]) : enabled[x]
    /\ Cardinality(PrimariesOf(p)) = 1

\* Every active product is presentable, but for one that was written, or whose
\* parent was switched off, by a request after another had written a row it had
\* judged.  Requests that overlap on other rows do no harm, and the next
\* publication that judges current rows puts an end to the exception.
PresentableUnlessRaced ==
    \A p \in Products \ raced : Active(p) => Presentable(p)

\* An archived product only comes back as a draft, and only a draft is deleted,
\* with the same exception.
LifecycleUnlessRaced ==
    [][\A p \in Products \ raced' : Exists(p) =>
          /\ product'[p] = None => product[p].status = "DRAFT"
          /\ product[p].status = "ARCHIVED" => ~Active(p)']_<<product, raced>>

\* "A product may have between one and ten images" (docs/image-storage.md), and
\* an upload that would be one too many is refused ("A product can have at most
\* 10 images").  Uploads that overlap have all counted before any of them adds.
ImagesWithinLimit ==
    \A p \in Products : Cardinality(ImagesOf(p)) <= ImageLimit

\* What does hold: one image too many at most for each other request.
ImagesBoundedByOverlap ==
    \A p \in Products :
        Cardinality(ImagesOf(p)) <= ImageLimit + Cardinality(Requests) - 1

\* Every active product belongs to an active store.
ActiveProductHasActiveStore ==
    \A p \in Products : Active(p) => enabled[product[p].store]
=============================================================================

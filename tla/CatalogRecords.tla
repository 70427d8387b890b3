--------------------------- MODULE CatalogRecords ---------------------------
(***************************************************************************)
(* The names and the prices of products.                                   *)
(*                                                                         *)
(* A product is named by a slug that no other product has.  The server     *)
(* looks for a free one, one query per candidate and in no transaction,    *)
(* and leaves it to the unique key to refuse what was taken meanwhile.     *)
(* Stores, brands and categories are named in the same way.                *)
(*                                                                         *)
(* A PATCH may give one price and leave the other: the two are judged      *)
(* together, with the row as it was read, and then only what the PATCH     *)
(* mentions is written.                                                    *)
(***************************************************************************)
EXTENDS Integers, Sequences

CONSTANTS
    Records,     \* ids of product rows
    Requests,    \* slots for the requests being served at one time
    Slugs,
    Bases,       \* the texts a slug is made from
    Candidate,   \* the slugs tried for each of them, in this order
    Prices,      \* in minor units
    Patches,     \* what the bodies of requests contain
    Keep,        \* a field that a PATCH does not mention
    None

\* A text with its suffixes may be the slug of another text, and texts that are
\* too long are cut: candidates of two texts, or of one, may coincide.
ASSUME CandidateAssumption ==
    Candidate \in [Bases -> Seq(Slugs)] /\ \A b \in Bases : Candidate[b] # <<>>
ASSUME PricesAssumption == Prices \subseteq Nat
ASSUME PatchesAssumption ==
    Patches \subseteq [base : Bases \cup {Keep}, original : Prices \cup {Keep},
                       selling : Prices \cup {Keep}]
ASSUME KeepAssumption == Keep \notin Bases \cup Prices \cup Slugs

VARIABLES
    record,    \* the product rows: their slug and their prices
    request,   \* what each request being served is to write
    \* What happened; not part of the program.
    stale,     \* the requests whose row another has written since they read it
    crossed    \* the rows whose prices a stale request has written

vars == <<record, request, stale, crossed>>

Row == [slug : Slugs, original : Prices, selling : Prices]

ASSUME NoneAssumption == None \notin Records \cup Patches \cup Row

Exists(x) == record[x] # None

Request == [step : {"idle", "search", "write"}, record : Records \cup {None},
            patch : Patches \cup {None}, try : Nat, slug : Slugs \cup {Keep}]

Idle == [step |-> "idle", record |-> None, patch |-> None, try |-> 0, slug |-> Keep]

At(r, step) == request[r].step = step

Finish(r) == request' = [request EXCEPT ![r] = Idle]

Init ==
    /\ record = [x \in Records |-> None]
    /\ request = [r \in Requests |-> Idle]
    /\ stale = {}
    /\ crossed = {}

(***************************************************************************)
(* Prices                                                                  *)
(***************************************************************************)

\* assertDiscountedPrice
Discounted(original, selling) == 0 < selling /\ selling < original

\* The discount in hundredths of a per cent, times the original price.
Exact(original, selling) == (original - selling) * 10000

\* Mutant: the percentage is cut, not rounded.
BasisPointsCut(original, selling) == Exact(original, selling) \div original

\* calculateDiscountPercentage, in hundredths of a per cent.
BasisPoints(original, selling) ==
    (Exact(original, selling) + (original \div 2)) \div original

Given(value, present) == IF value = Keep THEN present ELSE value

(***************************************************************************)
(* Requests                                                                *)
(***************************************************************************)

\* A slug is looked for if the body gives a text for it.
Begin(r, x, patch) ==
    /\ request[r] = Idle
    /\ request' = [request EXCEPT ![r] =
           [step |-> IF patch.base = Keep THEN "write" ELSE "search",
            record |-> x, patch |-> patch, try |-> 1, slug |-> Keep]]
    /\ UNCHANGED <<record, stale, crossed>>

\* A new product needs both prices; its name gives a slug if the body does not.
CreateBegin(r, patch) ==
    /\ Keep \notin {patch.base, patch.original, patch.selling}
    /\ Discounted(patch.original, patch.selling)
    /\ Begin(r, None, patch)

\* Mutant: only the prices in the body are judged.
UpdateReadGivenOnly(r, x, patch) ==
    /\ Exists(x)
    /\ Keep \notin {patch.original, patch.selling}
       => Discounted(patch.original, patch.selling)
    /\ Begin(r, x, patch)

UpdateRead(r, x, patch) ==
    /\ Exists(x)
    /\ Discounted(Given(patch.original, record[x].original),
                  Given(patch.selling, record[x].selling))
    /\ Begin(r, x, patch)

Tried(r) == Candidate[request[r].patch.base][request[r].try]

\* Mutant: the product itself stands in its way.
TakenByAny(r) == \E x \in Records : Exists(x) /\ record[x].slug = Tried(r)

\* Another product has the slug.
Taken(r) == \E x \in Records : /\ x # request[r].record
                               /\ Exists(x)
                               /\ record[x].slug = Tried(r)

SearchOn(r) ==
    /\ At(r, "search")
    /\ Taken(r)
    /\ request[r].try < Len(Candidate[request[r].patch.base])
    /\ request' = [request EXCEPT ![r].try = @ + 1]
    /\ UNCHANGED <<record, stale, crossed>>

SearchFinds(r) ==
    /\ At(r, "search")
    /\ ~Taken(r)
    /\ request' = [request EXCEPT ![r].step = "write", ![r].slug = Tried(r)]
    /\ UNCHANGED <<record, stale, crossed>>

\* The unique key accepts the slug for row x.
Unique(slug, x) == \A y \in Records \ {x} : Exists(y) => record[y].slug # slug

InsertRecord(r, x) ==
    LET patch == request[r].patch IN
    /\ At(r, "write")
    /\ request[r].record = None
    /\ ~Exists(x)
    /\ Unique(request[r].slug, x)
    /\ record' = [record EXCEPT ![x] =
           [slug |-> request[r].slug, original |-> patch.original,
            selling |-> patch.selling]]
    /\ Finish(r)
    /\ UNCHANGED <<stale, crossed>>

\* Mutant: a field that the PATCH does not mention is written all the same.
WrittenAsGiven(row, req) ==
    [slug |-> req.slug, original |-> req.patch.original, selling |-> req.patch.selling]

Written(row, req) ==
    [slug     |-> Given(req.slug, row.slug),
     original |-> Given(req.patch.original, row.original),
     selling  |-> Given(req.patch.selling, row.selling)]

\* The requests that have read row x, other than r.
Reading(x, r) == {q \in Requests \ {r} : request[q].record = x}

UpdateRecord(r) ==
    LET x == request[r].record
        row == Written(record[x], request[r])
    IN
    /\ At(r, "write")
    /\ x # None
    /\ Exists(x)
    /\ Unique(row.slug, x)
    /\ record' = [record EXCEPT ![x] = row]
    /\ stale' = (stale \ {r}) \cup Reading(x, r)
    /\ crossed' = IF r \notin stale THEN crossed \ {x}
                  ELSE IF {request[r].patch.original, request[r].patch.selling} = {Keep}
                  THEN crossed ELSE crossed \cup {x}
    /\ Finish(r)

\* A draft is deleted (ProductPublication); its slug is free again.
Remove(x) ==
    /\ Exists(x)
    /\ record' = [record EXCEPT ![x] = None]
    /\ stale' = stale \cup {q \in Requests : request[q].record = x}
    /\ crossed' = crossed \ {x}
    /\ UNCHANGED request

\* No candidate is left, the unique key refuses, the product is gone, the
\* transaction is rolled back or the process dies.
Abort(r) ==
    /\ request[r] # Idle
    /\ stale' = stale \ {r}
    /\ Finish(r)
    /\ UNCHANGED <<record, crossed>>

Next ==
    \/ \E r \in Requests :
          \/ \E patch \in Patches : \/ CreateBegin(r, patch)
                                    \/ \E x \in Records : UpdateRead(r, x, patch)
          \/ SearchOn(r)
          \/ SearchFinds(r)
          \/ \E x \in Records : InsertRecord(r, x)
          \/ UpdateRecord(r)
          \/ Abort(r)
    \/ \E x \in Records : Remove(x)

Spec == Init /\ [][Next]_vars

-----------------------------------------------------------------------------
(* Properties *)

\* Rows and requests hold values of their types.
TypeOK ==
    /\ record \in [Records -> Row \cup {None}]
    /\ request \in [Requests -> Request]
    /\ stale \subseteq {r \in Requests : request[r].record # None}
    /\ crossed \subseteq {x \in Records : Exists(x)}

\* A product costs less than its original price, however many PATCHes give one
\* price at a time, but for a row that was written by a request after another had
\* written it since that request judged the two prices together.
DiscountedUnlessRaced ==
    \A x \in Records \ crossed :
        Exists(x) => Discounted(record[x].original, record[x].selling)

\* A PATCH never moves a product on to a later slug of the text it is already
\* named after (to an earlier one it may, which another product has left).  Other
\* products may come, go and be renamed during the search.
OwnSlugIsNotPassedOver ==
    \A r \in Requests \ stale :
        LET x == request[r].record
            base == request[r].patch.base
        IN request[r] # Idle /\ x # None /\ base # Keep =>
              \A earlier \in 1..(request[r].try - 1) :
                  Candidate[base][earlier] # record[x].slug

Distance(m, n) == IF m < n THEN n - m ELSE m - n

Nearest(shown, exact, original) ==
    /\ shown \in 0..10000
    /\ 2 * Distance(shown * original, exact) <= original

\* The discount customers are shown is the nearest hundredth of a per cent to
\* the true one: off by at most half, and between 0.00 and 100.00.
DiscountIsNearest ==
    \A x \in Records \ crossed : Exists(x) =>
        LET original == record[x].original
            selling == record[x].selling
        IN Nearest(BasisPoints(original, selling), Exact(original, selling), original)
=============================================================================

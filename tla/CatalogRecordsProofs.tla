------------------------ MODULE CatalogRecordsProofs ------------------------
(***************************************************************************)
(* Proofs, for any texts, candidates and prices and any number of records  *)
(* and requests, of what the run of MCCatalogRecords checks on a small     *)
(* instance.                                                               *)
(***************************************************************************)
EXTENDS CatalogRecords, TLAPS

\* What a request knows by the step it is at.
Knows(req) ==
    /\ req.step = "idle" => req = Idle
    /\ req.step # "idle" => req.patch \in Patches
    /\ req.step = "search" => /\ req.patch.base \in Bases
                              /\ req.try \in 1..Len(Candidate[req.patch.base])
                              /\ req.slug = Keep
    /\ req.step = "write" => (req.slug = Keep <=> req.patch.base = Keep)
    /\ (req.step # "idle" /\ req.record = None) =>
          /\ Keep \notin {req.patch.base, req.patch.original, req.patch.selling}
          /\ Discounted(req.patch.original, req.patch.selling)

\* The prices the row will have, judged by a request that is not stale.
Judged(r) ==
    LET x == request[r].record
        patch == request[r].patch
    IN (request[r] # Idle /\ x # None /\ r \notin stale) =>
          /\ Exists(x)
          /\ Discounted(Given(patch.original, record[x].original),
                        Given(patch.selling, record[x].selling))

\* The unique key.
SlugsDiffer == \A x, y \in Records : /\ x # y
                                     /\ Exists(x)
                                     /\ Exists(y)
                                     => record[x].slug # record[y].slug

IInv ==
    /\ TypeOK
    /\ \A r \in Requests : Knows(request[r])
    /\ \A r \in Requests : Judged(r)
    /\ SlugsDiffer
    /\ DiscountedUnlessRaced
    /\ OwnSlugIsNotPassedOver

LEMMA InitCorrect == Init => IInv
<1> SUFFICES ASSUME Init PROVE IInv
  OBVIOUS
<1>1. TypeOK
  BY DEF Init, TypeOK, Idle, Request
<1>2. \A r \in Requests : Knows(request[r]) /\ Judged(r)
  BY DEF Init, Knows, Judged, Idle
<1>3. SlugsDiffer /\ DiscountedUnlessRaced /\ OwnSlugIsNotPassedOver
  BY DEF Init, SlugsDiffer, DiscountedUnlessRaced, OwnSlugIsNotPassedOver, Exists
<1>4. QED BY <1>1, <1>2, <1>3 DEF IInv

(***************************************************************************)
(* Requests that begin, search or end                                      *)
(***************************************************************************)

\* A request begins and has judged the prices.
LEMMA BeginCorrect ==
    ASSUME IInv, NEW r \in Requests, NEW x \in Records \cup {None},
           NEW patch \in Patches, Begin(r, x, patch),
           IF x = None
           THEN /\ Keep \notin {patch.base, patch.original, patch.selling}
                /\ Discounted(patch.original, patch.selling)
           ELSE /\ Exists(x)
                /\ Discounted(Given(patch.original, record[x].original),
                              Given(patch.selling, record[x].selling))
    PROVE  IInv'
<1> DEFINE req == [step |-> IF patch.base = Keep THEN "write" ELSE "search",
                   record |-> x, patch |-> patch, try |-> 1, slug |-> Keep]
<1>1. /\ request' = [request EXCEPT ![r] = req]
      /\ UNCHANGED <<record, stale, crossed>>
      /\ request[r] = Idle
  BY DEF Begin
<1>2. req \in Request /\ req.step # "idle" /\ req # Idle
  BY DEF Request, Idle
<1>3. r \notin stale
  BY <1>1 DEF IInv, TypeOK, Idle
<1>4. TypeOK'
  BY <1>1, <1>2, <1>3 DEF IInv, TypeOK, Exists
<1>5. patch.base # Keep => patch.base \in Bases /\ 1 \in 1..Len(Candidate[patch.base])
  BY PatchesAssumption, CandidateAssumption
<1>6. Knows(req)
  BY <1>2, <1>5 DEF Knows
<1>7. \A q \in Requests : Knows(request[q])'
  BY <1>1, <1>6 DEF IInv, TypeOK, Knows, Idle, Discounted
<1>8. \A q \in Requests : Judged(q)'
  BY <1>1 DEF IInv, TypeOK, Judged, Exists, Given
<1>9. SlugsDiffer' /\ DiscountedUnlessRaced'
  BY <1>1 DEF IInv, SlugsDiffer, DiscountedUnlessRaced, Exists, Discounted
<1>10. OwnSlugIsNotPassedOver'
  BY <1>1 DEF IInv, TypeOK, OwnSlugIsNotPassedOver
<1>11. QED BY <1>4, <1>7, <1>8, <1>9, <1>10 DEF IInv

\* A request goes on to the next candidate: the one it leaves is not its own.
LEMMA SearchOnCorrect ==
    ASSUME IInv, NEW r \in Requests, SearchOn(r)
    PROVE  IInv'
<1> DEFINE req == [request[r] EXCEPT !.try = @ + 1]
           base == request[r].patch.base
<1>1. /\ request' = [request EXCEPT ![r] = req]
      /\ UNCHANGED <<record, stale, crossed>>
      /\ request[r].step = "search" /\ Taken(r)
      /\ request[r].try < Len(Candidate[base])
  BY DEF SearchOn, At
<1>2. /\ request[r] \in Request /\ Knows(request[r]) /\ request[r] # Idle
      /\ base \in Bases /\ request[r].try \in 1..Len(Candidate[base])
      /\ Len(Candidate[base]) \in Nat
  BY <1>1, CandidateAssumption DEF IInv, TypeOK, Knows, Idle
<1>3. req \in Request /\ req # Idle /\ Knows(req)
  BY <1>1, <1>2 DEF Request, Knows, Idle
<1>4. TypeOK'
  BY <1>1, <1>3 DEF IInv, TypeOK, Exists
<1>5. \A q \in Requests : Knows(request[q])'
  BY <1>1, <1>3 DEF IInv, TypeOK, Knows, Idle, Discounted
<1>6. \A q \in Requests : Judged(q)'
  BY <1>1, <1>2 DEF IInv, TypeOK, Judged, Exists, Given, Request
<1>7. SlugsDiffer' /\ DiscountedUnlessRaced'
  BY <1>1 DEF IInv, SlugsDiffer, DiscountedUnlessRaced, Exists, Discounted
<1>8. OwnSlugIsNotPassedOver'
  <2> SUFFICES ASSUME NEW q \in Requests \ stale, request[q]' # Idle,
                      request[q].record' # None, request[q].patch.base' # Keep,
                      NEW earlier \in 1..(request[q].try' - 1)
               PROVE  Candidate[request[q].patch.base'][earlier]
                      # record[request[q].record'].slug
    BY <1>1 DEF OwnSlugIsNotPassedOver
  <2>1. CASE q # r
    BY <1>1, <2>1 DEF IInv, TypeOK, OwnSlugIsNotPassedOver
  <2>2. CASE q = r
    <3> DEFINE x == request[r].record
    <3>1. /\ request[r].record' = x /\ request[r].patch.base' = base
          /\ request[r].try' = request[r].try + 1
      BY <1>1, <1>2 DEF IInv, TypeOK, Request
    <3>2. x \in Records /\ Exists(x)
      BY <1>2, <2>2, <3>1 DEF IInv, Judged, Request
    <3>3. Candidate[base][request[r].try] # record[x].slug
      BY <1>1, <3>2 DEF IInv, SlugsDiffer, Taken, Tried
    <3>4. \A e \in 1..(request[r].try - 1) : Candidate[base][e] # record[x].slug
      BY <1>2, <2>2, <3>1 DEF IInv, OwnSlugIsNotPassedOver
    <3>5. QED BY <1>2, <2>2, <3>1, <3>3, <3>4
  <2>3. QED BY <2>1, <2>2
<1>9. QED BY <1>4, <1>5, <1>6, <1>7, <1>8 DEF IInv

LEMMA SearchFindsCorrect ==
    ASSUME IInv, NEW r \in Requests, SearchFinds(r)
    PROVE  IInv'
<1> DEFINE req == [request[r] EXCEPT !.step = "write", !.slug = Tried(r)]
           base == request[r].patch.base
<1>1. /\ request' = [request EXCEPT ![r] = req]
      /\ UNCHANGED <<record, stale, crossed>>
      /\ request[r].step = "search"
  BY DEF SearchFinds, At, IInv, TypeOK
<1>2. /\ request[r] \in Request /\ Knows(request[r]) /\ request[r] # Idle
      /\ base \in Bases /\ request[r].try \in 1..Len(Candidate[base])
  BY <1>1 DEF IInv, TypeOK, Knows, Idle
<1>3. Tried(r) \in Slugs
  BY <1>2, CandidateAssumption DEF Tried
<1>4. req \in Request /\ req # Idle /\ Knows(req)
  BY <1>1, <1>2, <1>3, KeepAssumption DEF Request, Knows, Idle
<1>5. TypeOK'
  BY <1>1, <1>4 DEF IInv, TypeOK, Exists
<1>6. \A q \in Requests : Knows(request[q])'
  BY <1>1, <1>4 DEF IInv, TypeOK, Knows, Idle, Discounted
<1>7. \A q \in Requests : Judged(q)'
  BY <1>1, <1>2 DEF IInv, TypeOK, Judged, Exists, Given, Request
<1>8. SlugsDiffer' /\ DiscountedUnlessRaced'
  BY <1>1 DEF IInv, SlugsDiffer, DiscountedUnlessRaced, Exists, Discounted
<1>9. OwnSlugIsNotPassedOver'
  BY <1>1, <1>2 DEF IInv, TypeOK, OwnSlugIsNotPassedOver, Request
<1>10. QED BY <1>5, <1>6, <1>7, <1>8, <1>9 DEF IInv

LEMMA AbortCorrect ==
    ASSUME IInv, NEW r \in Requests, Abort(r)
    PROVE  IInv'
<1>1. /\ request' = [request EXCEPT ![r] = Idle]
      /\ stale' = stale \ {r} /\ UNCHANGED <<record, crossed>>
  BY DEF Abort, Finish
<1>2. Idle \in Request /\ Knows(Idle)
  BY DEF Request, Idle, Knows
<1>3. TypeOK'
  BY <1>1, <1>2 DEF IInv, TypeOK, Exists
<1>4. \A q \in Requests : Knows(request[q])'
  BY <1>1, <1>2 DEF IInv, TypeOK, Knows, Idle, Discounted
<1>5. \A q \in Requests : Judged(q)'
  BY <1>1 DEF IInv, TypeOK, Judged, Exists, Given
<1>6. SlugsDiffer' /\ DiscountedUnlessRaced'
  BY <1>1 DEF IInv, SlugsDiffer, DiscountedUnlessRaced, Exists, Discounted
<1>7. OwnSlugIsNotPassedOver'
  BY <1>1 DEF IInv, TypeOK, OwnSlugIsNotPassedOver
<1>8. QED BY <1>3, <1>4, <1>5, <1>6, <1>7 DEF IInv

(***************************************************************************)
(* Writes                                                                  *)
(***************************************************************************)

\* Nobody has read a row before it exists, but requests that are stale.
LEMMA InsertCorrect ==
    ASSUME IInv, NEW r \in Requests, NEW x \in Records, InsertRecord(r, x)
    PROVE  IInv'
<1> DEFINE patch == request[r].patch
           row == [slug |-> request[r].slug, original |-> patch.original,
                   selling |-> patch.selling]
<1>1. /\ request[r].step = "write" /\ request[r].record = None /\ ~Exists(x)
      /\ Unique(request[r].slug, x)
      /\ record' = [record EXCEPT ![x] = row]
      /\ request' = [request EXCEPT ![r] = Idle]
      /\ UNCHANGED <<stale, crossed>>
  BY DEF InsertRecord, At, Finish
<1>2. /\ request[r] \in Request /\ Knows(request[r]) /\ request[r] # Idle
      /\ patch \in Patches
      /\ Keep \notin {patch.base, patch.original, patch.selling}
      /\ Discounted(patch.original, patch.selling)
      /\ request[r].slug \in Slugs
  BY <1>1 DEF IInv, TypeOK, Knows, Idle, Request
<1>3. row \in Row /\ row # None
  BY <1>2, PatchesAssumption, NoneAssumption DEF Row
<1>4. Idle \in Request /\ Knows(Idle)
  BY DEF Request, Idle, Knows
<1>5. r \notin stale /\ x \notin crossed
  BY <1>1 DEF IInv, TypeOK
<1>6. TypeOK'
  BY <1>1, <1>3, <1>4, <1>5 DEF IInv, TypeOK, Exists
<1>7. \A q \in Requests : Knows(request[q])'
  BY <1>1, <1>4 DEF IInv, TypeOK, Knows, Idle, Discounted
<1>8. \A y \in Records : y # x => record'[y] = record[y]
  BY <1>1 DEF IInv, TypeOK
<1>9. \A q \in Requests : q # r /\ q \notin stale /\ request[q] # Idle
                         => request[q].record # x
  BY <1>1, NoneAssumption DEF IInv, Judged, TypeOK, Request
<1>10. \A q \in Requests : Judged(q)'
  BY <1>1, <1>8, <1>9 DEF IInv, TypeOK, Judged, Exists, Given, Request
<1>11. SlugsDiffer'
  BY <1>1, <1>3, <1>8 DEF IInv, TypeOK, SlugsDiffer, Exists, Unique
<1>12. DiscountedUnlessRaced'
  BY <1>1, <1>2, <1>8 DEF IInv, TypeOK, DiscountedUnlessRaced, Exists, Discounted
<1>13. OwnSlugIsNotPassedOver'
  BY <1>1, <1>8, <1>9 DEF IInv, TypeOK, OwnSlugIsNotPassedOver, Request
<1>14. QED BY <1>6, <1>7, <1>10, <1>11, <1>12, <1>13 DEF IInv

\* A request that is not stale writes what it has judged; one that is stale is
\* remembered if it writes a price.
LEMMA UpdateCorrect ==
    ASSUME IInv, NEW r \in Requests, UpdateRecord(r)
    PROVE  IInv'
<1> DEFINE x == request[r].record
           patch == request[r].patch
           row == Written(record[x], request[r])
<1>1. /\ request[r].step = "write" /\ x # None /\ Exists(x) /\ Unique(row.slug, x)
      /\ record' = [record EXCEPT ![x] = row]
      /\ stale' = (stale \ {r}) \cup Reading(x, r)
      /\ crossed' = IF r \notin stale THEN crossed \ {x}
                    ELSE IF {patch.original, patch.selling} = {Keep}
                    THEN crossed ELSE crossed \cup {x}
      /\ request' = [request EXCEPT ![r] = Idle]
  BY DEF UpdateRecord, At, Finish
<1>2. /\ request[r] \in Request /\ Knows(request[r]) /\ request[r] # Idle
      /\ patch \in Patches /\ x \in Records /\ record[x] \in Row
      /\ request[r].slug \in Slugs \cup {Keep}
  BY <1>1 DEF IInv, TypeOK, Knows, Idle, Request, Exists
<1>3. row \in Row /\ row # None
  BY <1>2, PatchesAssumption, NoneAssumption DEF Row, Written, Given
<1>4. Idle \in Request /\ Knows(Idle)
  BY DEF Request, Idle, Knows
<1>5. \A y \in Records : y # x => record'[y] = record[y]
  BY <1>1 DEF IInv, TypeOK
<1>6. record'[x] = row
  BY <1>1, <1>2 DEF IInv, TypeOK
<1>7. \A q \in Requests : q # r /\ request[q].record = x => q \in stale'
  BY <1>1 DEF Reading
<1>8. \A q \in Requests : q # r /\ q \notin stale' => q \notin stale
  BY <1>1
<1>9. TypeOK'
  <2>1. record' \in [Records -> Row \cup {None}] /\ request' \in [Requests -> Request]
    BY <1>1, <1>3, <1>4 DEF IInv, TypeOK
  <2>2. stale' \subseteq {q \in Requests : request'[q].record # None}
    BY <1>1, <1>2 DEF IInv, TypeOK, Reading
  <2>3. crossed' \subseteq {y \in Records : record'[y] # None}
    BY <1>1, <1>2, <1>3, <1>5, <1>6 DEF IInv, TypeOK, Exists
  <2>4. QED BY <2>1, <2>2, <2>3 DEF TypeOK, Exists
<1>10. \A q \in Requests : Knows(request[q])'
  BY <1>1, <1>4 DEF IInv, TypeOK, Knows, Idle, Discounted
<1>11. \A q \in Requests : Judged(q)'
  BY <1>1, <1>5, <1>7, <1>8 DEF IInv, TypeOK, Judged, Exists, Given, Request
<1>12. SlugsDiffer'
  BY <1>1, <1>3, <1>5, <1>6 DEF IInv, TypeOK, SlugsDiffer, Exists, Unique
<1>13. DiscountedUnlessRaced'
  <2>1. \A y \in Records : y # x /\ y \notin crossed' => y \notin crossed
    BY <1>1
  <2>2. CASE r \notin stale
    <3>1. Discounted(row.original, row.selling)
      BY <1>1, <1>2, <2>2 DEF IInv, Judged, Written
    <3>2. QED
      BY <1>5, <1>6, <2>1, <3>1 DEF IInv, DiscountedUnlessRaced, Exists, Discounted
  <2>3. CASE r \in stale /\ {patch.original, patch.selling} = {Keep}
    <3>1. row.original = record[x].original /\ row.selling = record[x].selling
      BY <2>3 DEF Written, Given
    <3>2. QED
      BY <1>1, <1>2, <1>5, <1>6, <2>3, <3>1
         DEF IInv, DiscountedUnlessRaced, Exists, Discounted
  <2>4. CASE r \in stale /\ {patch.original, patch.selling} # {Keep}
    BY <1>1, <1>5, <2>1, <2>4 DEF IInv, DiscountedUnlessRaced, Exists, Discounted
  <2>5. QED BY <2>2, <2>3, <2>4
<1>14. OwnSlugIsNotPassedOver'
  BY <1>1, <1>5, <1>7, <1>8 DEF IInv, TypeOK, OwnSlugIsNotPassedOver, Request
<1>15. QED BY <1>9, <1>10, <1>11, <1>12, <1>13, <1>14 DEF IInv

LEMMA RemoveCorrect ==
    ASSUME IInv, NEW x \in Records, Remove(x)
    PROVE  IInv'
<1>1. /\ record' = [record EXCEPT ![x] = None] /\ request' = request
      /\ stale' = stale \cup {q \in Requests : request[q].record = x}
      /\ crossed' = crossed \ {x}
  BY DEF Remove
<1>2. \A y \in Records : y # x => record'[y] = record[y]
  BY <1>1 DEF IInv, TypeOK
<1>3. TypeOK'
  BY <1>1, <1>2, NoneAssumption DEF IInv, TypeOK, Exists, Idle
<1>4. \A q \in Requests : Knows(request[q])'
  BY <1>1 DEF IInv, Knows, Idle, Discounted
<1>5. \A q \in Requests : Judged(q)'
  BY <1>1, <1>2 DEF IInv, TypeOK, Judged, Exists, Given, Request
<1>6. SlugsDiffer' /\ DiscountedUnlessRaced'
  BY <1>1, <1>2 DEF IInv, TypeOK, SlugsDiffer, DiscountedUnlessRaced, Exists, Discounted
<1>7. OwnSlugIsNotPassedOver'
  BY <1>1, <1>2 DEF IInv, TypeOK, OwnSlugIsNotPassedOver, Request
<1>8. QED BY <1>3, <1>4, <1>5, <1>6, <1>7 DEF IInv

LEMMA Inductive == IInv /\ [Next]_vars => IInv'
<1> SUFFICES ASSUME IInv, [Next]_vars PROVE IInv'
  OBVIOUS
<1>1. ASSUME NEW r \in Requests, NEW patch \in Patches, CreateBegin(r, patch)
      PROVE  IInv'
  BY <1>1, BeginCorrect DEF CreateBegin
<1>2. ASSUME NEW r \in Requests, NEW patch \in Patches, NEW x \in Records,
             UpdateRead(r, x, patch)
      PROVE  IInv'
  BY <1>2, BeginCorrect, NoneAssumption DEF UpdateRead
<1>3. CASE UNCHANGED vars
  BY <1>3 DEF IInv, TypeOK, Knows, Judged, SlugsDiffer, DiscountedUnlessRaced,
     OwnSlugIsNotPassedOver, Exists, Discounted, Given, vars
<1>4. QED
  BY <1>1, <1>2, <1>3, SearchOnCorrect, SearchFindsCorrect, AbortCorrect,
     InsertCorrect, UpdateCorrect, RemoveCorrect DEF Next

LEMMA Invariance == Spec => []IInv
BY InitCorrect, Inductive, PTL DEF Spec

(***************************************************************************)
(* Rounding                                                                *)
(***************************************************************************)

\* What is computed is the exact percentage, rounded half up.
LEMMA RoundedToNearest ==
    ASSUME NEW original \in Nat, NEW selling \in Nat, Discounted(original, selling)
    PROVE  Nearest(BasisPoints(original, selling), Exact(original, selling), original)
<1> DEFINE exact == Exact(original, selling)
           half == original \div 2
           shown == (exact + half) \div original
           product == shown * original
<1>1. /\ exact \in Nat /\ exact < original * 10000 /\ original \in Nat \ {0}
  BY DEF Discounted, Exact
<1>2. /\ half \in Nat /\ 2 * half <= original /\ original <= 2 * half + 1
  BY <1>1
<1>3. shown = BasisPoints(original, selling)
  BY DEF BasisPoints
<1> HIDE DEF exact, half
<1>4. shown \in Int /\ product \in Int
  BY <1>1, <1>2
<1>5. product <= exact + half /\ exact + half < product + original
  BY <1>1, <1>2
<1>6. shown >= 0 /\ shown <= 10000
  BY <1>1, <1>2, <1>4, <1>5
<1> HIDE DEF shown
<1>7. 2 * Distance(shown * original, exact) <= original
  <2>1. 2 * Distance(product, exact) <= original
    <3> HIDE DEF product
    <3>1. QED BY <1>1, <1>2, <1>4, <1>5 DEF Distance
  <2>2. QED BY <2>1
<1>8. Nearest(shown, exact, original)
  BY <1>4, <1>6, <1>7 DEF Nearest
<1>9. QED BY <1>3, <1>8 DEF exact

(***************************************************************************)
(* The theorems                                                            *)
(***************************************************************************)

\* Every reachable state is well typed.
THEOREM TypeCorrect == Spec => []TypeOK
<1>1. IInv => TypeOK
  BY DEF IInv
<1>2. QED BY <1>1, Invariance, PTL

\* However many requests give one price at a time, a row is discounted unless a
\* request wrote a price to it that was judged before another wrote the row.
THEOREM StaysDiscounted == Spec => []DiscountedUnlessRaced
<1>1. IInv => DiscountedUnlessRaced
  BY DEF IInv
<1>2. QED BY <1>1, Invariance, PTL

\* No search passes over the slug its product has.
THEOREM KeepsItsSlug == Spec => []OwnSlugIsNotPassedOver
<1>1. IInv => OwnSlugIsNotPassedOver
  BY DEF IInv
<1>2. QED BY <1>1, Invariance, PTL

\* The discount shown is the nearest one, for prices of any size.
THEOREM NearestDiscount == Spec => []DiscountIsNearest
<1>1. IInv => DiscountIsNearest
  <2> SUFFICES ASSUME IInv, NEW x \in Records \ crossed, Exists(x)
               PROVE  Nearest(BasisPoints(record[x].original, record[x].selling),
                              Exact(record[x].original, record[x].selling),
                              record[x].original)
    BY DEF DiscountIsNearest
  <2>1. record[x].original \in Nat /\ record[x].selling \in Nat
    BY PricesAssumption DEF IInv, TypeOK, Row, Exists
  <2>2. Discounted(record[x].original, record[x].selling)
    BY DEF IInv, DiscountedUnlessRaced
  <2>3. QED BY <2>1, <2>2, RoundedToNearest
<1>2. QED BY <1>1, Invariance, PTL

(***************************************************************************)
(* Requests that do not overlap                                            *)
(***************************************************************************)

\* One request is served at a time; a draft may be deleted under it.
Serial == \A q, r \in Requests : request[q] # Idle /\ request[r] # Idle => q = r

NothingCrosses ==
    /\ crossed = {}
    /\ \A r \in stale : request[r] # Idle /\ ~Exists(request[r].record)

LEMMA SerialStep ==
    ASSUME IInv, Serial, NothingCrosses, [Next]_vars
    PROVE  NothingCrosses'
<1> USE DEF NothingCrosses
<1>1. /\ request \in [Requests -> Request] /\ record \in [Records -> Row \cup {None}]
      /\ stale \subseteq Requests
      /\ \A r \in stale : request[r].record \in Records
  BY DEF IInv, TypeOK, Request
<1>2. ASSUME NEW r \in Requests, request[r] = Idle,
             \A q \in Requests \ {r} : request'[q] = request[q],
             UNCHANGED <<record, stale, crossed>>
      PROVE  NothingCrosses'
  BY <1>1, <1>2 DEF Exists
<1>3. ASSUME NEW r \in Requests, NEW x, NEW patch, Begin(r, x, patch)
      PROVE  NothingCrosses'
  BY <1>1, <1>2, <1>3 DEF Begin
<1>4. ASSUME NEW r \in Requests, SearchOn(r) \/ SearchFinds(r)
      PROVE  NothingCrosses'
  <2>1. request[r].step = "search" /\ UNCHANGED <<record, stale, crossed>>
    BY <1>4 DEF SearchOn, SearchFinds, At
  <2>2. /\ request'[r].record = request[r].record
        /\ request'[r].step \in {"search", "write"}
        /\ \A q \in Requests \ {r} : request'[q] = request[q]
    BY <1>1, <1>4, <2>1 DEF SearchOn, SearchFinds, Request
  <2>3. QED BY <1>1, <2>1, <2>2 DEF Exists, Idle
<1>5. ASSUME NEW r \in Requests, NEW x \in Records, InsertRecord(r, x)
      PROVE  NothingCrosses'
  <2>1. request[r] # Idle /\ request[r].record = None
    BY <1>5 DEF InsertRecord, At, Idle
  <2>2. stale = {}
    BY <1>1, <2>1, NoneAssumption DEF Serial
  <2>3. QED BY <1>5, <2>2 DEF InsertRecord
<1>6. ASSUME NEW r \in Requests, UpdateRecord(r)
      PROVE  NothingCrosses'
  <2>1. /\ request[r] # Idle /\ Exists(request[r].record)
        /\ request[r].record \in Records
    BY <1>1, <1>6, NoneAssumption DEF UpdateRecord, At, Idle, Request
  <2>2. r \notin stale /\ stale = {}
    BY <1>1, <2>1 DEF Serial
  <2>3. Reading(request[r].record, r) = {}
    BY <2>1, NoneAssumption DEF Serial, Reading, Idle
  <2>4. QED BY <1>6, <2>2, <2>3 DEF UpdateRecord
<1>7. ASSUME NEW r \in Requests, Abort(r)
      PROVE  NothingCrosses'
  BY <1>1, <1>7 DEF Abort, Finish, Exists
<1>8. ASSUME NEW x \in Records, Remove(x)
      PROVE  NothingCrosses'
  <2>1. /\ record' = [record EXCEPT ![x] = None] /\ request' = request
        /\ stale' = stale \cup {q \in Requests : request[q].record = x}
        /\ crossed' = {}
    BY <1>8 DEF Remove
  <2>2. \A q \in Requests : request[q].record = x => request[q] # Idle
    BY NoneAssumption DEF Idle
  <2>3. QED BY <1>1, <2>1, <2>2 DEF Exists
<1>9. CASE UNCHANGED vars
  BY <1>9 DEF vars, Exists
<1>10. QED
  BY <1>3, <1>4, <1>5, <1>6, <1>7, <1>8, <1>9 DEF Next, CreateBegin, UpdateRead

\* Where no two requests overlap every product costs less than its original
\* price, even if a draft is deleted while its PATCH is being served.
THEOREM DiscountedWhenSerial ==
    Spec /\ []Serial =>
        [](\A x \in Records : Exists(x) => Discounted(record[x].original, record[x].selling))
<1>1. Init => NothingCrosses
  BY DEF Init, NothingCrosses
<1>2. IInv /\ NothingCrosses =>
      \A x \in Records : Exists(x) => Discounted(record[x].original, record[x].selling)
  BY DEF IInv, DiscountedUnlessRaced, NothingCrosses
<1>3. IInv /\ Serial /\ NothingCrosses /\ [Next]_vars => NothingCrosses'
  BY SerialStep
<1>4. QED BY <1>1, <1>2, <1>3, Invariance, PTL DEF Spec
=============================================================================

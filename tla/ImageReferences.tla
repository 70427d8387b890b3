-------------------------- MODULE ImageReferences --------------------------
(***************************************************************************)
(* Image objects in the bucket and the rows that refer to them.            *)
(*                                                                         *)
(* The bucket takes no part in database transactions.  An upload stores    *)
(* the object first, then commits the reference, and deletes what the row  *)
(* referred to when it was read; if the commit fails it deletes the new    *)
(* object instead.  Deletions are attempted once, and their failure is     *)
(* only logged.  An upload that the bucket answers with an error is given  *)
(* up without a deletion, whether or not the object was stored.            *)
(*                                                                         *)
(* Stores, brands, categories and users refer to at most one object, and   *)
(* an upload replaces it; a product has a gallery, to which it adds one.   *)
(***************************************************************************)
EXTENDS Naturals, FiniteSets

CONSTANTS
    Single,     \* ids of rows with one image column
    Galleries,  \* ids of products
    Objects,    \* object paths; a stored object gets one never used before
    Requests,   \* slots for the requests being served at one time
    None

Owners == Single \cup Galleries

ASSUME OwnersAssumption == Single \cap Galleries = {}
ASSUME NoneAssumption == None \notin Owners \cup Objects

VARIABLES
    exists,    \* the rows that have not been deleted
    refers,    \* the objects each row refers to (for a product, its images do)
    bucket,    \* the objects in the bucket
    request,   \* what each request being served has read and stored so far
    \* What happened; not part of the program.
    paths,     \* the object paths used so far
    excused,   \* objects whose deletion failed, whose request died, or whose storing
               \* was answered with an error
    overtaken  \* objects a request took from a row without having read them there

vars == <<exists, refers, bucket, request, paths, excused, overtaken>>

Idle == [step |-> "idle", owner |-> None, stored |-> None, stale |-> {}]

Init ==
    /\ exists = Owners
    /\ refers = [o \in Owners |-> {}]
    /\ bucket = {}
    /\ request = [r \in Requests |-> Idle]
    /\ paths = {}
    /\ excused = {}
    /\ overtaken = {}

At(r, step) == request[r].step = step
Goto(r, req) == request' = [request EXCEPT ![r] = req]

\* What row o refers to and r has not read goes when r writes the row.
Overtake(r, o) == overtaken' = overtaken \cup ((refers[o] \ refers'[o]) \ request[r].stale)

(***************************************************************************)
(* Uploading                                                               *)
(***************************************************************************)

\* The row is read, for a profile image by the guard of the route; only what it
\* refers to now is going to be replaced.
UploadRead(r, o) ==
    /\ request[r] = Idle
    /\ o \in exists
    /\ Goto(r, [Idle EXCEPT !.step = "store", !.owner = o,
                            !.stale = IF o \in Single THEN refers[o] ELSE {}])
    /\ UNCHANGED <<exists, refers, bucket, paths, excused, overtaken>>

\* Mutant: the previous object is deleted before the reference is committed.
StoreInPlace(r, x) ==
    /\ At(r, "store")
    /\ x \notin paths
    /\ paths' = paths \cup {x}
    /\ bucket' = (bucket \ request[r].stale) \cup {x}
    /\ Goto(r, [request[r] EXCEPT !.step = "commit", !.stored = x])
    /\ UNCHANGED <<exists, refers, excused, overtaken>>

StoreObject(r, x) ==
    /\ At(r, "store")
    /\ x \notin paths
    /\ paths' = paths \cup {x}
    /\ bucket' = bucket \cup {x}
    /\ Goto(r, [request[r] EXCEPT !.step = "commit", !.stored = x])
    /\ UNCHANGED <<exists, refers, excused, overtaken>>

\* The bucket, or the check of the file, refuses the object.
StoreFails(r) ==
    /\ At(r, "store")
    /\ Goto(r, Idle)
    /\ UNCHANGED <<exists, refers, bucket, paths, excused, overtaken>>

\* The object is stored, but save() rejects: the answer is lost, and a retry is
\* refused because the object is there (ifGenerationMatch: 0).  Nothing deletes it.
StoreUnconfirmed(r, x) ==
    /\ At(r, "store")
    /\ x \notin paths
    /\ paths' = paths \cup {x}
    /\ bucket' = bucket \cup {x}
    /\ excused' = excused \cup {x}
    /\ Goto(r, Idle)
    /\ UNCHANGED <<exists, refers, overtaken>>

\* Mutant: every row collects references as a gallery does.
CommitAppends(r) ==
    /\ At(r, "commit")
    /\ request[r].owner \in exists
    /\ refers' = [refers EXCEPT ![request[r].owner] = @ \cup {request[r].stored}]
    /\ Goto(r, [Idle EXCEPT !.step = "delete", !.stale = request[r].stale])
    /\ Overtake(r, request[r].owner)
    /\ UNCHANGED <<exists, bucket, paths, excused>>

CommitReference(r) ==
    LET o == request[r].owner
        x == request[r].stored
    IN
    /\ At(r, "commit")
    /\ o \in exists
    /\ refers' = [refers EXCEPT ![o] = IF o \in Single THEN {x} ELSE @ \cup {x}]
    /\ Goto(r, [Idle EXCEPT !.step = "delete", !.stale = request[r].stale])
    /\ Overtake(r, o)
    /\ UNCHANGED <<exists, bucket, paths, excused>>

\* Mutant: a failed commit leaves the new object behind.
CommitFailsOnly(r) ==
    /\ At(r, "commit")
    /\ Goto(r, Idle)
    /\ UNCHANGED <<exists, refers, bucket, paths, excused, overtaken>>

\* Mutant: a failed commit deletes the object that the row still refers to.
CommitFailsOnOld(r) ==
    /\ At(r, "commit")
    /\ Goto(r, [Idle EXCEPT !.step = "delete", !.stale = request[r].stale])
    /\ UNCHANGED <<exists, refers, bucket, paths, excused, overtaken>>

\* The row is gone, or the transaction is rolled back: the catch block deletes
\* the object that was just stored.
CommitFails(r) ==
    /\ At(r, "commit")
    /\ Goto(r, [Idle EXCEPT !.step = "delete", !.stale = {request[r].stored}])
    /\ UNCHANGED <<exists, refers, bucket, paths, excused, overtaken>>

(***************************************************************************)
(* Removing                                                                *)
(***************************************************************************)

\* A logo or an image of a product is read to be removed, or a row with all
\* that it refers to.
RemoveRead(r, o, x) ==
    /\ request[r] = Idle
    /\ x \in refers[o]
    /\ Goto(r, [step |-> "remove", owner |-> o, stored |-> None, stale |-> {x}])
    /\ UNCHANGED <<exists, refers, bucket, paths, excused, overtaken>>

DeleteRowRead(r, o) ==
    /\ request[r] = Idle
    /\ o \in exists
    /\ Goto(r, [step |-> "deleteRow", owner |-> o, stored |-> None, stale |-> refers[o]])
    /\ UNCHANGED <<exists, refers, bucket, paths, excused, overtaken>>

\* The column is set to NULL, whatever it holds by now; the row of a product
\* image must still be there.
CommitRemoval(r) ==
    LET o == request[r].owner IN
    /\ At(r, "remove")
    /\ o \in exists
    /\ o \in Galleries => request[r].stale \subseteq refers[o]
    /\ refers' = [refers EXCEPT ![o] = IF o \in Single THEN {}
                                       ELSE @ \ request[r].stale]
    /\ Goto(r, [Idle EXCEPT !.step = "delete", !.stale = request[r].stale])
    /\ Overtake(r, o)
    /\ UNCHANGED <<exists, bucket, paths, excused>>

DeleteRow(r) ==
    LET o == request[r].owner IN
    /\ At(r, "deleteRow")
    /\ o \in exists
    /\ exists' = exists \ {o}
    /\ refers' = [refers EXCEPT ![o] = {}]
    /\ Goto(r, [Idle EXCEPT !.step = "delete", !.stale = request[r].stale])
    /\ Overtake(r, o)
    /\ UNCHANGED <<bucket, paths, excused>>

RemovalFails(r) ==
    /\ At(r, "remove") \/ At(r, "deleteRow")
    /\ Goto(r, Idle)
    /\ UNCHANGED <<exists, refers, bucket, paths, excused, overtaken>>

(***************************************************************************)
(* Cleaning up                                                             *)
(***************************************************************************)

\* Every deletion succeeds or fails on its own.
DeleteStale(r) ==
    /\ At(r, "delete")
    /\ \E failed \in SUBSET request[r].stale :
          /\ bucket' = bucket \ (request[r].stale \ failed)
          /\ excused' = excused \cup failed
    /\ Goto(r, Idle)
    /\ UNCHANGED <<exists, refers, paths, overtaken>>

\* The process dies.  What it was to delete, or had stored, stays.
Crash(r) ==
    /\ request[r] # Idle
    /\ excused' = excused \cup (IF At(r, "delete") THEN request[r].stale ELSE {})
                           \cup ({request[r].stored} \ {None})
    /\ Goto(r, Idle)
    /\ UNCHANGED <<exists, refers, bucket, paths, overtaken>>

Next == \E r \in Requests :
    \/ \E o \in Owners : UploadRead(r, o) \/ DeleteRowRead(r, o)
    \/ \E o \in Owners, x \in Objects : RemoveRead(r, o, x)
    \/ \E x \in Objects : StoreObject(r, x) \/ StoreUnconfirmed(r, x)
    \/ StoreFails(r)
    \/ CommitReference(r)
    \/ CommitFails(r)
    \/ CommitRemoval(r)
    \/ DeleteRow(r)
    \/ RemovalFails(r)
    \/ DeleteStale(r)
    \/ Crash(r)

Spec == Init /\ [][Next]_vars

-----------------------------------------------------------------------------
(* Properties *)

\* The values are of their types, and only rows that exist refer to objects.
TypeOK ==
    /\ exists \subseteq Owners
    /\ refers \in [Owners -> SUBSET paths]
    /\ \A o \in Owners : o \notin exists => refers[o] = {}
    /\ \A o \in Single : Cardinality(refers[o]) <= 1
    /\ bucket \subseteq paths
    /\ excused \subseteq paths
    /\ overtaken \subseteq paths
    /\ paths \subseteq Objects
    /\ request \in [Requests ->
           [step : {"idle", "store", "commit", "remove", "deleteRow", "delete"},
            owner : Owners \cup {None}, stored : paths \cup {None},
            stale : SUBSET paths]]

\* No customer ever gets the address of an object that is not there: however
\* replacing, removing and deleting overlap, fail or break off.
ReferencedObjectExists == \A o \in Owners : refers[o] \subseteq bucket

\* The objects some request still is to refer to or to delete.
Pending == UNION {request[r].stale \cup ({request[r].stored} \ {None}) : r \in Requests}

\* An object that nothing refers to does not stay in the bucket, but for the
\* deletions that failed, the requests that died, the uploads that were answered
\* with an error though the object was stored, and the objects a row lost to a
\* request that had read the row before they came.
NothingIsLeftBehind ==
    bucket \subseteq (UNION {refers[o] : o \in Owners}) \cup Pending \cup excused
                      \cup overtaken

\* Rows and bucket as the pages see them.  A deleted object counts as gone even
\* where a row refers to it, which the life cycle forbids.
Shown(x) == \E o \in Owners : x \in refers[o]
Held(x) == \E r \in Requests : request[r].stored = x

StageOf(x) ==
    CASE x \notin paths       -> "absent"
      [] x \in paths \ bucket -> "gone"
      [] Shown(x)             -> "shown"
      [] Held(x)              -> "held"
      [] OTHER                -> "loose"

stage == [x \in Objects |-> StageOf(x)]

Lifecycle == INSTANCE ObjectLifecycle WITH shows <- refers

\* All the requests above, however they overlap, fail or break off, implement
\* the life cycle of ObjectLifecycle: an object is shown by one row at most, it
\* is deleted only when it was let go, and no stale write brings it back.
ImplementsObjectLifecycle == Lifecycle!Spec
=============================================================================

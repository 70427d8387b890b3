# Verification of poromosiyo-api

TLA+ models of the stateful core of the Poromosiyo API (a NestJS server over
MySQL, an S3-compatible bucket and an SMTP transport), the TLC configurations that
model-check them on small instances, and machine-checked TLAPS proofs: every
safety property that a passing run checks is also proved for instances of any size.
Paths below are relative to the repository.

Run everything from this directory:

    tlc -workers 2 -config AuthSessions.cfg MCAuthSessions.tla
    tlapm AuthSessionsProofs.tla

and so for each `.cfg` (its module is in `PROJECT.json`) and each `*Proofs.tla`:
AuthSessions, Accounts, MailTokens, LoginLockout, ProductPublication,
CategoryTree, ImageReferences, CatalogRecords.

`PROJECT.json` lists every run, the source lines of every definition, the
mutants that show that each property can fail, the hazards and the findings.

## 1. The system

One Node process (or several) serves HTTP requests concurrently. Every handler is
an `async` function: it is cut at each `await`, and other requests run between.
All durable state is in MySQL (through Prisma; the schema belongs to the sibling
project `@poromosiyo/db`) and in the bucket. The server keeps no cache, no queue
and no background job. What is hard is therefore always of one shape: **a request
decides on rows it has read, and writes later.**

| Component | State | Operations | Interacts with | Hard behaviour | Correct when |
|---|---|---|---|---|---|
| Sessions and refresh tokens (`auth.service.ts`, `jwt-auth.guard.ts`, `session-management.service.ts`) | `auth_session`, `refresh_token` rows | login, refresh with rotation and reuse detection, logout, list, revoke, logout-all; the guard on every request | governance, passwords, Google login close and open the same rows | racing refreshes, revocation during a refresh, lists of sessions read before they are closed | one live token per open session; closed is final; a dead family stays dead |
| Local passwords (`password-recovery.service.ts`, `local-password.service.ts`) | `user.passwordHash` | change, set first, reset | close all sessions, retire reset links, clear the lock | hashing takes long between the check and the write | a new password closes every session |
| Account lockout (`auth.service.ts`) | `failedLoginAttempts`, `lockedUntil` | failed and successful logins | cleared by passwords and unblocking | increment in memory, stale rows | failures count; a lock ends |
| Mail links (`email-verification.service.ts`, `password-recovery.service.ts`) | one-time token rows | request (with cooldown), confirm | SMTP, passwords | mail fails, process dies between insert, mail and retirement; links presented twice | a link works once; the mailbox keeps a working link |
| Governance (`account-governance.service.ts`, `admin-managed-sessions.service.ts`) | `user.isActive`, `blockedAt` | block, unblock, revoke, logout-all of others | sessions | login in flight during a block | a blocked account has no session |
| Google accounts (`google-auth.service.ts`, `auth-method-management.service.ts`) | `auth_account` rows | first login (creates the account), link, unlink, login | users, sessions | concurrent first logins, a registration under a first login, an identity whose address changes, removing the last login method | an account keeps a way to log in; only its owner links it; an address is verified by who answers for it |
| Registration, administrators (`auth.service.ts`, `admin-admins.service.ts`) | user rows, unique by address | register, create administrator | Google accounts, seeding | two requests find one address free | an address has one account |
| Products (`admin-product*.service.ts`) | product rows: status, parents, description, expiry | create, update, delete, publish/unpublish, archive/restore, assign store, set expiration | stores, brands, categories, images | a PATCH, a selection or a deletion decided on rows that another request writes before it does | what is active is presentable; only drafts disappear |
| Product images (`admin-product-images.service.ts`) | `product_image` rows, one primary | add, update, remove | bucket, product status | long sequences that move the primary flag; uploads that all count before any inserts | one primary image; at most 10 images (broken when uploads overlap, section 5) |
| Stores, brands, categories (`admin-stores`, `admin-brands`, `admin-categories.service.ts`) | rows with `isActive`, image, parent | create, update, image, delete | products, bucket | deactivation while products are published | no active product in an inactive parent |
| Category hierarchy (`admin-categories.service.ts`) | `parentId` | create, move, delete | foreign key | a walk of many queries, then a write, in no transaction | a forest |
| Image storage (`image-storage.service.ts`, `profile-image.service.ts`) | bucket objects | store, delete (quietly) | every row with an image | bucket and database do not commit together; an upload may be stored and yet answered with an error | no dangling reference, no orphan |
| Superadmin seeding (`scripts/seed-superadmin.ts`) | one user row | run by hand, with no lock against another run | users | check, then create | at most one SUPERADMIN, if runs do not overlap |
| Catalog money and slugs (`catalog-money.util.ts`, `catalog-slug.util.ts`, `admin-products.service.ts`) | prices and slug of a product row | create, PATCH of either price, search for a free slug | the unique key | one price judged with the other as it was read; a search of many queries in no transaction; rounding | a product costs less than its original price; a PATCH does not move a product past its own slug; the shown discount is the nearest |
| Activity log, dashboard, listings, mail text, hashing, DTOs, configuration, bootstrap | append-only or none | | | | not modelled, see section 7 |

## 2. How the code is modelled

* **Requests.** Each module has a set `Requests` of slots; a slot holds what its
  request has read (`request[r]`) and at which await it stands (`step`). A slot is
  `Idle` again when the request has answered. `Abort` (or `Crash`) is a refused
  request, a rolled back transaction or the end of the process: before its
  commit a request has written nothing.
* **Transactions.** MySQL runs them at REPEATABLE READ. Where a transaction
  first reads a list and then updates, the read is one step (`...Snapshot`, `...Read`)
  and the writes are a later one (`...Commit`, `...Write`). Updates see current rows (their
  `WHERE` is evaluated then), lists are those of the snapshot. The writes of one
  transaction are one step: they keep their row locks until COMMIT. A transaction
  without a read that matters is one step.
* **Time** is a `clock` that a bounded `Tick` advances, and each request keeps the
  `now` it computed when the code does. Login computes its time together with
  its checks; in the model these are one step.
* **Data.** Ids, tokens, passwords and objects are model values; a hash is the
  identity of what was hashed. A description is blank or not, an expiry is passed
  or not. Activity-log rows are left out: nothing reads them to decide.
* **Environment.** Rows written by other versions (sessions with a NULL expiry,
  products without a store) are not in the models' initial states. A
  COMMIT whose acknowledgement is lost is not modelled: a failed commit is a
  rollback. An upload to the bucket whose acknowledgement is lost is (`StoreUnconfirmed`
  of ImageReferences).

## 3. The modules

### AuthSessions, with MCAuthSessions and AuthSessionsProofs

State: `active` (`isActive`, written together with `blockedAt`), `password`,
`session` and `token` rows, `clock`, `request`. Actions by service:

| Code | Actions |
|---|---|
| `AuthService.loginForRole`, `GoogleAuthService.authenticateLinkedUser` | `LoginRead`, `GoogleLoginRead`, `LoginCommit` |
| `AuthService.refreshForRole` | `RefreshRead`, `RefreshReadUsed`, `RefreshClaim`, `RefreshReuse` |
| `JwtAuthGuard.canActivate`, then the handler | `Admit`, then `Logout`, `RevokeRead`, `LogoutAllRead`, `ChangePasswordRead` or `SetPasswordRead` |
| `SessionManagementService` | `RevokeRead`/`RevokeCommit`, `LogoutAllRead`/`LogoutAllCommit` |
| `PasswordRecoveryService`, `LocalPasswordService` | `ChangePasswordRead`, `SetPasswordRead`, `ResetPasswordRead`, then `PasswordSnapshot`, `PasswordCommit` |
| `AccountGovernanceService` | `BlockRead`, `BlockSnapshot`, `BlockCommit`, `UnblockRead`, `UnblockCommit` |
| `AdminManagedSessionsService` | `ManagedRevoke...`, `ManagedLogoutAll...` |

The difference that matters most: `logout_all`, a block and the three password
operations revoke **sessions by user** and **tokens by the list of sessions read
before** (`RevokeUser`), so that a session opened in between is closed with its
token row unrevoked. The others revoke both by the same ids. Customer registration
opens no session of an existing account; accounts exist from the start.

### SessionEntitlement, with MCSessionEntitlement

AuthSessions with a record of how each login was judged, which constrains no step (`HSpec => Spec` is the
theorem `RecordOnly`): the password its account had (`judged`, then `under` for the session it opens), and whether
the account was blocked or given another password since (`overtaken`, then `late`). `OpenSessionsAreEntitled` says
for whom a session may stand at all: in every state, and not only after the step that closes sessions, an open session
is of an account that is not blocked and has the password its login was judged under. What it excepts is exactly what
the code loses, the sessions in `late`, because the transaction of a login reads neither `isActive` nor the hash again.

### SessionLifecycle

What clients rely on, with no requests in it: a session is opened once with one
fresh token, rotated to another fresh token, closed once; a closed session has no
current token. `AuthSessions!ImplementsLifecycle` is the refinement: a session is
open when its row exists and is not revoked, and its current tokens are the live
ones of an open session. `IssueDead` is what makes it honest: a refresh that
claimed its token while the session was being closed may answer with a token,
and that token is dead on arrival.

### Accounts, with MCAccounts and AccountsProofs

How accounts come to be and which ways in they have: `user` maps an address to its
account (addresses are unique, none is changed, no account is deleted) and `owner` a Google
subject to the address of the account it is linked to (subjects are unique as well; the code relies on
both keys by catching `P2002`). An identity is what a verified token says: subject, address, and
whether Google is authoritative for that address.

| Code | Actions |
|---|---|
| `AuthService.registerCustomer`, `AdminAdminsService.create` | `RegisterRead`, `RegisterCommit` |
| `scripts/seed-superadmin.ts` | `SeedLook`, `SeedRead`, `SeedCommit` |
| `GoogleAuthService.loginCustomer`, `loginAdmin` | `LoginFind`, `LoginReadAddress`, `CreateCustomer` or `CreateConflicts`, `LoginFindAgain`, `LoginOpen` |
| `linkGoogleAccount` | `LinkRead`, `LinkFindIdentity`, `LinkFindOther`, `LinkCommit`, `Vouch` |
| `AuthMethodManagementService.unlinkGoogle` | `UnlinkRead`, `UnlinkCommit` |
| other components | `SetPassword` (first password or reset), `ConfirmAddress` (mail link), `Govern` (block, unblock) |

`verified` says who vouched for the address, which the code keeps only as a date. One
account has at most one identity only as far as `LinkFindOther` sees: whether the external schema has a unique key on
(user, provider) is not known, and the model does without. Nothing keeps two runs
of the seeding script apart, and both may find no superadmin: `raced` records that a run created an account during another. The sessions these operations open are those of AuthSessions
(`GoogleLoginRead`, `LoginCommit`, with the constant `Linked`).

### AccountAccess

What holders of accounts rely on, with no requests, checks or conflicts: an account is opened once, with a password or with
an identity that nobody had; it gains ways in one at a time; it never loses its password, and identities only while it has one;
an identity passes to another account only after it was given up. `Accounts!ImplementsAccountAccess` is the refinement: `opened`
are the addresses with a row, `secured` those whose row has a password, `owner` is that of Accounts. What the code does in five
reads and a write (`linkGoogleAccount`, `loginCustomer`) is one step here, or none.

### LoginLockout, with MCLoginLockout and LoginLockoutProofs

The two lock columns of one account and the logins that read, verify and write
them, for each `limit` in `Limits` (read once, when the process starts). `lock` is the time left. `streak` and `raced` are history variables: the
failures since the counter was cleared, and whether a failure was written over a
row newer than the one read; `locked` is the time for which the account has been locked without a break. `Recorded` is `recordFailedLogin`.

The lock columns are written without a transaction, so that concurrent failures lose
increments, and a slow one writes `lockedUntil: null` over a lock. What remains of
the protection is `GuessingLocks`: whoever goes on failing, without a success or a
clearing, is locked out again and again. For the owner there is `LockIsBounded`: logins that read the row before it was locked may renew the lock,
but together they make it last no longer than one login's time beyond `LockTicks`, so that many connections at once keep the
account locked no longer than one would.

### MailTokens, with MCMailTokens and MailTokensProofs

The tokens of one account, of one `kind` in `Kinds` (`reset` or `verify`): the two services
take the same steps, and differ where the retirement of older tokens fails
(`RetireFails`). `delivered`, `abandoned` and `confirmed` record what happened.
The effect of a reset on sessions is in AuthSessions.

### OneTimeLinks

What the owner of a mailbox may rely on, with no mails, requests or clocks: a link becomes
valid once, may be retired at any time, and takes effect only while it is valid; from then on neither it
nor a link that was valid beside it does. `MailTokens!ImplementsOneTimeLinks` is the
refinement: an unused token is a valid link, a used or deleted one is spent, and `confirmed`
counts its effects. The step that matters is `Use`: the code retires the siblings in the
transaction that claims a token, so that of two links presented at once only one can work.

### ProductPublication, with MCProductPublication and ProductPublicationProofs

Products, image rows, and `isActive` of stores, categories and brands. Every
operation is a reading step that decides and a writing step by primary key
(`UpdateRead`/`UpdateWrite`, the bulk operations through `BulkWrite`, ...).
`Patches` bounds the PATCHes that are tried. Which image becomes
primary when the primary one is removed is left open (the code takes the first
by sort order). Ids are used again after their row is deleted, which only adds
behaviours.

Nothing that a decision depended on is locked or read again, so overlapping requests do break what
each of them checked. Three history variables say exactly when: `reads` is the set of rows a request has
judged, a request is `stale` once another has written one of them, and a product is `raced` when a stale
request writes it or switches off a parent of it; the next publication that is not stale ends the exception.
The properties hold of every product that is not raced, whatever else overlaps.

### CatalogRecords, with MCCatalogRecords and CatalogRecordsProofs

| Code | Actions |
|---|---|
| `AdminProductsService.create` | `CreateBegin`, the search, `InsertRecord` |
| `AdminProductsService.update` | `UpdateRead`, the search, `UpdateRecord` |
| `resolveUniqueSlug`, one query per candidate | `SearchOn`, `SearchFinds` |
| `assertDiscountedPrice`, `calculateDiscountPercentage` | `Discounted`, `BasisPoints` |
| the unique key of the schema, caught as `P2002` | `Unique`; a refusal is `Abort` |
| deletion of a draft | `Remove` |

A text is a member of `Bases`, and `Candidate` gives the slugs that are tried for it in their order; candidates
of two texts may coincide (`ana` with a suffix is what `ana 2` gives). Prices are in minor units. A PATCH of one price is judged with
the other as it was read and writes only the one: two such PATCHes that overlap can leave a selling price above
the original one. The row is then `crossed`: its discount is negative, and a later PATCH, of whatever
field, is refused unless it gives prices that fit. Percentages are modelled in hundredths
of a per cent; their text form is left out.

### ImageReferences, with MCImageReferences and ImageReferencesProofs

Rows with one image column (`Single`: stores, brands, categories, users), products
with a gallery (`Galleries`), and the bucket. An upload is `UploadRead`,
`StoreObject`, `CommitReference` or `CommitFails`, `DeleteStale`; a removal is a read, a commit and
`DeleteStale`. Where `save()` rejects, the bucket may be as it was (`StoreFails`) or hold the object
(`StoreUnconfirmed`: the answer was lost, and the retry is refused by `ifGenerationMatch: 0`); `ImageStorageService.store` deletes nothing in
either case. `excused` collects the objects whose deletion failed, whose request died or whose upload was answered with an error, `overtaken` those that
a request has put into a row after another had read that row to replace or delete it: the slower one
deletes the object it read, and nobody deletes the newer one.

### ObjectLifecycle

What the pages that show images rely on, with no requests, failures or snapshots: an object is stored once under a fresh
address; one row at most ever shows it; it is deleted only after it was let go, and nothing shows it again.
`ImageReferences!ImplementsObjectLifecycle` is the refinement: an object is `shown` while a row refers to it, `held` by the upload that
stored it until the row is written, `loose` when the row has let go of it, the upload has failed, or was answered with an error though the object was stored
(`Stray`), and `gone` when it has left the bucket.

### CategoryTree, with MCCategoryTree and CategoryTreeProofs

`parentId` and the walk of `assertValidParent`, one query per step (`WalkOn`,
`WalkEnds`, `WalkRefuses`), followed by `WriteRow`. The foreign key refuses a parent that is
gone and the removal of a category with children. `stale` and `raced` record whether a
category was moved by a request that had begun before another's last move. `WalksClimb` says why a walk ends: each query of a walk that
goes on meets a category it had not met, even if the tree is changed under it. No run checks it, as `EveryWalkEnds` follows from it
under the run's fairness; it is proved for any number of categories.

## 4. What the runs check

Symmetry is declared on ids, tokens and slots only, which no module
distinguishes, and in no run with a liveness property (`lockout`, `category_tree`); `ImplementsLifecycle`, `ImplementsOneTimeLinks`,
`ImplementsAccountAccess` and `ImplementsObjectLifecycle` are refinements of safety only. Deadlock is checked except where a bounded supply of ids, tokens or
ticks can run out and the system may then really stop.

| Run | Instance | Asks |
|---|---|---|
| `sessions` | 1 account, with Google, 2 sessions, 3 tokens, 2 passwords, 2 requests, clock to 1 (825,310 states) | do `OneLiveTokenPerSession`, `RevokedFamilyIsDead`, `TokenExpiresWithSession` hold, and does it all implement `SessionLifecycle` (which includes that a closed session stays closed)? |
| `entitlement` | 2 accounts with a password and Google each, 2 sessions, 2 tokens, 2 passwords, 2 requests (1,458,129 states) | does every open session stand for an account that may have it (`OpenSessionsAreEntitled`)? does one account ever sign the other out (`OthersStaySignedIn`)? can a first password replace one that a reset has set meanwhile (`FirstPasswordStands`)? |
| `unblock_restores` | 1 account, 1 session, 2 requests | finding, section 5 |
| `accounts` | 2 addresses, 2 Google accounts, 3 identities, 2 requests (246,683 states) | `AlwaysAWayIn`, `VerifiedByItsGoogle`, `OnlyOwnersLink`, `LosersGetIn`, `OneSuperadminUnlessRaced`, and does it all implement `AccountAccess`? |
| `lockout` | 3 logins, limits 1 and 3 | `CountIsExactUnlessRaced`, `LockIsBounded`, and the liveness properties `LockEnds`, `GuessingLocks` |
| `mail_links` | both kinds, 3 tokens, 2 issuers, 2 confirmers, clock to 1 | `OneTokenWhenQuiet`, `IssuingKeepsALink`, and does it all implement `OneTimeLinks` (which includes that a token works once and a retired one not at all)? |
| `reset_link_lost` | 1 token, 1 issuer | finding |
| `publication` | 1 product, 4 images, 2 stores, 1 category, limit 2, 2 requests of every kind (840,578 states) | `PresentableUnlessRaced`, `LifecycleUnlessRaced` |
| `image_limit` | 1 product, 3 images, limit 2, 2 requests | finding |
| `image_references` | a store, a product, 4 objects, 2 requests (91,577 states) | `ReferencedObjectExists`, `NothingIsLeftBehind` under overlap, failed deletions, uploads answered with an error, and crashes; does it all implement `ObjectLifecycle`? |
| `category_tree` | 3 categories, 2 requests | `AcyclicUnlessRaced`, `EveryWalkEnds` (liveness), also through cycles |
| `catalog_records` | 2 products, 2 requests, 4 slugs of two texts that share one, prices 0, 2, 5, 7 (705,846 states) | `DiscountedUnlessRaced`, `OwnSlugIsNotPassedOver`, `DiscountIsNearest` |

**Why these bounds.** Every race in this code is between one request's read and
its write, so two slots show it; the counter of failures has three because a lost increment
needs two writers and a reader. Two sessions separate "this one" from "the
others", three tokens give each session one and leave one for a rotation. With a lifetime and a clock of
1, a rotation happens before and at the expiry, and a token that restarted its lifetime would
outlive its session; the same holds of the links of MailTokens, and a cooldown of 1 is over after one tick.
In `entitlement` nothing expires and few tokens are rotated: a rotation changes neither which sessions are open nor whose they are. Two passwords are
enough for a login to be judged under one and committed under another; a third would only be a second change of the same kind, which
the proof covers.
The identities of `accounts` are one Google account before and after its address changed, with Google
authoritative for the new address only, and a second account with that same address: linking, creating,
vouching and conflicts all have an instance.
In `publication` two images fill the limit, the third is that of a second upload that had counted too, and the fourth is free for an
upload after a removal. A second product would make selections of which one half may be refused, and instances
with it are too large for TLC; the proof covers selections of any size.
PATCHes change one field in `publication`, since the conditions on an active product are independent of each other.
Brands are left out of the instance: the code treats them as it does categories, except that a
product may have none (the proof has them). Three categories are enough for two requests to move each other's ancestors.
In `catalog_records` the second candidate of one text is the first of the other, so that a record may find its
own slug behind that of another; the prices give discounts of 28.57 (rounded down), 71.43 (rounded up) and 60 per cent, and a price of 0, which is refused.

**Fairness.** Only two specifications state any.
`LoginLockout!FairSpec`: time passes (`SF Tick`), and a login being served ends
(`WF Serve`), both whatever clients do; clients and administrators owe nothing.
The lock must outlast two requests (`LockTicks > 2 * RequestTicks`):
`environment.validation.ts` makes a lock at least 60 seconds, a login takes the
time of one password verification. Without that, logins that read the row before
it was locked could renew the lock after it ran out, indefinitely. `GuessingLocks` uses the
same specification; that failures go on for ever is its hypothesis, not an assumption on clients.
`CategoryTree!FairSpec`: the database answers each query of a walk.

**Exceptions stated by properties.** `IssuingKeepsALink` excepts a request whose own link was retired by another
(two overlapping requests retire each other's token); `NothingIsLeftBehind` excepts `excused` and `overtaken`
objects; `OneSuperadminUnlessRaced` holds until a run of the seeding script creates an account during another run; `CountIsExactUnlessRaced` and `AcyclicUnlessRaced` hold until a row was written over a newer one or a
category was moved under another's walk; `PresentableUnlessRaced` and `LifecycleUnlessRaced` except the products in `raced`,
`DiscountedUnlessRaced` and `DiscountIsNearest` the rows in `crossed`; the first exception ends with the next publication, the second
with the next PATCH, that is not stale. Each exception names the requests that overlapped and the row it happened to: it is no wider than what the code
loses, and every step outside it must keep the promise. `OpenSessionsAreEntitled` excepts the sessions in
`late`, until they are closed.

## 5. Findings

Each is the counterexample of a run whose `expect` is `violation`; the quoted
expectation is in `PROJECT.json`.

| Run | What happens |
|---|---|
| `unblock_restores` | A login judged before a block commits after it. The session is unusable while the account is blocked, and usable after the unblock. A login that verified a password replaced meanwhile opens its session in the same way. |
| `reset_link_lost` | If retiring the older reset tokens fails after the mail was sent, the token of the delivered link is deleted. |
| `image_limit` | Two uploads to one product both count its images, find room for one more, and both add theirs; the transaction that inserts does not count again. |

What the exceptions of section 4 stand for has the same cause, and is not a run of its own: two moves of categories, each below the other,
make a cycle (`admin-categories.service.ts`, `assertValidParent`); a product is archived, or its primary flag withdrawn, while it is being
published, or its store switched off, and the publication stands (`ActiveProductHasActiveStore`
fails then); a product published while it is deleted as a draft disappears; two PATCHes of one price each cross; of two uploads that
replace one image both delete the object they have read, and the one that the faster put into the row stays in the bucket, although
`docs/image-storage.md` says that replacing an image deletes the previous object; two runs of the seeding script with different addresses make two superadmins.
A login that looked its Google identity up before another linked it, and its address up afterwards, is told to link Google although it is linked:
a wrong answer, no wrong row.

All of these are a matter of overlap, and of nothing else. The theorems `EntitledWhenSerial`, `PresentableWhenSerial`, `AcyclicWhenSerial`,
`DiscountedWhenSerial`, `ExactWhenSerial`, `NothingLostWhenSerial` and `OneSuperadminWhenSeededApart` of section 6 prove it: where requests are served
one at a time, the exceptions never arise, and the promise that `unblock_restores` refutes is kept; so is the one that `image_limit` refutes, where uploads
to one product do not overlap (`LimitByOverlap` with `n = 1`). `reset_link_lost` is different: one request and one failing statement are enough.

## 6. What is proved

`AuthSessionsProofs` proves the following of `AuthSessions!Spec` for every value of the
constants: any number of users, sessions, tokens, requests, any lifetime.

| Theorem | States |
|---|---|
| `TypeCorrect` | `[]TypeOK` |
| `OneLiveToken` | `[]OneLiveTokenPerSession` |
| `RevokedFamily` | `[]RevokedFamilyIsDead` |
| `AbsoluteExpiry` | `[]TokenExpiresWithSession` |
| `FinalRevocation`, `SpentForever` | `RevocationIsFinal`, `SpentTokenStaysSpent`, which no run checks: `ImplementsLifecycle` says the same of what clients see |
| `PasswordCloses`, `BlockCloses` | `NewPasswordClosesEverySession`, `BlockClosesEverySession`, which no run checks: `OpenSessionsAreEntitled` says more |
| `OthersSignedIn` | `OthersStaySignedIn` |
| `FirstPasswordStays` | `FirstPasswordStands` |
| `Implementation` | `ImplementsLifecycle` |
| `RecordOnly` | `HSpec => Spec`: the record of SessionEntitlement constrains nothing |
| `EntitledSessions` | `[]OpenSessionsAreEntitled`, of `HSpec` |
| `EntitledWhenSerial` | if no two requests overlap, `late` stays empty, every open session is entitled, and `UnblockRestoresNoSession` |

`AccountsProofs` proves of `Accounts!Spec`, for any number of addresses, Google accounts, identities and requests:

| Theorem | States |
|---|---|
| `TypeCorrect` | `[]TypeOK`, with every link leading to an account that exists |
| `WayIn` | `[]AlwaysAWayIn` |
| `GoogleVerification` | `[]VerifiedByItsGoogle` |
| `OwnersLink` | `OnlyOwnersLink` |
| `LosersAreAdmitted` | `LosersGetIn`: a login that lost the race for its account finds the winner's |
| `Implementation` | `ImplementsAccountAccess` |
| `SingleSuperadmin` | `[]OneSuperadminUnlessRaced` |
| `OneSuperadminWhenSeededApart` | if no two runs of the seeding script overlap: `[]OneSuperadmin` |

The other proof modules, each for any number of rows and requests:

| Module | Theorem | States |
|---|---|---|
| `MailTokensProofs` | `TypeCorrect`, `WorksOnce`, `QuietMailbox` | `[]TypeOK`, `[]TokenWorksOnce`, `[]OneTokenWhenQuiet` |
| | `IssuingKeeps` | `IssuingKeepsALink` |
| | `Implementation` | `ImplementsOneTimeLinks` |
| `LoginLockoutProofs` | `TypeCorrect`, `CountIsExact` | `[]TypeOK`, `[]CountIsExactUnlessRaced` |
| | `LockBound` | `[]LockIsBounded`, if `2 * RequestTicks < LockTicks` |
| | `ExactWhenSerial` | if no two logins overlap and nothing clears the counter under one: `[](attempts = streak)`, and only an account that is not locked records a failure |
| `ProductPublicationProofs` | `TypeCorrect`, `StaysPresentable` | `[]TypeOK`, `[]PresentableUnlessRaced` |
| | `Lifecycle` | `LifecycleUnlessRaced` |
| | `ImageLimitKept` | `[]ImagesBoundedByOverlap`: one image too many at most for each other request. No run checks it, being the case of `LimitByOverlap` where `n` is the number of requests |
| | `LimitByOverlap` | if at most `n` uploads to one product overlap, it has at most `ImageLimit + n - 1` images |
| | `PresentableWhenSerial` | if no two requests overlap: every active product is presentable, `[]ActiveProductHasActiveStore`, only drafts disappear, nothing archived is published |
| `CategoryTreeProofs` | `TypeCorrect`, `StaysAcyclic` | `[]TypeOK`, `[]AcyclicUnlessRaced` |
| | `WalksAreShort` | `WalksClimb`, if there are finitely many categories |
| | `AcyclicWhenSerial` | if no two requests overlap: `[]Acyclic` |
| `ImageReferencesProofs` | `TypeCorrect`, `NoDanglingReference`, `NothingLost` | `[]TypeOK`, `[]ReferencedObjectExists`, `[]NothingIsLeftBehind` |
| | `NothingLostWhenSerial` | if no two requests overlap: nothing is overtaken, so that every object is referred to, pending or excused |
| | `ObjectsHaveOneLife` | `ImplementsObjectLifecycle` |
| `CatalogRecordsProofs` | `TypeCorrect`, `StaysDiscounted`, `KeepsItsSlug`, `NearestDiscount` | `[]TypeOK`, `[]DiscountedUnlessRaced`, `[]OwnSlugIsNotPassedOver`, `[]DiscountIsNearest` |
| | `DiscountedWhenSerial` | if no two requests overlap: every product costs less than its original price |

Assumptions: those of the modules on their constants (roles, a positive lifetime, identities are records of the right shape,
`None` and `Keep` are none of the ids, rows and values, every text has a candidate, images and requests of ProductPublication are finite), which TLC evaluates in every run of the module. Some theorems state a hypothesis of
their own, shown in the tables. `LockBound` needs no more than the configuration guarantees (section 4, fairness).
The theorems named `...WhenSerial` assume `[]Serial` (`[]Alone` in ImageReferencesProofs): of the requests that a state shows in progress there is at most one;
`OneSuperadminWhenSeededApart` assumes as much of runs of the script only (`[]SeededApart`). Their specifications have such behaviours, of
every operation, since each action needs one request only.

The argument for AuthSessions:

1. *What requests know.* `TypeOK` is not inductive: a commit writes what its
   request remembers. `RequestOK` says which fields a step has filled, `ReadOK` that the token of a
   refresh belongs to its session, the session of an admitted request to its user, and that a list of sessions was made for one
   user. With `TypeOK` they form `Base`, which is inductive (`BaseStep`).
2. *Five effects.* Under `Base` each of the actions does one of five things to
   sessions and tokens: `Reads`, `Opens`, `Rotates`, `Closes` (sessions and tokens by
   the same ids), `ClosesUser` (`StepEffect`, one lemma per service).
3. *The invariant.* `IInv` is `Base` with `OneLiveTokenPerSession`,
   `RevokedFamilyIsDead` and `TokenExpiresWithSession`, which need each other: the first
   is kept by a rotation because the claimed token is live and therefore the only one of its
   session; the second because a token that is still claimable is live, so its session was not
   closed by id; both need that the token belongs to the session the request
   remembers (`ReadOK`), and that a token refers to a session that exists.
   It is proved per effect (`OpensInv`, `RotatesInv`, `RevokeInv`), not per action.
4. *Refinement.* Each effect is a step of SessionLifecycle or a stutter
   (`OpensRefines`, `RotatesRefines`, `RevokeRefines`). A rotation is `Rotate` if the session is open and
   `IssueDead` if it was closed by user in between.

5. *What closing reaches.* Whatever was listed before, the revocation by user leaves no session of the user
   open (`RevokeUserClosesAll`), and only `PasswordCommit` writes a password, only `BlockCommit` blocks. That a first
   password replaces none is the `WHERE` of its update, whatever was read before (`FirstPasswordStep`). That nobody is signed out by
   another's request needs `ReadOK` again: each revocation is of the session or the user the request was admitted for.

6. *Entitlement.* `EInv` adds to `OpenSessionsAreEntitled` the same of the logins that were not overtaken (`LoginsAreEntitled`): such a login has
   judged the account as it still is. A step that supersedes the account of a login makes it overtaken (`Judge`), and the same step leaves
   the account no session (`RevokeUserClosesAll`), so that the promise holds of the others across it. Where no requests overlap, a login is
   in progress while nothing supersedes (`SupersededElsewhere`), and `overtaken` and `late` stay empty.

The argument for Accounts. `AlwaysAWayIn` alone is not inductive: an unlinking deletes what it judged earlier. `IInv`
adds what a request knows by its step (`Knows`), and that what it has read of an account is still so (`StillTrue`: accounts
and passwords stay, which `Persist` states of every step). Each action has one of six effects on the
rows (`StepEffect`): nothing, a registration, an account created with its identity, a change that keeps the password, a link, an
unlinking. `EffectCorrect` shows that each keeps the row invariants, `RequestStep` that each request
goes on to one that knows what it should. `EffectImplements` maps the effects to the steps of AccountAccess: a change of a row shows as a
first password or not at all (`ChangesShown`), and an unlinking is a step there only because its account still has the password that was read (`StillTrue`).

`OneSuperadminUnlessRaced` is proved beside it with an invariant of its own (`SeedInv`): unless the runs of the script have raced, none is
under way once there is a superadmin, since the run that made it was alone, and no registration makes one. `RacedOnlyBySeeding` says that only a creation during another run counts as a race.

The argument for MailTokens. A request knows the token it has inserted or claims (`KnowsToken`), and a token that took effect is used
(`UsedUp`). Every action has one of four effects on the tokens: nothing, `Issues`, `Retires`, `Uses` (`StepEffect`); each is a step
of OneTimeLinks or a stutter, which is the refinement, and each keeps `UsedUp`. `OneTokenWhenQuiet` is inductive with them: a token that a
request has not retired belongs to a request in progress or to one that broke off. `IssuingKeepsALink` needs `Mailed`: a token is one request's, the
request that retires the others has delivered its own, and of verification links the request that deletes its own has not.

LoginLockout. `TypeOK` with `CountIsExactUnlessRaced` is inductive; `RecordedBounds` says that the outcome of a failure is either a
lock with a counter of zero or a counter still below the limit. `LockBound` needs to know when each login read the row (`KnowsLock`): before the
lock began, or as it stands, or before its last renewal. A login of the second or third kind is refused because the lock it read outlasts it, which is
where the hypothesis is used; one of the first kind is over one login's time after the lock began, and until then it may renew.
`ExactWhenSerial` is the invariant that what the one login has read is still in the row.

ProductPublication. The invariant says what a request that is not stale knows (`Fresh`): all that it found in the rows it judged (`Judged`)
still holds of them. A write of any row makes every other request stale that has judged it (`JudgedStays`), so a request that is fresh when it
writes writes what was fit; a request that is not makes its products raced. `LimitInv` counts, for each product, its images and
the uploads between count and insertion: an upload enters only below the limit. It is stated for `n` uploads beside each other, of which
`ImageLimitKept` takes the number of all requests.

CategoryTree. What a walk has met is closed under `parent` but for the row it is about to read (`Climbed`); at its end
it is closed and without the category that is to be moved (`Above`). The step that writes changes the parent of that category alone, and a
cycle through it would have to stay in a set it is not in. `NoGhosts` (a row that is not there has no parent) and the foreign key keep
the removal of a category from mattering. `WalksAreShort` uses the same: the row a walk reads next is not one it has met, or the walk refuses.

ImageReferences. Objects are deleted by requests that have let go of their row; what such a request holds is referred to by nobody.
This needs that no two rows share an object (`Disjoint`), that what a request is to delete only its own row refers to (`Apart`), and
that a new object is one request's alone until it is committed (`Fresh`). `Kept` says who answers for each object in the bucket. Where requests do not
overlap, `AloneInv` says that the one request in progress has read all that its row refers to (`Caught`), and that a row with one image refers to one object (`OneEach`): what
a write takes from the row is then what the request goes on to delete. The refinement of ObjectLifecycle reads the
stage of an object off the same facts: what a request commits is `held` because it is `Fresh`, what it deletes is `loose` because it is `Apart`.

CatalogRecords. A request that is not stale has judged the prices the row will have (`Judged`); the candidates a search has passed over were
taken by another record when they were tried, and `SlugsDiffer` says that its own slug is none of them, as long as nobody renames the record itself.
`RoundedToNearest` is arithmetic: what is computed is the exact percentage rounded half up.

Only model-checked: liveness (`LockEnds`, `GuessingLocks`, `EveryWalkEnds`), which TLAPS does not support, and the violations of section 5.

## 7. What is not modelled

* Activity log, dashboard, listings: rows nothing decides on, or reads only.
* Mail text, SMTP, hashing, image transcoding, URLs: libraries and formatting. Their
  success and failure are steps where they matter.
* Controllers, DTOs, configuration: routing and validation. The bounds they
  enforce are the assumptions on constants.
* Legacy rows, lost COMMIT acknowledgements (section 2).
* Removing stores and brands from the rows that refer to them: it depends on the
  foreign keys of the external schema. The unique index on slugs is of that schema as well, but the code
  relies on it by catching `P2002`, and CatalogRecords models it.
* Normalising texts to slugs and parsing money: `Bases`, `Candidate` and `Prices` stand for their results. Columns of products
  that no decision reads (texts, currency, featured flag); the unique SKU is one more reason to refuse.

## 8. Plan

Done, in this order: AuthSessions (the behaviour every other part relies on),
SessionLifecycle and the refinement, LoginLockout, MailTokens, ProductPublication,
ImageReferences, CategoryTree, Accounts, the proofs of AuthSessions and Accounts; then OneTimeLinks and its refinement,
overlapping requests in ProductPublication, CatalogRecords, the liveness of the lock under guessing, and
the proofs of all the safety properties that passing runs check; then SessionEntitlement, AccountAccess and ObjectLifecycle with their proofs, the bound of
the lock, and the theorems about requests that do not overlap; then seeding runs that overlap, uploads whose answer is lost, first passwords, and what
requests one at a time may rely on in ImageReferences.

Next modules: profile images and profile changes; removing stores and brands from the rows that refer to them, once the
foreign keys are known; a COMMIT whose acknowledgement is lost, in ImageReferences.

Next proofs: what non-overlapping requests may rely on in MailTokens; the modules above. What is left of the properties
that runs check is liveness, out of the prover's reach.

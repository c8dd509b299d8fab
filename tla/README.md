# A TLA+ model of Fin-Backend

TLA+ modules, TLC configurations and TLAPS proofs for the backend under
`src/`: a NestJS service over a MySQL/MariaDB database (Prisma), a cache and an
S3 bucket.  Paths below are relative to `src/src` unless they start with
`prisma`.

The program runs on one event loop, and no service opens a database
transaction.  A request is a sequence of single queries, S3 calls, cache calls
and mails with an `await` between each two; any other request, a failure, or the
end of the process may come at each `await`.  So every module models a request
as a record that carries what the request has read, and every action is the
stretch of code between two awaits that reaches the database.  What can go wrong
here is what happens between those stretches.

## 1. Inventory

| part | state | operations | modelled in |
| --- | --- | --- | --- |
| user and root authentication (`auth/services`) | one refresh-token slot, password, reset link, status per row | login, refresh, logout, updateCredentials, requestPasswordReset, confirmPasswordReset, updateProfile, updateProfileImage | Sessions, LoginGate (the checks of login), ProfileEdits, StoredImages (the image) |
| employee authentication | session and reset columns of `employees` | the same flows; no module registers the controller | not modelled: no route reaches it |
| tokens (`auth/helper/auth-utils.ts`) | none; tokens carry subject and second | generateTokens, hashing of links, isValidOrigin, isValidIp, inCidr | Sessions, LoginGate, IpMatch |
| guards (`auth/guards`, `auth/strategies`) | none | JwtAuthGuard, IdentityProvider, PermissionGuard, RolesGuard | Sessions, PermissionCache |
| permission registry | cached permission set per actor, 300 s | getEffective…Permissions, hasPermission, hasAllPermissions | PermissionCache |
| IP whitelist | `ip_whitelists`, unique domainName | createForUser/Root, updateForUser/Root, remove, findUserWhitelist, findRootWhitelist | LoginGate |
| user and business KYC | `user_kyc`, `business_kycs`, document names | create, update, verify, delete, getAllKyc, getAll | Kyc, KycListing |
| PII consents | `pii_consents`, encrypted | create; update and delete, which look for a consent under the id of a KYC | Kyc |
| addresses | `addresses` | create, update (remove has no caller) | Kyc |
| audit log | `audit_logs`, never read back | create | Kyc (its failure only) |
| system settings | one row per root, two image names | upsert, delete | StoredImages |
| S3 | objects by key | upload, delete | StoredImages, Kyc |
| seed (`prisma/seed.ts`) | accounts, roles, wallets, lists, all by upsert | one run after another, each may end early | SeedPlan, SeedRun, Accounts |
| hierarchy (`users`) | parentId, rootParentId, role, hierarchyPath | written by the seed only | SeedRun, LoginGate, KycListing |
| mail | none | two mails of the reset flow | Sessions (goes out or fails) |
| commission settings, wallets, ledgers, refunds, roles, departments, banks, API entities | none: generated stubs or plain reads | | not modelled |
| facades, controllers, bootstrap | none | routing, wiring | not modelled |

**Interactions.**  Controllers call the auth services; these call the whitelist
service during a login, the mail service during a reset and S3 for images.
JwtAuthGuard reads the account row before each protected handler and the
handler reads it again: the row may change in between.  PermissionGuard calls
the permission registry, which goes to the cache, then to two tables at once.
The KYC services call addresses, S3, PII consents and the audit log, one after
the other, and each of those may throw after the earlier ones have written.

**Shared state, and where the behaviour is hard.**

* One row per account holds the session; login, refresh, logout, credential
  change and reset read it, wait, and write it.  They interleave.
* A token is a string of subject and *second*: two issued in one second are equal.
* The permission cache is never invalidated; two fills may overtake each other.
* A KYC filing is six writes in four places without a transaction, an update
  deletes the old document before the row names the new one, a deletion looks
  for its consents after the database detached them.
* The two replacements of an image order "delete old" and "write row"
  oppositely; one of them rolls back on an exception that may come after the
  commit.
* A login reads four facts at four moments while operators change them, and tells why
  it refuses.
* A listing is a walk and up to five queries per page, page after page, over
  tables that change.
* updateProfile looks before it writes and writes columns nobody asked for; the
  seed may end at any row and be started again, beside users who edit rows.

**What makes each part correct.**  A session does not outlive its revocation; a
rotated token or a spent link stays dead; an owner can always learn the
password of the account.  A permission is never used long after it stopped
being in force, and finally not at all.  A KYC keeps its document, its consents
and its user; an image name leads to an object and an object to a name.  An
admitted login met each condition and a refused one missed the one it was told.  An
edit is lost, and a seeded account broken,
only for a cause one can name.  A listing shows what its caller may see,
agrees with itself and loses no row without a cause.  The `hazards` of
PROJECT.json list the lines where each of these could fail.

**What is wired at this commit.**  The services do more than the routes reach.  The
models and the properties are about the services; where a path has no caller yet,
a property says what holds once it has.

* `UserKycService.create` and `update` have no caller.  `BusinessKycService.create`
  and `update` have routes, but no file interceptor, so no file arrives with them.
* `SystemSettingService.upsert` gets no files from its callers
  (`root/services/root.system-setting.service.ts:12`): today `companyLogo` and `favIcon`
  come from the DTO only, as strings, and no old file is deleted.
* No route demands a permission (`auth/controllers/user.auth.controller.ts:181` and
  `root.auth.controller.ts:186` name the guard and no permissions), so the cache of
  permissions is never filled.
* `AddressService.remove` and the employee authentication have no caller either.

## 2. The modules

Operators marked `VARIANT` are plausible slips of the operator below them (a
missing reset, a wrong unit, a dropped check).  No action uses them: they are
swapped in to see that the properties notice.  History variables record what
happened and no guard reads one, but for the bound on `era`.

### Sessions

`UserAuthService` and `RootAuthService`, whose flows are alike.  `row` is the
`users`/`roots` row; `req[w]` a request in flight; `held`, `known`, `mailed` what
the owner of the account has; `now` the clock in seconds.  A client is a browser or
device: `cookie` is the one refresh token it has at the moment, the one of the last
answer it got, while `held` are all tokens ever handed out, which somebody may
still present.

| action | code |
| --- | --- |
| LoginRead, Issue, WriteSession, Respond | login: find and check the row, generateTokens, store the hash, answer |
| RefreshRead, then Issue … Respond | refreshToken; neither status nor deletedAt is read, as in the code |
| Authorize | JwtAuthGuard and IdentityProvider before a protected handler; the strategy takes any fresh token of the account, so the refresh token is a bearer too |
| Logout, ClearCookies | logout, and its answer, which clears the cookies even when the service throws |
| VerifyCurrent, WriteCredentials | updateCredentials |
| WriteLink, MailLink | requestPasswordReset; it looks the row up by id and again by email, which is one read here |
| ConfirmRead, WriteReset, MailCredentials | confirmPasswordReset |
| EndRequest | a refusal, a failing await, the end of the process |
| SetStatus | an operator of the platform (no code here sets status) |

Hashes and ciphers are equality of what went in.  `lineage` is the revocation
count at which the login behind the stored token read its row, `crossed` the
revocations that a write of a token overtook.  Cookies last as long as the browser
keeps them; that a refresh cookie runs out after seven days, before its token, is
left out.

`AccountSession` is the abstract specification: what an owner who does one
thing at a time is promised, each operation one step.  `SerialSessions` maps
Sessions to it: the step that writes the row is the operation, all others
stutter.  The slot is the session, `lineage` the login it belongs to, `era` the
number of revocations.  The mapping holds while no two requests of an account
overlap; the properties of the concurrent run say what is left when they do.

### PermissionCache

`PermissionService`, `PermissionGuard` and `RolesGuard`, in the order of a route
that has all of them.  `CheckRole` is RolesGuard on the role that the identity
look-up of the request found.  A fill reads two tables in two
separate steps (`ReadRole`, `ReadOwn`) and stores (`Store`); `Hit`, `Miss` and
`Decide` follow `hasAllPermissions`, which looks into the cache once per
permission.  Time is relative: an entry counts down, the ages of the rows count
up to `Cap`.  A department of an employee is called a role here, as both
variants of the service have the same steps.  `Administer` changes the tables.

### Kyc

`UserKycService` and `BusinessKycService` with the address, consent, audit and S3
services they call.  A filing is `CreateRead`, `FindAddress`, `CreateAddress`,
`SafeUpload`, `InsertKyc`, `CreateConsent` (once per number), `CreateAnswer`; an
update `UpdateRead`, `DeleteOld`, `UploadNew`, `UpdateRow`, `ReadAddress`, `FindOtherAddress`,
`UpdateAddress`, `UpdateAnswer`; verification and deletion likewise.  An address is a
function from columns to texts.  An update gives some of them: `AddressService.update`
reads the row (`ReadAddress`), looks for another row with the given columns merged
over what it read, and one await later writes the given columns into the row as it
is by then, so two updates may together make a place that neither looked for.  A
business filing brings the UDHYAM number or does not, and a business
verification that is not VERIFIED keeps `verifiedAt`.  `Refuse` is
what the code itself rejects half-way, `Fail` everything else that ends a
request early; both leave what was written.  What differs between the two
services is a condition on `kind`.  Encryption is its length, since a column of
64 characters has to hold it.

`KycTable` is what a reader of `user_kyc` or `business_kycs` may rely on: one row per
user, filed as PENDING and behind all others, in its place until it is deleted, and
changed in its status by a verification only.  `KycTables` maps Kyc to two of them,
the table of business KYCs with no verification: verify stores the caller's id as
`verifiedByEmployeeId` but lets in nobody whose id is an employee's, so the foreign key
refuses every one.  The write of an update stutters, as do all stages of a request
but three.

### StoredImages

Rows that name S3 objects: `updateProfileImage` (upload, delete old, write row)
and `SystemSettingService.upsert` (upload, write row, delete old, roll back on
an exception).  A key is the millisecond and the file name, as `S3Service` builds
it.  The DTO of an upsert may name the logo itself (`sent`), with a string that is
the URL of a stored object or of none (`Foreign`): without a stored file, that string
goes into the row and no old file is deleted.  An upsert starts with a file or
without, and one whose upload fails goes on without it.  `PutUnseen` is an upload that
S3 stored and did not confirm, `AckLost` a write whose confirmation does not
arrive, `Crash` the end of the process, `DbError` an exception of a query.
`told` are the names that came from a DTO, `left` the objects that a named failure,
a deletion or a write of somebody else left behind.

### LoginGate and IpMatch

The checks of `login` in the order of the code: `FindAccount` (found, ACTIVE),
`FindParents` (the root is ACTIVE), `CheckParent`, `CheckLevel`, `CheckWhitelist`
(origin and address against the list of the account or its parent), `Admit`.  A check
that refuses notes its reason in `why`.
`CreateEntry`, `UpdateEntry`, `RemoveEntry` are `IpWhitelistService`, `SetStatus` an
operator.  `Observe` notes which conditions hold at each moment of a login: `Holds`
tells it from the tables and not from the checks.

IpMatch is what the code makes of the text of an address.  `getClientIp` turns
`::ffff:a.b.c.d` and `::1` into dotted addresses (`Normal`), a list entry stays as it was
typed; a single address is compared with it as a text, a range by numbers
(`IpToLong`: an address without dots counts as the number its text begins with) and
`inCidr`, with the cutting to `Width` bits that JavaScript's operators do.  `2 ** n`
is a recursive function, because the provers know nothing of exponents.  IPv6 ranges
are left out, as are the empty domain names that an update would accept.

### AccountTables, ProfileEdits, SeedPlan, SeedRun, Accounts

`AccountTables` holds the rows of users and roots with their unique columns.
`ProfileEdits` is updateProfile of both services: `EditRead` reads the row,
`LookUp` asks for the next of the unique values to be changed (users only), `EditWrite`
writes all five columns and may be refused by an index, `EditFails` ends the
request.  `SeedPlan` is the data of the seed, `SeedRun` one run of it: `Start`,
then one upsert per step (`Account` or `AccountRefused`, `PlantRole`,
`AssignRole`, `PlantWallet`, `PlantList`), with `Stop` at any of them.  An upsert
is one step; that Prisma finds and then creates can only make it throw, which is
`Stop`.  `Accounts` composes the two over the same tables, each step of one
between any two of the other.

### KycListing

`getAllKyc` with `getAccessibleScope`, `getTwoLevelChildren` and
`collectDescendants`, `BusinessKycService.getAll`, and a client that reads page
after page.  `Scope` chooses whom the caller may see, `Walk` is one turn of the
loop over descendants, `CountRows` and `FindRows` are the queries of an answer;
`File`, `Verify` and `Delete` change the table, and are the three steps of Kyc
that a listing can notice.  Rows of one createdAt come in any order, since
createdAt is the only sort key.  `Downline` is getDownlineUsers of
UserAuthService, which finds the same users by comparing hierarchyPath: a path
is a sequence of ids and `StartsWith` compares the last one as a string.
`Grown` says that paths are as the seed writes them.

### How they compose

The modules share tables but no steps, and each keeps what its properties need
of the others: LoginGate ends where Sessions begins (its `Admit` is
`WriteSession`), KycListing reads the table that Kyc writes (its `File`, `Verify`,
`Delete` are `InsertKyc`, `VerifyWrite`, `DeleteRow`), both use the hierarchy.
`KycTable` is the seam between the last two: Kyc implements it query by query, and the
table under a listing is a KycTable too, over the statuses of its instance, so a
listing meets no kind of change that the services do not make.
Composing these in one state would multiply the states and add no interaction
that the code has.  `Accounts` is a composition, since the seed and the edits
write the same rows.

## 3. The runs

| run | shows | states |
| --- | --- | --- |
| sessions_serial | One request at a time: Sessions implements AccountSession; a session never outlives a logout, credential change or reset, and a rotated token is never accepted again. | @serial@ |
| sessions_concurrent | Two requests of two clients at once: a session from before a revocation is alive only if a login or refresh that had read the row wrote after it; a spent link never returns; the password is known, on its way, or its mail failed; a client that can renew its session is cut off only by a revocation, by another client in the one slot, by a lost answer or by a later answer that replaces its cookie; a link ends only by a newer one or a confirmation. | @conc@ |
| sessions_overlap | **Violation.**  "logout from all devices" of updateCredentials is not kept: a refresh in flight stores a session from before the change. | |
| permissions | Two guards of one actor fill and use one entry beside every change of the tables: a cached permission was in force within the age of the entry plus the time of its fill, a handler that demands two permissions and a role runs only on evidence no older than its reads, and a revoked permission finally leaves the cache. | @perm@ |
| kyc_concurrent | Two overlapping requests on both kinds, failures anywhere: a document is lost only by an update that failed after deleting it, an address is doubled only by a race for the place or by two updates inside one row, a filing is in vain only if it overlapped another, a consent is never with a KYC that is gone or of the other kind; both services implement KycTable. | @kyc@ |
| kyc_filing_strict | **Violation.**  Under strict SQL, the default of the database in docker-compose, a filing leaves a KYC without consents. | |
| kyc_delete_keeps_pii | **Violation.**  A deleted KYC leaves its personal data behind. | |
| images | Replacements of profile images and logos, with and without a file, names sent by the client, crashes and lost answers of S3 and the database: the image of a profile is lost only by a named failure, an uploaded logo only by a lost confirmation, and an object without a name has a cause. | @images@ |
| login_gate | A login walks its checks while statuses and lists change: whoever is admitted met each condition at some moment of the login, and the reason a refused one is given is true at that moment. | @gate@ |
| listing | A client pages through either listing while the table changes: the scope is exact and agrees with the downline by paths, a quiet answer agrees with itself, what is missed or doubled has one of the named causes, the walk ends. | @listing@ |
| listing_root | **Violation.**  The scope of a ROOT is empty although users stand directly below it. | |
| accounts | Two runs of the seed that end anywhere and two edits query by query: when an edit is lost, when an index refuses a write, when a path is broken, when an account is planted twice, and what a completed run leaves without a list. | @accounts@ |

### Bounds

* *Requests at once.*  One in `sessions_serial` (that is the property's
  premise), two elsewhere: each race in this code is between one that has read
  and one that writes.  LoginGate and KycListing have one login and one reader
  among writers that act at any moment, since logins and readers do not
  disturb each other.
* *Sessions.*  Lifetimes are ticks in the order of the code.  In the serial run
  links, access and refresh tokens all expire within `MaxTime`; in the concurrent
  one a refresh token does not, which only leaves it usable.  Two revocations per
  account, because the second tells "the last" from "any".  One account: the
  steps of a request touch only the row of its account.  The concurrent run has two
  clients, so that one may take the slot of the other, and no change of status,
  which refuses requests but cuts off nobody (the serial and the overlap run
  have it).  Its VIEW leaves out what none of its properties reads, among it the
  cookie of the second client: by symmetry the first stands for either.
* *PermissionCache.*  `Cap` is one more than `TTL`: ages beyond count as "long ago".
  A row of the role grants one of the two demanded permissions and an own row the
  other, so that every mixture occurs: the rows and the actor's role change
  independently, and an entry may expire between the two checks.  Permissions are
  demanded without a service (`Service` = {}), as by the guard of a route without an id.  The clauses on a
  serviceId, in the merge and in the check, are therefore not exercised by the run:
  with one service the states are more than twice as many, and its liveness takes
  too long.  The theorems hold for any set of services.
* *Kyc.*  Three requests: a filing, and two on its result.  An address of two
  columns, a free place and one that a row of an earlier KYC has, and updates of
  one column each that together lead from the free one to the other: the race for
  a place and the merge of two updates both occur.  One user with a KYC of either
  kind; the column of a consent has its length of 64.
* *StoredImages.*  Three requests, two profiles, one setting, two milliseconds,
  two file names of clients and two of files on disk, one string that is no URL of
  a key.  So keys are equal or differ; with one name no object would stay under a
  key that was deleted and put again, a case that NoStrayObject must except.  A DTO
  may send any key, so that a setting may name an object of a profile.
* *Accounts.*  Four accounts of the plan under the root with two ways down
  from one ADMIN and two that share a port, five roles, two runs, two edits by
  the root or the ADMIN; one wish changes all unique columns, the other asks for
  the username of a row that the seed has yet to plant.
* *LoginGate.*  Addresses of three bits instead of 32, which leaves a sign bit, a
  loopback and neighbours.  A chain of three users, so that the parent of the last
  is no ADMIN, or the same with a parent on the same level and a missing one.  The
  root and the middle user are switched on and off (`Switched`), each standing
  for an account, a root and a parent.  A list entry is the empty prefix,
  127.0.0.1, or `::1` as typed; domains are one with its protocol and one without,
  on one host; clients come as `::ffff:…` and as `::1`, with the right origin, the
  wrong protocol or none.  The other prefix lengths and a client without an address
  are left to the theorems, which hold for all of them.
* *KycListing.*  Pages of one row over up to two rows give two pages and the
  empty last one; two filings, so that a deleted KYC may be filed again; two
  milliseconds, so that rows tie or not; a status that an answer counts and one
  that it does not stand for the three and two of the code; a chain of three
  users below a root, a second ADMIN beside the first whose id begins the
  other's, and a cycle.  A filing takes its createdAt with its row, in one step;
  in the code it is stamped just before, so two filings at the same moment may
  come in the other order.  "A filing comes last" is that much idealised.

Deadlock is not checked in the session runs, whose bound on revocations stops
a run: a service stops nowhere.  In StoredImages the step `Quiet` stands for
what lies beyond the bound on requests.

### Fairness

Safety runs assume none.  `FairSpec` of PermissionCache: the clock advances, and
the queries and cache calls of a request in flight return or fail (Prisma and
the cache client time out), each request on its own because the event loop
serves them all.  `FairSpec` of KycListing: the queries of a request return.
Nothing assumes that a client asks again or that an operator acts.

### Where code and words disagree

* `root.auth.service.ts:428` clears the slot with the comment "logout from all
  devices".  A refresh that compared its token before stores a new one after,
  and the old session lives on (sessions_overlap).
* `user-kyc.service.ts:386`, "Store PII Consents": the numbers are encrypted
  twice and exceed the column, so each filing fails there after everything else
  is stored, and can't be repeated as the KYC exists (kyc_filing_strict).
* `user-kyc.service.ts:696`, "Delete PII": the consent is looked for under the
  id of the KYC (kyc_delete_keeps_pii).
* `user-kyc.service.ts:254`, "ROOT → DIRECT CHILDREN ONLY": looked for under
  parentId, which names users, never roots (listing_root).

Observed while modelling, and in the model as the code has it:

* Rules 3 and 4 of login speak of the list of the ADMIN or parent; the code
  reads the list of the direct parent whatever its role, and an empty list
  throws, so the fall-back branches of rules 2 and 5 are never reached.
* `auth-utils.ts:251` and `:322` let an empty list allow everybody during
  development.  The look-up of the list throws before that, so it allows nobody.
* `@IsIP` accepts a list entry `::1` or `::ffff:10.0.0.1`, but `getClientIp` turns
  these into dotted addresses before the comparison: such an entry never matches.
  It is why RefusedForCause speaks of entries in the spelling that the checks see.
  The same decorator refuses ranges, so none comes in through the DTOs; the checks
  compare with ranges, and so does the model.
* The strategy reads nothing of a token but its subject: the refresh token opens
  every protected route for 30 days, where the access token does for one hour.
* `rootParentId` and `createdByRootId` are not nullable: NO_ROOT_PARENT and the
  branch for employees created by a user in getAccessibleScope are unreachable.
* An EMPLOYEE actor has the id of an employee, so its scope is empty; its role
  is a department, which validateRole of the KYC services does not find.  As
  business verification stores an employee as verifier, it never succeeds.
* canCreateDownline asks for roles "below this role" with a lower
  hierarchyLevel; level 0 is the top, so it finds the roles above.
* `user.auth.controller.ts:248` opens the downline to STATE_HEAD and
  MASTER_DISTRIBUTOR; the seed writes both names with a blank, so RolesGuard
  refuses users of either.
* A customerId may be shorter than its eight characters, so that one begins
  another: the downline by paths then includes a stranger's users.
* A rerun of an interrupted seed draws new ids, and writes paths below an id
  that no row has.  After a user changed only the username, every rerun fails on
  the email of that user.
* The plan gives ports 5182 and 5183 to the state heads and again to
  distributors A1 and B.  A domain has one list, so the two distributors own
  none and the retailers below them cannot log in until somebody adds a list,
  although the summary at the end of the seed names both ports among those of
  the distributors.
* Two uploads of one file name within a millisecond share an S3 object;
  deleting one image deletes the other.
* The statistics of a listing leave out UNDER_REVIEW and SUSPENDED: the shown
  statuses need not add up to the total.

## 4. Proofs

Every invariant and every action property of a run that passes is a theorem.
All theorems hold for every value of the constants, from the named assumptions of
the modules and nothing else; only the three about serial sessions have a premise.
Each has an inductive invariant, one lemma for the initial states, and one lemma
or step per action.

Three modules need induction over the naturals.  The induction theorems of the
library take the proposition as an operator, which the provers cannot instantiate,
so `Induction` says it of a set: a set of naturals with 0 and the successor of each
member is Nat, since what it misses would have a least member (WFMin).  With it a
recursive *function* can be reasoned about: tables of its first values exist, they
agree, and so the function that CHOOSE names obeys its recursion (`PowerIs`,
`ChainIs`).

**Sessions** (`SessionsProofs`, `SerialProofs`)

* **TypeCorrect**.  TypeOK alone is not inductive: that what a request writes is
  a time, a password or a link depends on its stage, so `TypeInv` adds `RequestOK`.
* **RevocationTheorem** (RevocationOnlyOvertaken).  A step of a request later
  writes what it read earlier, so the invariant says what a request in flight
  carries: `CarriedOvertaken`, that the revocations between the login behind the
  carried token and the read of the request are already in `crossed`.  Then the
  write adds exactly those since the read, and a revocation empties the slot.
* **SpentLinkTheorem** (SpentLinkIsDead).  `LinkInv` adds that spent and stored
  links were drawn: a new link is not among the used ones, so it is not spent.
* **SerialRevocation, SerialRefinement, SerialRotation**, under the premise
  `OneAtATime`, at most one slot for requests.  `SerialInv` says that what a
  request has read still holds when it writes (`ReadHolds`) and that the stored
  token is not from the future; each step then maps to a step of AccountSession
  or a stutter.  `RotationInv` adds that a token on its way to the slot is younger
  than every token its account gave up.  Two tokens of one second are equal, and
  replacing one by the other gives up none.
* **PasswordTheorem, LinkTheorem, CutOffTheorem**.  PasswordReachable is
  inductive beside the types; the other two are action properties, proved of
  every step from the types.  CutOffOnlyByNamedCause goes through the steps of
  the client's own requests: while an answer with the slot's token is on its way,
  only another write to the slot, or an end of that request, takes it away.

**PermissionCache** (`PermissionProofs`): **TypeCorrect, CacheStaleness,
GuardStaleness** from `PermissionInv`.  Besides the two properties it has
`InForceNow`, that a row in a table has age zero, and `EvidenceInv`: whatever a
guard has read, cached or passed was in force no longer ago than its age counts.
The clock step ages both sides alike, which needs that counting stops at `Cap`
on both.

**LoginGate** (`GateProofs`): **TypeCorrect, Admission, Refusal**.  `Checked`
lists per stage the conditions a login has already met; each check adds one at
the moment `Observe` notes it.  Refusal (RefusedForCause) goes through the checks
the other way: each one that refuses finds its condition broken.  Both rest on
`ListMeaning`, that the list the code walks is the one of the account's upline and
that what it accepts is what the list says (`MatchMeaning`): every accepted address
is named by an entry or shares its prefix, and every address that is plainly named
is accepted.  `CidrExact` shows that inCidr, which compares bits under a mask,
compares prefixes, for addresses of any width: cutting a number by one more
position halves it (`CutIs`), so the mask has its ones above the prefix
(`OnesOfLow`), and numbers that agree in all bits above a position are equal when
cut there (`CutEqual`, downwards from the width).

**StoredImages** (`ImageProofs`): **TypeCorrect, SettingTheorem, ProfileTheorem,
StrayTheorem** from `ImageInv`, in three layers.  `KeyInv`: a key that two uploads
did not share and no DTO named has one owner and at most one request about to
write it.  `LostInv`: whose object may be gone.  `StrayInv`: who still knows of an
object.  The middle layer needs the first: a deletion is harmless to every other
row only because nobody else names the key.  A name from a DTO is excepted for good,
since the next upload for that setting deletes whatever it leads to.

**Kyc** (`KycProofs`): **DocumentTheorem, AddressTheorem, WasteTheorem,
ConsentTheorem** from `KycInv`.  It says what a request carries at each stage:
the KYC it files for has not been filed unless since it looked (`NotFiled`); a row
with the place it looked for was written since (`AddressFree`), and so was its own
row, if it is no longer as the update read it; the consents it stores are for
a KYC of its own user (`OwnKyc`); the old document it names is that of its own KYC
(`OldOf`), and the new one is known to nobody else (`Fresh`).  `DocumentInv` is
stronger than the property, as it names the stages at which an update may have
deleted what its row still names.  **TypeCorrect** needs that no counter runs over.
`BoundInv` gives each counter a budget: what was counted, and the requests in flight
at a stage from which they still count, are together no more than the requests
accepted.  A service that filed or uploaded twice in one request would break it.
The theorem assumes that the column of a consent has at least one character.
**TableRefinement** (ImplementsKycTable): `Changes` sorts the steps by what they do to
the rows (nothing, `Inserts`, `Verifies`, `Removes`), and each maps to a step of the
table or a stutter.  `TablesInv` is the unique key and that whoever reached the write of a
verification has a role, which no employee does; a row filed later has the greater
id, whoever was faster.

**Accounts** (`AccountsProofs`), for every plan that names its users once.
**EditTheorem, ConflictTheorem, SecondRowTheorem, RefusedTheorem** from
`AccountInv`: the unique indexes hold (`UniqueInv`), a row is as planned but for its
edits (`FromPlan`), and a request in flight knows its row and that the values it
looked for are free, but for the columns others wrote since (`ReadHolds`, `Free`).
`SeedInv` says that the script still to come names an account once and that no
row of this run has its id.  **TypeCorrect** adds that what a row, a run or a table
names is a row there is (`RowInv`, `TableInv`).  **PathTheorem**
(PathBrokenOnlyByInterruption): while no run ended early and no username changed,
the first run plants every user below the row it gave its parent, with the way down
the plan as path, and later runs plant nobody (`PathInv`).  That the way of a user
is a sequence of users that ends in it is an induction over the places of the plan.
**EquipTheorem** adds `EquipInv`: the script plants
before it equips (`Orderly`, shown of the script of every plan), an account that was
met is the row that kept its username, and a port is held by the first account of
the plan that has it.

**KycListing** (`KycListingProofs`), for every finite table of users.

* **TypeCorrect**.  `TypeInv` adds which queries an answer may have left.
* **ScopeTheorem** (ScopeExact).  `WalkInv`: the scope holds descendants only, and
  the children of every user that has left the queue.  When the queue is empty the
  scope is closed under children, so it is all of them.  Nothing needs the tree to
  be one: cycles are covered.
* **DownlineTheorem** (ScopeIsDownline).  Where paths are as the seed writes them, the
  path of a descendant runs through the ADMIN, and a user whose path does is a
  descendant, by induction over the length of paths.
* **AnswerTheorem** (AnswerConsistent).  `AnswerInv`: while nothing changed, what an
  answer has counted and found is what the table has now.  The sum over the shown
  statuses is an induction over that finite set.
* **MissedTheorem, TwiceTheorem** (MissedOnlyByRemoval, TwiceOnlyByEntry).  `PageInv`
  speaks of the number of rows ahead of one: those still missing have all pages read
  so far ahead of them, and those seen have fewer, unless a row left or came in, or
  rows tie.  New filings keep the order of the older ones because the clock does
  not go back.
* **TableTheorem**.  The table under the reading is a KycTable ordered by createdAt,
  where that of Kyc is ordered by insertion; either order is that of filing.
* **ForwardTheorem**: each step of a request leaves less to do, a turn of the walk
  fewer users outside the scope.  It is what WalkEnds needs besides fairness.

**Only model-checked.**  The two liveness properties (RevocationTakesEffect,
WalkEnds), which rest on fairness and ENABLED.  What they need of safety is proved: a
cached permission was in force within the age of its entry (CacheStaleness), and a
request goes forward (ForwardTheorem).  The four violated properties are no
theorems.  That the plan of `SeedPlan` meets the assumptions of Accounts is
evaluated by TLC on the plan of its instance.

## 5. Not modelled

* The generated stubs (wallets, ledgers, refunds, webhooks, providers, …): each
  method returns a string.  Commission settings: reads and a mapping of an
  actor to a filter.  The facades of the three roles pass calls on.
* Employee authentication: a third copy of the session and reset flows, behind
  a controller that no module registers.
* The text columns of a KYC: an update writes back what it read of the
  columns nobody asked for, with the expression of updateProfile, where
  EditLostOnlyByOverlap is about it.
* Two customerIds that are equal by chance; the seed does not look for one.
* Of addresses: IPv6 ranges and empty domain names.  Of cookies: their age.  Of
  listings: the moment between the stamp and the insert of a row.
* Cryptography, mail templates, temporary files, the throttler and the cache
  library.

## 6. Plan

Done: sessions with their abstract specification, permissions and roles, KYC
with consents and documents and the table it implements, stored images, the login
gate, listings, the seed beside profile edits; a theorem for each property of a
passing run but the two of liveness.  Left:

1. That the ages of PermissionCache only count up while no row changes, which is what
   RevocationTakesEffect needs besides CacheStaleness.
2. The text columns of the KYC tables, once they are more than text; employee
   authentication, once a module registers its controller.

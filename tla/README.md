# GhanaGeo in TLA+

TLA+ models of the parts of GhanaGeo where several processes, failures or
long histories meet, with TLC configurations that check them and TLAPS proofs
of the properties that matter most. The models are of the Go code of
`services/api` and `services/worker`; `PROJECT.json` maps every definition to
the lines it stands for.

1. [Inventory](#1-inventory): the system's components
2. [Plan](#2-plan): modules, composition, order, what is left
3. [Modules](#3-modules): how each corresponds to the code
4. [Runs](#4-runs): what is checked, bounds, fairness
5. [Proofs](#5-proofs): what holds for every value of the constants
6. [Disagreements and observations](#6-disagreements-and-observations)
7. [Assumptions and limits](#7-assumptions-and-limits)

## 1. Inventory

GhanaGeo serves Ghana's administrative geography. One Go service (REST,
GraphQL and gRPC over the same use cases, any number of replicas) keeps
canonical records in MongoDB, serves search from Typesense, limits rates in
Redis, and hands slow work to worker processes through an outbox collection.
Stewards edit records and moderate changes in a console; operators publish
dataset releases from the console or from a CLI, and import sources with it.

| Component | State | Operations | Talks to | What is hard | What makes it correct |
|---|---|---|---|---|---|
| Audit log (`adapters/mongo/audit.go`, `domain/audit`) | `audit_log` rows, each with the hash of the row before | append (alone or in another component's transaction), read the chain, verify it | every mutation | replicas append at the same time; clocks differ; ids are times with a random suffix | one chain; an untouched log verifies; an append ends |
| Change feed (`transport/grpc/server.go`, `ChangesAfter`) | a cursor per stream | open, poll a page, send, resume | audit log, clients | streams break between a page and its rows; rows commit out of id order | in order, no repeats, no gaps |
| Release lifecycle (`app/dataset`, `adapters/mongo/datasets.go`) | `dataset_versions` | publish, roll back, advance, edit notes | audit log, outbox, exporter | whole documents are read first and written later; replicas and CLI overlap | one live version, always; legal statuses; every release reindexed; evidence is true |
| Export (`app/dataset/export.go`) | artifact files, catalogue entry | build | release lifecycle, disk | files and entry are separate writes | a live version's metadata describes its files |
| Outbox (`adapters/mongo/outbox.go`) | `outbox` rows with lease, attempts, retry time | enqueue, claim, complete, fail | lifecycle, worker | leases run out while a handler works; acknowledgements are late | settled once, by the last claim; retried to the end |
| Worker (`services/worker`) | the claimed event | claim, handle, acknowledge, poll | outbox, search indexing | dies anywhere | every event is handled |
| Search indexing (`app/search`, `adapters/search/typesense`) | the Typesense collection | rebuild: drop, create, read pages, import batches | records, Typesense | two rebuilds share one collection; records change meanwhile | after a rebuild the index is what the records are |
| Change requests (`app/changerequest`, `domain/changerequest`, `adapters/mongo/change_requests.go`) | `change_requests` with history, comments, revisions | submit, transition, revise, comment | audit log, console | commands are sent again; two reviewers act on one document | once per key; decisions by the assigned reviewer, on what was shown, final |
| Geography mutations (`app/geography/mutations.go`, `adapters/mongo/admin_geography.go`) | regions, districts, settlements, aliases, redirects, boundaries, idempotency claims | create, edit, deprecate, merge, aliases, boundaries | audit log, search | records are read before the transaction that writes them; a closure may run several times; a request is sent again | redirects never close a cycle; what was retired stays; once per key, with evidence; aliases and their rows agree; districts fit their region |
| Accounts and sessions (`app/account`, `adapters/mongo/sessions.go`, `accounts.go`) | accounts, session rows, reset tokens | sign in, refresh, sign out, reset | mail, audit log | parallel requests rotate one token; rows are revoked while others are inserted; mail fails late | one current token per sign-in; what was ended stays ended; no false alarm; one link, one password |
| Passkeys and TOTP | challenges, credentials, counters, backup codes | enrol, assert | accounts | counters are read, checked and written back | used once |
| Developer identity (`app/developer`) | organizations, members, invitations, applications, keys | create, invite, accept, transfer; create, rotate, revoke keys | audit log | several writes without a transaction | one owner; one membership; a rotation leaves a key |
| Admin identity and staff (`app/adminidentity`, `app/account/staff_admin.go`) | states of keys, roles and disabling of staff | suspend and revoke keys, change staff access | sessions, keys | a change of access entails revocations | nothing of a suspended principal works |
| Rate limiting (`adapters/redis/ratelimit.go`) | token buckets | take | Redis | replicas' clocks differ; buckets expire | no more than burst plus refill in any stretch of time |
| Fair use (`platform/fairuse`, `app/fairuse`) | policies, overrides, two caches per replica | resolve, invalidate, append | audit log | a load races an invalidation | what was replaced is served no longer than a cache may be old |
| API key authentication (`platform/auth`) | - | authenticate, charge | identity, fair use | revocation against requests | the allowance of the key is charged |
| Usage metering (`adapters/mongo/usage.go`) | counters | increment, report | - | - | counts |
| Ingestion (`app/ingest`, `adapters/mongo/import_runs.go`) | import runs, their ledger, places | acquire, dedupe, reconcile, import | files, records | imports of one file overlap, die and are repeated; stewards review meanwhile | a run that succeeded is complete; every record once; reviews stand |
| Seed data (`app/seed`) | records | load, verify | files | - | checksums |
| Geography reads, search queries, dashboards (`app/geography`, `app/search`, `app/adminops`) | - | queries | records, Typesense | - | pure functions |
| Transports (`transport/*`) | - | decode, authorise, map errors | all use cases | idempotency keys, expected versions, cookies | see the use cases |
| Schema (`adapters/mongo/migrate.go`) | unique and expiring indexes | - | all repositories | the last line of defence of several races | see the components |
| Operator CLI (`cmd/ghanageo-admin`) | - | publish, rollback, export, reindex, import | use cases | records evidence after the fact | see the components |
| Console, website, portal, SDKs | - | call the API | API | - | - |

Status of each, with what is left out of it, is under `components` in
`PROJECT.json`; the code lines where something can go wrong that a test would
hardly reach are under `hazards`, each with the properties about it or the
reason there is none yet.

## 2. Plan

The order puts first what everything else leans on (the audit log is appended
by every mutation), then what the public sees, then the asynchronous half,
then what stewards, account holders and operators do.

| # | Module | Role | State |
|---|---|---|---|
| 1 | `AuditLog` | the chain of appends | done, proved |
| 2 | `ChangeFeed` | EXTENDS `AuditLog`: streams over the log | done, proved |
| 3 | `PublicCatalogue` | abstract: what the public sees of releases | done |
| 4 | `DatasetRelease` | release lifecycle and export; refines `PublicCatalogue` | done, proved |
| 5 | `WorkQueue` | abstract: what the outbox promises | done |
| 6 | `Outbox` | leases, retries, workers; refines `WorkQueue` | done, proved |
| 7 | `SearchPipeline` | EXTENDS `Outbox`: releases to search index | done, proved |
| 8 | `ChangeRequest` | moderation with idempotent commands | done, proved |
| 9 | `GeographyMutation` | edits, merges, aliases and boundaries under idempotency claims | done, proved |
| 10 | `Sessions` | sign-in, rotation, replay, epochs, resets, staff access | done, proved |
| 11 | `DeveloperIdentity` | invitations, ownership, key rotation and suspension | done, proved |
| 12 | `FairUse` | resolver caches against invalidation; bucket against clocks | done, proved |
| 13 | `ImportRun` | the run ledger under overlapping, cut-off and repeated imports | done, proved |

Compositions: `ChangeFeed` runs every step of `AuditLog` next to its own;
`SearchPipeline` conjoins its steps with those of `Outbox` (a rebuild is the
body of a handler; `Publish` is the enqueue that `DatasetRelease!Activate`
commits). `DatasetRelease`, `ChangeRequest` and `GeographyMutation` only name
the audit row their transactions append: that a row and its mutation commit
together is their guard, how rows of different transactions order themselves
is `AuditLog`. `GeographyMutation` uses the consequence `AuditLog` proves: of
two transactions that append from one snapshot, one is run again.

Every safety invariant and action property that a run checks, and both
refinements, are theorems; what is left to TLC alone is liveness. Left to model:
registration, verification of addresses and the lockout after failed sign-ins;
enrolment and the counters of passkeys and TOTP.

## 3. Modules

### AuditLog

`log` is the committed collection, `clock[w]` the wall clock of a process,
`op[w]` its append in flight: `auditAppendMu` (audit.go:24) admits one per
process. `Begin` enters `Append` or a transaction, which fixes a snapshot
(`seen`); `Stamp` assigns `At` and the id; `ReadTail` is `tailHash`, on the
snapshot in a transaction and on the newest data outside; then the insert
succeeds (`InsertOne`), or breaks a unique index. A duplicate that was
committed after the snapshot is a write conflict, on which the driver runs the
closure again (`RetryTransaction`); any other is a duplicate key error, which
ends the append (`FailAppend`). `Abandon` is a crash or a cancelled request.
A digest is the id of the row it is of, SHA-256 being taken as injective.
`VerifyChain` is the walk of `domain/audit` over the rows in sort order; it is
written as a condition on each row, so that no recursion is needed.

### ChangeFeed

One stream per client: `Open` (with the last cursor the client received, else
at the newest change), `Poll` (a page after the cursor), `Send` (a row, and the
cursor moves), `Break` (what was read and not sent is dropped). `since` is
history: the length of the log when the client subscribed. `FeedInv` is the
invariant of the proofs.

### PublicCatalogue and DatasetRelease

`catalogue` is `dataset_versions`, `files` the bytes on disk by the export that
wrote them, `outbox` the events, `evidence` the audit rows, `op[p]` the use
case a process runs with what it has read so far. Publish and rollback:
(`CheckReady`, of the console only) `GetTarget`, `ListLive`, `Activate`. Advance
and notes edits: `GetForEdit`, `UpdateAudited`. Export: `WriteFile` once per file,
`UpsertRelease`. `Activate` writes whole documents as they were read, over
whatever the collection has by then, under the partial unique index on
`published`: this is what the code does and what makes stale reads matter.
`Fail` and `Crash` can end a use case before any step. The CLI's `RecordAudit`
is a separate step after the use case. A version may be exported any number of
times: its files are overwritten one by one and its entry last. `contested` is
history: the versions of which an export met another use case that writes or
holds their artifacts (`WorksWith`), or was cut off over files that are described.
The abstract `PublicCatalogue` says what a reader of `GET /datasets` may see, and
that only an export takes a dataset away: `Catalogue == INSTANCE PublicCatalogue
WITH current <- Live(catalogue), exporting <- Exporting`.

### WorkQueue and Outbox

A row counts down to its `availableAt` (`wait`) and to the end of its lease.
`Claim` takes the claimable row with no claimable row ahead of it, counts an
attempt and leases it; `Handle` is the return of the handler; `Complete` and
`Fail` acknowledge under the filter `status = processing /\ lockedBy = w`
(`Owns`), and do nothing to the row when the lease was lost. `Crash` stands for
a death, a shutdown or an acknowledgement that does not get through. `Tick`
passes one unit of time for every row. The claim order (`availableAt`, then
`createdAt`) is kept as the set of rows ahead of each row, which stays meaningful
after both have counted down to zero. `WorkQueue` has an event absent, open,
done or dead, and lets it be settled once.

### SearchPipeline

Every HTTP request of a rebuild is a step: `Drop`, `Create`, `ReadPage`,
`ImportBatch`. `FailRebuild` is a request that fails, whether the server served
it or not. `Change` edits a page of canonical records, or empties it (a merge).
Rebuilds are run by workers, inside `Handle`, and by the CLI, without an event.
`last` is history about the rebuild begun last: has it, or one since, ended well, which
pages changed since, was another under way, was it begun under a lease.

### ChangeRequest

A command carries an `Idempotency-Key` (its number) and the version the client
was shown. It may be sent several times, and its attempts run in any handlers at
the same time: `ReadForUpdate` reads and decides, `AtomicAppend` writes under the
version filter with its audit row, `ReadAgain` tells, after a lost race, a replay
from a conflict, and answers a conflict too when the document cannot be read
(`getErr != nil`); `unread` is history: the commands that were so answered.
`FindExisting` and `Create` are the submission, under the unique
index on the request id. `Deny` and `FailWrite` are refusals and failures.
`IssueUpdate` is a client acting on the document as it is shown; `seen` is the
number of revisions it was shown, which the code does not send and only
`DecidedAsSeen` reads. `RequestInv` and `EffectInv` are the invariants of the
proofs.

### GeographyMutation

`rec` stands for all canonical collections: a record has a status, a required
and an optional field, the aliases embedded in a place and a boundary (a set of
cells). `alias` is `place_aliases`, one row for each request that makes one,
`redirect` is `place_redirects`, `key` is `admin_mutation_keys` with the
evidence that fingerprints a request. A client `Ask`s, and its request arrives
at a handler, perhaps several times. What a use case reads before its
transaction: the record of an edit (`ReadForEdit`), the boundary and its ETag
(`ReadBoundary`), the region's boundary for a district's (`ReadParent`);
`Receive` is a use case that reads nothing first. `Mutate` is one run of the
closure of `atomic`: claim the key, check and write; `Commit` is its end with
the audit row, `RunAgain` the driver's repetition when another audit row was
committed meanwhile. `matched` is the variable that the closure of
`atomicGeometryCAS` sets and that outlives a repetition. `Fail` is an abort for
good or a death, `Expire` the index that drops a claim after a day. An edit
writes the whole record as it was read (`Edited`), a blank or empty field being
left out by `mergeFields`; `torn` is history: the records whose aliases such a
write took back.

### Sessions

A session token is the number of its row in `row`; `Rotate` is the transaction
that supersedes a row and inserts the next of its `chain`. `account` has the
role, the disabled flag and the epoch; `reset` is the one reset row of an
account, `inbox` what mail delivered, `jar` the cookie of each browser. A
request is `Send`t and then goes through its calls of the database one by one:
`Find` and `Authenticate` are `resolve` and `Authenticate` up to the rotation,
`Alarm` and `AlarmPurge` what a superseded token sets off; then the action:
`FindForLogout` and `Revoke`, `BumpEpoch` and `Purge`, `ReadStaff`, `WriteStaff`
and `Purge`. `CheckPassword`, `CreateSession`, `CheckFactor`, `Elevate` and
`Spend` are the sign-in with its second factor. `ReadForReset`, `IssueLink`,
`Mail`, `Release`, `ReadLink` and `Consume` are a password reset from request to
redemption. `Fail` may end any of them; calls whose errors the code drops may do
nothing. `requireSession` only writes the header of the new cookie; it leaves
with the response, after all that the request does, and so does `Answer`: until
then the browser sends the old token. `Answer` reaches the browser or is lost; a
request that `resolve` turned away is `refused` and clears the cookie. Sign-ins
and single logouts set the cookie in their last step instead: nobody knows the
token of a sign-in before, and a logout only clears. A request takes at most
`Arriving` to be read, and an answer at most `Answering` from the rotation it
reports; the account of one that is later, or lost, is `excused`. `Mail` that
fails has delivered nothing: a provider that delivers and then reports an error
is outside the model. `ends`, `proof`, `since`, `spent`, `crossed`, `alarmed`
and `excused` are history that the properties compare: `ends[a]` counts the
times all sessions of account `a` were ended, `proof` of a row is that count
when the password or the second factor behind the session was checked, `since`
of a request the count when it was sent. `SignInInv` is the conjunction of the
invariants of the proofs.

### DeveloperIdentity

One organization with one application. `CreateOrganization` and
`CreateApplication` make them; `Authorize` is `requireRole`;
`CreateInvite`, `RevokeInvite`, then `ReadInvite`, `AddMember` and `Accept` are the
invitations; `Transfer` is the filtered update of `TransferOwnership`. Keys:
`ReadKey`, `CreateKey`, `RevokeOld`, `Undo` and `AnswerKey` are `RotateKey`, call
by call; `RevokeKey` is the developer's revocation, `SetKeyState` the operator's
transaction. `held` is history: the secret was answered; `excused`: a key was
taken away on purpose, an answer was lost, or a failed call had taken effect.

### FairUse

`policies` and `grants` are the two collections in the order of their commits,
`cache[r]` the resolver of a replica. A request goes through `Arrive` and
`ReadPolicy`, `StorePolicy`, `CheckGrant`, `ReadGrant`, `StoreGrant` (the two
caches, each read under the lock and stored after an unlocked load), `Decide`
(the ceiling on costs, and the replica's clock for the charge) and `Charge` (the
script, which Redis runs at once) or `Degrade` (Redis is down).
`ProposePolicy` and `PersistPolicy`, `ProposeGrant` and `PersistGrant` are the
appends, `Invalidate` what follows on the same replica, `Restart` an empty
cache, `Expire` the bucket's. `excess` is history, kept like the level of a leaky
bucket: the most that was charged, in any stretch of time up to the latest
charge, beyond what came in during it (`Income`): the refill, and for each expiry
what the refill misses of the largest burst in the life of a bucket (`Early`),
as the bucket that is made after it is full. `Early` is zero for allowances that
refill before they expire; nothing makes them. `began` of a request and `appended` of a change
are true times, which no replica knows. `FairUseInv` is the invariant of the proofs.

### ImportRun

`run` is the row of `source_runs`, `source` the rows of `source_records`,
`place` the places, `proc[p]` a process that runs the command. `Queue` and
`ReadRun` are the upsert and the return for a run that succeeded, `Start` and
`CheckStarted` the two halves of `Start`, `Look` the check of the existing
place, `Commit` the transaction of a record, `ReadComplete` and `Finish` the two
halves of `Complete`, `FailRun` is `failRun`. `CommitFails`, `CallFails` and
`Crash` end them anywhere, `CommitFails` with or without an effect. `Review` is
a steward. `covered` is history: the limit of the import that completed the run.

## 4. Runs

| Run | Question | Bounds, and why they are enough |
|---|---|---|
| `feed` | Is the log one chain, does it verify when ids commit in order, does every append return, and does a client that loses its stream miss or repeat anything? | 2 writers, 3 rows, 2 milliseconds, pages of 1, so that there are several pages; any number of breaks. A fork needs 2 writers and 1 row; a hidden tail needs 3 rows. |
| `audit_disorder` (violated) | Does an untouched log always verify? | 1 writer: no second replica is needed. |
| `release` | Do reviews, edits, export and publication of a version respect each other, and is what the public sees replaced in one step? | 2 processes. Scenario `gate`: 1 version, 6 use cases (notes, three steps of the gate, an export and a publication), 2 files, so that a builder can die between them. Scenario `public`: 2 versions, 5 use cases: export and publish both, restore one. Scenario `again`: 1 version, 5 use cases, 3 exports, so that a live version is exported again, is published again, and a third export is cut off over it. Checks the inductive invariant of the proofs. |
| `search` | Are events settled once, by their last claim, and always? Is the index what the records are after a rebuild that was alone, and is a rebuild that was cut short redone? | 2 workers, 2 attempts. Scenario `index`: 1 event, a CLI, 2 pages, 1 change, 1 fault; two pages are needed to lose one. Scenario `queue`: 2 events, 2 faults: a lost lease, its late acknowledgement and a death after it. |
| `changereq` | Does each command take effect once, are decisions sound? | 3 commands, 2 unanswered at a time, 1 resend, 2 handlers, from an empty collection, a proposal under review and a revised one: a race between two actors, with a resend of either. |
| `geography` | Do redirects lead somewhere, does what was retired stay so, does each request take effect once, do aliases and boundaries agree with their rows and regions? | 3 requests out of a menu of 17, 2 unanswered at a time, 2 handlers, 1 resend, 1 expired claim: a cycle needs 2 merges, a stale edit an edit and 1 other request. 3 places, so that a merge can meet a third. |
| `geography_boundary` (violated) | Is a boundary that was answered as saved saved? | The same instance. |
| `sessions` | Has each sign-in one current token, does what was ended stay ended, is there no false alarm, does a link change one password and stand until it is used? | 3 handlers. The grace is 1 tick, all of it for the answer (`Arriving` 0, `Answering` 1). Scenario `tabs`: 4 parallel requests of one browser in 3 ticks, uses and logouts everywhere; `resets`: a reset around a sign-in, 4 requests; `links`: 5 requests, 2 links, 3 ticks, so that one is lost, released and issued again; `staff`: two operators, 3 requests; `factor`: a privileged sign-in that is completed while its sessions are ended or logged out, 4 requests. |
| `developer` | Is there one owner, one membership, by the accepted invitation, and a usable key after rotations? | 3 accounts, 2 handlers. Scenario `founding`: from nothing; `members`: 6 requests (two invitations, two acceptances, two transfers); `keys`: rotations of one key that overlap and fail, revocations and suspensions. |
| `fairuse` | Does a request go by what was in force a cache lifetime ago, and is a bucket's rate kept? | 2 replicas, one clock ahead of the other, 2 handlers. Scenarios `policies` and `grants`: 2 changes around 2 requests, 3 ticks; `charges`: 4 charges in 4 ticks, enough for several expiries between them, each of a bucket that is not full again (refill 2 in its life, bursts 3 and 4); `changes`: every kind of step, one request at a time. |
| `import` | Are the counter and the ledger of a run one, is a run that succeeded complete, does a repeated import end? | 2 processes, 3 records, one rejected, with `--limit` 2 or none, 2 faults: a death and a failure after it. |
| `import_review` (violated) | Does an import leave a reviewed place alone? | 1 process, 1 record, no fault. |

A scenario of an MC module restricts what is asked for, in one behaviour, to
one group of operations; every scenario runs under the same specification, with
the same steps, and the properties hold over all of them.

`CHECK_DEADLOCK FALSE` is said in the runs `release`, `changereq`,
`geography`, `geography_boundary`, `sessions`, `developer` and `fairuse`, where
the bounds on use cases, requests and time end every behaviour. In the others there is always
a next step: `Quiet`, `Poll` and `Break` are the polls and idle steps of the code,
and the command of an import can be repeated for ever.

**Fairness.** `AuditLog` and `ChangeFeed`: an append that was begun and is not
cut off goes on (`WF` on its steps; a closure runs until it returns); the client
comes back and the server's ticker goes on (`WF`, and `SF` on poll and send,
since streams may break again and again but not each time before a row gets
through). `Outbox`: `Run` polls for ever, a handler returns, what it returned is
acknowledged, time passes; nothing forces a handler to succeed, a worker not to
crash or a lease not to be outrun, and `MaxFaults` says that the last two happen
finitely often, without which an event may be claimed for ever (see section 6).
`SearchPipeline`: the same, with the steps of a rebuild in place of the handler.
`ImportRun`: a process that runs the command goes on (`WF` on its steps), and
the command is repeated (`WF` on `Begin`), which is the operator's part: nothing
in the code restarts an import that died. The other specifications state no
fairness, and safety only is claimed of them.

**Mutants.** Every property of a passing run has a mutant in `PROJECT.json`: an
operator next to the original (`Claimable_AnyLease`, `Matches_NotesOnly`,
`Conflicts_Never`, ...) that replaces it the way a plausible bug would, and makes
TLC find the property violated in the same run.

## 5. Proofs

All proofs hold for every value of the constants (any number of writers,
processes, workers, versions, events, pages), under the named assumptions of the
modules, which TLC evaluates on every run. Each is by an inductive invariant
that TLC checked first.

**`ChangeFeedProofs`**, of `AuditLog` and of `ChangeFeed`. `TypeCorrect`: the
state stays well typed. `LogIsOneChain`: every row links to the row committed
before it. The chain is not inductive by itself: `ChainInv` adds that ids are
unique and that an append about to insert links to Genesis or to a committed
row. Then every row but the last has a child, so an insert that breaks no unique
index can only link to the last (`InsertLinksToLast`), whatever tail it read.
`OrderedLogIsSound`: if ids are in commit order, sort order is commit order, so
the chain verifies and the newest row has no child.

What the chain is for is stated of the rows as they may be read back later, not
of the log itself: a table of stored rows is any set of positions, digests and
links in which `_id` is unique and no row forges a digest the log wrote
(`IsStored`, which is what SHA-256 and the recomputed `Hash` of `VerifyChain`
give). `TamperingShows` (`HistoryIsTrusted`): if such a table verifies, then up
to any row that the log wrote it is the log, with nothing edited, inserted or
removed; "the row before the break is the last one that can be trusted". The
walk goes back from that row one link at a time (`WalkBack`), and the least row
it reaches is the first. `OnlyTheEndGoesUnseen` (`RemovalsShow`): of the log's
own rows only a first part verifies, so the chain does not show that the newest
rows are gone; the code has no anchor outside the table that would.
`UntouchedTableVerifies`: neither says nothing, as what the log wrote is such a
table. No run states these three, whose quantifier ranges over all tables.

`FeedRunsTheLog`: a stream
is only read from, so the log's theorems hold next to streams. `FeedIsSound`,
the invariant `FeedInv`: the cursor is the last id received, a page holds what
follows it in order (`CursorInv`), and in an ordered log nothing is missing
before the cursor or between it and a row of the page (`PageHasNoGap`). A page
is chosen as the sequence that lists a finite set of ids in order; that there is
one is proved from the ranks of the ids, which are the numbers from zero on
(`Precedes` is a strict order). From it `ChangesComeInOrder`
(`ReceivedInOrder`), with no hypothesis on clocks, and `OrderedFeedIsComplete`
(`OrderedFeedHasNoGap`): a row appended to an ordered log comes after every
cursor that was taken from it.

**`DatasetReleaseProofs`.** `TypeCorrect`, and `LifecycleIsSound`, the invariant
`LifecycleInv`: at most one live version; a live or superseded version has its
event; what a use case has read and still holds passed its checks, and is about
files that were written. The last parts are needed because
`Activate` writes back documents read long before: without knowing what is held
nothing can be said of what is written. From it `AtMostOneLive`,
`EveryReleaseHasEvent`, `AlwaysALiveVersion` (`StaysLive`: only the end of an
export of the live version leaves none) and
`CatalogueRefined`: the lifecycle implements `PublicCatalogue`.
`DownloadsAreDescribed` (`DownloadsMatch`) needs `DownloadsInv`, which says of
each version that is not contested that an export has written the files it
counts and, while none has, that not only the catalogue but every document that
is held describes the bytes on disk, since any of them may be written back. No
number of exports is assumed: an export that met nobody ends with the files it
wrote, and one that met another use case contests the version.
`GateRowsAreTrue` (`EvidenceIsTrue`): `RowsInv` says what a use case will record
at its end.

**`SearchPipelineProofs`**, of `Outbox` and of `SearchPipeline`.
`OutboxIsSound`, the invariant `OutboxInv`: a worker whose claim still owns its
row made the row's last claim (`ClaimsAreCurrent`), and dead rows are exhausted.
The first part is what makes `lockedBy` enough as a fence: a worker handles one
event at a time, so it cannot claim a row again before it has let go of the
earlier claim. From it `NoEarlyBurial`, `LateAcksAreHarmless` (`AcksAreCurrent`)
and `OutboxIsAWorkQueue`, the refinement of `WorkQueue`.

`PipelineRunsTheOutbox`: every step of the pipeline is a step of the outbox or
leaves it alone, so that the outbox's theorems hold of it. `SettledStaysSettled`
puts them together for the pipeline: it implements the work queue, and so an
event that is done or dead stays what it is (`SettledForGood`), whoever
acknowledges it late. `SearchTypeCorrect`.
`LoneRebuildsStayAlone`, the invariant `LoneRebuildInv`: if nobody was
rebuilding when the last rebuild was begun, it is the only one until it ends,
and what it has read (`Progress`) and imported is what the records were, but for
pages changed since. From it `LoneRebuildsAreTrue`. Two rebuilds that overlap
are why the hypothesis is needed (section 6).

**`ChangeRequestProofs`.** `RequestsHold`, the invariant `RequestInv`: while a
document has the version a client was shown or a handler read, it is the
document they know (`CommandsHold`, `Decided`), and a document in review or
decided is so by a reviewer who took its last revision into review
(`ReviewHolds`). Versions only grow (`DocsGrow`), so an attempt whose filter
matches writes over exactly what it decided on; without that nothing could be
said of a transition that was legal when it was read. From it
`RequestsAreTyped`, `DecisionsAreAsSeen`, `DecisionsAreByTheReviewer` and
`DecisionsAreFinal` (`DecisionsStand`). `EffectsHold`, the invariant `EffectInv`
on top of it: every entry of a document is of a command that expected an earlier
version (`EntriesHold`), and its audit rows are one for each version, of the
commands it took, in that order (`RowsHold`). A command that was taken is
therefore stale wherever else it is tried, which is why `CommandsTakeEffectOnce`
(`OncePerKey`) needs no lock between two attempts of one command, and
`MutationsAreEvidenced` (`EvidenceIsPaired`) no more than the transaction. A
conflict is answered only to a command whose version is past and which, unless
the document could not be read again, is not among those taken
(`ConflictsHold`); versions only grow, so that it is never taken:
`ConflictsAreFinal` (`ConflictsAreTrue`). No run states `RequestInv` or
`EffectInv` themselves, which the theorems cover for every instance.

**`GeographyMutationProofs`.** `OnceWithEvidence`, the invariant `MutationInv`.
That a request takes effect once needs two facts about what the code cannot see
at once. `SnapshotHolds`: what the run of a transaction found (its key
unclaimed, its record as it must be) holds until another transaction commits,
and then this one is run again. `EffectStays`: whatever took effect has left
something behind that refuses it the next time (`Spent`): the claim, and for all
but edits also the record or the alias row, which is why an expired claim
matters to edits alone. From it `RedirectsEnd` (`RedirectsLead`: a merge commits
only if its target is not merged at that moment, so no set of merged ids becomes
closed under redirects), `RetiredForGood` (`RetiredStays`) and `AliasesStayTrue`
(`AliasesAgree`: one row per alias, so a change to one leaves the others as they
were listed). `DistrictsStayWithin` (`DistrictsFit`) has an invariant of its
own, `FitInv`: what an attempt compared stays true until it commits (`Fits`),
because the boundary of a region that is not edited can only change when the
region is created, from nothing.

**`DeveloperIdentityProofs`.** `OneOwnerAlways`, the invariant
`OrganizationInv`: beside the owner and the members themselves it says that an
organization was founded before anything refers to it (`Founded`) and that a
handler still holds the invitation and the account it was asked about
(`RequestsMatch`). The transfer of ownership is one filtered update, so that two
at a time cannot both match. `AcceptedIsJoined` (`AcceptanceIsTrue`): an
accepted invitation has its member, as members never leave.
`RotationsKeepAccess` (`RotationKeepsAccess`) has the invariant `AccessInv`.
That a usable key is left is not inductive, as two rotations of one key may
revoke each other's chances in any order: what is, is that a key which is
revoked and was shown, or is about to be, has a later one that is not revoked
and that only a lost answer can keep from the developer (`Succeeded`). Keys
being finitely many, the replacements of a key end at a usable one. The other
half of the property rests on a rotation's answer coming after its revocation
(`KeyRequest`).

**`SessionsProofs`**, in the parts of `SignInInv`, each on top of the types
(`TypesHold`). `OneTokenPerSignIn` (`SessionInv`), from `ChainInv`: a row is
superseded in the transaction that inserts the next, so that a chain has one row
that is not. `EndingsHold` (`EndedStaysEnded`), from `EpochInv`: the epoch of an
account counts its endings, and the epoch of a row is that of its account when
the session was proved, so that equality of the two, which is all the code
compares, means that nothing was ended since. `AlarmsAreTrue` (`NoFalseAlarm`)
needs two more: no two browsers hold one token (`HolderInv`, with `AnswerInv`
for tokens on their way), and a browser that had all its answers holds the
current one, or waits for the answer of the rotation that superseded the one it
holds (`Waits`), or sent its request before that rotation was answered
(`GraceInv`). The answer takes at most `Answering` and the request at most
`Arriving`, and both together at most the grace (`PromptAssumption`).
`LinksAreSpentOnce` (`ResetOnce`), from `LinkInv`: no two rows have one link, a
link in the post is in no inbox, and a spent link's row is used until it is
issued anew. `DeliveredLinksStand` (`DeliveredStands`) is an action property: a
failed delivery releases the row of its own link alone.

**`OperatorProofs`**, of `ImportRun` and of `FairUse`. `LedgerIsSound`, the
invariant `ImportInv`: the counter of a run is the number of its rows, and what
a process has passed over is in the ledger (`NoneLeftBehind`), however many
processes import one file. `SuccessIsComplete` (`SucceededIsComplete`) follows:
only `Finish` sets a run succeeded, at the end of a pass, and no step takes a
row back. The index that expires rows after 90 days is not a step of the model:
the theorems are about the ledger before that.

`FairUseIsSound`, the invariant `FairUseInv`. For the caches: whatever a load
found covers all that was appended before the load began and in force by the
replica's clock, in the handler (`LoadInv`) and in the cache (`CacheInv`),
however old or new what it overwrites; the age of an entry counts from the same
moment, so what is fresh covers what was in force `CacheTTL` ago
(`FreshPolicyIsKnown`). The clock of a replica may be off, but not change its
error, or the age is not one. That what the code's sorts put first is there at
all is an induction over a finite set, done here by the least number of elements
below (`LargestOf`, from the well-foundedness of the naturals). From it
`AllowancesAreRecent` (`AllowanceIsRecent`). For the bucket: what it holds and
what was charged beyond the refill are together no more than the largest burst
(`LevelInv`), through any changes of the allowance; after an expiry the excess
has drained, but for `Early`. From it `BucketsHoldTheirRate` (`BucketInv`). There
is no assumption on how bursts, refill and life of a bucket relate: the theorem
says exactly how much a bucket that expires before it is full gives away.

TLC only: liveness (`AppendsReturn`, `OrderedChangesArrive`, `EventsSettle`,
`SearchReturns`, `ImportsFinish`), which is beyond the installed provers.

## 6. Disagreements and observations

Where a run shows that the code does not do what its comments or contract say:

- **An untouched audit log can fail verification** (`audit_disorder`). Ids are
  milliseconds with a random suffix, so two rows of one millisecond may sort
  against their commit order. `Chain` then walks them in the wrong order, and if
  the row that sorts last already has a child every later append, and with it
  every mutation of the platform, fails on the unique index. `OrderedLogVerifies`
  and its proof say that this is the only way.
- **A boundary can be answered as saved that was not** (`geography_boundary`).
  `matched` is declared outside the closure of `atomicGeometryCAS`
  (`repositories.go:426`) and survives a run that was rolled back: when the
  second run matches nothing, the empty transaction commits and the answer is
  still that of the first, with no audit row.
- **An import can take back a review** (`import_review`). Whether a place was
  reviewed is read before the transaction that replaces it
  (`reconcile.go:132`), so a review between the two is overwritten.

Met while reading, without a run of their own. Releases and search:

- Exporting the live version unpublishes it: `BuildWithChangelog` upserts the
  entry as approved, whatever it was (`export.go:229`): the one exception of
  `StaysLive`. While it runs it overwrites the files of the live version one at a
  time before the entry follows (`export.go:277`), so downloads do not match
  their digests; cut off, it leaves them so; and a publication that read the
  version before the export ended writes the old entry back over the new files.
  `DownloadsMatch` excepts these (`Overwritten`, `contested`) and holds of the rest.
- An export approves what it built without the review gate (`export.go:220`).
- A publication can undo a notes edit without evidence: `activate` writes the
  whole document read before the transaction (`datasets.go:254`).
- `UpdateAudited` compares two fields and replaces the whole document
  (`datasets.go:193`): artifacts recorded by an export in between are lost when
  status and notes happen to agree.
- Overlapping rebuilds lose documents and report success: nothing excludes a
  second rebuild of the one collection (`search.go:194`).
- A worker that lost its lease before it dropped the collection, and then fails,
  leaves search without an index until the next release or a manual reindex:
  `SearchReturns` promises nothing there (`typesense.go:132` calls it "a brief
  window with no search").
- Attempts are compared with the maximum only by `Fail` (`outbox.go:68`): an event
  whose handler always outlives its lease, or kills its worker, is claimed for ever.
- A row that commits with an id before a client's cursor is never sent to it
  (`audit.go:225`): `OrderedFeedHasNoGap` has the order as a hypothesis.
- The CLI's evidence is a separate append whose failure is only a warning
  (`main.go:1220`).

Change requests and geography:

- An attempt that loses the race against another attempt at its own command, and
  then cannot read the document again, answers "The change request changed" for
  a command that took effect (`app/changerequest/usecases.go:177`, `:220`, `:259`):
  `ConflictsAreTrue` excepts these commands (`unread`). Sending the same command
  again answers its result; refreshing and deciding anew does not.
- A committed comment is refused when it is sent again after the decision
  (`app/changerequest/usecases.go:241`).
- An edit that was committed is refused when it is sent again: the fingerprint of
  its claim contains the record as it is read again, which the first attempt
  changed (`mutations.go:358-390`; the contract, `v1.yaml:1256`, promises the same result).
- A PATCH that clears an optional field leaves the stored value, as blank fields
  are not written (`mutations.go:392`, `repositories.go:294`); an edit also
  writes back what it read, over edits of other fields (`mutations.go:372`) and
  over aliases added meanwhile: `AliasesAgree` excepts the latter.
- An alias that was deprecated cannot be made again: the unique index counts it.
- An edit of a region's boundary checks none of its districts, and an edit of a
  district may move it to another region without comparing boundaries:
  `DistrictsFit` has the first as a hypothesis, and the model leaves `regionId`
  alone.
- Most mutations that fail leave no audit row, although `mutations.go:267` says
  "including the ones that fail". `DeprecatePlace` (`mutations.go:545-623`) has no route.

Accounts, developers, fair use:

- A logout that overlaps with a rotation revokes the superseded row, and the
  session goes on with the new one (`app/account/usecases.go:545-553`).
- A rotation is in force at its commit, but its cookie leaves with the response,
  after all later calls (`auth_account.go:346`). A handler may take longer than the
  grace of 15 s for them (`WriteTimeout` is 30 s, `cmd/api/main.go:208`): a request
  of another tab with the old token then sets the alarm off and signs the account
  out everywhere, though nothing was lost. `NoFalseAlarm` excepts such answers (`Late`).
- `CompleteTOTP` and `RecoverMFA` only look the pending session up, without the
  checks of `Verify`, and make a new session of the epoch the account has then: a
  pending sign-in whose row an ending has not revoked yet can be completed after it.
  `EndedStaysEnded` therefore counts from the second factor where there was one.
- `ConsumePasswordReset` matches the row of the account, not the link that was
  redeemed: `ResetOnce` excepts a submission under way while the row was issued anew.
- `RecordFailedLogin` (`accounts.go:190-213`) says that increment and lock are
  one update; they are two. The counters of passkeys and codes, and recovery
  codes, are read, checked and written back.
- `VerifyEmail` says that the user can ask for another link
  (`usecases.go:236`): only registration sends one, and a second registration
  of the address sends none.
- Two operators can disable or demote each other at the same time
  (`staff_admin.go:44`).
- An acceptance that ends between `AddMember` and `Accept` cannot be repeated
  (the member is there already), and an invitation that was revoked meanwhile
  may still have added its member.
- Two rotations of one key leave two live keys, and a revocation concurrent with
  a rotation leaves its replacement alive; `Revoke` overwrites `revokedAt`.
- The policy's revision is compared with the policy in force, outside the
  transaction, so that appends can be out of order (`app/fairuse/usecases.go:62`).
- A replica whose clock is behind sets the bucket's time back, which lets the
  difference come in twice (`ratelimit.go:47`, `:56`): `BucketInv` has the order of
  charges as a hypothesis. Invalidation reaches the replica that made the change only.
- A bucket expires after `max(60, Window)` seconds (`ratelimit.go:158`), and
  `validateAllowance` (`fairuse_policy.go:136`) admits allowances that do not
  refill within it: who waits for the expiry has a full bucket earlier than the
  refill would give it. `BucketInv` allows for it (`Early`), and its run has such
  an allowance. The built-in ones refill in time.

Imports:

- A run that failed cannot be retried with the same file: its id is made of the
  file's digest, and `Start` refuses a failed run, although `ports.go:89-91` says
  that an interrupted import can be retried safely.
- `--limit` is no part of the run's id: a limited import makes the full import of
  the file that follows it do nothing.
- An error of the read of the existing place is taken for its absence.
- Raw records expire after 90 days, runs after 400.
- `data dedupe` writes a merge as three separate upserts of places it read
  before, outside any claim, transaction or audit row (`dedupe.go:151-161`). Cut off
  before the last, it leaves a merged place without its redirect, which running
  it again does not repair: only active places are grouped (`repositories.go:606`).

## 7. Assumptions and limits

- A MongoDB transaction is atomic and reads a snapshot; unique indexes hold at
  every commit; a write conflict makes the driver run the closure again. Redis
  runs a script at once.
- SHA-256 is injective; audit ids that collide are refused by the primary key;
  tokens and keys are never guessed or drawn twice.
- Drafts appear in `dataset_versions` by means outside the modelled code
  (`Drafts`); replicas and CLI share the export directory.
- `PromptAssumption` of `Sessions` is about networks and replicas: nothing in the
  code bounds the time a request or the answer to a rotation takes by the grace.
- `DeveloperIdentity` has keys that do not expire, and `RotationKeepsAccess` says
  nothing of a key that a failed call revoked after all (`excused`).
- Worker ids are unique; leases are measured on one clock, since a fast one looks
  like a handler that outran its lease. `Sessions` has one clock for all replicas;
  `FairUse` and `AuditLog` have one per replica.
- Idempotency keys are not reused for other commands, and clients load a boundary
  before they edit it.
- In `GeographyMutation` the requests of the API are alone: no `data dedupe`, seed
  load or import, whose writes are not fenced, runs at the same time.
- In `SearchPipeline` a page of records is one import batch; in the code the
  sizes differ, which changes how many steps a rebuild has and not their order.
- `FairUse` has the same refill for all allowances, one cost ceiling and one key;
  `DeveloperIdentity` one organization and one application; an `Accounts` member
  there stands for its address.
- Bounds of TLC (`Max...`, `NumEvents`) are guards named in the modules; the
  theorems hold for every value of them.
- Not modelled: formatting, hashing, redaction and validation of text;
  authorisation beyond the roles named above; ranking; registration, address
  verification and the lockout after failed sign-ins, enrolment, passkeys and
  codes; the choice of duplicates and the matching of boundaries, which are
  numeric and textual functions of one process, and the unfenced writes of the
  CLI's dedupe, boundary import and seed load, which follow one another in one
  process; the components marked `not_modelled`.

# Formal verification of the char.pub registry

TLA+ models of the char.pub server and of its web editor, the runs that
model-check them and theorems about them that TLAPS checks. Paths below are
relative to `apps/server/src/` unless they start with `apps/` or `packages/`.
Definitions keep the source's names where TLA+ allows it; `PROJECT.json` maps
each of them to its lines, and lists every component with its files and every
hazard with its line.

## 1. The system

char.pub is a registry of character creations. An author edits a *draft* (alone,
with collaborators, from proposals of others, or by pushing to GitHub), stores
*revisions*, and publishes a revision under a *label* as a *release*. A release
pins other releases; its publication resolves the whole dependency closure,
checks it, writes its artifacts to an object store and becomes immutable. Images
and cards reach the registry as *uploads*, which are scanned. Staff can take
content down, which must reach every release that contains it.

Processes: API servers, an admin API, workers. They share one PostgreSQL
database (transactions at READ COMMITTED), a pg-boss job queue inside it, the
buckets of an object store (public, private, uploads) and a CDN; GitHub and the
browsers talk to them. Every hard behaviour is an interleaving of transactions,
awaits and object-store calls, a job or request delivered more than once, or a
handler that dies between two of them.

| Component | State | Operations | Hard behaviour | What makes it correct | Modules |
|---|---|---|---|---|---|
| Publish requests (`registry/publish.ts`) | `releases`, audit | `requestPublish` | two requests between read and insert; retries; labels freed by failures | a label and a key name one release; answers name what was asked | Publish, ReleaseLedger |
| Publish worker (`worker/publish.ts`) | `releases`, locks, `blob_refs` | `handlePublish`, `writeArtifacts`, `markFailed`, requeue | redelivery, expiry with the handler still running, takedown during a build | one final outcome; what is committed is served; nothing blocked goes live | Publish, Takedown |
| Job queue (`jobs/`, `admin/routes/jobs.ts`) | pg-boss jobs, `job_effects` | enqueue, work, retry, expire, dead letter, redeliver, cancel, `runOnce` | at-least-once delivery, dead letters without their key | effects at most once; nothing is lost silently | JobQueue |
| Takedown (`registry/tombstone.ts`, `worker/tombstone.ts`), yank | status, blacklist, object removal | execute, cascade, yank | publications under way, shared objects, stale authorization | everything downstream is tombstoned; shared objects kept; copies removed | Takedown |
| Uploads, CSAM (`upload/`, `moderation/csam.ts`) | uploads, `asset_meta`, blobs, blacklist | create, complete, process, sweep, rescan, flag, dispose | redelivery after success, signed URLs, crash after commit | a match is gone; ready stays ready and has its bytes | Uploads |
| Imports (`worker/import.ts`) | imports, creations | create, parse, commit, fail, revive | executions that outlive their job and delete the original | one creation per import, of checked bytes, traceable | Imports |
| Drafts, revisions (`api/routes/drafts.ts`, `createRevision`) | drafts, revisions, head | load, save, store a revision, confirm an import | versions, licence changes, equal digests | no lost update; a line that only grows | Drafts, DraftRegister |
| Contributions, collaborators (`registry/contributions.ts`, `api/routes/collaborators.ts`) | contributions, collaborators | submit, accept, decide, invite, revoke, join | a moving draft, a decision or revocation in between | merges are accepted once, under terms everyone agreed to | Drafts |
| Web draft editor (`apps/web/src/lib/use-draft-editor.ts`) | what is shown, saved, pending | edit, save, reload, compare, reapply | lost answers, overlapping recoveries | `saved` is true; nothing saved is lost | DraftEditor |
| GitHub bindings, OIDC publishing (`github/`, `worker/github.ts`, `api/routes/oidc-publish.ts`) | bindings, deliveries, used tokens | bind, freeze, resolve, unbind, reconcile, publish | late, repeated and lost deliveries; a token sent twice | a token publishes once, for what GitHub attests | Bindings |
| Approvals, staff, bans (`admin/`) | approvals, roles, bans | ask, confirm, cancel, change roles, ban, unban | roles read at the start of a request; parallel decisions | two people; never without an owner | Staff |
| Audit chain (`audit/audit.ts`) | `audit_log` | append, verify | concurrent appends, rollbacks, lock order | the chain verifies, always | AuditChain |

Not modelled: draft builds, exports, takedown dispatch, guests and sign-in, legal
case work, namespaces, search and reading, the pure packages, the CLI, the rest
of the web and admin front ends, deployment (section 7).

## 2. Modules

```
JobQueue ───┬── Publish ─────── MCPublish    Ledger == INSTANCE ReleaseLedger
            │     └── PublishProofs  (with JobQueueProofs)
            ├── Takedown ────── MCTakedown
            │     └── TakedownProofs (with JobQueueProofs)
            └── Uploads ── Imports ── MCImports
                              └── ImportsProofs
Drafts ───────── MCDrafts               Register == INSTANCE DraftRegister
  └── DraftsProofs
Staff ────────── MCStaff
  └── StaffProofs
AuditChain ──┬── MCServices             AuditChain ──┬─ ServicesProofs
Bindings ────┤                          Bindings ────┘
DraftEditor ─┘                          DraftEditor ─── EditorProofs
```

Requests, handlers and clients are members of constant sets; each is a record of
where it is and what it has read. An await, a lock that is waited for, or the end
of a transaction separates two actions; what one transaction does under its locks
is one action unless another transaction can come between. A row lock is a
variable only where two locks, or a lock and an unlocked read, meet.

**JobQueue** is one slot of a pg-boss queue as operators over a job record. Every
queue of the server has the policy `exclusive` (`jobs/definitions.ts`), so at most
one job per singletonKey is queued, waiting for a retry or running, and a queue is
a function from keys to slots. The copy of a spent job is `failed`; completed and
cancelled jobs are forgotten (`none`).

**ReleaseLedger** is the abstract specification of publishing: a label is free,
reserved by a release for a content, or permanently held; a reservation becomes
permanent with the content it was made for or is given back; the newest release is
the one made permanent last.

**Publish** is the whole life of a publish request.

| Code | Model |
|---|---|
| `requestPublish`: lookup by key and import check; `SELECT ... FOR UPDATE`; insert, job and audit entry | `Lookup`, `SelectLabel`, `Insert` (or `Refuse`) |
| the two unique indexes of `releases`, the label's being partial (`publish_state <> 'failed'`) | `Holders`, `WithKey`, `Conflict` |
| the job in the queue `publish` with the release as its singletonKey | `jobs[r]`; the slot `Unkeyed` is the job the job panel sends without a key |
| `handlePublish`: row, skip and deferral; checks; the effect | `Start`, `Check`, then `Publish` or `Reject` |
| `runOnce` with `publish:<id>` | `Once` and `effects` |
| the handler returns, throws, dies, outlives `expireInSeconds` | `Finish`, `Abort`, `Expire`; after `Expire` the handler goes on without a slot |
| `requeuePendingPublishes`, every five minutes | `Requeue` |
| the kill switch as the worker's `FlagCache` shows it | `publishOff`, `FlipSwitch` |
| job panel: retry and cancel, of jobs and of dead letters | `Redeliver`, `RetryFailed`, `DiscardDead`, `CancelJob` |

The verdict of the build is a free choice in `Check`. The `SELECT` and the insert
of one transaction are two actions because the lock covers rows that exist and
says nothing about a label nobody holds.

**Takedown** is the same publish handler seen from the objects, beside takedowns.
What a release is made of is fixed by its revision and given by constants.

| Code | Model |
|---|---|
| `loadClosure`, `checkStatus`, rule 3 of `checkBuild` | `Load` with `Closure`, `Loadable`, `Resolvable`, `VisibilityAllows` |
| `loadRegistryState` and the blacklist rules of `checkBuild` | `Check` |
| `putBlob`, `copyToPublic`, `recordBlob` | `WriteArtifact`, `Copy`, `Put` |
| `writeArtifacts`' transaction; `blob_refs` | `Commit`; `Refs` |
| `executeTombstone`, which previews again in its transaction: `directReleases`; each round of `closureReleases`; the `blob_refs` of what was found; those of everything else (`stillUsed`); the rows of the blobs | `TakedownBegins`, `ClosureRound`, `ReadRefs`, `ReadStillUsed`, `ReadBlobs`, with `Direct`, `Dependents`, `Candidates` |
| its updates and inserts by the ids read, the wait for the audit log, the commit; a rollback at any point | `TakedownCommits`, with `Blacklisted`; `TakedownFails` |
| `runTombstoneCascade` inside `runOnce` | `CascadeFetched`, `Delete` (after `KeyIsFree`), `Verify`, `Removed`; `CascadeDies`, `Redeliver`, `RetryFailed` |
| yank: authorize, then update by id | `YankRead`, `YankWrite` |

A takedown locks nothing while it reads, so publish handlers load, write and commit
between any two of its statements; what it has read is in `takedowns`. Its writes and
its commit are one action: they use the ids and digests read before, the rows they
touch stay locked from the first of them to the commit, and nobody sees them earlier.
The snapshot, the IR and
the artifact of a release have the same life and are one object. A handler may
throw at any await (`Abort`).

**Uploads** and **Imports** share their actors: any handler may be at any step, and
an execution whose job has been taken from it (`Outlive`) goes on.

| Code | Model |
|---|---|
| `POST uploads`, the client's PUT, `POST complete` | `Create`, `PutOriginal` (the declared bytes or others, as long as the URL works), `CompleteRead`, `CompleteWrite` |
| `processUpload`: row; original, blacklist, image, scan; `putBlob`; transaction; deletion | `ProcessStart`, `LoadRejects`/`LoadPasses`/`LoadScans`, `Store`, `Commit`, `Discard`, `Reject` |
| `handleCsamHit` | `Hit`, `DisposeLoad`/`DisposeBlob`, `Record` (its transaction), `RemoveCopy` one digest at a time, `DisposeEnds` |
| `rescanAll`, `POST csam/flag` | `DisposeBlob`, `RescanClear`, `RescanWrites` |
| `expireUploads` | `SweepRead`, `SweepDelete`, `SweepMark` |
| crash, last failure, expiry, dead letters | `Die`, `Throw`, `Outlive`, `Redeliver` |
| `POST imports`, `handleImportJob` | `CreateImport`; `ImportStart` (with `reviveImport`), `ImportOpen`, `ImportRejects`/`ImportMatches`/`ImportPasses`, `ImportKeeps`, `ImportCommit`, `ImportFails`, `ImportDrops` |
| `markImportInternalError` | `ImportThrows` on the last attempt; an attempt may throw at any time, in any run |

What an upload stores is a function of its content, so two uploads of one content
meet in the store. The images of a card are one digest as the card has them (`Raw`) and
another re-encoded (`Image`), which alone is stored. `LoadRejects` may reject any upload:
`getUpload` failing for whatever reason counts as a missing original.

**DraftRegister** is the abstract specification of authoring: a register written
only by who has seen its present value. **Drafts** is one creation: its draft,
revisions, contributions and collaborators. A working copy is the set of marks
that sessions and contributions left in it, with its license; a revision is known
by its content, as it is by its digest.

| Code | Model |
|---|---|
| `GET draft`, `PUT draft` with `If-Match` under `lockDraftBuildCreation` | `Load`, `SaveBegin`, `SaveWrite` (`Write`, `Credit`, `Reset`) |
| `POST revisions`: draft read under the creation lock, `createRevision` | `Revise`, `ReviseInsert` |
| a push: `lookupCreation`, later `createRevision` | `PushRead`, `PushInsert` |
| `POST contributions`; accept: `tryMerge` on an unlocked read, rights, then `acceptContribution` | `Submit`; `AcceptRead`, `AcceptBegin`, `AcceptWrite` |
| reject, withdraw | `Decide` |
| invite, revoke, accept the license | `Invite`, `Revoke`, `JoinBegin`, `JoinWrite` |
| `POST imports/:id/confirm`: no creation lock, no version | `ConfirmImport` |

**DraftEditor** is the hook `useDraftEditor` against a registry that takes a save
only for the present version: the refs are one record, `putDraft` under way is
`flight`, one given up by the client that may still arrive is a `stray`, `reload`
and `reviewConflict` are two processes and `recoveryEpoch` is their `live`. The plan
of `draft-reapply.ts` is `Entries` (the objects the user changed and the latest draft
has otherwise) and `Contested` (those changed elsewhere too); `Reapplied` is the latest
draft with the user's value of every object that the user keeps, so what others changed
of such an object is taken back, as the notice says (`draft-conflict.tsx:121`). The
history variable `replaced` collects what was taken back at a contested object.

**Bindings** is the row of one creation in `source_bindings`, GitHub (which
transfers repositories and may drop, repeat and delay the delivery that says so),
`github.reconcile` (rows, list, write: three actions), the author's requests (what
GitHub said, then the transaction) and the requests to publish with a run's token
(binding read; match and claim; release).

**Staff** has the admin API's requests with the roles their middleware read,
the row lock of `executeRoleChange`, approvals with their cooling-off period, and
an account's ban or lock. Roles are reduced to `owner` and `safety`.

**AuditChain** has transactions with a plan of rows to lock and records to append,
which commit, roll back, or are the victim of a deadlock, and `verifyAuditChain`
reading record after record. A hash is the sequence of the entries it covers.

## 3. Properties and runs

| Run | Shows |
|---|---|
| `publish_requests` | three requests, two labels, revisions and keys, two handlers and one fault. `AnswerNamesWhatWasAsked`: a label is freed by a failure between the reads and the insert of another request, and a third takes it. The refinement `ImplementsLedger`: a label given back and reserved again while an expired handler of the first release is about to publish it, and two releases that finish in another order than they were requested |
| `publish_delivery` (`LiveSpec`) | one release. `AuditTellsOutcome`, `OutcomeIsFinal`: an expired handler beside its own redelivery and beside the job of a dead letter. `PendingIsResolved`: two faults spend `RetryLimit = 1`, or staff cancel the job and discard the dead letter, and the timer has to bring the release back |
| `takedown_reach` | a chain base <- mid <- top and a release that shares a fragment with base: a takedown reads statement by statement beside a publish handler. `TakedownReachesDownstream` and `SharedObjectsAreKept` are about the releases published when its transaction began, which it must find, or spare, whatever is committed between its reads; `LocksAreTheClosure` is what makes the first true. What is committed since it began may be missed: the same property of the releases published when it commits is false (section 4, first row). `PublishedObjectsAreServed` relates commit, copies and every takedown's targets |
| `takedown_quiet` (`QuietSpec`) | `NothingLiveIsMadeOfBlocked`, `LiveReleasesAreWhole`, `RemovedCopiesStayGone` when no publish handler is between its checks and its commit while the transaction of a takedown runs, and no yank writes over a takedown. The code enforces neither; the run and the theorems show that these two windows are the only way to violate the properties, and `takedown_late_commit` and `takedown_yank` go through them |
| `takedown_cascade` (`LiveSpec`) | two takedowns of one release and three faults: `CascadeEnds`, and only a yank undoes a takedown (`OnlyYankUndoesTakedown`) |
| `intake` (`LiveSpec`) | one upload, of an image or a card, and its import, two handlers, a client, the sweep, a rescan, one fault besides the throws of the import itself, so that an import also reaches its dead letter, in progress or failed. Imports: one creation exactly when it says `succeeded` (`ImportOutcome`), of the bytes that were checked (`ImportsCheckedBytes`), traceable to the upload (`DerivedIsTraceable`), decided or in the dead letters (`ImportIsNotForgotten`). Uploads: a ready one has its blob (`ReadyHasItsBytes`) and stays ready (`ReadyIsKept`), a completed one is decided (`UploadSettles`), what is blocked is gone (`BlockedIsGone`) |
| `authoring` | an owner, a collaborator, a contribution that may change the license, a push, a draft of three versions: `MergedIsAccepted`, `LineageGrows`, `WritersAreCredited`, `RightsAcknowledged`, `WritersConsented` and the refinement `ImplementsRegister` |
| `staff_approvals` | two members of staff, one of whom can be banned, two requests at once, two approvals: `LockIsLiftedByTwo`, `DecidedOnce` |
| `services` | AuditChain: `ChainIsWhole`, `NoFalseAlarm`, `TransactionsEnd`. Bindings: `TokenUsedOnce`, `SourceIsAttested`, `TransferIsNoticed`, `ConfirmedStands`. DraftEditor: `SavedIsTrue`, `SaidIsSaved`, `NothingSavedIsLost` |
| `takedown_late_commit`, `takedown_yank`, `staff_last_owner` | violations, section 4 |

Three properties of `intake` carry a condition, because the code does not give
more: `BlockedIsGone`, `ReadyIsKept` and `DerivedIsTraceable` except where two
handlers worked on one content at the same time (the history variable `raced`),
and `BlockedIsGone` except after a crash and of a content that was uploaded twice
(`Single`). `LiveReleasesAreWhole` speaks of a manifest only where its releases pin
the same (`SamePins`). Section 4 says what happens otherwise.

`MCServices` composes three components that share no state. One of them runs in
each behaviour and the others stay in their initial state, where no fair action of
theirs is enabled; a property of a component holds of the composition exactly when
it holds of the component alone, since its variables change only with its own
actions.

### Bounds

`RetryLimit` is 1 in the runs (5 in the source): the first failure, the last
failure and the dead letter are all reached; the theorems hold for every limit.
`MaxFaults` bounds crashes, throws, expiries and redeliveries of a run (an import's
own throws are bounded by its retries alone: in `intake` one throw and one crash on the
last attempt leave an import in progress with its job failed, and two throws one that
failed with an internal error and is revived by its dead letter),
`MaxOperator` actions of staff in the job panel, `MaxVersion` the versions of a
draft, `MaxVerify` verifications, `MaxLost` saves given up. Everything else is
bounded by a constant set: each transaction, takedown, approval, delivery, run or
edit happens once.

* Publishing: two handlers are enough for an execution beside its own redelivery;
  two faults spend a job's attempts; three requests are needed only in
  `publish_requests`, whose run is symmetric in all its sets (its refinement is a
  safety property) and leaves the job panel to the other. `publish_delivery` uses no
  symmetry, since it checks liveness; its one key lets one release exist, which is
  what its properties are about.
* Takedown: three releases in a chain are the least for a lock that is transitive.
  In `takedown_reach` and `takedown_quiet` one takedown runs, in `takedown_cascade`
  two.
* `intake`: one upload and one import with two handlers overlap in every pair of
  steps. It leaves text uploads (a subset of an image's steps), staff (their
  disposal is the rescan's), two uploads of one content and two imports of one name
  to the specification.
* `authoring` begins under the free license; three versions allow a change of the
  license and one back, which is
  what `WritersConsented` turns on, and a save between the read and the write of a
  merge.
* `services`: three transactions over one row and the log give both lock orders
  and a bystander; two owners and two deliveries allow a transfer and one back;
  two requests of one run are a token sent twice; two lost saves are one that
  arrives late beside one whose answer is lost.
* Staff: two people are both owners; each is the other's confirmer.

Deadlock is not checked where the system comes to rest: every request answered,
every bounded event spent. It is checked in `authoring`, where a draft can always be
read and no request waits for a lock that is never released.

### Fairness

Weak fairness of fetching and of a handler's own steps (pg-boss polls; a handler
that neither throws nor dies returns), of the requeue timer and the reconciliation
(pg-boss schedules), of a statement that is not waiting for a lock and of the
database ending a deadlock. Strong fairness, in Imports, of a worker taking a
queued job (`ProcessStarts`, `ImportStarts`) and of the sweep reading an expired upload
(`SweepRead`): both are polled for ever while other work may keep the workers busy in
between. Time passes (`UrlExpires`, `TtlPasses`). Nothing is assumed of clients, authors, staff,
GitHub, or faults; the bound on faults stands for "faults stop for long enough".

## 4. Findings

| Run | What the code does | What the repository says |
|---|---|---|
| `takedown_late_commit` | the commit of a publication looks at `publish_state` alone (`worker/publish.ts:413`): a release made of content taken down meanwhile goes live, whether it is committed after the takedown or between a takedown's unlocked reads and its commit | `registry/tombstone.ts:4`: every release that contains the object is tombstoned |
| `takedown_yank` | the yank is written by id (`api/routes/yank.ts:60`), over a takedown that came after its authorization | `api/routes/yank.ts:5`: a tombstoned release cannot be yanked |
| `staff_last_owner` | `executeRoleChange` locks the row it changes and counts the other owners as committed (`admin/routes/staff.ts:29`): two removals in parallel leave none | `admin/routes/staff.ts:5`: at least one owner must remain |

Further disagreements met while modelling. The models contain the behaviour, but no
run is spent on it; where a property above carries a condition, this is the reason.

* A key is compared on label and revision, not on visibility
  (`registry/publish.ts:203`; `llmdoc/registry/publishing.mdx:43` includes it), and
  a retry that races its first copy is refused as `taken` (`:255` against `:11`).
* A release under construction has no `blob_refs`, so an object it will share can
  be removed under it (`registry/tombstone.ts:222` against `:195`); a copy made
  after the preview is verified but never deleted, and the cascade ends in the dead
  letters (`worker/tombstone.ts:52`). The latter needs the window of
  `takedown_late_commit`; the former does not: two releases of one revision share
  its manifest but may have different default policies, which the server adds to a
  release (`registry/publish.ts:246`). If one is taken down through its policy while
  the other is being published, the manifest is removed and the other goes live
  without it.
* `processUpload`'s `reject` and `expireUploads` write by id: a second handler that
  finds the original gone, or a sweep that read the row before, turns a `ready`
  upload into `rejected` (`upload/pipeline.ts:94`, `:273`).
* A disposal cut off by a crash after its transaction is not completed: the retried
  job finds the upload quarantined and skips it (`moderation/csam.ts:230`).
* The blacklist is looked up by one digest of a content, and a disposal may block the
  other. A flag that finds no source blocks the re-encoded image alone, which a later
  upload of the same content does not look up (`upload/pipeline.ts:110`) and stores
  again; a match on an image upload blocks the original, which the import of a card
  with the same bytes does not look up (`worker/import.ts:134`) and stores again
  (`:381`). A match found by an import names the images as the card has them
  (`:327`); their re-encoded copies, which an execution that died before its commit may
  have stored, are neither blocked nor removed.
* An import whose handler dies on its last attempt stays in progress, and keeps its
  name, until staff act on the dead letter (`jobs/queue.ts:88`).
* PUT staff reads the role without a lock before it decides that no approval is
  needed (`admin/routes/staff.ts:107`); an approval to lift a lock stays valid when
  the lock it was asked for was lifted and a new match has set another.
* A frozen binding is resolved with the owner of the repository that was looked up,
  although the row may name another repository by then (`github/events.ts:211`), and
  the reconciliation does not freeze a binding whose repository the App no longer
  sees (`worker/github.ts:125`), as `listed` shows in Bindings.
* A push is recorded and its sync job enqueued in two transactions
  (`api/routes/github-webhook.ts:66`); the check of an older commit may be written
  last, and to a row given to another repository (`worker/github.ts:96`).
* Storing a revision locks the creation before the draft's content is inserted, a
  push inserts first: the two can deadlock, which the database resolves.

## 5. Theorems

All proofs hold for any sets of actors and data, any bounds and any retry limit,
under the named assumptions of the modules, which TLC evaluates in the runs.

**PublishProofs** (`RetryLimitAssumption`, `DistinctAssumption`,
`BoundsAssumption`): `TypeCorrect`, `LabelsAreHeldOnce`, `KeysNameOneRelease`,
`AuditIsExact`, `OutcomesAreFinal`, `AnswersNameWhatWasAsked`,
`LedgerIsImplemented`. Safety rests on one
invariant, `IInv`. That a handler finds its key unused says nothing unless the
recorded keys are exactly those of the decided releases (`EffectsMarkOutcomes`),
and a handler could decide a row nobody inserted unless every job, handler and dead
letter names an accepted release (`OnlyAcceptedReleasesRun`). A handler whose
attempt was not taken from it holds an active job for its release, alone
(`HandlersHoldTheirJobs`, `JobsAreHeldOnce`). The tables change in two ways only, a
request is accepted or a pending release is decided (`TablesStep`); each table
property is shown against those two (`LedgerStep`), the queue's part action by
action (`QueueStep`). The refinement uses the uniqueness of the holder of a label to
replace the CHOOSE of `HeldSlot`. That an answer names what was asked
(`AnswersNameRows`) holds when it is given and stays true because the label and the
revision of a row never change (`RowsKeepTheirContent`).

**TakedownProofs** (`ContentAssumption`, `SubjectsAssumption`: a takedown by digest
names a fragment or an asset; `FaultsAssumption`, `DistinctAssumption`,
`RetryLimitAssumption`; `DocumentsAssumption`: an object is the hash of its bytes, so
a manifest tells the contents of a revision and an artifact all of a release):
`TypeCorrect`, `LocksAreComplete`, `OneRoundIsEnough`, `ObjectsAreServed`,
`TakedownIsComplete`, `TakedownSparesOthers`, `OnlyYankUndoes`,
`RemovalsAreBlacklisted`; of `QuietSpec`, `NothingLiveIsBlocked`,
`LiveReleasesStayWhole` and `RemovedStaysGone`.
The graph need not be acyclic. `LocksAreTheClosure` is not inductive: a handler
commits the closure it loaded, which may be long ago, so the invariant says of every
handler past its load that it holds the whole closure and that all of it is
published (`ClosuresAreComplete`). Loading preserves it because the pins of a
release together with the closures of its pins are its closure
(`OneLevelIsEnough`). `ObjectsAreServed` needs what each handler has copied so far
and what the private bucket keeps for the copies to come (`ObjectsAreInPlace`), that
a public release is made of public ones (`PublicOnPublic`), and that a cascade
deletes only what its own takedown named (`JobsCarryTheirTakedown`,
`HandlersRunJobs`). The three quiet theorems share an invariant (`QuietInv`). What is
removed or tombstoned is made of something blacklisted (`BlacklistInv`, in every
behaviour), the blacklist only grows, and a handler past the check was allowed by it;
so when no takedown runs behind a check, whoever writes or commits writes nothing
a takedown removed, including the publications of a second label, and nothing is
published between the reads of a takedown and its commit (`NothingIsAdded`).
The two theorems about the commit of a takedown rest on what it knows after each
statement (`TakedownsAreKnown`, `Known`): all it has found is made of its target; what
was published when it began and is made of its target is found already or depends on
the frontier of the next round; what it will remove belongs to what it found and, once
`stillUsed` is read, to nothing else published by then. None of this is about the
releases committed meanwhile, so it survives them.

**ImportsProofs** (`UploadsAssumption`: job keys are none of the words that stand for
no upload, a pipeline's or a staff's disposal; `ImportsAssumption`,
`RetryLimitAssumption`): `TypesHold`, `ImportOutcomeHolds`, `CheckedBytesHold`,
`ReadyBytesHold`, `DerivedTraceable`, `ReadyKept`, `BlockedGone`, `JobsHeldOnce`,
`ImportsKeepTheirJobs`. Every step is first
reduced to what it writes (`StatusStep`, `ResultStep`, `StoreStep`) and to how its
handler came to be where it is (`Arrival`); the invariants are shown against those.
The types need what a handler knows of its upload (`Known`). The import's outcome
rests on `effects` and on the row being locked and `processing`; the bytes on a
handler past `parse` having compared them. `Blobs`: a handler about to commit has
stored the blob, and nothing is removed that was not blocked before. The properties
with `raced` rest on `Overlaps` (two handlers at work on one content are noted), from
which a handler that is alone still finds the status it read (`Fit`), and the row of
an imported upload stays usable and goes on naming its images (`Traced`). `BlockedGone` needs most: rows and
handlers name only digests of their content and the original among them
(`RowsName`); what is stored has an upload that a flag finds, or one about to be
usable; what is blocked has an upload that is quarantined, or came out of a card, so
neither the pipeline nor an import stores it again; and a blocked copy that is still
there is on the list of a handler removing it (`Disposed`). Without `Single` the
third part is false, which is how the blacklist's blind spot of section 4 was found.
`ImportsKeepTheirJobs` is the safety half of `ImportIsNotForgotten`: an import in
progress has its job, so it cannot be forgotten by the queue, only be waited for. It
rests on who holds a job (`JobsAreHeld`, `HoldsRight`: executions of the import, or
the disposal of what one found) and on what a handler knows of the row when it
completes the job (`RowKnown`); each step is first reduced to what it does to the jobs
(`JobsTaken`) and to the rows of the imports (`RowMoves`).

**DraftsProofs** (`DraftsAssumption`): `DraftTypes`, `ConsentStaysFresh`,
`NothingWrittenIsLost`, `EveryWriterConsented`, `DraftsImplementRegister`. A version
is a name of a content, so whoever holds the present version holds the present draft
(`ViewsAreTrue`); who is about to write it may (`WritersMayWrite`), since
collaborators and the license change only under the same lock or together with the
version. `ConfirmImport` takes neither lock nor resets acceptances; that no
acceptance outlives its terms there rests on its happening once and on every row
naming the draft's license before it (`RowsFollowTheLicense`). `JoinersKnowTheTerms`
covers the acceptance that is under way when a confirmation comes.
`MergesAreAccepted`, `LineagesGrow`, `EveryWriterIsCredited` and
`RightsAreAcknowledged` rest on a second invariant on top of it, `LineageInv`: a
request is about to write the present draft and nothing else but its own mark or its
contribution (`RequestsAreExact`), so a write adds exactly that to what is accepted
and credited. A merge brings only its own contribution, since the base holds every
other one the draft holds (`BaseHolds`); that a revision is stored of the draft it
read is the lock's doing, as no save can end while it is held.

**ServicesProofs** has two parts. Of the audit log (`AuditAssumption`): `AuditTypes`, `AuditLogIsWhole`,
`VerificationIsSound`. What is committed together with what any one transaction has
appended is a chain (`ChainsAreWhole`), because only the holder of the log's lock has
appended anything (`AppendersHoldTheLog`); the verification stands at a record
(`CheckStandsAtARecord`), and the next record after it is its successor.

Of the bindings (`BindingsAssumption`): `BindingsTypes`, `TokensAreUsedOnce`,
`SourcesAreAttested`, `ConfirmationsStand`. A token that was claimed is in the table
of used tokens or expired (`ClaimsAreSpent`), so the cleanup, which removes only
expired ones, opens no second claim (`ClaimsDiffer`); what a request will publish is
what its token attests (`ClaimsMatch`).

**EditorProofs** (`EditorAssumption`): `EditorTypes`, `SnapshotsAreTrue`,
`SaidSavedIsSaved`, `SavesLoseNothing`: a save loses nothing but what the user chose to
replace. That is not inductive: a request on its way may lack nothing else of the
version it names (`SavesFollow`), which needs that the pending edits are what is shown
and that what is shown lacks nothing else of what is saved (`EditsKept`), which a late
answer would break unless a conflict had stopped saving (`ConflictStops`) and only one
recovery were alive (`OneRecovery`). A reapplied draft keeps it (`ReapplyTakesBack`): an
object that is replaced without a contest has its old value in the latest draft, so what
is missing of it was replaced before.

**StaffProofs** (`StaffAssumption`): `StaffTypes`, `ApprovalsAreDecidedOnce`,
`LocksAreLiftedByTwo`. A request that executes an approval is the only one, finds it
pending and may confirm it (`ExecutorsMay`, `ExecutorsAreAlone`).

**JobQueueProofs** holds the lemmas about one slot: what each operator returns.

Only model-checked: the liveness properties (`PendingIsResolved`, `CascadeEnds`,
`UploadSettles`, `ImportIsNotForgotten`, `TransactionsEnd`, `TransferIsNoticed`),
which the prover cannot treat under fairness. Every other property that a passing run
checks, invariant, action property or refinement, is a theorem.

## 6. Abstractions a reader should know

* Contents are members of small sets; a hash is an injective function of what it
  covers; a parse, a scan, a merge and the verdict of a build are choices.
* READ COMMITTED is modelled where a statement reads what another transaction may
  change: such a transaction is split at that statement.
* In Publish an exception in every attempt of one handler is bounded by
  `MaxFaults`; the requeue's limit of 500 rows is not modelled.
* In Takedown: the preview page and its approval, the CDN purge (a failing purge is
  `CascadeDies`), `blobs.status = withheld` (written, read by nothing), the takedown
  job a match enqueues, linked assets, and staff who cancel a removal are left out.
* In Uploads: the evidence package is sealed before anything changes and has no
  effect on the state modelled; a scanner's lists grow, so a content that passed may
  match later.
* In Drafts: a save that is refused by validation is a `Refuse`; comments, guest
  authors, and where a payload is stored are left out.
* In DraftEditor: a draft is the set of edits it holds, each made to one object, and
  what it holds of an object is the object's value. The order of a list, an entry of
  its own in `draft-reapply.ts`, is an object like any other. The other editors only
  add: what they replace at a conflict is for their users what `Reapply` is here.
* Libraries (pg-boss, drizzle, better-auth, the object store, PostgreSQL) are
  modelled as the server configures and uses them.

## 7. Not modelled, and why

* Draft builds (`registry/draft-builds.ts`), exports (`worker/export.ts`), takedown
  dispatch (`worker/tombstone-dispatch.ts`), guests (`api/routes/guests.ts`), the
  rate limiter (`ops/rate-limit.ts`): concurrent code, left for later modules. Known
  hazards: the build quota is counted under the creation's lock, which the expiry does
  not take; a build deferred by the read-only switch may be written after it expired;
  an export may be registered after its release was taken down; a dispatch delivered
  again skips digests whose action exists; two verification requests for one address;
  a server whose clock is behind counts into a newer window.
* Installation events and the check of a push: shown to the author, decide nothing.
* Sign-in, tokens and OAuth: mostly the better-auth library.
* The resolver's version choice, licence rules, three-way merge, templates, prompt
  assembly and card formats: pure functions with unit and property tests.
* Legal case work, reports, namespaces, search, reading, user interfaces,
  deployment: one writer per row, queries, or presentation.

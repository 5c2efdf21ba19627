# Image2 Prompt Hub — verification project

Image2 Prompt Hub collects image prompts from public Git repositories, keeps
their evidence in PostgreSQL and an object store, and publishes reviewed
selections of it. The program is fail-closed: whatever is not proved safe stays
unpublished. Its logic lives in database transactions that several processes
run concurrently: a scheduler, worker threads, an administration service and
command-line tools.

This directory holds TLA+ models of that logic, the TLC configurations that
check them on small instances and TLAPS proofs about them.

## 1. The system

| Component | Where | State it keeps | Operations |
| --- | --- | --- | --- |
| Scheduler, workers, operations ledger | `sync/scheduler.py`, `sync/operations.py`, `sync/schedule_policy.py`, migrations 0007, 0008 | scheduler cycles, one row per source and cycle, heartbeat; the Redis queue; two kinds of session lock | dispatch a cycle, resume, recover stale messages, start / finish / fail a source |
| Source synchronisation | `sync/pipeline.py`, `sync/database.py`, `sync/revision.py`, migration 0004 | sync runs, tombstone events, retained Git refs | `run_source`: detect, extract, diff, gate, import, activate |
| Publication v1 | `content/database.py`, `content/publication.py`, migration 0003 | publication versions, the current pointer, the outbox | build, activate, roll back |
| Publication v2, takedowns | `content/publication_store_v2.py`, `content/publication_v2.py`, migrations 0006, 0009 | versions, exclusions, takedown events, current pointer | build, activate, roll back, record a takedown |
| Review queue | `content/review_store.py`, `content/review.py`, `content/quality.py`, migration 0005 | ready review runs, review batches, a quality ledger file | submit, import, list |
| Case identity | `content/publication.py`, `content/database.py`, `sync/revision.py` | canonical cases and their members | fingerprint, canonicalize, compare |
| Inventory | `inventory/*`, migrations 0001, 0002 | adapter runs, revisions, cases, assets; objects in S3 | package, verify, store, import |
| Ingestion | `ingestion/*` | Git mirrors, retained refs, worktrees, packages | detect, fetch, prove, snapshot, extract with an adapter |
| Monitoring | `sync/monitor.py`, `sync/status.py` | alerts | probe, open / resolve, notify |
| Administration API | `apps/admin_api/*` | failed logins in memory, session cookies | log in, submit a review, build, activate, take down |
| Public API and web | `apps/api/*` | none: it reads through the current pointers | list, detail, facets, image |
| Internal preview | `apps/internal_preview/*` | an index file with its key | build or take the index, list |

Interaction: the dispatcher writes a *cycle* and sends one message per source; a
worker takes the message and the source's lock, runs `run_source`, which writes
the inventory, a sync run and at the end the publication pointer, and then
stores the outcome in the cycle. The review service and takedowns write
authorities that a publication build reads and an activation re-validates.
Readers only ever follow the current pointer.

### What is hard about it

- **Interleaving.** One dispatcher container, an administrator's `run-once`
  command that takes the same path, a worker with two threads
  (`compose.prod.yaml`), manual `sync-run` calls, the review service and the
  publication commands write the same tables. Only advisory locks order them,
  and which lock covers which read is spread over five files.
- **Crashes and half-done work.** A dispatch is a transaction, a message to
  Redis and a second transaction; a synchronisation is a dozen transactions with
  Git and object-store calls between them. Any process may die between two.
- **Delivery.** Messages are delivered at least once, may be lost with Redis or
  dropped after `max_retries`, and are sent again by the stale recovery while an
  older copy may still be queued.
- **Stale reads.** Sources found due before a cycle is written, a selection read
  before a version is built from it, reviews read many statements before the
  commit, a target checked before the pointer moves.
- **Progress.** A source whose row never ends is never due again; a candidate
  whose run row is in a state nobody retries is never published.

### What makes each component correct

| Component | Properties |
| --- | --- |
| Scheduler and ledger | at most one pending row per source; a source never runs twice at once; owed work stays visible to a recovery query; a closed cycle is settled, and its rows, counts and verdict are final; every row ends and every cycle closes |
| Synchronisation | what a run row says is what was published; a removed case stops publication; a failed or interrupted candidate is taken up again; the other sources are carried forward; a source moves forward only |
| Publication v1 | pointer, version state and outbox agree; public cases are not lost |
| Publication v2 | all facts a build or switch checked hold when it commits; a repeated request makes one version; no two transactions wait for each other |
| Review queue | a decision follows the decision its reviewer saw, on the latest revision; an acknowledged review is the recorded one; the list and the candidate agree |
| Case identity | no row in two cases, no case lost to a concurrent insert; the diff, the canonical key, the review and the preview agree on what a case is |
| Inventory, object store | ready inventory is backed by its package, its objects and rows; evidence is never replaced; a stored object has the bytes it should have and is private |
| Ingestion | a killed process leaves nothing that stops the next attempt but what is named; a candidate is what the branch was; retained commits stay provable |
| Extraction | a source is taken whole or not at all; a plan is the tree; the digest does not depend on row order, but for one source that copies the number of a row |
| Alerts | every lasting condition is open and notified, a reopened one again; what is repeated, and what a mark covers that nobody was told of, is explained by faults and overlapping passes |
| Administration API | the login throttle bounds guesses in spite of concurrent logins; roles and sessions end with their time |
| Public API, preview | an answer is one version that was public during the request and shows approved content only; the preview serves one commit and one code |

## 2. Modules

| Module | Models | Theorems |
| --- | --- | --- |
| `JobLedger` | abstract: per cycle and source a job that is pending and then has one outcome, per cycle a phase | |
| `Scheduler` | dispatchers, queue, workers, locks, ledger; shown to implement `JobLedger` | |
| `SchedulerProofs` | types, lock ownership, message targets, exclusive execution; the inductive invariant of the ledger and what follows from it; the refinement of `JobLedger` | yes |
| `SyncPublication` | `run_source` transaction by transaction, with publication v1 | |
| `SyncPublicationProofs` | types, what is public and completed, removals on record, no public loss | yes |
| `PublicationV2` | publication v2, takedowns, reviews and imports, lock by lock | |
| `PublicationV2Proofs` | the lock argument: what a session has checked stays true, no circle of waiting sessions | yes |
| `Alerts` | passes of the monitor and the alert ledger | |
| `AlertsProofs` | types, marks and repetitions for any monitors; what one monitor alone cannot do | yes |
| `Inventory` | a call from the lock file over the clone and the package to the import transaction | |
| `InventoryProofs` | the inventory for any processes, keys and contents: backing, finality, replay, what lies on the disk | yes |
| `Orders` | sorting: the elements of a set in a strict order, a list by the keys of its elements | |
| `OrderProofs` | what sorting, the least of some numbers and a fold return, for every input | yes |
| `Extraction` | seven adapters, the content contract and the import plan, as stages over a tree | |
| `ExtractionProofs` | the stages and everything the run asks of an extraction, for any trees | yes |
| `AdminSessions` | logins, throttle, session cookies | |
| `Reviews` | the review queue, submissions and their replay, the public candidate; extends `AdminSessions` | |
| `PublicApi` | v1 gate and build, v2 freeze and build, and the requests of readers; extends `Reviews` | |
| `InternalPreview` | index file, grouping by prompt, quality exclusions | |
| `CaseIdentity` | fingerprints, canonical keys, canonicalization row by row | |
| `ObjectStore` | `ensure_object`, one S3 call a step | |
| `GitMirror` | detection, exact fetch, ancestor proof, worktrees, retained refs, one git command a step | |
| `Services` | composes `AdminSessions` to `GitMirror` on one state | |
| `ServicesProofs` | reviews as acknowledged and as queued, what the public APIs serve, the login throttle, the bucket, the mirror, canonical cases, the views of a case, the preview | yes |
| `MCScheduler`, `MCSyncPublication`, `MCPublicationV2`, `MCAlerts`, `MCInventory`, `MCExtraction`, `MCServices` | small instances for TLC | |

The modules meet at these points. `Scheduler` calls `run_source` one abstract
step (`Run`), whose body is `SyncPublication`; `SyncPublication` takes from
`Scheduler` the theorem that a source never runs twice at once through the queue
(`ExclusiveExecution`), which is why its runs give each source one runner,
except in `sync_live`, where a manual call joins. Its `Extract` and `Import` are
one step each; `Inventory` is their inside, `Extraction` what the adapter in it
computes, `ObjectStore` the inside of `Inventory`'s `EnsureObject`, and
`GitMirror` the git commands of `Detect` and of the snapshot. `PublicationV2`
reads the ready revisions that the import writes; `PublicApi` takes its builds
and switches as one step and looks at what readers get. `Alerts` watches the
others from outside: which of their states raise an alert is a set of
conditions. `Orders` serves `Extraction`, `PublicApi`, `CaseIdentity` and
`InternalPreview` wherever the code calls `sorted` or the database sorts.
Operators defined beside a definition that no specification uses
(`UpdateFetchHead`, `RunLockedUnlinks`, ...) are variants with one bug each.
They show that a property tells the code from the code with that bug.

### 2.1 `Scheduler` — `sync/scheduler.py`, `sync/operations.py`

State. `cycle[c]` and `row[c][s]` are the rows of `sync.scheduler_cycles` and
`sync.scheduler_source_results`; a row keeps its state, whether a message id is
bound to it, and the time it ended; a cycle keeps its counts, its verdict and the
time it finished. `heartbeat` is
`scheduler_runtime.last_status`. `queue[c][s]` counts the copies of a message in
Redis. `schedulerLock` and `sourceLock` are PostgreSQL session locks, which live
exactly as long as the process that took them. `disp[d]` and `worker[w]` are the
locals of each process, with a program point.

| Actions | Code |
| --- | --- |
| `RecoverBegin`, `RecoverSend`, `RecoverBind`, `RecoverEnd`, `RecoverReport` | `recover_stale_messages`: take the lock or leave, read the stale rows, send and bind each, release |
| `DispatchBegin`, `DispatchRead` (`Resume` / `FindDue` / `NothingDue`) | first half of `dispatch_cycle`: lock, look for a half-dispatched cycle, else for due sources |
| `BeginCycle` (`Insert` / `Existing`) | `begin_cycle`, with the existing row of the same minute |
| `Send`, `Bind`, `FailDispatch` | the loop over sources and its `except` clause |
| `CheckRemaining`, `FinishDispatch`, `DispatchReport` | the end of the cycle |
| `ReportError`, `Abort` | `run_forever`'s handler; a dispatcher that dies |
| `Deliver`, `Start`, `Run`, `Finish`, `Fail` | the actor `run_registered_source`: source lock, `start_source`, `run_source`, `finish_source`, and the second try as failed followed by Dramatiq's retry |
| `WorkerCrash`, `LoseMessage`, `MinutePasses` | environment |

What is abstracted. A heartbeat is written in the adjacent database step. The
two reads of `incomplete_dispatch` are one. The order of sources in a cycle is
left open, so all orders are checked. Cadence becomes a one-minute tick: a
source may be due as soon as its newest row ended in an earlier minute. Any
pending row of a dispatched cycle may be stale, which covers every timeout. A
row that may have been written before a connection broke is either. Copies of a
message are told apart up to `MaxDup`. A message whose retries are exhausted is
lost.

### 2.2 `SyncPublication` — `sync/pipeline.py`, `sync/database.py`, `content/database.py`

State. `runs[<<s, c>>]` is the row of `source_sync_runs` of a candidate commit,
`inventory`/`latest` the ready adapter runs, `tombstones` the tombstone events,
`approved` the generation examples whose latest rights review approves them,
`versions`, `current` and `announced` publication versions, the pointer and the
newest outbox row, `runner[w]` the locals of one `run_source` call.

| Actions | Code |
| --- | --- |
| `Detect`, `ReadLatest`, `NoChange`, `Consult` | head observation, `latest_inventory`, the early return, `find_run` and the choice of the previous commit |
| `LockBusy`, `BeginRun`, `AlreadyCompleted` | the candidate's advisory lock, the insert or take-up of the run row, the answer of a completed candidate |
| `NotForward`, `LockPackage`, `RunLocked`, `Extract`, `Compare`, `HoldForReview` | ancestor proof, lock file and extraction, case diff with its tombstones, the quality gate |
| `Import`, `MarkImported`, `Select`, `Build`, `MarkReady`, `Activate`, `Conflict`, `PublicLoss` | from import to the switch of the pointer, which completes the run row in the same transaction |
| `ReviewLoss`, `Fail` | the two `except` clauses; they run after the lock was released |
| `Raise`, `Crash`, `Unanswered`, `NoRoom` | faults |
| `Push`, `Reset`, `Review`, `Operate` | pushes and force-pushes, `record_rights_review`, `activate-publication` and `rollback-publication` |

What is abstracted. Commits are numbered along the default branch, so "is an
ancestor of" is `<=`; `Reset` is a force-push to an older commit. The candidate
lock is held exactly at the program points in `Locked`. Canonicalisation is
merged into `Build`. A rights review is the set of examples it leaves approved; a
backdated review changes nothing. `Crash` also stands for the actor's time limit,
which interrupts the thread with an exception none of the handlers catches. The
state `gated` is listed by the code and never written; the fallback of the
selection to completed runs cannot be reached once a version is public. The
legacy build of v1 and taxonomy assignment are left out. `Limits` bounds how
often each event outside the happy path occurs; a build beyond `MaxVersions`
fails as any other error (`NoRoom`).

`lockFiles` holds the lock files of `ingestion/pipeline.py:103`: `LockPackage`
creates one and refuses with `RunLocked` when it exists, the end of the
extraction and every handled error remove it, and a `Crash` in between may leave
it. The rest of the package publication (temporary directories, worktrees, the
atomic rename) is part of `Extract` and `Compare`.

### 2.3 `PublicationV2` — `content/publication_store_v2.py`, `content/review_store.py`, migrations 0005, 0006

Transactions run at READ COMMITTED, so a fact read early may be stale at the
commit unless a lock protects it. The module therefore gives every transaction
the phases *locking*, *replay*, *latest*, *facts*, *commit*: each lock, each
round of reads and the commit is a step of its own, and `Abort` may end it
anywhere. `holder[l]` is the session that owns advisory lock `l`; the set of
locks a transaction still needs and `NextLock` (key or pointer, then projects by
project id, then the takedown timeline) give the order in which it asks.

| Actions | Code |
| --- | --- |
| `BeginBuild`, `Replay` / `FirstRequest`, `CheckLatest` / `StaleRevision`, `ReadFacts`, `Build` | `build_publication` |
| `BeginSwitch`, `CheckTarget`, `Refuse`, `Switch` | `activate_publication` and `rollback_publication`, both `_switch_current` |
| `BeginTakedown`, `Takedown` | `record_takedown` |
| `BeginReview`, `CheckReview` / `StaleReview`, `Review` | `submit_review` |
| `BeginImport`, `Import` | the trigger of migration 0005 that locks the project when a run becomes ready |
| `Acquire`, `Abort` | `pg_advisory_xact_lock`; rollback, a lost connection, a kill |

What is abstracted. The row lock of the build request table is not modelled, so
`OneVersionPerKey` shows that the key's advisory lock is enough by itself. The
case lock of a review is covered by the project lock it takes first. Takedown
requests name a time; the newest time decides, then the newest request. Nobody
requests the action already in effect; replay of a takedown or review by its key
changes nothing and is omitted. Snapshot documents, digests, the private asset
manifest and the exclusion rows that mirror excluded cases are data.
Initially every source has one ready revision whose cases are reviewed.

### 2.4 `Alerts` — `sync/monitor.py`, `sync/operations.py`, migration 0007

`alert[f]` is the row of a fingerprint in `sync.alert_deliveries`, reduced to its
state and to whether `last_notified_at` is set. `monitor[m]` holds the locals of a
pass. There are several monitors: the container's (`Deployed`), and probes started
with `monitor-once`, which `docs/operations/scheduler-monitoring-v1.md:59-64`
prescribes beside it. No lock is between them.

An *episode* of a condition begins when its alert opens. The code has no such
column, so what is said about episodes is history: `accepted` counts the deliveries
of the newest one, `shared` says that two passes had it to post at once, `late` that
it was marked by a pass that had posted an older one, and `stale` in a pass are
those of its pending alerts that have been opened again since.

| Actions | Code |
| --- | --- |
| `Collect` | `snapshot` and `collect_alerts` |
| `Observe` | `observe_alerts`: open, reopen and resolve in one transaction, return what nobody was told |
| `Post`, `Mark` | `_send_webhook`, `mark_notified` |
| `LoseAnswer`, `BreakOff` | the post is accepted without an answer; anything else that ends a pass, after which `run_forever` starts a new one |
| `Change` | the watched system |

Two `observe_alerts` that run at once take row locks under READ COMMITTED. If they
upsert a common row, one waits for the other. If not, the statement that looks for
alerts to resolve may miss what the other opened (`Overtaken` and `unseen`). A
deadlock between the two is one of the failures of `BreakOff`.

What is abstracted. The facts of a pass are read at one moment, whatever they
are. A webhook is configured; without one nothing is posted and nothing marked.
Severity, details and times are data.

### 2.5 `Inventory` — `ingestion/pipeline.py`, `ingestion/git_snapshot.py`, `inventory/*`

State. `registry` is the registered key with the version of its other fields,
`code` the version of the deployed adapters. `lockFiles`, `mirror`, `worktrees`,
`candidates` and `packages` are what lies on disk; `objects` the bucket; `rows`,
`files`, `versions` and `images` the tables. `worker[w]` is one call. A key is an
idempotency key: commit, strategy and contract.

| Actions | Code |
| --- | --- |
| `Start`, `Lock` / `RunLocked`, `Close` | registry, `_idempotency_lock` |
| `BeginClone`, `ConfigureRemote`, `EndClone`, `CloneAgain`, `MirrorUnusable`, `Snapshot` | `_ensure_remote_mirror`, `fixed_snapshot`; git configures the remote before it transfers, so a kill may leave a directory without or with one |
| `WriteCandidate`, `Publish` / `IdempotencyConflict`, `Unwind` | the candidate directory, its atomic rename or the comparison with what is there |
| `Plan` / `PlanRefused`, `TakeLock` / `ImportLocked`, `EnsureObject`, `AllStored` | `build_import_plan`, the package's advisory lock, uploads one by one |
| `NoExisting` / `VerifiedExisting` / `PackageConflict`, `InsertReady` / `WriteFailed`, `Unlock`, `Finish` | `import_package`, `existing_is_complete`, the transaction, retained refs |
| `Raise`, `Kill`, `Unanswered`, `Edit`, `Deploy` | an error, a kill, a commit without answer, the operator's registry, a release |

What is abstracted. What the adapter makes of a key is data; a deployment may
change it and shows as another digest. Columns are data. The objects of the
bucket are trusted here; `ObjectStore` does not. Courses bound which events may
share a behaviour.

### 2.6 `Extraction` — `ingestion/adapters/*`, `contracts.py`, `assets.py`, `inventory/package.py`

A behaviour is one extraction of a tree: `Parse`, then one stage after another,
to `planned`, `refused` or `escaped`. Each adapter has a predicate `...Accepts`
built from the checks of its functions and an operator `...Cases` that gives the
parsed cases. The semantic contract that `contracts.py` loads from
`scripts/validate_content_contracts.py` and the metrics and audit comparison of
`package.py` follow. A path is a triple of directory, number and name; texts are
kinds (blank, short, with other line ends).

A case copies fields of its row that the adapter hardly looks at. Of these the
model keeps what a later stage or the order of rows can tell apart (`Copied`): the
tags, the parameters of the claim, and the number of the row. Of the walk over the
JSON schema and of the one for decision fields, the model has what the adapters
leave open: a tag of white space (`adapter_schema`: only erickkkyt copies texts it
did not ask for content), and a decision field among the parameters
(`extension_and_boundary`: only chaosrealms copies JSON there). What else the two
ask is written by the adapters as constants, or checked by them on the same field.
Texts are Unicode texts: half a surrogate pair, which JSON can escape and UTF-8
cannot encode, is left out.

### 2.7 `AdminSessions` and `Reviews` — `apps/admin_api`, `content/review*.py`, `content/quality.py`

A failure is the moment its login began and a number, so that a list of stamps is a set.
A login is three steps, because the throttle's lock is held for the check and
for the count and released for the password hash in between. A session is a
signed cookie that the service does not remember; `SessionValid` and `Admission`
are `verify_session` and the guards. `Reviews` adds what a reviewer saw
(`Open`), sent (`Send`), lost (`AnswerLost`) and sent again (`SendAgain`), from a
page, where the service stamps the time, or from a file, which states one.
`SubmitAgain`, `SubmitRefused` and `SubmitRecorded` are the outcomes of
`submit_review` under its locks. `QueueState` is the list's view, `Candidate`
that of a build.

### 2.8 `PublicApi` — `apps/api`, `content/publication*.py`, `content/database.py`

`Gate` and `Build1` are publication v1: facts are read in one transaction and
written in another. `Build2`, `Switch2` and `TakeDown` are those of v2 as one
step each. A request is `ReadPointer`, `Project`, and for an image `Locate1` or
`Locate2` and `Fetch`: each statement follows the pointer of its moment. `List1`,
`List2`, `Facets` and `Detail` are the pages they cut. Text search is left out.

### 2.9 `InternalPreview` — `apps/internal_preview/repository.py`

The index file is taken if its key fits, else rebuilt; `Group` makes one group of
each prompt; the process keeps what it built until it ends. `Deploy` changes the
files under it, but not the code it imported when it started, nor the ledger once
it has read one, which outlives an attempt that failed (`content/quality.py:65`).
So an index may be of a new commit as an old code makes it; that registry and
contract name one commit is checked while it is built. `Group` and `AbandonPreview`
are an attempt that fails after and before the ledger is read, `RestartPreview` is
another process.

### 2.10 `CaseIdentity` — `sync/revision.py`, `content/publication.py`, `content/database.py`

A generation document has assets by role, content and place, examples and a
prompt, which is its words and its noise (Unicode form, line ends, trailing
blanks). `CaseFingerprint` ignores places, `CanonicalKey` ignores noise, the
facts of a review and the outputs of the preview are taken from the same
document. `TakeRow` is one round of `_canonicalize`'s loop: a row of a new case
waits for a transaction that has inserted the same case, and PostgreSQL ends a
circle of waiters (`DeadlockVictim`).

### 2.11 `ObjectStore` — `inventory/object_store.py`

Each S3 call is a step and may fail after it took effect. The operator of the
bucket may change it in between, and objects may lie under a key already
(`Strays`): right, with other bytes under the right metadata, of another media
type, or with another ACL. Policies and grants are judged as
`_policy_allows_public_access` and `_assert_private_acl_grants` do.

### 2.12 `GitMirror` — `ingestion/git_snapshot.py`

`BeginDetect`, `ListHead`, `UpdateTip`, `Resolve` are the commands of
`detect_default_branch_candidate`; `FetchExact`, `Prove`, `CheckOut`, `CleanUp`,
`Keep` those of the exact fetch, the ancestor proof, the worktree and the
retained ref. Upstream pushes, rewrites its branch and forgets commits (`Move`);
`CollectGarbage` deletes what no ref, worktree or running command reaches. That
an exact fetch of a commit that is complete in the mirror succeeds without
upstream was observed with git itself.

## 3. Runs

Every run finishes within five minutes with two TLC workers. Symmetry is used
only in runs without liveness properties, over sets whose members the
specification never orders.

| Run | Instance | Asks |
| --- | --- | --- |
| `scheduler_safety` | 1 source, 2 dispatchers, 2 workers, 2 cycles, 2 minutes, 2 copies of a message, 2 faults | the safety properties of the ledger, `HistoryIsFinal`, and that every step is a step of `JobLedger` |
| `scheduler_live` | 2 sources, 1 dispatcher, 1 worker, 1 cycle, 2 faults, fairness | owed work stays visible; every cycle closes, with an outcome for every row |
| `sync_safety` | 2 sources with one runner each, 2 commits, a crash, a reset and an activation without answer anywhere | completed runs are public, removals on record are witnessed by the branch |
| `sync_live` | a scheduled and a manual call on one source, 2 commits; an error, a review and an operator's switch, or two reviews; fairness | no public loss; the head is settled again and again, under the late failure write |
| `sync_carried`, `sync_forward`, `sync_nochange` | the smallest instance of each finding | section 5 |
| `publication_v2` | 2 sessions, 5 transactions of any kind, 2 sources, 1 case with 2 assets, 2 build keys, 2 versions | pointer, idempotent builds, no lock cycle, no stale check |
| `alerts` | the container's monitor and a probe, 2 conditions, 5 changes, 2 faults, fairness | marks, repetitions, and that the ledger follows every lasting condition |
| `inventory` | 2 processes, 4 keys of one source, four courses of events, fairness | ready inventory is backed, evidence final, nothing left without a kill, replay, and that a registered key is imported in the end unless a named leftover blocks it |
| `extraction` | about ten thousand trees of the seven layouts, four audit records each | completeness, the plan, explained refusals, order of rows |
| `services` | eight scenes, below | eleven properties, each of one scene |

The scenes of `services` share one state space, so one run checks them, but a
behaviour plays one of them: its parts share no state, and interleaving them
would only multiply the states. `scene` is a bound of that kind.

| Scene | Instance | Properties |
| --- | --- | --- |
| `login` | 2 browsers of one user, limit 2 with one failure counted before, window 2, session 2, 2 ticks, a restart that changes role and password | `ThrottleBounds` |
| `review` | 2 pages and a file, 3 case versions of 2 revisions, an import, a new ledger, 2 reviews, lost answers | `AcknowledgedIsRecorded`, `QueueIsCandidate` |
| `public1`, `public2` | 1 reader with four requests, 4 examples or 3 case versions, 2 versions of a publication, rights reviews or takedowns | `AnswersAreCurrent`, `PagesAreWhole`, `ServedIsApproved` |
| `preview` | 4 cases, 5 releases, 3 deployments | `PreviewIsEligible` |
| `identity` | 2 canonicalizations, 2 sources, 3 revisions whose rows are in opposite orders | `CanonicalIsWhole`, `ViewsAgree` |
| `store` | 2 importers of one content, 7 buckets, 5 strays, a change by the operator | `StoredIsVerified` |
| `mirror` | 2 processes, 3 commits, a rewrite of the branch, garbage collection | `EvidenceStays` |

Why the bounds are enough. In the scheduler, a race needs at most one cycle that
ends while the next begins, hence two cycles and two minutes (one to end, one to
be due again); the second dispatcher is the `run-once` command; two workers and
`MaxDup` 2 give a duplicate while the first copy runs; two faults are a crash and
a crash during the recovery from it. Sources meet only in the states of their
cycle: the liveness run has two of them, and the proofs cover any number. In the
synchronisation, two commits are a current and a next one, and commit 2 of
"west" loses a case, so that the gate and the tombstones are used. Three or four
versions let a version be superseded and brought back. In publication v2 a hazard is one
transaction that commits between the check and the commit of another: two
sessions suffice, and five transactions are a build, a switch, and three that
change the facts. The two sources have project ids in the opposite order of
their names, so a lock order by source id differs from the order by project id.
In the alerts, a late mark needs two passes and three changes (a condition comes, goes
and comes back), and an episode nobody is told of needs a fault beside it; two changes
and a fault are left for the other condition. In the inventory, two processes meet at every lock, and the four keys are the
registered one, two other strategies for its commit (one that finds a case of it
and one that finds none) and another commit that shares an image. A tree of the
extraction has one or two cases and mostly one or two defects: a check looks at
one row, a pair of rows or the set of files. In the login scene a limit of two
with two browsers is the smallest where both pass a check before either counts.
In the mirror a rewrite needs three commits, and the third declares a filter, as
`.gitmodules` or a filter attribute would.

What may stop. `publication_v2` disables TLC's deadlock check because the bound
`MaxBegun` on transactions ends every behaviour; a real circle of waiting
transactions is the invariant `NoLockCycle`. `extraction` disables it because an
extraction ends. All other runs check deadlock.

### Fairness

- `Scheduler!FairSpec`: weak fairness of each dispatcher's loop
  (`run_forever` catches every exception and sleeps; the container restarts it)
  and of each worker's current step. Strong fairness of handing a queued message
  to a worker, because the message may find the source lock taken any number of
  times and Dramatiq retries it; and of a pending row being among the stale rows
  read by a recovery, because the scheduler lock may be busy in between but the
  timeout has passed for good. Faults are bounded by `MaxFaults`: the claim is
  about what happens after the last one.
- `SyncPublication!FairSpec`: weak fairness of each runner's `Step`, because
  the scheduler keeps calling `run_source`. Pushes, reviews, operators and
  faults are not fair. `HeadSettles` is stated until the versions are used up,
  because afterwards each build fails by the bound alone.

- `Inventory!FairSpec`: weak fairness of each process's `Step`, because the
  scheduler calls again and the operator's command is repeated. Errors, kills,
  edits and releases are not fair, and each occurs once.
- `Alerts!FairSpec`: weak fairness of every next step of the container's monitor,
  because `run_forever` catches every exception and sleeps; of a probe only that a
  pass it began goes on (`Proceed`), because its calls have timeouts. Nobody has to
  start one. Faults and changes are
  bounded, so `LedgerFollows` is about what happens after the last ones.

## 4. Proofs

`SchedulerProofs` holds for any finite set of
sources, any dispatchers and workers, and any bounds; the only assumption is
`SchedulerAssumption` (finite sources, `None` is no process, bounds are
naturals).

1. `Typing`: `TypeOK`, `LocksHeld` (whoever is past its try-lock owns the lock)
   and `Targets` (the work a process carries belongs to its own cycle or row)
   are inductive together. One lemma per group of actions; `Exclusion` follows
   from `LocksHeld` alone, since a lock has one owner.
2. `Invariance`: `IndInv`, the strengthening that makes the safety properties
   inductive. The properties themselves are not: that a source has one pending
   row rests on what the dispatcher read before it inserted (`ReadsHold`: no
   half-dispatched cycle, and none of the due sources has a pending row), which
   rests on the scheduler lock (`LocksHeld`), on cycles being created in order
   (`CyclesInOrder`) and on there being one half-dispatched cycle
   (`OneDispatching`). That workers only remove pending rows is why their steps
   between read and insert do no harm (`ReadsEase`). `PendingIsOpen` links rows
   to cycles, and with it a result is never refused (`ResultAccepted`).
3. From `IndInv`: `Recoverable`, `Settlement`, `OneJobPerSource`, `Acceptance`,
   `HonestHeartbeat`, and the action property `History`. `finish_dispatch` writes a
   cycle that may be closed already. Its counts and verdict come out as they were
   because a closed cycle is that of its rows (`Settlement`, with `PendingIsOpen`);
   only the finish time is another one, once: the dispatcher that writes it was
   `Sending` the cycle, is not any more, and a closed cycle is sent by nobody anew
   (`NotTakenUp`).

The lemmas `MovedRow`, `EndedRow`, `FailedRow`, `StoredRow`, `FinishedCycle` and
`InsertedCycle` say what each kind of write to the ledger preserves; the step
lemmas then only have to say which write an action makes.

`AlertsProofs` holds for any finite set of monitors, deployed or not, whose passes
overlap in any way: types, `MarkedWasPosted` and `RepeatsExplained`. Neither property
is inductive. The strengthening `NotificationInv` says that of what passes have to
post, or have posted, the receiver knows, or a fault took it (`Reported`), and counts:
while an alert is unmarked, its deliveries are those of faults and of the passes about
to mark it, afterwards only the passes that still have it can add to them, and there
are two of these only if the episode is `shared` (`Counted`). `OnePassMarks` is the
case of one monitor: no mark is late and nothing is shared, so that a marked alert was
posted in its episode and repeated by faults only.

`PublicationV2Proofs` proves every property of `PublicationV2`, for any number of
sessions, cases, versions, takedown scopes and reviews. It assumes finitely many
sources (`OrderAssumption`), and that project ids differ, which is their primary
key. The argument is about locks:

1. `Holding`: what a transaction has still to lock and what it owns make up
   `Guards`, the locks of everything it reads, and what it awaits comes after what
   it owns. It releases nothing before its end.
2. `Excluded`: so two transactions past their locks never share a guard. A review
   or an import of a selected source, a takedown, another switch or a build of the
   same key cannot commit between the checks of a transaction and its commit.
   `TakedownKeeps`, `ReviewKeeps`, `ImportKeeps`, `SwitchKeeps` and `BuildKeeps` say
   so for each kind of commit: what everyone else has checked (`Checked`) stays true.
   The reading is by source, hence `VersionSound`: a version shows only cases of
   the sources it selects.
3. `Invariance` puts these together with the pointer and the keys into `IndInv`.
   `BuildCurrent`, `SwitchAuthorized` and `ReviewChain` read it at the commit.
4. `NoCycle`: `After(l)` counts the locks that may follow `l`. Among the locks a
   group awaits take one with the least count; its owner, if it is a member that
   waits, awaits a lock with a smaller count (`AwaitsLater`).

`InventoryProofs` proves the safety of `Inventory` for any processes, keys,
contents and courses of events. It assumes that the registered key is a key and
that a run names finitely many files (`InventoryAssumption`). The properties are
not inductive: nothing in them says why the transaction may trust the objects and
the missing row. `Sound` says what a call relies on: after its publication the
package has its digest, what it is done uploading is stored, and the row it found
missing is still missing. `Relied` is why the others cannot take it away: packages
are replaced by nobody, objects only grow, and the row of a key is written under
the advisory lock of its package, which has one owner (`Exclusive`). From the
invariant:

1. `Backed` and `Final`: only `Publish` writes packages and only the transaction
   writes runs (`Writers`), each where there was nothing, or the same digest.
2. `Replay`: every file row belongs to a ready run of its commit
   (`FilesExplained`), so a commit with one run has exactly the files of that run
   (`OwnFilesOnly`), as many as the run counts (`FileRowsCounted`, a bijection).
   A conflict then means another record or another run.
3. `Tidiness`: `TidyUnlessKilled` is inductive with the types. `TidyStep` says how
   a step of one call has to move lock file, worktree and candidate together, and
   each action is an instance of it.

`SyncPublicationProofs` holds for any sources, runners, contents, versions and
limits. `Invariance` relates what a call carries between its transactions to the
tables: a commit it compares with is ready inventory, and from its selection on
its candidate is the one its version selects, built for nobody else (`Sound`). The
previous commits on record are ready inventory (`BasesAreReady`). Steps of others
take nothing from that, because inventory only grows and a built version keeps
its contents (`InventoryGrows`, `VersionsKept`). From it:

1. `CompletedIsPublicAlways`: a completed row names a version that was public for
   its candidate. It is not inductive: the row is completed in the transaction
   that moves the pointer, for a version that was built transactions before.
2. `RemovalsAlwaysWitnessed`: a removal on record is one between the candidate and
   an older commit in ready inventory. It rests on `Sound` at the comparison.
3. `PublicNeverLost`: an action property, read off every switch of the pointer
   under the invariant.

`KeepsPromise` in `SchedulerProofs` is the refinement `Spec =>
LedgerPromise`. Under `IndInv` every action maps to one action of `JobLedger` or
to a stutter; the lemmas about writes to the ledger are the ones that `History`
uses.

`ServicesProofs` is about `Services`. Each part has an invariant of its own, and no
other part touches its state. The first results are about reviews, the public
APIs and the login, for any number of reviewers, readers, versions, forms and
events.

1. `ReviewInvariance`: a request that was answered names the batch it wrote or
   replayed, and the log is lawful: every entry has an integer time and names the
   newest one before it (`Lawful`). `LatestIsNewest` says that the query by time,
   then id finds the newest review of a case, which is why `submit_review` may
   compare with it. Hence `AcknowledgedAlwaysRecorded`.
2. `QueueAlwaysCandidate` needs types of forms and ledgers only; it follows the
   two decisions of `list_queue` and `build_public_case_candidate` case by case.
3. `ServedAlwaysApproved`: each version holds entries that were approved when it
   was built (`VersionsTrue`), and a review is never rewritten, so they are still
   what their review approved. A v1 build reads its facts in one transaction and
   writes in another; `BuildingTrue` carries the facts over. `ReadersTrue` follows
   a request: it has a version, then an image some entry of that version may
   deliver, and it answers from that version, whatever is switched meanwhile.
   `AnswersAlwaysCurrent` is of the same invariant: an entry is whole when it is
   built and stays so (`Approved`), hence no built version is refused; a request
   knows of every version that was current since it began (`Informed`), and its
   answer is of one of them; `CountsOf` survives later reviews because the values
   a case shows under come from reviews its version names (`MatchesStay`).
4. `PagesAlwaysWhole` compares an answer with its version. The cases of a list are
   sorted before it is cut; that the positions before a page hold as many cases as
   it skips is a fact about the sorted list (`SortedByFact`, `ImageCount`). No
   version has an example or a case twice (`Distinct`), since a build takes each
   once; hence a detail shows each member of its case once. `Whole` of an answer
   stays, as versions do.
5. `ThrottleAlwaysBounds` is about the login scene, for any number of browsers. The
   bound itself is not inductive. `WindowsTrue` is: of every moment t and user,
   either no failure of the window that begins at t was forgotten, and those
   counted plus the logins of that window between check and count are at most
   `Limit - 1` and one for each browser (`WindowOpen`); or that window is past,
   and the logins of it that still wait for the check count too (`WindowPast`).
   The step from the first to the second is the check of a login that began a
   window later, which forgets failures that slower logins would have had to
   see; it is itself none of the window's, hence two for each *other* browser.
   With one browser the bound is the limit. That the clock does not go back is
   part of the model.

The others are about what lies behind an import, for any number of processes and
contents, and about the preview.

6. `StoreInv`: what a call saw of the bucket since it began (`CallHasSeen`), what
   it may rely on between two requests (`CallKeeps`), and that nothing replaces an
   object it finds. With `PolicyIsPrivate` and `AclIsPrivate`, what the two checks
   of privacy let pass, it gives `StoredAlwaysVerified`.
7. `MirrorInv`: the heads a detection may see are known to it (`HeadsAreKnown`),
   a worktree in use is that of a running call or was left by a killed one
   (`TreesAreRead`), and what is kept is complete and in ready inventory
   (`KeptAreReady`). Garbage collection takes nothing behind an anchor. Hence
   `EvidenceAlwaysStays`.
8. `IdentityInv`: rows are only added, and to no revision that is ready, so no key
   changes and no explicit selection grows; what a transaction has inserted has
   its case there or with it (`GroupingTrue`). `AlikeMeans` links the equality of
   two keys with the property's own wording. Hence `CanonicalAlwaysWhole`. The proof
   does not use that an insert waits for another transaction's, only that it
   does not count what that one has not committed; the mutant `TakeRowUnseen`
   counts it, and TLC finds a row whose case is missing. That the next row is one
   of those left to do is `LeastOf`: a set of numbers has a least one, from
   `Counting`, which is induction stated for a set and proved by counting a
   finite one.
9. `ViewsAlwaysAgree`: a revision that is ready has all rows of its documents
   (`RevisionsWhole`, as an import is one transaction). The rest is about one
   document. Its outputs are listed example by example in the facts of a review,
   and as the assets met so far in the preview; both are folds, and since the
   contract lets an output belong to one example only, both give the same
   contents (`OutputsAgree`). Equal fingerprints give equal canonical keys
   (`SameKeys`), so a case that the diff calls unchanged is grouped as before
   (`UnchangedKeepsCases`), and only a modified or removed one can lose its group.
10. `PreviewAlwaysEligible`: an index under a key, and a repository that groups or
   serves, hold the cases of one commit as one code makes them (`PreviewInv`; the
   empty index has no release's key). The rest is about one repository: `Collects` says that a list
   of outputs has each content of some pairs of source and content once, with
   exactly its sources. One image more keeps that (`AddImageCollects`), hence a
   case more (`AddImagesCollects`), hence a group has it of all its eligible cases
   (`GroupCollects`). From this, what a filter lists is what it should, and no
   prompt is left without an output (`ListedContentsFact`, `ListedOnce`,
   `NoneIsLost`).

`ExtractionProofs` is about every tree in the layout of a strategy, whatever its
files, rows and texts (`TreesAssumption`: documents have the lists and numbers
their readers ask for, since anything else is refused by a parse that raises).

1. `StageInvariant`: what a stage hands on is computed from the same tree, and an
   answer follows from the stages before it (`StageInv`).
2. `RefusalsAreExplained`: what the seven adapters accept is sound
   (`ListedIsSound`: different keys, images and image ids, no blank prompt), so
   later stages refuse for an image that is none, for bytes that two images share,
   for the audit record, and for four named gaps between an adapter and the
   contract: erickkkyt's ids out of text order and languages of white space,
   chaosrealms' aspect ratios, and a g0dam manifest without cases.
3. `PlansAreTheTree`: sorting by key loses and repeats nothing (`ByKeySorts`), and
   the plan adds up generation by generation (`PlanOfOutput`).
4. `EveryImageIsShownOnce`: per adapter, why the comparison of its gallery with its
   rows leaves no image out and gives none to two cases.
5. `RowOrderDoesNotMatter`: a tree with its rows backwards is accepted too, with
   the same cases (`AcceptedTurnsWell`), and a list and a permutation of it are
   sorted to the same list where keys differ (`SortedByRankOfPermutation`). For
   erickkkyt the cases are the same but for the number of their row, and sorting by
   key keeps two such lists side by side (`RenumberedByKey`).

`OrderProofs` holds what these need of sorting and folding. The library's
induction theorems take an operator as a parameter, which the provers cannot
instantiate. An induction over a *set* needs none: proper inclusion is well
founded on the subsets of a finite set, so a family of subsets with the empty
one that no added element leads out of has the whole set (`SubsetInduction`), and
for numbers the same (`SetInduction`, `BoundedInduction`). From it: a finite set in
strict order has exactly one sorted list, which `SortedBy` returns (`SortedByFact`,
`SortedIsUnique`), the greatest of some numbers is one of them (`MaxFact`), and the
equation in the definition of a fold has a solution (`FoldExists`), so the `CHOOSE`
there satisfies it, and a fold over a list from the left goes through its
elements in their order (`LeftFold`).

Assumptions about the constants, beside those named above, each evaluated by TLC:
`BucketsAssumption` (the states of a bucket are among those the checks tell apart,
and there is one), `MirrorAssumption` (the fixed commit is a commit, and no
process is called "left"), `ReviewsAssumption` (times are numbers, outputs
finite), `RecordedAssumption` and `EventsAssumption` (what is on record at the
start is lawful), `AsksAssumption` (a request lists, asks for a case or for an image),
`SessionsAssumption` (finitely many browsers, at least one; a positive limit, and no more
failures than that when the clock starts; a fresh process has none),
`PublicAssumption` (finitely many examples and case versions with numbers as keys,
and one version of a case in a revision), `DocumentsAssumption` (a revision has
finitely many documents and each case once; `Contracted`: examples name assets of
their document, and an output belongs to one example only, once, which
`scripts/validate_content_contracts.py:713-755` refuses otherwise) and
`PreviewAssumption` (finitely many cases, each with its own place in the order of
source and case key and with an image, as a generation without outputs is
refused; a release has a key).

Type correctness, the inductive invariants and the properties `OnlyLatestPending`
and `IdleIsHonest` of the scheduler are proved and no longer checked by a run of
their own; they were checked before they were proved, and a run whose cfg names
`IndInv` as an invariant still shows a counterexample to a step.

Only model-checked: liveness (`EveryCycleCloses`, `HeadSettles`,
`LedgerFollows`, `ImportSettles`; temporal reasoning under fairness is out of the
prover's reach). Every invariant that a passing run checks is proved.

## 5. Where code and documents disagree

| Run | What happens | Document |
| --- | --- | --- |
| `sync_carried` | Two sources select, build and activate at once. The selection is read in its own transaction and never compared again, so the later activation publishes the other source's previous revision; that source answers `no_change` from then on. | `docs/sync/incremental-sync-v1.md:91-93` carries the active selection forward |
| `sync_forward` | A failed candidate is retried with the previous commit stored in its row. If the branch was reset to it, the ancestor check and the diff skip the newer public commit. | the same, 83-85: non-fast-forward history stops publication |
| `sync_nochange` | A process that dies after the import and before the next write of the run row leaves `extracting`, which no call retries, while the inventory says the candidate is the latest: every call answers `no_change`. The write of a failure that itself fails (`pipeline.py:376-389`) ends in the same state. | the same, 85-86: same-candidate retry |

Others met while modelling, each part of a model and not a run of its own:

- **Removal on record.** The first attempt at an inductive invariant of the
  synchronisation failed on `RemovalStopsPublication`: `docs/sync/incremental-sync-v1.md:83-85`
  lets a removed case stop automatic publication, so a candidate with a removal on
  record should not become inventory. After a crash leaves `detected` or
  `extracting`, an attempt takes the newest inventory for its diff and not the
  row's previous commit (`pipeline.py:154`). If the branch was reset, the diff shows a
  removal and the run is held for review; the next call takes the row's older
  commit, against which nothing is missing, and imports the candidate with no
  reviewer involved. `Sync_removal.cfg` is the smallest instance and TLC finds
  the behaviour there (it is the line of `sync_forward` again, and not listed as
  a run). What holds, and is proved, is `RemovalsAreWitnessed`.

- **Finish time.** `finish_source` keeps the first finish time of a cycle
  (`COALESCE`, `operations.py:316`). `finish_dispatch` does not and asks for no state
  (369-373), so when the last worker closes a cycle before its dispatcher gets there,
  the dispatcher writes another time over the closed cycle. Counts and verdict come
  out the same. The time is only displayed (`sync/status.py:90`). `HistoryIsFinal`
  allows exactly that.
- **First notification.** `docs/operations/scheduler-monitoring-v1.md:52-53` lets the
  webhook receive only the first notification of an open fingerprint. With the
  `monitor-once` probe that lines 59-64 of it prescribe, two passes find one alert
  unmarked and both post it, with no fault; and a mark, which names fingerprints and
  not episodes (`operations.py:463`), may cover an alert that another pass has opened
  again. Somebody is still told of it, unless the pass that was to post it is broken
  off as well: then nobody is until the condition ends. `RepeatsExplained` and
  `MarkedWasPosted` say how far this goes, `LedgerFollows` what remains of progress.
- **The number of a row.** erickkkyt copies `index` into the extensions of a case
  (`erickkkyt.py:214`, `:239`), `contracts.py:294-309` hands them to the documents, and
  the digest is over those (`:423`). Every reordering of its manifest is another
  digest of the same cases. The other six sources give the same output.
- **Accepted and refused.** erickkkyt accepts a language of white space
  (`erickkkyt.py:153`), which becomes a tag that `adapter-output-v1.schema.json:184-188`
  refuses. chaosrealms copies an aspect ratio as it is (`chaosrealms.py:263`); an
  object there with the key of a decision is refused by
  `extension_and_boundary_errors`. Either way the whole source is refused as
  `adapter_contract_invalid`, for a reason its adapter could have named.
- **Late failure.** `except` clauses stand outside `with advisory_lock`
  (`pipeline.py:386`): a failed call may write `failed` over the row that another
  call completed. The version stays public. `Fail` does so in `sync_live`, which
  is why `CompletedIsPublic` speaks of rows that read `completed`.
- **Lock file.** The lock of an extraction is a file that only a `finally` clause
  removes (`ingestion/pipeline.py:103`). A killed process leaves it, and every
  later attempt is `run_locked`, although no run is active and
  `docs/operations/scheduler-monitoring-v1.md:112-113` lets a restart resume. It
  is one of the four leftovers in `Stuck`, the exceptions of `ImportSettles`:
  the others are a clone killed before its remote was configured, a package of
  an older adapter under the key of a newer one, and a case that another run of
  the same commit owns.
- **Resend.** The service stamps `reviewed_at` itself and the stamp is part of
  the request digest, so sending a page's review again in a later second conflicts, where
  `docs/content/rights-review-and-public-case-v2.md:38-40` speaks of an exact replay that
  verifies. A file that states its time is a replay.
  `AcknowledgedIsRecorded` holds in both cases. A build that is resent after a newer
  revision became ready selects other revisions and conflicts in the same way.
- **Publishable and invalid.** The queue may list a case as `publishable` whose
  candidate is refused as `candidate_invalid` for the text of a review or of a
  source; `QueueIsCandidate` names exactly that case and a drifted ledger.
- **Uploaded, then compared by metadata.** The class of `object_store.py` promises
  strong verification of content. What was there before is downloaded and
  hashed; what was just uploaded is compared by its metadata
  (`ensure_object:368`). `StoredIsVerified` holds because the upload sends the
  right bytes.
- **A detection without its snapshot.** The docstring of
  `detect_default_branch_candidate` (`git_snapshot.py:288-291`) expects
  `candidate_snapshot`, which has no caller; the pipeline fetches the commit again
  by its SHA.
- **Unretained evidence.** A commit imported by the command of fixed history is never
  retained. If upstream rewrites it away and Git collects it in the mirror, it
  can no longer be fetched, and a proof against it ends in `git_failed` for good.
  A retained one stays provable (`EvidenceStays`).
- **Facets.** v1 counts the facets of the filtered list, v2 those of all cases.
- **Preview.** An image read by its id may belong to an excluded case, because
  exclusion works on lists. The index key names versions and not code, so a
  change of code without a version keeps the old index.
- **Cached images.** An answered image is immutable for caches, so a takedown does
  not reach copies that were already handed out.

Hazards of the code that no property covers, and are not in the list of
`PROJECT.json` because others weigh more: a review of v1 that turns negative between build and
activation (`content/database.py:814`); an image that occurs twice in a gallery
when it is taken down (migration 0006, line 345); the latest inventory by adapter run id
(`sync/database.py:234`), which is import order; a metadata path of chaosrealms
that need not belong to its case (`chaosrealms.py:169`).

## 6. Not modelled

- **Sync status report** (`sync/status.py`): one read-only report over rows that
  are modelled elsewhere.
- **Observability, configuration, migration runner**: process setup and logging.
  The migration runner takes no lock; nobody but the operator starts it.
- **Validators** in `scripts/`: one-off acceptance checks of a phase that walk over
  fixtures and files. The one the program itself imports,
  `validate_content_contracts.py`, is modelled where it is used (`Extraction`).
- **Text search, the web pages, command-line parsing**: presentation of answers
  that are modelled.
- **Passwords, CSRF tokens, signatures** of the administration API: modelled by what
  they decide.

`PROJECT.json` lists each component with its status, and each hazard.

## 7. Plan

**The inside of `Extract` and `Import`**: a refinement from `Inventory` to the two
steps of `SyncPublication`.

All twelve runs are in use. A new question extends an instance above.

# Suseoro in TLA+

Models, model-checking configurations and machine-checked proofs for Suseoro, the
purchasing assistant for school libraries. The repository holds two programs that
share their domain: a multi-user backend on SQLite with a background worker
(`src/backend/src/suseoro`, without `simple/`) and a local desktop program
(`simple/`). This project starts with the backend's core path: **files become
parsed sources, sources are compared with the school's catalog, the outcome is
reviewed and approved, an order is made, sent and received**, then what guards
that path: upload claims, row versions, edit leases and idempotency keys, the
catalog's synchronisation, backup and restore. Of the desktop program it has its
purchase lists and the part with the most threads, its updates. Paths below are
relative to `src/backend/src/suseoro` unless they start with `src/`.

Contents: [1 inventory](#1-inventory) · [2 modules](#2-the-modules) ·
[3 runs](#3-the-runs) · [4 fairness](#4-fairness) · [5 proofs](#5-proofs) ·
[6 findings](#6-where-code-and-documents-disagree) ·
[7 not modelled](#7-what-is-not-modelled) · [8 plan](#8-plan)

## 1 Inventory

### Components, their state and their operations

| component | state | operations | modelled by |
|---|---|---|---|
| durable job queue (`jobs/repository.py`) | `durable_jobs` (status, claim token and generation, heartbeat, cancellation, retries, progress), `job_file_results` | create, claim, checkpoint, record a result, four ways to end, request cancel, retry, recover stale | `DurableJobs`, promise in `JobLifecycle` |
| worker (`jobs/runner.py`) | the claimed copy of a job row, the place in its handler | `run_once` | `DurableJobs` |
| ingestion handler (`jobs/handlers.py`) | sources, parsed rows, parse generations, repair obligations | parse each document of a job, resolve a repair | loop: `DurableJobs`; effect: `AnalysisPipeline` |
| sources (`api/routes/sources.py`) | `source_files`, `source_documents`, `upload_repair_obligations` | upload, replace, repair, map, parse, retry and cancel jobs, activate a catalog | `AnalysisPipeline` |
| comparison (`services/comparison.py`, `jobs/source_snapshot.py`) | `comparison_row_results`, `comparison_file_results` | compare one batch of rows under a snapshot | `AnalysisPipeline` |
| workspace stages (`workflow/states.py`, `api/routes/workspaces.py`) | `acquisition_workspaces.status` | bootstrap edge, start and complete an analysis | `AnalysisPipeline`, `ApprovalFlow` |
| candidate review (`workflow/candidates.py`) | `candidate_decisions` | autosave, bulk decision | `ApprovalFlow` |
| approval (`workflow/approvals.py`) | `approval_revisions`, `approval_rows`, decisions, cancellations | request, cancel, approve, reject, adjust after approval | `ApprovalFlow` |
| quotes and orders (`workflow/quotes.py`, `orders.py`) | vendor quotes, `order_revisions`, `workspace_current_orders`, transmissions | ingest a quote, generate an order, mark it sent | `ApprovalFlow`, with `Receiving` in `Procurement` |
| receiving (`workflow/receiving.py`) | delivery batches and allocations, scan sessions and events, `receiving_differences` | record a delivery, start a session, scan, set a disposition, complete | `Receiving`, `Procurement` |
| versions, edit locks, idempotency keys (`services/concurrency.py`, `idempotency.py`, `workflow/_common.py`) | row versions, leases, stored responses | guard every mutation | `RowGuards`, promise in `OnceSaves` |
| upload claims (`services/upload_idempotency.py`, `ingestion/file_store.py`) | claim generation, lease, response; files on disk | acquire, take over, complete, clean up | `UploadClaims`, promise in `OnceUpload` |
| catalog (`catalog/sync.py`, `repository.py`) | versions, source state, watermark, delta batches | stage, activate, apply a delta | `CatalogSync` |
| procurement imports (`workflow/procurement_imports.py`) | import intents | compose a parsed file into a quote or a delivery | its guards: `RowGuards` |
| backup and restore (`backup/service.py`, `db/connection.py`) | backups, restore journal, registered connections and their fence | create, retain, restore, resume a restore | `RestoreJournal` |
| event stream (`api/routes/events.py`) | `api_events`, a feed's last id | publish, replay, stream | not modelled |
| desktop: books and batches (`simple/store.py`, `batch.py`) | books, revisions, batch operations | edit, import, bulk change, undo, backup, restore | `PurchaseLists` |
| desktop: updates (`simple/update_coordinator.py`, `updating.py`, `desktop.py`) | request, phase, prepared version, two locks, a cancel event; the installer that `main` starts | check, download and prepare, install on request, switch on and off, close, exit | `UpdateCoordinator` |
| desktop: other background workers (`simple/covers.py`, `reporting.py`, `analytics.py`) | threads, slots, queues | look up covers, send reports and counts | not modelled |
| parsing, matching, exports, sessions, migration, frontend, packaging | — | — | left out, section 7 |

### How they interact

Everything in the backend meets in one SQLite database. A request runs in one
`BEGIN IMMEDIATE` transaction (`workflow/_common.py`); the worker commits at each
step of a handler; there is no shared memory. The desktop program is one process
with threads. Eight couplings carry the risk:

1. **API and worker through `durable_jobs`.** A cancellation, a retry or a
   recovery changes a row whose worker looks at it only at checkpoints.
2. **Corrections and comparisons through the snapshot.** A COMPARE job names the
   catalog version and the parse generation of every source. Both may change
   while it runs, and several COMPARE jobs write the same result rows.
3. **Approval and order through revisions.** Candidates, revisions, quotes and
   the current order refer to each other by identity; an adjustment after
   approval may invalidate any of them at any stage.
4. **Order and receiving through the current order.** A new order replaces the
   one that deliveries, scans and dispositions were recorded for.
5. **Updates through one event and one operation lock.** The background worker and
   an installation the user starts replace the same cancel event, and wait for the
   same operation lock as the exit that hands an installer to `main`.
6. **Uploads and the file store.** Rows of `source_files` are transactional, the
   files they name are not, and equal contents share one file.
7. **Restore and every connection.** A restore replaces the file under all the
   connections of the process, and its journal must survive what it replaces.
8. **Undo and everything that writes books.** An undo writes back what it kept,
   and knows what happened since only from revisions that triggers count.

### What is hard here

Slow workers whose job was given away; crashes between two commits; a
cancellation racing the end of a job; overlapping comparisons; a catalog that
rotates between two batches; corrections and repairs that reopen an analysis;
several reviewers and the requester answering the same request; chains of
adjustments after approval; orders overtaken by a reapproval; dispositions given
for a count that changed; a download that ends after the preference, the user or
the exit overtook it; a lease that runs out under its holder; answers that are
lost and requests that come again; a crash between replacing a file and noting it;
windows of deltas that leave a day out. `PROJECT.json` lists each of them at the line where it
bites, with the properties that would catch it.

### What makes each component correct

* **Jobs**: one owner per job whatever is recovered or retried; only the owner
  writes; a successful end rests on the results of the claim that ended the job;
  after a cancellation results of at most one document are recorded; a queued job
  and a requested cancellation settle unless the worker dies.
* **Analysis**: a workspace under review accounts for every row of every source,
  scored from what the source holds now and against one catalog; nothing scored
  before a correction survives it; no outcome is taken back once candidates are
  reviewed; an analysis can always go on.
* **Approval and order**: stage and verdict agree; what is reviewed is what would
  be ordered; neither list nor order ever exceeds what was approved.
* **Receiving**: a completed workspace accounts for every copy; a disposition
  holds for the count it was given for; completion is final; nothing is counted but
  for an order that was sent and is inside an approval, whatever is revised meanwhile.
* **Updates**: every operation can be told to stop; a requested check has a worker
  that will see it; what the status announces is prepared; an exit hands over only
  an installer that was wanted, and never two; nothing stays busy for ever.
* **Upload claims**: an upload takes effect once, for the body its key is bound to,
  and whoever is answered is told what took effect; no committed row loses its file.
* **Saves**: a save replaces only what its operator had read, takes effect once, and
  each answer tells what it did; a procurement file becomes one quote or delivery.
* **Catalog**: one active version, the one the source state names; a watermark that
  never goes back; no change of the library left out for good.
* **Restore**: nothing committed is lost; the database is what was restored and what
  was committed since; an operation replaces the database once.
* **Purchase lists**: an undo never loses a later change; a document has its file.

## 2 The modules

| module | what it is |
|---|---|
| `DurableJobs` | queue, workers and the loop of the ingestion handler |
| `JobLifecycle` | what the queue promises, without workers or heartbeats |
| `DurableJobsProofs` | theorems about `DurableJobs` and `UploadClaims`, and that they implement `JobLifecycle` and `OnceUpload` |
| `AnalysisPipeline` | sources, repair, catalog, comparison jobs, the workspace up to review |
| `AnalysisPipelineProofs` | theorems about `AnalysisPipeline` and `RowGuards`, and that the latter implements `OnceSaves` |
| `ApprovalFlow` | candidates, approval, quotes, orders |
| `Receiving` | deliveries, scans, differences, completion |
| `ReceivingProofs` | theorems about `Receiving` |
| `Procurement` | one workspace from review to completion: `ApprovalFlow` and `Receiving` composed |
| `ApprovalFlowProofs` | theorems about `ApprovalFlow` and `Procurement`, and that the latter implements the former and `Receiving` |
| `UpdateCoordinator` | background updates, installation, preference and exit of the desktop program |
| `UpdateCoordinatorProofs` | theorems about `UpdateCoordinator` |
| `UploadClaims` | uploads under idempotency keys: claims, leases, published files |
| `OnceUpload` | what such a key promises a client |
| `RowGuards` | row versions, edit leases and idempotency keys around candidates; imports |
| `OnceSaves` | what these guards promise an editor |
| `CatalogSync` | snapshots, activation, deltas and watermark of the catalog |
| `CatalogSyncProofs` | theorems about `CatalogSync` |
| `RestoreJournal` | backups, and a restore with its journal, fence and crashes |
| `RestoreJournalProofs` | theorems about `RestoreJournal` |
| `PurchaseLists` | lists, books, imports, undo, backup and restore of the desktop program |
| `PurchaseListsProofs` | theorems about `PurchaseLists` |
| `MC*` | symmetry sets of the instances TLC checks |

`UploadClaims` and `RowGuards` name their variables and specifications for what they
are about (`uploadVars`, `GuardsSpec`) because a proof module extends them together
with a job component; nothing relates the two otherwise.

An operator whose comment starts with *Mutant* is a plausible bug in the operator
that follows it. It is used by nothing; `PROJECT.json` names the property that
fails when it takes the operator's place.

### DurableJobs

One value of `pc` for each point of `run_once` that is between two transactions:

```
idle --ClaimNext--> claimed --Start--> checkpoint
checkpoint --Checkpoint--> check      (documents left)   or last   (none left)
check --EnsureNotCancelled--> work --ProcessItem--> checkpoint   or   guarded
guarded --Checkpoint--> check or last, on an exception swallowed
swallowed --Swallow--> checkpoint
last --EnsureNotCancelled--> finish
finish, cancelling, failing --Finish--> idle
```

A check that sees a cancellation goes to `cancelling`, one that finds the claim
gone to `failing`. The exception is the checkpoint behind a document whose mapping
has to be confirmed (`jobs/handlers.py:869`): it is inside the per-file `try`, so what
it raises, a cancellation too, is caught as a failure of the document (`guarded`,
`swallowed`). The PARTIAL that was committed becomes FAILED in a second transaction,
and the next checkpoint, outside the `try`, raises again.

`ClaimNext` is `claim_next` with its commit, `Checkpoint` is
`JobContext.checkpoint` (look at claim and cancellation, write progress and
heartbeat, commit), `EnsureNotCancelled` the look before a document and after the
handler, `ProcessItem` the parse of one document with the claim-fenced write of
its result (`RecordResult`), `Swallow` the second write of a document, `Finish` whichever `mark_*` the runner calls: with the claim gone it
matches no row and the worker goes on without having written. A claim's UUID is named by the generation it was
issued with. `Crash` loses a worker's memory and its open transaction;
`HeartbeatAges` says that the heartbeat is older than the cutoff, of a dead
worker at no cost and of a live but slow one within `MaxFaults`. `RecoverStale`
takes every such job in one transaction. `late` is a history variable: results
of a document recorded since the cancellation was requested.

The claim check and the write of a result are one step although they are two
statements. On most paths a write transaction is open by then. On the mapping path
none is, if the parse was cached: `assert_claim` is a query of its own, and a recovery
and a new claim may come before the INSERT. What decides then is not
`record_file_result` but the triggers `job_file_results_scope_insert`
(`db/migrations/0006a_api_hardening.sql:11`) and `job_file_results_scope_update`
(`0013_task8_round5_count_restoration.sql:35`): they abort the statement unless the
job is RUNNING under the token and generation of the row that is written, so a worker
whose claim is gone fails there as it would have at the check.

`JobLifecycle` is the promise: an owner is a claim number never given out before,
results are recorded by the owner only, `SUCCEEDED` and `PARTIAL` need results of
that owner for every document, a document is recorded once by an owner except that a
PARTIAL may be withdrawn into a FAILED, and a job whose cancellation was requested
records results of at most one more. `DurableJobs` implements it with the refinement mapping
`owner <- token, issued <- gen, recordedBy <- resultGen`.

### AnalysisPipeline

A source is `ABSENT`, `PARSING`, `PENDING` (a mapping is needed or rows were
discarded), `READY` or `FAILED`, with the generation of its rows. `ABSENT` stands
both for no source and for one whose role is not compared: `Remap` changes the
role in either direction. A place of `Docs` is used again when its source is
replaced. Of the upload repair obligations only the newest is followed; it opens
at any stage, because a rejected file of role UNKNOWN opens one too, and blocks
comparisons until a repair is parsed. `ReserveRepair` is a transaction of its own,
as in the code, and may be followed by nothing.

A COMPARE job's `snap` is its payload: catalog version and generation of each
source it names. `Start` validates what it names, `Select` reads the next open
row outside any transaction, `Batch` is `compare_documents`: validate the whole
snapshot again, score the row unless it is done, publish the file result when no
row is open. A batch holds one row here; the code's batch size only changes where
checkpoints fall. `Finish` is the runner's end with
`complete_analysis_for_succeeded_job` in the same transaction. One effective
worker per job is enough: `DurableJobs` proves that no other one writes.
`CANDIDATE_REVIEW` stands for itself and for every later stage.

### ApprovalFlow

A line is a quantity and a price, quantity 0 being no line. `rev` holds the
sealed revisions with their verdict, `order` the current order. Each request is
one action, because each is one `BEGIN IMMEDIATE` transaction, and only requests
made from current row versions appear: others are refused and change nothing.
`Adjust` is the whole of `adjust_approved_candidate`: the edit, the decision
whether it must be approved again, and the revision it then creates.
`GenerateOrder` chooses the quoted prices, since the quote is checked only there.
`Receive` and `Complete` are receiving as seen from here. Every user may operate
and review; separation of duties is the guard `by # u \/ SingleOperator`.

### Receiving

Counts of scans and deliveries by order row, and the differences they raise.
`short` is the `scan:missing` difference of a row, `partial` the delivery
difference of a row, each with the count it was found at: `InsertDifference`
returns the same finding with its disposition and makes a new one at another
count, which is what the unique reference key and its details give. Differences
of single events (unordered, over, edition, ISBN, price) are counted in `loose`.
`REVISING` stands for the stages before the first order and for those of a
reapproval, during which scans and dispositions are still accepted, as the code
accepts them. `GenerateOrder`
replaces the current order and leaves an open scan session open.

### Procurement

The one workspace that `ApprovalFlow` and `Receiving` describe from two sides. It has
the variables of both, with status, ordered quantities and transmission shared:
`R!ws` is the status where an order stands and `REVISING` elsewhere, `R!ordered` and
`R!sent` are read off the current order. `Deliver`, `StartSession` and
`CompleteWorkspace` are the actions of both at once, `PlaceOrder` is
`generate_revision` with what it means for the counts, `ScanOne` and `Dispose` go on
at every stage, and `Prepare` is every other request, which receives nothing. Its two
abstract specifications are the two modules it is made of: a step of it is a step or
a stutter of `ApprovalFlow` and of `Receiving`.

### UpdateCoordinator

One action per section under `_lock`, and one per call between two sections. Three
threads have a place each, `worker.pc`, `manual.pc` and `leaving.pc`:

```
worker:  none -> top -> acquire -> check -> decide -> download -> publish -> top ...
manual:  idle -> begin -> check -> offer -> download -> launch -> finally -> idle
exit:    open -> join -> acquire -> verify -> launch -> ended
```

A worker that is stopped goes through `cancelled`, one that fails through
`failed`, a failed installation through `failed` to `finally`; a worker at `top`
without a request retires (`none`), one that meets `closing` after its check
returns and leaves `_worker` set (`ended`). `current` says whose event `_cancel`
is, `operation` who holds `_operation`; leaving a `with self._operation` block
belongs to the last step inside it. The requests are `RequestCheck`,
`SetPreferences`, `ManualRequest` and `RequestExit`. Switching on takes two
sections, the second of which (`AskAfterEnabling`) is the `request_check` it ends
with; one preference request runs at a time. The preferences file is written
before memory changes, and a failure to write changes neither. Check, download
and verification are seen by their outcomes: nothing new, a version, stopped,
failed. An installer is named by its version. `main` launches at most one
installer, the one of `install_update` before the one `close` returned, and none
when it ends with an exception. `CloseJoin` and `CloseAcquire` may give up, as
their 20-second limits do. The state after a restart is the initial state with
the preference of the file.

### UploadClaims

A request goes `idle, staged, validated, claimed, mutating, answered`, or to
`cleaning` and `refused` when something fails. The claim of its key is
`upload_idempotency_claims`, the `ledger` is `idempotency_keys`; both are written
in short transactions of their own until `Begin` takes the write lock (`writer`)
for the mutation. `Publish` is the exclusive link of a file and is undone by no
rollback; `Cleanup` removes what the request created and no row of `source_files`
names. A lease runs out at any time while its holder goes on, and `AcquireTake`
then gives the claim to another request with the next generation. A body is what the fingerprint is
taken of; a `ledger` entry of an earlier release is known by its files only, which
is why `Init` starts with any such entries. The mutation itself is one commit: what
it does to sources is `Upload`, `Replace` and the repairs of `AnalysisPipeline`.

`OnceUpload` is the promise, without leases, generations or files. The refinement
maps its `bound` to the body of a claim, `took` to the executions committed under
a key and `told` to the answers given.

### RowGuards

`rows` are candidate decisions with identity and version. A save is written from
what its operator read (`Write`), with a key that need not be fresh, and may be
sent at any time and repeatedly. `Autosave` refuses as a whole, `BulkDecide` skips
what is locked, gone or changed, `Adjust` asks for no lease. `Apply` commits the
rows with the stored answer and lets the answer be lost. A lease is a holder or
nobody; an expired one is nobody. Comparisons score rows (`Rescore`) and the
recovery of one deletes them and makes them anew (`Recreate`), with versions that
start again; a late save of the old row must not hit the new one. `score` and `by`
are read by properties only.

`OnceSaves` knows neither versions nor keys: a save is made from a base, takes
effect once on candidates that still hold it, and the answer is what it did. The
refinement maps the values of the rows, the bases of the requests and the stored
answers. `Compose` adds the import of procurement files, whose row is its own key.

### CatalogSync

The library's register is outside the program and is modelled by what its exports
contain: a revision per book, with the day of its registration and last change. An
operation is one transaction. A staged snapshot keeps the version that was active
then (`expected`), and is refused after another became active. `DeltaAccepted` is
every check of `apply_delta`, `DeltaPartial` a batch with row errors, which is
recorded and may be tried again, `DeltaApplied` a copy of the active version with
the records of both files. Assumed: an export is taken no earlier than the
last day of its window; a full export is staged at most `StagingDelay` days
after it was taken, which is no more than `Overlap`; books that leave the library
are in no delta. A file without rows is never parsed successfully.

### RestoreJournal

A database is the set of transactions in it: `main` the file, `wal` its log, `gen`
how often the file was replaced. A restore is `prepare, fence,
close, checkpoint, ready, replace, unlink, swapped, finish`, one step for each
write another thread or a crash can come between. `Refuse`, `Replay`,
`RecoverSwap`, `Resume` and `Start` are the ways a key is answered, by the phase of
its journal entry and by the digest of the file (`main = target`). `Fail` is an
exception at any step, `Crash` the end of the process.

A daily or manual backup takes two steps, `BeginBackup` and `EndBackup`, because it
reads through a raw connection (`backup/service.py:181`) that is not registered: the
fence neither waits for it nor closes it. `reading` is what it sees, of which file,
and whether the log was removed under it (`cut`). While such a reader is there,
`Truncate` may find the log busy, and goes on, as the code does, which never looks at
the answer of the pragma; a closed connection whose last statement is not finished
does the same, so the busy outcome is possible without a backup too. `CloseFiles` is
what SQLite does when a connection is closed, the last of which moves the log into
the file. History variables: `expected`, what was restored last and committed since;
`busy`, that the restore under way could not empty the log; `foreign`, that before
this log was removed the restore ended or a backup was begun, so that what is in it
may be read into the new file.

Assumed: closing a connection waits for a commit under way and does not fail; the fence
goes on if it does (`db/connection.py:75`), and what the model has of that case is the
busy log, not a commit through the connection that stayed open. Left out: the audit
record of a restore, which is not written for one that was recovered. Two things the
code does are visible in the model and no property excludes them: after a crash between
SWAP_READY and the replacement the key stays refused, and retention may delete the daily
backup an old answer refers to, whose replay is then refused. Once `foreign` is set the
database may hold anything of both files; `NothingLost` then says what SQLite would
read, not that the pages of the two fit together.

### PurchaseLists

A request of the desktop program is one transaction; only uploads and restores
also write files. A book is its identity (ISBN or bibliography), a price, the
origins of its recommendations and three marks. `Write` counts revisions as the
triggers do, also for the rows that a restore deletes and writes again.
`ImportBatch` distributes rows over books of the same identity and price, flags
those that disagree, and keeps what it changed; `Undo` looks at the revisions of
all its books first. A restore writes its files under new names (`StageFile`), then
replaces everything in one transaction, or removes its own files (`FailRestore`).
Files without a row stay on disk; that is what the code does. Holdings, settings
and templates are written and restored in the same way and left out.

## 3 The runs

| run | instance | what it shows |
|---|---|---|
| `jobs_safety` | 2 workers, 1 job, 2 documents, 1 retry, 2 faults | one owner, honest ends, fenced writes, bounded cancellation, and that every step is one of `JobLifecycle` |
| `jobs_liveness` | 1 worker, 2 jobs, 1 document, 1 retry, 1 fault | queued jobs and cancellations settle |
| `analysis_safety` | 1 source of 2 rows, 2 jobs, 2 catalogs, 2 generations | complete output of one snapshot, no outcome taken back, with overlapping jobs |
| `procurement` | 2 candidates, 2 users, 2 revisions, one price, budget and copy, 1 single difference | stage, verdict, list, order and counts agree in every order of requests and scans, and every step is one of `Receiving` |
| `receiving_safety` | 2 books, 0..2 copies ordered, 0..3 received, 1 single difference | completion accounts for every copy, dispositions fit their count |
| `update_exit` | 2 versions, 1 of them unattended | operations can be stopped, requests are seen, announcements and handovers are true, nothing starts during the exit; busy phases, installations and the exit after an installer end |
| `uploads` | 3 requests, 2 keys, 3 bodies (two of the same file, one of two files), 2 limits, 1 crash, any answers of an earlier release | an upload takes effect once and is answered truly (`OnceUpload`); no row loses its file |
| `catalog` | 2 books, 2 revisions, 2 versions, 1 document of each role, 3 days, overlap 1, a full snapshot every 3 days | no change is left out, the watermark stands |
| `restore` | 2 requests, 1 key, 1 connection, 2 transactions, 3 backups, 1 crash | nothing is lost, the database is what was restored and committed since, one swap for each operation |
| `books` | 2 lists, 2 books, 2 rows of one identity with 2 prices, 1 operation, 1 request id, 1 uploaded file, 2 file names, 1 backup, 3 writes | an undo loses nothing; documents keep their files through restores |
| `requests` | 2 operators, 2 candidates, 2 saves, 1 key, 1 import, 1 scoring | a version tells the content; every save and import is one of `OnceSaves` |
| `receiving_replaced` | smallest that shows it | section 6 |

**Bounds, and why they are enough.** Two workers and two faults are the least in
which a job is given away while its first owner lives, and given away once more;
one job suffices because jobs share nothing but the queue order, which
`jobs_liveness` has two for; with retries and faults bounded, no job is kept waiting more often than
these allow. Two documents give a boundary between documents. Two
comparison jobs give the overlap the code allows (the rescoring of section 6 takes a
third, which only the theorem covers); two rows let one be scored
before and one after an event, two catalog
versions and two generations make a rotation and a correction. Two revisions
are a request and a reapproval, or a cancelled request and the next; the budget of
one book makes a list of two exceed it; two users are a requester and somebody else.
In `receiving_safety` `MaxReceived` above `MaxQty` reaches OVER; `procurement`, whose
counts go to one, is about what they are counted for. Of two versions one installs
unattended and one must be installed by hand, so that a prepared version can differ
from the one offered now; `UpdateCoordinator` counts nothing, so it has no other bound,
and checks, installations and preferences repeat without limit. Three uploads are
a holder, one that takes its claim over and one with the same content under another
key. Three days with an overlap of one are a window, a gap and the day after; two
versions are the active one and the one that is staged, activated or made by a
delta, and `VersionsLeft` follows a behaviour until they are used up. Two
requests to restore are one that crashes or fails and one that
comes again, three backups the one restored, one made before the restore and one
under way beside it. Three writes of two
books are an import of both and an edit, or an edit, a bulk change and its undo. Two saves with
one key are a conflict of content, a repetition and a lost update. All bounds are
CONSTANTS named BOUND in the modules, and the theorems of section 5 hold without
them. Symmetry is used in safety runs only, over sets whose members the
specification does not tell apart.

Type invariants are stated in every module and proved for all constants (section 5),
as `ActiveIsCurrent` of the catalog is; no run spends its time on them.

`CHECK_DEADLOCK FALSE` is set throughout: with all jobs ended and the bounds
used up, the workspace completed, or the program ended, nothing is left to do.

## 4 Fairness

`FairSpec` of `DurableJobs` has weak fairness on the steps of each worker and on
nothing else. A worker process calls `run_once` in a loop (as
`src/backend/tests/e2e_server.py:207` does), and every transaction it tries either
commits or raises, so a worker that can step does. Users owe nothing.
`recover_stale` gets no fairness because nothing under `src/` calls it on a
schedule; both liveness properties therefore except a job whose worker died and
that waits for somebody to recover it. `QueuedJobSettles` needs no fairness for
the choice of the job: `claim_next` takes the oldest queued job, and retries are
bounded.

`FairSpec` of `UpdateCoordinator` has weak fairness on the steps of the worker, of
an installation and of the exit, on the second half of switching on, on the timer
`install_update` starts, and on `main` noticing an exit request. Each of these
threads runs on its own, a download is bounded (`_read_bounded` has a deadline),
and whoever holds `_operation` gives it up. Nothing is assumed of the user: no
check, installation or exit need ever be asked for. Weak fairness on the worker as
a whole is enough because an installation that waits for the operation first
stops the worker, which then ends its round and retires.

## 5 Proofs

All proofs are for every value of the constants under the modules' named
assumptions (`JobsAssumption`, `ApprovalAssumption`, `AnalysisAssumption`,
`ReceivingAssumption`, `ProcurementAssumption`: bounds are naturals, prices and budgets
sets of naturals; `UploadAssumption`: a body has a set of files, limits are naturals,
the null value and the mark of an earlier release are none of the other values;
`GuardsAssumption`: candidates are finitely many, the null value is none of the other
values; `CatalogAssumption`: a staging is delayed by no
more than the overlap; `RestoreAssumption` and `ListsAssumption`: the null value
is none of the requests, keys, backups or file names; `UpdateAssumption`:
versions are positive, those that install unattended are among them).

**DurableJobsProofs.** Type correctness, `OneOwner`, `EndsOnOwnResults`,
`CancelStopsAtBoundary`, the action property `FencedWrites`, and
`Spec => Lifecycle!Spec`. None of the invariants is inductive alone. `IInv` adds

* `ClaimInv`: a running job's token is its generation, no worker holds a token
  from the future, and two workers that hold the same job hold different tokens.
  It gives `OneOwner`: two owners would hold the job's one token.
* `ResultInv`: no result is of a claim yet to be given out, so that the owner of a new
  claim has recorded nothing yet.
* `HandlerInv`: the loop's counter at each `pc`; a worker at `finish` has all
  documents behind it, one at `guarded` or `swallowed` the one it has just recorded.
* `OwnerInv`: what the owner knows. Every document behind it was recorded with
  its own generation; it goes to `cancelling` only if a cancellation was
  requested; and once a result was recorded late it stands where the next thing it
  does is look at the cancellation, or write that document once more. It is stated of the owner only: a worker whose
  claim is gone knows nothing, and need not, because it cannot write.
* `LateInv`: late results are of one document, a second one is a FAILED, and none is
  without a cancellation.

Each conjunct has a lemma with one step per action; `OwnerFrame` is the common
case in which an action touches neither an owner nor its job. The refinement maps
each action to its counterpart, and every step that only moves a worker to a
stutter.

Of `UploadClaims` it has `RowsHaveFiles` and the refinement of `OnceUpload` (`ImplementsOnce`). Files outlive
rollbacks, so that no clean-up takes a file a row needs is about what several
requests know of one disk. `UploadInv` adds

* `Writing`: one request has the write lock, what it linked is on disk, and its key
  has no answer yet. A clean-up looks at rows under the same lock, so no row can
  come to refer to a file between the look and the removal.
* `Unpublished`: before its mutation a request linked nothing, hence has nothing to
  clean up that another one's row could refer to.
* `Answered`: a key's claim and ledger agree on what was answered, and there is at
  most one such answer. This is what makes a takeover or a replay a stutter of
  `OnceUpload`, and a second commit under a key impossible.

**ApprovalFlowProofs.** The five invariants of `ApprovalFlow` are inductive
together: `StageMatchesVerdict` says that the last revision decides, hence that
the latest approved revision of an approved workspace is the last one
(`ApprovedRevision`) and that a reviewer's decision falls on it
(`DecidedRevision`); with that `ListWithinApproval` survives an adjustment and
`OrderWithinApproval` follows from the checks of `GenerateOrder`. Totals are only
compared, so `SumFunction` stays unexpanded and the proof does not depend on what
it computes.

Of `Procurement` it proves that every step is one of `ApprovalFlow` or leaves it alone
(`ProcurementImplementsApproval`), and the same of `Receiving`
(`ProcurementImplementsReceiving`). The first is immediate, the second is not: that a
generated order has a line, of a quantity in range, and that an order is only sent
where one stands, follows from the invariant of the approval flow. With the two
refinements the invariants of both halves hold of the workspace: the theorems of
`ReceivingProofs` are instantiated with the mapping, and what neither half can say is
proved of the whole:

* `ReceivedIsApproved` needs what `OrderWithinApproval` does not give, because copies
  are counted while a later revision is pending and the stage is none of an order.
  `ProcurementInv` adds that the current order stays inside the revision it was made
  from and that this revision stays approved (`OrderIsApproved`; `ApprovedStays`: only
  the last revision is decided or cancelled, and only while it is open), and that
  nothing is counted for an order that was not sent (`CountedIsSent`).
* `CompletedIsApprovedAndReceived`: a completed workspace shows an order inside the
  revision approved last, and every copy of it received or disposed of at the count
  that stands.
* `CompletedStays`: no request, of either half, changes a completed workspace: its
  stage admits none of them, and no scan session outlived the completion.

**UpdateCoordinatorProofs.** Type correctness, `OperationsCanBeStopped`,
`NoRequestIsLost`, `AnnouncedIsPrepared`, `HandoverIsWanted` and the action property
`NothingStartsWhileClosing`. The inductive invariant adds to the types

* `Exclusion`: who holds `_operation`, that `pending` is the presence of an
  installation and `closing` that of an exit. Two operations never overlap.
* `Stopping`: the event a thread lost was set before it was replaced, and the
  reasons to stop (`closing`, `pending`, `started`) have reached the worker. An
  installation keeps its event while it runs, because a worker that retires its
  round cannot begin another while `pending` holds.
* `Preparing`: a worker that downloads works on the version shown, and what is
  prepared is that version except while an installation is under way, which
  either succeeds and clears it or fails and clears it.
* `Leaving`: what `close` took along is still wanted: after `closing` no preference
  changes and nothing becomes ready.

Type correctness is split by groups of variables, one lemma each.

**CatalogSyncProofs.** `NothingMissed`, `ActiveIsCurrent`, the action property
`WatermarkStands`, type correctness and `NoBatchTwice`. `NothingMissed` speaks of
the active version only, and a delta makes the next one of it, so `CInv` adds

* `Bounds`: no file, version or date is ahead of the library.
* `Exports`: a file has each record last changed in its window as it is now
  (`HasItsWindow`), its last day excepted, because the library may change a book
  after the export of that day. The next window reaches back behind it.
* `Staged`: a staged snapshot has everything up to its date minus the overlap, and
  while the version it expects is still the active one its date is not before the
  watermark. This is where `StagingDelay <= Overlap` is used.

`MakeActiveRows` and `SwitchKeeps` say once what activating any version does, for a
snapshot, the first version's catalog and a delta alike.

**RestoreJournalProofs.** `NothingLost`, `RestoredExactly`, `SwapsOnce` and type
correctness. `RInv` has two halves, because most steps disturb one of them only.
`Control` is where requests, fence and journal are:

* `Fenced`: the request that works holds the lock, and from the pre_restore backup to
  the swap the database has no registered connection.
* `Journaled`: the phase of the key while its request works, and that nothing was
  swapped when the swap begins.

`Data` is what the files hold:

* `Kept`: from the pre_restore backup on, a pre_restore backup has everything that was
  committed. It does not say which one: what an earlier restore took away is in an
  earlier one.
* `LogGone`: from the checkpoint on the log is empty, or the restore is `busy`.
* `Clean`: between replacement and removal of a log the file is what was restored and
  no backup has the two open, unless that is on record in `foreign`.
* `ReadInv`: what a backup under way saw is in the database it was begun on, and in the
  file itself once the log was removed under it. Without it the end of a backup could
  bring something into a restored file.

A crash ends every request and every backup, so each conjunct holds of what is left.
`LogMoves` says once what any checkpoint, close or end of a backup leaves, and
`GivenUp` what a failure and a crash leave.

**PurchaseListsProofs.** `UndoLosesNothing`, `DocumentsHaveFiles` and type
correctness. The undo compares revisions, not books, so `PInv` adds

* `Standing`: no revision is behind the one an operation noted, and a book whose
  revision is still that one is as the operation left it. It holds although
  operations overlap, because every write, an undo's and a restore's too, raises
  the revision of its books; a restore forgets the operations altogether.
* `Owned`: the files that a restore may remove are there and belong to no document,
  no upload and no other restore. They become the documents' in the step in which
  the restore gives up its claim to them.
* `Restoring`: a restore under way has a backup of the types it is written back to.

`OperationKeeps` says once what every saved operation does, for imports and bulk
changes alike, and `WriteStands` what any write does to the operations before it.

**AnalysisPipelineProofs.** `ReviewAccountsForEveryRow`, `DraftHasNoOutput`,
`AnalysisCanContinue`, the action property `ReviewKeepsOutcomes`, type correctness,
and `SourcesStandStill`, which no run states. Review is reached by counting file
results that any job may have published, so `AInv` is about what the jobs share:

* `Snapshots`: while a comparison is active no source changes, because every
  correction waits for all active comparisons. Active jobs name the same sources,
  which are all there are, and differ at most in the catalog version.
* `Results`: each result is of the rows its source has now, all are of one catalog
  version, and it is the active one as long as an active job of that catalog may
  add to them. A batch checks the catalog in its own transaction, and a retry, which
  takes a new snapshot, drops what there was. A source has a file result exactly
  when none of its rows is open, so counting file results is enough
  (`ReviewIsComplete`).
* `FailuresHaveAJob`: a failed source was failed by a job that is active, or may be
  retried, and that cannot end SUCCEEDED.
* `HasLeader`: some job may be retried, or is active and no later retry took back
  what its worker has done with (`Fresh`). This is what `AnalysisCanContinue` needs:
  a job that ends SUCCEEDED without completing the analysis, because a retry dropped
  results behind its back or another job failed a source, leaves one of the others
  (`SomeoneRemains`).
* `Places`: a worker works on sources its payload names, and on nothing when its job
  is not running.

Steps are grouped by what they do to the invariant: `DraftAgain` for whatever ends
in a draft, `Begins` for creation and retry, `MovesWorker` for what writes no output,
`BatchAddsTo` for a batch that succeeds.

Of `RowGuards` it has `VersionTellsContent` and the refinement of `OnceSaves` (`ImplementsOnce`). A
guard compares a version, the promise compares what was read; `GuardsInv` relates
them:

* `SeenIsPast`: what a request was made from is behind its rows, in the order of
  identity, then version, and the same identity and version have the same values. It
  holds although comparisons delete rows and make them anew with version 1, because
  no identity comes back.
* `StoredIsOwned`: a stored answer belongs to the save that reserved its key, so that
  a replay tells a client what its own save did.
* `MadeOnce`: a file that is imported was made into one quote or delivery.

**ReceivingProofs.** `CompletedIsAccountedFor`, `ShortagesAreTrue`, the action
properties `CompletedIsFinal` and `DispositionIsForItsCount`, and type correctness.
`RInv` adds the counterpart of `ShortagesAreTrue` for deliveries
(`DifferencesAreTrue`), its converse (`DifferencesAreFound`: once an ordered book was
delivered no total differs without an active difference, without which "nothing is
unresolved" would say nothing), and that no scan session outlives the completion.
`Refreshed` says once what a refresh of either kind of difference leaves.

**Only model-checked.** The liveness properties of `jobs_liveness` and `update_exit`
(`CancelSettles`, `QueuedJobSettles`, `BusyEnds`, `ManualEnds`,
`InstallerLeadsToExit`: fairness and ENABLED are out of the proof system's reach) and
the violation of section 6. Every invariant, action property and refinement that a
run checks is a theorem. Nothing proved here rests on induction over data, which the
installed provers cannot do, and no module declares a RECURSIVE operator.

## 6 Where code and documents disagree

`receiving_replaced` is a run in which TLC finds the stated property violated;
`PROJECT.json` quotes the document.

* `GapsCanBeScanned`: the scan session of a replaced order keeps the new order
  from being scanned.

Seven more divergences were met while modelling and proving and are what the code
does in the models; none has a run of its own.

* A cancellation, or any other exception, that meets the checkpoint of
  `jobs/handlers.py:869` is caught by `except Exception` at line 934, whose comment says
  that one file must not drop its peers: a document that only waits for its mapping
  becomes FAILED, with a PARSER_FAILURE row in place of the mapping question that was
  already published. `CancelStopsAtBoundary` therefore bounds the documents that are
  recorded after a cancellation, and lets one of them be recorded twice.
* `quiesce_database` is to "close process-owned handles for an atomic restore swap"
  (`db/connection.py:62`), but does not know the raw connection of a backup, and
  `backup/service.py:454` does not look at the answer of its checkpoint. With a backup
  under way the log may survive the checkpoint and then lies beside the new file for
  the time between lines 460 and 462. If the restore fails or the process dies there,
  or another backup opens the database, the next connection reads a log that belongs
  to another file. `RestoredExactly` names exactly these cases: without either of its
  exceptions (`LogLeft`, `foreign`) TLC finds a counterexample in the same run.

* `PATCH /workspaces/{id}/status` takes a draft to ANALYZING with no job that could
  move it on (`workflow/states.py:55`; the product specification has the system
  leave that stage by itself). `AnalysisCanContinue` is therefore restricted to
  workspaces in which some comparison job exists.
* A cancelled comparison retried beside a newer one lets a workspace advance
  although rows failed (`api/routes/sources.py:2193`), which
  `test_partial_compare_is_retryable_and_does_not_advance_workspace` excludes for
  one job.
* A reapproval may be pending while a candidate needs review, and its snapshot
  still says `unresolved_complete` (`workflow/approvals.py:1041`).
* A comparison may still score rows while candidates are reviewed. A job picks an
  open row outside any transaction; another job records an error for that row,
  publishes the file as PARTIAL, and a third, which ends SUCCEEDED, moves the
  workspace on; then the batch of the first scores the row again, because an error
  "remains retryable" (`services/comparison.py:510`) and the batch looks at
  sources and catalog but not at the stage. It was the proof that found this, two
  jobs do not suffice for it: an earlier property, that nothing changes under review,
  is false with three. `ReviewKeepsOutcomes` is what holds: such a batch can only
  match a row that was an error, from the same rows and catalog.
* `workflow/states.py` calls its table of transitions exact, and
  `test_exact_state_table_allows_only_the_documented_edges`
  (`src/backend/tests/test_candidate_workflow.py:99`) repeats it, but only
  `transition_workspace` asks it. The services write the status themselves, on two
  edges the table does not have: a correction takes ANALYZING back to DRAFT
  (`api/routes/sources.py:179`, `Reopen`), and an adjustment that needs approval takes
  APPROVED to APPROVAL_PENDING (`workflow/approvals.py:1048`, `Adjust`).

## 7 What is not modelled

Scores and file contents are choices: what a parser reads, how a title is
normalised, which candidate a score selects. Row versions, edit locks and
idempotency keys decide which of two requests wins, not what it does: `RowGuards`
has them around the candidates, the other models see requests that won. Upload
claims are in `UploadClaims` only, for the same reason. Vendor matching, order splitting and artifacts, audit
records, exports, events, comments and read receipts are left out because no
other component reads them. Roles enter as users that may take an action. HTTP
schemas, passwords, sessions, the migration of old data, the frontend, the
packaging scripts and the report service keep no state the properties are about.
Of the updates the installer itself, which waits for the process to end, and the
latency of the exit are outside.

The event stream (`api/routes/events.py`) and the desktop's cover service, report
queue and counts are not modelled; section 8 says what they would add.

## 8 Plan

The core path and what guards it are modelled, checked and, but for liveness, proved.
What would come next, the most useful first:

1. **The stages**: the table of `workflow/states.py`, with the two edges of section 6,
   as an abstract specification that `AnalysisPipeline` and `Procurement` implement.
2. **The workspace before review**: `AnalysisPipeline` composed with `Procurement`, so
   that a candidate's outcome is the one a comparison gave it.
3. **Saves and what they do**: `RowGuards` around the mutations of `Procurement`, in
   place of the argument that only requests from current versions appear.
4. Smaller ones: `CoverSlots` (slots, shared look-ups), `ReportQueue`, `EventFeed`,
   and the single-instance lock of the launcher.

# Verification of the parliament service

TLA+ modules, TLC configurations and TLAPS proofs about the program in this
repository: what its parts do to the state they share, in the orders and with
the interruptions the deployment allows.

- [The system](#the-system): its parts, their state, and where they meet
- [What is modelled](#what-is-modelled): the modules and the code behind them
- [What the runs check](#what-the-runs-check): instances, bounds, results
- [Where code and documentation disagree](#where-code-and-documentation-disagree)
- [What is proved](#what-is-proved)
- [What is not modelled](#what-is-not-modelled)
- [Plan](#plan)

## The system

The service follows the activity of the Korean parliament and government: it
collects official records, keeps every original it ever saw, turns some of
them into reviewed, published activities and tells subscribers about them. A
Java application (Spring WebFlux, R2DBC, MySQL at REPEATABLE READ) owns the
database and the public API; a Python worker does what leaves the database
(queue, files, e-mail, paid inference); systemd timers start the worker, a web
and a mobile application show the result.

| Component | State it keeps | Operations | Module |
|---|---|---|---|
| Page ingestion (`ParliamentIngestionService`) | records, checkpoint and sync state of each source | `/run`, `/sync`, `/reconcile`, the scheduler | `PageSync` |
| Scheduling and history (`ParliamentJobGuard`, `...HistoryRepository`) | the guard (in memory), run and source rows | begin and end of a job | `IngestionRuns` |
| Child sources (`ParliamentParameterResolver`, `...ChildRefreshRepository`) | parameters, watermark per child | choose the parents whose children are read again | `IngestionRuns` |
| Version outbox and relay (`SourceVersionRepository`, `SqsOutboxRelay`) | version rows, outbox rows | archive with the page, send, mark | `VersionPipeline` |
| Consumer and archive (`SqsVersionConsumer`, `VersionArchive`) | sqlite ledger, raw and derived files | receive, archive, commit, delete | `VersionPipeline` |
| Watched inputs (`graphrag/inputs.py`) | batch files in a directory, a reviewed file, the graph's sources | put a batch, scan | `GraphInputs` |
| Bill board (`bill_collect.py`) | the cursor of the sweep, raw pages, the cycles under way | one cycle: hot pages, a part of the sweep, changed bills | `BillFeed` |
| Roster (`roster/collection.py`, `graph_refresh.py`) | run receipts, records of each run | collect a run, refresh the inputs from two runs | `RosterRefresh` |
| Government documents (`storage.py`, `processing.py`) | raw files, metadata, an index | collect, build and import an event | `RawDocuments` |
| Paid summaries (`review.py`, `summaries.py`) | sqlite budget ledger, two files per draft | reserve, pay, settle | `SummaryDrafts` |
| Activity review, knowledge batches, feed (`TrackingRepository`, `KnowledgeRepository`) | events, versions, latest version, batches, the day's budget | import, publish, reject, read page by page | `Publication` |
| Knowledge pilot (`knowledge/`) | rows in one replaced file, originals, copies, reports | collect a job, prepare a batch | `KnowledgePilot` |
| Accounts (`TrackingAuthRepository`) | users, login tokens, follows | login link, verify, settings, opt-out | `MailDelivery` |
| Digests (`TrackingDigests`) | versions each user was told of | build a digest per user | `MailDelivery` |
| Mail worker (`MySqlMailOutbox`) | mail rows and their status | preview, claim, send, mark | `MailDelivery` |
| GraphRAG factory (`graphrag/execution.py`, `recovery.py`) | sqlite jobs with leases, the pause | claim, prepare, submit, poll, recover | `InferenceJobs` |
| GraphRAG planning (`index.py`, `factory_plan.py`, `engine.py`) | sources, artifacts with their dependencies, the model row | scan, reconcile, plan, project, reactivate | `GraphPlanning` |
| GraphRAG retries (`output_retries.py` and the contracts) | contract and request of each attempt | choose and build the next attempt | `RetryLadder` |
| GraphRAG questions (`query.py`, `reduction.py`, `api.py`) | questions, answers, their jobs | ask, reduce, tell the status | `Questions` |
| GraphRAG relation checks (`*_repair.py`, `ex_officio.py`, `policy.py`) | one job and one graph per candidate | plan, verify, project | `RelationChecks` |
| Operations | one lock for all worker kinds, backups | start and stop, snapshot, dump, restore | `WorkerBackup`, `DatabaseBackup` |
| Laws, office profiles, radar, web, mobile, beta, metrics, dashboard, social links | files, counters or none | operator commands, display | none |

`PROJECT.json` lists every one of them with its sources and status.

**Where they meet.** Ingestion writes a page, its versions and their outbox rows
in one transaction; the relay and the consumer know each other through SQS
alone. Published versions are what digests are built from, and digests reach the
mail worker through rows of one table. The planner of the GraphRAG coordinator
adds jobs that its executor sends, in one process and one sqlite store, with the
threads of the operator API beside them; its sources are what the batches in a
watched directory say, into which bill cycles, roster refreshes and curators put
theirs. All kinds of worker share one `flock`.

**What is hard.** Runs are interrupted anywhere and started again: by the
visibility timeout of the queue, by `TimeoutStartSec` (which ends the client of
the container, while the container itself may go on: two workers of a kind are
possible), by the operator. The database, SQS, SES and the file system are
separate stores with no common transaction, so each protocol stands or falls
with the order of its writes. Retries repeat what may have been done already.
The lists that are paged through (API, bill board, roster) change between two pages.
Web requests, digest builds and mail workers meet on the same rows. What the factory has generated
rests on sources, on other results and on a model, each of which may change
before, during and after. `PROJECT.json` keeps the list of these hazards, each
at its line, with the properties that cover it.

**What makes each part correct.** Ingestion: resuming skips nothing, a sync
leaves the store as the list is and removes nothing still listed, no changed
parent is passed over. Outbox and archive: a version that was observed never
drops out between database, queue and archive; an acknowledgement means the
files are there. Documents and pilot: what is imported can be traced to an
original that is there. Bills and roster: the cursor passes no change that is not
in the inputs, curated sources stay. Accounts, digests, mail: nothing is sent
twice, each version reaches a user in at most one digest, an opt-out is final, the
queue drains. Publication: batches are decided whole, the feed misses and repeats
nothing. Factory and paid drafts: nothing is paid for twice, an unknown
acceptance is never taken for a refusal, budgets hold. Planning: nothing the
configured model is to give is forgotten, no fit claim of a question is lost between
two rounds, an edge rests on sources as they are. Backups: what can be restored is
consistent.

## What is modelled

Each component has a module with its state, one action per operation and its
properties; the proofs are in `...Proofs` modules. In all of them a call that
fails, with or without its effect, and the death of a process are actions of
their own, counted and bounded (`MaxFaults`, `MaxErrors`, `MaxMishaps`, ...).
Definitions commented as mutants are wrong on purpose: they show that a property
can fail, and nothing else refers to them.

Modules whose components share no state are checked together by an `MC...` module
that picks one of them at the beginning, runs it and leaves the others where they
began; a run then explores the sum of their state spaces and not the product.
Nothing is lost by it, since a property of one reads the variables of that one
only.

| Run module | Parts |
|---|---|
| `MCMailDelivery`, `MCInferenceJobs`, `MCPageSync` | the module of that name, with symmetry |
| `MCChangeFeeds` | `VersionPipeline`, `BillFeed`, `RosterRefresh`; the last two share the variables of `GraphInputs` |
| `MCIngestion` | `PageSync`, `IngestionRuns`, `DatabaseBackup` |
| `MCContent` | `RawDocuments`, `SummaryDrafts`, `Publication`, `KnowledgePilot`, `WorkerBackup` |
| `MCGraphPlanning` | `GraphPlanning`, `RetryLadder`, `Questions`, `RelationChecks` |
| `MCWorkerLiveness` | `VersionPipeline`, `InferenceJobs`, with fairness |
| `MCBackendLiveness` | `PageSync`, `IngestionRuns`, `MailDelivery`, with fairness |

### VersionPipeline: from a changed record to its archived original

| State | Code |
|---|---|
| `current`, `versions`, `outbox` | `parliament_source_record`, `..._version`, `parliament_processing_outbox` |
| `sends`, `queue`, `dead` | SQS: accepted messages, the queue with receive counts, the dead-letter queue |
| `relay[p]` | `SqsOutboxRelay.run`: batch read, row in hand |
| `consumer[c]`, `writer` | `SqsVersionConsumer.run`: messages to do, message in hand; who is inside `BEGIN IMMEDIATE` |
| `ledger`, `raw`, `derived` | `processed_versions`; the two files, none, partial or full |

`SaveRecord` is the page transaction as far as versions are concerned.
`ReadPending`, `SendMessage`, `MarkSent` and `MarkFailed` are the relay; a send
may raise with or without SQS having stored the message (`SendRaises`), and
`mark_sent` may fail (`MarkSentRaises`). `Receive`, `Begin...`, `WriteRaw`,
`WriteDerived`, `Commit`, `DeleteMessage` are the consumer, in that order;
`Torn` is a file write cut short, `ProcessConflict` the retry that finds such a
file. `VisibilityTimeout` and `Redrive` are SQS, with the redrive policy of
`infra/aws/storage.tf`.

`VersionDelivery` says what the pipeline promises without any of this: a version
is owed, and then archived once, or parked where the operator looks. The mapping
is in `VersionPipeline`: owed is stored and not in the ledger, archived is the
ledger, parked is dead-lettered or FAILED with no attempt left.

### PageSync: a list read page by page

One source of `ParliamentIngestionService` without parameters. `upstream` is the
API's list and changes between any two steps (`Move`); `stored`, `seen`,
`checkpoint` and `sync` are its rows in MySQL (`seen` abstracts `last_seen_at`
to "not before the start of this job", all the snapshot deletion asks of it);
`job` is the job holding the guard. The actions are the stages of `runSource`
and `synchronizeSource`: read the watermark, mark started, reset the
checkpoint, fetch, save the page with its checkpoint in one transaction,
finalize, mark completed or failed. `quiet` is a history variable: the list has
not changed since the checkpoint was reset.

### MailDelivery: accounts, digests, mail worker

The three meet on `tracking_user` rows (`lock`), on `told`
(`tracking_digest_item`) and on the outbox (`letter`, `status`). A web
transaction is one step, taken while the row is free. `LockRecipient` and
`Spool` are the two halves of a digest build for one user, `StartBuild` reads
the list of users before that. A worker reads its batch (`ReadPending`, to
deliver or only to preview), and for each mail locks the row and claims it
(`Prepare`), locks it again and checks the recipient's settings (`Recheck`),
calls SES (`CallSes`) and records the outcome (`MarkSent`, `MarkUncertain`)
while it still holds the row. `DeliverRaises` is every way in which the call or
the commit may fail, with SES having accepted the mail or not. With `Severed`
the database connection may die during the call, and the row lock with it.

### InferenceJobs: paid requests to a remote service

| State | Code |
|---|---|
| `state`, `remote`, `uncertain`, `lease`, `reserved` | a row of `jobs`: `state`, `remote_id`, `metadata.completion_uncertain`, the lease, `metadata.submitted_day` |
| `stale` | jobs whose `context.sources` are no longer current |
| `pause` | artifact `control/pause`: the job of an unknown acceptance, or `"configuration"` for every other reason |
| `accepted` | at the service: requests it has, by idempotency key |
| `pc`, `wave`, `answer`, `hand` | the executor in `execute_tick` or in the recovery |
| `fresh` | `recovery_checked == 0.0` of the loop in `cli.py` |

A wave is `Claim`, `Prepare` (or `DeferUnknown` and `PauseUnknown`, when one of
its jobs may have been accepted before), the calls in any order (`Submit`,
`Poll`, `CallRaises`), `SaveReceipts` and `Apply`; each store transaction is a
step. A transaction that finds a lease lost writes nothing (`PrepareStale`,
`ReceiptsStale`, `OutcomesStale`). `Recover`, `Resubmit`, `RecordAcceptance`,
`ClearPause` and `PauseRemaining` are `recover_unknown_acceptance`, with the
paths that end it early beside them. `"broken"` is an exception that is not an
`InferenceError`: the wave is finished and the process then ends. The file lock of
`_worker_lock` leaves one executor at a time, so there is one `pc`; the API and
the operator act beside it (`Enqueue`, `Resume`). `Prepare` takes any maximal set
of jobs that fits, which covers every order of claiming. `Apply` saves the outcomes
of a wave in one step; the code saves them in batches of sixteen, and a wave of
more than that in several.

### IngestionRuns: jobs over parents and children

A list of parents (bills) and the sources that are asked once per parent.
`LaunchRun` takes the guard, for an endpoint or the scheduler; a job then resolves
each source, visits its pages or variants, finishes the source, and closes the run
(`Resolve`, `SaveBill`, `AskChild`, `Finish`, `Close`); any call may fail and the process may
die. `marks` is the watermark in `parliament_source_sync_state`, `asked` what a child was last
asked for. A page is one step here, its inside is `PageSync`.

### GraphInputs, BillFeed, RosterRefresh: what the graph is told

| State | Code |
|---|---|
| `files`, `reviewed` | batches in the watched directory, each written once; the file of reviewed batches |
| `graph` | active rows of `sources` in the graph store, with their observation time |
| `board`, `says` | the legislative-status board and the page of each bill |
| `cursor`, `raws`, `cycle` | `cursor.json`, `raw/bills`, the invocations of the command that have not ended |
| `roster`, `holder` | the official list, and what it says of each office holder |
| `collect`, `receipts` | the run under way; `status` and records of the runs made |
| `refresh` | the refresh under way: what it has still to write |

An observation is what a source says, who extracted it and when. `Selected` is
the newest of each source, `Readable` the condition on which reading fails (two
that differ at the same time), and `ScanInputs` the scan: `Changes` are stored,
`Reobserved` get their later time, and a scan of an empty directory fails.

A cycle of `BillFeed` reads the first page, the hot pages and a part of the
sweep, compares each listed bill with what directory and graph have (`ReadKnown`),
keeps the pages of changed bills, writes them as one batch and only then moves the
cursor. Requests and rows fail one by one and are counted in `failed`; cycles
overlap, since the command takes no lock of its own, and die at any step.

In `RosterRefresh` a run reads a list page by page and ends with a receipt;
`BeginRefresh` compares two complete receipts, `Plan` is `plan_refresh` (new and
changed records; a changed name is left to review), and the batches are written one
by one. `WriteConflicts` is the name of a batch file, which does not depend on the
time: the same words seen again, on an identical page, cannot be put again.
`quiet`, `undisturbed`, `base`, `half`, `held` and `ordered` are history variables.
Not in these modules: the laws command, the profiles of offices and the review of
changed names. There is one roster run and one refresh at a time.

### RawDocuments, SummaryDrafts, KnowledgePilot: files

Each follows processes that may overlap and die between two file operations. A
file that is created exclusively and then written has the states none, partial,
whole (`OpenRaw`, `FillRaw`, `OpenMeta`, `FillMeta`); one that is replaced by a
rename has none between. `RawDocuments` has originals, their metadata, the index
and the import of events; `SummaryDrafts` the two tables of the budget ledger
(`costs`, `requests`), the paid call, and draft and pointer file; `KnowledgePilot`
rows that are loaded once, changed in memory and written as a whole file, with
the copies, reports and batches that depend on them. Copies to S3 are made by runs
with `--s3` only; a run has the option or not, whatever earlier runs of its job had.
`preserved` is a history variable, the jobs that such a run has taken to its report:
of these, and of no others, the originals are in S3 (`ReportedCopied`).

### Publication: what is shown

`ImportDraft`, `Publish`, `Reject` of one version and `ImportBatch`, `PublishBatch`,
`RejectBatch` of several are transactions; `reader` is a client that follows the feed's cursor
while they go on. `reviewCount` is the row of the day's budget.

### WorkerBackup, DatabaseBackup: copies

`WorkerBackup` has the lock of all worker jobs, the jobs that change files one
after another, and the backup that copies them, writes archive and manifest, removes
its temporary directory and uploads both; `DatabaseBackup` the dump, its manifest and
the restore test, which run without a lock. In both a kill leaves what was written,
and a file may be damaged on disk before it is read again.

The lock belongs to the client that `docker compose run` starts, the writing is done
in a container. `ClientKilled` takes the client and with it the lock, and the
container writes on, beside other jobs or a backup. What a file holds (`data`) is
therefore a set of runs, and `alone`, a history variable, says of a snapshot that no
container was at work when its backup took the lock. `RestoredConsistent` excepts
snapshots that are not, and nothing else.

Until the temporary directory is gone a failure removes what the backup owns
(`Owns`): the archive and then, in a step of its own (`DiscardManifest`), the
manifest, although both may be complete by then (`worker_backup.py:290-295`). Of
that window `LocalCopyKept` only asks that nothing of the snapshot was sent; from
then on no step removes it.

### GraphPlanning: what is to be generated

| State | Code |
|---|---|
| `generation`, `live` | `sources.generation`, `sources.active` |
| `work` | rows of `jobs`; a job is its artifact, dependency and attempt, which is what the key's fingerprint is taken of |
| `latest`, `saved` | `artifacts`: the current version, and the versions |
| `configured`, `model` | artifact `control/model`; the model the process was started with |
| `step`, `returning` | the place in the loop of `cli._work` and in `plan_factory` |
| `orphan` | jobs still leased to a process that is gone |

One turn is `ScanChanges`, `ReconcileSources`, `ConfigureModel`,
`ReactivateResults` (`recover_projections`, when the model has changed),
`PlanRetries`, `PlanExtractions`, `PlanLinks`, `PlanCommunities`, and then the
sending, of which only the ends of jobs matter here (`Complete`, `Fail`,
`Obsolete`). Each is one transaction; the process may die between two
(`PlannerDies`), find the store busy (`StoreBusy`, after which it plans again, with a
scan only if one is due), and be started with another model (`Stop`, `Start`). An
answer is stored with its job and then made a version; a death between the two
(`AnswerUnsaved`) is made up for at the next start (`RecoverProjections` in `Start`,
`cli.py:167`). `Rests` is `current_artifacts`, `Selected` is
`select_snapshot_artifacts`: both go up from the graphs over the leaves to the parents
(`Resting`). Two levels of reports stand for up to eight; every
graph is taken to have members and every report to fit the context.
`seen` and `returned` are history variables of the properties: the models that were
configured, and whether one of them was started while another was configured.

### RetryLadder: the next attempt

One piece of work through all its attempts. `RetryContract` is `_retry_contract`,
how the answer will be decoded; `Builder` is `_next_request`, each builder being
a function from the requests it understands to the ones it makes. Where `Builder`
is not defined on the stored request the code raises (`progress = "raised"`), and
the service manager starts the worker again (`WorkerRestarted`). `RepairClaims`
and `Enrich` start work from a finished report. That a builder for reports may also
raise over the data of its request (`community_retry.py:65-75`) is left out.

### Questions: asking the graph

Threads of the operator API (`Ask`, `EnqueueQuestion`, `StoreQuestion`: a
snapshot and two transactions) and the worker's thread (`PlanReduction`,
`StorePlan`, answers and retries) over the sources of one revision. `tasks` are
the jobs by question, round, kind, manner and place; a job planned again must be
the same or the store refuses it (`Conflict`). A claim is the unit it is about
with the answer that wrote it, so that two answers about a unit are two claims, and
a manner: `plain`, `unfit` (its source does not bear it out, or it has contact
data), `bulky` (no request holds it together with its proof) or `huge` (not even
without).

Between two rounds `Points` drops the unfit claims, as `reduction.py:94-101` does,
and `Parts` divides the others: among requests with full proofs, or among requests
to select claims if the question names several kinds of documents that there are
claims about, if nothing could be batched, or if the round would hardly shrink
(`reduction.py:131-135`). `Batches` raises for an oversize claim only where it is
the first; elsewhere it gets a batch whose request cannot be built (`Unbuildable`),
and the worker ends (`Raises`).

There is one question per revision; that a change of the reports alone gives the
same question another identity is left out. So are the coverage of hosts
(`requiredHosts`, which works as that of kinds does), the merging of identical
claims of two answers and the limit of four claims per answer; and the claims that
fit come before oversize ones in the batches. The claims of jobs that a change of
the sources made obsolete are cleared in the model, which the code need not do
since nothing reads them.

### RelationChecks: one candidate

A candidate of one of five kinds (a bill merged into an alternative, a bill's
policy, a role in an activity, a chair by virtue of office, an office that an
extraction missed), its check, and the graph its answer becomes. `says` is what
the current revision of its sources says of it: offers it, identifies its ends,
may be used. `Decision` is `apply_review_policy`. Completion and projection are
two steps with a death between them (`AnswerCheck`); `CheckerStarts` projects what
the process before left (`recover_projections`, `cli.py:167`). `PlanChecks` plans
retries and new checks as far as it gets: a planning ends early when the queue is
full, the planners before this one may take the room that is left, and offices are
looked at once a minute (`factory_plan.py:53-85`). `loop` is `"full"` after a planning
that did not get to the candidate; `CandidateAsked` speaks of the others. `unit` and
`elsewhere` are other graphs that may hold the same edge.

## What the runs check

All passing runs are exhaustive for their instance; each takes between some seconds
and four minutes.

| Run | Question | Instance |
|---|---|---|
| `change_feeds` | With a fault at any step and two consumers no version is lost, nothing is acknowledged unarchived, a version is archived by one consumer at a time, with the invariant of the proofs; no bill on a page that the sweep has passed is missing from the inputs; what refreshes in order have staged is what the runs found | 1 record with 2 payloads, 1 relay, 2 consumers, 1 fault; 3 bills in pages of 1, 2 cycles, 3 observations, 1 change, fault or curated source; 2 office holders in pages of 1, 5 observations, 1 change or fault |
| `ingestion` | Resuming skips nothing, a sync over a quiet list is exact and removes nothing listed; the watermark passes no parent a child was not asked about, history, outcome and guard agree; dumps are proved as they are, and no failed one takes a complete one away | lists of up to 3 of 3 records, pages of 2, 2 changes of the list, 2 faults; 2 parents, 1 child source, 2 runs, 1 error; 2 dumps in 2 seconds, 1 row, 2 faults |
| `mail_delivery` | Nothing asked of SES twice, no version in two digests, versions put aside are those mailed, nothing after an opt-out but with a call that lost its connection | 2 workers, 2 overlapping builds, 2 versions, 2 mails, 1 fault, connections that die |
| `factory_waves` | No accepted request is forgotten or submitted again by a wave, slots and the day's limit hold, a pause is of use; and the invariant of the proofs | 3 jobs, waves and slots of 2, 2 new requests a day, 1 change of sources or resume, 2 faults |
| `content` | Events can be traced to originals that are whole; the budget ledger balances and bounds what is billed; batches are whole, budgets exact, the feed neither misses nor repeats; pilot rows, reports, copies and batches agree; restored snapshots are consistent, complete ones stay, S3 has no manifest without its archive | 1 article of 2 editions, 2 collectors; 2 drafting processes, 4 requests; 2 events of 2 facts, 2 batches; 3 pilot jobs run with and without `--s3`, 2 processes, 1 fault each; 2 containers of jobs, 3 files, 2 days, 2 jobs, 2 faults (kills of the client included) |
| `graph_planning` | Nothing the configured model is to give is forgotten, an answer whose projection a death prevented included; contract and request of every retry agree; an edge rests on its sources, and answers are projected; no question is stuck, every round has each fit claim of the one before once and no other, and is smaller or the last, rounds are planned once, answers say what was said first, of every named kind | 1 source with a link, 2 revisions, 2 models, 2 places, 1 retry, at most two of: change of the source, switch of the model, crash or failure; all 9 kinds of work, 7 retries; all 5 relations, 2 revisions of each source, 1 death or failure; 2 threads, 3 units (one with contact data, one misquoted by its report), questions that name no kinds or two, requests of 2 claims, 2 rounds, 2 revisions, 2 attempts, at most two of: odd claim, change of the sources, crash, failed job or busy store |
| `worker_live` | Every version is archived or parked, and nothing is sent twice or dead-lettered without a fault; the pipeline implements `VersionDelivery`; an unknown acceptance is resolved unless the operator is needed | 1 record with 2 payloads, 1 consumer in batches of 2, 1 fault; 2 jobs in waves of 2, 1 change, 1 fault |
| `backend_live` | Once changes and failures stop the store equals the list for good; every job lets the guard go; every queued mail is claimed or cancelled | lists of up to 2 records, 1 change, 1 fault; 1 parent, 1 child, 2 runs, 1 error; 1 worker, 2 mails, 2 faults |

A property named `...Inv` in a configuration is a conjunction of named parts, each
with a comment of its own in the module: `FeedInv`, `RosterInv`, `RawInv`, `DraftInv`,
`PublicationInv`, `PilotInv`, `WorkerBackupInv`, `DatabaseBackupInv`, `RunsInv`,
`LadderInv`, `PlanningInv`, `QuestionsInv`, `RelationInv`.

**Why these bounds.** *Pipeline*: two payloads of one record are what a change
and a version in flight need; two consumers compete for the ledger, for a
redelivered message and for a torn file; `MaxReceives` and `MaxAttempts` of 2 let
both limits be reached after a retry. *Pages*: three rows in pages of two give a
full page, a short last page, a full last page and an empty list; two changes let
a row leave and come back within a job, two faults interrupt the retry of an
interrupted job. *Bills*: three bills in pages of one are
a hot page and a sweep of two, so that a sweep passes a page, ends and begins anew;
two cycles read, write and move the cursor in each other's way. *Roster*: two pages
let a row move between them; five observations are two runs of two pages and one
cut short, enough for a refresh that dies and is done again. *Mail*: two mails are a
login link beside a digest, or the digests of two overlapping builds; batches
of one put each mail behind another.
*Factory*: three jobs with two slots leave one without; two lost answers leave
two acceptances unknown at once, and a change of sources can then hit the one
the pause names. *Planning*: one source with a link has two graphs, two leaves and a
parent over both, enough for a report to lose a child; two places for up to four
wanted jobs make the planners leave work for the next turn; a second model makes
results lose and, with a change of sources or the first model again, regain their
place. *Questions*: three
units, one with contact data and one whose report misquotes it, give first rounds of
up to five jobs, whose claims make rounds that write, that select and that end at the
limit, and parents that do and do not stand for their leaves; two odd claims are what
dropping one and failing over the other need. *Copies*: two containers are one that
outlived its lock beside one that holds it or a backup that does; three files are the
least of which one can be copied before and one after a write between.
*Retries*: seven attempts go through every rung once and repeat the last. One
fault is one failure at every step of every interleaving; that further ones change
nothing is what the proofs establish. The remaining bounds
(`MaxMoves`, `MaxLength`, `MaxMails`, `MaxChanges`, `MaxRevisions`, `LastIssue`)
limit what the environment offers and nothing the program does.

**Symmetry.** Processes, records, hashes, jobs and documents are interchangeable
and declared as symmetric in the runs without temporal properties. Where symmetry
cannot be used, `worker_live` calls the first payload and the first job to change by
their names, and `change_feeds` lists its sources in one order at the beginning. In
`graph_planning` the two models are interchangeable, and it is enough to begin with a
fixed one. Where parts share a set of model values (`{p1, p2}`) a
permutation acts on all of them, which is sound because only one part moves.

**Where the system may stop.** In the pipeline there is always a step, a run
that finds nothing included, and deadlock is checked. The others end when the
bounds on changes and faults are used up and every process rests:
`CHECK_DEADLOCK FALSE`.

**Fairness.** Liveness needs the following and no more.

- *Pipeline*: the relay and the consumer are started every five minutes, so a
  step that stays possible is taken (weak fairness for each relay, each
  consumer, and receiving as such); the queue redelivers and dead-letters. That
  a run also finds the lock it shares with the other kinds of worker free
  (`flock --nonblock` gives up) is part of this assumption.
- *Page ingestion*: the scheduler starts syncs again and again, and a job that
  was started goes on, or its failure ends it.
- *Jobs over sources*: the steps of a job that was started (weak fairness).
- *Mail*: delivery runs start every minute, under the same lock. Row locks are
  given to whoever waits, in turn; the lock is free again and again rather than
  for good, which is strong fairness.
- *Factory*: the service is restarted when it dies and its loop goes on (weak
  fairness of the executor's steps), leases run out, and a job that is due again
  and again is claimed at some time. The last is strong fairness; the code claims by
  priority and then by order, so it rests on the other jobs being finite in number
  and on each of them moving on. `next_poll` is abstracted to "some time".

No fairness is assumed for faults, for web requests or for the operator. The
planning has no liveness property of its own: `NothingForgotten` says instead that
a planner which has come to rest has nothing left out.

**Mutants.** Every property of every passing run has a definition beside the
real one that is wrong in a way this code could be (a selection that forgets
FAILED rows, a files-after-ledger order, a lock not taken, a checkpoint not
reset, an answer left unprojected at the start), under which TLC finds the property violated in
the same instance.

## Where code and documentation disagree

Four runs expect a violation. Each states what a document or a comment of the
repository says, and TLC's trace shows the code doing something else.

| Run | Statement | What happens |
|---|---|---|
| `archive_retry` | `versions.py:37`: originals are archived idempotently | The raw file is created exclusively and then written. Interrupted in between it stays partial, every retry takes it for a conflict, and the message is dead-lettered. |
| `reconcile_null_watermark` | `README.md:117`: reconcile ignores the watermark | After a first sync that failed, the watermark is NULL and reading it is an error: every later sync and reconcile of that source fails. |
| `obsolete_pause` | `recovery.py:47`: every uncertain submission is resumed; `test_graphrag_acceptance_recovery.py:84`: none is lost behind one pause key | The recovery serves the job the pause names first. When a change of sources makes that job obsolete, there is nothing to resume under that name, the pause stays, and the other unknown acceptances wait for the operator. |
| `activity_retry` | `output_retries.py:220`: failed logical work is scheduled | The second retry of an activity check is given an extraction contract, whose builder raises. The worker ends, is restarted and ends again at its first planning, and nothing that failed is retried any more. |

The following were met while modelling and have no run of their own.

- `LadderInv` allows planning to raise in one more case: after an assignment of
  groups (failure `members` at attempt 5, or the context limit) another failure
  below attempt 6 chooses a builder of an earlier rung, which looks for `groups` in
  a request that has none.
- `Questions.LargeProofsSelected` (`claim_selection.py:201`: "Fit every candidate exactly
  once within the model's request allowance"; `test_graphrag_reduction_selection.py:269`:
  "Two large proofs can still produce one final model selection request") does not hold: a
  claim that exceeds a request together with its proof (350 and 850 characters are
  allowed, of Korean text some 450 fit) and follows one that fits gets a batch of its own
  without another look. Its request is built outside the `try` (`reduction.py:163`) and
  raises; the worker ends, and again at each start, for as long as the sources stay.
  `NoQuestionStuck` excepts this case and nothing else.
- `GraphPlanning.EveryUnitCovered` (`index.py:211`: "gradually cover every active
  source unit") does not hold once a model returns: an extraction planned under
  one model and retired by the executor of another stays known under its key, and
  `plan_extractions` never plans it again; the unit has no graph, and since a missing
  graph blocks the hierarchy, no parent report is made either. With
  `MaxSwitches = 2` TLC shows it in a few steps, and `NothingForgotten` is stated
  up to it (`returned`).
- `plan_lineage_repairs` and `plan_policy_links` take links found by any model for
  existing, so under a second model such a link may be in no graph that readers
  select (`seen = {model}` in `NothingForgotten`).
- A crash or a busy store between the storing of the model row and
  `recover_projections(reactivate_cached=True)` loses that reactivation: the next
  planning finds the row as it is. Reports are restored by their own planner, and
  graphs as in the case before.
- A question whose jobs failed for good or became obsolete under another model is
  known by its identifier and can never be asked again on that snapshot.
- `IngestionRuns.RunningMeansRunning` does not hold: a process that dies in a run
  leaves its rows RUNNING, which the dashboard shows although `src/README.md:142`
  explains the state as planned for today or being executed now.
- The scheduler takes the guard before `synchronizeAutomatically`, which validates
  its request and throws before it returns a `Mono`; the guard is then never let go
  (`Misfire`). `backend_live` has `ScheduleOk = TRUE` for `GuardReleased`.
- `VersionPipeline.ChangeQueuesJob` does not hold: a record that returns to an earlier payload finds
  that payload's outbox row SENT and leaves it so, no job for the change, although
  `src/README.md:117` speaks of changed originals and their jobs in one transaction.
- A `/run` resumed with another page size skips rows, since the checkpoint is a
  page number: `IngestionProofs` assumes `OnePageSize`. A row that moves from an
  unread page to one already read is removed by the snapshot cleanup of that sync
  although it was listed all the time: `QuietRemoval` speaks of quiet lists only.
- An opt-out can commit during a call to SES when the connection holding the row
  lock is dropped: `OptOutHonoured` excepts that call and nothing else.
- A backup that meets a job longer than its wait of two minutes is not made that day.
- Two relays at once (a container that outlives the client that started it) can take
  a version from FAILED, where the operator would look, back to SENT: the one that
  still holds the row marks it sent. `PipelineDelivers` assumes one.
- A bill cycle asks both the directory and the graph what is known of a bill, and the
  directory first: an old batch of its own there hides a source that a curator has put
  into the reviewed file since, and the cycle overrules it, although
  `bill_collect.py:103` speaks of holds for curated sources. `CuratedStays` is about
  curators who put their batches into the directory.
- A row of the board whose numbers never agree, or whose page never answers, counts
  as a failure in every cycle and holds the cursor of the sweep for good. A bill that
  moves to a page the sweep has passed waits for the next sweep.
- Of a roster, a changed name is left to review once: at the next refresh both runs
  have the new name, and a change of anything else is staged under it, with the
  identity of the old holder. The same happens when a holder is absent in between.
- A record that changes and changes back, so that its page is identical to an
  earlier one, cannot be staged (`WriteConflicts`), and the refresh ends there.
- A refresh that compares with a run that was never staged, or one that follows an
  interrupted one without doing it again, loses the changes between them
  (`ordered` in `RefreshReaches`).
- A scan of the watched directory fails as long as it is empty.

## What is proved

TLAPS checks the safety of the seventeen component modules for every value of their
constants: any number of records, relays, consumers, workers, builds, mails, versions,
articles, paid requests, runs, cycles, batches, readers' steps, snapshots, sources,
models, claims, retries and faults. Every invariant and every property of steps that a
passing run checks is also a theorem. Each proof has the same shape. An inductive
invariant strengthens the properties until a step preserves it; lemmas show one action
or one group of actions at a time what it keeps; the temporal theorem follows from
`Init => IInv`, `IInv /\ [Next]_vars => IInv'` and what `IInv` implies.

| Module | Theorems | What the invariant adds, and why |
|---|---|---|
| `StorageProofs` | `TypeCorrect`, `InvariantHolds`, `NothingLost`, `AcknowledgedIsArchived`, `EvidenceIsFirst`, `OneArchiver` | A row in a relay's hands was accepted by SQS before it is marked SENT (`SentIsAccepted`); whoever archives is inside the ledger's transaction (`WriterHoldsLedger`); files come before the ledger entry, the entry before the delete (`FilesBeforeLedger`); everything in flight is stored (`HeldVersionsStored`). Without the first, marking SENT could lose a version; without the others, a commit or a delete could. |
| | `DuplicatesArePaid`, `PipelineDelivers` | `RelayIInv`: rows of an open batch are still to be sent (`BatchOpen`), and the sends of a version are at most one more than its faults, one fewer while it is neither sent nor in hand (`SendsPaid`). The relay then moves a version of `VersionDelivery` only where the promise lets it go, and every step of the pipeline is a step of the promise or none. |
| | `DeadNeedsFault` | `FaultlessIInv`: an idle consumer holds nothing; without a fault every file is whole (`Whole`), and a message that was received is in the ledger or was received once and is in hand (`ReceivedOnce`). |
| | `BackupsHold`, `CompleteDumpsKept` | From creating its dump until its manifest is written, a backup owns the dump of its second and that second has no manifest (`OwnFiles`), so that what it removes on failure was never part of a pair; a restore is of a pair that stays complete (`RestoresPair`). |
| | `SnapshotsHold`, `SnapshotsKeptForGood` | The lock has one holder (`OneHolder`), while containers may work without it; a run is in a file only when it is in those before it (`WrittenInOrder`); what a backup that began alone has copied is what the files hold (`CopiesCurrent`), and so every snapshot made alone is consistent, in archive, stage and target (`SnapshotsConsistent`); a day has one snapshot (`OnePerDay`), nothing of it is sent before its temporary directory is gone (`SentLate`), and the archive before the manifest (`ArchiveFirst`, `SentInPairs`). |
| `IngestionProofs` | `TypeCorrect`, `InvariantHolds`, `ResumeSkipsNothing`, `QuietSyncIsExact`, `QuietSyncKeepsListed` | A job's page is the checkpoint's (`OwnCheckpoint`), the page it holds is what the quiet list has there (`HoldsPage`), and it has seen exactly the rows before it (`SeenByStep`). |
| | `RunsHold`, `WatermarkSafe`, `SuccessIsComplete` | What a job under way is made of (`JobShape`), that a source it is done with is recorded (`DoneRecorded`) and bills come before their children (`BillsFirst`); no watermark and no marker is later than what its child was asked for (`MarksPast`, `ChildrenCaughtUp`), and what a finished child source covers stays covered until the run closes (`Covering`, `DoneCovers`, `LastSuccessCovers`). |
| `MailDeliveryProofs` | `TypeCorrect`, `InvariantHolds`, `AtMostOneRequest`, `VersionsOnce`, `ToldVersionsAreMailed`, `OptOutIsFinal` | A mail in work belongs to one worker (`ClaimsApart`), is `sending` and unasked until the call (`ClaimedMail`), its recipient's row is held and still subscribed (`RowHeld`); a build holds the row of the user it writes for and none of its versions is told (`SpoolHeld`). |
| `DocumentProofs` | `EventsTraced` | Events that runs have in hand are backed as those imported are (`RunOK`), and what they rest on stays: metadata is written by the run that created its file only (`OneWriter`), the index holds an original once and only grows (`StoresGrow`). `VersionNumberCounts` relates the count of versions, a cardinality, to the order of the index. |
| | `DraftsHold` | A request is in the hands of one process, unmeasured until that process settles it, and what it settles is what was billed (`InHand`, `Measured`); the ledger's row of a month is the sum of what its requests account for (`LedgerBalances`), and what a month may still be billed within the estimates stays below the budget (`CommittedWithinBudget`): the check of `reserve` alone says so only at the time it is made. |
| `FeedProofs` | `FeedHolds` | Two cycles do not begin at one time, and what is observed at the time of a cycle is its own batch, written in one piece (`OwnTime`); of a bill it finds one observation changed, whose page is kept (`ChangedOnce`); curators' batches that were there when it compared are known to it, and any later one is newer (`CuratedKnown`). Over a quiet board (`Quiet`) whatever is observed since the cycle began is what the board says, and each bill of its sweep is still to be looked at, settled, or among the changed as long as nothing failed: so the cursor passes settled pages only. `SettledStays` carries this over whatever others put into the inputs. |
| | `RosterHolds` | Over a list that did not move, as many records as the list has, no two of one source, are the list (`RunSoFar`, `CountedIsExact`: a counting argument); what is still to be written is newer than what is staged of its source (`TodoNewer`); for refreshes in order, a record that does not show yet is in the plan of the run that must be done again (`InOrder`). |
| `ContentProofs` | `PublicationHolds`, `FeedExact` | A batch has one version of each of its events (`BatchesOneEach`), a derived version no state before a batch binds it (`DerivedBound`), the latest version of an event is a published one and reviewed last (`LatestPublished`), and a later publication is marked as a correction (`MarkedCorrections`). What a pass through the feed has still to show lies below its cursor (`ReaderOnTrack`): from that a pass misses nothing although versions are published while it goes on. |
| | `PilotHolds`, `DatesExact` | One process holds the lock, and has in memory what is on disk (`OneHolder`); a document being collected has no row yet, one being copied has one (`InHand`); documents passed have their row and, in a run with `--s3`, their copy (`PassedDone`); a page that was collected has a row at which it changed (`Dated`); reports and batches are of jobs with all their rows, and jobs taken to a report with `--s3` have one (`FinishedSeen`). |
| `PlanningProofs` | `PlanningHolds` | A job is over saved versions, of one model throughout, of no later generation than its sources (`JobsMade`); what is current was saved (`VersionsSaved`), and until a model returns every completed answer of the running model on sources as they are is too, as long as a process runs (`AnswersSaved`); attempts at the same work follow each other without a gap, each after a failed one (`AttemptsInOrder`); until a model returns, work of the configured model on sources as they are is not withdrawn and a graph or leaf it gave is current (`CurrentStands`). Along the loop: after reconciliation nothing current rests on an old source (`StepsInOrder`), and each planner that leaves room has seen to all it wants (`WantedKnown`), of which the end of the planning makes what is covered (`AllCovered`). |
| `GenerationProofs` | `LadderHolds` | Each kind of work has contracts of its own (`Rung`), and a first attempt at a report the lowest one. `CommunityRetries` and `OtherRetries` then go through the two chains of conditions side by side. |
| | `RelationsRest` | No check and no graph is of a later generation than its sources (`Reached`); an answer of the current one holds of the sources as they are, projected or not (`ChecksOK`), and so does a graph of them (`GraphOK`). A start projects what is answered and each later answer is projected or ends the process, so that `AnswersProjected` is kept by every step. |
| | `QuestionsHold` | The first round of a revision is stored as a whole or not at all, and as it would be planned again, although revisions pass meanwhile (`FirstRoundStored`, `StoresKnown`); a question names a whole round (`QuestionsOK`); a later round exists only where all answers of the round before are in, and is what they divide into (`RoundsReduce`), so that planning it again finds it as it is; a completed answer to the last request is the answer of the question (`AnswersStored`); a later round is over fit claims that were said in the first one, and where that had several named kinds it selects among claims about each (`FirstSettled`, `LaterRounds`, `AnswersSaid`); answers of earlier sources are withdrawn before work goes on (`OldWithdrawn`), and a worker that ended in planning has an oversize claim before it until the sources change (`RaisedOK`). |
| | `TypeCorrect`, `InvariantHolds`, `AcceptanceIsRemembered`, `PaidOnce`, `PauseIsUseful`, `SlotsAreBounded`, `LimitsAlwaysHold`, `DayIsLimited`, `TransitionsAreLegal` | A job that was never submitted has neither remote id nor mark, a polled one has its id (`MarksByState`); every job of a wave under call is marked or known, and nothing pauses the factory meanwhile (`WaveByStep`); a request that was refused is not at the service (`RefusedUnaccepted`); a recovery holds unknown acceptances only (`RecoveryByStep`). The two limits are then a matter of counting: only `Prepare` takes slots or reserves. |

**Assumptions.** The `ASSUME`s of the modules only say what kind of value each
constant has. Four hypotheses stand in front of theorems:

- `OnePageSize` (`IngestionProofs`) marks a limit of the code: requests agree on a
  page size.
- `OneRelay` (`DuplicatesArePaid`, `PipelineDelivers`) and `OneConsumer`
  (`DeadNeedsFault`) are what the unit of the worker is for:
  `parliament-worker@.service:10` starts every kind of worker under one `flock`. The
  other theorems of the pipeline do without them, since the lock does not cover a
  container that outlives its client. With two relays the first two are false: one can
  send what the other is sending, and can take back a row that is parked.
- `MaxReceives > 1` (`DeadNeedsFault`): with a redrive policy of one receive, a
  message is dead-lettered by the first slow batch. `storage.tf` has five.

`OptOutIsFinal` excepts a call to SES whose database connection was lost meanwhile.
The service of the factory is taken at its word: a call that answers "busy" or
refuses a request has not accepted it (`CallRaises`, after `client.py`).

**Refinement.** `PipelineDelivers` proves that `VersionPipeline` without its
fairness implements `VersionDelivery` without its own: `InitMaps` for the initial
states, and for the steps `StepMaps`, one lemma per group of actions
(`StutterMaps` for those that leave a version where it was). That what is owed is in
the end archived or parked is the fairness part and is left to TLC (`Delivers`).

**Counting.** A cardinality or a maximum is reasoned about through the library's
theorems on finite sets, or through the least of a set of numbers where an induction
would be needed (`LatestExists`, `NewestExists`): the theorems on induction take an
operator and cannot be used here. For the same reason the sums of `SummaryDrafts` are
no folds but cardinalities: `Total` counts the single won (`Won`), and `TotalOfOneMore`,
`TotalApart`, `TotalSame` and `TotalLeq` say what becomes of a sum. The pieces that
`Questions` divides claims into are the values of a function of their places, and
`GraphPlanning` has its levels of artifacts one after another (`On`, `Resting`) and no
recursion.

**Only model-checked:** the liveness properties `EventuallyArchivedOrParked`,
`UnknownResolved`, `CatchesUp`, `GuardReleased` and `QueueDrains`, and the fairness of
`Delivers`, since liveness and `ENABLED` are out of the prover's reach. The four runs
that expect a violation show single counterexamples and prove nothing.

## What is not modelled

Inside the modelled components: the contents of payloads, files, mails, graphs and
answers, and the checks of text that decide whether an answer is valid (its outcome
is a choice); the mapping of fields; message expiry (a message that outlives
the retention of the queue leaves its row SENT, an operational limit that a model
would merely restate); the limit of 100 users per digest build; the rate limits on
login links; sessions; of the factory the token budget beside the limit on jobs,
and kinds and priorities of jobs; of the planning, units with several windows,
hierarchies deeper than two levels, graphs without members, and the reports made
again after a context limit; `lineage_safety.py`, whose repair no program calls;
of the paid drafts the approval and the cost record that nothing calls.

Not at all, because they are functions of their input, sequential work of one
operator command, or display: the API client and its normalisation, social link
verification, the laws command, the profiles of offices, the ranking of the news
radar, the landscape of the graph, prompts, web, mobile, dashboard, feedback and
usage metrics, infrastructure beyond queue and timers. `PROJECT.json` lists each
with its reason.

## Plan

The modules were written in this order, the behaviour that matters most first:
`VersionPipeline` with `VersionDelivery`, `PageSync`, `MailDelivery` and
`InferenceJobs` with their proofs; then `IngestionRuns`, `RawDocuments`,
`SummaryDrafts`, `Publication`, `KnowledgePilot` and the two backups; then
`GraphPlanning`, `RetryLadder`, `Questions` and `RelationChecks`; then
`GraphInputs`, `BillFeed` and `RosterRefresh`; and along the way the
proofs, those of `SummaryDrafts`, `Questions` and `GraphPlanning` last.

What would come next:

1. An abstract specification of the factory: a request is accepted at most once
   and has one result, which is projected.
2. Units with several windows and deeper hierarchies in `GraphPlanning`; its invariant
   speaks of two levels one by one.
3. The coverage of hosts and the order of claims in the batches of `Questions`.
4. The storage of the radar, once it is more than a rewrite of one table by one
   command.

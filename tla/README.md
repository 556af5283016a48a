# Vistora: verification of the control plane

Vistora (package name `framefactory`) turns a product brief, a web page or a
document into an edited video. This directory holds TLA+ models of the parts of
it that decide *what happens to durable state*: admission of runs, the step
scheduler, the Redis job queue, the paid generation ledger, asset analysis,
library builds, erasure of documents, the review gates of webpage videos and the
local benchmark lane. TLC checks them on small instances; TLAPS proves some of
the results for every instance.

All paths below are relative to `src/`.

## 1. The system

```
 apps/web ──HTTP──> apps/api (control API, FastAPI) ──┐
                        │  commands, reviews, retries  │ enqueue
                        ▼                              ▼
                 PostgreSQL (runs, run_steps,      Redis (job hashes,
                 events, artifacts, full_ai_*,     ready sets, lease set,
                 asset_*, document_*, builds)      idempotency keys)
                        ▲                              ▲
                        └──── services/worker ─────────┘ claim, ack, renew
                             (general workers and          │
                              browser-capture workers)     ▼
                                                    providers, S3, FFmpeg
```

PostgreSQL is the truth: every row carries a revision and is written by
compare-and-swap or under a row lock. Redis is an at-least-once queue with
leases; losing it costs time only, since `Scheduler.recover` publishes again
whatever the rows say is unfinished. Workers are interchangeable processes
which run one loop (`worker/service.py`): document purge, asset analysis,
library builds, run intake, recovery, then one delivery of a step. A second kind
of worker serves only the browser-capture queue. A local Xiaohongshu benchmark
subsystem (SQLite, one lane, a supervised browser process) lives inside the API
process.

### Components, their state and what makes them correct

| component | state | operations | correct when | here |
|---|---|---|---|---|
| Admission: idempotent commands (`framefactory_api/postgres_repository.py`, `main.py`, `service.py`), run intake (`worker/service.py`, `postgres.py`) | `idempotency_keys`, `runs`, batches, the intake queue | create run, batch, webpage video, paid run; retry and cancel a batch; sweep, materialize | a key has one effect, limits hold, what was accepted starts | `RunAdmission`, `AdmissionContract` |
| Run scheduler, worker runtime (`runtime/scheduler.py`, `state_machine.py`) | `run_steps`, `runs`; the worker's position | create_run, schedule_ready, process_one, recover, _sync_run, heartbeat, finish, fail | only the lease holder commits, a waiting step can start, attempts are bounded, nothing runs after a cancellation, all work ends, the run row shows the truth | `RunScheduler`, `StepLifecycle` |
| Worker's run store (`worker/adapters/postgres.py`) | rows with revisions | save_run, save_step, list_recoverable, load_pending_graphs | compare-and-swap | inside `RunScheduler`, `RunAdmission` |
| Control API run commands | the same rows under `FOR UPDATE` | cancel, retry (with descendants), review, publication | commands race workers without breaking the above | inside `RunScheduler` |
| Leased Redis queue (`worker/adapters/redis_queue.py`, `framefactory_api/redis_queue.py`, `redis_scripts.py`) | job hash, ready set per queue, one set of leases, idempotency keys | enqueue, claim (with sweep), ack, renew, release, retry, cancel | hash and sets agree, one holder per lease, bounded deliveries, every job settles | `RedisJobs`, `LeaseContract` |
| Paid operation ledger and generation capability (`worker/generation/*`, migration 0020) | `full_ai_paid_operations`, `full_ai_runs` | reserve, begin_submit, mark_*, release, settle_run; triggers | one paid task per operation, books equal the charges, a charge is never forgotten | `PaidLedger`, `PaidContract` |
| Asset analysis jobs (`postgres_asset_jobs.py`, `asset_service.py`, `asset_pipeline.py`) | assets, jobs, batches, items with leases | claim, heartbeat, checkpoint, publish, fail, review, resume the waiting step | an item is published by its holder, nothing unscanned becomes ready, the tables agree, a waiting step is woken | `AssetAnalysis` |
| Asset library builds (`library_build_service.py`, API acquisition endpoint) | a revisioned job, child imports | acquire, follow, complete | what is completed was analysed; what was imported is followed | `LibraryBuild` |
| Document retention and purge (`document_purge.py`, migration 0027, `s3_artifacts.py`) | sources, purge requests, artifacts, objects | hold, request, claim, delete, complete, publish | tombstones are true, nothing protected is erased | `DocumentPurge` |
| Webpage video control plane (`webpage_video.py`) | gates of a run, review actions, capture attempts | approve, revise, reject, recapture, cancel, retry | what lies behind a gate was made from approved bytes | `WebpageReviews` |
| Local benchmark jobs (`benchmark_jobs.py`) | SQLite rows, attempt directories, lane, child | create, run, cancel, retry, recover, expire, close | one runner per note, a report has its files, every job ends | `BenchmarkJobs` |
| Benchmark sign-in, managed browser (`benchmark_auth.py`, `xhs_browser.py`) | a remote browser, a lock, a running operation | show, click, verify, clear | one login window, no lost click | planned |
| Timeline, retrieval, capture, documents, ingest, adapters, contracts, migrations, accounts, web, deployment | none of their own, or one owner per call | I/O, scoring, parsing | outside what a state machine tells apart | not modelled |

`PROJECT.json` repeats this list with sources, and under `hazards` names the
places where this code can go wrong in a way a test hardly reaches, with the
properties that would notice. The families are: two executions of one piece of
work after a lease lapsed; values read before an await or another transaction
and used after it; answers lost between a service and its client; crashes between
two transactions or between a row and an object; commands racing workers; retries
of what was already done; bounded scans, batches, attempts and limits; and
progress in spite of all these.

### How the components interact

* A command creates a run with its key (`RunAdmission`) and publishes an intake
  job. A worker that takes it, or its sweep over pending runs, materializes the
  steps; from there on the run is `RunScheduler`'s. The seam is `create_run`, which
  both have: `RunAdmission` follows it row by row (`Begin`, `InsertRow`,
  `RowConflict`) to the complete graph, `RunScheduler` (`InsertStep`) to the races of an
  incomplete one with workers that already execute it.
* A worker *claims* a delivery (`RedisJobs!Claim`), which is `Reserve` in
  `RunScheduler`, `AssetAnalysis`, `RunAdmission`: the job becomes
  leased by a worker until it is acknowledged, released or its lease lapses. These
  modules abstract the queue to the status of each job and its holder. That this is
  what the scripts deliver is what `LeaseContract` states and `RedisJobs` is shown, and
  proved, to implement.
* A step that generates paid video runs `PaidLedger`. The scheduler may execute
  one step twice at a time (a lapsed lease under a live worker); so `PaidLedger`
  lets any number of workers execute it and assumes nothing of the lease.
* A media step that waits for assets parks in `awaiting_review`; the asset service
  calls `Scheduler.review` when all its assets have settled. `AssetAnalysis` has both
  sides (`StepStarts`, `StepEnds`, `ResumeRead`, `ResumeReview`, `ResumeMark`).
* `LibraryBuild` waits for analyses. It uses of `AssetAnalysis` only that an analysis that
  was asked for ends, completed or failed (`Analysed`).
* Executions of a document run may outlive it and still publish artifacts;
  `DocumentPurge` has them next to the purge workers.
* API commands are actions, one transaction each, as they hold the run row; the
  webpage handlers, which read first and decide in a second transaction, are
  two (`Check` and `Decide` in `WebpageReviews`).

## 2. Modules

| module | extends / instances | what it is |
|---|---|---|
| `PaidContract` | | CHECK constraints and transition trigger of migration 0020: what the database accepts |
| `PaidLedger` | `PaidContract` as refinement | ledger, capability, provider, lease clock |
| `StepLifecycle` | | what a run promises about its steps |
| `RunScheduler` | `StepLifecycle` as refinement | workers, rows, queue keys, API commands, crashes and lapses |
| `LeaseContract` | | what a leased queue promises about jobs |
| `RedisJobs` | `LeaseContract` as refinement | scripts, WATCH transactions, Redis's clock |
| `AdmissionContract` | | the commands as the in-memory `repository.py` executes them, each one step under one lock |
| `RunAdmission` | `AdmissionContract` as refinement | transactions with waiting insertions, limits, publication, intake and sweep |
| `AssetAnalysis` | | pipeline workers, API, operator's tool, the waiting step |
| `LibraryBuild` | | coordinator, acquisition endpoint, analyses |
| `DocumentPurge` | | commands, purge workers, objects and rows, late publishers |
| `WebpageReviews` | | gates, executions behind them, people who decide |
| `BenchmarkJobs` | | one event loop, one lane, a thread, a process |
| `XProofs` for `PaidLedger`, `RedisJobs`, `RunAdmission`, `WebpageReviews`, `DocumentPurge`, `RunScheduler`, `AssetAnalysis` | `X`, TLAPS | theorems about `X` |
| `BackgroundJobsProofs` | `BenchmarkJobs`, `LibraryBuild`, TLAPS | theorems about both |
| `MCX` for each component | `X` | values of the constants for TLC |

A definition marked "Faulty" or "Plausible bug" is not part of the
specification: it is what the definition after it would be with a bug one could
write there. Each property is shown to notice one of them (`mutants` in
`PROJECT.json`).

### `PaidLedger`

State: `op` (an operation row: status, lease owner, lease expiry, provider
task, incurred cost, verification result, "definitely rejected" marker), `run`
(status, billing state, incurred sum, reconciliation flag), `wk` (the program
counter of each worker in `RunwayMediaGenerationCapability`), and of the
provider `posts` (requests in flight), `accepted` (how many tasks were accepted
for an operation) and `final` (their verdict and cost).

Actions: one for each ledger method (`ReserveNew`, `ReserveExisting`,
`ReserveExpired`, `BeginSubmit`, `ReleaseDefiniteRejection`, `MarkSubmitted`,
`MarkSubmitUnknown`, `MarkSucceeded`, `MarkFailed`, `SettleRun`), one for each
step between two of them (`SendPost`, `Poll`, `Verify`, `Abandon`), and for the
provider and the clock. Each ledger method is one transaction under the row
lock of the operation and includes the AFTER trigger that recomputes the run
(`AggregateBilling`). A method that raises sends the worker back to idle, as an
exception ends the step; the step may be started again at any time.

Abstractions. Amounts are in units of one clip; a lease token is the worker that
drew it; an expired lease is a flag that may be set at any moment while the row
submits; prompts, media and provider payloads are left out; a verification is a
choice between accepted, rejected and an error.

### `RunScheduler`

State: `step` (a `run_steps` row), `run`, `job` (Redis jobs by idempotency key:
step and attempt), `outbox` (publications a committed API retry still owes),
`wk` (worker's program counter and locals) and `used` (bounds spent).

Every read and every write of PostgreSQL or Redis is one action, so another
worker or command may come between any two. A row's revision is who still holds
it: `fresh` is the set of rows a worker has read and nobody has written since, so
the compare-and-swap of `save_step` succeeds exactly for those (`SaveStep`,
`Outdate`). `run` works the same (`runFresh`). `_sync_run` with its three tries is
`SyncRead`/`SyncSave`; `next` says where its caller goes on. The pass of
`schedule_ready` is `Wave`, `WaveSave` (one cancellation of a blocked step
each), `ReadyList`, `Publish` (one key each). `recover` is `Recover`,
`RecoverRead`, `RecoverSave`, `RecoverEnqueue` and then a pass. `create_run` inserts
one row per transaction (`InsertStep`). A delivery is `Inspect`, `Claim`,
`Checkpoint`, `HeartbeatRead`/`Save`, `Recheck`, `Finish` and the ways out.

Abstractions. One run. A delay ends and a lease lapses at any moment; a lapse under
a live worker is bounded by `MaxLapses`. What a step computes is nothing; that it
raised, and whether retryably, is a choice. Results, artifacts, usage and
events written in the same transactions are left out. `Scheduler.review` is in
`AssetAnalysis`, where the service calls it; `Scheduler.cancel_run` has no caller.

### `RedisJobs`

State: `job` (hashes), `ready` and `leases` (scores of the sorted sets), `idem`,
`held` (the delivery a client works on, with the end of the lease as it knows it)
and `txn` (its WATCH transaction).

A Lua script is one action, because Redis runs it alone. `Claim` is both loops of
the claim script: the sweep of up to `Batch` expired leases of every queue, then the
scan of up to `Scan` due jobs of the claimed queue, which settles exhausted ones and
takes the best. The API's `renew`, `acknowledge`, `retry` and `cancel` are WATCH
methods: `Begin` is WATCH, HGETALL, TIME and the checks; `Commit` is EXEC, which
succeeds only when nobody wrote the hash in between; `Conflict` is the retry loop.
The clock read by `Begin` may be stale at `Commit`; `lag` is by how much.

Times are offsets from Redis's clock. `Tick` subtracts one from all of them; they
stop at `-Horizon`, so the state space is finite though time is not bounded.
`Answered` is the answer of a settling call, which may be lost: the client then
keeps the delivery and may call again, but may not count on the lease. `Drop` is a
crash.

Abstractions. A job id is drawn once. Ties the code breaks by id are a choice
(`Earliest`, `Best`). A token is the attempt number, as fresh as the uuid the code
draws. Payloads and the fingerprint comparison of `enqueue` are left out here;
the fingerprint's effect on publication is in `RunScheduler` (`Refused`).

### `RunAdmission`

State: `record` (`idempotency_keys`), `born` and `run` (rows of `runs` and how much
of the graph each has), `msg` (the intake job), `req` (where each client's
transaction stands), `told` (history: the answers given), `wk` (what each worker
materializes).

A command looks the key up, waits for the uncommitted insertion of another with the
same key (PostgreSQL's unique index), counts active videos under the workspace lock
(`Count`), creates its runs with the record in one transaction (`Create`), and then
publishes one intake job per run (`Publish`, `PublishFails`). The order of
validation and replay differs per command, as in the code: paid runs are looked up
before they are validated, other runs after (`Refuse`). Workers take an
intake job only within the first `SweepLimit` pending runs, as `load_pending_graphs`
limits its query, and `Sweep` picks up what no job is left for. The queue forgets a key
after seven days (`KeyExpires`, once the job is over). What a graph
contains, and all requests about resources other than runs, are left out.

### `AssetAnalysis`

State: `asset`, `job`, `batch`, `item` rows, `msg` (deliveries), `outbox` (jobs
recorded but not yet enqueued), `patch` (a metadata update between its read and its
write), `step` (the waiting media step) and `wk`. Each transaction of
`postgres_asset_jobs.py` is an action (`Claim`, `RenewItem`, `Checkpoint`, `Publish`,
`MarkFailure`, `MarkCancelled`, `Refresh`) and each of the API's asset commands another
(`RequestAnalysis`, `RequestCancel`, `RetryFailed`, `ReviewItem`, `TransitionAsset`,
`ReadMetadata`/`WriteMetadata`); the operator's tool claims beside the queue
(`RunTool`).

Abstractions. Thirteen stages are two: inspection, which `request_changes` retains,
and understanding. A batch has the one item the service gives it. Content and
scores are left out; how a stage ends is a choice, and so is a failure between the last
stage and the publication (`StageFails`). `auto_ready` is a constant: a worker restarted
with another value while a job is under way finds a batch of another configuration,
acknowledges the delivery and leaves the item as it is, which is left out.

### `LibraryBuild`

State: the build's row and delivery, `wk`, `call` (acquisitions under way in the API), `known`
(URLs whose import the API process remembers; lost by `ApiRestart`), the candidates' `asset`
rows, and `cut` (history: an acquisition may have stopped half way, by an interruption or at a
conflict). What every specification has is named after the component here (`BuildInit`,
`BuildNext`, `BuildSpec`, `BuildTypeOK`), since one module of theorems extends this module and
`BenchmarkJobs`. The acquisition runs on in the API when its worker has crashed or given up
waiting, so two may interleave: `call` has its own program counter over the candidates (scan,
ask for analysis, retire what is over budget, send). An import is two transactions with the
storage between them, `Import` (the asset is created, taken over or replayed) and `Upload` (its
upload is completed, which sends it to analysis again).

Abstractions. One build, whose message always names the library of its row, as its only
publisher copies it from there; a search finds the URLs in the same order every time, and two URLs may
have the same content, which is one asset (`Found`); 2000 deliveries are taken as
inexhaustible.

### `DocumentPurge`

State: `src` (source row with hold and retention), `grant` (presigned upload),
`file`, `upload` (a completion between its check and its write), `run`, `art` (artifact
row and object), `pub` (executions that publish), `req` (purge requests), `wk`.
S3 and PostgreSQL share no transaction: every S3 call is an action, every transaction
another. A lease token is the worker that holds it. An artifact's key is the hash
of its content, so repeated executions publish one object.

### `WebpageReviews`

State: the run's `graph` (single page or site), `step` rows with revision, contents
and what they were made from, `work` (executions, each with the revision it holds and
what it read of the gate), `attempts` (capture attempts), `actions`
(`review_actions`), `client` (a person's page and command). A person loads evidence,
thinks, and sends a command that names revision and hash; the handler checks in one
connection and decides in another transaction. Contents are numbers, equal when the
bytes are.

A manifest of a site is shown, and a decision on it accepted, only when the pages it
lists are of the origin that was asked for (`Displayed`): `review_site_manifest`, the
handler of the scope and the storyboard, computes the metadata of the decision before
anything else and refuses what it cannot display. The browser follows redirects, so
pages of another origin are a choice made with the bytes (`Redirects`, the field
`away`). The handlers of screenshot and quality ask for other things (`Visible`,
`Admits`).

Abstractions. Deliveries, heartbeats and scheduling are in `RunScheduler`;
`capture_pages` and `analyze_regions` are one step here, and so are the four steps
of `compose`. Commands name the revision (the generic quality endpoint allows a
command without). A command on a site's manifest always carries a selection, whatever it
decides. Pilot feedback and what else manifests contain are left out; that a selection
is one of the manifest's pages is taken for granted.

### `BenchmarkJobs`

State: `job` (SQLite rows), `files` (attempt directories), `lane` (the `_run` task's
place), `child` (thread or process), `service`. API calls and lane share one event
loop, so an action lasts from one await to the next; what the lane knew before an
await may be false after it, and the lane writes whole rows from the copy it took
(`LaneRow`). `child` is the child the lane waits for: when the lane's own look at the
storage fails, the acquisition thread goes on unwatched, in the directory of an attempt
that has failed and under a name no report uses (`AcquireFailed`). A crash takes the worker process with it, as the Windows job object
does; on POSIX an orphan may live on, which is left out as are request keys and
the history store.

## 3. What the runs check

Twelve runs. Eleven pass; one states what a comment of the repository says and shows
the program doing otherwise (section 5). Every property of a passing run is also
shown to fail when one definition is replaced by a plausible bug.

| run | question | bounds, and why they are enough | states |
|---|---|---|---|
| `paid_ledger` | Can two executions of the paid step, with crashes, lost answers, expiring leases and every verdict, pay twice, forget a task, or get the books wrong? Does the ledger only write what migration 0020 accepts? | 2 workers, 2 candidates, costs 0..2 against a clip price of 1 (so over-charging happens), budget of two clips. Races need two workers; the order of candidates needs two. | 28 000 |
| `scheduler` | Who commits a step two workers execute? Is a waiting step always able to start? Is the verdict shown ever stale, and does the last worker store it? Are the steps a run promises kept? | chain of two steps, the first reviewed, 2 attempts, 2 workers; either one crash anywhere, or a lapsed lease together with one API command. Two events together are followed as long as the steps have had two attempts between them (`FewAttempts`). | 908 000 |
| `scheduler_liveness` | Does all work end and the run row catch up, after a cancellation as well? | a capture worker and a general worker, which serve one queue each, so each must reach the other's steps through the rows; a graph half inserted; one lapse, one command. | 188 000 |
| `redis_jobs` | Do hash, ready set and lease set agree, is a lease exclusive, is the contract kept, does every enqueued job settle? | 2 jobs in one queue, one more urgent, with a common deduplication key, 2 clients, one and two attempts, batch and scan of one (so the limits bite), leases of two ticks, TTL of one, transactions that lag. | 392 000 |
| `assets` | Who publishes an analysis two workers run? Can anything unscanned become ready? Do the tables agree on the verdict? Is a started job or the parked step forgotten? | one asset with two jobs, 2 workers, any two of a crash, a lapse under a live worker, an API call, an operator's command. | 2 139 000 |
| `asset_resume` | Does every started job end, and is the waiting step woken after all its assets and not before? | two assets waited for, 2 attempts, 3 deliveries, one crash. | 501 000 |
| `library_build` | Does a build complete only after its analyses, follow what it imported, and keep its delivery until it has ended? Does it end? | 2 workers, two overlapping acquisitions, three URLs, two of them with the same content, against a budget of one, any two of crash, lapse, API restart, client timeout, failed enqueue, failed source, rejection, cancellation, deletion. | 911 000 |
| `documents` | Do tombstones tell the truth, is anything protected erased, is a frozen document left in nobody's hands, does a deletion hang? | one document, a run created in a race with its deletion, two executions publishing, two requests, two purge workers with two attempts, any three of crash, lapse, S3 failure, failed record, hold, retention, late completion. | 895 000 |
| `document_late_copy` | see section 5 | the same without any event | violation |
| `run_admission` | Does a key have one effect and one answer, is the video limit kept, does every accepted run start, do transactions behave as the atomic commands? | four scenarios (`MCRunAdmission`): two webpage videos against a limit of one; a run or a paid run; a batch and its retry; a plain run with two workers. A sweep window of one, so that runs wait outside it; 2 deliveries. Two faults together in the second scenario only, one in the others, and none after a batch was retried. | 201 000 |
| `benchmark_jobs` | Can a note be analysed twice at a time, a report lack its files, an old attempt write over a new one, a job hang? | 3 jobs of 2 attempts on 3 notes, a queue of 2, calls between any two awaits, one of crash, stop, dead lane, failed cleanup, expiry. | 651 000 |
| `webpage_reviews` | Is what lies behind a gate made from approved bytes? Is an accepted command recorded, and which waiting gates can be decided? | both graphs, 2 people, 2 selections, 2 attempts of the first gate of each graph (`discover`, `screenshot`) and one of the other steps, any two of a lapsed lease, a lost answer, a cancellation and a manual retry. | 542 000 |

What the properties are about:

* `AtMostOnePaidTask`, `PaidTaskNeverForgotten`: a POST may be accepted with its
  answer lost while its submit lease expires under it. No second POST follows, and
  the task stays named by the row or the row waits for reconciliation.
  `BooksMatchProvider`: the sums which triggers and `settle_run` write equal what the
  provider charged. `ImplementsContract`: the database never rejects a write.
* `WaitingCanStart`: neither the attempts of a waiting step nor the queue key that must wake it
  are spent before it runs. `ResultFromLeaseHolder`: of two workers on one step only the one in
  the row commits. `TerminalRunIsTrue`: the run row against the step rows. `OutcomeIsInHand`:
  once every step has ended, the run row shows the outcome or a worker is on its way to store
  it, whatever conflicts on the way use up its tries. `ImplementsLifecycle`: the steps a run
  promises (`StepLifecycle`). `WorkRunsOut`, `RunCatchesUp`: progress, with nobody obliged to
  review.
* `NoJobLost`, `OneJobPerKey`: structures that scripts update separately.
  `ExclusiveLease`, `KeepsContract`: who may move a job. `JobsSettle`: in spite of
  limits and dead clients.
* `PublishedByHolder`, `ReadyWasScanned`, `VerdictsAgree`: an analysis writes an asset,
  an item, a job and a batch that users and operators write as well.
  `NothingIsForgotten`: a delivery is acknowledged by a worker that does not write the
  verdict, and a batch is noted as reported by one that does not run the step.
  `JobsSettle`, `StepWoken`: two leases (item and delivery), waiting items and a parked
  step, none of which may wait for ever.
* `CompletedAfterAnalysis`, `FollowsWhatItAcquired`, `BuildEnds`: an acquisition that is
  repeated, overlaps with itself and stops half way, also between the two halves of an import. `DeliveredUntilEnded`: a worker that has
  lost the row does not acknowledge the delivery for it.
* `TombstoneIsTruth`, `ProtectedIsNotErased`, `DeletionEnds`: objects go first, rows
  after, while holds, uploads and publishers come in between. `FrozenIsInHand`: a request that
  fails, is overtaken or loses its worker leaves the source to another attempt, a recorded
  failure, or reopens it.
* `OneEffectPerKey`, `LimitKept`, `ImplementsContract`: requests between look-up and commit.
  `AcceptedStarts`: a bounded sweep, bounded deliveries and a half inserted graph.
* `SpentOnce`, `PublishedHasFiles`, `OldAttemptIsSilent`, `JobsEnd`: a lane that comes back
  from an await to a job that was cancelled, retried or expired.
* `WorkedFromApproved`: two people, a worker that repeats the step, and the row read
  twice by the handler. `AnswersAreTrue`: what the API says was done is done; the gate that
  waits is the one shown; and it can be approved and rejected exactly when its evidence can be
  displayed, which a manifest with pages of another origin cannot. Such a gate takes no decision
  at all, also none that was already on its way, and only a cancellation ends it (`OnlyCancelled`,
  section 5).

The type invariants (`TypeOK`, `BuildTypeOK`) are proved, not listed in a cfg: what TLC
evaluates on every state is worth more when it can fail for a reason.

Between them the passing runs fire every action and every disjunct of the
next-state relations. Symmetry (of workers, or of people and selections) is used
where no liveness is checked.

`CHECK_DEADLOCK FALSE` is given where the system may really come to rest: all work done and
the bounds on commands spent (`scheduler`, `assets`, `library_build`, `documents`), a
run that has ended (`webpage_reviews`), an idle service that waits for clients
(`benchmark_jobs`). In `PaidLedger`, `RedisJobs` and `RunAdmission` there is always a next
step.

Larger instances of two models were explored once: `DocumentPurge` with four events (3.3
million states, safety), `LibraryBuild` with three events (two URLs, 7.4 million, safety) and
with a budget of two assets (529 000, with liveness). They hold as well.

### Fairness

* Scheduler. `run_forever` catches what one iteration raises and goes on, so each
  worker takes its next step (`WorkerStep`), and reaches recovery and a claim again
  and again (strong fairness of `Recover`/`CreateRun` and `Reserve`: they are
  enabled only between deliveries). A retry delay ends; the lease of a row or a job that
  nobody holds any more lapses. Crashes, lapses under live workers and API commands are
  never forced, nor is the API's publication after a commit (`ApiPublish`): recovery
  does without it. The fixed order in which `WorkerService.process_once`
  (`service.py:121`) polls its queues could starve steps under endless other work;
  the assumption excludes that.
* Redis. The clock ticks; a client with a delivery settles it or dies (`Drop`); each
  queue is claimed from again and again by some free client (strong, since being free
  is not permanent). `Commit` and `Conflict` are not forced. Renewals are never forced and
  never forbidden, so `JobsSettle` leans on clients not renewing for ever: that is
  the fairness of settling or dropping.
* Assets. Workers keep polling; recorded jobs are enqueued by the API call or its
  retry (`EnqueueAnalysis`); leases nobody renews end. A delivery whose worker is gone
  lapses after the item's lease, as the configured default
  (`max(lease, 600)` against `max(lease, 300)` seconds) has it.
* Library builds. Workers, acquisitions under way and analyses go on.
* Documents. Upload grants expire, runs end, purge workers go on, the lease of a
  crashed one lapses. Nobody is obliged to complete, hold or request.
* Admission. *Some* worker goes on while others may hang; the runtime starts a run whose
  graph is complete. No client is obliged to repeat a request.
* Benchmark jobs. The lane goes on, thread and process have deadlines, a stopped service
  is started again.

## 4. What is proved

TLAPS checks every theorem for all values of the constants that meet the stated
assumptions: any number of workers, clients, keys, jobs, attempts and events.

| theorem | property | assumptions |
|---|---|---|
| `PaidLedgerProofs!TypeCorrect` | `TypeOK` | `NAssumption`, `MoneyAssumption`, `WorkerAssumption`: at least one candidate, natural amounts |
| `PaidLedgerProofs!ExactlyOncePaidTask` | `AtMostOnePaidTask` | as above |
| `PaidLedgerProofs!PaidTaskKept` | `PaidTaskNeverForgotten` | as above |
| `PaidLedgerProofs!BooksAreRight` | `BooksMatchProvider` | as above |
| `PaidLedgerProofs!LedgerImplementsContract` | `ImplementsContract` | as above |
| `RedisJobsProofs!TypeCorrect` | `TypeOK` | `JobAssumption`, `TimeAssumption` |
| `RedisJobsProofs!NoJobIsLost` | `NoJobLost` | as above |
| `RedisJobsProofs!AttemptsBounded` | `FailedAfterAllAttempts` | as above |
| `RedisJobsProofs!SettledForGood` | `TerminalIsFinal` | as above |
| `RedisJobsProofs!LeaseIsExclusive` | `ExclusiveLease` | as above |
| `RedisJobsProofs!OnlyHolderSettles` | `SettledByHolder` | as above |
| `RedisJobsProofs!OneJobPerKeyAndTTL` | `OneJobPerKey` | as above; uses `TTL <= Horizon` |
| `RedisJobsProofs!ImplementsLeaseContract` | `KeepsContract` | as above |
| `BackgroundJobsProofs!TypeCorrect` | `TypeOK` | `BenchmarkAssumption` |
| `BackgroundJobsProofs!NoteIsSpentOnce` | `SpentOnce` | as above |
| `BackgroundJobsProofs!ReportsHaveFiles` | `PublishedHasFiles` | as above |
| `BackgroundJobsProofs!AttemptsGoForward` | `OldAttemptIsSilent` | as above |
| `BackgroundJobsProofs!BuildTypeCorrect` | `BuildTypeOK` | `NameAssumption`, `FoundAssumption`, `BoundAssumption`: a finite search, a positive budget |
| `BackgroundJobsProofs!CompletedOnlyAfterAnalysis` | `CompletedAfterAnalysis` | as above |
| `BackgroundJobsProofs!AcquiredIsFollowed` | `FollowsWhatItAcquired` | as above |
| `BackgroundJobsProofs!DeliveryOutlivesBuild` | `DeliveredUntilEnded` | as above |
| `RunAdmissionProofs!TypeCorrect` | `TypeOK` | `AdmissionAssumption` |
| `RunAdmissionProofs!KeysHaveOneEffect` | `OneEffectPerKey` | as above |
| `RunAdmissionProofs!LimitHolds` | `LimitKept` | as above |
| `RunAdmissionProofs!CommandsAreAtomic` | `ImplementsContract` | as above |
| `WebpageReviewsProofs!TypeCorrect` | `TypeOK` | `ReviewAssumption` |
| `WebpageReviewsProofs!OnlyApprovedIsUsed` | `WorkedFromApproved` | as above |
| `WebpageReviewsProofs!AnswersAreSo` | `AnswersAreTrue` | as above |
| `DocumentPurgeProofs!TypeCorrect` | `TypeOK` | `NameAssumption`, `BoundAssumption` |
| `DocumentPurgeProofs!TombstonesTellTheTruth` | `TombstoneIsTruth` | as above |
| `DocumentPurgeProofs!NothingProtectedIsErased` | `ProtectedIsNotErased` | as above |
| `DocumentPurgeProofs!FrozenStaysInHand` | `FrozenIsInHand` | as above |
| `RunSchedulerProofs!TypeCorrect` | `TypeOK` | `GraphAssumption`, `WorkerAssumption`, `BoundAssumption` |
| `RunSchedulerProofs!WaitingCanAlwaysStart` | `WaitingCanStart` | as above |
| `RunSchedulerProofs!DependenciesComeFirst` | `Started`: no step runs, waits for review or has a result unless its dependencies have succeeded | as above |
| `RunSchedulerProofs!OutcomeStaysInHand` | `OutcomeIsInHand` | as above |
| `RunSchedulerProofs!ResultsFromLeaseHolder` | `ResultFromLeaseHolder` | as above |
| `RunSchedulerProofs!SchedulerImplementsLifecycle` | `ImplementsLifecycle` | as above |
| `RunSchedulerProofs!TerminalRunsAreTrue` | `TerminalRunIsTrue` | as above and `Materialized = Steps` |
| `AssetAnalysisProofs!TypeCorrect` | `TypeOK` | `JobAssumption`, `LimitAssumption`: at least one job, finitely many of them parked for |
| `AssetAnalysisProofs!ReadyAssetsWereScanned` | `ReadyWasScanned` | as above |
| `AssetAnalysisProofs!VerdictsOfItems` | `VerdictsAgree` | as above |
| `AssetAnalysisProofs!ResultsFromHolder` | `PublishedByHolder` | as above |
| `AssetAnalysisProofs!NothingForgotten` | `NothingIsForgotten` | as above |

`FailedAfterAllAttempts`, `TerminalIsFinal` and `SettledByHolder` are proved only; the
contract that `redis_jobs` checks contains what they say of a single step. So are `Started`
and the type invariants.

**The paid ledger.** "At most one task" is not inductive: whether a POST may still be
accepted depends on who is about to send. `IInv` follows the one *permission to
POST* of an operation: `begin_submit` gives it out with the row's transition from
reserved, it is with a worker about to send, then in flight, then either
accepted, refused or unanswered, and only a definite refusal gives it back
(`OnePermission`, `RefusedIsClean`). The rest says that a row or worker that names
a task names the accepted one (`TasksAreReal`), that a row with a permission
outstanding is unresolved (`InFlightUnresolved`), and who owns a submission
(`HolderOwns`). Expiry of a lease under a live POST only moves the row to
submit_unknown, from which no permission is ever given out: that is the heart of
the argument.

The books need an invariant of their own, `BooksOK`: what a worker has been told a task cost is
what the provider charged (`CostsTold`), so is what an ended row has booked (`RowsBooked`; any
other row has booked nothing), the run's cost is the sum over its rows and its books are closed
as settled only over rows that all succeeded (`RunBooked`), and no more is reserved than was
authorized (`WithinBudget`). Sums over the operations are taken in the order `MapThenSumSet`
picks; that they grow by what one operation adds, are bounded by the number of terms and agree
when the terms do is proved by induction over sets of numbers (`SumAnyFirst`, `SumSame`,
`SumBound`), as the library's theorems with an operator as parameter cannot be used. For the
contract of migration 0020, each write of a worker is a `LegalRow`, and such a write is the
contract's step.

**The Redis queue.** Six scripts, four transactions with a stale clock and a tick that
changes every time would mean many cases for each invariant. The proof goes in two
halves. The first (`CoreInvariant`) shows that whatever the operation, each job
either keeps, is swept (given up or taken back), added, cancelled, taken, prolonged
or settled, and each delivery changes only with its job (`Step`, `Evolves`,
`HeldEvolves`). Its invariant `Core` needs, besides the agreement of the three
structures, that a transaction EXEC would still accept has read what is still
so (`TxnSound`): that is WATCH. The second half uses only `Step` and the tick:

* `LeasesSound`: who counts on a live lease is backed by the hash with its own token and
  an end no later than the hash's, or the job is settled (`HolderSound`); tokens of a
  job are never given out twice (`TokensDiffer`). Exclusive leases follow, since
  a claim takes only jobs whose lease has ended by the clock.
* `KeysSound`: a key's remaining TTL is at least what the age of any job created
  under it leaves, so a new job under the key means the old one is a TTL old.
* `ChangeKeepsContract`, `TickKeepsContract`: each kind of change is an action of
  `LeaseContract`, hence the refinement.

**Admission.** One effect per key holds because an open transaction that has inserted the
key is the only one with it and the key has no effect yet; the limit because at most
one transaction has counted and not committed, and what it counted has not grown since
(`Transactions`): that is the workspace lock. `Numbered` says that runs not born belong
to no key. For the refinement, `Create`, `Replay` and the changes of a run's status
map to the atomic commands of `AdmissionContract`; look-ups, waiting, publication and
all of the workers' steps stutter. The contract's limit counts only
videos that no manual retry has reopened: the code does not count at a retry.

**Benchmark jobs.** The lane writes a whole row it read before an await. This is
harmless because while the lane has a job no call gives it another attempt
(`LaneSound`: the lane's attempt is the row's) and because rows that are not published
name no artifacts (`RowsSound`). Then a report names the attempt whose files the ended
worker left.

**Webpage reviews.** Revisions grow with every write of a step's row, so a command that
names the row's revision names the bytes in the row (`CommandsKnow`): the approval
recorded is of what the person had before them, although check and decision read the
row separately. An approved gate is never written again: worker, heartbeat and
commands all refuse a row that has succeeded. So what an execution read of the gate
is still in it when the execution ends (`WorkKnows`, `RowsKnow`).

What people are told needs more of the rows (`Honest`). A review that names a revision
is on the row's evidence and among the recorded decisions (`ReviewsLogged`): the worker's copy
names none, so a repeated attempt cannot answer for an earlier one. A kept answer
belongs to a recorded command (`CommandsLogged`). A gate that waits is undecided, has evidence,
and the capture recorded with it (`GatesWait`); a step is under way only behind one that has
succeeded (`InOrder`), so the chain of conditions in `_run_status` reaches this gate and
no other. A capture's number is recorded when its attempt ends, so a running one can still be
(`AttemptsPast`). A manifest is displayed or not by what it lists, which only another attempt
changes; so a command that got past the check of a site's gate names evidence that was displayed
(`Informed`), and while a gate waits with a manifest that is not, every command that reaches the
decision names another revision and is refused (`AwayWaits`).

**Document purge.** A worker claims only after the upload URL has expired, so the file it
deletes is not put again and is still gone when the source becomes purged (`SourceGone`).
An artifact's object that a worker has deleted can come back only through an execution
that found it gone while its row was there; the execution remembers this
(`NotYetBack`, `Erased`). Rows a worker has seen stay recorded (`SeenRows`), what it has
dealt with stays erased in this sense (`Dealt`), and `complete` turns exactly the rows it
has seen into tombstones (`Tombs`). The lease is not needed for any of this: two workers
that both believe they own a request would still tell the truth.

A frozen source is in the hands of a request because source and request move together
(`InHand`). The command that freezes the source queues a request with all its attempts; giving a
request back (`GiveBack`) leaves it retrying only with an attempt left, and records its failure
otherwise; a claim takes it from hand to hand; a hold takes the source back in the transaction
that blocks the requests. Two requests may purge at once: when one is given back, the
source is pending again while the other is still in a worker's hands.

**The run scheduler.** Thirty actions of a worker, five commands and four kinds of lapse
write the same rows. The proof first reduces them to what they may do to the rows
(`RowsMove`): nothing, one row inserted, started, withdrawn, delivered, failed or
cancelled, all open rows stopped, or one failed row reopened with what was cancelled behind
it. That each write is one of these rests on `WorkerSound`: a row a worker holds `fresh`
is as it was when the worker looked (waiting before a claim, running under its own lease
before a result, no cancellation of the run in between). A worker that does not act either
still holds such a row or the row has been written (`Kept`, `OthersSound`), which is the
compare-and-swap. Every form of `RowsMove` is a step of `StepLifecycle`, hence the
refinement; `ResultFromLeaseHolder` follows since only `Finish` turns a running row into a
result.

That a waiting step can start needs the queue keys. Each published key, or one that is about
to be, names a step whose dependencies have succeeded, and an attempt already started or the
next one (`Known`); a key is acknowledged only when its attempt has been started or
never will be (`Spent`: started, the run cancelled, or the step cancelled although its
dependencies have succeeded, which no manual retry reopens). No write takes either back
(`KnownStays`, `SpentStays`). Releasing instead of acknowledging the delivery of a step that is not
yet due is what makes this inductive.

That the outcome is stored is a matter of counting. Whoever ends the last step goes on to
`_sync_run`, and has three tries there. Its compare-and-swap fails only if somebody wrote the
row since its read, and after the last step has ended few writes can come: one of an aggregate
read before that (`Stale`; its writing outdates all other such copies, so there is one such
write at most), one by `create_run`, which fails a run that shows as queued, and the right one.
`Rivals` is the number of wrong writes that may still come, at most two, and `Carried` says:
while the outcome is not stored, or a stale copy could still overwrite it, some worker is on
its way with all its tries (`Coming`) or in `_sync_run` with a try for each rival (`Carrier`).
A rival's write costs every carrier one try and is itself one rival less; a right write leaves
nothing owed, or makes the stale copies fail. A command of the API that writes the row stores
the aggregate in the same transaction. Three tries are just enough for this count. The property
excludes a crash: nothing else leaves the run row behind its steps.

For the row of the run, `Truth` adds that a worker about to store a terminal status has the
right one as long as nobody has written the row since. A terminal aggregate is changed by
a reopening only (`EndIsStable`), and the retry command writes the row in the same
transaction. `Materialized = Steps` excludes runs to which `create_run` is still adding rows:
the aggregate of the first rows can be terminal before the last is there (section 5).

**Asset analysis.** `Fits` relates a worker to the item it works on: if nobody wrote the item since
its claim, the item runs, is the worker's and is at the stage the worker believes it to be. Two
such workers would both be the owner, so there is one, and what it publishes it has finished:
`PublishedByHolder`. Verdicts are harder, since `mark_failure` commits the asset's and the job's
failure even when the item was lost. Hence the last part of `Fits`: while no lease has lapsed
under a live worker and nobody interfered with the job, every worker at an item is its holder
and the item's lease has not ended, so no claim can take the item from it; then the failure it
writes is the item's. What lapses after a crash is covered, as nobody is at that item any more.
`Together` (an item comes with its batch) is needed because the service makes both and
would otherwise start over an item somebody holds. The same calm makes a job's delivery safe. `Care`
says that a job without a verdict has an item still open and a delivery not yet acknowledged
(`Rests`), and that whoever handles the item holds the delivery, meets a running item only after
its lease ended, and is about to acknowledge only when the verdict is there (`Minds`). So a
worker that finds the item taken, waiting or lost gives the delivery back. For the parked
step, `Told` follows the order of three transactions: a verdict is final (`Moves`), a worker sets out
to wake the step only when all jobs it parked for are over, and it notes the batches as reported
only when the step is awake or has parked again after seeing all of them (`Heard`). The many steps
that do neither are dealt with together (`Quiet`). `ReadyWasScanned` needs no worker at all: each of
the four ways to become ready either checks the scan or stores it.

**Library builds.** `BuildInv` says what each party may count on although all others go on: an
acquisition's assets are within the budget and were asked for, and enqueued but for its remaining
jobs (`CallOK`); a worker about to save has enqueued assets only, and one about to conclude
that nobody wrote past has seen every analysis of its list ended (`WorkerOK`); an analysis that is
over stays over: an asset has one job, and an import that sends it to analysis again brings no
second one (`AssetOK`, `Kept`). That nothing imported is left out holds only of
acquisitions that never stopped half way, and there by a different argument, `Follows`: then
only the worker with the delivery is at work, the only acquisition is its own, every URL
the API remembers was tried by that acquisition, and each asset it asked for is in what it has. A
row lost meanwhile has been lost to a cancellation, after which nothing is followed. The delivery
outlives the build since a worker decides to acknowledge only by the status it has just read or
written, and an ended build stays ended (`Acked`).

**What the proofs changed.** They found three errors in the models. `SyncSave` kept the place
after a claim's `_sync_run` for later ones, so a failed attempt could go on executing, unlike
`_fail_claimed` (`scheduler.py:781–793`). And `StepLifecycle!Reopen` excluded a behaviour the
code has with four steps, more than the runs have: 4 behind 2 and 3, 2 behind 1; 3 fails and 4 is
cancelled, then 1 fails and is retried before 2 is cancelled. 4 is reopened though it stays blocked
by 3, until the wave cancels it again. `Downstream` was a recursion, which cannot be reasoned about,
and is now the least fixpoint, as the query computes it. `LibraryBuild` identified a URL with its
asset, so no acquisition could meet the same content twice; `acquire_assets_for_topics` excludes
repeated URLs (`seen_urls`, `main.py:3243`) but not repeated content. The second import
then takes the asset over and its request conflicts with the first (section 5), after which
the budget bounds each acquisition but no longer what was imported altogether; `cut` covers
that case now.

**Model-checked only.** The liveness properties: `WorkRunsOut`, `RunCatchesUp`, `JobsSettle`
(of `RedisJobs` and of `AssetAnalysis`), `StepWoken`, `BuildEnds`, `DeletionEnds`,
`AcceptedStarts` and `JobsEnd`. Every invariant, action property and refinement the passing
runs check has a theorem; `ErasedForGood` is refuted (section 5). Three things are out of the
prover's reach: liveness under fairness and ENABLED; induction over data, except where it can
be stated as an induction over sets of numbers, as for the ledger's sums; and RECURSIVE
operators (none are used).

## 5. Where code and documents differ

By a run:

1. `document_late_copy`: `complete()` compares artifact rows with the manifest of the
   claim, so it misses an object that a second execution of the step puts back after the
   purge deleted it; the tombstone is committed and no row names the object
   (`document_purge.py:190–218`).

The other cases were met while modelling. The models follow the code, and the properties say
what remains true.

* **Scheduler.** A worker that stops between a step's last save and `_sync_run` leaves the run
  row behind, as recovery visits only runs with unfinished steps (`runtime/scheduler.py:712`,
  `postgres.py:258`); hence `RunCatchesUp` is checked without a crash. Nothing but a crash does
  so (`OutcomeStaysInHand`). `create_run` commits node by node, so a run may succeed without
  the rest of its graph (`scheduler.py:103–112`). The cancellation wave may cancel a step
  behind one that a manual retry has just reopened (`scheduler.py:164`).
* **Redis.** The delay is part of the enqueue fingerprint, so publishing the same
  wake-up later without delay is refused (`redis_queue.py:206`). The API's WATCH methods
  compare the lease with a clock read before EXEC, so a lease that ends in between is still
  renewed or settled (`framefactory_api/redis_queue.py:114`), unlike
  `test_expired_lease_cannot_mutate_job`; `ExclusiveLease` holds all the same.
* **Assets.** `mark_failure` commits the asset's and job's failure although its
  compare-and-swap missed, also over a withdrawn asset. Publication does not raise the asset's revision
  (`postgres_asset_jobs.py:628`), so a metadata update in between overwrites it, although
  `docs/ACTUAL_ENGINEERING_ARCHITECTURE.md:85` promises revision protection. An item claim never looks at
  `max_attempts` (`:365`). Progress needs the delivery lease to outlast the item lease: with
  `lease_seconds` of 600 or more an item can be stranded. `hand` and `Spent` in the properties
  mark what these leave out.
* **Library builds.** A repeated acquisition asks for the analysis with a raised revision under
  the same key, which is refused and repeated every 30 s; if that analysis had failed or was
  never enqueued (`main.py:3464`) the build stays running until its deliveries are spent. The
  same happens when one search finds two URLs of one content before the budget is reached: the
  second request conflicts, and so does every repetition of the first. After completion a
  repetition still running imports past `max_assets`. An asset deleted while its analysis is
  pending is waited for for ever (`Stranded`). So is one whose import two acquisitions made at a
  time: `create_asset_upload` lets the second take it over, and `complete_asset_upload`
  (`postgres_repository.py:3992–4016`) looks at nothing but its own mark, so the second
  completion sends the asset back to analysis although its only job is over.
* **Documents.** A hold on a source pending deletion makes it `uploaded`, although
  `deploy/production/README.md:61–62` says it stays frozen; a late completion does the same and
  two requests may then purge at once. After a failed request the deletion can be requested
  again only by way of hold and release. An artifact recorded after the tombstone stays
  available. `_delete_unrecorded` (`s3_artifacts.py:115–123`) may delete an object a second
  execution has recorded meanwhile.
* **Admission.** A manual retry lifts the number of active videos above the limit. `create_run`
  validates before it looks at the key, so a replay is refused when something was unpublished
  meanwhile, while paid runs look first. A replay of a batch's retry with its own key is
  refused (409) when another item failed meanwhile. A batch's cancellation is a gather of
  cancellations with derived keys: some may fail alone. `idempotency_keys.expires_at` is never
  used.
* **Webpage reviews.** The capture worker adopts the origin the browser was redirected to, and
  says why: "the human scope gate displays the final root before any batch capture begins"
  (`web_capture/site_v2.py:108–116`, asserted by
  `test_discovery_adopts_validated_final_origin_after_brand_redirect`,
  `test_web_capture_site_v2.py:369`; the storyboard's pages carry `final_url` too, `:431`). But
  `_site_manifest_content` (`webpage_video.py:1895–1915`) displays nothing of a manifest with a
  page of another origin than `normalized_url`, and `review_site_manifest` calls
  `_site_review_metadata` first (`:1064`), which refuses every decision on what is not displayed
  (`:1731–1738`, `:1757–1763`). Such a gate waits, is shown as waiting, and answers 409 to
  approve, request changes and reject alike, unlike the comment at `:1913` ("The immutable
  artifact remains reviewable"): only cancelling the run ends it. `GateCanBeDecided` states this
  as an equivalence and `OnlyCancelled` as an action property.
  A `request_changes` or recapture command repeated after the
  worker has started the step again is refused although it was applied: the worker's copy of
  the review drops what the check compares (`postgres.py` 985–1000). The replay branch answers 202
  without recording the key, which may then be used for another request,
  unlike `apps/api/README.md:32`. The storyboard is deterministic, so asking for
  changes yields the same bytes.
* **Benchmark jobs.** A cancel that arrives while the lane awaits the last storage check
  (`benchmark_jobs.py:563`) is overwritten: the job becomes ready, unlike the one in
  `test_benchmark_jobs.py:293`. The source video of a job cancelled while its lane
  executed stays after a crash until the retention ends
  (`docs/sop/benchmark-video-analysis.md:83`). A failing write in `_run`'s
  handler ends the lane; `JobsEnd` excludes a dead lane.
* **Benchmark sign-in** (read, not modelled; `benchmark_auth.py` 256–540). Task and request id
  are kept after a timeout, but a restarted browser service answers the same key with a new task,
  and every explicit retry then fails, contrary to
  `docs/sop/xiaohongshu-connection.md`. A click whose wait for the lock times out leaves
  `_start_requested` set, and the next passive GET starts the sign-in. A click queued
  within 3 s of another start is consumed as "checking". `_clear` of the janitor while the
  QR handler awaits the window leads to a second sign-in window.

## 6. What is not modelled

`PROJECT.json` gives the reason per component. Pure data (retrieval scores, EDL
arithmetic, document parsing, report text) has no protocol; FFmpeg, model and browser calls
happen inside one execution of a step and are the choice of how it ends; the web client
keeps nothing durable; schema migrations are run once by an operator. Plain resources of the
API (profiles, projects, skills) use the same key wrapper as the commands of
`RunAdmission` and are left out. Below the granularity of the models are row locks of one
PostgreSQL transaction and Redis's own persistence: losing Redis is losing its jobs,
which `recover` and the intake sweep cover. Heartbeats are modelled where they write a row
somebody else compares (`RunScheduler`, `AssetAnalysis`), else they are the choice of a lease not to
lapse.

## 7. Plan

1. `BenchmarkAuth`: the lock handed to an operation that outlives its request, and
   clicks that come in while it ends.
2. Lock order of API and worker transactions: no circular wait.

## 8. Running

```
tlasany RedisJobs.tla
tlc -workers 2 -config MCRedisJobs.cfg MCRedisJobs
tlapm RedisJobsProofs.tla
```

`PROJECT.json` lists the runs (module, cfg and expectation), the mutants, the lines of
source each definition stands for, the findings, the hazards and the theorems.

# A verification project for backlink-publisher

`backlink-publisher` plans, validates and publishes backlinks to some fifty
platforms. Its core is the publish path: a run reads rows of JSONL, passes each
through gates, calls an adapter of a platform, and records what happened in
several stores that other runs read. A post that is made twice cannot be undone
and a post that is not recorded is lost, and neither a crash nor a timeout tells
which of the two happened. This project models that path in TLA+, checks it with
TLC on small instances and proves its main invariants with TLAPS for all
instances.

Paths below are relative to `src/src/backlink_publisher/` unless they start with
`src/`.

## 1. The system

| Component | State it keeps | Operations | Modelled in |
|---|---|---|---|
| Dedup store and publish gate (`idempotency/store.py`, `cli/_dedup_gate.py`, `cli/_dedup_ops.py`) | `dedup.db`: a row per (platform, account, target URL): absent, attempting, done, failed, uncertain; owner run and pid; `updated_at` | `gate_and_claim`, `intent_write`, `transition`, `forget`, `is_stale_attempting`, adjudication, bulk adjudication, `--force` | `DedupStore`, `PublishDedup` |
| Publish loop (`cli/publish_backlinks/_engine.py`, `cli/_publish_helpers.py`) | the position in the rows, outputs, the exit code | the gates of a row, dispatch, the error arms, settle, checkpoint write | `PublishDedup`, `PublishRun` |
| Checkpoints and resume (`checkpoint.py`, `cli/_resume.py`) | a JSON file per run: the items with status, error class, verified; open or complete | `create_checkpoint`, `update_item`, `mark_complete`, `_run_resume` | `PublishRun` |
| Publish leases (`events/store.py`, `cli/_publish_helpers.py`, `sdk/_publish_runtime.py`) | `publish_leases`: owner pid and expiry per platform | `acquire_lease`, `release_lease`, the acquisition loop, the atexit release | `PublishLease` |
| Circuit breaker (`publishing/reliability/circuit.py`, `policy.py`) | the circuit state file and its lock, the failure counter of the health store | `is_tripped`, `trip`, `record_success`, half-open, `reset_circuit`, `publish_with_policy` | `CircuitBreaker` |
| Transient retries and dispatch chain (`publishing/reliability/transient_policy.py`, `publishing/_registry_dispatch.py`) | none | which errors are retried, and by which adapter | planned |
| Event log projection (`events/projector.py`, `events/_project_reducers.py`, `events/reconcile.py`, `events/reconciler.py`) | `events.db`: the articles, the events, and per checkpoint a cursor | `flush_for`, `project_run_safe`, `project_on_read`, the reconciler's checkpoint pass | `EventProjection` |
| Queue and draft scheduler (`src/webui_app/scheduler.py`, `src/webui_app/api/drafts_api.py`, `src/webui_store/queue_store.py`, `drafts.py`) | the tables of tasks and drafts, the date jobs of APScheduler in memory | add, retry, tick; schedule, cancel, delete, fire; the restore at the start | `WebUIScheduler` |
| Asynchronous operations (`src/webui_app/services/operation_worker.py`, `src/webui_app/api/v1/operations.py`, `src/webui_store/operation_store.py`) | a record and a future per operation | create, start, run, cancel | `WebUIOperations` |
| Backfill and enforce readiness (`idempotency/backfill.py`, `reconcile.py`) | writes done rows into `dedup.db` | seeding from the event log | planned |
| Audit log and digests (`idempotency/audit_log.py`, `_dedup_digest.py`) | an append-only file, a secret | append, digest | no |
| Campaign worker (`src/webui_app/campaign_worker.py`) | futures by campaign | start, status | planned |
| Keepalive (`keepalive/`) | the state of a run | recheck and republish | planned |
| The rest | | see section 9 | no |

How they interact. A CLI run (or a thread of the WebUI through the SDK) takes the
leases of its platforms, then for each row asks the canary and reachability
gates, then the dedup gate, which claims the row of its key in `dedup.db` and
answers dispatch, skip, hold or conflict. A dispatched row goes through
`publish_with_policy` (the circuit breaker) to the adapter. The answer is
recorded twice, in `dedup.db` by `_record_terminal` and in the checkpoint by
`update_item`, in an order that depends on the kind of answer. `--resume` runs a
new process over the checkpoint. An operator adjudicates what was held, forces,
forgets and resets. Nothing but these files connects the processes.

When a run ends, `project_run_safe` diffs its checkpoint with the cursor in
`events.db` and emits what is new; a load of the dashboard does the same for the
checkpoints that have no cursor, and `--reconcile` makes items done that the dedup
store calls done. The WebUI publishes in three ways that share the path above: one
APScheduler thread works off the queue and the scheduled drafts, and a pool of
threads runs the asynchronous operations, of which one may publish at a time.
Request handlers write the same tables and records as these threads.

What is hard:

* **Unknown outcomes.** A dispatch may land and the run may die, or get a 5xx,
  before it knows. What a row says must be safe under both readings.
* **Interleavings.** Runs are processes and threads. Each store is atomic by
  itself (`BEGIN IMMEDIATE`, a file lock), the steps between two of its calls
  are not: `_record_terminal` reads and writes in two transactions,
  `acquire_lease` selects outside of its write transaction, `is_tripped` and
  `is_degraded` read without the lock, a resume loads its checkpoint before it
  has its leases.
* **Crashes and pid reuse.** A claim outlives its process, and a reused pid
  makes it look alive. A time-to-live is the backstop.
* **Two records of one fact.** The dedup row and the checkpoint item disagree
  after a crash between their writes. A resume has to make them agree.
* **Late writes.** A flush reads the file, then the cursor, and writes later; an
  add writes the whole table of tasks back; a cancel and the thread both write the
  record of an operation; the reconciler acts on a record that it read before, and it
  and the runs write back whole checkpoints that they read before. In
  each case something else may have happened in between.
* **Jobs in memory.** The date jobs of the drafts and the futures of the operations
  are gone after a restart, while their rows say scheduled, processing, running.
* **A rollout switch.** Without `BACKLINK_PUBLISHER_DEDUP_ENFORCE=1` a run
  observes: it dispatches whatever the store says, next to runs that enforce.

What makes each component correct:

* dedup: a key is posted at most once plus once per override; what is republished
  is not live; done means live, and is final; one run at a time has a key; a hold
  ends by a decision of an operator only; every claim ends.
* run, checkpoint: done means live; complete means nothing is left to resume; a
  done item is neither dispatched nor taken back; resuming ends.
* leases: two publishers of a platform only if a lease was lost; a lease is the
  holder's until it is released; runs do not refuse each other for ever.
* breaker: a write loses no other platform's trip; a tripped platform was alerted;
  traffic comes back.
* projection: a post is confirmed once; the cursor is never ahead of the log; what a
  run published is in the log after its flush, unless its record was lost, and a
  checkpoint that was never flushed is flushed by the dashboard; what is called done has
  a post.
* scheduler: what is being published is in processing; nothing is published twice
  without a cause; no add is lost; no task stays in processing, and no draft scheduled
  but one whose job was dropped as too late.
* operations: one publishes at a time; no outcome is made up; every one ends.

## 2. The modules

```
DedupStore            rows and single-row transactions
  PublishDedup        runs, dispatches, crashes, operators    -- implements --> PublishBudget
    PublishDedupProofs
    MCPublishDedup
    PublishRun        whole runs, checkpoints, resumes        -- implements --> PublishDedup
      PublishRunProofs
        PublishResumeProofs
      MCPublishRun
PublishLease          the platform leases
  PublishLeaseProofs, MCPublishLease
CircuitBreaker        the breaker and publish_with_policy -- implements --> AtomicCircuits
  CircuitBreakerProofs, MCCircuitBreaker
EventProjection       flushes, the dashboard, the reconciler -- implements --> PostLedger
  EventProjectionProofs, MCEventProjection
WebUIScheduler        the publish queue and the scheduled drafts
  WebUISchedulerProofs, MCWebUIScheduler
WebUIOperations       the pool of threads, its operations -- implements --> PublishSlot
  WebUIOperationsProofs, MCWebUIOperations
```

A definition marked *Variant* is a plausible mistake in the definition that
follows it. No specification uses it. Substituting it shows that a property
notices the mistake.

### DedupStore

A row is a record `[state, owner, aged]`. `owner` is the run (`owner_run_id`) and,
through `PidOf`, its process (`owner_pid`). `aged` stands for `now - updated_at`
being larger than `_STALE_TTL_S`; every write clears it. Each operator is the body
of one `BEGIN IMMEDIATE` transaction, from the row read to the row committed:

| TLA+ | code |
|---|---|
| `IsStaleAttempting` | `is_stale_attempting`: the owner's pid is gone, or the TTL passed |
| `GateVerdict`, `GateRow` | `gate_and_claim`: the verdict and the row it commits, the promotion of a stale claim to uncertain included |
| `IntentRow` | `intent_write`, an `INSERT OR IGNORE` |
| `CanTransition`, `TransitionRow` | `transition` with `expect_from` and `allow_from_terminal` |

### PublishDedup

`row` is the store, `up` the live pids, `job` what each run does: idle, in the
adapter (`dispatch`), about to read the row (`settle`), about to write it
(`write`). Three history variables are what the code cannot see: `posts`, the
posts on the platform; `overrides`, how often an operator overrode a row;
`clean`, whether the key is still inside the contract of enforce mode.

| Action | code |
|---|---|
| `GateEnforce`, `GateObserve`, `GateFault` | `gate`, `gate_with_force`; a store error dispatches in observe mode only, and in enforce mode holds, which changes nothing here |
| `Land` | the platform creates the post, at any moment of the call |
| `Succeed`, `Fail` | the adapter's result or error; `TerminalForErrorClass` is `terminal_for_error_class` |
| `SettleRead`, `SettleWrite` | `_record_terminal`: `store.get`, then `store.transition`, two transactions |
| `Abandon` | an exception between the claim and the settle: the store, the audit log of a force, the verification |
| `Crash`, `Restart`, `Age` | process death with all of its threads, a new process with the pid, the TTL |
| `Forget`, `Adjudicate` | `--forget`, `--adjudicate-uncertain` and its bulk form |

*The contract.* A key leaves it (`clean` becomes false) when an observe run
dispatches over an existing row or without a store, when an error of a class that
counts as "confirmed not landed" arrives after the post landed, when a claim ages
while its run is still dispatching (the TTL assumes it does not), and when an
operator adjudicates wrongly. The properties say what holds until then. Forces
and forgets do not leave the contract, they are counted. A request of a process
that dies lands before the death or never: a later landing, after an operator
looked at the platform and adjudicated, is the wrong adjudication again.

`PublishDedup` does not use leases: the gate alone has to be enough, since the
lease of a long run expires. The circuit breaker is not part of it; what it does
to a dispatch is one of the outcomes of `Fail`.

### PublishBudget

The abstract specification: a key has one permit to post; posting spends it,
dying and holding may lose it, an override grants one. `ImplementsBudget` maps
`PublishDedup` to it: a permit is held by every run whose dispatch may still land,
by a row the gate would dispatch from (absent, failed), and by a key without a
post that is held, or claimed by nobody in flight, since an adjudication may still
reopen it.

### PublishRun

Extends `PublishDedup` with the program of a run. `ckpt` is the checkpoint file,
`proc` where each run is: `lease`, `scan`, `row`, `call`, `settle`, `load`,
`save`. Its field `next` holds the steps that follow, which is how one module
covers the three orders the code has: a success settles the dedup row and then
writes the checkpoint, a raised error writes the checkpoint first, an abort does
one or both and exits. `unverified` is a history variable.

| Action | code |
|---|---|
| `StartFresh` | `publish_rows`, up to the first row; a checkpoint that cannot be created does not stop it |
| `StartResume`, `TakeLeases`, `Refused` | `_run_resume`: the load, then the leases |
| `Revalidate`, `Select` | `_revalidate_checkpoint_items`, `_select_resume_items`, `_emit_noop_resume` |
| `PassOver`, `Drift` | canary, reachability, unsupported platform; `_check_token_drift` |
| `PassGate`, `GateHolds` | the dedup gate, and what the loop does with its verdict |
| `Published`, `InBand`, `Raised`, `Aborts` | `_process_publish_result`, the arms of `_dispatch_adapter_publish` and `_publish_one_resume_item` |
| `Settle` | `_record_terminal` inside a run |
| `LoadCheckpoint`, `SaveCheckpoint`, `CheckpointFails` | `update_item` and `mark_complete`: read, change, replace |
| `Escapes` | an exception that nothing catches |
| `EndFresh`, `EndResume` | `_decide_publish_exit`, `_finalize_resume` |
| `Dies` | process death in the middle of all this |

One checkpoint is modelled: `Fresh` makes it, all other runs resume it, and each may
do so again and again. `Overlap` lets runs share a platform as after a lost lease;
the kept runs set it to FALSE.

### PublishLease

`lease` is the table, `proc` what each pid does, with the platforms it wants,
those it acquired, and the history field `lost`: leases that the TTL or the race
in `acquire_lease` took from it. `Select`, `Insert` and `Update` are the
statements of `acquire_lease`, with what two processes may do in between;
`Release` is one iteration of `_release_acquired_leases`, which may fail; `Kill`
skips it. `Launch(p, wants)` starts a run in a new process or in the WebUI's, whose runs
`_PUBLISH_LOCK` keeps one at a time.

### CircuitBreaker

`file` is the state file, `lock` the holder of the flock,
`failures` the counter, `call` where the call of each worker is. Every writer
(`trip`, `record_success`, `_transition_to_half_open`) is `Ask`, `Lock` (lock and
read), `Write` (write and unlock). `Gate` and `EnforceSkip` are the two unlocked
reads of `publish_with_policy`, `Count` and `Compare` its locked counter update and
the unlocked comparison, `Banned` the duplicate-alert test and the trip.
`Corrupt(form)` damages the file in one of three ways the code tells apart. A garbled
file (no JSON, or it cannot be opened) reads as tripped, and the next writer takes it for empty
and mends it. An undecodable one (not UTF-8) reads as tripped too, but every writer
raises (`WriteRaises`). A foreign one (JSON that is no object) raises in the readers as
well: `is_tripped` ends the publish. Only a call that read the file before the damage still
writes over the last two. A valid object with a malformed entry in it is not modelled.

`alerts` is a history variable: whether a "degraded" decision of a platform was recorded
since its last reset, or lost. The record is best effort (`RecordDegraded` may fail), a
ban on an unreadable file finds every platform degraded already and does not alert, and
a call may die before the record or decide before a reset and trip after it.
`AtomicCircuits` is the abstract specification: a circuit per
platform that each call changes in one step, from what it is at that moment, and a
table that forgets when it is damaged; whatever mends it leaves circuits that have a
time to cool down from. Time is `ts`: not set, within the cooldown, past
it. `trip_on_error` and `_auto_reset` have no caller and are left out.

### EventProjection

`file` is the rows of the checkpoints, `cursor`, `articles` and `log` what
`events.db` holds, `proc` where each run and the dashboard are, `recon` where each
reconciler is. `posts` (what is on the platforms) is what the code cannot see; `settled`
is the dedup store, of which only its done records matter here. A publish run takes
fewer steps than in `PublishRun`.

*Lost updates.* `update_item` and `mark_complete` read the whole checkpoint, change it
and write it whole, under a lock of the process (`checkpoint.py:149`). A reconciler
that another process runs over all checkpoints (`reconciler.py:201`) does the same, so
each of them undoes what the other wrote between its read and its write: a done item is
pending again, or done without its URL. The docstring of `update_item` says
"Atomically" (`checkpoint.py:143`); across processes it is not. Reads and writes are
therefore steps of their own here, and three history variables say what happened:
`sent`, the items a run published with the URL each got; `lost`, those of them whose
record was lost, by a process that died or a write that failed with the post in hand
(`Die`), or by a write that undid the row (`Write`); `skipped`, the items a policy
skipped.

`PostLedger` is the abstract specification, with the posts, what was sent, the items
that are done, their URLs and how often each URL is confirmed, and nothing of files,
cursors and flushes: the rows of a run may be rewritten, also to what they were before,
but an item is done only if its target has a post, and has no URL but one that was got
for it; what is confirmed was posted, and is confirmed once.

| Action | code |
|---|---|
| `Create`, `Resume` | `create_checkpoint`, `_run_resume` |
| `Publish`, `Fail` | the outcome of an item, settled in the dedup store; a run goes through its own list of items, in the order of the file, and a resume does not take up an item that the policy skipped |
| `LoadFile`, `SaveFile` | `update_item` of a run: the read, and the write of all rows |
| `MarkLoad`, `MarkSave` | `mark_complete` of a resume, which writes back what it read as well |
| `Finish`, `LoadCursor`, `Commit` | `project_run_safe`, `flush_for`: `_project_checkpoint` reads the file, `cursor_load`, then the transaction of the events, the articles and `cursor_save` |
| `Confirmed`, `Emit` | `_handle_checkpoint_confirmed` and the other reducers: which rows leave an event |
| `Load`, `NextSource`, `LoadFails` | `project_on_read`, `_collect_sources`, `_project_all` |
| `Match`, `FixLoad`, `FixSave`, `Reconciled` | one pass of a reconciler: `list_failed_items` and `get_many`, then `_auto_fix_checkpoint` for each item, whose `update_item` reads, and writes or raises |
| `Die` | the process of a run dies, or its `update_item` raises and the run goes on without a checkpoint, or its flush raises and is swallowed |

sqlite's legacy mode opens the transaction at the first `INSERT`, so the two reads of
a flush are steps of their own.

### WebUIScheduler

`task` and `draft` are the tables, `adding` the `update()` of each request that adds a
task (its load and its save, under the store's lock), `job` the date jobs, `worker` the
one thread of APScheduler, `req` the second half of a request about a draft. `surplus`
is a history variable: successful publishes less those an operator, a crash or a fault
explains. `missed` is another: drafts whose job APScheduler dropped as too late and that
got no new one.

| Action | code |
|---|---|
| `AddLoad`, `AddSave`, `Retry` | `QueueSqliteStore.update`, `retry_task` (one conditional `UPDATE`, without the lock) |
| `Tick`, `Claim`, `Publish`, `SettleTask`, `Elapse` | `_process_queue_job`: `get_runnable`, `update_task` to processing, the publish, the result; a 429 sets `next_retry_at` |
| `Create`, `Schedule`, `AddJob`, `Cancel`, `Delete`, `RemoveJob`, `BulkCancel`, `Unschedule` | the handlers of `drafts_api.py`, each write of the draft and of the job a step |
| `Fire`, `SettleDraft` | `_publish_draft_job` |
| `Misfire` | a date job found to be more than `misfire_grace_time` (3600 s) late when the one thread gets to it: APScheduler drops it, and nobody writes the draft (`scheduler.py:25`) |
| `StoreFails` | the write of a result that fails for good |
| `Crash`, `Start` | the restart, `_restore_processing_tasks`, `_restore_scheduled_jobs` |

Requests about drafts come one at a time; section 7 says what two of them do.

### WebUIOperations

`status` is the records, `future` what the pool has, `request` and `cancel` how far the
requests are that create and cancel each operation. `live`, `posted` and `dropped` are
history variables: the targets that have a post, the operations that made one, those
that a cancel took out of the queue. The code calls a row a success when it carries a
URL (`publish_state_summary`), which a row that the dedup gate skips as a duplicate does
(`_build_skip_row`): an operation all of whose rows are skipped ends green without a
post of its own. Success therefore stands for a target with a post, not for a post of
the operation. `PublishSlot`, the abstract specification, has neither records nor futures:
there is one slot, which an operation takes at most once, posts in, and leaves, green
only if one of its targets has a post by then. A cancelled future, a refusal and a crash close operations that have
not had the slot. `ImplementsSlot` maps the slot to the publishing operations with a
future that is queued or running.

| Action | code |
|---|---|
| `Create`, `Start`, `Refuse` | `create_operation`, `OperationWorker.start` (its check and submit under one lock), the record of a refused operation |
| `PickUp`, `Begin`, `Publish`, `Finish`, `Fail` | `_execute_operation`, `_publish_outcome_fields`, the handler of what it raises; a publish posts some rows and skips some as duplicates |
| `PostElsewhere` | a run from the command line or the scheduler makes a post |
| `AskCancel`, `CancelFuture`, `CancelOrphan`, `CancelWrite` | `cancel_operation` and `OperationWorker.cancel` |
| `Crash` | the process dies; nothing looks at the records when it starts again |

## 3. The runs

Twelve runs. All sizes are distinct states with two workers on a small machine.

| Run | Instance | Question |
|---|---|---|
| `dedup` | three runs on one key: an observe run and an enforce thread in one process, an enforce run in another; 3 posts, 1 override; 172 thousand states | everything the gate promises (below), refinement of `PublishBudget`, and the end of every claim |
| `lease_faults` | three processes, two platforms, three runs; kills, pid reuse, failing releases, expiry; 60 thousand | do two runs publish on one platform? |
| `lease_live` | the same without faults; 111 thousand | do all of them refuse for each other, and does somebody publish? |
| `lease_steal` (violation) | the same with faults | is a live lease ever stolen? |
| `circuit_files` | two workers, two platforms, crashes, lock timeouts, resets, a garbled or foreign file; 2.0 million | is a call one atomic change of its platform's circuit, over the locked file of all platforms? |
| `circuit_live` | two workers, one platform, resets, lock timeouts, every damage of the file, a failing health store and events.db; 117 thousand | is the one alert of a trip suppressed, and does traffic come back? |
| `run_resume` | a fresh observe run of two rows with one key, and enforce resumes; outdated rows, unverified posts, crashes, failing writes; 626 thousand | do the checkpoint and its exit code tell the truth? |
| `run_live` | a fresh enforce run of two rows with one key, unverified posts, and resumes on a day that may reject one row; 182 thousand | does resuming end, and does it respect what is done? |
| `projection` | a run of two rows with one target, a resume, the dashboard, a reconciler; 463 thousand | does the log tell what happened, once, although rows are lost? |
| `stranded` (violation) | the same | is the gate of `_collect_sources` only a cost bound? |
| `queue` | two tasks, a draft, two adders, late jobs, a crash, a fault of the store; 98 thousand | is anything published twice, lost or stuck? |
| `operations` | two operations with a target in common, cancels, two crashes, posts of others; 57 thousand | is publishing one slot, and does every operation end honestly? |

What the properties say:

| Property | Says | Would fail if |
|---|---|---|
| `AtMostOnePost` | in contract a key is posted at most `1 + overrides` times | a stale claim is retried, a store error fails open, a 5xx is retried |
| `RepublishableIsNotLive` | absent and failed rows have no live post | |
| `DoneIsLive` | done rows have one | outcomes are swapped |
| `SingleFlight` | who dispatches or settles a key owns its attempting row | a reclaim keeps the old owner |
| `DoneIsFinal` | only a forget leaves done | late settles, forces |
| `HeldUntilAdjudicated` | in contract only an adjudication leaves uncertain | holds are retried |
| `ImplementsBudget` | every step is a step of the abstract budget | |
| `ClaimsEnd` | attempting leads to something else | only the pid decides, and a reused pid is alive for ever |
| `PublishersApart` | two runs publish on one platform only if one of them lost its lease, to the TTL or to the race in `acquire_lease` | a release deletes the row of any owner |
| `NoStandoff` | as long as none has published, one of the runs is still asking for leases: they do not all refuse for each other | leases are not asked for in one order |
| `SomebodyPublishes` | refusing without waiting is no livelock | leases are not asked for in one order |
| `ImplementsCircuits` | every step is a step of one circuit, or damage, or a repair | a writer does without the lock |
| `TrippedMeansAlerted` | a tripped platform was alerted since its reset, is about to be, or the alert was lost for a named reason | the test comes after the trip |
| `ChannelRecovers` | every platform is dispatched to again and again | an unreadable file skips |
| `DoneItemIsLive` | done in the checkpoint means live, whoever made the post | an in-band error is recorded as done |
| `CompleteMeansSettled` | complete means that a resume would find nothing | failed items are forgotten |
| `ExitZeroMeansComplete` | exit 0 of a resume: the checkpoint is complete, and stays so | a resume survives a failed write |
| `DoneItemStaysDone` | not even a resume with an old checkpoint takes back what is done; the dedup row is what stops it | held rows are recorded as failed |
| `RunCompletes` | resumed again and again, with holds adjudicated, a run becomes complete | a skipped row stays pending |
| `ImplementsLedger` | a URL has one confirmed event, after its post, over flushes that interleave; an item is done only if its target has a post, with a URL of its own or none | an article that is there is confirmed again |
| `CursorTellsTheTruth` | what the cursor says of an item was emitted, also of one that a lost update made pending again | rows are compared by status alone, and a URL that changed is not emitted |
| `FlushedRunIsLogged` | after a run's own flush every post it ever made for an item is in the log, unless the record of that post was lost | the same |
| `DoneHasLanded` | what a run or a reconciler calls done has a post, whoever wrote the row last | the dedup store is not asked |
| `BackstopProjects` | a checkpoint gets a cursor, by its run or the dashboard | a failed load leaves its lock behind |
| `StrandedIsProjected` | so does what a resume published that ended without a flush (violated) | |
| `ClaimHolds` | the task the thread publishes is in processing | a retry does not look at the status |
| `PublishedOnce` | nothing is published twice without a cause | a draft is published whatever its status |
| `TasksKept` | an add that was answered stays | `update` does without its lock |
| `NothingStranded` | while the store works and the process is up, a task in processing is the one the thread publishes, and a scheduled draft has its job, the thread, or the request that is about to give it one or take its date, or its job came too late to run since it was last scheduled or restored | the restart drops drafts whose time has passed |
| `TaskSettles`, `DraftFires` | nothing stays in processing or scheduled, unless a write of a result failed or the draft's job was too late | the restart leaves processing alone; it drops drafts whose time has passed |
| `ImplementsSlot` | who publishes took the one slot, once, posts only in it, and turns green only as it leaves it and only with a target that has a post, whatever the records say | the records are asked instead of the futures |
| `OutcomeIsHonest` | success means a target that has a post, of its own or the one a skipped row carries; dropped from the queue means no post | a publish that ended is a success |
| `EveryOperationEnds` | an operator can end what is stuck | an operation without a future cannot be cancelled |

**Bounds.** `MaxPosts` bounds the posts of a key; 3 is more than the
`1 + MaxOverrides` the property allows, so that a violation is possible, and in the
`PublishRun` runs the number of rows or, where a second post is out of the
contract, 1. `MaxOverrides` = 1 gives every operator action one use. `MaxRuns` = 3
allows every pair of runs to conflict and a third to follow; with it `PublishLease`
stops, so its liveness run does not check deadlock. `Saturation` is where the failure
counter stops: it is only compared with the thresholds, 1 and 2, of which the
first trips at once and the second has a state in between. Two items are the
least for a run to be between two rows. One key for both makes them meet in the
store; the same instance with two keys has 3.6 million states and holds as well,
but takes most of three minutes, so it is not kept.

In `projection` two rows with one target are what two runs with a common target are to
`articles` and the dedup store, and the dashboard and the run are the two processes that
flush one checkpoint; two runs of one row were checked once as well (590 thousand states
without a resume, 3.5 million with one, before updates were split into reads and
writes). `MaxResumes` = 1 lets a run flush twice, and
one pass of one reconciler is enough to undo a row of each. One of the two rows, `Barred`,
may be skipped by the policy, so that both kinds occur. The runs, their resumes and the
pass of the reconciler come to an end, so deadlock is not checked.
In `queue` two tasks make one wait for the other and two adders make their saves
interleave; one crash and one fault hit each step. In `operations` the two
have a target in common, so that the second may find its row a duplicate, and one a
target of its own, so that it may post as well; the second crash comes after operations
of the first are left. One operation that does not publish next to two that do, on one
thread, with one target and one crash, was checked once as well (617 thousand states).
The breaker's alerts were also checked once with three workers and without corruption
(113 thousand states).

The theorems have no such bounds, except that
`MaxPosts`, `MaxOverrides`, `MaxRuns`, `MaxResumes`, `MaxCrashes` and `MaxFaults` stay
arbitrary naturals.

**The lower-case names of the runs' configurations** (`r1`, `p1`, `fresh`, ...) are
model values. Pids and workers are symmetric where no liveness property is checked.

## 4. Fairness

* `PublishDedup.Fairness`. An adapter call ends (its requests have timeouts) and
  its outcome is settled: weak fairness. Time passes, pids come back: weak
  fairness. An enforce run of each key keeps being started (cron, the queue, an
  operator): strong fairness, because the start competes with crashes. Nothing
  is assumed of crashes, exceptions and operators.
* `PublishLease.Fairness`. A process goes on. No run has to be started, and no
  lease has to expire.
* `CircuitBreaker.Fairness`. Workers go on, the cooldown passes, platforms are
  published to. A worker that polls for the file lock gets it if the lock is free
  again and again: strong fairness, which is what the jitter in `_acquire_lock`
  (`publishing/reliability/circuit.py:107-112`) is for. `ChannelRecovers` promises
  nothing when calls time out waiting for the lock for ever, nor of a file that is
  foreign for ever or again and again.
* `PublishRun.RunFairness`. Runs go on, a resume is started whenever it can be,
  and what is tried again and again succeeds at some time: the leases, the gate,
  the post, its verification, the write. Without the last an operator who resumes
  a run on a platform that always fails would refute the property. A held row is
  adjudicated. `RunCompletes` moreover assumes that keys stay in contract and that
  from some time on no process dies.
* `EventProjection.FairSpec`. The dashboard is loaded again and again, and not every
  load fails at the same step: strong fairness of its three steps, since a failed load
  starts over. Nothing is assumed of runs.
* `WebUIScheduler.FairSpec`. The thread goes on, requests end and the process is
  started again. A date job that is due waits in the executor's queue and gets its turn
  between the ticks, at which it fires or is found to be too late: strong fairness of
  `Fire \/ Misfire`. The store's lock is released again and again, hence strong
  fairness of `Claim` and `SettleTask`. After a fault of the store `TaskSettles` and
  `DraftFires` promise nothing.
* `WebUIOperations.AttendedSpec`. Requests and threads go on, and an operator cancels an
  operation that stays pending or running, which is what `cancel` says is the recovery.
  An operation is created once, so weak fairness is enough.

## 5. What is proved

| Module | Theorem | Statement |
|---|---|---|
| `PublishDedupProofs` | `TypeCorrect`, `FlightCorrect`, `BudgetCorrect` | `Spec => []TypeOK`, `[]FlightInv`, `[]BudgetInv` |
| | `BudgetImplemented` | `Spec => ImplementsBudget` |
| | `PostsBounded` | `Spec => []AtMostOnePost` |
| | `RepublishSafe`, `GateIsSingleFlight`, `DoneMeansLive` | the invariants of the same meaning |
| | `DoneStaysDone`, `HeldStaysHeld` | `Spec => DoneIsFinal`, `HeldUntilAdjudicated` |
| `PublishRunProofs` | `RunTypeCorrect` | `RunSpec => []RunTypeOK` |
| | `RunsImplementDedup` | `RunSpec => Spec` |
| | `RunPostsBounded` | `RunSpec => []AtMostOnePost` |
| | `CheckpointTruthful` | `RunSpec => []DoneItemIsLive` |
| | `RunsKeepTheGate` | `RunSpec => ImplementsBudget`, `[]SingleFlight`, `[]RepublishableIsNotLive`, `[]DoneIsLive`, `DoneIsFinal`, `HeldUntilAdjudicated` |
| `PublishResumeProofs` | `ExitZeroIsFinal` | without `Overlap`: `RunSpec => []ExitZeroMeansComplete` |
| | `CompleteIsSettled` | without `Overlap`: `RunSpec /\ [][\A w \in Run : TakeLeases(w) => UpToDate(w)]_allVars => []CompleteMeansSettled` |
| | `DoneItemsStayDone` | without `Overlap`: `RunSpec => DoneItemStaysDone` |
| `PublishLeaseProofs` | `LeaseTypeCorrect`, `HolderCorrect`, `LeaseExcludes` | `TypeOK`, `HolderOwnsRow`, `PublishersApart` |
| | `NobodyStandsOff` | without `Faults`: `NoStandoff` |
| `CircuitBreakerProofs` | `CircuitTypeCorrect`, `TripsNotLost` | `TypeOK`, `OthersKept` |
| | `TripsAreAlerted` | `Spec => []TrippedMeansAlerted` |
| | `CircuitsImplemented` | `Spec => ImplementsCircuits` |
| `EventProjectionProofs` | `ProjectionTypeCorrect`, `ConfirmsOnce`, `CursorIsTruthful` | `TypeOK`, `ConfirmedOnce`, `CursorTellsTheTruth` |
| | `FlushLogsTheRun`, `DoneIsPublished` | `FlushedRunIsLogged`, `DoneHasLanded` |
| | `LedgerImplemented` | `Spec => ImplementsLedger` |
| `WebUISchedulerProofs` | `QueueTypeCorrect`, `ClaimIsHeld` | `TypeOK`, `ClaimHolds` |
| | `AddsAreKept`, `PublishesOnce` | `TasksKept`, `PublishedOnce` |
| | `NothingIsStranded` | `Spec => []NothingStranded` |
| `WebUIOperationsProofs` | `RecordsAgree`, `OneInFlight`, `Honest` | `TypeOK /\ Agreement`, `SingleFlight`, `OutcomeIsHonest` |
| | `SlotImplemented` | `Spec => ImplementsSlot` |

They hold for all sets of runs, processes, keys, platforms, workers, items, targets,
URLs, tasks, drafts and operations, for all modes and bounds. The assumptions are
those of the modules: a run has one pid (`RunAssumption`), `NoRun`, `NoKey`,
`NoProc`, `NoWorker` are none of the values they stand beside, platforms are ordered
(integers), thresholds are positive, and the set of runs is finite
(`FiniteAssumption`, for the cardinality in `Permits`).

*At most one post.* `AtMostOnePost` is not inductive: it does not know who may
still post. `BudgetInv` says that posts made plus posts that may still be made
(`Permits`) are at most one plus the overrides. Its step needs to know how the
permits of a key change when a run enters, posts, settles or dies: `PermitsKept`,
`PermitsGivenUp` and `PermitsTaken` reduce that to one run joining or leaving
`MayPost`, and `CountOneMore` and `CountSmaller` to cardinalities. It also
needs `FlightInv`: a run that settles to failed in contract has not posted, one
that settles to done has, and a claim that aged has nobody in flight in contract;
without it `Age` followed by a promotion would free a permit that is still in
use. The same steps, one lemma per group of actions (`BudgetGate`, `BudgetObserve`,
`BudgetDispatch`, `BudgetDropped`, `BudgetSettleRead`, `BudgetSettleWrite`,
`BudgetProcess`, `BudgetOperator`), prove that `PublishDedup` implements
`PublishBudget`. That a crash loses the claims of several threads on several keys
at once, which no small run shows, is the case `BudgetProcess`.

*Single flight.* `SingleFlight` is inductive with `TypeOK` and `FlightInv`: in
contract nobody enters a key without owning its row, and who owns it keeps it until
it has settled, because a live owner makes the claim fresh.

*Done and held.* `DoneIsFinal` and `HeldUntilAdjudicated` are facts about one
step, from `FlightInv` (a settle that leaves a terminal state goes to done) and
`SingleFlight`.

*Whole runs.* `RunsImplementDedup` says that no step of a run does to the store or on
the platform what `PublishDedup` does not allow (`NextRefines`), so that all its
theorems hold of runs with their resumes. Most of it holds by the way the actions
of `PublishRun` are put together from those of `PublishDedup`; what has to be proved
is that the row in hand has a key (`RowIn`). `RunTypeOK` is where the program of a
run and the job of `PublishDedup` meet: `PlaceOK` says, for every place of a run and
every list of steps that follow, what is in flight.

*The checkpoint is truthful.* A run learns that a post is live in one step, and
writes it several steps later, over a file that it has read one step before:
`DoneItemIsLive` alone says nothing of either. `LiveInv` adds that what is in hand on
the way to the file is live, and that what was read is. Its step rests on three
facts of `PublishDedup`: a run that gets a result has posted (`FlightInv`), a row that
is skipped as done is live (`DoneIsLive`), and posts do not disappear nor keys come
back into contract (`LiveKept`, from `BudgetStep`). `LiveInv` was checked by TLC on the
instance of `run_resume` first.

*The end of a resume.* The first two theorems of `PublishResumeProofs` are about a program
that decides on what it read and writes later. `Moves` names what a run does to its
program in each action (it goes on, quits, finishes, reads, writes, ...), and
`Moving` proves that every action is one of these, so that the two invariants are
about a dozen shapes instead of twenty actions. `ExitInv` says that the runs are
kept apart, that the file a run is about to write over is the file on disk, and
which exit codes a program may have in hand at which place: 0 only on the way to the
write that completes the checkpoint, which a resume does not survive when it fails.
`SettledInv` follows the items: a row the fresh run has not answered is pending in
the file, hence no answer is overwritten by it; what a resume that has its leases
loaded, and has corrected by its re-validation, hides no item that can be resumed
(`SnapOK`); and a resume of a complete checkpoint has nothing to select. Both can be
false of a resume that waits for its leases, since it loaded the checkpoint before
(`_run_resume`). So the theorem names that one cause: it is about all behaviours, with
any number of resumes at once, in which whoever gets the leases has a load that agrees
with the file on what is left to resume (`UpToDate`). No code enforces this; section 7
has the trace of what happens otherwise.

*Done stays done.* `DoneItemStaysDone` is about one step, and what makes it true is
several steps older: a run decides on its item, calls the adapter, and writes the
answer over a file that it read. `KeptInv` says that a run which may still take an
item back (`Undoing`: it is in the adapter with it, or has an answer other than done
in hand) has an item that is not done. For the run that enters the adapter this is a
fact of the gate, which dispatches no key with a live post (`RepublishableIsNotLive`),
while a done item has one (`DoneItemIsLive`); for the rest of its way the leases keep
all others from the file. `FilesInv` says what the copies of the file are that runs
have in hand. The re-validation of a resume writes over what it has not read again,
hence `Outdated` in the statement, and section 7 has the trace.

*Leases.* `HolderOwnsRow` is inductive with the type invariant: the only step that
overwrites the row of another live run is the late `UPDATE`, and it is recorded in
`lost`. Two holders of one row are one process, hence `LeaseExcludes`.

*Nobody stands off.* `NoStandoff` is the part of `SomebodyPublishes` that is not
fairness. `StandoffInv` names the run that gets through: one that *leads*, since no row
of the table is above what it has acquired. A run asks in order (`Ordered`), so it is
refused only by a row above what it has, that is, never while it leads (`RowAhead`);
and whoever inserts or takes the highest row leads from then on. Without the order
TLC finds two runs that each wait for the other's platform.

*Breaker.* `SnapshotCurrent` says that the entries a call read under the lock are
those of the file as long as the file is not damaged: resets and other writers wait
for the lock. The write then changes one entry only.

*The breaker is atomic.* `CircuitsImplemented` turns this into a refinement: a write
is the step of one circuit from what that circuit is at that moment, because the
snapshot is current, and no other step of a call is seen in the file. When the file was
damaged while a call had it in hand, the write mends it with entries that are older;
`HealthyInv` says that these have a time to cool down from, in the file as in
every snapshot, so that no platform is left open for ever.

*Alerts.* A ban reads `newly_degraded` before it trips. A platform is `Heard` of when
its alert was recorded or lost, or a call is on its way to record it. `AlertInv`: every
tripped entry of the file is of such a platform, and so is every one in a copy that a
writer may yet put over a damaged file; a call that waits to trip or to make half open
without an alert found its platform tripped, hence heard of. The actions that lose an alert say
so in `alerts`, so that the theorem needs no assumption on `Faults`.

*The log.* `ConfirmedOnce` is inductive, the article and its event being one
transaction. `CursorTellsTheTruth` is not: a flush writes a cursor from what it read
before. `TypeInv` comes first: every row that anybody has in hand, however old, is
`Good`: it is done only if its target has a post, it has a URL only if its run got it,
and it is called skipped only if the policy skipped it. Posts, settled targets and
what was sent only grow (`Grows`), so what was good when it was read is good when it is
written, which is why writes that undo each other do no harm beyond what they undo.
`DoneIsPublished` follows at once. `TruthInv` says of the cursor, and of what a flush
loaded of it, that the log was told (`Told`). A row may go back to pending after its
cursor said otherwise; what the cursor says of it then was still preceded by an event,
of the intent or of the outcome, and `InLog` says which. `FlushLogsTheRun` needs that a
post which is not in the log yet and not lost is still in the file, and in what
the run's own flush read of it, or in the hands of its run (`OwnInv`, `OnItsWay`).
`LedgerImplemented` maps each step to one of `PostLedger`: every write of a checkpoint,
of a run, a resume or a reconciler, is a `Rewrite` of the rows of one run that is
justified because they are `Good`.

*The queue.* What an add loaded may be older than the table only in ways that do not
matter: `LockInv` says that the rows it has in hand are alike those of the table,
but for retries, which are the one write without the lock, and which touch no row in
processing. From it follow `ClaimHolds` and `TasksKept`. `OnceInv` ties `surplus` to
the status: a publish that succeeded is recorded or still in the thread's hand.

*Nothing is stranded.* The same for the other direction: what a status promises,
somebody is at. `Held` is about tasks, `Armed` about drafts and their jobs, and
`Removing` is what makes `Armed` inductive: a request that is about to remove a job
has made its draft something other than scheduled, and none schedules it before that
request ends. The write of a draft and that of its job are two steps, each of
which breaks the agreement for a moment; a restart drops all jobs and adds one for
each scheduled draft. A job that comes too late is the one step that breaks the
agreement for good, and `missed` says of which drafts. `TaskSettles` and `DraftFires` rest on this and on fairness.

*Operations.* `SingleFlight` holds by what is submitted under the lock, over
futures, never over records. `SlotImplemented` is a step-by-step refinement: `Start`
takes the slot, since nobody else is queued or running, and the record of a live
operation does not say success (`Agreement`, which is also what `RecordsAgree` states:
how the record, the future and the requests of an operation go together), so that
`green` grows at `Finish` only, and only by an operation whose rows carry a URL. A late write of `canceled` takes green back (`Retract`), a
crash empties the slot without a word in the records. `OutcomeIsHonest` needs the history of an operation to
go one way only (`OneWay`), which records do not, since a late write of `running`
follows a `canceled`.

Liveness (`ClaimsEnd`, `SomebodyPublishes`, `ChannelRecovers`, `RunCompletes`,
`BackstopProjects`, `TaskSettles`, `DraftFires`, `EveryOperationEnds`) is
model-checked only: fairness is out of this prover's reach. All safety properties
of the passing runs are proved, some under the assumption the table names.
`NoStandoff`, `NothingStranded` and the healthy circuits are the parts of
`SomebodyPublishes`, `TaskSettles`, `DraftFires` and `ChannelRecovers` that need no
fairness. No module uses RECURSIVE operators.

## 6. Disagreements with the documentation, shown by runs

* `lease_steal`: of two runs that find the lease of a dead process both get True
  from `acquire_lease`, because the SELECT is not part of the write transaction and
  the UPDATE names the platform only.
* `stranded`: the dashboard projects only checkpoints without a cursor, and
  `events/reconcile.py` calls that gate "a cost bound, not a correctness requirement". A
  run whose flush committed has a cursor; when a resume of it publishes more and dies
  before its own flush, no load of the dashboard gets that into the log.

## 7. Disagreements without a run

Each of these was found violated by TLC with the modules as they are. To look at
one again, add the formula to the module and a configuration as described.

* `_record_terminal` may downgrade a hold (`cli/_dedup_gate.py:18` says
  "`uncertain` is never auto-downgraded"). Two observe runs on one key:
  ```
  NeverAutoDowngraded ==
    [][\A k \in Key : row[k].state = "uncertain" /\ row'[k].state = "failed" =>
         \E outcome \in Outcome : Adjudicate(k, outcome)]_vars
  ```
  Both dispatch and read `attempting`; one writes `uncertain`, the other `failed`.
  With one observe run at a time, or in enforce mode, it holds (`HeldUntilAdjudicated`).
* The gate holds a stale claim where its docstring (`cli/_dedup_gate.py:156`) says it
  dispatches. Two enforce runs, one crash:
  ```
  StaleIsDispatched ==
    [][\A w \in Run, k \in Key :
         IsStaleAttempting(row[k], up) /\ GateEnforce(w, k, FALSE) =>
           job'[w].phase = "dispatch"]_vars
  ```
  The code is right: dispatching would break `AtMostOnePost`.
* `_transition_to_half_open` undoes a trip that came between the unlocked cooldown
  test and the lock. Two workers, no faults:
  ```
  HalfOpenAfterCooldown ==
    [][\A plat \in Platform :
         LET e == file.entry[plat] IN
         e.state = "open" /\ e.ts = "fresh" => file'.entry[plat].state # "half_open"]_vars
  ```
* An unreadable state file is "all channels tripped until the operator runs
  reset_circuit" (`publishing/reliability/circuit.py:14`); in fact the first
  recorded outcome rewrites it and forgets every trip. The rollout runbook describes
  this as self-healing. One worker, Faults = {"garbled", "reset"}:
  ```
  TrippedUntilReset ==
    [][file.form # "ok" /\ file'.form = "ok" => \E plat \in Platform : ResetCircuit(plat)]_vars
  ```
* `is_tripped` is fail-closed on "any read error" (`circuit.py:229`), and
  `circuit_status` lets the publish go on when the file is unreadable, JSON that is no object
  included (`:305`). In fact `_get_state` raises an AttributeError on such a file, before
  `circuit_status` is asked: no enforced or observed publish is dispatched, and no write
  mends the file. One enforced platform, one worker, Faults = {"foreign"}, `FairSpec`:
  ```
  TrafficComesBack ==
    \A plat \in Platform : []<>(\E w \in Worker : call[w].plat = plat /\ call[w].pc = "dispatch")
  ```
  With Faults = {"undecodable"} it holds, but each `record_success` raises after the
  post has landed.
* A ban alerts "on entering degraded" (`policy.py:381`). With an unreadable file
  `is_degraded` says that the platform is degraded already; the alert is not made, and
  `trip` mends the file. One worker, Faults = {"garbled"}; or two, {"reset"}:
  ```
  NoAlertIsLost ==
    \A plat \in Platform : file.entry[plat].tripped =>
      alerts[plat] = "recorded" \/ \E w \in Worker : Alerting(w) /\ call[w].plat = plat
  ```
* `is_degraded` is documented as "OPEN or HALF_OPEN" (`:273`); `record_success` closes
  the circuit and leaves `tripped` set, so the alert of the next ban of a recovered
  channel is suppressed. One worker, no faults:
  ```
  DegradedMeansTripped ==
    \A plat \in Platform : Seen(plat).tripped => Seen(plat).state \in {"open", "half_open"}
  ```
* Exit code 0 is "All rows succeeded"
  (`src/docs/runbooks/2026-05-28-publish-saga.md:31`); a run with one success and one
  held or quarantined row exits with 0. Two rows, two keys:
  ```
  ExitZeroMeansAll ==
    \A w \in Run : proc[w].pc = "off" /\ proc[w].code = 0 => \A i \in Item : posts[KeyOf[i]] > 0
  ```
* `update_item` is atomic within one process only (`checkpoint.py:149`). Two rows,
  Overlap = TRUE, as after the hour of a lease:
  ```
  OneItemUpdated ==
    [][\A w \in Run : SaveCheckpoint(w) =>
         \A i \in Item \ {proc[w].item} : ckpt'.item[i] = ckpt.item[i]]_allVars
  ```
* The same between a run and the reconciler of another process, with leases that hold:
  the docstring of `update_item` says "Atomically" (`checkpoint.py:143`), but what a
  reconciler writes back makes a done item pending again, or takes its URL. It is
  the reason for `lost` in `FlushedRunIsLogged`. `EventProjection_flush.cfg`:
  ```
  DoneStays == [][\A i \in Item : file[i].status = "done" => file'[i] = file[i]]_vars
  ```
* Two resumes of one run: `CompleteMeansSettled` fails, in enforce mode too. Three
  runs in processes of their own, two of them resumes, `PublishRun_resume.cfg` with
  Item = {1}, Outdated = {1}, Observing = {}, MaxPosts = 1: one resume loads the
  checkpoint and waits; the other finds the row outdated, marks it so and completes
  the run; the first has its leases then, finds the row in its old snapshot valid,
  publishes it, and a failure is written into a checkpoint that is complete.
* A force forgets that an earlier attempt may have landed: `uncertain` becomes
  `attempting`, a non-5xx failure `failed`, which `idempotency/store.py:72` calls
  "confirmed not landed", and the next run publishes again. `PublishDedup_gate.cfg`
  with one enforce run, MaxPosts = 2, Overrides = {"force"}:
  ```
  FailedIsNotLive ==
    \A k \in Key : clean[k] /\ row[k].state = "failed" => posts[k] = 0
  ```
* A resume records a key that is done as `verified=True` (`cli/_resume.py:310`),
  although the publish, whose run stopped before its checkpoint write, was not
  verified. `PublishRun_live.cfg` under RunSpec with Item = {1}, KeyOf <- MCKeyOf,
  Verdicts = {TRUE, FALSE}:
  ```
  VerdictKept ==
    \A i \in unverified : ckpt.item[i].status = "done" => ~ckpt.item[i].verified
  ```
* A resume that loaded the checkpoint (`cli/_resume.py:532`) before it got its leases
  (`:546`) writes a done item back as failed when the row no longer validates. As above
  with Outdated = {1}:
  ```
  OnlyUnfinishedReclassified ==
    [][\A i \in Item : ckpt'.item[i].class = "retro" => Unfinished(ckpt.item[i])]_allVars
  ```
* `OperationWorker.cancel` says that after it "no further stage transitions occur"; the
  thread of a running operation goes on and overwrites the record.
  `WebUIOperations_cancel.cfg`:
  ```
  CanceledIsFinal ==
    [][\A o \in Op : status[o] = "canceled" => status'[o] = "canceled"]_vars
  ```
* `_publish_draft_job` is not called when its job is more than an hour late
  (`misfire_grace_time`, `scheduler.py:27`), behind a long publish or because the date
  was long past when it was set (`drafts_api.py:132` takes any). The draft says scheduled
  and has no job; the dashboard calls it overdue (`command_center.py:252`), and a
  restart takes it up again. `WebUIScheduler_queue.cfg`:
  ```
  ScheduledHasItsJob ==
    faults = 0 /\ Up =>
      \A d \in Draft : draft[d] = "scheduled" =>
        d \in job \/ Publishes(d) \/ (req.draft = d /\ req.step \in {"addJob", "unschedule"})
  ```
* `_publish_outcome_fields` says that the operator never sees a green operation "for zero
  published backlinks" (`operation_worker.py:196`). With enforced dedup an operation whose
  rows are all skipped as duplicates is green; what it published is zero, the backlinks
  are there. `WebUIOperations_cancel.cfg`:
  ```
  GreenPosted == \A o \in Op : status[o] = "success" => o \in posted
  ```
* An item that a policy skipped (`policy_skip`) is never resumed: a no-op resume marks
  the run complete with it. This is what `_select_resume_items` says it does.

Read in the code on the way, without a formula:

* Projection. The reconciler quarantines no item (its rules on age never apply): the
  age is that of `completed_at` or `created_at`, which no unfinished item has. Its
  auto-fix may erase the URL of an item that was done meanwhile. In the cursor an
  item that the policy skipped is one that failed, so that a failure after a skip
  leaves no event. Two failed items with one target in one flush give one event.
  `write_publish_result`, another writer of `publish.confirmed`, appends one more
  for a URL that is there.
* Scheduler. A tick takes the first runnable task, so that one that fails again and
  again without a 429 starves those after it (`scheduler.py:48`). A retry may be
  overwritten by an add's save of the whole table. A cancel of a draft that is being
  published is overwritten by the outcome. A `batch_ops` row in processing is not
  restored at the start (`scheduler.py:201`). Of two concurrent requests for one
  draft the cancel may remove the job of the schedule.
* Operations. A cancel between create and start does not stop the operation. Nothing
  looks at records that say running when the process starts again.

## 8. Plan

In this order; each item is a module or a proof of its own.

1. The breaker and the dedup gate together: `record_success` raises when the lock of
   the state file is held for a minute (`policy.py:372`), after the post landed, and
   the run records a failure.
2. The start of campaigns (`src/webui_app/campaign_worker.py:46`), as a pool without
   the lock of `WebUIOperations`; batch operations next to the queue.
3. `DispatchChain`: `transient_policy` and the adapters of a platform: how often a
   row calls an adapter, and after which errors never again.
4. Backfill and enforce readiness: the switch from observe to enforce, with
   `seed_done` as a new operation of `DedupStore`.
5. Keepalive. The projection of the history and the drafts.
6. Proofs: that `EventProjection`'s publish run is implemented by `PublishRun`, and
   that what `PublishRun` assumes of the leases without `Overlap` is what `PublishLease`
   gives as long as none is lost.

## 9. Not modelled

* Within the modelled files: read-only queries and listings, digests and the
  manifest file, dry runs, throttling, timings, the contents of outputs, logs and
  metrics, the policy switched off, the health gate (it only skips calls), banners.
* Leases and gates are two modules: `PublishDedup` assumes nothing of leases, and
  `PublishRun` abstracts them to "no overlap" (or `Overlap`).
* Adapters, browsers, sessions and credentials: external I/O. An adapter call may
  land or not, and return or raise anything.
* Planning, validation, content, anchors, geo and gap analysis, scorecards and
  recheck: sequential transformations of JSONL, where a model would repeat the code.
* Of the projection: the history and drafts files, the parking of sources that
  cannot be read, verified and unverified kinds, the reconciler's history pass. Of
  the WebUI: batch operations, the autopilot and purge jobs, bulk delete and bulk
  publish (loops over the single ones), stages and progress of an operation,
  campaigns.
* Aggregates and reports: read-only. The Vue frontend: a client without a state of
  its own that matters here. The stores of the WebUI other than the queue, the drafts
  and the operations: single-row CRUD.
* Audit log and the secret of the digests: an append-only file and one `O_EXCL`
  creation.

Most of the repository's lines are outside of what this project models for these
reasons: request routes, schemas and health pages of the WebUI, platform adapters
with their manifests, packaging and spike scripts, and the text transformations of
planning hold no state that two actors share.

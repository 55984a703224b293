# A verification project for the portfolio support copilot

TLA+ models of the support copilot (`src/src/support_copilot`), of the scripts that
evaluate and deploy it (`src/scripts`, `src/deploy/ec2`), the TLC runs that check them and
the TLAPS proofs about them. Paths below are relative to the repository root; file names
without a directory are in `src/src/support_copilot`.

## 1. The system

FastAPI accepts support messages and employee requests, arq executes the runs in
one worker process, LangGraph drives the conversation of a thread from checkpoint
to checkpoint. Postgres holds everything that must last; Redis holds the queue,
the thread locks, a read cache and the daily counter. An init container prepares the
database and the help documents, a promotion script replaces the images, and an offline
evaluation plays cases against the whole, with a proxy in front of the model provider.

| Component | State it keeps | Operations | Interacts with | Model |
| --- | --- | --- | --- | --- |
| Refund ledger (`db.py`, `schema.sql`) | `orders`, `products`, `refund_actions`, `refund_decisions` | `refund_proposal`, `record_simulated_refund`, legacy adoption | called by the graph's `prepare_refund` and `refund` nodes; shares its tables with the employee endpoints | `RefundLedger` |
| Bootstrap and seed (`bootstrap.py`, `seed.py`) | all tables | `apply_schema`, the demo reset | runs beside old processes at a promotion | `DemoReset`, partly |
| Run lifecycle (`worker.py`, `run_store.py`, `api.py`, `graph.py`) | `support_runs`, checkpoints, arq jobs, `thread-lock:*` | `POST /runs`, decisions, `run_agent`, `resume_agent`, `recover_agent`, `recover_runs` | API and worker share Postgres and Redis, the worker calls the ledger | `RunLifecycle`, `RedisLoss` |
| Run cache and index (`run_store.py`) | `run:*`, `customer:*:awaiting-orders` | `write_run_status`, `recover_runs`, `lifespan` | read by the customer endpoints | `RunCache` |
| Daily limit (`api.py`, `db.py`) | `runtime_settings`, the daily Redis counter | `claim_daily_run`, `daily_run_limit`, `set_daily_run_limit` | guards `POST /runs` | `RunAdmission` |
| Thread ownership (`api.py`, `db.py`) | `thread_owners` | the checks and the insert in `create_run` | guards follow-ups | `RunAdmission` |
| Employee endpoints (`api.py`) | customers, products, orders | create, read, update, delete | edit what ledger and admission read | `RefundLedger`, `RunAdmission` |
| Help ingest (`ingest.py`) | `help_document_embeddings` | `ingest_help_documents`, `chunk_text` | started by the init container or by hand | `HelpIngest` |
| Promotion (`deploy/ec2/promote.sh`) | the images of API and worker, two record files | promote, rollback | docker compose, the init container | `ImagePromotion` |
| Evaluation proxy (`scripts/evaluation_proxy.py`) | a budget file and its copy in memory | `initialize`, `forward`, `persist_budget` | the provider | `EvaluationBudget` |
| Suite, evaluator and crash drill (`scripts/*conversation*.py`, `evaluation_worker.py`) | the evaluator's snapshots and verdicts | poll, lose Redis, restart, kill, replay, score | API, worker, Redis and Postgres | `CrashDrill` |
| Graph nodes and model client (`graph.py`, `model.py`) | none of their own | extract, route, rag, sql, respond | model answers are arbitrary | a choice in `RunLifecycle` |
| SQL tool (`db.py`, `graph.py`) | a cache in Redis | `query_readonly`, `query_customer_readonly` | reads the store | none |
| Console (`web/src`) | React state of each view | polling, paging, deciding | the API | none |
| Rubric and reports (`evaluation_rubric.py`, `scripts/build_project_report.py`) | none | scoring of texts, report generation | offline | none |
| EC2 provisioning (`deploy/ec2`) | cloud resources | one-shot commands | | none |

The behaviours that are hard: transactions of several READ COMMITTED statements
beside single-statement edits and a TRUNCATE; jobs of one run (`<run>`, `<run>:decision`,
`<run>:recovery`) and of several runs competing for one thread; status and decision
that are read before a lock and used behind it; a status that is written after the
lock; copies in Redis written by processes that nothing orders; a limit, an owner or a
fingerprint read long before what it permits is written; processes that die between a
commit and a checkpoint, between a durable row and its queue entry, between a reservation
and the call it is for; a Redis that loses its data under running jobs; a shell script
any command of which may fail or be its last. `PROJECT.json` lists them as hazards, each
at its line.

What makes each component correct:

* ledger: one approved action per order and one decision per request, for good; action
  and decision agree; a decision is computed from an order that does not change before
  the commit; no decision from before a reset touches an order inserted by it;
* lifecycle: one job at a time drives a thread; the ledger records what a human decided;
  a paused checkpoint is moved by a human decision only; everything accepted ends;
* cache: copy and index say what the row says unless a named thing has put them out of
  step, and a lost copy comes back;
* admission: no more runs per day than the largest limit read, no conversation shared by
  two customers;
* proxy: what a provider charges has been reserved on file before, within the approval,
  over any number of restarts, and a stop is final;
* ingest: the stored chunks of a document are those of one text and cover it;
* promotion: API and worker end on the same image, new or old, and run no image whose init
  container has not completed; what retrieval finds is what the promoted image carries, if
  its init had a key;
* drill: it kills the worker inside the window it is about, its checks raise no false
  alarm, and it ends.

## 2. The modules

| Module | What it is |
| --- | --- |
| `RefundContract` | the abstract ledger: actions and decisions, `Settle` and `Adopt` |
| `RefundLedger` | the ledger's transactions statement by statement, with the employees and the schema |
| `MCRefundLedger` | instances of it, with a bound on edits |
| `RefundLedgerProofs` | the inductive invariant, safety theorems and the refinement of `RefundContract` |
| `DemoReset`, `MCDemoReset` | the ledger with the demo reset beside it; its theorems are in `RefundLedgerProofs` |
| `RunLifecycle` | runs, jobs, thread lock, checkpoints, recovery, faults |
| `MCRunLifecycle`, `RunLifecycleProofs` | its instances, all runs on one thread, and its safety theorems, with and without the loss of Redis |
| `RedisLoss`, `MCRedisLoss` | the lifecycle when Redis loses its data under a living worker |
| `RunCache`, `RunCacheProofs` | the copies of runs in Redis and the jobs, passes and requests that write them |
| `RunAdmission`, `MCRunAdmission`, `RunAdmissionProofs` | `create_run` await by await: identity, order, thread, limit, claim |
| `SpendingContract` | the abstract budget: `Promise` and `Spend` |
| `EvaluationBudget`, `MCEvaluationBudget`, `EvaluationBudgetProofs` | the evaluation proxy, its file and its restarts, implementing the contract |
| `HelpIngest`, `HelpIngestProofs` | `chunk_text` and the ingest's transaction, several at once |
| `ImagePromotion`, `MCImagePromotion`, `ImagePromotionProofs` | `promote.sh` command by command, over `HelpIngest` |
| `CrashDrill`, `MCCrashDrill`, `CrashDrillProofs` | the evaluator, its suite and its worker, over `RunLifecycle`, and what its checks may rely on |

Compositions: `DemoReset` and `RedisLoss` extend the next-state relation of a module by a
fault or an operation of another process; `ImagePromotion` runs `HelpIngest` inside a
script; `CrashDrill` drives `RunLifecycle` through a second program and joins it with the
order, the actions and the outcomes of the ledger. A definition whose comment begins with
"Mutant:", or that is marked so at its line, is a plausible wrong version of the definition
after it; no action uses it.

### RefundLedger

A session is one call of `record_simulated_refund` on a connection of the pool. Its
record holds what the transaction has read so far; `step` names the statement that
comes next. READ COMMITTED gives every statement a snapshot of its own, so one action
per statement is the right grain:

| Action | Code |
| --- | --- |
| `Propose` | `refund_proposal` (db.py:161) and the checkpoint of `proposed_refund` |
| `Begin`, `TakeAdvisory` | the transaction and `pg_advisory_xact_lock` (190-194) |
| `Replay` | a decision row exists: its outcome, or an error, and no write (196-208) |
| `ReadOrder`, `LockRow`, `MissRow` | the snapshot of the join, and what `FOR UPDATE OF o` finds when it gets the row lock (209-215) |
| `ReadAction` | the query on `refund_actions` (216-220) |
| `Commit` | all writes, visible at once (221-256) |
| `Raise`, `Abort` | an amount that is no INTEGER; a lost connection, a cancelled job, a crash |
| `CreateOrder` ... `UpdatePrice` | the employees' endpoints (api.py:147-184, 495-559) |
| `AdoptLegacy` | the INSERT of schema.sql:53, run at every bootstrap |

`FOR UPDATE OF o` waits for the row, then PostgreSQL re-reads the *order* and joins it
with the *product row it has already seen*. So the amount under the lock is the new
quantity times the old price (`LockedAmount`), and an order that was deleted, renamed
or given another product meanwhile is not found (`MissRow`), which the code records as
"order not found". A price edit after the snapshot is never seen. None of this breaks
the ledger's promises, but a decision may be settled with the amount that was reviewed
although the price has changed by the time of the commit.

### DemoReset

`Reset` is seed.py's transaction with `RESET_DEMO_DATA=1`: TRUNCATE takes the tables
exclusively, so it waits for every session that has read `orders` or `refund_actions`
(`HoldsTable`) and comes between any other two statements; CASCADE empties
`refund_actions`; `refund_decisions`, the runs and their proposals stay.
`LedgerAgreement` therefore does not survive a reset: an approval stays without its
action. What survives is what matters: an action always has its decision
(`ActionsHaveDecisions`), a decision from before the reset is only ever replayed and never
acts on a new order (`OldDecisionsStayOld`), and a run paused before the reset is approved
after it only for the amount its human was shown (`ApprovedAsReviewed`).

### RunLifecycle

A job is a pair of run and kind. Its `stage` is the statement of `execute` it has
reached, its `arg` the decision it was called with; `resume_agent` gets it at the
enqueue, `recover_agent` reads it in `Start`, before the lock. `checkpoint[t]` is the
run that owns the latest checkpoint of the thread and where that checkpoint stands
(working, paused in the interrupt, behind the refund node, at END). `status` is the
durable status. `ledger` is `refund_decisions` as the contract promises it: the first
decision of a run stays.

| Action | Code |
| --- | --- |
| `CreateRun`, `CreateOnly` | api.py:320-345, with the enqueue or without it |
| `Claim`, `EnqueueDecision` | api.py:403-432, `claim_decision` |
| `Select`, `Visit` | `recover_runs`: one read of all rows, then row by row |
| `Start` | the reads of `recover_agent` |
| `Acquire`, `LockTimeout` | the Redis lock of `execute` |
| `Refuse`, `Enter` | the checks behind `aget_state`, the status running and the choice among resume, continue, new input and nothing (`Plan`) |
| `Input`, `Route`, `Record`, `SaveRefund`, `Respond` | the graph's checkpoints; the refund node commits before its checkpoint |
| `Report`, `Fail`, `WriteFailed` | the final status under the lock; failed is written after the lock |
| `Cancel`, `Crash`, `ExpireLock` | cancellation and Redis errors, a dead worker, the expiry of the locks it held |

Abstractions. The nodes before the interrupt form one step (`Route`): they write no
shared state and a crash among them resumes from their own checkpoint. A job that is in
the queue and one that waits for the lock differ only for `Crash`, which may spare any
subset of them. The row and the enqueue of `POST /runs` are one step, because a job
enqueued late behaves as one that waits in the queue. `decide_run` reads the status
before the claim, so an identical replay may enqueue a decision job at any later time.
A job that was started and cut off leaves its id
blocked in arq until arq, with `max_tries = 1`, drops it; that only swallows scans and
replays, which the model may omit anyway, so the id is free at once.
One worker process is modelled, as in docker-compose.yml.

### RedisLoss

`LoseRedis` empties queue and locks while the worker lives; jobs waiting for a lock, and
the rows `recover_runs` has read, are in the worker's memory and go on. `torn` records that
a job was driving a graph then: from that moment two jobs may drive one thread
(`ExclusionUntilTorn`). Such a job finds out at its end: releasing the lock raises
`LockNotOwned`, which is a `RedisError` and takes the place of the job's own exception, so
no failed status is written and the run is left to recovery (`Lapse`). Under all this the
ledger still follows the human, because the advisory lock and the decision row of the
ledger, not the thread lock, decide what is recorded.

### RunCache

| Action | Code |
| --- | --- |
| `CreateRow`, `CreateCopy` | `POST /runs`: the row, then `run:<id>` (api.py) |
| `Enter` | a run, resume or recovery job gets the lock of the run's thread (worker.py:145) |
| `Load`, `Save`, `UpdateCopy` | `write_run_status` with the pool: the read of the row, the durable save, the Redis transaction |
| `UpdateFails`, `Raise`, `Quit` | a failing transaction, an exception, a cancellation or the loss of Redis, and which of them goes on to write failed (190-200) |
| `ReadRows`, `Visit`, `PassFails` | the one SELECT of `recover_runs` and of `lifespan`, their loop, and its end by an error |
| `ReadCopy`, `WriteCopy` | `write_run_status` without the pool, from the row read before |
| `Lose` | Redis loses its data, the thread locks among them |

A job writes what its stage of `execute` says, whatever the row says at that time: running
behind the lock, then awaiting_approval or completed under it, and failed *behind* it, since
the `except` of line 198 is outside the lock. So two updates of one run can overlap: the
late failed of one job and the next job's, or two jobs of a run whose lock Redis has lost.
Their saves and their transactions may come in opposite orders, which leaves a copy, or the
index, at odds with the row.

`diverted` is a history variable: the runs for which a transaction failed, Redis was lost,
a pass wrote a row that was no longer true, `POST /runs` set the copy late, or two updates
overlapped. For all others copy and index must follow the row (`CopyFollowsRow`). A run
leaves `diverted` when copy *and* index are set right: by an update that meets no other and
pauses the run or ends its pause, or by a pass that puts a paused run back. A status that
touches no index entry does not heal one. For all runs a lost copy returns
(`CopiesReturn`), also when `POST /runs` never sets it. That a diverted copy is *equal* to
its row in the end is not claimed, because it need not be: `recover_runs` looks for missing
copies only, and an index entry is removed only by a write whose previous status was
awaiting_approval.

### RunAdmission

`create_run` with one action per await, so that other requests, employees and midnight
come between any two:

| Action | Code |
| --- | --- |
| `Receive`, `Identify`, `OwnOrder`, `Route` | the payload, `require_customer`, the order's customer, the thread's recorded owner |
| `TakeLimit`, `ReadClock`, `Claim` | `daily_run_limit`; key and expiry from one clock reading; the Lua script that compares and counts |
| `Own`, `Save`, `Enqueue` | the owner of a new thread, the run's row, its job |
| `Fail` | a failing await, or the end of the API, anywhere among them |
| `SetLimit`, `UpdateCustomer`, `DeleteCustomer`, `ReassignOrder` | the employees' endpoints |
| `Midnight`, `Expire` | the UTC day and the counter's expiry |

A claim is counted for the day in which Redis counts it; a request whose clock was read
before midnight and whose claim runs after it counts on the old day's key, whose run the
new day does not see. Claims are not given back: a request that fails behind `Claim` has
used a slot. A follow-up is admitted only if its thread has a recorded owner; an empty
thread id starts a thread without one, which can never be continued.

### EvaluationBudget

The proxy's coroutines hold an asyncio lock from the first assignment to the end of the
file's replacement and await nothing in between, so admission is one action.

| Action | Code |
| --- | --- |
| `Initialize`, `Refuse` | `initialize` on whatever file is there; 403 and 429 |
| `Stop` | a limit is exceeded: `stop_budget`, persisted |
| `Admit` | the reservation and its durable write, or its failure with the memory already changed |
| `Charge`, `Answer`, `Error` | the provider, which may charge and still not answer |
| `Conclude`, `Return` | the second write under the lock, the crash barrier's wait |
| `Restart` | the process stops anywhere; the operator may supply another approval |

Microdollars are numbered and a call owns a slice of them, so that "spent twice" can be
told from "spent once"; `slip` is the microdollar that binary fractions may add when sums
are rounded up. `SpendingContract` is what remains when calls, memory and failures are
hidden: under one approval microdollars are promised in order and spent once.

### HelpIngest

`chunk_text` is the recursive function in `Starts`, with `NextStart` and `ChunkEnd`; a text
is its length and the positions of its blanks. `rfind` answers -1 where no blank is found,
and the code takes that for a position: the chunk then ends before the last character of
the text, and the next one starts one character further. The ingest is `Launch` (the files
of the image), `Compare` (fingerprints), `Begin` (the embeddings have arrived, the
transaction starts with the DELETE of removed documents), `StartDelete` and `EndDelete`
(which sees what is committed when it starts, then waits for row locks), `Insert` (which
waits for, or collides with, the unique index), `Commit` and `Fail`. An insert waits both
for a transaction that has inserted its key and for one that has deleted the row that has it
(`Undecided`). `Skip` is bootstrap.py:29-38 without `OPENROUTER_API_KEY`: no document is
touched and init succeeds. A row remembers the ingest that wrote it, so that "one text" can
be told from "one ingest".

### ImagePromotion

| Action | Code |
| --- | --- |
| `Start` | the baseline checks: both services run one image |
| `Bootstrap`, `Bootstrapped` | pull, and `docker compose run init`, which is an ingest of `HelpIngest`, or leaves the documents out when there is no key |
| `Replace`, `Replaced` | `docker compose up` of both services, in either order |
| `Healthy` | `/ready` and the worker's health key |
| `RecordPrevious`, `RecordCurrent`, `Promoted` | the two files and the final `ps` |
| `CommandFails`, `ReplaceFails`, `RecordFails` | any command fails: the ERR trap rolls back, a failing rollback asks for an operator |
| `Kill` | the script ends without its trap, its init container goes on |
| `RunByHand` | `scripts/ingest_help.py` in a container of any image |

Seen in the model and not contradicted by the repository's words: after a rollback the help
documents stay those of the new image, since only services are rolled back; a killed script
can leave an unverified or mixed pair, which the next one refuses or takes for its baseline;
`current-image.txt` names the new image if the last `ps` fails and the trap rolls back.
This is why `RollbackIsVerified` excepts what follows a killed script, and why
`ServesItsDocuments` speaks of promoted images only, and only of those whose init had a key
(`Ingested`): without one a promotion succeeds over whatever documents are stored, as the
repository's README says ("exits successfully without a key").

### CrashDrill

`suite` is what build_conversation_suite.py builds for one order, or one question; `step`
is where evaluate_conversations.py is. The evaluator posts and polls (`Begin`, `Post`,
`Poll`), plays the case's event (`FlushPaused`, `RestartWorker`, `OtherEvent`), decides
(`Decide`, `EnqueueJob`), waits for the barrier and kills (`AwaitBarrier`, `KillWorker`,
`FlushRedis`, `StartWorker`), waits for the end, restarts and replays (`Await`,
`RestartAll`, `Replay`), scores on a snapshot of the tables (`Score`) and asks the
follow-up, after which that snapshot must still hold (`Follow`, `Followed`).
The worker is `RunLifecycle`'s, with evaluation_worker.py's barrier behind the ledger's
commit (`Hold`), the recovery of its `startup` (`Startup`, `Started`) and the container's
end (`Stop`). `Settle` and `Outcome` are the ledger's transaction where decisions of one
order come one after the other.

## 3. The runs

| Run | Instance | Shows |
| --- | --- | --- |
| `ledger_race` | 1 order, 2 requests, 2 sessions, 2 edits, amounts beyond INTEGER; 241 000 states | two conversations decide one order at once: `LedgerAgreement`, `CommitNeverConflicts`, `HistoryImmutable`, `DecisionsKeepApproval`, `ImplementsContract`, and every call ends (`SessionsEnd`) |
| `ledger_reset` | 2 orders, 1 request, 1 session, 2 products, 2 edits, any number of resets; 691 000 states | orders renamed, deleted, moved and reset around a decision: `TypeOK`, `StableUnderLock`, `ActionsHaveDecisions`, `OldDecisionsStayOld`, `ApprovedAsReviewed` |
| `lifecycle_crash` | 2 runs on one thread, 1 fault | `ThreadExclusion`, `InboxIsResumable`, `PauseNeedsDecision` |
| `lifecycle_live` | 1 run, 3 faults, the loss of Redis among them; 130 000 states | `LedgerFollowsHuman`, `ExclusionUntilTorn`, and everything accepted ends: `RunsArrive`, `DecisionsSurvive` |
| `lifecycle_stale` | 2 runs, no fault | violation of `RepairsOnlyIncompleteRuns` |
| `lifecycle_listed` | 1 run, 1 fault | violation of `PausedRunsStayListed` |
| `lifecycle_refund` | 2 runs, 1 fault | violation of `RefundRunsRecover` |
| `cache` | 1 run, 2 jobs, 1 pass of either kind, 1 fault; 890 000 states | `CopyFollowsRow`, `CopiesReturn` |
| `admission` | 2 requests, 2 customers, 2 identities, 1 order, limits 0 and 1, 2 days; 1 440 000 states | `TypeOK`, `ThreadsAreNotShared`, `CapHolds` |
| `evaluation_budget` | 2 chats with one barrier and 2 embeddings, 2 approvals, 2 faults; 294 000 states | `TypeOK`, `ReservedBeforeSpent`, `ChargesHaveReceipts`, `BarrierHoldsOnce`, `StopIsFinal`, `ImplementsContract` |
| `promotion` | 2 ingests, each a script's or by hand, 2 documents, 3 images, texts of 1 and 5 chunks, init with a key or without; 172 000 states | `PromotionTypes`, `WholeDocuments`, `TextsCovered`, `EndsWhole`, `RollbackIsVerified`, `BootstrappedFirst`, `ServesItsDocuments`, `PromotionEnds` |
| `crash_drill` | every suite about one order, 2 cases with threads of two runs, 1 scan beside the jobs of a case; 76 000 states | `KilledInWindow`, `ChecksHold`, `DrillEnds` |

### Bounds

*Ledger.* Two sessions are enough for every conflict: its locks are pairwise, and the
proofs hold for any number. `MaxEdits` = 2 allows an edit between proposal and decision and
one under way; two quantities give a changed amount, and with `MaxInteger` below their
largest product an overflow. The reset run has two orders and two products for renames and
moves, one session because resets exclude sessions one by one, and a reset after any
number of resets.

*Lifecycle.* Two runs of one thread bring all six jobs into competition for one lock and
one checkpoint, and one fault may fall between any two steps; the liveness run has one run
but three faults, so that a recovery, and the recovery after it, can be interrupted.
`lifecycle_crash` and the violation runs use a single choice where approve and reject
behave alike.

*Cache.* One run suffices since keys of different runs share nothing but the passes, which
treat row after row. Two jobs bring every overlap of two updates, and after a failure or a
loss of Redis the run goes on with new jobs, so that what heals is reached too; the pass is
of either kind each time it begins. With two faults the run passes as well (2.0 million
states); it is left at one for time.

*Admission.* Two requests race for the last slot of limit 1, or one continues the other's
thread; limit 0 admits without a claim; the second day lies across midnight.

*Proxy.* Prices and sizes exceed both allowances and the token limit together but not one
by one, so every limit is met by some order of the calls; two restarts or failed writes
hit a call and what follows it.

*Promotion.* Two ingests make every pair of script, killed script's container and hand-run
ingest; the third image distinguishes old, new and newer. `ChunkSize` = 3, `Overlap` = 1
and a blank in a text of 6 give a chunk that ends at a blank, one without a blank, and the
tails behind the last full chunk.

*Drill.* Cases of different orders share no rows, so a suite is the one or two cases of an
order; `MaxScans` bounds the cron's scans that come beside jobs, not those that find none.

Requests, customers and runs are used as symmetry in the safety runs where they are
interchangeable; the runs with liveness use none. Deadlock checking is off where everything
may be finished or a bound is reached, which is every run. `MaxFaults`, `MaxEdits` and
`MaxScans` are the only bounds in guards that the code does not have.

### Fairness

* `SF(SessionStep(s))`: PostgreSQL queues lock waiters, and a session that can continue
  again and again continues.
* `LossFairness`: strong fairness of a job's step, because the event loop runs every
  coroutine, arq runs every queued job after a restart, and a waiter polls for the lock;
  weak fairness of `Select` and `Visit`, the cron job of every 15 seconds, and of
  `ExpireLock`, the 530-second timeout. The run has one run: with two, a scan that finds the
  thread locked each time it looks at the second run could, without a further assumption
  on timing, overlook it for ever.
* `RunCache`: passes repeat, every 15 seconds, and go on until they end or fail; nothing is
  assumed of `POST /runs`, which may die between row and copy, or of jobs.
* `PromotionFairness`: the script goes on, and so does a statement of an init container
  that is not waiting; where two wait for each other PostgreSQL ends one after
  `deadlock_timeout` (`Deadlocked`).
* `DrillFairSpec`: `SF(Evaluate)`, since polling ten times a second meets a status that
  comes again and again, and weak fairness of the worker, its start and its scans.

Nothing is assumed of humans, employees, the provider or faults.

### Findings

Each violation run shows a disagreement between the code and the repository's own words,
described in `PROJECT.json`: a recovery job takes a completed run back to running; a paused
run whose status write fails can never be decided and blocks its thread; a run whose refund
is committed may be refused by its own recovery.

## 4. The proofs

All theorems hold for every value of the constants that satisfies the named assumptions,
and TLC evaluates those assumptions in the runs.

`RefundLedgerProofs`, any number of orders, requests, sessions and products
(`SentinelAssumption`, `LedgerAssumption`: absent is not a present value, quantities are
positive, prices natural): `LedgerTypes`, `LedgerAgrees`, `LedgerStable`, `LedgerCommits`,
`LedgerForeignKey` (invariants), `LedgerHistory`, `LedgerKeepsApproval` (action
properties), and `LedgerImplementsContract`: the initial states map to the contract's, a
commit is a `Settle`, a schema run an `Adopt`, every other step stutters.
`LedgerAgreement` is not inductive: that a commit finds no foreign action depends on what
the session has read and on what has protected it since. `CoreInv` adds four facts about
sessions (`Locks`): their shape, that each of the two locks has one holder, and that a
request behind the replay test is undecided; with `StableUnderLock` they give `CommitFacts`,
what a commit may rely on. `IInv` is `CoreInv` and the agreement. `TypeStep`, `LocksStep`,
`StableStep`, `AgreementStep` and `OrdersStep` show that each part is kept.

Of the demo reset, in the same module (`SeedAssumption`: the demo rows have the tables' types): `ResetTypes`,
`ResetWaits`, `ResetKeepsDecisions`, `ResetForgetsOldDecisions`, `ResetApprovesAsReviewed`.
`CoreInv` was separated from the agreement for this: it survives a reset (`ResetCore`), the
agreement does not. `RInv` adds `ActionsHaveDecisions` and that a session decides the
proposal its human has seen (`ProposalKept`); the ledger's own step lemmas are used again
for all other steps.

`RunLifecycleProofs`, any runs, threads, choices and number of faults
(`LifecycleAssumption`: every run has a thread, and no run, no job and a dead worker are not
runs or jobs): `LifecycleTypes`, `LifecycleExcludes`, `LifecycleRefunds`, `LifecycleInbox`
(invariants) and `LifecyclePause` (an action property). None of these is inductive:
exclusion says nothing of who holds the lock, and a refund is recorded long after its
decision was read. `JobOK` says what a job knows at each stage: from `entered` to `report`
it holds the lock of its thread (`HoldsLock`); a decision it carries has been claimed and,
claims being final, is still the run's (`CarriesClaim`); the checkpoint it planned from
stands where it read it (`KnowsCheckpoint`). A step of one job leaves that knowledge of all
others alone because it frees or takes only its own lock and moves a checkpoint only under
it (`OthersKept`); a job that leaves the critical section has nothing to know (`OutsideOK`).

Of `RedisLoss`, in the same module, as many losses of Redis as there are faults, each between any two steps:
`LossTypes`, `LossRefunds`, `LossExcludes`, `LossInbox` (invariants) and `LossPause` (an
action property). The lifecycle's invariant rests on the lock, which a loss can take from
under a running job; from then on (`torn`) two jobs drive one graph and nothing of it is
left. What does not need the lock is `ClaimInv`: what a job carries is a human's claim,
claims are final, and only a job that carries one reaches the refund node (`Honest`,
`Moves`). So `LossInv` is `ClaimInv` together with the lifecycle's whole invariant or
`torn`, and a loss that finds no job inside the critical section keeps both: it frees locks
nobody relies on.

`RunCacheProofs`, any runs, jobs, passes and faults (`CacheAssumption`): `CacheTypes`,
`CopiesFollow`. `CopyFollowsRow` speaks of runs nobody is writing; `Consistent` says what
copy and index are in between: Redis shows the row, or an update that has met no other has
saved a row that its transaction will show, and an index entry is one that transaction
removes or keeps rightly; a run being created has a queued row and no index entry. `Owned`
says what such an update knows of the row also while the copy is out of step, since it is
what sets it right.

`RunAdmissionProofs`, any finite set of requests, any customers, limits and days
(`AdmissionAssumption`): `AdmissionTypes`, `ConversationsArePrivate`, `CapIsKept`. The type
invariant includes that every order has a customer (`OrdersOwned`): one is deleted only
while no order refers to him. `OwnerInv`: a request's thread is its own or recorded for its
customer, and owner rows are never changed. `CountInv`: the counter of a day that has not
ended counts the claims of that day, since a key cannot expire within it; the claim that
makes the count n was compared with a limit of at least n.

`EvaluationBudgetProofs`, any prices, sizes, calls, approvals and faults
(`BudgetAssumption`, `LedgerAssumption`): `BudgetTypes`, `ReservationFirst`,
`ReceiptsComplete`, `BarrierOnce`, `StopFinal`, `BudgetImplementsContract`. The type
invariant includes that no ledger, in memory or on file, reserves more than its approval
allows (`Within`). `LedgerInv`: the file is an earlier state of the memory (`Behind`), so
that a failed write loses nothing and a restart goes back to a state that was safe;
`CallInv`: calls own disjoint slices of what the *file* has reserved.

`HelpIngestProofs`, any ingests, documents and texts (`IngestAssumption`): `IngestTypes`,
`DocumentsAreWhole`, `CharactersAreCovered`. A DELETE sees all committed rows of a document or none (`Together`),
since only commits add rows; a transaction that has inserted a document collides with
nothing committed (`Inserted`) and shares no document with another open one (`Apart`),
because every text has a chunk of index 0 and the unique index makes the second insert wait
or fail. So a commit replaces a document as a whole. That the chunks of a whole document
cover it is an induction: `Starts` is recursive, and the library's induction rules cannot be
used here, so `LeastNumber` and `GreatestNumber` are derived from the well-foundedness of
the natural numbers and a least position that the recursion gets wrong is refuted
(`StartsReached`); the set it computes contains the next start of each of its members
(`StartsClosed`), and behind the greatest start at or before a character there is no gap
(`ChunksCover`).

`ImagePromotionProofs`, any scripts, images and documents (`PromotionAssumption`):
`PromotionTyped`, `PromotedDocumentsAreWhole`, `PromotedTextsAreCovered`, `InitComesFirst`,
`ScriptsEndWhole`, `RollbacksAreVerified`, `PromotionServesItsDocuments`. The ingest's invariant is kept since every step of a script is a
step of the ingests or leaves them alone (`IngestsGoOn`). `PInv` adds that one script is at
work and it is the last (`Alone`), what its finished commands have left (`Settled`), that
what it would restore had a completed init container (`PreviousRanInit`), and that a pair
left in peace was verified (`QuietIsVerified`). That a promoted image's documents are served
needs `SInv`: while no script was killed and nothing ran by hand (`Peaceful`, which once lost
is lost for good, `PeaceBefore`), the only ingest at work is the one a script waits for; what
it has read and deleted is still what is stored (`Current`), so its commit makes the stored
texts those of the image (`CommitSynchronizes`), and they stay so until the next script's.

`CrashDrillProofs`, every suite of the drill, any number of recovery scans and of other
runs (`DrillAssumption`: the runs 2n-1 and 2n are those of case n, on a thread of their
own): `DrillInvariant`, `DrillKills`, `DrillChecks`. A check compares what the evaluator
reads with what its suite expects, so `DInv` has to say how far the program is whenever the
evaluator is at a step. `SuitesAreRight` shows that each case expects what comes of its
decision. `StepFits` and `StoppedShort` follow the evaluator; the rest is said unless the
API has refused a decision, which the evaluator scores but does not wait for. Only runs
the evaluator has posted exist and they carry its decisions (`PostedOnly`,
`DecidedAsSaid`); a run it has seen paused stays so until it decides (`Waiting`); order,
actions and quantity are what the finished cases have made of them (`TablesFollow`) and
the snapshots recall them (`Remembered`); at the barrier the checkpoint is still paused and
the ledger has the decision (`HeldFast`), and the dead worker's jobs are gone
(`MemoryLost`). What the jobs may do meanwhile is the lifecycle's `IInv`. A flush
behind the kill keeps it, since no job is in memory; the case that flushes Redis beside a
living worker (`Torn`) gives it up, and `ClaimInv` is then enough. Steps beside the
evaluator (`BesideKeeps`) and of the evaluator (`EvaluateKeeps`) each keep the parts.

Only model-checked: all liveness properties, whose proof would need ENABLED. Every safety
property the passing runs check is a theorem. The three violated properties are of course
not theorems.

## 5. Not modelled, and why

* The SQL tool: the guard and the rewriting (`validate_readonly_sql`, `scope_customer_sql`)
  parse SQL text; the 300-second cache returns earlier rows of the same query to an answer
  and is read by nothing else.
* Graph nodes and model client: prompts and HTTP without shared state; what a model answers
  is the choice in `Route`.
* The web console: views over the endpoints, gone with the next refresh. Answers that arrive
  out of order within a view are listed as hazards.
* The rubric's text matching, the report scripts and the suite's wording: offline, without
  concurrency or durable state.
* EC2 provisioning: one-shot cloud commands.
* Employee endpoints that write rows neither the ledger nor the admission reads, and lists.
* Seeding an empty database and the setup of langgraph's tables: they come before everything.
* In modelled components: a second job with the id of one that still runs, which arq could
  start after the loss of Redis; ingests with different embedding models or dimensions;
  promotion scripts running at once, which the workflow excludes, and container restarts;
  which requests the proxy's validation rejects before it counts them; failures of the drill
  other than those it plays.

## 6. What could come next

A composition of the lifecycle with the statement-level ledger; a model of the console's
views.

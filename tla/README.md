# Payment scheduler: TLA+ models, model checks and proofs

This directory is a verification project for the payment scheduler: TLA+
modules translated from `app/`, TLC configurations that check them on small
instances, and theorems checked by TLAPS. Line numbers refer to the commit the
project was written against.

## 1. Inventory

### Components, their state and their operations

| Component (source) | State | Operations | Modelled in |
|---|---|---|---|
| Rows (`infrastructure/db/models.py`, `domain/models.py`) | `subscriptions`, `scheduled_jobs`, `job_runs`, `idempotency_keys`, dead letter queue | transactions of the workers and of the API | `JobStore` (runs, jobs, keys, dead letters), `SubscriptionStore` (schedule, status, row locks) |
| Executor, N processes (`workers/executor.py`) | batch of ids, current run, answer of the payment call; nothing survives a restart | tick: fetch, then per run claim, reload, DAG check, key pre-check, call, success / retry / dead letter | `Executor` |
| Recovery worker (`workers/recovery.py`) | ids of the tick, the run it claimed, orphans it read | stuck scan, compare-and-set, requeue or dead letter, cancel orphaned DAG jobs | `Recovery` |
| Scheduler (`workers/scheduler.py`) | none between ticks | select due rows for update, create a job and its first run, advance `next_fire_at`, pause on invalid cron | `Scheduler`; `JobStore!CreateJob` for what executors see of it; `LeaderElection` for acquisition and verify |
| Leader election (`infrastructure/redis/leader.py`) | Redis key and epoch counter; per process token, epoch, `is_leader`, heartbeat task | acquire (SET NX, INCR), renew, verify, release | `LeaderElection` |
| State machine (`domain/jobs/state_machine.py`) | status of one run | `transition_to` | `RunLifecycle` (abstract specification of a run), `JobLifecycle` (of a job) |
| Retry policy (`domain/models.py`) | none | `is_exhausted`, `next_delay_s` | `IsExhausted`; the delay is "some time" |
| Worker loop (`infrastructure/messaging/workers.py`) | stop flag, engine | `run`, `stop`, `main`'s startup, signal handler and shutdown | `WorkerLoop`; a failed tick also in the workers' modules |
| bunq client (`infrastructure/bunq/client.py`) | none; bunq remembers request ids | `create_payment` | `CreatePayment`, with `BunqBehaviour` for the outcomes |
| Subscription API (`api/routes/subscriptions.py`) | what a request read, until its UPDATE | create, patch, cancel, resume | `SubscriptionApi` |
| Sessions (`infrastructure/db/session.py`) | engine | start, dispose, commit, rollback | `WorkerLoop`, `RequestFails`, `RollBack` |
| DLQ API, job and health API, migrations, logging, metrics | - | resolve; read-only, I/O or one-time | not modelled |

### How they interact

Processes share nothing but PostgreSQL and Redis. The scheduler inserts a job
with its first run; executors claim runs, call bunq and write the outcome;
the recovery worker takes RUNNING runs whose lock expired away from executors
that may in truth still be working; the two leader-only workers exclude each
other, and their own replicas, by one Redis key. A retry is a new `job_runs`
row, and the idempotency key sent to bunq is derived from the row's id and
attempt.

### What is hard

- Every final transaction of the executor writes its run by id whatever the
  run's status has become, so a late executor and the recovery worker interleave
  at every step.
- The payment is executed by a system outside the transaction: crashes, timeouts
  and cut connections between the call and the commit.
- Recovery works in two transactions per run, and on snapshots taken earlier in
  its tick.
- Leadership is verified, and used later; acquiring it takes two commands; the
  heartbeat is a task of its own that may die.
- A subscription row is written by ticks, which lock it from SELECT to commit and write what follows from
  the row they read, by
  requests, which read it and write later what they computed, and by ending runs, which
  change its counter and status; `next_fire_at` is computed from a clock that goes on.
- A window may be fired before it comes (lookahead), late (outage), or be asked for by several ticks.

### What makes each component correct

- Store and executors: one live attempt per job, one executor per attempt, a
  backoff is waited for, the ledger never claims a payment that was not made,
  a job is paid at most once and only while it is open, dependencies first.
- Recovery: nothing is lost, terminal runs stay terminal, one dead letter per
  dead run, every job ends.
- Scheduler and API: no window passed over, `next_fire_at` never taken back by a tick, jobs only for the
  row as it is at the commit, every due row processed. (One job per window is the unique constraint's doing, and
  is the shape of the model rather than a property of it.)
- Worker loop: SIGTERM ends the process after its tick.
- Leader election: unique epochs, a healthy leader keeps the key, one writer,
  leadership is lost and found again.

Every hazard of this kind that the code has is listed with its line in
`PROJECT.json` under `hazards`, with the properties that cover it.

## 2. Plan

1. (done) `JobStore`, `Executor`, `Recovery`, `PaymentSystem`: the life of a
   payment under interleaving, crashes, late answers and database errors.
2. (done) `RunLifecycle`: the domain's state machine, implemented by
   `PaymentSystem` as long as executors meet the lock timeout.
3. (done) `LeaderElection`.
4. (done) `PaymentSystemProofs`: types, one live attempt, exclusive execution, a sound
   ledger, backoffs, and that no job is dropped.
5. (done) `SubscriptionStore`, `Scheduler`, `SubscriptionApi`, `SubscriptionSystem`: windows,
   lookahead, row locks, the pause on an invalid cron, the API's create, patch, cancel
   and resume, with the auto-pause.
6. (done) `WorkerLoop`: the poll loop, `stop()`, signals, shutdown.
7. (done) `JobLifecycle`: what a job promises, implemented by `PaymentSystem`.
8. (done) `LeaderElectionProofs`, `SubscriptionSystemProofs`.
9. (done) `TransactionProofs`, `TimelyPaymentProofs`: what every step commits, and from it the
   dependencies, and, for timely executors, final payments, single dead letters, payments of open jobs only and both
   refinements; the conditions under which there is one writer and every tick advances.
10. (left) The composition of `LeaderElection` with the workers' writes. Today `Scheduler` and `Recovery`
    let any process that believes to lead tick at any time, which includes all that
    the election allows; a composition would only show fewer behaviours.

Dropped from the plan: the dead letter API, since nothing reads what it writes, and the
delay formula of the retry policy, which is floating-point data (section 6).

## 3. The modules

    RunLifecycle        abstract: one run's status
    JobLifecycle        abstract: one job's outcome
    JobStore            rows, shared transactions
      Executor          executor processes          (EXTENDS JobStore)
      Recovery          recovery processes          (EXTENDS JobStore)
        PaymentSystem   composition, environment, properties
          PaymentSystemProofs     theorems: attempts, executors, ledger, no job dropped
            TransactionProofs     what a step commits; dependencies
              TimelyPaymentProofs theorems about timely executors; refinements
    LeaderElection      Redis key, epoch, heartbeat
      LeaderElectionProofs    theorems
    SubscriptionStore   subscription rows, windows, clock
      Scheduler         scheduler processes         (EXTENDS SubscriptionStore)
      SubscriptionApi   requests                    (EXTENDS SubscriptionStore)
        SubscriptionSystem    composition, history, properties
          SubscriptionSystemProofs    theorems
    WorkerLoop          a worker process, its signals and its end
    MC*                 model values and symmetry for TLC

**JobStore.** A run is `<<job, attempt>>`, since `uq_run_per_attempt` makes that
pair unique and nothing updates it. `runStatus` is "NONE" until the row is inserted.
Times are abstracted to what the guards compare: `lock_expires_at` is null, ahead
("held") or past ("expired"), `retry_after` null, ahead ("waiting") or past ("due").
The idempotency key of a run is the run itself: `sha256(run id : attempt)` is
injective for the purpose, and a run keeps its attempt. Each transaction of the
code is one action. That is sound because its statements touch rows by
primary key, or insert under a unique constraint: PostgreSQL's row locks
serialise those under READ COMMITTED. In `_move_to_dlq` the increment and the
comparison with the threshold are two statements of one step, because the increment holds the subscription's row lock
until the commit; that the pause is not missed is therefore built into the model and not claimed as a property of it.
`MaxAttempts` is one constant. `retry_policy` is a column of each subscription and may be PATCHed between an executor's
snapshot and recovery's read, so that the two may differ about which attempt is the last; this is left out.
`PaymentSystem` changes a subscription's status by the auto-pause only; the requests that change it are in
`SubscriptionApi`, and nothing an executor or recovery worker does depends on it.

`CreateJob` is what the scheduler's commit does for a subscription in status
ACTIVE. It also lets a job name dependencies. No code of the repository writes any: the scheduler and the
tests insert an empty list (`scheduler.py:208`, `tests/integration/conftest.py:358`), while executor and recovery worker evaluate
the column. Rows with dependencies come from outside, and `depends_on` is JSON without a foreign key, so nothing
says that the jobs it names have rows: `recovery.py:306` skips one that has none, and `executor.py:363` counts it as
met. With the fault "unordered" a job is inserted before, or without, a dependency; the history
variable `absent` remembers which.

**Executor.** `pc` walks through `_process_batch`: `FetchPendingRunIds`, then per
id `ClaimRun` or `SkipRun`, then `LoadRun`, `CheckDagDependencies`,
`FindIdempotencyKey`, `CreatePayment`, and one of `PersistSuccess`, `ScheduleRetry`, `GiveUp`, or
`MarkDagCancelled`. Ids are taken from the batch in any order. A claim whose transaction fails (`executor.py:264-266`) is
no step of its own: the run stays PENDING and its id is dropped, as when SKIP LOCKED frustrates the claim (`SkipRun`). SKIP LOCKED may hide rows that another
executor holds locked for the moment (`LockedElsewhere`). The reload reads a
snapshot of subscription and job; neither status is looked at. `BunqBehaviour` is the set of pairs
(payment executed or not, what the executor is told). `paid` is external: what bunq
did for each key, at most once per key. `"transient"` is `BunqTransientError`, `"ambiguous"` is
`BunqAmbiguousError`, `"rejected"` is `BunqPaymentError` or `ConfigurationError`, `"error"` any other exception. `ExecutorAssumption` says that a payment id means an executed
payment, and that a request bunq refuses (`client.py:157-158`, any other status) was not executed.

**Recovery.** `RecoverStuckRuns` reads ids without locks; `ClaimStuckRun` is
transaction 1, `RequeueOrBury` transaction 2. `ReadOrphanedJobs` reads, if
still the leader, the jobs with dependencies; `CancelOrphan`, `KeepJob` and
`EvaluationRaises` evaluate one job each. The limits of 50 and 100 rows per tick are left out.
Evaluating a job is several SELECTs and an UPDATE under READ COMMITTED, and one step in the model. What another commit could
change in between is the status of a dependency's runs; a DEAD run stays DEAD as long as executors are timely.
Several members of `Recoverers` stand for a deposed leader finishing its tick
beside the new leader. The module's docstring claims that this is safe.

**PaymentSystem** adds the passing of time (`LockExpires`, `BackoffElapses`) and
the faults. Without "slow" in `Faults`, a lock expires only when no executor is at work on the run,
which is what config.py says the timeout must guarantee ("Must exceed the maximum expected
time for a bunq API call + DB write to complete"). With "slow" it may expire at any moment.
`TransactionFails` is the caught exception in `_process_batch`; `ExecutorCrash` loses the
executor's memory; `TickAborts` is a recovery tick that dies or is left by an exception.

**RunLifecycle** is the transition table; `PaymentSystem!FollowsStateMachine`
states that the workers' transactions, none of which uses the class, implement it.

**JobLifecycle** has one outcome per job: created, then paid, given up or
cancelled. `PaymentSystem!Outcome` is the refinement mapping: the job's status, except that a READY
job with a dead letter entry counts as given up. `FollowsJobLifecycle` says that no order of transactions takes
back an end: a paid job is not cancelled or given up later, by the orphan scan in particular, which
cancels on the strength of rows read earlier in its tick.

**LeaderElection** has a process per scheduler or recovery worker. A tick is
`SetKey`, `IncrementEpoch` (two Redis commands), `Verify`, `Write`; the heartbeat
is separate. `Write` stands for the tick's transaction, or any one of the recovery
worker's: recovery goes through several transactions after one verify, and each is exposed to the gap as the first is. `Release` comes between ticks. A crashed process' token becomes `Ghost`. `MaxEpoch` bounds
the counter. `lapsed` is a history variable: the processes that lost the key to its TTL while they were
renewing it or were about to INCR, since their last acquisition. It lets the safety properties say
exactly whom the election fails, instead of assuming that nobody stalls.

**SubscriptionStore** has the clock and, per subscription, `status`, `cron`, `zone`, `nextFire`, `failures`, the number of jobs
per window and the row lock. A cron expression in a time zone is the set `Occurrences` of instants at which it
fires. `RunSucceeds` and `RunDeadLettered` are what `_persist_success` and `_move_to_dlq` do to the
subscription; executors themselves are in `PaymentSystem`. The unique constraint on
(subscription, window) is in `InsertJobs`.

**Scheduler.** A tick is `BeginTick` (cutoff and first verify), `SelectDue` (SELECT ... FOR UPDATE SKIP
LOCKED), and `CommitTick` (second verify, inserts, `next_fire_at` or pause, commit) or `RollBack`
(the verify fails, a statement raises, the process is killed). `due` keeps the rows as the SELECT returned
them: the jobs' windows and the next occurrence come from there, and the UPDATE goes by id, so that it is the row lock
alone that keeps a request's write from being overwritten (`JobsFollowTheRow`, `TickNeverGoesBack`; both fail with a SELECT that does not lock).
SKIP LOCKED skips rows locked by other ticks. Requests and executors lock a row from their UPDATE to their commit, which is
one step here; a tick that skips such a row finds it the next time. All rows of a tick are
one transaction. Any member of `Schedulers` may tick at any time.

**SubscriptionApi.** PATCH without a cron expression, DELETE and POST / are one step each: what they write does not depend
on what they read. PATCH with a cron expression and resume are a read, which
computes the next occurrence, and a write, which waits for the row lock. `AcceptedBodies` is what the schema and the handler accept: an
expression is validated, a time zone is not. A request that fails in between is rolled back.

**SubscriptionSystem** composes them and keeps the history the properties need: `closed` (cancelled by a request,
not made ACTIVE by one since), `strays` (jobs for a `next_fire_at` that is off the schedule, since
a request last wrote the row), `since` (when an ACTIVE row last came to follow its schedule) and `overrun` (occurrences that came
while the row was still at an earlier one).

**WorkerLoop** has the phases of one process. `Sigterm` is the handler: for an executor
`stop()` sets the flag, for the two leader-only workers it creates a coroutine that is dropped.
`Interrupt` is the cancellation by SIGINT, `Kill` is SIGKILL.

## 4. Model checking

The runs use two executors at most, one or two jobs, two or three attempts, because the
hazards involve two parties and one retry: one executor that is late or dead, one that
took over, one recovery worker between them; of two attempts the first is
retryable and the last exhausted, three put one in the middle. `PauseThreshold` is 2, so
that it is reached and exceeded with the attempts and jobs available. `BatchSize` is 1
(two executors fetch the same id with one as well; `Settle` has a single job, so
its batches are whole). The failure counter and the number of dead letters are
bounded by what executors can do, and need no bound. `SuspectConfig` lists the
subscriptions whose payment config may fail to parse. `MaxEpoch` ends a run of
`LeaderElection` after three terms, one for each of three processes: a deposed leader, its successor,
and the term after a crash of that one.

`Subscriptions` has one subscription (rows do not interact: a transaction that selects several treats each alike), two schedulers,
one request in flight besides those that take one step, and a clock of three instants (`MaxTime` 2) with a
`Lookahead` of one, so that a window is fired early, in time and late. One expression fires at every instant in UTC and at every other
in a second zone; a second expression is not accepted any more, a third zone never was. `MaxFailures` caps the counter one
above `PauseThreshold`, so that a row a PATCH made ACTIVE at the threshold meets its next dead letter.

Deadlock is not checked: the system stops when every
job has settled and nobody is in the middle of anything, the election
when the epochs are used up, the subscriptions when the clock has reached its bound, and worker processes exit.

### Runs that pass

| Run | Instance | What it shows |
|---|---|---|
| `Overlap` | j2 depends on j1, inserted in either order, 2 executors, 1 recovery worker; slow, crash, db_error, unordered; `LossyBunq` | `TypeOK`, `OneLiveAttempt`, `ExclusiveExecution`, `BackoffRespected`, `LedgerSound`, `PrecheckFindsNothing`, `RunningIsLocked`, `NothingLost`, `DependenciesPaidFirst` hold even with late executors |
| `Timely` | j2 depends on j1, 2 executors, 2 recovery workers; crash, db_error, abort; all answers | if executors meet the lock timeout, a recorded payment is final, dead runs have one entry, bunq executes no payment of a job that is over, and both abstract specifications are implemented |
| `Settle` | 1 job, 3 attempts, 2 executors, fair; slow, crash, db_error | every job settles, no run stays RUNNING |
| `Election` | 3 processes, 3 epochs, fair; stall, crash, redis_error | epochs are unique; a leader that renews in time holds the key, has the highest epoch and writes in epoch order, whatever happens to the others; deposed leaders step down; a dead leader's key is replaced |
| `Subscriptions` | 1 subscription, 2 schedulers, 1 slow request, fair ticks | jobs only for the row at the commit, no window lost unless the row was a whole period late, at most one job off the schedule, no tick takes `next_fire_at` back, every due row processed |

`NothingLost` is checked without "abort", and the properties of `Timely` without
"slow", because they are false with them (`RecoveryAbort`; a late answer turns a DEAD run into SUCCEEDED). `FollowsJobLifecycle` and `PaidOnlyWhileOpen` are also checked
without "unordered": a job that was inserted before its dependency may be past its check when the dependency dies, is
cancelled by the orphan scan, and is paid all the same.
`Overlap` uses `LossyBunq`: created, rejected, lost before bunq executed it, and cut off after. These are the cases that make a
difference ("transient", "ambiguous" and "error" are all retried, executed or not); `Timely` and `Settle` use `RealBunq`, all of them.
The properties of `SplitBrain` and `EarlyFire` have theorems that say when they do
hold (section 5: `OneWriter`, `TicksAdvance`). TLC agrees: both pass when
`SplitBrain` is given `Disturbances = {"crash"}`, and `EarlyFire` is given `Lookahead = 0` and a second scheduler.
There is no such theorem for `CrashDoublePay`: a second payment needs only one crash, one late executor, one failed commit or one lost
answer, and a job is paid once only when none of these ever happens.
What holds of payments with crashes and a bunq that does not always answer is that a payment the
database has recorded is not repeated (`RecordedPaymentIsFinal`, for timely executors).

### Runs that find a disagreement

| Run | What the code does |
|---|---|
| `CrashDoublePay` | crash after bunq executed: the next attempt is another row, hence another key, and pays again (README "Worker Crash Mid-Payment" says exactly once) |
| `RecoveryAbort` | a tick that ends between recovery's two transactions loses the job |
| `DagTooEarly` | a job whose dependency is unfinished is cancelled, not left unclaimed |
| `SharedKey` | scheduler and recovery share the leader key; one of them never works |
| `SplitBrain` | a heartbeat that dies after the verify lets a second leader write |
| `EarlyFire` | a window fired within the lookahead is found again as the next occurrence: `next_fire_at` stays, and every tick until the window selects and writes the row again (the unique constraint keeps the job single) |
| `IgnoredSigterm` | SIGTERM does not stop the scheduler or the recovery worker: their `stop()` is a coroutine nobody awaits |

Quotes and lines are in `PROJECT.json` under `findings`. Relatives of these that were met
on the way and have no run of their own:

- a late executor's answer turns a run recovery declared DEAD into SUCCEEDED, although `state_machine.py:22` says
  "Terminal states: SUCCEEDED, DEAD."; only then can a DONE job become CANCELLED, too;
- `executor.py:320` builds `BunqClient(get_settings())`, and the constructor (`client.py:51`) takes no such
  argument: a TypeError that counts as an error of the call, so that, as `main()` builds it, the executor never pays.
  `executor.py:322` passes `payment_config=`, which `create_payment` does not take either; both are the
  answer `<<FALSE, "error">>`;
- a dependency without a row counts as met: `executor.py:363` asks `all()` of the rows it finds, and the job is paid, where
  README:788 says that the "executor leaves a run unclaimed when its dependency is not yet `DONE`".
  `DependenciesPaidFirst` excepts exactly these pairs (`absent`);
- the dependency check asks for ids and nothing else, while README:34, 88, 219 and 297 say that it is scoped to the job's own
  `scheduled_for` window: a DONE job of an earlier window that is named in `depends_on` satisfies it;
- resume does not check the status: it revives a CANCELLED or resets an ACTIVE subscription, where
  README:625 says "Returns `409` if not currently paused";
- a PATCH of the status to ACTIVE goes around README:835 ("Resume requires POST /resume") and resets neither the failure
  counter nor `next_fire_at` (`subscriptions.py:194`): the row is ACTIVE at the threshold, and the next dead letter
  pauses it again;
- the lookahead does not make up for an outage of a period or more: the windows in `overrun`
  are skipped, since the next occurrence is sought from the present;
- two concurrent resolve requests for a dead letter both succeed, and the second overwrites `resolved_by`;
- `BunqAmbiguousError` is retried under a new key like a crash is, although
  `exceptions.py:15-16` lists it as non-retryable;
- recovery and a late executor dead-letter the same run twice, with two
  consecutive failures (README:539 expects leader election to prevent that);
- `PrecheckFindsNothing` means that the pre-check never rescues anything. If a run that has a key
  is put back to PENDING by hand, as `tests/integration/test_executor.py:168-175`
  does, the pre-check hands the stored payment to `_persist_success`, whose insert
  conflicts with that same key and rolls back: the run stays RUNNING, while the test
  expects SUCCEEDED (line 196);
- an exception in the heartbeat's renewal ends the task and leaves `is_leader`
  set (README:852 says the leader steps down);
- a process that stalls between SET NX and INCR gets a higher epoch than the key's
  next owner: `HolderHasHighestEpoch` holds for all leaders but those that lapsed.

### Fairness

`PaymentSystem!Fairness`: executors and recovery workers keep taking steps (the poll
loop of `BaseWorker.run` never ends and swallows exceptions) and time passes (`BackoffElapses`,
`LockExpires`). A claim that is possible again and again eventually succeeds
(strong fairness): SKIP LOCKED and crashes may frustrate a claim, but not all
of them, as the order by `created_at` makes the oldest row part of every batch. Crashes and
errors have no fairness. `Settle` has no bound on how often they happen and needs
none: each ends an attempt, and attempts are finite.

That recovery workers take steps presumes that one of them holds the leader key.
`SharedKey` shows that the deployment of docker-compose.yml does not grant that
when the scheduler starts first; the liveness results about payments are about a deployment
where it does (or with one key per role).

`LeaderElection!Fairness`: ticks and heartbeats go on, a TTL that nobody extends runs out (`Unrenewed`: the owner is dead, or has no
heartbeat and is not about to begin), and not every acquisition fails between SET and INCR. That a renewing leader
loses its key is a disturbance and has no fairness.

`SubscriptionSystem!Fairness`: each scheduler process goes on ticking (what it believes of its leadership is not modelled here), and not every one of
its transactions is rolled back (strong fairness, as the rollbacks of one process do not disable its next commit
for good). Requests, ending runs and the clock are not fair. `WorkerLoop`: every await of the loop
ends, as calls have timeouts and sleeps an end; signals are not fair.

## 5. Proofs

### Payments

`PaymentSystemProofs` proves, for any set of jobs, subscriptions, executors and
recovery workers, any `MaxAttempts`, threshold, batch size, dependencies, answers of
bunq and faults (assumptions: `StoreAssumption`, which types the constants and says that `NoRun` is no run;
`ExecutorAssumption`, which types the remaining ones and says that an answer with a payment id
means an executed payment, and a refusal none; `NoJobIsDropped` alone also assumes that no tick of recovery aborts):

- `TypeCorrect`: `Spec => []TypeOK`;
- `AttemptsDoNotOverlap`: `Spec => []OneLiveAttempt`;
- `ExecutorsDoNotShare`: `Spec => []ExclusiveExecution`;
- `PrecheckIsIdle`: `Spec => []PrecheckFindsNothing`;
- `LedgerIsSound`: `Spec => []LedgerSound`;
- `StuckRunsAreVisible`: `Spec => []RunningIsLocked`;
- `BackoffsAreRespected`: `Spec => []BackoffRespected`;
- `NoJobIsDropped`: `Spec => []NothingLost`, if "abort" is not in `Faults`. The run
  `RecoveryAbort` shows why the assumption is needed.

`OneLiveAttempt` is not inductive: an insert of attempt n+1 by an executor that holds attempt n
would break it if attempt n could be PENDING again, if attempt n+2 were already there,
or if attempt n were still live after the insert. The inductive invariant is

    AttemptInv == TypeOK /\ Holding /\ ClaimedOnce /\ RowsInOrder
                  /\ OneLiveAttempt /\ ExclusiveExecution

- `Holding`: a worker holds a run exactly between its claim and its last step;
- `ClaimedOnce`: a held run is never PENDING again, an executor's run has no key yet, and
  a run recovery holds is no longer RUNNING, which a late executor cannot change back;
- `RowsInOrder`: rows of a job appear one attempt after the other.

Two step lemmas carry the argument. `StatusStep` says what any step does to
statuses: nothing claimed becomes claimable, nothing that ended becomes RUNNING, and a new
row is the first of a new job or follows an attempt that is over when the step ends.
`ClaimStep` says that only a claim gives a run to an executor. From these,
`OrderInductive`, `ExclusiveInductive` and `ClaimedInductive` prove the three
parts separately. `AttemptInv` was checked by TLC on the `Overlap` instance
before it was proved.

The other theorems strengthen their property beside `AttemptInv`:

- `LedgerSound` with `CreatedIsPaid`: an executor takes its run for paid only after
  bunq executed a payment. A stored key could also make it do so, which
  `ClaimedOnce` excludes.
- `BackoffRespected` with `FetchedIsDue`: what is fetched has a row already, so a later insert
  with a backoff meets the row and changes nothing.
- `NothingLost` says that some attempt of the job is live, which does not say
  why the next step keeps one. `CarriedOn` names it: the last attempt of a READY
  job is live or in recovery's hands (`InHand`). `HandedOn` shows that it leaves
  them only with the next attempt inserted in the same commit, the dead letter queue
  or the end of the job. A dead run must also stay dead:
  an executor that still holds a run recovery buried cannot schedule a retry, since recovery
  buries only exhausted runs (`HeldDeadIsExhausted`).
- `RunningIsLocked` is inductive with the types.

`TransactionProofs` reduces the next-state relation to what other workers can see of a step. `EveryStepCommits`
proves that each step is one of eleven kinds of commit (`Commits`): nothing, a claim, a cancelled, recorded, retried or
given-up run of an executor, recovery's compare-and-set, its requeue or burial, an orphan cancelled, a job
created. The proofs below argue about these kinds instead of the actions. One theorem has no
further assumption:

- `DependenciesComeFirst`: `Spec => []DependenciesPaidFirst`, with `DependencyInv`. An executor past its check has
  dependencies that are recorded (`DepsChecked`), which rests on two more facts: a DONE job is recorded (`LedgerSound`),
  and a dependency of a job with a row has one too, or the pair is in `absent` (`RowsExist`; the check does not count
  a dependency without a row as unmet). Jobs may be inserted in any order. Keys are never deleted, and
  `absent` only grows, so a check that is stale at the call is still right.

`TimelyPaymentProofs` assumes `"slow" \notin Faults` throughout: a lock expires only after its
executor let go of the run. Crashes, database errors, aborted ticks and all answers of bunq remain. The invariant is

    TimelyInv == OwnedByExecutor /\ OwnedByRecovery /\ EarlierFailed

- `OwnedByExecutor`: the run an executor holds is RUNNING under a lock that has not expired;
- `OwnedByRecovery`: the run between recovery's two transactions is FAILED, the last of its job, and held by one worker;
- `EarlierFailed`: every attempt of a job but the last one FAILED.

TLC checked it on the `Timely` instance first. It is inductive together with `AttemptInv` (`OwnedInductive`, `ReapedInductive`,
`EarlierInductive`); without it the compare-and-set of recovery and the unconditional UPDATEs of an
executor could meet on one run, and each of the following would fail:

- `RunsFollowStateMachine`: `Spec => FollowsStateMachine`, the refinement of `RunLifecycle`. `TimelyMoves` shows for
  each kind of commit that every run stays, appears PENDING, or moves along a valid transition;
- `RecordedIsFinal`: `Spec => []RecordedPaymentIsFinal`;
- `DeadLettersAreSingle`: `Spec => []SingleDeadLetter`;
- `JobsKeepTheirEnd`: `Spec => FollowsJobLifecycle`, the refinement of `JobLifecycle` under the mapping `Outcome`, if
  "unordered" is not in `Faults` either. `OutcomeInv` adds `StoppedWhenCancelled`: a cancelled job has no run in anybody's hands, or a dead dependency. The
  orphan scan cancels a job while an executor may be holding its run; that executor cannot make the job DONE
  after all, because a dead dependency is not recorded (`OneEnd`) and the run therefore not past its check
  (`PaidHasNoDeadDependency`).
- `OnlyOpenJobsArePaid`: `Spec => PaidOnlyWhileOpen`, under the same two assumptions. `CalledIsOpen`: at the call an executor holds a RUNNING
  attempt, which is the last of its job, so the job is neither recorded nor dead, and the orphan scan has not cancelled
  it, since its dependencies are recorded and a recorded dependency is not dead.

### Leader election

`LeaderElectionProofs` proves, for any set of processes, any `MaxEpoch` and any disturbances (`ElectionAssumption`: `None` and `Ghost`
are no processes), `ElectionTypeCorrect`, `FencingTokensDiffer` (`EpochsUnique`), `RenewingLeaderIsSafe` (`HealthyLeaderHoldsKey`),
`OwnerHasHighestToken` (`HolderHasHighestEpoch`) and the action property `TokensWrittenInOrder` (`HealthyWritesInOrder`);
and `OneWriter` (`SingleWriter`) under the assumption `Undisturbed` that "stall" and "redis_error" are not in `Disturbances`.
The inductive invariant `ElectionInv` adds to the properties:

- `EpochsCounted`: no process, and no write, has an epoch above the counter, so INCR gives a new one;
- `Roles`: a heartbeat belongs to a leader, and an acquisition to a process that is none;
- `AcquirerHoldsKey`: between SET and INCR the key is the process' own, or it lapsed;
- `HolderAboveWrites`: neither the last write nor one that has passed its verify has a higher epoch than the
  leader that owns the key. This carries
  `TokensWrittenInOrder`: a healthy leader owns the key by `HealthyLeaderHoldsKey`.

`OneWriter` adds `SteadyLeaders`: nobody lapsed, every leader's heartbeat runs, and a process past its verify is still leader. Then
each writer owns the key, and the key has one owner. Crashes are allowed: the dead process' transaction goes with it, and its key only
delays the successor. TLC violates `SingleWriter` with "stall" alone and with "redis_error" alone (`SplitBrain`).

### Subscriptions

`SubscriptionSystemProofs` proves, for any subscriptions, schedulers, clients, bodies the API accepts, cron expressions and
zones with any occurrences, any lookahead, threshold and bounds (`SubscriptionAssumption`: UTC is valid, and
there is a next occurrence after each instant up to the bound; `SchedulerAssumption`, `ApiAssumption` and `NeverAssumption` are types and distinctness):

- `SubscriptionsTypeCorrect`, inductive as it is;
- `JobsFollowRows` (`JobsFollowTheRow`) from `RowInv`: the rows a tick selected are locked by it, ACTIVE, and still what the SELECT read
  (`LockedRows`), and no step but a request makes a cancelled row ACTIVE (`ClosedIsNotActive`);
- `StraysAreFollowedOnce` (`AtMostOneStray`) with `StrayReturns`: after a job off the schedule the row is on it, or not
  ACTIVE until a request writes it, which starts the count again;
- `WindowsAreNotLost` (`NoWindowLost`) with `PassedAreOverrun`: an occurrence that has come while `next_fire_at` is still before
  it is in `overrun`. When a commit then advances `next_fire_at` from the present, it passes only such occurrences
  and the one it makes the job for (`NextOccurrenceIs`: the next occurrence passes over none);
- `TicksDoNotGoBack` (`TickNeverGoesBack`) with `NothingSkipped`: while a row follows its schedule, no occurrence between the
  present and `next_fire_at` is left out. The occurrence a commit seeks from the present is therefore not before
  `next_fire_at`, even when the lookahead selected the row ahead of time;
- `TicksAdvance` (`TickAdvances`) if `Lookahead` is 0, a value the setting accepts, with `SelectedSoon`: what a tick selected is no
  further ahead of the clock than the lookahead, since time only passes and the lock keeps `next_fire_at`
  in place. A commit takes an occurrence after the present, so only a row selected ahead of time can stay where it is.

### Only model-checked

The liveness properties (`JobsSettle`, `RunsEnd`, `DeposedStepDown`, `LeadershipRecovers`, `DueIsProcessed`), since
liveness under fairness and ENABLED are out of the prover's reach. Every safety property of a passing run is stated
by a theorem.

## 6. What is not modelled

Clock skew between workers and database, the content of payments, the order of a batch, row limits per tick (the
scheduler's 100, recovery's 50 and 100), the pool and its timeouts, tracing, metrics and logs. In the payment modules time is before or after
a deadline; in the subscription modules it is one clock for all hosts. `paused_at` and the audit columns are left out, as nothing reads them.

- Retry delays: the formula is floating point with random jitter, and no control depends on more than whether the delay has elapsed.
- Dead letter API: a check and an UPDATE of two columns that no other code acts on. The race is recorded in section 4.
- Job and health API and the GETs: they change nothing.
- A scheduler that finds more than 100 due rows takes the ones longest due first (ORDER BY `next_fire_at`), and the
  rest in later ticks; the model's tick takes all of them.

Migrations are not behaviour; they were read for the
constraints. (Revision 0004 names the down_revision "0003_updated_at_trigger"
while revision 0003 calls itself "0003": no module depends on it.)

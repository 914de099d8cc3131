# Fairlead: a TLA+ model of its job service and its proxy

Fairlead is a gateway in front of a set of model servers. It does two things: it
forwards OpenAI-style requests to backends (a reverse proxy with priorities,
circuit breakers, affinity and resource-aware selection), and it keeps a queue of
asynchronous jobs that workers pull, run and report, with callbacks to the
submitter. The second half holds durable state, spans two locks and a database, and
has to survive failed writes, restarts, dying workers and lost answers. The first half
keeps nothing on disk, but its requests share circuits, permits, reports and a map, and
act on what they read some awaits ago. This project models both.

## 1. Inventory

| Component | State | Operations | Interacts with |
|---|---|---|---|
| Job registry, `src/jobs.rs` | one `RwLock` around `next_id`, `jobs`, `idempotency_keys`, `order`, three `queues` | submit, cancel, claim, renew, complete, fail, sweep of expired leases, prune, three callback updates | writes its whole state to the store inside each method |
| SQLite store, `src/storage.rs` | one table: a row per job with its `queue_position` | replace the whole snapshot in one transaction; load it | called under the registry's lock; read at start-up |
| Worker registry, `src/workers.rs` | another `RwLock`: `in_flight_jobs`, capacity, job types, pool, draining, last heartbeat | register, heartbeat, acquire and release a slot, drain, reactivate, deregister | memory only |
| Scheduler, `src/scheduler.rs` and `cancel_job` in `src/jobs.rs` | none of its own; what a handler has read and not used yet | claim, renew, complete, fail, cancel handlers; lease recovery loop; pruning loop | takes the two locks one after the other |
| Callback delivery, `src/callbacks.rs` | `in_flight` set, spawned tasks | dispatch, deliver with retries, recovery loop | registry, external receiver |
| Scheduler preview, `src/scheduler.rs` | none | find the first queued job and its first candidate worker | reads both registries |
| Circuit breaker, health probe, `src/router/circuit.rs`, `backend.rs` | state and failure count per backend | is_available, record_success, record_failure, probe | proxy, probe task |
| Backend selection, `src/router/fallback.rs` | none | pick by origin, affinity, resource rank | circuits (it changes them) |
| Reverse proxy, `src/proxy/` | attempted backends of a request | forward with retries | limiter, affinity, circuits, resources |
| Affinity, priority limiter, resource registry | a map; three semaphores with gauges; reports with an age | record, acquire, report | proxy |
| Configuration, `src/config.rs`, `main` | the `Config` that the server runs with | read and check the environment, start the loops | gives every other part its limits, backends, pools and policy |
| Metrics, HTTP surface | counters; none | record an outcome, take snapshots; routing table, statuses | every handler |

What is hard here, and what has to be true:

* **Registry.** A method changes a job's status, a queue and the key map separately,
  then persists; a failed write is reported but *not rolled back*. Correct means:
  queues, leases and keys agree with the jobs at all times (`QueueConsistent`,
  `LeaseConsistent`, `KeysConsistent`), attempts are bounded, finished jobs stay
  finished (`TerminalFinal`), and what was acknowledged is never undone
  (`AcknowledgedKept`, `AttemptsNotForgotten`).
* **Store.** A restart rebuilds order, keys and the id counter from rows. Correct
  means it rebuilds what was committed (`StoreFaithful`, `QueueOrderKept`).
* **Worker registry and scheduler.** The slot and the lease live behind different
  locks, and handlers of several requests and the sweep interleave between them.
  Correct means the slot count agrees with the work (`SlotsCoverWork`,
  `NoPhantomSlots`) and so capacity is respected (`CapacityRespected`).
* **Callbacks.** Two dispatchers, lost answers, restarts, pruning. Correct means at
  least once, one outcome only, never pruned before (`PendingCallbackDelivered`,
  `ToldOutcomeIsFinal`, `PrunedAfterDelivery`).
* **Circuits.** Requests ask and report at different times, and so does the probe.
  Correct means a tripped circuit reopens at the first failure, however late the report
  (`TrippedRemembers`, `TrialFailureReopens`).
* **Proxy.** A request reads affinity, reports and circuits one after another, may be
  dropped at any await, and retries on what it read. Correct means it goes where the
  documented order sends it (`SentInPreferenceOrder`, `SentWhereItFits`), tries no
  backend twice and leaves none out (`NoBackendTriedTwice`, `GivesUpWhenExhausted`),
  and gives back its permit on every path (`RequestEnds`, `GaugeWithinLimit`), and that a
  backend that never answers holds nobody else (`OnlyBackendsDelay`); affinity
  stays within a workload (`AffinityServes`); and what it counts is what happened
  (`OutcomeTellsStory`, `OriginFallbackIsReal`).
* **Preview.** It searches by job, a claim by worker. Correct means both find the same
  job (`PreviewIsNextClaim`).
* **Configuration.** Three variables that refer to each other by name are parsed one
  after another, with defaults where one is missing. Correct means that what starts is
  closed (`ReferencesResolve`), that strict mode leaves nothing open
  (`StrictLeavesNothingOpen`), that defaults reach every backend
  (`DefaultPolicyReachesBackends`), and that no limit is zero where a loop or a lease needs
  one (the replayed tests, `ConfigTestsAgree`).

The `hazards` in `PROJECT.json` list these places line by line.

## 2. Modules

```
JobLifecycle ◁─ (implements) ─┐
JobQueues ── JobRegistry ─────┴┬── MCJobRegistry
                               ├── Callbacks ── MCCallbacks
                               └── Scheduler (with WorkerRegistry) ──┬── MCScheduler
   Text ────────────────────────── SchedulerApi ── MCSchedulerApi ───┘
     │                                  │
     │   Scenario ──┬── SchedulerTests ─┤
     │              ├── JobTests        ├── MCTests
     │              └── WorkerTests ────┘
     └── Config (with BackendSelection) ── ConfigTests ── MCConfig

CircuitBreaker ────────────────┬── Proxy ── MCProxy
BackendSelection ── Resources ─┘

proofs:
JobQueuesProofs ─┬─ JobRegistryProofs ── JobDurabilityProofs ─┐
                 │       ┌────────────────────────────────────┘
                 │       ├── CallbacksProofs (of Callbacks)
                 │       └── SchedulerProofs (of Scheduler) ── SchedulerApiProofs (of SchedulerApi)
                 ├── ConfigProofs (of Config)
                 └── ProxyProofs (of Proxy)
```

**JobQueues**: queues as sequences. `SortedBy` is the sort by `queue_position` in
`load_registry_snapshot`, `Without` is `JobQueues::remove`, `Ascending` the order in
which the sweep visits jobs, `Picked` a `filter` over a list.

**JobRegistry**: the registry and its store. Each method holds the write lock from
its first test to the end of `persist_locked`, so it is one action. The parameter
`ok` is the outcome of the transaction; when it is false the action keeps its change
in memory, leaves `store` alone and records no success answer, as the code does.
Methods that find nothing to do are stuttering steps, except the repeated forms
(`SubmitAgain`, `CancelAgain`, `CompleteAgain`, `FailAgain`), which answer with
success. `Restart` forgets the memory and runs `with_store_and_retention`.

| Variable | Code |
|---|---|
| `next_id`, `jobs`, `idempotency_keys`, `queues` | the fields of `JobRegistryInner` |
| `store` | the rows: `[jobs, queue_position]` |
| `now` | `unix_ms()`; `Tick`, and `ClockStepsBack` where the run allows it |
| `behind` | history: failed transactions since the last commit |
| `acked` | history: the last success answer about a job; that of a repeated call only if the last transaction committed |
| `granted` | history: the last attempt number a worker was given |

Left out: the list `order` (jobs are appended with the largest number so far and
never moved, so it is always the ascending order of numbers), timestamps that only
feed metrics, and the callback's counters and error texts. The number *n* stands for
the id `job-n`.

**JobLifecycle**: what the registry promises of each job, without queues, leases, keys
or rows: absent → queued → running → finished → absent, a bounded number of tries, and
what a crash can undo. `phase` and `tries` are what the process says, `saved` is what a
restart would begin with. A step may or may not become durable, but one that does makes
all earlier ones durable, so a crash never keeps a later step and loses an earlier one.
`JobRegistry!Life` maps `phase` and `tries` to the table in memory and `saved` to the
rows.

**WorkerRegistry**: one action per method. A heartbeat's age uses `Instant`, which
nothing else does, so a worker simply may become stale at any time.

**Scheduler**: a handler is a record of its operation and next step. Steps are the
code's critical sections: check the worker, sweep, release slots one at a time,
acquire, claim or apply, release. Anything may happen between two steps. `Disconnect`
drops a handler at a step it awaits, as the HTTP server does when the client goes
away; the recovery loop has no client and is never dropped. Two history variables make
the slot invariants exact although the code does lose slots: `leaked` counts those that
dropped handlers never gave back, and `reloaded` those that a restart lost: one for each
lease that it reloaded, less one for each `release_slot` since then that found no slot
taken. A report about a job that does not exist is left out: it sweeps, as the recovery loop
does, and is answered with 404.

**SchedulerApi**: what the endpoints answer, as functions of the state: the result of each
registry method, the HTTP status it becomes, the validation of submissions and
registrations, the snapshots that `/metrics` reads, the preview, and the counts of
candidates and blocked jobs. Text that users send is a word with or without space around
it (**Text**), so that what is trimmed and what is not can be told apart.

**Scenario**, **SchedulerTests**, **JobTests**, **WorkerTests**: the repository's own
tests as sequences of calls with the expected answers, under the names they have in the
Rust files. `Scenario` makes each call an action of the model, step by step through the
handlers, and compares the answer that `SchedulerApi` predicts. This is the check that the
model says what the code says, where the authors of the code said it themselves.

**Config**: an environment is a function on the variables that are set; `Start` is
`Config::from_env` and `main`: either a set of complaints or a running server with its
configuration and loops. The checks are in the code's order; JSON is taken after parsing.
**ConfigTests** are the unit tests of `config.rs` as cases.

**Callbacks**: handlers and the recovery loop put jobs into `dispatching` and
`recovering`; `Dispatch` is the dispatcher; a task goes begin → post → record and
around again up to `max_attempts`. The receiver is external: it may handle a POST
whose answer is lost (`PostFails` with `Handled`).

**CircuitBreaker**: a circuit as a record, and what each method answers and leaves. The
cooldown is measured with `Instant`, which nothing else reads, so an open circuit may
become `cooled` at any time; the failure count stops at the threshold, beyond which it
is only compared.

**BackendSelection**: `Plan` is what `select_backend_for_route` is going to ask: one walk
for each pool, and a walk is the three groups of candidates of
`select_backend_excluding_resource` (origin node, affinity, the rest). `IsNext` says whose
turn it is, `StrikeOut` takes out who was asked, and `BestOf` is the `min_by` at the end of
a group.
`PreferredTo` states the documented order as a relation, independently of the walk.

**Resources**: reports by node and backend. A report's age is measured with `Instant` and
only compared with the limit, so the model keeps the fresh ones and `GoesStale` drops one
at any time.

**Proxy**: `forward` as a process per request.

| `pc` | Code |
|---|---|
| `count` | `try_acquire` between the semaphore and the gauge |
| `affinity` | `SessionAffinity::preferred` |
| `report`, `node_report` | the loop of `resource_selection_state` and the two reads of `fresh_backend_report` |
| `ask` | one `is_available` under its lock; `plan` holds who is still to be asked |
| `post` | the POST; `Succeeds` and `Fails` are the backend |
| `failed`, `succeeded` | waiting for the circuit's lock to record the outcome |
| `remember` | `SessionAffinity::record` |
| `give_up` | the selection returned `None`: 503, 502 or the last backend's own 5xx |
| `stream` | the response body, which owns the permit |
| `drop`, `release` | `PriorityPermit` is dropped: first the gauge, then the semaphore |

An answered request keeps, as history, the `outcome` that `record_request` counts and to
how many backends it was `sent`; `FallbackReason` is what `record_fallback` counts when a
backend is selected. `tried`, `refused` and `on_trial` are history too. `ClientLeaves` drops a request at any
await. A request without a permit (429), with an invalid priority (400) or without any
backend configured (503) changes nothing and is no action. Probes appear as
`ProbeRecords` with either result.

The `MC*` modules hold the request sets, worker profiles and the symmetry of handlers.

## 3. Runs and bounds

| Run | Bounds | Shows |
|---|---|---|
| `registry_faults` | 2 jobs, 1 worker, 2 attempts, clock 0..1, two failed transactions in a row | types, queues, leases, acknowledged work, attempts, finality |
| `registry_keys` | 2 jobs, 1 key, callbacks, clock 0..1 that may step back, one failed transaction in a row; jobs end by cancellation or expiry | key map and id counter; liveness of lease recovery |
| `registry_queues` | 3 jobs, 2 priorities, 2 kinds, a worker that can run one or both | exact restore, order kept, claims in order |
| `scheduler` | 2 handlers, 2 jobs, 2 attempts, 1 worker with 1 slot, clock 0..2, restarts, clients may vanish | the slot count is exact; capacity |
| `scheduler_preview` | 1 handler, 2 jobs, 2 workers, 2 pools, 2 kinds, 2 priorities, a policy for one kind | the preview is the next claim |
| `callbacks` | 1 job, 2 tasks, 2 callback attempts, 2 failed transactions in a row, 1 restart | one final outcome; no early pruning; liveness of delivery |
| `proxy_concurrency` | 2 requests, 2 backends, 2 workloads of one thread, one permit for each of 2 priorities, threshold 2, clients may vanish | gauge, affinity, circuits, no second try, true fallback reasons; liveness of requests |
| `proxy_selection` | 1 request, 2 backends in 2 pools on 2 nodes, 1 backend report and 1 node report, 2 sizes, 2 loads, threshold 1 | order of selection by pool, origin node, affinity and rank; memory; exhaustion; true outcomes |
| `config` | about 38,000 environments: up to 2 backends and 2 declared pools of 5 spellings, 2 spellings of a workload, strict or not; every number at zero and at its width; the unit tests | what starts is closed and reachable; the tests of `config.rs` pass |
| `repository_tests` | 120 tests, one at a time, 3 workers, up to 6 jobs | the tests of `scheduler.rs`, `jobs.rs` and `workers.rs` pass |

Why these are enough to meet the interesting cases: two jobs in one queue are needed
for order and for the loss of a neighbour, a third for a requeue between two others;
two attempts make one retry and one exhaustion; a clock of two values makes a lease
expire, and a step back makes an expired one valid again before the sweep sees it. One failed transaction leaves
memory and rows apart, and a second one leaves them two changes apart. Two handlers
are the smallest interleaving, and every slot step involves at most two of them; one
worker suffices because workers share nothing but the job queue. In `scheduler` the
clock has three values, so that both attempts of a job can expire, and workers report that
attempt 1 is complete, in time or when attempt 2 is already running; a failure report gives
its slot back by the same step, and its requeue is that of an expired lease. Failure
reports, retryable or not, are part of `scheduler_preview`. `MaxPruned = 1` makes
pruning stop at its limit when two jobs are due. Every bound is a named constant.

One request is enough for the order of selection: what other requests do to it goes
through circuits, affinity and reports, which the probes and reports of the model change
at any time anyway; threshold 1 makes every circuit trip at once there. What the failure
count is for only shows above 1, where one failure opens a half-open circuit and not a
closed one: `proxy_concurrency` has threshold 2, and the late report of one request can meet
the trial of the other. The theorems about circuits hold for every threshold. In `proxy_selection` chats need no
memory, so that backends of different sizes are ranked, and embeddings need some and have
pools, so that reports are refused and a second pool is asked.

Two runs expect a violation; each states what the documentation says:

* `scheduler_store_failure`: a report or cancel whose write fails finishes the job in
  memory and skips `release_slot`; the slot is lost until Fairlead restarts.
* `proxy_one_trial`: the comments promise that one request gets through a half-open
  circuit. `is_available` answers `true` to every caller until one of them reports.

Correspondingly `scheduler` runs without failed transactions. The slots of dropped
handlers and those that a restart lost are accounted for by name (`leaked`,
`reloaded`): the worker registry is not persisted, so a worker that registers again after
a restart starts from zero while its recovered lease runs, and may then hold as many jobs
more than its limit. That can outlast the recovered lease: its release takes the slot of
another job off the count if one is taken. `CapacityRespected` also assumes what the run's single profile per worker
gives: that a worker does not lower its own limit while it is busy.

### Known disagreements without a run

Met while modelling; the first three are definitions of the model that TLC violates when
they are added to the named configuration.

* `JobIdNotReused` (a PROPERTY of `JobRegistryFaults.cfg`): the roadmap promises that the
  next job id is preserved across a restart ("Preserve list order, priority/FIFO queue
  order, and next job ID after restart", `docs/planning/roadmap.md:761`). It is recomputed
  from the rows (`storage.rs:116`), so the id of the newest job is given out again once
  that job has been pruned.
* `RepeatedAnswerKept` (an INVARIANT of `JobRegistryFaults.cfg`): a retry after a failed
  write is answered with success from memory, without a write (`jobs.rs:352`); a restart
  loses the job or the outcome, although `README.md:264` calls retries safe. All other
  answers do hold (`AcknowledgedKept`).
* `PreviewedWorkerCanClaim` (an INVARIANT of `SchedulerPreview.cfg`):
  `docs/planning/design.md:78` says that the preview shows which worker "would match
  next"; `can_accept_work` does not look at its slots, so it may be one whose claim is
  refused.
* A backend's pool is validated without the space around it but kept with it
  (`config.rs:617`, `:175`), so a backend with a padded pool passes every check and is
  never routed to. `DefaultPolicyReachesBackends` excepts it.
* The pools derived from backends are sorted by name (`config.rs:519`), and without a
  policy every workload prefers pools in that order, before origin node and affinity;
  `docs/implementation/code_walkthrough.md:993` describes the order within one pool only.
* Workload names that differ only in surrounding space overwrite each other, the last one
  winning (`config.rs:688`); backend ids are compared with it. `LOG_FORMAT` and
  `RESOURCE_AWARE_ROUTING` are not trimmed, while the `STRICT_` flags are.
* `HEALTH_PROBE_INTERVAL_SECS=0` is accepted, and `tokio::time::interval` panics on it
  (`router/backend.rs:317`), which ends the probe task.
* `fairlead_retries_total` ("Same-request retry attempts") also counts the last failed
  attempt, after which nothing is tried; `affinity_unavailable` is counted as well when
  the origin node took precedence over an affinity backend that was available.

### Fairness

* `registry_keys`: weak fairness of the sweep. `spawn_lease_recovery_loop` sleeps
  and sweeps forever; a failing transaction does not stop it.
* `callbacks`: weak fairness of the recovery loop (scan and each dispatch)
  and of the tasks: both are spawned tokio tasks that run on. Strong fairness of
  `PostAccepted`: a receiver that is asked again and again eventually answers in time.
  Strong fairness of a delivery's first write with a committing transaction: the database
  does not fail every time. Both are assumptions about the outside; README.md of Fairlead
  promises delivery "until a 2xx response is recorded". Nothing is assumed of request handlers, which
  may be dropped, or of workers. The property is about callbacks that are on disk: one
  whose job was never committed is lost with the process.
* `proxy_concurrency`: weak fairness of a handler's own steps, and of nothing else: the
  POST has no timeout. `OnlyBackendsDelay` needs no more. That requests end (`RequestEnds`)
  is conditional: the premise, stated in the property, is that the backends this request is
  sent to answer or fail and its body ends; the other's need not. It is checked of one
  request, since requests differ only in their names. Clients may go away but are not
  assumed to.

No liveness is claimed of the scheduler: a worker need not ask for work.

### Refinement

`registry_faults` also checks `ImplementsLifecycle`: with failed transactions and restarts
anywhere, every step of the registry is a step of `JobLifecycle` or leaves it alone. In
particular a restart loses exactly what was not committed, and no commit keeps a change
while it misses an earlier one, although every method writes on its own. The refinement is
also proved (`RegistryImplementsLifecycle`, section 4).

### The repository's tests

167 of the repository's tests are replayed: 46 of `scheduler.rs`, 52 of `jobs.rs`, 22 of
`workers.rs` (`repository_tests`) and 47 of `config.rs` (`config`). Not replayed are

* of `scheduler.rs`: the tests of callback delivery over a socket (lines 1785 to 2346 and
  2406 to 2446; their subject is `Callbacks`) and
  `job_pruning_loop_removes_terminal_jobs_and_records_metrics`;
* of `jobs.rs`: `requeue_expired_leases_ignores_fresh_and_terminal_jobs`,
  `prune_terminal_jobs_removes_only_eligible_terminal_jobs`,
  `prune_endpoint_returns_report_and_records_metrics` (they age jobs by hand or change the
  lease duration within a test) and `invalid_submit_job_payloads_return_client_errors`
  (JSON);
* of `workers.rs`: `heartbeat_refreshes_registered_worker` (timestamps);
* of `config.rs`: the five about letter case, priorities, routes and
  `BackendPoolPolicy`, which is never given a pool outside its test;
* the tests of `proxy/`, `router/`, `storage.rs`, `resources.rs`, `callbacks.rs`,
  `metrics.rs` and the other small files.

A test's database, worker names, payloads and policy become the model's constants; where a
test uses a policy of its own, a pool of the one common policy that treats the worker the
same way stands for it.

### Mutants

Every property has a mutant: a definition that changes one mapped operator the way a
plausible bug would (the boundary of expiry, one job above the capacity, queues rebuilt in
submission order, a dropped check of `persist_locked`), under which its run fails.

## 4. Proofs

Eight modules hold theorems that TLAPS checks. They hold for all values of the constants
that satisfy the named assumptions; TLC evaluates these in every run.

| Module | Theorem | Property |
|---|---|---|
| `JobRegistryProofs` | `TypeCorrect` | `TypeOK` |
| | `InvariantHolds` | the inductive invariant `IInv` |
| | `QueuesCorrect` | `QueueConsistent` |
| | `LeasesCorrect` | `LeaseConsistent` |
| | `KeysCorrect` | `KeysConsistent` |
| | `IdsCorrect` | `IdsBelowNext` |
| `JobDurabilityProofs` | `AttemptsRemembered` | `AttemptsNotForgotten` |
| | `AnswersHonoured` | `AcknowledgedKept` |
| | `RestartRebuilds` | `StoreFaithful` |
| | `FinishedStaysFinished` | `TerminalFinal` |
| | `QueuesKeepOrder` | `QueueOrderKept` |
| | `ClaimsTakeTheFirst` | `ClaimsInOrder` |
| | `RegistryImplementsLifecycle` | `ImplementsLifecycle` |
| `CallbacksProofs` | `RegistryUnderDelivery` | `IInv`, under delivery |
| | `DeliveryImplementsLifecycle` | `ImplementsLifecycle`, under delivery |
| | `DeliveryKeepsAnswers` | `AcknowledgedKept`, `AttemptsNotForgotten`, `StoreFaithful`, under delivery |
| | `DeliveredOutcomesStay` | `TerminalFinal`, under delivery |
| | `DeliveryTypeCorrect` | `CallbacksTypeOK` |
| | `DeliveriesExclusive` | `OneDeliveryAtATime` |
| | `OutcomesToldAreFinal` | `ToldOutcomeIsFinal` |
| | `PrunedOnlyDelivered` | `PrunedAfterDelivery` |
| `SchedulerProofs` | `RegistryUnderScheduling` | `IInv`, under the scheduler |
| | `SchedulerImplementsLifecycle` | `ImplementsLifecycle`, under the scheduler |
| | `SchedulerKeepsAnswers` | `AcknowledgedKept`, `AttemptsNotForgotten`, `StoreFaithful`, under the scheduler |
| | `SchedulerClaimsInOrder` | `ClaimsInOrder`, under the scheduler |
| | `SchedulerKeepsOrder` | `QueueOrderKept` and `TerminalFinal`, under the scheduler |
| | `EveryLeaseHasItsSlot` | `SlotsCoverWork`, if `MaxBehind = 0` |
| | `NoSlotIsLost` | `NoPhantomSlots`, if `MaxBehind = 0` |
| | `CapacityIsRespected` | `CapacityRespected`, if `MaxBehind = 0` and all profiles declare the same limit |
| | `NeverOverbooked` | `in_flight_jobs` within the limit, if all profiles declare the same one |
| `SchedulerApiProofs` | `PreviewAgrees` | `PreviewIsNextClaim` |
| `ConfigProofs` | `StartsClosed` | `ReferencesResolve` |
| | `StrictIsStrict` | `StrictLeavesNothingOpen` |
| | `DefaultPolicyReachesAll` | `DefaultPolicyReachesBackends` |
| `ProxyProofs` | `CircuitsRemember` | `TrippedRemembers` |
| | `TrialsDecide` | `TrialFailureReopens` |
| | `RequestsInvariant` | the inductive invariant `RequestInv` |
| | `SelectsInOrder` | `SentInPreferenceOrder` |
| | `GivesUpLast` | `GivesUpWhenExhausted` |
| | `SendsWhereItFits` | `SentWhereItFits` |
| | `AffinityIsServed` | `AffinityServes` |
| | `OutcomesAreTrue` | `OutcomeTellsStory` |
| | `OriginBlamedRightly` | `OriginFallbackIsReal` |
| | `NeverTriedTwice` | `NoBackendTriedTwice` |
| | `CountersInvariant` | permits and gauge count their requests, `CounterInv` |
| | `GaugeBounded` | `GaugeWithinLimit` |
| | `ProxyTypeCorrect` | `ProxyTypeOK` |

`JobQueuesProofs` holds the theorems about sequences that the others cite.

*Assumptions.* Of the registry: requests are well-formed, `None` is neither a key nor a
lease, reported attempts are numbers or absent, the limits are natural numbers and
`MaxAttempts` is positive. Of the scheduler: profiles are well-formed, and finitely many
handlers run at a time. Of callbacks: `max_attempts` is positive. Of the proxy: backends
and pools of a workload are lists, sizes and loads are numbers (or absent), finitely many
requests are in progress, and limits and the threshold are natural numbers. Of the preview:
`WorkerOrder` lists the workers, each one once, and `None` is not a pair of a job and a
worker. Of the configuration (`CasesAssumption`): what JSON leaves are lists, the pool of a
backend is a text, and `PoolNames`, which stands for the order of strings, has the name of
every pool that a backend may be in. Nothing is assumed of what the lists say: names may be
blank, padded, repeated or unknown, which is what validation is for.

### The job registry

*The invariant.* `IInv` is the conjunction of `TypeOK`, `QueueConsistent`,
`LeaseConsistent`, `KeysConsistent` and `IdsBelowNext`. None of the parts is inductive
alone. A claim must know that the entry it takes is queued and has an attempt left; a
submit must know that the number `next_id + 1` is unused, or it would overwrite a
job's key and queue entry; a restart reads the rows, so leases and keys are stated of
the rows too. The rows need no separate statement of the queues, because
`LoadQueues` rebuilds them from status and priority alone.

*The argument.* `RecordTypes` and `RecordEffects` say what the operators on one job
return and leave alone. `StepEffects` then shows that every step other than a restart
has one of a few effects: answers only, rows saved, one job moves (`JobMoves`, which
says what it may become and what is answered), one arrives, expired jobs are swept,
finished jobs are pruned. `StoreShape` shows that the rows stay or become the jobs in
memory. Each property is proved once per effect, instead of once per action. The lemmas
are about `[Step]_vars`, which also allows a claim for any set of kinds, so that the
scheduler, which computes the kinds of a claim, can use them.

*Durability.* `AcknowledgedKept` and `AttemptsNotForgotten` speak of memory, but a
restart may come at any moment and replaces memory by rows. Inductive are `AnswersKept`
and `GrantsKept`, the same statements of both tables: an answer is only given when the
transaction committed, so it holds of the rows at once. For a repeated answer that needs
`StoreFaithful`: with the last transaction committed, memory and rows agree. `RestartRebuilds` needs the order:
a snapshot stores the position of each job in its queue, and `SortedByOwnOrder` says that
sorting by the positions in a list without repetitions gives back the list.
`QueuesKeepOrder` uses `WithoutKeepsOrder` and that sweeps and requeues append at the end.

*Refinement.* The mapping takes `phase` and `tries` from the table in memory and `saved`
from the rows. Each effect is mapped to one step of `JobLifecycle`: a submission to `Enter`,
a move to `Start`, `Report` or `Withdraw`, the sweep to `TimeOut`, a prune to `Forget`, rows
saved to `Save`, a restart to `Crash`; `Persist(ok)` decides whether the step is durable.

*Drivers.* `DurableInv` is `IInv` with `AnswersKept`, `GrantsKept` and `StoreFaithful`. All of
the above is proved of `AnyDriver`, the initial state and `[][Step]_vars`: the registry's
methods called by anybody, in any order, at any time. The registry's own specification, the
scheduler (`SchedulerIsDriver`) and callback delivery (`DeliveryIsDriver`) are drivers, so
each guarantee of the registry, the refinement included, holds of the compositions too,
where the calls come from handlers and tasks that act on what they read some steps ago.

### Callback delivery

`RegistryUnderDelivery` carries `IInv` over to `CallbacksSpec`, whose registry steps are
steps of the registry. `DeliveriesExclusive` needs that the job of every task is in
`in_flight` (`TasksInOrder`), where the dispatcher looks before it spawns another.
`ToldInv` is the strengthening for the other
two: what was received, what a task is about to post and what is marked as delivered agree
with the status in memory *and* in the rows. The posts agree because a task only posts after
its own transaction committed; a status that both tables show as finished is never undone.
`RowsBelowNext` is there for the reuse of numbers: what was told about a pruned job must not
be held against the new job with its number.

### The scheduler

The properties are sums over jobs, handlers and lists: running jobs of a worker, handlers
between acquire and claim, entries of release lists, leaked slots. `SlotStep(w)` is the one
fact about each step but a release: the work of `w` and its `in_flight_jobs` stay, or both
grow by one. A release is `SlotFreed(w)`: both shrink by one, `in_flight_jobs` not below
zero, where `reloaded` shrinks instead. It is proved from balances, each about
one part: `OneJob` (the running jobs of a worker change by the job that changed),
`SweepBalances` (a sweep takes from a worker as many jobs as the list of released workers
names it), `OneHandler` (the slots that handlers hold change by those of the handler that
moved), `TailOwed` (a list shrinks by its head). Each action is one of these against the
other: a sweep, report or cancellation moves a slot from a job to a list, a claim from the
handler to a job, a disconnect from the handler to `leaked`; only `AcquireSlot` and
`Release` move `in_flight_jobs`. A restart starts again with `in_flight_jobs` at zero and
every reloaded lease in `reloaded`.

`SlotsMatch` is the inductive invariant that follows: `in_flight_jobs` and `reloaded`
together are the work. It needs `IInv`, because the sweep and
`cancel_job` take the worker to release from the lease.

The hypothesis `MaxBehind = 0` says that no transaction fails, and both halves of the match
need it. A report whose transaction fails keeps the slot of a job that is over, which is the
finding of `scheduler_store_failure`; a claim whose transaction fails gives its slot back
(`scheduler.rs:88`) while the job stays leased in memory until the sweep, so that
`SlotsCoverWork` fails too when it is added to that configuration. The worker was never told
of that lease. `NeverOverbooked` has no such hypothesis: the number that
`try_acquire_slot` compares stays within the limit in any case. `CapacityRespected`
is also false when a busy worker registers again with a lower limit; the hypothesis
`OneLimit` excludes that. `RegistryUnderScheduling` needs neither.

### The proxy

*Circuits.* The inductive invariant `CircuitInv` is about the circuits alone, so no step of
a request needs more than which circuit it touches. `CircuitEffects` says what the operators
make of a circuit that remembers its failures, `StepOfOneCircuit` that every step applies
at most one of them to one circuit. `TrialsDecide` needs `CircuitsRemember`:
`record_failure` does not look at the state, so a half-open circuit opens at the first
failure only because its count still stands at the threshold.

*Requests.* A request is a process of its own that others only reach through circuits,
affinity and reports, so `RequestInv` is a predicate on one request, `RequestOK`, by `pc`:
what was examined has a rank or is ineligible (`Examined`), retries remember what they
tried (`Remembered`), and during a selection (`SelectionOK`) whoever is no longer in the
plan was found available or refused, a group is asked only when nobody is left of the
earlier ones, and the available ones belong to the group that is being asked. TLC checked these predicates before they were proved. Together with two
facts about the operators they give the order of selection: the rank order is total and
`BestOf` is its least element (a finite nonempty set has one), and a backend's place in the
plan is its `PoolPosition` and `Closeness`. A pool may be listed twice: the second walk
only asks again who refused in the first. `OriginFallbackIsReal` is a consequence of the order.

*Counters.* Semaphore and gauge change one after the other. `CounterInv` says that the
permits are the limit minus the accepted requests and the gauge is the number of counted
ones, for each priority; since the counted are among the accepted, the gauge is within the
limit.

### The preview

The preview walks the jobs of all queues in one list and asks for each one which worker could
take it; a claim walks the queues for one worker. `QueuedJobsLists` says at which place of
the list the `i`-th job of a priority stands: after those of the more urgent queues
(`Before(p)`), because under `IInv` every entry of a queue is a queued job, so that the filter
in `queued_jobs_by_priority` drops nothing (`PickedAll`). `EarlierIsBetter` then says that
the smaller place is the one `FirstClaimable` prefers. `ClaimableIsCandidate` relates the two
tests of a worker; they differ in `BelowCapacity`, which the property names.

### Configuration

The server is started once, so the invariant `ConfigInv` says only that a running server has
the configuration that `from_lookup` computed from an environment without complaints. The
argument is about the operators: `SortedPools` (sorting and `dedup` give a list without
repetitions of the same pools), `PoolsChecked` and `PolicyChecked` (what the absence of each
complaint means of the parsed value), `LastEntry` (a name that is given twice has a last
entry, which is the one that wins).

### Only model-checked

* All liveness (`ExpiredLeaseTakenBack`, `PendingCallbackDelivered`, `OnlyBackendsDelay`,
  `RequestEnds`): fairness and `ENABLED` are outside what the prover handles.
* The replayed tests (`TestsAgree`, `ConfigTestsAgree`): finite cases, for which TLC is the
  right tool.

Every other property of a passing run is stated by a theorem.

## 5. Not modelled

* The in-memory mode (`JOB_STORE=memory`): the model is the SQLite mode, in which
  persisting can fail and restarts keep state.
* Corrupt or hand-edited databases, and rows that fail to parse: loading then fails and
  Fairlead does not start.
* JSON syntax and letter case of requests and of the environment; the log level.
* Counters, latencies, durations and the text of `/metrics`, logging, health and the model
  listing: no decision reads them. Outcome and fallback reason are modelled where they
  are computed (`Proxy`), snapshots in `SchedulerApi`.
* The preview's two reads happen at one moment in the model.
* The probe's own timing: a probe records success or failure of a backend at any time.
* Of the proxy: bodies, headers, candidate counts, the messages of answers, and the
  backend without a node under resource routing, which is in the model
  (`ReadBackendReport`) but in no run with `ResourceAware`.

The map names about 3,500 of the 6,200 lines of program, and in addition the 5,950 lines of
tests (of 12,000) that the scripts replay. What it leaves out of the program is mostly the
text output of `metrics.rs`, type and label declarations, logging and JSON.

## 6. What could follow

Modelled, checked and proved are the job service (registry, store, worker registry,
scheduler, callbacks, preview, answers), its abstract life cycle and the refinement, the
proxy (circuits, selection, resources, limiter, affinity, `forward`) and the configuration.
What is open:

* `SlotsCoverWork` and `NoPhantomSlots` with failed transactions, once the code gives back or
  keeps a slot together with its job.
* Liveness of a claim under a worker that keeps asking, which the code does not promise
  between priorities: background jobs may wait for as long as more urgent ones arrive.
* The in-memory mode and the preview's two reads as separate steps.

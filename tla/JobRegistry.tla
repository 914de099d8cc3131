------------------------------ MODULE JobRegistry ------------------------------
(***************************************************************************)
(* The async job registry of Fairlead (src/jobs.rs) with its SQLite store *)
(* (src/storage.rs).                                                       *)
(*                                                                         *)
(* JobRegistry keeps its whole state behind one RwLock.  Every method that *)
(* changes it holds the write lock from its first test to the end of       *)
(* persist_locked, so each method is one action here.  persist_locked      *)
(* rewrites the complete snapshot in one SQLite transaction; the parameter *)
(* ok of an action says whether that transaction committed.  When it did   *)
(* not, the method answers with an error but keeps what it changed in      *)
(* memory.  Early returns that change nothing are stuttering steps.        *)
(*                                                                         *)
(* Abstractions: the number n stands for the id "job-n"; the registry's    *)
(* `order' list is left out, since jobs are appended to it with the        *)
(* largest number so far and nothing reorders it, so it is always the jobs *)
(* in ascending order; timestamps and counters that only feed metrics      *)
(* (created_at, claimed_at, the callback's attempt count, last error and   *)
(* last HTTP status) are left out.  The model is the JOB_STORE=sqlite mode.*)
(***************************************************************************)
EXTENDS JobQueues

CONSTANTS
    Requests,       \* SubmitJobRequest values, each [kind, priority, payload, callback_url]
    Kinds,          \* JobKind
    Payloads,       \* job payloads
    Urls,           \* callback URLs
    Keys,           \* idempotency keys
    Workers,        \* worker ids
    KindSets,       \* the sets of kinds that a claiming worker may be allowed to run
    Results,        \* results that workers report
    Messages,       \* failure messages that workers report
    None,           \* Option::None
    ReportedAttempts, \* bound: the attempts that a worker's report may name
    MaxAttempts,    \* max_attempts of every job (3 in the code)
    LeaseDuration,  \* lease_duration_ms
    Retention,      \* terminal_retention_ms
    MaxPruned,      \* max_pruned_jobs
    MaxJobs,        \* bound: numbers given to jobs
    MaxTime,        \* bound: the clock
    MaxBehind,      \* bound: transactions that may fail in a row
    ClockMayStepBack \* bound: whether the wall clock can be set back

\* Priority, in the order in which JobQueues::iter visits the queues.
Priorities == {"realtime", "batch", "background"}
PriorityRank == [realtime |-> 0, batch |-> 1, background |-> 2]

SubmitRequest == [kind : Kinds, priority : Priorities, payload : Payloads,
                  callback_url : Urls \cup {None}]

ASSUME RequestsAssumption == Requests \subseteq SubmitRequest
ASSUME KeysAssumption == None \notin Keys
ASSUME ReportedAttemptsAssumption == ReportedAttempts \subseteq Nat \cup {None}
ASSUME KindSetsAssumption == KindSets \subseteq SUBSET Kinds
ASSUME BoundsAssumption ==
    /\ MaxAttempts \in Nat \ {0}
    /\ LeaseDuration \in Nat
    /\ Retention \in Nat
    /\ MaxPruned \in Nat
    /\ MaxJobs \in Nat
    /\ MaxTime \in Nat
    /\ MaxBehind \in Nat
    /\ ClockMayStepBack \in BOOLEAN

VARIABLES
    next_id,            \* JobRegistryInner.next_id
    jobs,               \* JobRegistryInner.jobs
    idempotency_keys,   \* JobRegistryInner.idempotency_keys
    queues,             \* JobRegistryInner.queues
    store,              \* the rows of the SQLite table
    now,                \* unix_ms(): SystemTime, the wall clock
    behind,             \* history: how many transactions failed since the last commit
    acked,              \* history: the last success answer given about a job
    granted             \* history: the last attempt of a job handed to a worker

registryVars == <<next_id, jobs, idempotency_keys, queues>>
historyVars == <<behind, acked, granted>>
vars == <<next_id, jobs, idempotency_keys, queues, store, now, behind, acked, granted>>

--------------------------------------------------------------------------------
(* Types *)

JobIds == 1..MaxJobs
JobStatus == {"queued", "running", "complete", "failed", "cancelled"}
Terminal == {"complete", "failed", "cancelled"}     \* JobStatus::is_terminal
AttemptTimeout == "attempt timed out"
JobFailure == [message : Messages \cup {AttemptTimeout}, retryable : BOOLEAN]
Reported == [message : Messages, retryable : BOOLEAN]
JobLease == [worker_id : Workers, attempt : Nat, expires_at : Nat]
TerminalAttempt == [worker_id : Workers, attempt : Nat]
CallbackStatus == {"none", "pending", "delivered"}

\* Option::None is not a lease.
ASSUME LeaseAssumption == None \notin JobLease

JobRecord ==
    [request : Requests, idempotency_key : Keys \cup {None}, status : JobStatus,
     result : Results \cup {None}, error : JobFailure \cup {None},
     callback : CallbackStatus, attempts : Nat,
     lease : JobLease \cup {None}, terminal_attempt : TerminalAttempt \cup {None},
     updated_at : Nat]

Ack == {"none", "accepted", "complete", "failed", "cancelled", "pruned"}

JobTable(js) == DOMAIN js \subseteq JobIds /\ js \in [DOMAIN js -> JobRecord]

TypeOK ==
    /\ next_id \in 0..MaxJobs
    /\ JobTable(jobs)
    /\ DOMAIN idempotency_keys \subseteq Keys
    /\ idempotency_keys \in [DOMAIN idempotency_keys -> JobIds]
    /\ queues \in [Priorities -> Seq(JobIds)]
    /\ DOMAIN store = {"jobs", "queue_position"}
    /\ JobTable(store.jobs)
    /\ store.queue_position \in [DOMAIN store.jobs -> Nat]
    /\ now \in Nat
    /\ behind \in 0..MaxBehind
    /\ acked \in [JobIds -> Ack]
    /\ granted \in [JobIds -> Nat]

--------------------------------------------------------------------------------
(* The SQLite store *)

\* The priority of a job.
PriorityOf(job) == job.request.priority

\* The value a NULL queue_position is read back as (unwrap_or(i64::MAX)).
NoPosition == MaxJobs

\* queue_positions: where each job stands in the queue that holds it.
QueuePositions(js, qs) ==
    [id \in DOMAIN js |->
        IF \E p \in Priorities : id \in Members(qs[p])
        THEN Position(qs[CHOOSE p \in Priorities : id \in Members(qs[p])], id) - 1
        ELSE NoPosition]

\* replace_registry_snapshot: one row per job, with its place in its queue.
Snapshot(js, qs) == [jobs |-> js, queue_position |-> QueuePositions(js, qs)]

\* The jobs of table js that wait with priority p.
Waiting(js, p) == {id \in DOMAIN js : js[id].status = "queued" /\ PriorityOf(js[id]) = p}

\* Mutant: the queues are rebuilt in submission order.
LoadQueuesById(rows) == [p \in Priorities |-> Ascending(Waiting(rows.jobs, p))]

\* load_registry_snapshot: the queued jobs of a priority, sorted by queue_position.
LoadQueues(rows) ==
    [p \in Priorities |->
        SortedBy(Waiting(rows.jobs, p),
                 [id \in Waiting(rows.jobs, p) |-> rows.queue_position[id]])]

\* Mutant: the rows without a key are not filtered out.
LoadKeysUnfiltered(rows) ==
    [key \in {rows.jobs[id].idempotency_key : id \in DOMAIN rows.jobs} |->
        CHOOSE id \in DOMAIN rows.jobs : rows.jobs[id].idempotency_key = key]

\* load_registry_snapshot: the key map is collected from the jobs.
LoadKeys(rows) ==
    [key \in {rows.jobs[id].idempotency_key : id \in DOMAIN rows.jobs} \ {None} |->
        CHOOSE id \in DOMAIN rows.jobs : rows.jobs[id].idempotency_key = key]

\* Mutant: next_id is the number of rows.
LoadNextIdCounting(rows) == Cardinality(DOMAIN rows.jobs)

\* load_registry_snapshot: next_id is the largest number among the rows.
LoadNextId(rows) ==
    IF DOMAIN rows.jobs = {} THEN 0
    ELSE CHOOSE id \in DOMAIN rows.jobs : \A other \in DOMAIN rows.jobs : other <= id

\* persist_locked.
Persist(ok) ==
    /\ store' = IF ok THEN Snapshot(jobs', queues') ELSE store
    /\ behind' = IF ok THEN 0 ELSE behind + 1

Outcomes == IF behind < MaxBehind THEN BOOLEAN ELSE {TRUE}

--------------------------------------------------------------------------------
(* History: what callers and workers have been told *)

\* A success answer about job id, given by the call that did the work.
Answered(id, state) == acked' = [acked EXCEPT ![id] = state]

\* A success answer given by a repeated call that found the work done.  It is not taken
\* down while the last transaction has failed and the work may not be on disk
\* (RepeatedAnswerKept); what was answered before stands.
AnsweredAgain(id, state) ==
    IF behind = 0 /\ acked[id] # "pruned" THEN Answered(id, state) ELSE acked' = acked

--------------------------------------------------------------------------------
(* Initial state: an empty database *)

NoJobs == [id \in {} |-> None]
NoQueues == [p \in Priorities |-> <<>>]

Init ==
    /\ next_id = 0
    /\ jobs = NoJobs
    /\ idempotency_keys = [key \in {} |-> None]
    /\ queues = NoQueues
    /\ store = Snapshot(NoJobs, NoQueues)
    /\ now = 0
    /\ behind = 0
    /\ acked = [id \in JobIds |-> "none"]
    /\ granted = [id \in JobIds |-> 0]

--------------------------------------------------------------------------------
(* Callers: submit and cancel *)

NewJob(request, key) ==
    [request |-> request, idempotency_key |-> key, status |-> "queued",
     result |-> None, error |-> None, callback |-> "none", attempts |-> 0,
     lease |-> None, terminal_attempt |-> None, updated_at |-> now]

\* The key is taken by a job that still exists.
KeyInUse(key) ==
    /\ key \in DOMAIN idempotency_keys
    /\ idempotency_keys[key] \in DOMAIN jobs

\* submit of a new job.  The answer is an error when the transaction failed,
\* although the job stays in memory and in its queue.
Submit(request, key, ok) ==
    LET id == next_id + 1
    IN  /\ next_id < MaxJobs
        /\ ~KeyInUse(key)
        /\ next_id' = id
        /\ jobs' = [x \in DOMAIN jobs \cup {id} |->
                        IF x = id THEN NewJob(request, key) ELSE jobs[x]]
        /\ idempotency_keys' =
                IF key = None THEN idempotency_keys
                ELSE [k \in DOMAIN idempotency_keys \cup {key} |->
                        IF k = key THEN id ELSE idempotency_keys[k]]
        /\ queues' = [queues EXCEPT ![request.priority] = Append(@, id)]
        /\ Persist(ok)
        /\ IF ok THEN Answered(id, "accepted") ELSE acked' = [acked EXCEPT ![id] = "none"]
        /\ granted' = [granted EXCEPT ![id] = 0]
        /\ UNCHANGED now

\* submit with the key and the request of an existing job: that job is returned.
SubmitAgain(request, key) ==
    /\ KeyInUse(key)
    /\ jobs[idempotency_keys[key]].request = request
    /\ LET id == idempotency_keys[key]
       IN  IF acked[id] = "none" THEN AnsweredAgain(id, "accepted") ELSE acked' = acked
    /\ UNCHANGED <<registryVars, store, now, behind, granted>>

\* prepare_callback: the callback state of a job that has just changed.
PrepareCallback(job) ==
    IF job.request.callback_url = None \/ job.status \notin Terminal
       \/ job.callback = "delivered"
    THEN job
    ELSE [job EXCEPT !.callback = "pending"]

\* The cancelled job keeps its lease.
CancelledJob(job) ==
    PrepareCallback([job EXCEPT !.status = "cancelled", !.updated_at = now,
                                !.terminal_attempt = None])

\* Mutant: finished jobs can be cancelled too.
CanCancelAny(id) == id \in DOMAIN jobs

CanCancel(id) == id \in DOMAIN jobs /\ jobs[id].status \notin Terminal

Cancel(id, ok) ==
    /\ CanCancel(id)
    /\ jobs' = [jobs EXCEPT ![id] = CancelledJob(@)]
    /\ queues' = [queues EXCEPT ![PriorityOf(jobs[id])] = Without(@, {id})]
    /\ Persist(ok)
    /\ IF ok THEN Answered(id, "cancelled") ELSE UNCHANGED acked
    /\ UNCHANGED <<next_id, idempotency_keys, now, granted>>

\* cancel of a cancelled job: AlreadyTerminal, which cancel_job answers with 200.
CancelAgain(id) ==
    /\ id \in DOMAIN jobs
    /\ jobs[id].status = "cancelled"
    /\ AnsweredAgain(id, "cancelled")
    /\ UNCHANGED <<registryVars, store, now, behind, granted>>

--------------------------------------------------------------------------------
(* Workers: claim, renew, complete and fail *)

\* The i-th entry of queue p is a job that a worker allowed these kinds may run.
Claimable(kinds, p, i) ==
    /\ queues[p][i] \in DOMAIN jobs
    /\ jobs[queues[p][i]].status = "queued"
    /\ jobs[queues[p][i]].request.kind \in kinds

\* Mutant: the first match of any priority.
FirstClaimableAnyPriority(kinds, p, i) ==
    /\ Claimable(kinds, p, i)
    /\ \A j \in DOMAIN queues[p] : Claimable(kinds, p, j) => i <= j

\* It is the first such entry: queues by priority, each from its front.
FirstClaimable(kinds, p, i) ==
    /\ Claimable(kinds, p, i)
    /\ \A q \in Priorities : \A j \in DOMAIN queues[q] :
           Claimable(kinds, q, j) =>
               PriorityRank[p] < PriorityRank[q] \/ (p = q /\ i <= j)

\* Mutant: the lease carries the attempt before this one.
ClaimedJobOldAttempt(job, worker) ==
    [job EXCEPT !.status = "running", !.attempts = @ + 1, !.result = None,
                !.terminal_attempt = None, !.updated_at = now,
                !.lease = [worker_id |-> worker, attempt |-> job.attempts,
                           expires_at |-> now + LeaseDuration]]

ClaimedJob(job, worker) ==
    [job EXCEPT !.status = "running", !.attempts = @ + 1, !.result = None,
                !.terminal_attempt = None, !.updated_at = now,
                !.lease = [worker_id |-> worker, attempt |-> job.attempts + 1,
                           expires_at |-> now + LeaseDuration]]

\* Mutant: the job is returned although the transaction failed.
GrantedUnchecked(id, ok) == granted' = [granted EXCEPT ![id] = jobs'[id].attempts]

\* The answer to a claim: the worker learns of its attempt once it is committed.
Granted(id, ok) ==
    granted' = IF ok THEN [granted EXCEPT ![id] = jobs'[id].attempts] ELSE granted

\* claim_next_for_worker_in_pool.  After a failed transaction the worker is told
\* that there is no work, although the job stays leased to it in memory.
Claim(worker, kinds, ok) ==
    \E p \in Priorities : \E i \in DOMAIN queues[p] :
        LET id == queues[p][i]
        IN  /\ FirstClaimable(kinds, p, i)
            /\ jobs' = [jobs EXCEPT ![id] = ClaimedJob(@, worker)]
            /\ queues' = [queues EXCEPT ![p] = Without(@, {id})]
            /\ Persist(ok)
            /\ Granted(id, ok)
            /\ UNCHANGED <<next_id, idempotency_keys, now, acked>>

\* The worker holds the lease of job id and it has not run out.
HoldsLease(id, worker) ==
    /\ id \in DOMAIN jobs
    /\ jobs[id].status = "running"
    /\ jobs[id].lease # None
    /\ jobs[id].lease.worker_id = worker
    /\ jobs[id].lease.expires_at > now

\* A report may leave the attempt out; then it counts for the current one.
ReportsLease(id, worker, attempt) ==
    /\ HoldsLease(id, worker)
    /\ attempt \in {None, jobs[id].lease.attempt}

RenewedJob(job) ==
    [job EXCEPT !.lease = [@ EXCEPT !.expires_at = now + LeaseDuration], !.updated_at = now]

\* renew_lease.
RenewLease(id, worker, ok) ==
    /\ HoldsLease(id, worker)
    /\ jobs' = [jobs EXCEPT ![id] = RenewedJob(@)]
    /\ UNCHANGED queues
    /\ Persist(ok)
    /\ UNCHANGED <<next_id, idempotency_keys, now, acked, granted>>

CompletedJob(job, result) ==
    PrepareCallback(
        [job EXCEPT !.status = "complete", !.result = result, !.error = None,
                    !.lease = None, !.updated_at = now,
                    !.terminal_attempt = [worker_id |-> job.lease.worker_id,
                                          attempt |-> job.lease.attempt]])

\* Mutant: the result of persist_locked is ignored.
CompleteLeaseUnchecked(id, worker, attempt, result, ok) ==
    /\ ReportsLease(id, worker, attempt)
    /\ jobs' = [jobs EXCEPT ![id] = CompletedJob(@, result)]
    /\ UNCHANGED queues
    /\ Persist(ok)
    /\ Answered(id, "complete")
    /\ UNCHANGED <<next_id, idempotency_keys, now, granted>>

\* complete_lease.
CompleteLease(id, worker, attempt, result, ok) ==
    /\ ReportsLease(id, worker, attempt)
    /\ jobs' = [jobs EXCEPT ![id] = CompletedJob(@, result)]
    /\ UNCHANGED queues
    /\ Persist(ok)
    /\ IF ok THEN Answered(id, "complete") ELSE UNCHANGED acked
    /\ UNCHANGED <<next_id, idempotency_keys, now, granted>>

\* terminal_attempt_matches.
TerminalAttemptMatches(job, worker, attempt) ==
    /\ job.terminal_attempt # None
    /\ job.terminal_attempt = [worker_id |-> worker, attempt |-> attempt]

\* complete_lease of a complete job by the same attempt with the same result.
CompleteAgain(id, worker, attempt, result) ==
    /\ id \in DOMAIN jobs
    /\ jobs[id].status = "complete"
    /\ TerminalAttemptMatches(jobs[id], worker, attempt)
    /\ jobs[id].result = result
    /\ AnsweredAgain(id, "complete")
    /\ UNCHANGED <<registryVars, store, now, behind, granted>>

\* A failed attempt is tried again while attempts remain.
WillRetry(job, failure) == failure.retryable /\ job.attempts < MaxAttempts

FailedJob(job, failure) ==
    LET base == [job EXCEPT !.result = None, !.error = failure, !.lease = None,
                            !.updated_at = now]
    IN  IF WillRetry(job, failure)
        THEN [base EXCEPT !.status = "queued", !.terminal_attempt = None]
        ELSE PrepareCallback(
                [base EXCEPT !.status = "failed",
                             !.terminal_attempt = [worker_id |-> job.lease.worker_id,
                                                   attempt |-> job.lease.attempt]])

\* fail_lease.
FailLease(id, worker, attempt, failure, ok) ==
    /\ ReportsLease(id, worker, attempt)
    /\ jobs' = [jobs EXCEPT ![id] = FailedJob(@, failure)]
    /\ queues' = IF WillRetry(jobs[id], failure)
                 THEN [queues EXCEPT ![PriorityOf(jobs[id])] = Append(@, id)]
                 ELSE queues
    /\ Persist(ok)
    /\ IF ok /\ ~WillRetry(jobs[id], failure) THEN Answered(id, "failed") ELSE UNCHANGED acked
    /\ UNCHANGED <<next_id, idempotency_keys, now, granted>>

\* fail_lease of a failed job by the same attempt with the same failure.
FailAgain(id, worker, attempt, failure) ==
    /\ id \in DOMAIN jobs
    /\ jobs[id].status = "failed"
    /\ TerminalAttemptMatches(jobs[id], worker, attempt)
    /\ jobs[id].error = failure
    /\ AnsweredAgain(id, "failed")
    /\ UNCHANGED <<registryVars, store, now, behind, granted>>

--------------------------------------------------------------------------------
(* Maintenance: expired leases and pruning *)

\* Mutant: a lease is still good at the instant it expires.
ExpiredLeasesStrict(js) ==
    {id \in DOMAIN js : /\ js[id].status = "running"
                        /\ js[id].lease # None
                        /\ js[id].lease.expires_at < now}

\* The running jobs in table js whose lease has run out.
ExpiredLeases(js) ==
    {id \in DOMAIN js : /\ js[id].status = "running"
                        /\ js[id].lease # None
                        /\ js[id].lease.expires_at <= now}

TimedOutJob(job) ==
    LET retryable == job.attempts < MaxAttempts
    IN  PrepareCallback(
            [job EXCEPT !.result = None, !.lease = None, !.updated_at = now,
                        !.error = [message |-> AttemptTimeout, retryable |-> retryable],
                        !.status = IF retryable THEN "queued" ELSE "failed"])

\* requeue_expired_leases_locked, on the jobs and on the queues.
SweptJobs(js) ==
    [id \in DOMAIN js |-> IF id \in ExpiredLeases(js) THEN TimedOutJob(js[id]) ELSE js[id]]

\* Mutant: jobs whose attempts are used up go back to their queue too.
SweptQueuesAll(js, qs) ==
    [p \in Priorities |->
        qs[p] \o Ascending({id \in ExpiredLeases(js) \ Members(qs[p]) :
                                PriorityOf(js[id]) = p})]

SweptQueues(js, qs) ==
    [p \in Priorities |->
        qs[p] \o Ascending({id \in ExpiredLeases(js) \ Members(qs[p]) :
                                PriorityOf(js[id]) = p /\ js[id].attempts < MaxAttempts})]

\* requeue_expired_leases: the snapshot is written even when nothing expired.
RequeueExpiredLeases(ok) ==
    /\ jobs' = SweptJobs(jobs)
    /\ queues' = SweptQueues(jobs, queues)
    /\ Persist(ok)
    /\ UNCHANGED <<next_id, idempotency_keys, now, acked, granted>>

\* has_pending_callback.
HasPendingCallback(job) == job.request.callback_url # None /\ job.callback # "delivered"

\* Mutant: the callback is not waited for.
PrunableIgnoringCallbacks ==
    {id \in DOMAIN jobs : jobs[id].status \in Terminal /\ now - jobs[id].updated_at >= Retention}

\* Mutant: jobs are pruned by their age alone.
PrunableAnyStatus ==
    {id \in DOMAIN jobs : now - jobs[id].updated_at >= Retention /\ ~HasPendingCallback(jobs[id])}

\* The jobs that pruning may remove; the age saturates at 0.
Prunable ==
    {id \in DOMAIN jobs :
        /\ jobs[id].status \in Terminal
        /\ (IF now >= jobs[id].updated_at THEN now - jobs[id].updated_at ELSE 0) >= Retention
        /\ ~HasPendingCallback(jobs[id])}

\* The oldest max_pruned_jobs of them.
PrunedNow == {id \in Prunable : Cardinality({x \in Prunable : x <= id}) <= MaxPruned}

\* Mutant: the keys of removed jobs stay taken.
KeysAfterPruneAll == idempotency_keys

\* The keys of removed jobs are released.
KeysAfterPrune ==
    [key \in DOMAIN idempotency_keys \ {jobs[id].idempotency_key : id \in PrunedNow} |->
        idempotency_keys[key]]

\* prune_terminal_jobs_locked and its caller prune_terminal_jobs.
PruneTerminalJobs(ok) ==
    /\ jobs' = [id \in DOMAIN jobs \ PrunedNow |-> jobs[id]]
    /\ idempotency_keys' = KeysAfterPrune
    /\ queues' = [p \in Priorities |->
                    Without(queues[p], {id \in PrunedNow : PriorityOf(jobs[id]) = p})]
    /\ Persist(ok)
    /\ acked' = [id \in JobIds |-> IF id \in PrunedNow THEN "pruned" ELSE acked[id]]
    /\ UNCHANGED <<next_id, now, granted>>

--------------------------------------------------------------------------------
(* Callback delivery: the registry's side *)

CallbackPending(id) ==
    /\ id \in DOMAIN jobs
    /\ jobs[id].request.callback_url # None
    /\ jobs[id].status \in Terminal
    /\ jobs[id].callback = "pending"

\* begin_callback_attempt: counts the attempt and persists.
BeginCallbackAttempt(id, ok) ==
    /\ CallbackPending(id)
    /\ UNCHANGED registryVars
    /\ Persist(ok)
    /\ UNCHANGED <<now, acked, granted>>

\* record_callback_success.
RecordCallbackSuccess(id, ok) ==
    /\ id \in DOMAIN jobs
    /\ jobs[id].callback # "none"
    /\ jobs' = [jobs EXCEPT ![id].callback = "delivered"]
    /\ UNCHANGED queues
    /\ Persist(ok)
    /\ UNCHANGED <<next_id, idempotency_keys, now, acked, granted>>

\* record_callback_failure: notes the error and persists.
RecordCallbackFailure(id, ok) ==
    /\ id \in DOMAIN jobs
    /\ jobs[id].callback = "pending"
    /\ UNCHANGED registryVars
    /\ Persist(ok)
    /\ UNCHANGED <<now, acked, granted>>

--------------------------------------------------------------------------------
(* Crash and restart, and the clock *)

\* The process stops and with_store_and_retention loads the registry: leases that
\* ran out in the meantime are taken back, and the snapshot is rewritten if any did.
Restart ==
    LET loaded == LoadQueues(store)
    IN  /\ next_id' = LoadNextId(store)
        /\ idempotency_keys' = LoadKeys(store)
        /\ jobs' = SweptJobs(store.jobs)
        /\ queues' = SweptQueues(store.jobs, loaded)
        /\ store' = IF ExpiredLeases(store.jobs) = {} THEN store ELSE Snapshot(jobs', queues')
        /\ behind' = 0
        /\ UNCHANGED <<now, acked, granted>>

Tick ==
    /\ now < MaxTime
    /\ now' = now + 1
    /\ UNCHANGED <<registryVars, store, historyVars>>

\* SystemTime is not monotonic: the wall clock may be set back.
ClockStepsBack ==
    /\ ClockMayStepBack
    /\ now > 0
    /\ now' = now - 1
    /\ UNCHANGED <<registryVars, store, historyVars>>

--------------------------------------------------------------------------------
(* Specification *)

CallerNext ==
    \/ \E request \in Requests, key \in Keys \cup {None} :
          \/ \E ok \in Outcomes : Submit(request, key, ok)
          \/ SubmitAgain(request, key)
    \/ \E id \in JobIds :
          \/ \E ok \in Outcomes : Cancel(id, ok)
          \/ CancelAgain(id)

WorkerNext ==
    \E worker \in Workers :
        \/ \E kinds \in KindSets, ok \in Outcomes : Claim(worker, kinds, ok)
        \/ \E id \in JobIds :
              \/ \E ok \in Outcomes : RenewLease(id, worker, ok)
              \/ \E attempt \in ReportedAttempts, result \in Results :
                    \/ \E ok \in Outcomes : CompleteLease(id, worker, attempt, result, ok)
                    \/ CompleteAgain(id, worker, attempt, result)
              \/ \E attempt \in ReportedAttempts, failure \in Reported :
                    \/ \E ok \in Outcomes : FailLease(id, worker, attempt, failure, ok)
                    \/ FailAgain(id, worker, attempt, failure)

MaintenanceNext ==
    \E ok \in Outcomes :
        \/ RequeueExpiredLeases(ok)
        \/ PruneTerminalJobs(ok)

CallbackNext ==
    \E id \in JobIds, ok \in Outcomes :
        \/ BeginCallbackAttempt(id, ok)
        \/ RecordCallbackSuccess(id, ok)
        \/ RecordCallbackFailure(id, ok)

Next ==
    \/ CallerNext
    \/ WorkerNext
    \/ MaintenanceNext
    \/ CallbackNext
    \/ Restart
    \/ Tick
    \/ ClockStepsBack

\* run_lease_recovery_loop sweeps on every maintenance interval.
Fairness == WF_vars(\E ok \in Outcomes : RequeueExpiredLeases(ok))

Spec == Init /\ [][Next]_vars /\ Fairness

--------------------------------------------------------------------------------
(* Properties *)

QueuesMatch(js, qs) ==
    \A p \in Priorities : NoDuplicates(qs[p]) /\ Members(qs[p]) = Waiting(js, p)

\* A queue holds exactly the queued jobs of its priority, each one once: no job is
\* lost from its queue, none is queued twice, and no running or finished job can be
\* claimed again.  Every method updates the job's status and the queue separately.
QueueConsistent == QueuesMatch(jobs, queues)

\* A running job has a lease, numbered with its current attempt; a queued, complete
\* or failed one has none; attempts never exceed max_attempts, and a queued job has
\* an attempt left.
LeaseInOrder(job) ==
    /\ job.status = "running" => job.lease \in JobLease /\ job.lease.attempt = job.attempts
    /\ job.status \in {"queued", "complete", "failed"} => job.lease = None
    /\ job.status = "queued" => job.attempts < MaxAttempts
    /\ job.attempts <= MaxAttempts

LeasesConsistentIn(js) == \A id \in DOMAIN js : LeaseInOrder(js[id])

\* Lease discipline, of the jobs in memory and of the rows a restart would load: the
\* lease of a job that waits or has finished cannot be used, and a job that runs can
\* always be taken back from its worker.
LeaseConsistent == LeasesConsistentIn(jobs) /\ LeasesConsistentIn(store.jobs)

\* No two jobs of a table share an idempotency key.
KeysUniqueIn(js) ==
    \A x, y \in DOMAIN js :
        js[x].idempotency_key = js[y].idempotency_key /\ js[x].idempotency_key # None => x = y

\* The key map points to exactly the jobs that carry a key, in memory and as it
\* would be rebuilt from the rows, so a retried submit finds its job and no other.
KeysConsistent ==
    /\ KeysUniqueIn(jobs)
    /\ KeysUniqueIn(store.jobs)
    /\ DOMAIN idempotency_keys = {jobs[id].idempotency_key : id \in DOMAIN jobs} \ {None}
    /\ \A key \in DOMAIN idempotency_keys :
            /\ idempotency_keys[key] \in DOMAIN jobs
            /\ jobs[idempotency_keys[key]].idempotency_key = key

\* next_id is at least every number in use, so a new job never overwrites another.
IdsBelowNext == \A id \in DOMAIN jobs : id <= next_id

\* After a committed snapshot a restart would rebuild the registry as it is: the
\* jobs, the order of every queue and the key map.
StoreFaithful ==
    behind = 0 => /\ store.jobs = jobs
              /\ LoadQueues(store) = queues
              /\ LoadKeys(store) = idempotency_keys

\* What a success answer about a job says: the job exists, and is in that state.
Honours(state, id, table) ==
    state \notin {"none", "pruned"} =>
        /\ id \in DOMAIN table
        /\ state \in Terminal => table[id].status = state

\* A submit, completion, failure or cancellation that was answered with success, by the
\* call that did it or by a repeated one after a committed transaction, is never undone,
\* whatever transactions fail and whenever the process restarts, until the job is pruned.
AcknowledgedKept == \A id \in JobIds : Honours(acked[id], id, jobs)

\* README.md on safe retries and idempotent cancel, complete and fail: the answer that a
\* repeated call gets from memory is on disk too.  The code does not keep this when the
\* first write failed (README.md, section 3); no run checks it.
RepeatedAnswerKept ==
    \A id \in DOMAIN jobs :
        /\ jobs[id].idempotency_key # None => Honours("accepted", id, store.jobs)
        /\ jobs[id].status \in Terminal => Honours(jobs[id].status, id, store.jobs)

\* An attempt number that was handed to a worker is never handed out again for the
\* same job, across failed transactions and restarts.
AttemptsNotForgotten ==
    \A id \in DOMAIN jobs : granted[id] <= jobs[id].attempts

\* A restart from rows that miss the last changes.
RestartBehind == behind > 0 /\ Restart

\* A finished job stays as it finished: only its callback state may change, until it
\* is pruned.  A restart may bring back the last committed state.
TerminalFinal ==
    [][\A id \in DOMAIN jobs :
          jobs[id].status \in Terminal /\ id \in DOMAIN jobs' /\ ~RestartBehind =>
              [jobs'[id] EXCEPT !.callback = "none"] = [jobs[id] EXCEPT !.callback = "none"]]_vars

\* Two jobs that wait in a queue never change places, not even across a restart
\* from a committed snapshot.
QueueOrderKept ==
    [][~RestartBehind =>
        \A p \in Priorities : \A i, j \in DOMAIN queues[p] :
            LET x == queues[p][i]
                y == queues[p][j]
            IN  i < j /\ {x, y} \subseteq Members(queues'[p]) =>
                    Position(queues'[p], x) < Position(queues'[p], y)]_vars

\* The job that a claim starts is the most urgent one of its kind, and within its
\* priority the one that has waited longest since it was last queued.
ClaimsInOrder ==
    [][\A p, q \in Priorities : \A i \in DOMAIN queues[p], j \in DOMAIN queues[q] :
          LET x == queues[p][i]
              y == queues[q][j]
          IN  /\ jobs[x].request.kind = jobs[y].request.kind
              /\ PriorityRank[q] < PriorityRank[p] \/ (p = q /\ j < i)
              => ~(y \in DOMAIN jobs' /\ jobs'[y].status = "queued"
                   /\ x \in DOMAIN jobs' /\ jobs'[x].status = "running" /\ ~RestartBehind)]_vars

\* A lease that its holder can no longer use is eventually taken back, so its job
\* is queued again or failed.
ExpiredLeaseTakenBack ==
    \A id \in JobIds :
        (id \in DOMAIN jobs /\ jobs[id].status = "running" /\ jobs[id].lease.expires_at <= now)
        ~> ~(id \in DOMAIN jobs /\ jobs[id].status = "running" /\ jobs[id].lease.expires_at <= now)

PhaseOf(id, js) == IF id \in DOMAIN js THEN js[id].status ELSE "absent"
TriesOf(id, js) == IF id \in DOMAIN js THEN js[id].attempts ELSE 0

\* The refinement mapping: a job's phase and tries are what the registry's table says
\* of it, and what is saved is what the rows of the store say.
Life == INSTANCE JobLifecycle WITH
    Ids <- JobIds,
    MaxTries <- MaxAttempts,
    phase <- [id \in JobIds |-> PhaseOf(id, jobs)],
    tries <- [id \in JobIds |-> TriesOf(id, jobs)],
    saved <- [phase |-> [id \in JobIds |-> PhaseOf(id, store.jobs)],
              tries |-> [id \in JobIds |-> TriesOf(id, store.jobs)]]

\* The registry with its queues, leases, keys and rows implements the life cycle: each
\* method and each sweep moves jobs only along it, a committed transaction makes all
\* earlier ones durable, and a restart loses exactly what was not committed.
ImplementsLifecycle == Life!LifeSpec

\* roadmap.md on restarts: the next job id is preserved, so the id of a pruned job
\* is never given to another one.  The code does not keep this: a restart recomputes the
\* number from the rows that are left (README.md, section 3); no run checks it.
JobIdNotReused ==
    [][\A id \in JobIds : acked[id] = "pruned" => acked'[id] = "pruned"]_vars

================================================================================

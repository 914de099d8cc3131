------------------------------ MODULE SchedulerApi ------------------------------
(***************************************************************************)
(* What the job, worker and scheduler endpoints answer (src/scheduler.rs,  *)
(* the handlers at the end of src/jobs.rs and src/workers.rs), as functions *)
(* of the state in which the registry is asked: the results of the         *)
(* registries' methods, the HTTP status each becomes, the read-only views, *)
(* the scheduler preview and the counts that a claim adds to the metrics.  *)
(* A failed transaction is not considered here.                            *)
(***************************************************************************)
EXTENDS Scheduler, Text

CONSTANTS
    WorkerOrder     \* the worker ids in the order of WorkerRegistry::list

ASSUME WorkerOrderAssumption ==
    WorkerOrder \in Seq(Workers) /\ Members(WorkerOrder) = Workers /\ NoDuplicates(WorkerOrder)

\* No preview is a preview of nothing.
ASSUME PreviewAssumption == None \notin JobIds \X Workers

--------------------------------------------------------------------------------
(* Requests as they arrive *)

\* A SubmitJobRequest; the texts are None when they are left out.
Submission(kind, priority, payload, url, key) ==
    [kind |-> kind, priority |-> priority, payload |-> payload, url |-> url, key |-> key]

\* A text of more than 256 bytes.
TooLong == "more than 256 bytes"

TrimOption(text) == IF text = None THEN None ELSE Trim(text)

\* normalize_callback_url.
ValidUrl(form) == form.url # None => ~IsBlank(form.url)

\* normalize_idempotency_key.
ValidKey(form) == form.key # None => ~IsBlank(form.key) /\ Trim(form.key) # TooLong

\* The request that is stored and compared, after normalisation.
RequestOf(form) ==
    [kind |-> form.kind, priority |-> form.priority, payload |-> form.payload,
     callback_url |-> TrimOption(form.url)]

\* validate_worker; a form is [id, endpoint_url, pool, job_types, max_concurrent_jobs].
ValidWorker(form) ==
    /\ ~IsBlank(form.id)
    /\ Trim(form.endpoint_url) \in {"http", "https"}
    /\ form.job_types # {}
    /\ form.max_concurrent_jobs # 0
    /\ ~IsBlank(form.pool)

ProfileOf(form) ==
    [job_types |-> form.job_types, pool |-> Trim(form.pool),
     max_concurrent_jobs |-> form.max_concurrent_jobs]

--------------------------------------------------------------------------------
(* Results of the job registry *)

\* submit: the id of the new or of the existing job, None when it is refused.
SubmitResult(form) ==
    LET key == TrimOption(form.key)
    IN  IF ~(ValidUrl(form) /\ ValidKey(form)) THEN None
        ELSE IF ~KeyInUse(key) THEN next_id + 1
        ELSE IF jobs[idempotency_keys[key]].request = RequestOf(form)
             THEN idempotency_keys[key] ELSE None

\* CancelJobResult.
CancelResult(id) ==
    IF id \notin DOMAIN jobs THEN "NotFound"
    ELSE IF jobs[id].status \in Terminal THEN "AlreadyTerminal" ELSE "Cancelled"

\* RenewJobLeaseResult: the first test that fails names the refusal.
RenewResult(id, worker) ==
    IF id \notin DOMAIN jobs THEN "NotFound"
    ELSE IF jobs[id].status # "running" \/ jobs[id].lease = None THEN "NotRunning"
    ELSE IF jobs[id].lease.worker_id # worker THEN "LeaseNotHeld"
    ELSE IF jobs[id].lease.expires_at <= now THEN "Expired"
    ELSE "Renewed"

\* The tests that complete_lease and fail_lease share; again says whether the report
\* repeats the one that finished the job.
FinishResult(id, worker, attempt, again, finished, repeated) ==
    IF id \notin DOMAIN jobs THEN "NotFound"
    ELSE IF jobs[id].status # "running"
         THEN IF again /\ TerminalAttemptMatches(jobs[id], worker, attempt)
              THEN repeated ELSE "NotRunning"
    ELSE IF jobs[id].lease = None THEN "NotRunning"
    ELSE IF jobs[id].lease.worker_id # worker \/ attempt \notin {None, jobs[id].lease.attempt}
         THEN "LeaseNotHeld"
    ELSE IF jobs[id].lease.expires_at <= now THEN "Expired"
    ELSE finished

CompleteResult(id, worker, attempt, result) ==
    FinishResult(id, worker, attempt,
        id \in DOMAIN jobs /\ jobs[id].status = "complete" /\ jobs[id].result = result,
        "Completed", "IdempotentCompleted")

FailResult(id, worker, attempt, failure) ==
    FinishResult(id, worker, attempt,
        id \in DOMAIN jobs /\ jobs[id].status = "failed" /\ jobs[id].error = failure,
        IF id \in DOMAIN jobs /\ WillRetry(jobs[id], failure) THEN "Requeued" ELSE "Failed",
        "IdempotentFailed")

--------------------------------------------------------------------------------
(* HTTP status of the answers *)

ResultStatus(result) ==
    CASE result \in {"Renewed", "Completed", "IdempotentCompleted", "Requeued", "Failed",
                     "IdempotentFailed"} -> 200
      [] result \in {"NotRunning", "LeaseNotHeld", "Expired"} -> 409
      [] result = "NotFound" -> 404

SubmitStatus(form) == IF SubmitResult(form) = None THEN 400 ELSE 202

\* cancel_job: a job that is already cancelled is answered like one just cancelled.
CancelStatus(id) ==
    CASE CancelResult(id) = "Cancelled" -> 200
      [] CancelResult(id) = "NotFound" -> 404
      [] OTHER -> IF jobs[id].status = "cancelled" THEN 200 ELSE 409

\* The refusal of a worker that is unknown or stale, else None.
RefusalStatus(w) == IF w \notin DOMAIN workers THEN 404 ELSE IF workers[w].stale THEN 409 ELSE None

\* fail_worker_job_handler also refuses a blank error.
FailRefusalStatus(w, error) ==
    IF RefusalStatus(w) # None THEN RefusalStatus(w) ELSE IF IsBlank(error) THEN 400 ELSE None

\* AcquireWorkerSlotResult.
AcquireResult(w) ==
    IF w \notin DOMAIN workers THEN "NotFound"
    ELSE IF workers[w].stale THEN "Stale"
    ELSE IF workers[w].draining THEN "Draining"
    ELSE IF BelowCapacity(workers[w]) THEN "Acquired" ELSE "AtCapacity"

\* The refusals of claim_worker_job_handler, else None.
AcquireStatus(w) ==
    CASE AcquireResult(w) = "Acquired" -> None
      [] AcquireResult(w) = "NotFound" -> 404
      [] OTHER -> 409

\* register_worker: with strict pools the trimmed pool must be one of pool_ids.
RegisterStatus(form, strict, pool_ids) ==
    IF strict /\ Trim(form.pool) \notin pool_ids THEN 400
    ELSE IF ValidWorker(form) THEN 200 ELSE 400

\* heartbeat_worker, drain_worker, reactivate_worker.
LifecycleStatus(w) == IF w \in DOMAIN workers THEN 200 ELSE 404

DeregisterStatus(w) ==
    IF w \notin DOMAIN workers THEN 404
    ELSE IF workers[w].in_flight_jobs > 0 THEN 202 ELSE 204

\* The status that the step ends with which handler h is about to take; None when the
\* handler goes on.
StepStatus(h) ==
    LET op == handler[h].op
    IN  CASE At(h, "acquire") -> AcquireStatus(op.worker)
          [] At(h, "claim") -> IF WorkWaiting(handler[h].kinds) THEN 200 ELSE 204
          [] At(h, "apply") /\ op.name = "renew" -> ResultStatus(RenewResult(op.job, op.worker))
          [] At(h, "apply") /\ op.name = "complete" ->
                ResultStatus(CompleteResult(op.job, op.worker, op.attempt, op.report))
          [] At(h, "apply") /\ op.name = "fail" ->
                ResultStatus(FailResult(op.job, op.worker, op.attempt, op.report))
          [] OTHER -> None

--------------------------------------------------------------------------------
(* Views *)

\* queued_jobs_by_priority.
QueuedJobs ==
    LET all == queues["realtime"] \o queues["batch"] \o queues["background"]
    IN  Picked(all, {i \in DOMAIN all : all[i] \in DOMAIN jobs /\ jobs[all[i]].status = "queued"})

\* queue_snapshots: how many jobs of each priority and kind wait.
QueueSnapshots ==
    LET Waits(p, kind) == {i \in DOMAIN queues[p] : Claimable({kind}, p, i)}
    IN  [pk \in {pk \in Priorities \X Kinds : Waits(pk[1], pk[2]) # {}} |->
            Cardinality(Waits(pk[1], pk[2]))]

\* terminal_duration_snapshots: how many jobs of each priority, kind and status finished.
TerminalSnapshots ==
    LET Group(p, kind, status) ==
            {id \in DOMAIN jobs : /\ PriorityOf(jobs[id]) = p
                                 /\ jobs[id].request.kind = kind
                                 /\ jobs[id].status = status}
    IN  [pks \in {pks \in Priorities \X Kinds \X Terminal : Group(pks[1], pks[2], pks[3]) # {}} |->
            Cardinality(Group(pks[1], pks[2], pks[3]))]

\* JobPruneReport: what pruning removes by status, and the jobs that it passes over
\* because their callback is pending, before max_pruned_jobs ends the search.
PruneReport ==
    LET Kept == {id \in DOMAIN jobs :
                    /\ jobs[id].status \in Terminal
                    /\ (IF now >= jobs[id].updated_at THEN now - jobs[id].updated_at ELSE 0) >= Retention
                    /\ HasPendingCallback(jobs[id])
                    /\ Cardinality({x \in PrunedNow : x < id}) < MaxPruned}
        Removed(status) == {id \in PrunedNow : jobs[id].status = status}
    IN  [retained |-> Cardinality(Kept),
         removed |-> [status \in {s \in Terminal : Removed(s) # {}} |-> Cardinality(Removed(status))]]

\* LeaseExpiryReport: how many jobs are requeued and failed, and whose leases they had.
ExpiryReport ==
    LET Retried == {id \in ExpiredLeases(jobs) : jobs[id].attempts < MaxAttempts}
    IN  [requeued |-> Cardinality(Retried), failed |-> Ascending(ExpiredLeases(jobs) \ Retried),
         released_workers |-> ReleasedWorkers]

\* pending_callback_jobs.
PendingCallbackJobs == Ascending({id \in DOMAIN jobs : CallbackPending(id)})

\* availability_status.
AvailabilityStatus(w) ==
    IF workers[w].stale THEN "stale" ELSE IF workers[w].draining THEN "draining" ELSE "available"

\* availability_snapshots: how many workers of each job type are in each status.
AvailabilitySnapshots ==
    LET Group(kind, status) ==
            {w \in DOMAIN workers : kind \in workers[w].job_types /\ AvailabilityStatus(w) = status}
    IN  [ks \in {ks \in Kinds \X {"available", "draining", "stale"} : Group(ks[1], ks[2]) # {}} |->
            Cardinality(Group(ks[1], ks[2]))]

\* snapshot_from_entry: a draining worker shows no slots.
AvailableJobSlots(w) ==
    LET max == workers[w].max_concurrent_jobs
    IN  IF max = Unlimited THEN None
        ELSE IF workers[w].draining \/ workers[w].in_flight_jobs > max THEN 0
        ELSE max - workers[w].in_flight_jobs

--------------------------------------------------------------------------------
(* Preview and metrics of the scheduler *)

\* can_accept_work: it does not look at the worker's capacity.
CanAcceptWork(w) == Reachable(w) /\ ~workers[w].draining

\* Mutant: the workload pool policy is not applied.
CandidateAnyPool(w, id) == CanAcceptWork(w) /\ jobs[id].request.kind \in workers[w].job_types

\* The worker accepts work, supports the job's kind and is in a pool allowed to it.
Candidate(w, id) == CanAcceptWork(w) /\ jobs[id].request.kind \in AllowedKinds(workers[w])

First(S) == CHOOSE i \in S : \A j \in S : i <= j

\* preview_next_assignment_with_policy: the first queued job with a candidate, and its
\* first candidate.
Preview ==
    LET matched == {i \in DOMAIN QueuedJobs : \E w \in Workers : Candidate(w, QueuedJobs[i])}
        id == QueuedJobs[First(matched)]
    IN  IF matched = {} THEN None
        ELSE <<id, WorkerOrder[First({n \in DOMAIN WorkerOrder : Candidate(WorkerOrder[n], id)})]>>

\* count_candidate_workers_for_job.
CandidateWorkers(id) == Cardinality({w \in Workers : Candidate(w, id)})

\* record_async_pool_no_compatible_job: the jobs that wait for w's kinds and that the
\* policy keeps from its pool, by kind and priority.
BlockedJobs(w) ==
    LET Blocked(kind, p) ==
            {i \in DOMAIN queues[p] : Claimable({kind}, p, i) /\ kind \in workers[w].job_types
                                      /\ ~Allows(kind, workers[w].pool)}
    IN  [kp \in {kp \in Kinds \X Priorities : Blocked(kp[1], kp[2]) # {}} |->
            Cardinality(Blocked(kp[1], kp[2]))]

--------------------------------------------------------------------------------
(* Properties *)

\* The job that w would be leased now.
NextFor(w, id) ==
    /\ CanAcquire(w)
    /\ \E p \in Priorities : \E i \in DOMAIN queues[p] :
           FirstClaimable(AllowedKinds(workers[w]), p, i) /\ queues[p][i] = id

\* The preview and the claim, which search in different ways, agree: the previewed
\* worker, unless all its slots are taken, would be leased exactly the previewed job,
\* and when nothing is previewed no worker would be leased anything.
PreviewIsNextClaim ==
    IF Preview = None
    THEN \A w \in Workers, id \in DOMAIN jobs : ~NextFor(w, id)
    ELSE BelowCapacity(workers[Preview[2]]) => NextFor(Preview[2], Preview[1])

\* docs/planning/design.md on the preview: the worker it shows would match next, so
\* it can take the job.  The code does not keep this: can_accept_work does not look at
\* the slots (README.md, section 3); no run checks it.
PreviewedWorkerCanClaim == Preview # None => CanAcquire(Preview[2])

================================================================================

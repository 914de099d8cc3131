-------------------------------- MODULE Scenario --------------------------------
(***************************************************************************)
(* Replays the repository's own tests against the model.  A test is a      *)
(* sequence of lines; a line makes one call and says what the test asserts *)
(* of its answer.  The calls are the actions of Scheduler and JobRegistry, *)
(* step by step, in a server that serves one request at a time, and the    *)
(* answers are the ones that SchedulerApi predicts.                        *)
(*                                                                         *)
(* The Some and the None of a worker method are written as the statuses    *)
(* that its endpoint gives them.                                           *)
(***************************************************************************)
EXTENDS SchedulerApi

CONSTANTS
    Tests,          \* the tests, each a sequence of lines
    Server          \* the handler that serves the test's requests

ASSUME ServerAssumption == Server \in Handlers

VARIABLES
    test,           \* the test that runs
    line,           \* its next line
    answer          \* the answer to the line before

scenarioVars == <<schedulerVars, test, line, answer>>

--------------------------------------------------------------------------------
(* Lines *)

Line(call, with, expect) == [call |-> call, with |-> with, expect |-> expect]

SubmitsForm(form, id) == Line("submit", form, id)
Submits(kind, priority, id) ==
    SubmitsForm(Submission(kind, priority, "payload", None, None), id)
SubmitsWithUrl(kind, priority, id) ==
    SubmitsForm(Submission(kind, priority, "payload", Plain("url"), None), id)

\* Methods of JobRegistry.
Leases(w, kinds, id) == Line("claim_next_for_worker", [worker |-> w, kinds |-> kinds], id)
RenewsLease(w, id, result) == Line("renew_lease", Operation("renew", w, id, None, None), result)
CompletesLease(w, id, attempt, report, result) ==
    Line("complete_lease", Operation("complete", w, id, attempt, report), result)
FailsLease(w, id, attempt, message, retryable, result) ==
    Line("fail_lease", Operation("fail", w, id, attempt,
                                 [message |-> message, retryable |-> retryable]), result)
CancelsJob(id, result) == Line("cancel", id, result)
Requeues(requeued, failed, released) ==
    Line("requeue_expired_leases", None,
         [requeued |-> requeued, failed |-> failed, released_workers |-> released])
Prunes(retained, removed) ==
    Line("prune_terminal_jobs", None, [retained |-> retained, removed |-> removed])
DeliversCallback(id) == Line("record_callback_success", id, 200)

\* Methods of WorkerRegistry.
WorkerForm(id, endpoint_url, pool, kinds, max) ==
    [id |-> id, endpoint_url |-> endpoint_url, pool |-> pool, job_types |-> kinds,
     max_concurrent_jobs |-> max]
RegistersStrictly(form, pool_ids, status) ==
    Line("register", [form |-> form, strict |-> TRUE, pool_ids |-> pool_ids], status)
RegistersForm(form, status) ==
    Line("register", [form |-> form, strict |-> FALSE, pool_ids |-> {}], status)
Registers(w, kinds, pool, max) ==
    RegistersForm(WorkerForm(Plain(w), Plain("http"), Plain(pool), kinds, max), 200)
Heartbeats(w, status) == Line("heartbeat", w, status)
Drains(w, status) == Line("drain", w, status)
Reactivates(w, status) == Line("reactivate", w, status)
Deregisters(w, status) == Line("deregister", w, status)
Acquires(w, result) == Line("try_acquire_slot", w, result)
GivesBack(w) == Line("release_slot", w, 200)
GoesStale(w) == Line("go_stale", w, 200)

\* Requests to the scheduler and to DELETE /v1/jobs/{id}.
PostsClaim(w, status) == Line("POST claim", w, status)
PostsRenew(w, id, status) == Line("POST report", Operation("renew", w, id, None, None), status)
PostsComplete(w, id, attempt, report, status) ==
    Line("POST report", Operation("complete", w, id, attempt, report), status)
PostsFail(w, id, attempt, message, retryable, status) ==
    Line("POST report", Operation("fail", w, id, attempt,
                                  [message |-> message, retryable |-> retryable]), status)
PostsCancel(id, status) == Line("DELETE job", id, status)

\* What the test looks at: some fields of a job or of a worker, or a view.
ShowsJob(id, fields) == Line("job", [id |-> id, fields |-> DOMAIN fields], fields)
NoJob(id) == Line("job", [id |-> id, fields |-> {}], None)
ShowsWorker(w, fields) == Line("worker", [id |-> w, fields |-> DOMAIN fields], fields)
NoWorker(w) == Line("worker", [id |-> w, fields |-> {}], None)
Previews(assignment) == Line("preview", None, assignment)
Lists(ids) == Line("list", None, ids)
ListsWorkers(ids) == Line("list_workers", None, ids)
Queued(ids) == Line("queued_jobs_by_priority", None, ids)
Shows(view, with, value) == Line(view, with, value)

\* Time passes; the process restarts.
Sleeps(ms) == Line("sleep", ms, None)
LeaseOver == Sleeps(LeaseDuration)
Restarts == Line("restart", None, None)
RecoversLeases == Line("lease recovery", None, None)

\* Often used: sets of job types and the failure of an expired lease.
Vision == {"vision_analysis"}
Embed == {"embed_batch"}
Cluster == {"cluster"}
TimedOut(retryable) == [message |-> AttemptTimeout, retryable |-> retryable]

--------------------------------------------------------------------------------
(* Answers *)

\* The id that claim_next_for_worker returns.
NextClaim(kinds) ==
    IF WorkWaiting(kinds)
    THEN CHOOSE id \in JobIds :
            \E p \in Priorities : \E i \in DOMAIN queues[p] :
                queues[p][i] = id /\ FirstClaimable(kinds, p, i)
    ELSE None

JobView(id) ==
    [status |-> jobs[id].status, attempts |-> jobs[id].attempts, lease |-> jobs[id].lease # None,
     holder |-> IF jobs[id].lease = None THEN None ELSE jobs[id].lease.worker_id,
     expires_at |-> IF jobs[id].lease = None THEN None ELSE jobs[id].lease.expires_at,
     result |-> jobs[id].result, error |-> jobs[id].error, callback |-> jobs[id].callback,
     terminal_attempt |-> jobs[id].terminal_attempt, key |-> jobs[id].idempotency_key,
     kind |-> jobs[id].request.kind, priority |-> PriorityOf(jobs[id]),
     payload |-> jobs[id].request.payload, callback_url |-> jobs[id].request.callback_url]

WorkerView(w) ==
    [in_flight_jobs |-> workers[w].in_flight_jobs, available_job_slots |-> AvailableJobSlots(w),
     draining |-> workers[w].draining, stale |-> workers[w].stale,
     status |-> AvailabilityStatus(w), job_types |-> workers[w].job_types,
     pool |-> workers[w].pool, max_concurrent_jobs |-> workers[w].max_concurrent_jobs]

\* The answer to a report that is refused before the sweep, else None.
ReportRefusal(op) ==
    IF op.name = "fail" THEN FailRefusalStatus(op.worker, Plain(op.report.message))
    ELSE RefusalStatus(op.worker)

Answer(call, with) ==
    CASE call = "submit" -> SubmitResult(with)
      [] call = "claim_next_for_worker" -> NextClaim(with.kinds)
      [] call = "renew_lease" -> RenewResult(with.job, with.worker)
      [] call = "complete_lease" -> CompleteResult(with.job, with.worker, with.attempt, with.report)
      [] call = "fail_lease" -> FailResult(with.job, with.worker, with.attempt, with.report)
      [] call = "cancel" -> CancelResult(with)
      [] call = "requeue_expired_leases" -> ExpiryReport
      [] call = "prune_terminal_jobs" -> PruneReport
      [] call = "register" -> RegisterStatus(with.form, with.strict, with.pool_ids)
      [] call \in {"heartbeat", "drain", "reactivate"} -> LifecycleStatus(with)
      [] call = "deregister" -> DeregisterStatus(with)
      [] call = "try_acquire_slot" -> AcquireResult(with)
      [] call = "POST report" -> ReportRefusal(with)
      [] call = "DELETE job" -> CancelStatus(with)
      [] call = "job" ->
            IF with.id \in DOMAIN jobs THEN [f \in with.fields |-> JobView(with.id)[f]] ELSE None
      [] call = "worker" ->
            IF with.id \in DOMAIN workers THEN [f \in with.fields |-> WorkerView(with.id)[f]]
            ELSE None
      [] call = "list" -> Ascending(DOMAIN jobs)
      [] call = "list_workers" -> SelectSeq(WorkerOrder, LAMBDA w : w \in DOMAIN workers)
      [] call = "preview" -> Preview
      [] call = "queued_jobs_by_priority" -> QueuedJobs
      [] call = "queue_snapshots" -> QueueSnapshots
      [] call = "terminal_duration_snapshots" -> TerminalSnapshots
      [] call = "pending_callback_jobs" -> PendingCallbackJobs
      [] call = "availability_snapshots" -> AvailabilitySnapshots
      [] call = "candidate workers" -> CandidateWorkers(with)
      [] call = "blocked jobs" -> BlockedJobs(with)
      [] call \in {"record_callback_success", "release_slot", "go_stale"} -> 200
      [] OTHER -> None

Views == {"job", "worker", "list", "list_workers", "preview", "queued_jobs_by_priority", "queue_snapshots",
          "terminal_duration_snapshots", "pending_callback_jobs", "availability_snapshots",
          "candidate workers", "blocked jobs"}

--------------------------------------------------------------------------------
(* Calls *)

SubmitForm(form) ==
    LET request == RequestOf(form)
        key == TrimOption(form.key)
    IN  \/ SubmitResult(form) = next_id + 1 /\ Submit(request, key, TRUE)
        \/ SubmitResult(form) \in DOMAIN jobs /\ SubmitAgain(request, key)
        \/ SubmitResult(form) = None /\ UNCHANGED vars

\* A report that the registry takes.
ApplyReport(op) ==
    \/ op.name = "renew" /\ RenewLease(op.job, op.worker, TRUE)
    \/ op.name = "complete" /\ CompleteLease(op.job, op.worker, op.attempt, op.report, TRUE)
    \/ op.name = "fail" /\ FailLease(op.job, op.worker, op.attempt, op.report, TRUE)

Refused(result) == result \in {"NotFound", "NotRunning", "LeaseNotHeld", "Expired"}

JobCall(call, with) ==
    \/ call = "submit" /\ SubmitForm(with)
    \/ call = "claim_next_for_worker" /\ Claim(with.worker, with.kinds, TRUE)
    \/ call = "claim_next_for_worker" /\ ~WorkWaiting(with.kinds) /\ UNCHANGED vars
    \/ call \in {"renew_lease", "complete_lease", "fail_lease"} /\ ApplyReport(with)
    \/ /\ call \in {"renew_lease", "complete_lease", "fail_lease"}
       /\ Refused(Answer(call, with))
       /\ UNCHANGED vars
    \/ call = "cancel" /\ Cancel(with, TRUE)
    \/ call = "requeue_expired_leases" /\ RequeueExpiredLeases(TRUE)
    \/ call = "prune_terminal_jobs" /\ PruneTerminalJobs(TRUE)
    \/ call = "record_callback_success" /\ RecordCallbackSuccess(with, TRUE)
    \/ /\ call = "sleep"
       /\ now' = now + with
       /\ UNCHANGED <<registryVars, store, historyVars>>

WorkerCall(call, with) ==
    \/ /\ call = "register" /\ Answer(call, with) = 200
       /\ Register(Trim(with.form.id), ProfileOf(with.form))
    \/ call = "register" /\ Answer(call, with) = 400 /\ UNCHANGED workers
    \/ call = "heartbeat" /\ Heartbeat(with)
    \/ call = "drain" /\ Drain(with)
    \/ call = "reactivate" /\ Reactivate(with)
    \/ call = "deregister" /\ Deregister(with)
    \/ /\ call \in {"heartbeat", "drain", "reactivate", "deregister"}
       /\ with \notin DOMAIN workers
       /\ UNCHANGED workers
    \/ call = "try_acquire_slot" /\ TryAcquireSlot(with)
    \/ call = "try_acquire_slot" /\ ~CanAcquire(with) /\ UNCHANGED workers
    \/ call = "release_slot" /\ ReleaseSlot(with)
    \/ call = "go_stale" /\ GoStale(with)

Request(call, with) ==
    \/ call = "POST claim" /\ ClaimRequest(Server, with, TRUE)
    \/ call = "POST report" /\ ReportRefusal(with) = None /\ ReportRequest(Server, with)
    \/ /\ call = "POST report"
       /\ ReportRefusal(with) # None
       /\ UNCHANGED <<vars, workers, handler>>
    \/ call = "DELETE job" /\ CancelRequest(Server, with, TRUE)
    \/ /\ call = "DELETE job"
       /\ CancelStatus(with) \in {404, 409}
       /\ UNCHANGED <<vars, workers, handler>>
    \/ call = "lease recovery" /\ LeaseRecovery(Server, TRUE)

\* The test makes its next call.
Call ==
    /\ At(Server, "idle")
    /\ line <= Len(Tests[test])
    /\ LET call == Tests[test][line].call
           with == Tests[test][line].with
       IN  /\ answer' = Answer(call, with)
           /\ \/ /\ JobCall(call, with)
                 /\ UNCHANGED <<workers, handler, leaked, reloaded>>
              \/ /\ WorkerCall(call, with)
                 /\ UNCHANGED <<vars, handler, leaked, reloaded>>
              \/ Request(call, with) /\ UNCHANGED <<leaked, reloaded>>
              \/ call \in Views /\ UNCHANGED schedulerVars
              \/ call = "restart" /\ SchedulerRestart
    /\ line' = line + 1
    /\ UNCHANGED test

\* The handler of the test's request takes its next step.
Proceed ==
    /\ \/ Release(Server)
       \/ AcquireSlot(Server)
       \/ ReportSweep(Server, TRUE)
       \/ ClaimNext(Server, TRUE)
       \/ ApplyRenew(Server, TRUE)
       \/ ApplyComplete(Server, TRUE)
       \/ ApplyFail(Server, TRUE)
    /\ answer' = IF StepStatus(Server) = None THEN answer ELSE StepStatus(Server)
    /\ UNCHANGED <<leaked, reloaded, test, line>>

\* The test is over.
Pass ==
    /\ At(Server, "idle")
    /\ line > Len(Tests[test])
    /\ UNCHANGED scenarioVars

ScenarioInit ==
    /\ SchedulerInit
    /\ test \in DOMAIN Tests
    /\ line = 1
    /\ answer = None

ScenarioNext == Call \/ Proceed \/ Pass

ScenarioSpec == ScenarioInit /\ [][ScenarioNext]_scenarioVars

--------------------------------------------------------------------------------
(* Property *)

\* Every assertion of the repository's tests holds of the model: when a call of a test
\* has returned, the model's answer is the one that the test expects of the code.
TestsAgree ==
    At(Server, "idle") /\ line > 1 => answer = Tests[test][line - 1].expect

================================================================================

------------------------------- MODULE Scheduler -------------------------------
(***************************************************************************)
(* The scheduler endpoints and loops (src/scheduler.rs and cancel_job in   *)
(* src/jobs.rs), which join the job registry and the worker registry.      *)
(*                                                                         *)
(* Each registry has its own lock, and a handler takes one lock after the  *)
(* other: it sweeps expired leases, gives back their slots one by one,     *)
(* takes a slot, claims a job, and so on.  Between two of these steps any  *)
(* other handler may run.  A handler is a record of what it is doing (op)  *)
(* and of its next step (pc).  Callback dispatch is module Callbacks.      *)
(***************************************************************************)
EXTENDS JobRegistry, WorkerRegistry

CONSTANTS
    Handlers,       \* bound: requests and loop iterations in progress at a time
    Pools,          \* pool names
    WorkloadPools,  \* WorkloadPoolPolicy: kind -> pools, for the kinds with a policy
    Profiles,       \* what register may carry: [job_types, pool, max_concurrent_jobs]
    MayDisconnect,  \* bound: whether clients can go away during a request
    MayRestart      \* bound: whether Fairlead can restart

VARIABLES
    handler,
    leaked,         \* history: slots of each worker that dropped handlers never gave back
    reloaded        \* history: slots of each worker that a restart lost and nobody gave back yet

schedulerVars == <<vars, workers, handler, leaked, reloaded>>

ASSUME ProfilesAssumption ==
    Profiles \subseteq [job_types : SUBSET Kinds, pool : Pools,
                        max_concurrent_jobs : (Nat \ {0}) \cup {Unlimited}]
ASSUME WorkloadPoolsAssumption ==
    /\ DOMAIN WorkloadPools \subseteq Kinds
    /\ \A kind \in DOMAIN WorkloadPools : WorkloadPools[kind] \subseteq Pools
ASSUME HandlersAssumption == IsFiniteSet(Handlers)
ASSUME SwitchesAssumption == MayDisconnect \in BOOLEAN /\ MayRestart \in BOOLEAN

--------------------------------------------------------------------------------
(* Handlers *)

\* What a worker's request asks for; unused fields are None.
Operation(name, worker, job, attempt, report) ==
    [name |-> name, worker |-> worker, job |-> job, attempt |-> attempt, report |-> report]

NoOperation == Operation("none", None, None, None, None)

Idle == [pc |-> "idle", op |-> NoOperation, kinds |-> {}, releases |-> <<>>]

At(h, pc) == handler[h].pc = pc

\* Handler h is about to take step pc of operation op.
Continue(h, op, pc) == handler' = [handler EXCEPT ![h] = [Idle EXCEPT !.op = op, !.pc = pc]]

Finish(h) == handler' = [handler EXCEPT ![h] = Idle]

\* Handler h gives back a slot of each of these workers, then takes step next of op.
ReleaseThen(h, released, op, next) ==
    IF released = <<>>
    THEN IF next = "idle" THEN Finish(h) ELSE Continue(h, op, next)
    ELSE handler' = [handler EXCEPT ![h] = [Idle EXCEPT !.op = op, !.pc = "release",
                                                        !.releases = released]]

\* The step of operation op that follows its sweep of expired leases.
AfterSweep(op) ==
    CASE op.name = "claim" -> "acquire"
      [] op.name \in {"renew", "complete", "fail"} -> "apply"
      [] op.name \in {"recovery", "none"} -> "idle"

\* WorkloadPoolPolicy::allows: kinds without a policy may run in any pool.
Allows(kind, pool) == kind \in DOMAIN WorkloadPools => pool \in WorkloadPools[kind]

AllowedKinds(worker) == {kind \in worker.job_types : Allows(kind, worker.pool)}

--------------------------------------------------------------------------------
(* Steps *)

\* Mutant: the slots of jobs that have no attempt left are not given back.
ReleasedWorkersRequeued ==
    LET ids == Ascending({id \in ExpiredLeases(jobs) : jobs[id].attempts < MaxAttempts})
    IN  [k \in DOMAIN ids |-> jobs[ids[k]].lease.worker_id]

\* LeaseExpiryReport.released_workers.
ReleasedWorkers ==
    LET ids == Ascending(ExpiredLeases(jobs))
    IN  [k \in DOMAIN ids |-> jobs[ids[k]].lease.worker_id]

\* sweep_expired_leases: the registry's part; the slots are given back afterwards.
SweepExpiredLeases(h, op, ok) ==
    /\ ReleaseThen(h, ReleasedWorkers, op, AfterSweep(op))
    /\ RequeueExpiredLeases(ok)
    /\ UNCHANGED workers

\* One iteration of spawn_lease_recovery_loop.
LeaseRecovery(h, ok) ==
    /\ At(h, "idle")
    /\ SweepExpiredLeases(h, Operation("recovery", None, None, None, None), ok)

\* claim_worker_job_handler begins with the sweep.
ClaimRequest(h, worker, ok) ==
    /\ At(h, "idle")
    /\ SweepExpiredLeases(h, Operation("claim", worker, None, None, None), ok)

\* The renew, complete and fail handlers begin with state.workers.get; an unknown or
\* stale worker is refused.
ReportRequest(h, op) ==
    /\ At(h, "idle")
    /\ Reachable(op.worker)
    /\ Continue(h, op, "sweep")
    /\ UNCHANGED <<vars, workers>>

\* Then they sweep.
ReportSweep(h, ok) ==
    /\ At(h, "sweep")
    /\ SweepExpiredLeases(h, handler[h].op, ok)

\* state.workers.release_slot, for the next worker on the handler's list.
Release(h) ==
    /\ At(h, "release")
    /\ ReleaseSlot(Head(handler[h].releases))
    /\ ReleaseThen(h, Tail(handler[h].releases), handler[h].op, AfterSweep(handler[h].op))
    /\ UNCHANGED vars

\* try_acquire_slot; the answer carries the worker's job types and pool.
AcquireSlot(h) ==
    LET worker == handler[h].op.worker
    IN  /\ At(h, "acquire")
        /\ IF CanAcquire(worker)
           THEN /\ TryAcquireSlot(worker)
                /\ handler' = [handler EXCEPT ![h].pc = "claim",
                                              ![h].kinds = AllowedKinds(workers[worker])]
           ELSE Finish(h) /\ UNCHANGED workers
        /\ UNCHANGED vars

\* Some queue has a job for these kinds.
WorkWaiting(kinds) ==
    \E p \in Priorities : \E i \in DOMAIN queues[p] : Claimable(kinds, p, i)

\* claim_next_for_worker_in_pool; without a job the slot is given back.
ClaimNext(h, ok) ==
    LET worker == handler[h].op.worker
        kinds == handler[h].kinds
    IN  /\ At(h, "claim")
        /\ \/ /\ Claim(worker, kinds, ok)
              /\ IF ok THEN Finish(h) ELSE ReleaseThen(h, <<worker>>, NoOperation, "idle")
           \/ /\ ~WorkWaiting(kinds)
              /\ ReleaseThen(h, <<worker>>, NoOperation, "idle")
              /\ UNCHANGED vars
        /\ UNCHANGED workers

ApplyRenew(h, ok) ==
    LET op == handler[h].op
    IN  /\ At(h, "apply") /\ op.name = "renew"
        /\ \/ RenewLease(op.job, op.worker, ok)
           \/ ~HoldsLease(op.job, op.worker) /\ UNCHANGED vars
        /\ Finish(h)
        /\ UNCHANGED workers

\* Mutant: an exact duplicate of the report gives back a slot again.
AfterReportAlways(h, ok, done) ==
    IF ok THEN ReleaseThen(h, <<handler[h].op.worker>>, NoOperation, "idle") ELSE Finish(h)

\* The slot is given back when the report ended the attempt and was committed.
AfterReport(h, ok, done) ==
    IF done /\ ok
    THEN ReleaseThen(h, <<handler[h].op.worker>>, NoOperation, "idle")
    ELSE Finish(h)

\* complete_lease and the answer; a refused report changes nothing.
ApplyComplete(h, ok) ==
    LET op == handler[h].op
        done == ReportsLease(op.job, op.worker, op.attempt)
    IN  /\ At(h, "apply") /\ op.name = "complete"
        /\ \/ CompleteLease(op.job, op.worker, op.attempt, op.report, ok)
           \/ CompleteAgain(op.job, op.worker, op.attempt, op.report)
           \/ ~done /\ UNCHANGED vars
        /\ AfterReport(h, ok, done)
        /\ UNCHANGED workers

\* fail_lease and the answer; the slot is given back on a requeue too.
ApplyFail(h, ok) ==
    LET op == handler[h].op
        done == ReportsLease(op.job, op.worker, op.attempt)
    IN  /\ At(h, "apply") /\ op.name = "fail"
        /\ \/ FailLease(op.job, op.worker, op.attempt, op.report, ok)
           \/ FailAgain(op.job, op.worker, op.attempt, op.report)
           \/ ~done /\ UNCHANGED vars
        /\ AfterReport(h, ok, done)
        /\ UNCHANGED workers

\* cancel_job: the lease that the cancelled job still carries names the slot.
CancelRequest(h, id, ok) ==
    /\ At(h, "idle")
    /\ \/ /\ Cancel(id, ok)
          /\ IF ok /\ jobs[id].lease # None
             THEN ReleaseThen(h, <<jobs[id].lease.worker_id>>, NoOperation, "idle")
             ELSE Finish(h)
       \/ CancelAgain(id) /\ Finish(h)
    /\ UNCHANGED workers

Running(w) == {id \in DOMAIN jobs : jobs[id].status = "running" /\ jobs[id].lease.worker_id = w}

InFlight(w) == IF w \in DOMAIN workers THEN workers[w].in_flight_jobs ELSE 0

\* History: what is left of reloaded[w] after a step of handler h.  A release_slot that
\* finds no slot taken has met one that a restart lost.
StillLost(h, w) ==
    IF At(h, "release") /\ Head(handler[h].releases) = w /\ InFlight(w) = 0 /\ reloaded[w] > 0
    THEN reloaded[w] - 1
    ELSE reloaded[w]

\* The slots of w that handler h holds for a claim or is about to give back.
HeldBy(h, w) ==
    (IF At(h, "claim") /\ handler[h].op.worker = w THEN {0} ELSE {})
    \cup {k \in DOMAIN handler[h].releases : handler[h].releases[k] = w}

\* The server drops a handler whose client went away, at a step it waits for; the
\* slots that it holds are not given back.
Disconnect(h) ==
    /\ MayDisconnect
    /\ ~At(h, "idle")
    /\ handler[h].op.name # "recovery"
    /\ Finish(h)
    /\ leaked' = [w \in Workers |-> leaked[w] + Cardinality(HeldBy(h, w))]
    /\ UNCHANGED <<vars, workers, reloaded>>

--------------------------------------------------------------------------------
(* Specification *)

SchedulerInit ==
    /\ Init
    /\ InitWorkers
    /\ handler = [h \in Handlers |-> Idle]
    /\ leaked = [w \in Workers |-> 0]
    /\ reloaded = [w \in Workers |-> 0]

\* The requests a worker may send about a job.
Reports ==
    {Operation("renew", worker, id, None, None) : worker \in Workers, id \in JobIds}
    \cup {Operation("complete", worker, id, attempt, result) :
            worker \in Workers, id \in JobIds, attempt \in ReportedAttempts, result \in Results}
    \cup {Operation("fail", worker, id, attempt, failure) :
            worker \in Workers, id \in JobIds, attempt \in ReportedAttempts, failure \in Reported}

\* A report about a job that does not exist is left out: it sweeps, as LeaseRecovery does,
\* and is answered with 404.
HandlerStep(h) ==
    \/ \E op \in Reports : op.job \in DOMAIN jobs /\ ReportRequest(h, op)
    \/ Release(h)
    \/ AcquireSlot(h)
    \/ \E ok \in Outcomes :
          \/ LeaseRecovery(h, ok)
          \/ \E worker \in Workers : ClaimRequest(h, worker, ok)
          \/ \E id \in JobIds : CancelRequest(h, id, ok)
          \/ ReportSweep(h, ok)
          \/ ClaimNext(h, ok)
          \/ ApplyRenew(h, ok)
          \/ ApplyComplete(h, ok)
          \/ ApplyFail(h, ok)

HandlerNext(h) ==
    \/ /\ HandlerStep(h)
       /\ reloaded' = [w \in Workers |-> StillLost(h, w)]
       /\ UNCHANGED leaked
    \/ Disconnect(h)

WorkerRegistryNext ==
    /\ \E worker \in Workers :
          \/ \E profile \in Profiles : Register(worker, profile)
          \/ Heartbeat(worker)
          \/ GoStale(worker)
          \/ Drain(worker)
          \/ Reactivate(worker)
          \/ Deregister(worker)
    /\ UNCHANGED <<vars, handler, leaked, reloaded>>

\* submit_job, prune_jobs and the clock touch the job registry only.
RegistryOnlyNext ==
    /\ \/ \E request \in Requests, key \in Keys \cup {None} :
             \/ \E ok \in Outcomes : Submit(request, key, ok)
             \/ SubmitAgain(request, key)
       \/ \E ok \in Outcomes : PruneTerminalJobs(ok)
       \/ Tick
    /\ UNCHANGED <<workers, handler, leaked, reloaded>>

\* The worker registry and the handlers are not persisted.
SchedulerRestart ==
    /\ MayRestart
    /\ Restart
    /\ workers' = [w \in {} |-> 0]
    /\ handler' = [h \in Handlers |-> Idle]
    /\ leaked' = [w \in Workers |-> 0]
    /\ reloaded' = [w \in Workers |-> Cardinality(Running(w)')]

SchedulerNext ==
    \/ \E h \in Handlers : HandlerNext(h)
    \/ WorkerRegistryNext
    \/ RegistryOnlyNext
    \/ SchedulerRestart

SchedulerSpec == SchedulerInit /\ [][SchedulerNext]_schedulerVars

--------------------------------------------------------------------------------
(* Properties *)

\* Handlers that hold a slot of w for which they have not claimed a job yet.
Claiming(w) == {h \in Handlers : At(h, "claim") /\ handler[h].op.worker = w}

\* Slots of w that some handler is about to give back.
Releasing(w) ==
    UNION {{h} \X {k \in DOMAIN handler[h].releases : handler[h].releases[k] = w} : h \in Handlers}

SlotsInUse(w) ==
    Cardinality(Running(w)) + Cardinality(Claiming(w)) + Cardinality(Releasing(w))

\* Every lease, every slot taken for a claim and every release still to come is
\* counted in the worker's in_flight_jobs, at every step between the two locks.  So a
\* worker is never given more than it can run, and deregister, which looks only at
\* in_flight_jobs, never forgets a worker that holds a lease.  The count is too small
\* only by the leases that a restart reloaded without their slots, until as many
\* releases found it at 0.
SlotsCoverWork ==
    \A w \in Workers : InFlight(w) + reloaded[w] >= SlotsInUse(w) + leaked[w]

\* in_flight_jobs counts nothing else: apart from the slots of dropped handlers no
\* slot stays taken for work that is over, so a worker without work is not refused
\* for lack of capacity; nor are more slots called lost by a restart than it lacks.
NoPhantomSlots ==
    \A w \in Workers : InFlight(w) + reloaded[w] <= SlotsInUse(w) + leaked[w]

\* A worker never runs more jobs than it declared (README: claims respect
\* max_concurrent_jobs), as long as it does not register again with a lower number.
\* Slots that dropped handlers leaked make it run fewer, slots that a restart lost more.
CapacityRespected ==
    \A w \in DOMAIN workers :
        workers[w].max_concurrent_jobs # Unlimited =>
            Cardinality(Running(w)) + leaked[w] <= workers[w].max_concurrent_jobs + reloaded[w]

================================================================================

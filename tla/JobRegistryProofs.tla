-------------------------- MODULE JobRegistryProofs ---------------------------
(***************************************************************************)
(* Theorems about JobRegistry, for every value of its constants.           *)
(***************************************************************************)
EXTENDS JobRegistry, JobQueuesProofs

--------------------------------------------------------------------------------
(* Facts about the bounds and the operators *)

\* The numbers that jobs can have: finitely many naturals.
LEMMA JobIdsFinite == JobIds \in SUBSET Int /\ JobIds \in SUBSET Nat /\ IsFiniteSet(JobIds)
BY BoundsAssumption, FS_Interval DEF JobIds

\* A snapshot holds the jobs as they are and a place for each of them.
LEMMA SnapshotType ==
    ASSUME NEW js, JobTable(js), NEW qs \in [Priorities -> Seq(JobIds)]
    PROVE  /\ DOMAIN Snapshot(js, qs) = {"jobs", "queue_position"}
           /\ Snapshot(js, qs).jobs = js
           /\ Snapshot(js, qs).queue_position = QueuePositions(js, qs)
           /\ QueuePositions(js, qs) \in [DOMAIN js -> Nat]
<1>1. ASSUME NEW id, NEW p \in Priorities, id \in Members(qs[p])
      PROVE  Position(qs[p], id) - 1 \in Nat
  <2>1. Position(qs[p], id) \in DOMAIN qs[p]
    BY <1>1 DEF Position, Members
  <2>2. DOMAIN qs[p] = 1..Len(qs[p]) /\ Len(qs[p]) \in Nat
    BY LenProperties
  <2>3. QED
    BY <2>1, <2>2
<1>2. QueuePositions(js, qs) \in [DOMAIN js -> Nat]
  <2>1. ASSUME NEW id \in DOMAIN js
        PROVE  (IF \E p \in Priorities : id \in Members(qs[p])
                THEN Position(qs[CHOOSE p \in Priorities : id \in Members(qs[p])], id) - 1
                ELSE NoPosition) \in Nat
    BY <1>1, BoundsAssumption DEF NoPosition
  <2>2. QED
    BY <2>1 DEF QueuePositions
<1>3. QED
  BY <1>2 DEF Snapshot

\* A job whose status and terminal attempt are set.
Settled(job, status, attempt) == [job EXCEPT !.status = status, !.terminal_attempt = attempt]

\* It keeps its other fields.
LEMMA RecordSettled ==
    ASSUME NEW job \in JobRecord, NEW status \in JobStatus,
           NEW attempt \in TerminalAttempt \cup {None}
    PROVE  /\ Settled(job, status, attempt) \in JobRecord
           /\ Settled(job, status, attempt).status = status
           /\ Settled(job, status, attempt).lease = job.lease
           /\ Settled(job, status, attempt).attempts = job.attempts
           /\ Settled(job, status, attempt).request = job.request
           /\ Settled(job, status, attempt).idempotency_key = job.idempotency_key
<1>1. Settled(job, status, attempt) \in JobRecord
  BY DEF Settled, JobRecord
<1>2. /\ Settled(job, status, attempt).status = status
      /\ Settled(job, status, attempt).lease = job.lease
      /\ Settled(job, status, attempt).attempts = job.attempts
      /\ Settled(job, status, attempt).request = job.request
      /\ Settled(job, status, attempt).idempotency_key = job.idempotency_key
  BY DEF Settled, JobRecord
<1>3. QED
  BY <1>1, <1>2

\* What the operators on one job return.
LEMMA RecordTypes ==
    ASSUME now \in Nat, NEW job \in JobRecord
    PROVE  /\ PrepareCallback(job) \in JobRecord
           /\ CancelledJob(job) \in JobRecord
           /\ TimedOutJob(job) \in JobRecord
           /\ \A worker \in Workers : ClaimedJob(job, worker) \in JobRecord
           /\ job.lease # None =>
                /\ RenewedJob(job) \in JobRecord
                /\ \A result \in Results : CompletedJob(job, result) \in JobRecord
                /\ \A failure \in Reported : FailedJob(job, failure) \in JobRecord
<1>1. \A j \in JobRecord : PrepareCallback(j) \in JobRecord
  BY DEF PrepareCallback, JobRecord, CallbackStatus
<1>2. CancelledJob(job) \in JobRecord
  <2>1. [job EXCEPT !.status = "cancelled", !.updated_at = now,
                    !.terminal_attempt = None] \in JobRecord
    BY DEF JobRecord, JobStatus
  <2>2. QED
    BY <1>1, <2>1 DEF CancelledJob
<1>3. TimedOutJob(job) \in JobRecord
  <2> DEFINE retryable == job.attempts < MaxAttempts
             base == [job EXCEPT !.result = None, !.lease = None, !.updated_at = now,
                        !.error = [message |-> AttemptTimeout, retryable |-> retryable],
                        !.status = IF retryable THEN "queued" ELSE "failed"]
  <2>1. [message |-> AttemptTimeout, retryable |-> retryable] \in JobFailure
    BY DEF JobFailure
  <2>2. base \in JobRecord
    BY <2>1 DEF JobRecord, JobStatus
  <2>3. QED
    BY <1>1, <2>2 DEF TimedOutJob
<1>4. ASSUME NEW worker \in Workers PROVE ClaimedJob(job, worker) \in JobRecord
  <2> DEFINE lease == [worker_id |-> worker, attempt |-> job.attempts + 1,
                       expires_at |-> now + LeaseDuration]
  <2>1. lease \in JobLease
    BY BoundsAssumption DEF JobRecord, JobLease
  <2>2. job.attempts + 1 \in Nat
    BY DEF JobRecord
  <2>3. ClaimedJob(job, worker) =
            [job EXCEPT !.status = "running", !.attempts = job.attempts + 1, !.result = None,
                        !.terminal_attempt = None, !.updated_at = now, !.lease = lease]
    BY DEF ClaimedJob, JobRecord
  <2> HIDE DEF lease
  <2>4. QED
    BY <2>1, <2>2, <2>3 DEF JobRecord, JobStatus
<1>5. ASSUME job.lease # None
      PROVE  [worker_id |-> job.lease.worker_id, attempt |-> job.lease.attempt]
                \in TerminalAttempt
  BY <1>5 DEF JobRecord, JobLease, TerminalAttempt
<1>6. ASSUME job.lease # None, NEW result \in Results
      PROVE  CompletedJob(job, result) \in JobRecord
  <2>1. [job EXCEPT !.status = "complete", !.result = result, !.error = None,
                    !.lease = None, !.updated_at = now,
                    !.terminal_attempt = [worker_id |-> job.lease.worker_id,
                                          attempt |-> job.lease.attempt]] \in JobRecord
    BY <1>5, <1>6 DEF JobRecord, JobStatus
  <2>2. QED
    BY <1>1, <2>1 DEF CompletedJob
<1>7. ASSUME job.lease # None, NEW failure \in Reported
      PROVE  FailedJob(job, failure) \in JobRecord
  <2> DEFINE base == [job EXCEPT !.result = None, !.error = failure, !.lease = None,
                                 !.updated_at = now]
             attempt == [worker_id |-> job.lease.worker_id, attempt |-> job.lease.attempt]
  <2>1. base \in JobRecord
    <3>1. failure \in JobFailure
      BY <1>7 DEF Reported, JobFailure
    <3>2. QED
      BY <3>1 DEF JobRecord
  <2>2. attempt \in TerminalAttempt
    BY <1>5, <1>7
  <2> HIDE DEF base, attempt
  <2>3. /\ [base EXCEPT !.status = "queued", !.terminal_attempt = None] \in JobRecord
        /\ [base EXCEPT !.status = "failed", !.terminal_attempt = attempt] \in JobRecord
    <3>1. /\ Settled(base, "queued", None) \in JobRecord
          /\ Settled(base, "failed", attempt) \in JobRecord
      BY <2>1, <2>2, RecordSettled DEF JobStatus
    <3>2. QED
      BY <3>1 DEF Settled
  <2>4. QED
    BY <1>1, <2>3 DEF FailedJob, base, attempt
<1>8. ASSUME job.lease # None PROVE RenewedJob(job) \in JobRecord
  <2> DEFINE lease == [job.lease EXCEPT !.expires_at = now + LeaseDuration]
  <2>1. now + LeaseDuration \in Nat
    BY BoundsAssumption
  <2>2. lease \in JobLease
    BY <1>8, <2>1 DEF JobRecord, JobLease
  <2>3. RenewedJob(job) = [job EXCEPT !.lease = lease, !.updated_at = now]
    BY DEF RenewedJob, JobRecord
  <2> HIDE DEF lease
  <2>4. QED
    BY <2>2, <2>3 DEF JobRecord
<1>9. QED
  BY <1>1, <1>2, <1>3, <1>4, <1>6, <1>7, <1>8

\* A job of a table can be replaced by another record.
LEMMA TableUpdate ==
    ASSUME NEW js, JobTable(js), NEW id \in DOMAIN js, NEW job \in JobRecord
    PROVE  /\ JobTable([js EXCEPT ![id] = job])
           /\ DOMAIN [js EXCEPT ![id] = job] = DOMAIN js
BY DEF JobTable

\* The queues after jobs are taken out of one of them or one is appended.
LEMMA QueueUpdate ==
    ASSUME NEW qs \in [Priorities -> Seq(JobIds)], NEW p \in Priorities
    PROVE  /\ \A ids : [qs EXCEPT ![p] = Without(@, ids)] \in [Priorities -> Seq(JobIds)]
           /\ \A id \in JobIds : [qs EXCEPT ![p] = Append(@, id)] \in [Priorities -> Seq(JobIds)]
<1>1. \A ids : Without(qs[p], ids) \in Seq(JobIds)
  BY JobIdsFinite, WithoutLists
<1>2. \A id \in JobIds : Append(qs[p], id) \in Seq(JobIds)
  BY AppendProperties
<1>3. QED
  BY <1>1, <1>2

\* What taking back expired leases returns.
LEMMA SweptTypes ==
    ASSUME now \in Nat, NEW js, JobTable(js), NEW qs \in [Priorities -> Seq(JobIds)]
    PROVE  /\ JobTable(SweptJobs(js))
           /\ DOMAIN SweptJobs(js) = DOMAIN js
           /\ SweptQueues(js, qs) \in [Priorities -> Seq(JobIds)]
<1>1. \A id \in DOMAIN js : js[id] \in JobRecord /\ id \in JobIds
  BY DEF JobTable
<1>2. \A id \in DOMAIN js : TimedOutJob(js[id]) \in JobRecord
  BY <1>1, RecordTypes
<1>3. DOMAIN SweptJobs(js) = DOMAIN js /\ JobTable(SweptJobs(js))
  BY <1>1, <1>2 DEF SweptJobs, JobTable
<1>4. ASSUME NEW S \in SUBSET JobIds PROVE Ascending(S) \in Seq(JobIds)
  <2>1. S \in SUBSET Int /\ IsFiniteSet(S)
    BY JobIdsFinite, FS_Subset
  <2>2. QED
    BY <2>1, AscendingLists, SeqMonotonic
<1>5. ExpiredLeases(js) \in SUBSET JobIds
  BY <1>1 DEF ExpiredLeases
<1>6. ASSUME NEW p \in Priorities
      PROVE  qs[p] \o Ascending({id \in ExpiredLeases(js) \ Members(qs[p]) :
                                PriorityOf(js[id]) = p /\ js[id].attempts < MaxAttempts})
                \in Seq(JobIds)
  <2> DEFINE S == {id \in ExpiredLeases(js) \ Members(qs[p]) :
                                PriorityOf(js[id]) = p /\ js[id].attempts < MaxAttempts}
  <2>1. Ascending(S) \in Seq(JobIds)
    BY <1>4, <1>5
  <2>2. QED
    BY <2>1, ConcatProperties
<1>7. QED
  BY <1>3, <1>6 DEF SweptQueues

\* What load_registry_snapshot returns.
LEMMA LoadTypes ==
    ASSUME NEW rows, JobTable(rows.jobs), rows.queue_position \in [DOMAIN rows.jobs -> Nat]
    PROVE  /\ LoadNextId(rows) \in 0..MaxJobs
           /\ \A id \in DOMAIN rows.jobs : id <= LoadNextId(rows)
           /\ DOMAIN LoadKeys(rows) \subseteq Keys
           /\ LoadKeys(rows) \in [DOMAIN LoadKeys(rows) -> JobIds]
           /\ LoadQueues(rows) \in [Priorities -> Seq(JobIds)]
           /\ QueuesMatch(rows.jobs, LoadQueues(rows))
<1>1. DOMAIN rows.jobs \in SUBSET JobIds /\ \A id \in DOMAIN rows.jobs : rows.jobs[id] \in JobRecord
  BY DEF JobTable
<1>2. LoadNextId(rows) \in 0..MaxJobs /\ \A id \in DOMAIN rows.jobs : id <= LoadNextId(rows)
  <2>1. CASE DOMAIN rows.jobs = {}
    BY <2>1, BoundsAssumption DEF LoadNextId
  <2>2. CASE DOMAIN rows.jobs # {}
    <3>1. \E x \in DOMAIN rows.jobs : \A y \in DOMAIN rows.jobs : y <= x
      BY <1>1, <2>2, BoundsAssumption, LargestExists DEF JobIds
    <3>2. LoadNextId(rows) \in DOMAIN rows.jobs /\ \A y \in DOMAIN rows.jobs : y <= LoadNextId(rows)
      BY <2>2, <3>1 DEF LoadNextId
    <3>3. QED
      BY <1>1, <3>2, BoundsAssumption DEF JobIds
  <2>3. QED
    BY <2>1, <2>2
<1>3. /\ DOMAIN LoadKeys(rows) \subseteq Keys
      /\ LoadKeys(rows) \in [DOMAIN LoadKeys(rows) -> JobIds]
  <2>1. \A id \in DOMAIN rows.jobs : rows.jobs[id].idempotency_key \in Keys \cup {None}
    BY <1>1 DEF JobRecord
  <2>2. QED
    BY <1>1, <2>1 DEF LoadKeys
<1>4. ASSUME NEW p \in Priorities
      PROVE  /\ LoadQueues(rows)[p] \in Seq(JobIds)
             /\ NoDuplicates(LoadQueues(rows)[p])
             /\ Members(LoadQueues(rows)[p]) = Waiting(rows.jobs, p)
  <2> DEFINE waiting == Waiting(rows.jobs, p)
             rank == [id \in waiting |-> rows.queue_position[id]]
  <2>1. waiting \in SUBSET JobIds /\ waiting \in SUBSET Int /\ IsFiniteSet(waiting)
    BY <1>1, JobIdsFinite, FS_Subset DEF Waiting
  <2>2. rank \in [waiting -> Int]
    BY DEF Waiting
  <2>3. /\ SortedBy(waiting, rank) \in Seq(waiting)
        /\ Members(SortedBy(waiting, rank)) = waiting
        /\ NoDuplicates(SortedBy(waiting, rank))
    <3> HIDE DEF waiting, rank
    <3> QED
      BY <2>1, <2>2, SortedByLists
  <2>4. SortedBy(waiting, rank) \in Seq(JobIds)
    BY <2>1, <2>3, SeqMonotonic
  <2>5. LoadQueues(rows)[p] = SortedBy(waiting, rank)
    BY DEF LoadQueues
  <2>6. QED
    BY <2>3, <2>4, <2>5
<1>5. LoadQueues(rows) \in [Priorities -> Seq(JobIds)] /\ QueuesMatch(rows.jobs, LoadQueues(rows))
  BY <1>4 DEF LoadQueues, QueuesMatch
<1>6. QED
  BY <1>2, <1>3, <1>5

--------------------------------------------------------------------------------
(* Type correctness *)

\* Committing or losing a snapshot of a well-typed registry.
LEMMA PersistType ==
    ASSUME TypeOK, NEW ok \in Outcomes, Persist(ok),
           JobTable(jobs'), queues' \in [Priorities -> Seq(JobIds)]
    PROVE  /\ DOMAIN store' = {"jobs", "queue_position"}
           /\ JobTable(store'.jobs)
           /\ store'.queue_position \in [DOMAIN store'.jobs -> Nat]
           /\ behind' \in 0..MaxBehind
           /\ store'.jobs \in {store.jobs, jobs'}
<1>1. behind' \in 0..MaxBehind
  <2>1. behind' = IF ok THEN 0 ELSE behind + 1
    BY DEF Persist
  <2>2. behind \in 0..MaxBehind
    BY DEF TypeOK
  <2>3. CASE behind < MaxBehind
    BY <2>1, <2>2, <2>3, BoundsAssumption
  <2>4. CASE ~(behind < MaxBehind)
    <3>1. ok
      BY <2>4, Zenon DEF Outcomes
    <3>2. QED
      BY <2>1, <3>1, BoundsAssumption
  <2>5. QED
    BY <2>3, <2>4
<1>2. CASE ok
  BY <1>1, <1>2, SnapshotType DEF Persist
<1>3. CASE ~ok
  BY <1>1, <1>3 DEF Persist, TypeOK
<1>4. QED
  BY <1>2, <1>3

\* A success answer is recorded with its type.
LEMMA AnswerTypes ==
    ASSUME TypeOK, NEW id \in JobIds, NEW state \in Ack
    PROVE  /\ Answered(id, state) => acked' \in [JobIds -> Ack]
           /\ AnsweredAgain(id, state) => acked' \in [JobIds -> Ack]
<1>1. acked \in [JobIds -> Ack]
  BY DEF TypeOK
<1>2. QED
  BY <1>1 DEF Answered, AnsweredAgain

\* A repeated call changes nothing but the history of answers.
LEMMA RepeatedType ==
    ASSUME TypeOK, acked' \in [JobIds -> Ack],
           UNCHANGED <<registryVars, store, now, behind, granted>>
    PROVE  TypeOK'
BY DEF TypeOK, registryVars, JobTable

\* A change of the jobs and queues, persisted or not, keeps the types.
LEMMA ChangeType ==
    ASSUME TypeOK, NEW ok \in Outcomes, JobTable(jobs'),
           queues' \in [Priorities -> Seq(JobIds)], Persist(ok),
           UNCHANGED <<next_id, idempotency_keys, now>>,
           acked' \in [JobIds -> Ack], granted' \in [JobIds -> Nat]
    PROVE  TypeOK'
BY PersistType DEF TypeOK

\* The registry opened on an empty database is well-typed.
LEMMA TypeInit == Init => TypeOK
<1> SUFFICES ASSUME Init PROVE TypeOK
  OBVIOUS
<1>1. JobTable(NoJobs) /\ NoQueues \in [Priorities -> Seq(JobIds)]
  BY DEF JobTable, NoJobs, NoQueues
<1>2. "none" \in Ack
  BY DEF Ack
<1>3. QED
  BY <1>1, <1>2, SnapshotType, BoundsAssumption DEF Init, TypeOK

\* submit and cancel, and their repeated forms, keep the types.
LEMMA TypeCaller == TypeOK /\ CallerNext => TypeOK'
<1> SUFFICES ASSUME TypeOK, CallerNext PROVE TypeOK'
  OBVIOUS
<1>1. ASSUME NEW request \in Requests, NEW key \in Keys \cup {None}, NEW ok \in Outcomes,
             Submit(request, key, ok)
      PROVE  TypeOK'
  <2> DEFINE id == next_id + 1
  <2>1. id \in JobIds /\ id \in 0..MaxJobs
    BY <1>1, BoundsAssumption DEF Submit, TypeOK, JobIds
  <2>2. NewJob(request, key) \in JobRecord
    BY DEF NewJob, JobRecord, JobStatus, CallbackStatus, TypeOK
  <2>3. JobTable(jobs')
    BY <1>1, <2>1, <2>2 DEF Submit, JobTable, TypeOK
  <2>4. request.priority \in Priorities
    BY RequestsAssumption DEF SubmitRequest
  <2>5. queues' \in [Priorities -> Seq(JobIds)]
    BY <1>1, <2>1, <2>4, QueueUpdate DEF Submit, TypeOK
  <2>6. /\ DOMAIN idempotency_keys' \subseteq Keys
        /\ idempotency_keys' \in [DOMAIN idempotency_keys' -> JobIds]
    BY <1>1, <2>1 DEF Submit, TypeOK
  <2>7. acked' \in [JobIds -> Ack]
    <3>1. "none" \in Ack /\ "accepted" \in Ack
      BY DEF Ack
    <3>2. QED
      BY <1>1, <2>1, <3>1, AnswerTypes DEF Submit, TypeOK
  <2>8. granted' \in [JobIds -> Nat]
    BY <1>1, <2>1 DEF Submit, TypeOK
  <2>9. Persist(ok) /\ next_id' = id /\ now' = now
    BY <1>1 DEF Submit
  <2>10. QED
    BY <2>1, <2>3, <2>5, <2>6, <2>7, <2>8, <2>9, PersistType DEF TypeOK
<1>2. ASSUME NEW request \in Requests, NEW key \in Keys \cup {None}, SubmitAgain(request, key)
      PROVE  TypeOK'
  <2>1. idempotency_keys[key] \in JobIds /\ "accepted" \in Ack
    BY <1>2 DEF SubmitAgain, KeyInUse, TypeOK, Ack
  <2>2. acked' \in [JobIds -> Ack]
    BY <1>2, <2>1, AnswerTypes DEF SubmitAgain, TypeOK
  <2>3. QED
    BY <1>2, <2>2, RepeatedType DEF SubmitAgain
<1>3. ASSUME NEW id \in JobIds, NEW ok \in Outcomes, Cancel(id, ok)
      PROVE  TypeOK'
  <2>1. id \in DOMAIN jobs /\ jobs[id] \in JobRecord
    BY <1>3 DEF Cancel, CanCancel, TypeOK, JobTable
  <2>2. JobTable(jobs')
    BY <1>3, <2>1, RecordTypes, TableUpdate DEF Cancel, TypeOK
  <2>3. PriorityOf(jobs[id]) \in Priorities
    BY <2>1, RequestsAssumption DEF PriorityOf, JobRecord, SubmitRequest
  <2>4. queues' \in [Priorities -> Seq(JobIds)]
    BY <1>3, <2>3, QueueUpdate DEF Cancel, TypeOK
  <2>5. acked' \in [JobIds -> Ack] /\ granted' \in [JobIds -> Nat]
    BY <1>3, AnswerTypes DEF Cancel, TypeOK, Ack
  <2>6. QED
    BY <1>3, <2>2, <2>4, <2>5, ChangeType DEF Cancel
<1>4. ASSUME NEW id \in JobIds, CancelAgain(id)
      PROVE  TypeOK'
  <2>1. acked' \in [JobIds -> Ack]
    BY <1>4, AnswerTypes DEF CancelAgain, Ack
  <2>2. QED
    BY <1>4, <2>1, RepeatedType DEF CancelAgain
<1>5. QED
  BY <1>1, <1>2, <1>3, <1>4 DEF CallerNext

\* The kinds of job that a worker may claim: KindSets is a bound of the specification, and
\* the scheduler passes what the worker's registration and the pool policy allow.
AnyClaim ==
    \E worker \in Workers, kinds \in SUBSET Kinds, ok \in Outcomes : Claim(worker, kinds, ok)

Step == Next \/ AnyClaim

\* A claim keeps the types, whatever kinds it is for.
LEMMA TypeClaim ==
    ASSUME TypeOK, NEW worker \in Workers, NEW kinds, NEW ok \in Outcomes,
           Claim(worker, kinds, ok)
    PROVE  TypeOK'
<1>1. PICK p \in Priorities : \E i \in DOMAIN queues[p] :
          /\ FirstClaimable(kinds, p, i)
          /\ jobs' = [jobs EXCEPT ![queues[p][i]] = ClaimedJob(@, worker)]
          /\ queues' = [queues EXCEPT ![p] = Without(@, {queues[p][i]})]
          /\ Persist(ok)
          /\ Granted(queues[p][i], ok)
          /\ UNCHANGED <<next_id, idempotency_keys, now, acked>>
  BY DEF Claim
<1>0. PICK i \in DOMAIN queues[p] :
          /\ FirstClaimable(kinds, p, i)
          /\ jobs' = [jobs EXCEPT ![queues[p][i]] = ClaimedJob(@, worker)]
          /\ queues' = [queues EXCEPT ![p] = Without(@, {queues[p][i]})]
          /\ Persist(ok)
          /\ Granted(queues[p][i], ok)
          /\ UNCHANGED <<next_id, idempotency_keys, now, acked>>
  BY <1>1
<1> DEFINE id == queues[p][i]
<1>2. id \in DOMAIN jobs /\ jobs[id] \in JobRecord /\ id \in JobIds
  BY <1>0 DEF FirstClaimable, Claimable, TypeOK, JobTable
<1>3. ClaimedJob(jobs[id], worker) \in JobRecord
  BY <1>2, RecordTypes DEF TypeOK
<1>4. JobTable(jobs') /\ DOMAIN jobs' = DOMAIN jobs
  BY <1>0, <1>2, <1>3, TableUpdate DEF TypeOK
<1>5. queues' \in [Priorities -> Seq(JobIds)]
  BY <1>0, QueueUpdate DEF TypeOK
<1>6. granted' \in [JobIds -> Nat]
  <2>1. jobs'[id].attempts \in Nat
    BY <1>2, <1>4 DEF JobTable, JobRecord
  <2>2. QED
    BY <1>0, <2>1 DEF Granted, TypeOK
<1>7. QED
  BY <1>0, <1>4, <1>5, <1>6, ChangeType DEF TypeOK
\* claim, renew, complete and fail keep the types.
LEMMA TypeWorker == TypeOK /\ WorkerNext => TypeOK'
<1> SUFFICES ASSUME TypeOK, NEW worker \in Workers,
                    \/ \E kinds \in KindSets, ok \in Outcomes : Claim(worker, kinds, ok)
                    \/ \E id \in JobIds :
                        \/ \E ok \in Outcomes : RenewLease(id, worker, ok)
                        \/ \E attempt \in ReportedAttempts, result \in Results :
                            \/ \E ok \in Outcomes : CompleteLease(id, worker, attempt, result, ok)
                            \/ CompleteAgain(id, worker, attempt, result)
                        \/ \E attempt \in ReportedAttempts, failure \in Reported :
                            \/ \E ok \in Outcomes : FailLease(id, worker, attempt, failure, ok)
                            \/ FailAgain(id, worker, attempt, failure)
             PROVE  TypeOK'
  BY DEF WorkerNext
<1>1. ASSUME NEW kinds \in KindSets, NEW ok \in Outcomes, Claim(worker, kinds, ok)
      PROVE  TypeOK'
  BY <1>1, TypeClaim
<1>2. ASSUME NEW id \in JobIds, HoldsLease(id, worker)
      PROVE  /\ id \in DOMAIN jobs /\ jobs[id] \in JobRecord
             /\ jobs[id].lease # None /\ jobs[id].lease \in JobLease
             /\ PriorityOf(jobs[id]) \in Priorities
  BY <1>2, RequestsAssumption
     DEF HoldsLease, TypeOK, JobTable, JobRecord, PriorityOf, SubmitRequest
<1>3. ASSUME NEW id \in JobIds, NEW ok \in Outcomes, RenewLease(id, worker, ok)
      PROVE  TypeOK'
  <2>1. HoldsLease(id, worker)
    BY <1>3 DEF RenewLease
  <2>2. RenewedJob(jobs[id]) \in JobRecord
    BY <1>2, <2>1, RecordTypes DEF TypeOK
  <2>3. JobTable(jobs')
    BY <1>2, <1>3, <2>1, <2>2, TableUpdate DEF RenewLease, TypeOK
  <2>4. QED
    BY <1>3, <2>3, ChangeType DEF RenewLease, TypeOK
<1>4. ASSUME NEW id \in JobIds, NEW attempt, NEW result \in Results, NEW ok \in Outcomes,
             CompleteLease(id, worker, attempt, result, ok)
      PROVE  TypeOK'
  <2>1. HoldsLease(id, worker)
    BY <1>4 DEF CompleteLease, ReportsLease
  <2>2. CompletedJob(jobs[id], result) \in JobRecord
    BY <1>2, <2>1, RecordTypes DEF TypeOK
  <2>3. JobTable(jobs')
    BY <1>2, <1>4, <2>1, <2>2, TableUpdate DEF CompleteLease, TypeOK
  <2>4. acked' \in [JobIds -> Ack]
    BY <1>4, AnswerTypes DEF CompleteLease, TypeOK, Ack
  <2>5. QED
    BY <1>4, <2>3, <2>4, ChangeType DEF CompleteLease, TypeOK
<1>5. ASSUME NEW id \in JobIds, NEW attempt, NEW failure \in Reported, NEW ok \in Outcomes,
             FailLease(id, worker, attempt, failure, ok)
      PROVE  TypeOK'
  <2>1. HoldsLease(id, worker)
    BY <1>5 DEF FailLease, ReportsLease
  <2>2. FailedJob(jobs[id], failure) \in JobRecord
    BY <1>2, <2>1, RecordTypes DEF TypeOK
  <2>3. JobTable(jobs')
    BY <1>2, <1>5, <2>1, <2>2, TableUpdate DEF FailLease, TypeOK
  <2>4. queues' \in [Priorities -> Seq(JobIds)]
    BY <1>2, <1>5, <2>1, QueueUpdate DEF FailLease, TypeOK
  <2>5. acked' \in [JobIds -> Ack]
    BY <1>5, AnswerTypes DEF FailLease, TypeOK, Ack
  <2>6. QED
    BY <1>5, <2>3, <2>4, <2>5, ChangeType DEF FailLease, TypeOK
<1>6. ASSUME NEW id \in JobIds, NEW attempt, NEW result, CompleteAgain(id, worker, attempt, result)
      PROVE  TypeOK'
  <2>1. acked' \in [JobIds -> Ack]
    BY <1>6, AnswerTypes DEF CompleteAgain, Ack
  <2>2. QED
    BY <1>6, <2>1, RepeatedType DEF CompleteAgain
<1>7. ASSUME NEW id \in JobIds, NEW attempt, NEW failure, FailAgain(id, worker, attempt, failure)
      PROVE  TypeOK'
  <2>1. acked' \in [JobIds -> Ack]
    BY <1>7, AnswerTypes DEF FailAgain, Ack
  <2>2. QED
    BY <1>7, <2>1, RepeatedType DEF FailAgain
<1>8. QED
  BY <1>1, <1>3, <1>4, <1>5, <1>6, <1>7

\* The sweep of expired leases and pruning keep the types.
LEMMA TypeMaintenance == TypeOK /\ MaintenanceNext => TypeOK'
<1> SUFFICES ASSUME TypeOK, NEW ok \in Outcomes,
                    RequeueExpiredLeases(ok) \/ PruneTerminalJobs(ok)
             PROVE  TypeOK'
  BY DEF MaintenanceNext
<1>1. CASE RequeueExpiredLeases(ok)
  <2>1. JobTable(jobs') /\ queues' \in [Priorities -> Seq(JobIds)]
    BY <1>1, SweptTypes DEF RequeueExpiredLeases, TypeOK
  <2>2. QED
    BY <1>1, <2>1, ChangeType DEF RequeueExpiredLeases, TypeOK
<1>2. CASE PruneTerminalJobs(ok)
  <2>1. JobTable(jobs')
    BY <1>2 DEF PruneTerminalJobs, JobTable, TypeOK
  <2>2. queues' \in [Priorities -> Seq(JobIds)]
    <3>1. \A p \in Priorities : \A ids : Without(queues[p], ids) \in Seq(JobIds)
      BY JobIdsFinite, WithoutLists DEF TypeOK
    <3>2. QED
      BY <1>2, <3>1 DEF PruneTerminalJobs
  <2>3. /\ DOMAIN idempotency_keys' \subseteq Keys
        /\ idempotency_keys' \in [DOMAIN idempotency_keys' -> JobIds]
    BY <1>2 DEF PruneTerminalJobs, KeysAfterPrune, TypeOK
  <2>4. acked' \in [JobIds -> Ack]
    BY <1>2 DEF PruneTerminalJobs, TypeOK, Ack
  <2>5. QED
    BY <1>2, <2>1, <2>2, <2>3, <2>4, PersistType DEF PruneTerminalJobs, TypeOK
<1>3. QED
  BY <1>1, <1>2

\* The three callback methods of the registry keep the types.
LEMMA TypeCallback == TypeOK /\ CallbackNext => TypeOK'
<1> SUFFICES ASSUME TypeOK, NEW id \in JobIds, NEW ok \in Outcomes,
                    \/ BeginCallbackAttempt(id, ok)
                    \/ RecordCallbackSuccess(id, ok)
                    \/ RecordCallbackFailure(id, ok)
             PROVE  TypeOK'
  BY DEF CallbackNext
<1>1. CASE BeginCallbackAttempt(id, ok)
  BY <1>1, ChangeType DEF BeginCallbackAttempt, TypeOK, registryVars
<1>2. CASE RecordCallbackFailure(id, ok)
  BY <1>2, ChangeType DEF RecordCallbackFailure, TypeOK, registryVars
<1>3. CASE RecordCallbackSuccess(id, ok)
  <2>1. id \in DOMAIN jobs /\ jobs[id] \in JobRecord
    BY <1>3 DEF RecordCallbackSuccess, TypeOK, JobTable
  <2>2. [jobs[id] EXCEPT !.callback = "delivered"] \in JobRecord
    BY <2>1 DEF JobRecord, CallbackStatus
  <2>3. jobs' = [jobs EXCEPT ![id] = [jobs[id] EXCEPT !.callback = "delivered"]]
    BY <1>3 DEF RecordCallbackSuccess
  <2>4. JobTable(jobs')
    BY <2>1, <2>2, <2>3, TableUpdate DEF TypeOK
  <2>5. QED
    BY <1>3, <2>4, ChangeType DEF RecordCallbackSuccess, TypeOK
<1>4. QED
  BY <1>1, <1>2, <1>3

\* A registry loaded from well-typed rows is well-typed.
LEMMA TypeRestart == TypeOK /\ Restart => TypeOK'
<1> SUFFICES ASSUME TypeOK, Restart PROVE TypeOK'
  OBVIOUS
<1>1. JobTable(store.jobs) /\ store.queue_position \in [DOMAIN store.jobs -> Nat] /\ now \in Nat
  BY DEF TypeOK
<1>2. JobTable(jobs') /\ queues' \in [Priorities -> Seq(JobIds)]
  BY <1>1, LoadTypes, SweptTypes DEF Restart
<1>3. /\ next_id' \in 0..MaxJobs
      /\ DOMAIN idempotency_keys' \subseteq Keys
      /\ idempotency_keys' \in [DOMAIN idempotency_keys' -> JobIds]
  BY <1>1, LoadTypes DEF Restart
<1>4. /\ DOMAIN store' = {"jobs", "queue_position"}
      /\ JobTable(store'.jobs)
      /\ store'.queue_position \in [DOMAIN store'.jobs -> Nat]
  BY <1>1, <1>2, SnapshotType DEF Restart, TypeOK
<1>5. QED
  BY <1>2, <1>3, <1>4, BoundsAssumption DEF Restart, TypeOK

\* Every step keeps the types.
LEMMA TypeStep == TypeOK /\ [Step]_vars => TypeOK'
<1> SUFFICES ASSUME TypeOK, [Step]_vars PROVE TypeOK'
  OBVIOUS
<1>1. CASE Tick \/ ClockStepsBack
  <2>1. now' \in Nat
    BY <1>1 DEF Tick, ClockStepsBack, TypeOK
  <2>2. UNCHANGED <<registryVars, store, historyVars>>
    BY <1>1 DEF Tick, ClockStepsBack
  <2>3. QED
    BY <2>1, <2>2 DEF TypeOK, JobTable, registryVars, historyVars
<1>2. CASE UNCHANGED vars
  BY <1>2 DEF vars, TypeOK, JobTable
<1>3. CASE AnyClaim
  BY <1>3, TypeClaim DEF AnyClaim
<1>4. QED
  BY <1>1, <1>2, <1>3, TypeCaller, TypeWorker, TypeMaintenance, TypeCallback, TypeRestart
     DEF Step, Next

\* Type correctness: the registry, its key map, its queues and the rows of the store
\* have their types in every reachable state, whatever transactions fail and whenever
\* the process restarts.
THEOREM TypeCorrect == Spec => []TypeOK
<1>1. TypeOK /\ [Next]_vars => TypeOK'
  BY TypeStep DEF Step
<1>2. QED
  BY <1>1, TypeInit, PTL DEF Spec

--------------------------------------------------------------------------------
(* What a step does to the registry: one of five shapes *)

\* The job keeps its request and its key.
SameIdentity(job, new) ==
    new.request = job.request /\ new.idempotency_key = job.idempotency_key

\* One job is replaced: it leaves its queue, enters it, or neither.
JobChanges(id, new) ==
    /\ id \in DOMAIN jobs
    /\ new \in JobRecord
    /\ jobs' = [jobs EXCEPT ![id] = new]
    /\ SameIdentity(jobs[id], new)
    /\ LeaseInOrder(jobs[id]) => LeaseInOrder(new)
    /\ \/ /\ new.status # "queued"
          /\ queues' = [queues EXCEPT ![PriorityOf(jobs[id])] = Without(@, {id})]
       \/ /\ jobs[id].status # "queued" /\ new.status = "queued"
          /\ queues' = [queues EXCEPT ![PriorityOf(jobs[id])] = Append(@, id)]
       \/ /\ jobs[id].status = "queued" <=> new.status = "queued"
          /\ queues' = queues
    /\ UNCHANGED <<next_id, idempotency_keys>>

\* What the operators on one job leave alone, and the status, the
\* attempts and the lease they set.
LEMMA RecordEffects ==
    ASSUME now \in Nat, NEW job \in JobRecord
    PROVE  /\ /\ SameIdentity(job, CancelledJob(job))
              /\ CancelledJob(job).status = "cancelled"
              /\ CancelledJob(job).attempts = job.attempts
              /\ LeaseInOrder(job) => LeaseInOrder(CancelledJob(job))
           /\ /\ SameIdentity(job, TimedOutJob(job))
              /\ TimedOutJob(job).status = IF job.attempts < MaxAttempts THEN "queued" ELSE "failed"
              /\ TimedOutJob(job).attempts = job.attempts
              /\ LeaseInOrder(job) => LeaseInOrder(TimedOutJob(job))
           /\ \A worker \in Workers :
              /\ SameIdentity(job, ClaimedJob(job, worker))
              /\ ClaimedJob(job, worker).status = "running"
              /\ ClaimedJob(job, worker).attempts = job.attempts + 1
              /\ job.status = "queued" /\ LeaseInOrder(job) => LeaseInOrder(ClaimedJob(job, worker))
           /\ job.lease # None /\ job.status = "running" =>
              /\ SameIdentity(job, RenewedJob(job))
              /\ RenewedJob(job).status = "running"
              /\ RenewedJob(job).attempts = job.attempts
              /\ LeaseInOrder(job) => LeaseInOrder(RenewedJob(job))
           /\ job.lease # None => \A result \in Results :
              /\ SameIdentity(job, CompletedJob(job, result))
              /\ CompletedJob(job, result).status = "complete"
              /\ CompletedJob(job, result).attempts = job.attempts
              /\ LeaseInOrder(job) => LeaseInOrder(CompletedJob(job, result))
           /\ job.lease # None => \A failure \in Reported :
              /\ SameIdentity(job, FailedJob(job, failure))
              /\ FailedJob(job, failure).status = IF WillRetry(job, failure) THEN "queued" ELSE "failed"
              /\ FailedJob(job, failure).attempts = job.attempts
              /\ LeaseInOrder(job) => LeaseInOrder(FailedJob(job, failure))
<1>1. \A j \in JobRecord :
        /\ SameIdentity(j, PrepareCallback(j))
        /\ PrepareCallback(j).status = j.status /\ PrepareCallback(j).lease = j.lease
        /\ PrepareCallback(j).attempts = j.attempts
  BY DEF PrepareCallback, JobRecord, SameIdentity
<1>2. /\ SameIdentity(job, CancelledJob(job))
      /\ CancelledJob(job).status = "cancelled"
      /\ CancelledJob(job).attempts = job.attempts
      /\ LeaseInOrder(job) => LeaseInOrder(CancelledJob(job))
  <2> DEFINE base == [job EXCEPT !.status = "cancelled", !.updated_at = now, !.terminal_attempt = None]
  <2>1. base \in JobRecord
    BY DEF JobRecord, JobStatus
  <2>2. /\ SameIdentity(job, base) /\ base.status = "cancelled" /\ base.attempts = job.attempts
    BY DEF JobRecord, SameIdentity
  <2>3. CancelledJob(job) = PrepareCallback(base)
    BY DEF CancelledJob
  <2> HIDE DEF base
  <2>4. QED
    BY <1>1, <2>1, <2>2, <2>3 DEF SameIdentity, LeaseInOrder
<1>3. /\ SameIdentity(job, TimedOutJob(job))
      /\ TimedOutJob(job).status = IF job.attempts < MaxAttempts THEN "queued" ELSE "failed"
      /\ TimedOutJob(job).attempts = job.attempts
      /\ LeaseInOrder(job) => LeaseInOrder(TimedOutJob(job))
  <2> DEFINE retryable == job.attempts < MaxAttempts
             base == [job EXCEPT !.result = None, !.lease = None, !.updated_at = now,
                        !.error = [message |-> AttemptTimeout, retryable |-> retryable],
                        !.status = IF retryable THEN "queued" ELSE "failed"]
  <2>1. [message |-> AttemptTimeout, retryable |-> retryable] \in JobFailure
    BY DEF JobFailure
  <2>2. base \in JobRecord
    BY <2>1 DEF JobRecord, JobStatus
  <2>3. /\ SameIdentity(job, base) /\ base.status = IF retryable THEN "queued" ELSE "failed"
        /\ base.attempts = job.attempts /\ base.lease = None
    BY DEF JobRecord, SameIdentity
  <2>4. TimedOutJob(job) = PrepareCallback(base)
    BY DEF TimedOutJob
  <2> HIDE DEF base
  <2>5. QED
    BY <1>1, <2>2, <2>3, <2>4 DEF SameIdentity, LeaseInOrder
<1>4. ASSUME NEW worker \in Workers
      PROVE  /\ SameIdentity(job, ClaimedJob(job, worker))
             /\ ClaimedJob(job, worker).status = "running"
             /\ ClaimedJob(job, worker).attempts = job.attempts + 1
             /\ job.status = "queued" /\ LeaseInOrder(job) => LeaseInOrder(ClaimedJob(job, worker))
  <2> DEFINE lease == [worker_id |-> worker, attempt |-> job.attempts + 1,
                       expires_at |-> now + LeaseDuration]
             new == ClaimedJob(job, worker)
  <2>1. lease \in JobLease /\ lease.attempt = job.attempts + 1
    BY BoundsAssumption DEF JobRecord, JobLease
  <2>2. /\ SameIdentity(job, new) /\ new.status = "running"
        /\ new.attempts = job.attempts + 1 /\ new.lease = lease
    BY DEF ClaimedJob, JobRecord, SameIdentity
  <2>3. job.attempts \in Nat /\ MaxAttempts \in Nat
    BY BoundsAssumption DEF JobRecord
  <2> HIDE DEF new, lease
  <2>4. job.status = "queued" /\ LeaseInOrder(job) => LeaseInOrder(new)
    BY <2>1, <2>2, <2>3 DEF LeaseInOrder
  <2>5. QED
    BY <2>2, <2>4 DEF new
<1>5. ASSUME job.lease # None, job.status = "running"
      PROVE  /\ SameIdentity(job, RenewedJob(job))
             /\ RenewedJob(job).status = "running"
             /\ RenewedJob(job).attempts = job.attempts
             /\ LeaseInOrder(job) => LeaseInOrder(RenewedJob(job))
  <2> DEFINE lease == [job.lease EXCEPT !.expires_at = now + LeaseDuration]
             new == RenewedJob(job)
  <2>1. now + LeaseDuration \in Nat
    BY BoundsAssumption
  <2>2. lease \in JobLease /\ lease.attempt = job.lease.attempt
    BY <1>5, <2>1 DEF JobRecord, JobLease
  <2>3. /\ SameIdentity(job, new) /\ new.status = job.status
        /\ new.attempts = job.attempts /\ new.lease = lease
    BY DEF RenewedJob, JobRecord, SameIdentity
  <2> HIDE DEF new, lease
  <2>4. LeaseInOrder(job) => LeaseInOrder(new)
    BY <1>5, <2>2, <2>3 DEF LeaseInOrder
  <2>5. QED
    BY <1>5, <2>3, <2>4 DEF new
<1>6. ASSUME job.lease # None
      PROVE  [worker_id |-> job.lease.worker_id, attempt |-> job.lease.attempt]
                \in TerminalAttempt
  BY <1>6 DEF JobRecord, JobLease, TerminalAttempt
<1>7. ASSUME job.lease # None, NEW result \in Results
      PROVE  /\ SameIdentity(job, CompletedJob(job, result))
             /\ CompletedJob(job, result).status = "complete"
             /\ CompletedJob(job, result).attempts = job.attempts
             /\ LeaseInOrder(job) => LeaseInOrder(CompletedJob(job, result))
  <2> DEFINE base == [job EXCEPT !.status = "complete", !.result = result, !.error = None,
                    !.lease = None, !.updated_at = now,
                    !.terminal_attempt = [worker_id |-> job.lease.worker_id,
                                          attempt |-> job.lease.attempt]]
  <2>1. base \in JobRecord
    BY <1>6, <1>7 DEF JobRecord, JobStatus
  <2>2. /\ SameIdentity(job, base) /\ base.status = "complete"
        /\ base.attempts = job.attempts /\ base.lease = None
    BY DEF JobRecord, SameIdentity
  <2>3. CompletedJob(job, result) = PrepareCallback(base)
    BY DEF CompletedJob
  <2> HIDE DEF base
  <2>4. QED
    BY <1>1, <2>1, <2>2, <2>3 DEF SameIdentity, LeaseInOrder
<1>8. ASSUME job.lease # None, NEW failure \in Reported
      PROVE  /\ SameIdentity(job, FailedJob(job, failure))
             /\ FailedJob(job, failure).status = IF WillRetry(job, failure) THEN "queued" ELSE "failed"
             /\ FailedJob(job, failure).attempts = job.attempts
             /\ LeaseInOrder(job) => LeaseInOrder(FailedJob(job, failure))
  <2> DEFINE base == [job EXCEPT !.result = None, !.error = failure, !.lease = None,
                                 !.updated_at = now]
             attempt == [worker_id |-> job.lease.worker_id, attempt |-> job.lease.attempt]
             again == [base EXCEPT !.status = "queued", !.terminal_attempt = None]
             over == [base EXCEPT !.status = "failed", !.terminal_attempt = attempt]
  <2>1. failure \in JobFailure
    BY <1>8 DEF Reported, JobFailure
  <2>2. base \in JobRecord /\ attempt \in TerminalAttempt
    BY <1>6, <1>8, <2>1 DEF JobRecord
  <2>3. SameIdentity(job, base) /\ base.attempts = job.attempts /\ base.lease = None
    BY DEF JobRecord, SameIdentity
  <2>4. FailedJob(job, failure) = IF WillRetry(job, failure) THEN again ELSE PrepareCallback(over)
    BY DEF FailedJob
  <2>5. again = Settled(base, "queued", None) /\ over = Settled(base, "failed", attempt)
    BY DEF Settled
  <2> HIDE DEF base, attempt, again, over
  <2>6. /\ again \in JobRecord /\ SameIdentity(job, again) /\ again.status = "queued"
        /\ again.attempts = job.attempts /\ again.lease = None
    <3>1. "queued" \in JobStatus
      BY DEF JobStatus
    <3>2. /\ again \in JobRecord /\ again.status = "queued"
          /\ again.attempts = base.attempts /\ again.lease = base.lease
          /\ again.request = base.request /\ again.idempotency_key = base.idempotency_key
      BY <2>2, <2>5, <3>1, RecordSettled
    <3>3. QED
      BY <2>3, <3>2 DEF SameIdentity
  <2>7. /\ over \in JobRecord /\ SameIdentity(job, over) /\ over.status = "failed"
        /\ over.attempts = job.attempts /\ over.lease = None
    <3>1. "failed" \in JobStatus
      BY DEF JobStatus
    <3>2. /\ over \in JobRecord /\ over.status = "failed"
          /\ over.attempts = base.attempts /\ over.lease = base.lease
          /\ over.request = base.request /\ over.idempotency_key = base.idempotency_key
      BY <2>2, <2>5, <3>1, RecordSettled
    <3>3. QED
      BY <2>3, <3>2 DEF SameIdentity
  <2>8. CASE WillRetry(job, failure)
    BY <2>4, <2>6, <2>8 DEF WillRetry, LeaseInOrder
  <2>9. CASE ~WillRetry(job, failure)
    BY <1>1, <2>4, <2>7, <2>9 DEF LeaseInOrder, SameIdentity
  <2>10. QED
    BY <2>8, <2>9
<1>9. QED
  BY <1>2, <1>3, <1>4, <1>5, <1>7, <1>8

\* Nothing in the registry changes but the rows and the history.
RegistryRests == UNCHANGED registryVars

\* A new job, numbered next_id + 1, is queued.
JobArrives(request, key) ==
    /\ next_id' = next_id + 1
    /\ next_id + 1 \in JobIds
    /\ ~KeyInUse(key)
    /\ jobs' = [x \in DOMAIN jobs \cup {next_id + 1} |->
                    IF x = next_id + 1 THEN NewJob(request, key) ELSE jobs[x]]
    /\ idempotency_keys' =
            IF key = None THEN idempotency_keys
            ELSE [k \in DOMAIN idempotency_keys \cup {key} |->
                    IF k = key THEN next_id + 1 ELSE idempotency_keys[k]]
    /\ queues' = [queues EXCEPT ![request.priority] = Append(@, next_id + 1)]

\* The expired leases are taken back.
JobsSwept ==
    /\ jobs' = SweptJobs(jobs)
    /\ queues' = SweptQueues(jobs, queues)
    /\ UNCHANGED <<next_id, idempotency_keys>>

\* Finished jobs are removed.
JobsPruned ==
    /\ jobs' = [id \in DOMAIN jobs \ PrunedNow |-> jobs[id]]
    /\ idempotency_keys' = KeysAfterPrune
    /\ queues' = [p \in Priorities |->
                    Without(queues[p], {id \in PrunedNow : PriorityOf(jobs[id]) = p})]
    /\ UNCHANGED next_id

RegistryChange ==
    \/ RegistryRests
    \/ \E id \in JobIds, new \in JobRecord : JobChanges(id, new)
    \/ \E request \in Requests, key \in Keys \cup {None} : JobArrives(request, key)
    \/ JobsSwept
    \/ JobsPruned

\* How the state of one job may change: it is cancelled, it starts, its worker reports
\* on it or renews its lease, or its callback is delivered.
Moves(job, new) ==
    \/ /\ job.status \notin Terminal
       /\ new.status = "cancelled"
       /\ new.attempts = job.attempts
    \/ /\ job.status = "queued"
       /\ new.status = "running"
       /\ new.attempts = job.attempts + 1
    \/ /\ job.status = "running"
       /\ new.status \in {"running", "complete", "failed", "queued"}
       /\ new.status = "queued" => job.attempts < MaxAttempts
       /\ new.attempts = job.attempts
    \/ new = [job EXCEPT !.callback = "delivered"]

Starts(job, new) == job.status = "queued" /\ new.status = "running"
Finishes(job, new) == job.status \notin Terminal /\ new.status \in Terminal

\* One job moves, and the rows, the answers and the grants follow.
JobMoves(id, new, ok) ==
    /\ JobChanges(id, new)
    /\ Moves(jobs[id], new)
    /\ Starts(jobs[id], new) =>
            \E kinds \in SUBSET Kinds, p \in Priorities : \E i \in DOMAIN queues[p] :
                FirstClaimable(kinds, p, i) /\ id = queues[p][i]
    /\ Persist(ok)
    /\ acked' = IF ok /\ Finishes(jobs[id], new)
                THEN [acked EXCEPT ![id] = new.status]
                ELSE acked
    /\ granted' = IF ok /\ Starts(jobs[id], new)
                  THEN [granted EXCEPT ![id] = new.attempts]
                  ELSE granted

\* Nothing changes but the clock and the history of answers, where a repeated answer is
\* taken down that holds and is on disk.
OnlyAnswers ==
    /\ UNCHANGED <<registryVars, store, behind, granted>>
    /\ \A id \in JobIds : acked'[id] = acked[id] \/ (behind = 0 /\ Honours(acked'[id], id, jobs))

\* The registry is saved as it is.
RowsSaved(ok) == Persist(ok) /\ UNCHANGED <<registryVars, acked, granted>>

StepEffect ==
    \/ OnlyAnswers
    \/ \E ok \in Outcomes :
          \/ RowsSaved(ok)
          \/ \E id \in JobIds, new \in JobRecord : JobMoves(id, new, ok)
          \/ \E request \in Requests, key \in Keys \cup {None} : Submit(request, key, ok)
          \/ RequeueExpiredLeases(ok)
          \/ PruneTerminalJobs(ok)

\* The steps of a process that goes on.
Works ==
    \/ CallerNext
    \/ WorkerNext
    \/ AnyClaim
    \/ MaintenanceNext
    \/ CallbackNext
    \/ Tick
    \/ ClockStepsBack

\* Every step but a restart has one of these effects.
LEMMA WorkEffects ==
    ASSUME TypeOK, QueueConsistent, [Works]_vars
    PROVE  StepEffect
<1>1. ASSUME NEW id \in JobIds, NEW ok \in Outcomes, Cancel(id, ok)
      PROVE  StepEffect
  <2> DEFINE new == CancelledJob(jobs[id])
  <2>1. id \in DOMAIN jobs /\ jobs[id] \in JobRecord /\ now \in Nat /\ jobs[id].status \notin Terminal
    BY <1>1 DEF Cancel, CanCancel, TypeOK, JobTable
  <2>2. new \in JobRecord
    BY <2>1, RecordTypes
  <2>3. new.status = "cancelled" /\ new.attempts = jobs[id].attempts
    BY <2>1, RecordEffects
  <2>4. JobChanges(id, new)
    BY <1>1, <2>1, <2>2, RecordEffects DEF Cancel, JobChanges
  <2>5. JobMoves(id, new, ok)
    <3> HIDE DEF new
    <3> QED
      BY <1>1, <2>1, <2>3, <2>4
         DEF Cancel, JobMoves, Moves, Starts, Finishes, Terminal, Answered
  <2>6. QED
    BY <2>2, <2>5 DEF StepEffect
<1>2. ASSUME NEW worker \in Workers, NEW kinds \in SUBSET Kinds, NEW ok \in Outcomes,
             Claim(worker, kinds, ok)
      PROVE  StepEffect
  <2>1. PICK p \in Priorities : \E i \in DOMAIN queues[p] :
            /\ FirstClaimable(kinds, p, i)
            /\ jobs' = [jobs EXCEPT ![queues[p][i]] = ClaimedJob(@, worker)]
            /\ queues' = [queues EXCEPT ![p] = Without(@, {queues[p][i]})]
            /\ Persist(ok)
            /\ Granted(queues[p][i], ok)
            /\ UNCHANGED <<next_id, idempotency_keys, acked>>
    BY <1>2 DEF Claim
  <2>2. PICK i \in DOMAIN queues[p] :
            /\ FirstClaimable(kinds, p, i)
            /\ jobs' = [jobs EXCEPT ![queues[p][i]] = ClaimedJob(@, worker)]
            /\ queues' = [queues EXCEPT ![p] = Without(@, {queues[p][i]})]
            /\ Persist(ok)
            /\ Granted(queues[p][i], ok)
            /\ UNCHANGED <<next_id, idempotency_keys, acked>>
    BY <2>1
  <2> DEFINE id == queues[p][i]
             new == ClaimedJob(jobs[id], worker)
  <2>3. id \in DOMAIN jobs /\ id \in JobIds /\ jobs[id] \in JobRecord /\ now \in Nat
    BY <2>2 DEF FirstClaimable, Claimable, TypeOK, JobTable
  <2>4. jobs[id].status = "queued" /\ PriorityOf(jobs[id]) = p
    BY DEF QueueConsistent, QueuesMatch, Members, Waiting
  <2>5. new \in JobRecord
    BY <2>3, RecordTypes
  <2>6. new.status = "running" /\ new.attempts = jobs[id].attempts + 1
    BY <2>3, RecordEffects
  <2>7. JobChanges(id, new)
    BY <2>2, <2>3, <2>4, <2>5, RecordEffects DEF JobChanges
  <2>8. jobs'[id] = new
    BY <2>2, <2>3
  <2>9. granted' = IF ok THEN [granted EXCEPT ![id] = new.attempts] ELSE granted
    <3>1. Granted(id, ok)
      BY <2>2
    <3> HIDE DEF new, id
    <3>2. QED
      BY <2>8, <3>1 DEF Granted
  <2>10. JobMoves(id, new, ok)
    <3> HIDE DEF new
    <3> QED
      BY <2>2, <2>4, <2>6, <2>7, <2>9 DEF JobMoves, Moves, Starts, Finishes, Terminal
  <2>11. QED
    BY <2>3, <2>5, <2>10 DEF StepEffect
<1>3. ASSUME NEW worker \in Workers, NEW id \in JobIds, HoldsLease(id, worker)
      PROVE  /\ id \in DOMAIN jobs /\ jobs[id] \in JobRecord /\ now \in Nat
             /\ jobs[id].lease # None /\ jobs[id].status = "running"
  BY <1>3 DEF HoldsLease, TypeOK, JobTable
<1>4. ASSUME NEW worker \in Workers, NEW id \in JobIds, NEW ok \in Outcomes,
             RenewLease(id, worker, ok)
      PROVE  StepEffect
  <2> DEFINE new == RenewedJob(jobs[id])
  <2>1. HoldsLease(id, worker)
    BY <1>4 DEF RenewLease
  <2>2. new \in JobRecord
    BY <1>3, <2>1, RecordTypes
  <2>3. new.status = "running" /\ new.attempts = jobs[id].attempts
    BY <1>3, <2>1, RecordEffects
  <2>4. JobChanges(id, new)
    BY <1>3, <1>4, <2>1, <2>2, RecordEffects DEF RenewLease, JobChanges
  <2>5. jobs[id].status = "running" /\ Persist(ok) /\ UNCHANGED <<acked, granted>>
    BY <1>3, <1>4, <2>1 DEF RenewLease
  <2>6. JobMoves(id, new, ok)
    <3> HIDE DEF new
    <3> QED
      BY <2>3, <2>4, <2>5 DEF JobMoves, Moves, Starts, Finishes, Terminal
  <2>7. QED
    BY <2>2, <2>6 DEF StepEffect
<1>5. ASSUME NEW worker \in Workers, NEW id \in JobIds, NEW attempt, NEW result \in Results,
             NEW ok \in Outcomes, CompleteLease(id, worker, attempt, result, ok)
      PROVE  StepEffect
  <2> DEFINE new == CompletedJob(jobs[id], result)
  <2>1. HoldsLease(id, worker)
    BY <1>5 DEF CompleteLease, ReportsLease
  <2>2. new \in JobRecord
    BY <1>3, <2>1, RecordTypes
  <2>3. new.status = "complete" /\ new.attempts = jobs[id].attempts
    BY <1>3, <2>1, RecordEffects
  <2>4. JobChanges(id, new)
    BY <1>3, <1>5, <2>1, <2>2, RecordEffects DEF CompleteLease, JobChanges
  <2>5. JobMoves(id, new, ok)
    <3> HIDE DEF new
    <3> QED
      BY <1>3, <1>5, <2>1, <2>3, <2>4
         DEF CompleteLease, JobMoves, Moves, Starts, Finishes, Terminal, Answered
  <2>6. QED
    BY <2>2, <2>5 DEF StepEffect
<1>6. ASSUME NEW worker \in Workers, NEW id \in JobIds, NEW attempt, NEW failure \in Reported,
             NEW ok \in Outcomes, FailLease(id, worker, attempt, failure, ok)
      PROVE  StepEffect
  <2> DEFINE new == FailedJob(jobs[id], failure)
             again == WillRetry(jobs[id], failure)
  <2>1. HoldsLease(id, worker)
    BY <1>6 DEF FailLease, ReportsLease
  <2>2. new \in JobRecord
    BY <1>3, <2>1, RecordTypes
  <2>3. /\ SameIdentity(jobs[id], new)
        /\ new.status = IF again THEN "queued" ELSE "failed"
        /\ new.attempts = jobs[id].attempts
        /\ LeaseInOrder(jobs[id]) => LeaseInOrder(new)
    BY <1>3, <2>1, RecordEffects
  <2>4. again => jobs[id].attempts < MaxAttempts
    BY DEF WillRetry
  <2>5. /\ jobs' = [jobs EXCEPT ![id] = new]
        /\ queues' = IF again THEN [queues EXCEPT ![PriorityOf(jobs[id])] = Append(@, id)]
                     ELSE queues
        /\ acked' = IF ok /\ ~again THEN [acked EXCEPT ![id] = "failed"]
                    ELSE acked
        /\ Persist(ok)
        /\ UNCHANGED <<next_id, idempotency_keys, granted>>
    BY <1>6 DEF FailLease, Answered
  <2>6. id \in DOMAIN jobs /\ jobs[id].status = "running"
    BY <1>3, <2>1
  <2> HIDE DEF new, again
  <2>7. JobChanges(id, new)
    BY <2>2, <2>3, <2>5, <2>6 DEF JobChanges
  <2>8. JobMoves(id, new, ok)
    BY <2>3, <2>4, <2>5, <2>6, <2>7 DEF JobMoves, Moves, Starts, Finishes, Terminal
  <2>9. QED
    BY <2>2, <2>8 DEF StepEffect
<1>7. ASSUME NEW id \in JobIds, NEW ok \in Outcomes, RecordCallbackSuccess(id, ok)
      PROVE  StepEffect
  <2> DEFINE new == [jobs[id] EXCEPT !.callback = "delivered"]
  <2>1. id \in DOMAIN jobs /\ jobs[id] \in JobRecord
    BY <1>7 DEF RecordCallbackSuccess, TypeOK, JobTable
  <2>2. /\ new \in JobRecord /\ SameIdentity(jobs[id], new) /\ new.status = jobs[id].status
        /\ new.lease = jobs[id].lease /\ new.attempts = jobs[id].attempts
    BY <2>1 DEF JobRecord, CallbackStatus, SameIdentity
  <2>3. jobs' = [jobs EXCEPT ![id] = new] /\ Moves(jobs[id], new)
    BY <1>7 DEF RecordCallbackSuccess, Moves
  <2> HIDE DEF new
  <2>4. JobChanges(id, new)
    BY <1>7, <2>1, <2>2, <2>3 DEF RecordCallbackSuccess, JobChanges, LeaseInOrder
  <2>5. JobMoves(id, new, ok)
    BY <1>7, <2>2, <2>3, <2>4 DEF RecordCallbackSuccess, JobMoves, Starts, Finishes, Terminal
  <2>6. QED
    BY <2>2, <2>5 DEF StepEffect
<1>8. ASSUME NEW id \in JobIds, NEW state, AnsweredAgain(id, state), Honours(state, id, jobs),
             UNCHANGED <<registryVars, store, behind, granted>>
      PROVE  StepEffect
  <2>1. acked' = acked \/ (behind = 0 /\ acked' = [acked EXCEPT ![id] = state])
    BY <1>8 DEF AnsweredAgain, Answered
  <2>2. \A x \in JobIds : acked'[x] = acked[x] \/ (behind = 0 /\ Honours(acked'[x], x, jobs))
    BY <1>8, <2>1 DEF TypeOK
  <2>3. QED
    BY <1>8, <2>2 DEF StepEffect, OnlyAnswers
<1>9. CASE UNCHANGED <<registryVars, store, behind, granted, acked>>
  BY <1>9 DEF StepEffect, OnlyAnswers
<1>10. CASE CallerNext
  <2>1. ASSUME NEW request, NEW key, SubmitAgain(request, key) PROVE StepEffect
    <3>1. /\ idempotency_keys[key] \in JobIds
          /\ Honours("accepted", idempotency_keys[key], jobs)
      BY <2>1 DEF SubmitAgain, KeyInUse, TypeOK, Honours, Terminal
    <3>2. CASE acked' = acked
      BY <1>9, <2>1, <3>2 DEF SubmitAgain
    <3>3. CASE AnsweredAgain(idempotency_keys[key], "accepted")
      BY <1>8, <2>1, <3>1, <3>3 DEF SubmitAgain
    <3>4. QED
      BY <2>1, <3>2, <3>3 DEF SubmitAgain
  <2>2. ASSUME NEW id \in JobIds, CancelAgain(id) PROVE StepEffect
    BY <1>8, <2>2 DEF CancelAgain, Honours
  <2>3. ASSUME NEW request \in Requests, NEW key \in Keys \cup {None}, NEW ok \in Outcomes,
               Submit(request, key, ok)
        PROVE  StepEffect
    BY <2>3 DEF StepEffect
  <2>4. QED
    BY <1>1, <1>10, <2>1, <2>2, <2>3 DEF CallerNext
<1>11. CASE WorkerNext
  <2>1. ASSUME NEW id \in JobIds, NEW worker, NEW attempt, NEW result,
               CompleteAgain(id, worker, attempt, result)
        PROVE  StepEffect
    BY <1>8, <2>1 DEF CompleteAgain, Honours
  <2>2. ASSUME NEW id \in JobIds, NEW worker, NEW attempt, NEW failure,
               FailAgain(id, worker, attempt, failure)
        PROVE  StepEffect
    BY <1>8, <2>2 DEF FailAgain, Honours
  <2>3. ASSUME NEW worker \in Workers, NEW kinds \in KindSets, NEW ok \in Outcomes,
               Claim(worker, kinds, ok)
        PROVE  StepEffect
    BY <1>2, <2>3, KindSetsAssumption
  <2>4. QED
    BY <1>4, <1>5, <1>6, <1>11, <2>1, <2>2, <2>3 DEF WorkerNext
<1>12. CASE MaintenanceNext
  BY <1>12 DEF MaintenanceNext, StepEffect
<1>13. CASE CallbackNext
  <2>1. ASSUME NEW id, NEW ok \in Outcomes,
               BeginCallbackAttempt(id, ok) \/ RecordCallbackFailure(id, ok)
        PROVE  StepEffect
    BY <2>1 DEF BeginCallbackAttempt, RecordCallbackFailure, StepEffect, RowsSaved
  <2>2. QED
    BY <1>7, <1>13, <2>1 DEF CallbackNext
<1>14. CASE Tick \/ ClockStepsBack \/ UNCHANGED vars
  <2>1. UNCHANGED <<registryVars, store, behind, granted, acked>>
    BY <1>14 DEF Tick, ClockStepsBack, vars, registryVars, historyVars
  <2>2. QED
    BY <1>9, <2>1
<1>15. CASE AnyClaim
  BY <1>2, <1>15 DEF AnyClaim
<1>16. QED
  BY <1>10, <1>11, <1>12, <1>13, <1>14, <1>15 DEF Works

\* The same of a step of the specification that is not a restart.
LEMMA StepEffects ==
    ASSUME TypeOK, QueueConsistent, [Step]_vars, ~Restart
    PROVE  StepEffect
<1>1. [Works]_vars
  BY DEF Step, Next, Works
<1>2. QED
  BY <1>1, WorkEffects

\* The shape of a step: what its effect is on the jobs, the queues and the keys.
LEMMA StepShape ==
    ASSUME TypeOK, QueueConsistent, [Step]_vars, ~Restart
    PROVE  RegistryChange
<1>1. StepEffect
  BY StepEffects
<1>2. CASE OnlyAnswers
  BY <1>2 DEF OnlyAnswers, RegistryChange, RegistryRests
<1>3. ASSUME NEW ok \in Outcomes, RowsSaved(ok) PROVE RegistryChange
  BY <1>3 DEF RowsSaved, RegistryChange, RegistryRests
<1>4. ASSUME NEW ok \in Outcomes, NEW id \in JobIds, NEW new \in JobRecord, JobMoves(id, new, ok)
      PROVE  RegistryChange
  BY <1>4 DEF JobMoves, RegistryChange
<1>5. ASSUME NEW request \in Requests, NEW key \in Keys \cup {None}, NEW ok \in Outcomes,
             Submit(request, key, ok)
      PROVE  RegistryChange
  <2>1. next_id + 1 \in JobIds
    BY <1>5, BoundsAssumption DEF Submit, TypeOK, JobIds
  <2>2. JobArrives(request, key)
    BY <1>5, <2>1 DEF Submit, JobArrives
  <2>3. QED
    BY <2>2 DEF RegistryChange
<1>6. ASSUME NEW ok \in Outcomes, RequeueExpiredLeases(ok) \/ PruneTerminalJobs(ok)
      PROVE  RegistryChange
  BY <1>6 DEF RequeueExpiredLeases, PruneTerminalJobs, RegistryChange, JobsSwept, JobsPruned
<1>7. QED
  BY <1>1, <1>2, <1>3, <1>4, <1>5, <1>6 DEF StepEffect

\* A step leaves the rows alone or replaces them by the jobs it leaves in memory.
LEMMA StoreShape ==
    ASSUME TypeOK, [Step]_vars
    PROVE  store'.jobs \in {store.jobs, jobs'}
<1>1. \A js, qs : Snapshot(js, qs).jobs = js
  BY DEF Snapshot
<1>2. \A ok : Persist(ok) => store'.jobs \in {store.jobs, jobs'}
  BY <1>1 DEF Persist
<1>3. CASE CallerNext
  BY <1>2, <1>3 DEF CallerNext, Submit, SubmitAgain, Cancel, CancelAgain
<1>4. CASE WorkerNext
  <2>1. \A worker, kinds, ok : Claim(worker, kinds, ok) => store'.jobs \in {store.jobs, jobs'}
    BY <1>2 DEF Claim
  <2>2. \A id, worker, ok : RenewLease(id, worker, ok) => store'.jobs \in {store.jobs, jobs'}
    BY <1>2 DEF RenewLease
  <2>3. \A id, worker, attempt, result, ok :
            CompleteLease(id, worker, attempt, result, ok) => store'.jobs \in {store.jobs, jobs'}
    BY <1>2 DEF CompleteLease
  <2>4. \A id, worker, attempt, failure, ok :
            FailLease(id, worker, attempt, failure, ok) => store'.jobs \in {store.jobs, jobs'}
    BY <1>2 DEF FailLease
  <2>5. \A id, worker, attempt, report :
            CompleteAgain(id, worker, attempt, report) \/ FailAgain(id, worker, attempt, report)
            => store'.jobs \in {store.jobs, jobs'}
    BY DEF CompleteAgain, FailAgain
  <2>6. QED
    BY <1>4, <2>1, <2>2, <2>3, <2>4, <2>5 DEF WorkerNext
<1>5. CASE MaintenanceNext
  BY <1>2, <1>5 DEF MaintenanceNext, RequeueExpiredLeases, PruneTerminalJobs
<1>6. CASE CallbackNext
  BY <1>2, <1>6 DEF CallbackNext, BeginCallbackAttempt, RecordCallbackSuccess, RecordCallbackFailure
<1>7. CASE Restart
  BY <1>1, <1>7 DEF Restart
<1>8. CASE Tick \/ ClockStepsBack \/ UNCHANGED vars
  BY <1>8 DEF Tick, ClockStepsBack, vars
<1>9. CASE AnyClaim
  BY <1>2, <1>9 DEF AnyClaim, Claim
<1>10. QED
  BY <1>3, <1>4, <1>5, <1>6, <1>7, <1>8, <1>9 DEF Step, Next

--------------------------------------------------------------------------------
(* The queues *)

\* Taking back expired leases keeps the queues in step with the jobs.
LEMMA SweptQueuesMatch ==
    ASSUME now \in Nat, NEW js, JobTable(js), NEW qs \in [Priorities -> Seq(JobIds)],
           QueuesMatch(js, qs)
    PROVE  QueuesMatch(SweptJobs(js), SweptQueues(js, qs))
<1> SUFFICES ASSUME NEW p \in Priorities
             PROVE  /\ NoDuplicates(SweptQueues(js, qs)[p])
                    /\ Members(SweptQueues(js, qs)[p]) = Waiting(SweptJobs(js), p)
  BY DEF QueuesMatch
<1> DEFINE back == {id \in ExpiredLeases(js) \ Members(qs[p]) :
                                PriorityOf(js[id]) = p /\ js[id].attempts < MaxAttempts}
<1>1. \A id \in DOMAIN js : js[id] \in JobRecord /\ id \in JobIds
  BY DEF JobTable
<1>2. back \in SUBSET JobIds /\ back \in SUBSET Int /\ IsFiniteSet(back)
  BY <1>1, JobIdsFinite, FS_Subset DEF ExpiredLeases
<1>3. /\ Ascending(back) \in Seq(JobIds) /\ Members(Ascending(back)) = back
      /\ NoDuplicates(Ascending(back))
  <2> HIDE DEF back
  <2> QED
    BY <1>2, AscendingLists, SeqMonotonic
<1>4. NoDuplicates(qs[p]) /\ Members(qs[p]) = Waiting(js, p) /\ qs[p] \in Seq(JobIds)
  BY DEF QueuesMatch
<1>5. SweptQueues(js, qs)[p] = qs[p] \o Ascending(back)
  BY DEF SweptQueues
<1>6. Members(qs[p]) \cap Members(Ascending(back)) = {}
  BY <1>3
<1>7. /\ NoDuplicates(SweptQueues(js, qs)[p])
      /\ Members(SweptQueues(js, qs)[p]) = Waiting(js, p) \cup back
  <2> HIDE DEF back
  <2> QED
    BY <1>3, <1>4, <1>5, <1>6, ConcatLists
<1>8. \A id \in DOMAIN js :
        id \in Waiting(SweptJobs(js), p) <=> id \in Waiting(js, p) \cup back
  <2>1. TAKE id \in DOMAIN js
  <2>2. CASE id \in ExpiredLeases(js)
    <3>1. SweptJobs(js)[id] = TimedOutJob(js[id])
      BY <2>2 DEF SweptJobs
    <3>2. /\ SameIdentity(js[id], TimedOutJob(js[id]))
          /\ TimedOutJob(js[id]).status = IF js[id].attempts < MaxAttempts THEN "queued" ELSE "failed"
      BY <1>1, RecordEffects
    <3>3. js[id].status = "running" /\ id \notin Members(qs[p])
      BY <1>4, <2>2 DEF ExpiredLeases, Waiting
    <3>4. QED
      BY <2>2, <3>1, <3>2, <3>3 DEF Waiting, SameIdentity, PriorityOf, SweptJobs
  <2>3. CASE id \notin ExpiredLeases(js)
    BY <2>3 DEF SweptJobs, Waiting
  <2>4. QED
    BY <2>2, <2>3
<1>9. Waiting(SweptJobs(js), p) \subseteq DOMAIN js /\ Waiting(js, p) \cup back \subseteq DOMAIN js
  BY DEF Waiting, SweptJobs, ExpiredLeases
<1>10. QED
  BY <1>7, <1>8, <1>9

\* Empty queues match an empty table.
LEMMA QueueInit == Init => QueueConsistent
BY DEF Init, QueueConsistent, QueuesMatch, NoJobs, NoQueues, NoDuplicates, Members, Waiting

\* Every step keeps each queue equal to the waiting jobs of its priority, without
\* repetitions: one step per shape, and the restart.
LEMMA QueueStep ==
    ASSUME TypeOK, QueueConsistent, IdsBelowNext, [Step]_vars
    PROVE  QueueConsistent'
<1>1. CASE Restart
  <2>1. JobTable(store.jobs) /\ store.queue_position \in [DOMAIN store.jobs -> Nat] /\ now \in Nat
    BY DEF TypeOK
  <2>2. QueuesMatch(SweptJobs(store.jobs), SweptQueues(store.jobs, LoadQueues(store)))
    BY <2>1, LoadTypes, SweptQueuesMatch
  <2>3. QED
    BY <1>1, <2>2 DEF Restart, QueueConsistent, QueuesMatch, Waiting
<1>2. CASE RegistryRests
  BY <1>2 DEF RegistryRests, registryVars, QueueConsistent, QueuesMatch, Waiting
<1>3. ASSUME NEW id \in JobIds, NEW new \in JobRecord, JobChanges(id, new)
      PROVE  QueueConsistent'
  <2> DEFINE own == PriorityOf(jobs[id])
  <2>1. id \in DOMAIN jobs /\ jobs[id] \in JobRecord
    BY <1>3 DEF JobChanges, TypeOK, JobTable
  <2>2. own \in Priorities /\ PriorityOf(new) = own
    BY <1>3, <2>1, RequestsAssumption
       DEF JobChanges, SameIdentity, PriorityOf, JobRecord, SubmitRequest
  <2>3. /\ DOMAIN jobs' = DOMAIN jobs /\ jobs'[id] = new
        /\ \A x \in DOMAIN jobs : x # id => jobs'[x] = jobs[x]
    BY <1>3, <2>1 DEF JobChanges
  <2>4. \A p \in Priorities : /\ queues[p] \in Seq(JobIds) /\ NoDuplicates(queues[p])
                              /\ Members(queues[p]) = Waiting(jobs, p)
    BY DEF TypeOK, QueueConsistent, QueuesMatch
  <2>5. \A p \in Priorities : p # own => /\ queues'[p] = queues[p]
                                        /\ Waiting(jobs', p) = Waiting(jobs, p)
    <3>1. \A p \in Priorities : p # own => queues'[p] = queues[p]
      BY <1>3, <2>2 DEF JobChanges, TypeOK
    <3>2. \A p \in Priorities : p # own => Waiting(jobs', p) = Waiting(jobs, p)
      BY <2>2, <2>3 DEF Waiting
    <3>3. QED
      BY <3>1, <3>2
  <2>6. NoDuplicates(queues'[own]) /\ Members(queues'[own]) = Waiting(jobs', own)
    <3>1. CASE /\ new.status # "queued"
               /\ queues' = [queues EXCEPT ![own] = Without(@, {id})]
      <4>1. queues'[own] = Without(queues[own], {id})
        BY <2>2, <3>1 DEF TypeOK
      <4>2. /\ NoDuplicates(queues'[own])
            /\ Members(queues'[own]) = Waiting(jobs, own) \ {id}
        BY <2>2, <2>4, <4>1, JobIdsFinite, WithoutLists
      <4>3. Waiting(jobs', own) = Waiting(jobs, own) \ {id}
        BY <2>3, <3>1 DEF Waiting
      <4>4. QED
        BY <4>2, <4>3
    <3>2. CASE /\ jobs[id].status # "queued" /\ new.status = "queued"
               /\ queues' = [queues EXCEPT ![own] = Append(@, id)]
      <4>1. queues'[own] = Append(queues[own], id)
        BY <2>2, <3>2 DEF TypeOK
      <4>2. id \notin Members(queues[own])
        BY <2>2, <2>4, <3>2 DEF Waiting
      <4>3. /\ NoDuplicates(queues'[own])
            /\ Members(queues'[own]) = Waiting(jobs, own) \cup {id}
        BY <2>2, <2>4, <4>1, <4>2, AppendLists
      <4>4. Waiting(jobs', own) = Waiting(jobs, own) \cup {id}
        BY <2>1, <2>2, <2>3, <3>2 DEF Waiting
      <4>5. QED
        BY <4>3, <4>4
    <3>3. CASE /\ jobs[id].status = "queued" <=> new.status = "queued"
               /\ queues' = queues
      <4>1. Waiting(jobs', own) = Waiting(jobs, own)
        BY <2>1, <2>2, <2>3, <3>3 DEF Waiting
      <4>2. QED
        BY <2>2, <2>4, <3>3, <4>1
    <3>4. QED
      BY <1>3, <3>1, <3>2, <3>3 DEF JobChanges
  <2>7. \A p \in Priorities : NoDuplicates(queues'[p]) /\ Members(queues'[p]) = Waiting(jobs', p)
    BY <2>4, <2>5, <2>6
  <2>8. QED
    BY <2>7 DEF QueueConsistent, QueuesMatch, Waiting
<1>4. ASSUME NEW request \in Requests, NEW key \in Keys \cup {None}, JobArrives(request, key)
      PROVE  QueueConsistent'
  <2> DEFINE id == next_id + 1
             own == request.priority
  <2>1. id \in JobIds /\ id \notin DOMAIN jobs
    <3>1. \A x \in DOMAIN jobs : x <= next_id
      BY DEF IdsBelowNext
    <3>2. QED
      BY <1>4, <3>1 DEF JobArrives, TypeOK
  <2>2. own \in Priorities
    BY RequestsAssumption DEF SubmitRequest
  <2>3. NewJob(request, key).status = "queued" /\ PriorityOf(NewJob(request, key)) = own
    BY DEF NewJob, PriorityOf
  <2>4. \A p \in Priorities : /\ queues[p] \in Seq(JobIds) /\ NoDuplicates(queues[p])
                              /\ Members(queues[p]) = Waiting(jobs, p)
    BY DEF TypeOK, QueueConsistent, QueuesMatch
  <2>5. /\ DOMAIN jobs' = DOMAIN jobs \cup {id} /\ jobs'[id] = NewJob(request, key)
        /\ \A x \in DOMAIN jobs : jobs'[x] = jobs[x]
    BY <1>4, <2>1 DEF JobArrives
  <2> HIDE DEF id
  <2>6. \A p \in Priorities : p # own => queues'[p] = queues[p] /\ Waiting(jobs', p) = Waiting(jobs, p)
    <3>1. \A p \in Priorities : p # own => queues'[p] = queues[p]
      BY <1>4, <2>2 DEF JobArrives, TypeOK
    <3>2. \A p \in Priorities : p # own => Waiting(jobs', p) = Waiting(jobs, p)
      BY <2>1, <2>3, <2>5 DEF Waiting
    <3>3. QED
      BY <3>1, <3>2
  <2>7. NoDuplicates(queues'[own]) /\ Members(queues'[own]) = Waiting(jobs', own)
    <3>1. queues'[own] = Append(queues[own], id)
      BY <1>4, <2>2 DEF JobArrives, TypeOK, id
    <3>2. id \notin Members(queues[own])
      BY <2>1, <2>2, <2>4 DEF Waiting
    <3>3. NoDuplicates(queues'[own]) /\ Members(queues'[own]) = Waiting(jobs, own) \cup {id}
      BY <2>1, <2>2, <2>4, <3>1, <3>2, AppendLists
    <3>4. Waiting(jobs', own) = Waiting(jobs, own) \cup {id}
      BY <2>1, <2>3, <2>5 DEF Waiting
    <3>5. QED
      BY <3>3, <3>4
  <2>8. \A p \in Priorities : NoDuplicates(queues'[p]) /\ Members(queues'[p]) = Waiting(jobs', p)
    BY <2>4, <2>6, <2>7
  <2>9. QED
    BY <2>8 DEF QueueConsistent, QueuesMatch, Waiting
<1>5. CASE JobsSwept
  <2>1. QueuesMatch(SweptJobs(jobs), SweptQueues(jobs, queues))
    BY SweptQueuesMatch DEF TypeOK, QueueConsistent
  <2>2. QED
    BY <1>5, <2>1 DEF JobsSwept, QueueConsistent, QueuesMatch, Waiting
<1>6. CASE JobsPruned
  <2>1. \A id \in PrunedNow : id \in DOMAIN jobs /\ jobs[id].status # "queued"
    BY DEF PrunedNow, Prunable, Terminal
  <2>2. ASSUME NEW p \in Priorities
        PROVE  NoDuplicates(queues'[p]) /\ Members(queues'[p]) = Waiting(jobs', p)
    <3> DEFINE gone == {id \in PrunedNow : PriorityOf(jobs[id]) = p}
    <3>1. queues'[p] = Without(queues[p], gone)
      BY <1>6 DEF JobsPruned
    <3>2. queues[p] \in Seq(JobIds) /\ Members(queues[p]) = Waiting(jobs, p)
      BY DEF TypeOK, QueueConsistent, QueuesMatch
    <3>3. NoDuplicates(queues'[p]) /\ Members(queues'[p]) = Waiting(jobs, p) \ gone
      BY <3>1, <3>2, JobIdsFinite, WithoutLists
    <3>4. Waiting(jobs, p) \ gone = Waiting(jobs, p)
      BY <2>1 DEF Waiting
    <3>5. Waiting(jobs', p) = Waiting(jobs, p)
      BY <1>6, <2>1 DEF JobsPruned, Waiting
    <3>6. QED
      BY <3>3, <3>4, <3>5
  <2>3. QED
    BY <2>2 DEF QueueConsistent, QueuesMatch, Waiting
<1>7. QED
  BY <1>1, <1>2, <1>3, <1>4, <1>5, <1>6, StepShape DEF RegistryChange

--------------------------------------------------------------------------------
(* The leases *)

\* Taking back expired leases keeps the lease discipline: the swept jobs have none.
LEMMA SweptLeases ==
    ASSUME now \in Nat, NEW js, JobTable(js), LeasesConsistentIn(js)
    PROVE  LeasesConsistentIn(SweptJobs(js))
<1>1. \A id \in DOMAIN js : js[id] \in JobRecord /\ LeaseInOrder(js[id])
  BY DEF JobTable, LeasesConsistentIn
<1>2. \A id \in DOMAIN js : LeaseInOrder(TimedOutJob(js[id]))
  BY <1>1, RecordEffects
<1>3. QED
  BY <1>1, <1>2 DEF LeasesConsistentIn, SweptJobs

\* An empty table keeps the lease discipline.
LEMMA LeaseInit == Init => LeaseConsistent
BY DEF Init, LeaseConsistent, LeasesConsistentIn, NoJobs, Snapshot

\* Every step keeps the lease discipline, in memory and in the rows.
LEMMA LeaseStep ==
    ASSUME TypeOK, QueueConsistent, LeaseConsistent, [Step]_vars
    PROVE  LeaseConsistent'
<1>1. LeasesConsistentIn(jobs) /\ LeasesConsistentIn(store.jobs)
  BY DEF LeaseConsistent
<1>2. SUFFICES LeasesConsistentIn(jobs')
  <2>1. LeasesConsistentIn(store'.jobs)
    BY <1>1, <1>2, StoreShape
  <2>2. QED
    BY <1>2, <2>1 DEF LeaseConsistent, LeasesConsistentIn, LeaseInOrder
<1>3. CASE Restart
  <2>1. jobs' = SweptJobs(store.jobs)
    BY <1>3 DEF Restart
  <2>2. QED
    BY <1>1, <2>1, SweptLeases DEF TypeOK
<1>4. CASE RegistryRests
  BY <1>1, <1>4 DEF RegistryRests, registryVars
<1>5. ASSUME NEW id \in JobIds, NEW new \in JobRecord, JobChanges(id, new)
      PROVE  LeasesConsistentIn(jobs')
  BY <1>1, <1>5 DEF JobChanges, LeasesConsistentIn
<1>6. ASSUME NEW request \in Requests, NEW key \in Keys \cup {None}, JobArrives(request, key)
      PROVE  LeasesConsistentIn(jobs')
  <2>1. LeaseInOrder(NewJob(request, key))
    BY BoundsAssumption DEF NewJob, LeaseInOrder
  <2>2. QED
    BY <1>1, <1>6, <2>1 DEF JobArrives, LeasesConsistentIn
<1>7. CASE JobsSwept
  BY <1>1, <1>7, SweptLeases DEF JobsSwept, TypeOK
<1>8. CASE JobsPruned
  BY <1>1, <1>8 DEF JobsPruned, LeasesConsistentIn
<1>9. QED
  BY <1>3, <1>4, <1>5, <1>6, <1>7, <1>8, StepShape DEF RegistryChange

--------------------------------------------------------------------------------
(* Numbers and idempotency keys *)

\* Every step keeps next_id at or above the numbers in use; a restart takes it from
\* the largest row.
LEMMA IdsStep ==
    ASSUME TypeOK, QueueConsistent, IdsBelowNext, [Step]_vars
    PROVE  IdsBelowNext'
<1>1. \A id \in DOMAIN jobs : id <= next_id /\ id \in Int
  BY JobIdsFinite DEF IdsBelowNext, TypeOK, JobTable
<1>2. next_id \in Nat
  BY DEF TypeOK
<1>3. CASE Restart
  <2>1. \A id \in DOMAIN store.jobs : id <= LoadNextId(store)
    BY LoadTypes DEF TypeOK
  <2>2. DOMAIN jobs' = DOMAIN store.jobs
    BY <1>3, SweptTypes DEF Restart, SweptJobs
  <2>3. QED
    BY <1>3, <2>1, <2>2 DEF Restart, IdsBelowNext
<1>4. CASE RegistryRests
  BY <1>1, <1>4 DEF RegistryRests, registryVars, IdsBelowNext
<1>5. ASSUME NEW id \in JobIds, NEW new \in JobRecord, JobChanges(id, new)
      PROVE  IdsBelowNext'
  BY <1>1, <1>5 DEF JobChanges, IdsBelowNext
<1>6. ASSUME NEW request \in Requests, NEW key \in Keys \cup {None}, JobArrives(request, key)
      PROVE  IdsBelowNext'
  <2>1. DOMAIN jobs' = DOMAIN jobs \cup {next_id + 1} /\ next_id' = next_id + 1
    BY <1>6 DEF JobArrives
  <2>2. QED
    BY <1>1, <1>2, <2>1 DEF IdsBelowNext
<1>7. CASE JobsSwept
  BY <1>1, <1>7 DEF JobsSwept, SweptJobs, IdsBelowNext
<1>8. CASE JobsPruned
  BY <1>1, <1>8 DEF JobsPruned, IdsBelowNext
<1>9. QED
  BY <1>3, <1>4, <1>5, <1>6, <1>7, <1>8, StepShape DEF RegistryChange

\* The keys that the jobs of a table carry.
KeysIn(js) == {js[id].idempotency_key : id \in DOMAIN js} \ {None}

\* The map of keys leads to the jobs of table js that carry them.
KeysMatch(js, map) ==
    /\ KeysUniqueIn(js)
    /\ DOMAIN map = KeysIn(js)
    /\ \A key \in DOMAIN map : map[key] \in DOMAIN js /\ js[map[key]].idempotency_key = key

\* Tables of the same jobs with the same keys match the same maps.
LEMMA KeysMatchSame ==
    ASSUME NEW js, NEW ks, NEW map, KeysMatch(js, map), DOMAIN ks = DOMAIN js,
           \A id \in DOMAIN js : ks[id].idempotency_key = js[id].idempotency_key
    PROVE  KeysMatch(ks, map)
<1>1. KeysUniqueIn(ks)
  BY DEF KeysMatch, KeysUniqueIn
<1>2. KeysIn(ks) = KeysIn(js)
  BY DEF KeysIn
<1>3. QED
  BY <1>1, <1>2 DEF KeysMatch

\* Taking back expired leases leaves every job its key.
LEMMA SweptKeys ==
    ASSUME now \in Nat, NEW js, JobTable(js)
    PROVE  /\ DOMAIN SweptJobs(js) = DOMAIN js
           /\ \A id \in DOMAIN js : SweptJobs(js)[id].idempotency_key = js[id].idempotency_key
<1>1. \A id \in DOMAIN js : js[id] \in JobRecord
  BY DEF JobTable
<1>2. \A id \in DOMAIN js : TimedOutJob(js[id]).idempotency_key = js[id].idempotency_key
  BY <1>1, RecordEffects DEF SameIdentity
<1>3. QED
  BY <1>2 DEF SweptJobs

\* No job carries a key, and no number is in use, at the start.
LEMMA KeysInit == Init => KeysConsistent /\ IdsBelowNext
BY DEF Init, KeysConsistent, KeysUniqueIn, IdsBelowNext, NoJobs, Snapshot

\* Every step keeps the key map in agreement with the keys that jobs carry; that a
\* new number is not in use is what the submit case needs.
LEMMA KeysStep ==
    ASSUME TypeOK, QueueConsistent, KeysConsistent, IdsBelowNext, [Step]_vars
    PROVE  KeysConsistent'
<1>1. KeysMatch(jobs, idempotency_keys) /\ KeysUniqueIn(store.jobs)
  BY DEF KeysConsistent, KeysMatch, KeysIn
<1>2. SUFFICES KeysMatch(jobs', idempotency_keys')
  <2>1. KeysUniqueIn(store'.jobs)
    BY <1>1, <1>2, StoreShape DEF KeysMatch
  <2>2. QED
    BY <1>2, <2>1 DEF KeysConsistent, KeysMatch, KeysIn, KeysUniqueIn
<1>3. CASE Restart
  <2>1. KeysMatch(store.jobs, LoadKeys(store))
    BY <1>1 DEF KeysMatch, LoadKeys, KeysIn
  <2>2. jobs' = SweptJobs(store.jobs) /\ idempotency_keys' = LoadKeys(store)
    BY <1>3 DEF Restart
  <2>3. QED
    BY <2>1, <2>2, SweptKeys, KeysMatchSame DEF TypeOK
<1>4. CASE RegistryRests
  BY <1>1, <1>4 DEF RegistryRests, registryVars
<1>5. ASSUME NEW id \in JobIds, NEW new \in JobRecord, JobChanges(id, new)
      PROVE  KeysMatch(jobs', idempotency_keys')
  <2>1. /\ DOMAIN jobs' = DOMAIN jobs
        /\ \A x \in DOMAIN jobs : jobs'[x].idempotency_key = jobs[x].idempotency_key
        /\ idempotency_keys' = idempotency_keys
    BY <1>5 DEF JobChanges, SameIdentity
  <2>2. QED
    BY <1>1, <2>1, KeysMatchSame
<1>6. ASSUME NEW request \in Requests, NEW key \in Keys \cup {None}, JobArrives(request, key)
      PROVE  KeysMatch(jobs', idempotency_keys')
  <2> DEFINE id == next_id + 1
  <2>1. id \notin DOMAIN jobs
    <3>1. \A x \in DOMAIN jobs : x <= next_id
      BY DEF IdsBelowNext
    <3>2. QED
      BY <3>1 DEF TypeOK
  <2>2. /\ DOMAIN jobs' = DOMAIN jobs \cup {id} /\ jobs'[id].idempotency_key = key
        /\ \A x \in DOMAIN jobs : jobs'[x] = jobs[x]
    BY <1>6, <2>1 DEF JobArrives, NewJob
  <2>3. key \notin DOMAIN idempotency_keys
    BY <1>1, <1>6 DEF JobArrives, KeyInUse, KeysMatch
  <2>4. idempotency_keys' = IF key = None THEN idempotency_keys
                            ELSE [k \in DOMAIN idempotency_keys \cup {key} |->
                                    IF k = key THEN id ELSE idempotency_keys[k]]
    BY <1>6 DEF JobArrives
  <2> HIDE DEF id
  <2>5. \A x \in DOMAIN jobs : jobs[x].idempotency_key # None => jobs[x].idempotency_key # key
    BY <1>1, <2>3 DEF KeysMatch, KeysIn
  <2>6. KeysUniqueIn(jobs')
    BY <1>1, <2>1, <2>2, <2>5 DEF KeysMatch, KeysUniqueIn
  <2>7. KeysIn(jobs') = KeysIn(jobs) \cup ({key} \ {None})
    <3>1. \A k : k \in KeysIn(jobs') <=> k \in KeysIn(jobs) \/ (k = key /\ k # None)
      BY <2>1, <2>2 DEF KeysIn
    <3>2. QED
      BY <3>1
  <2>8. CASE key = None
    BY <1>1, <2>2, <2>4, <2>6, <2>7, <2>8 DEF KeysMatch
  <2>9. CASE key # None
    <3>1. DOMAIN idempotency_keys' = KeysIn(jobs')
      BY <1>1, <2>4, <2>7, <2>9 DEF KeysMatch
    <3>2. \A k \in DOMAIN idempotency_keys' :
            /\ idempotency_keys'[k] \in DOMAIN jobs'
            /\ jobs'[idempotency_keys'[k]].idempotency_key = k
      BY <1>1, <2>2, <2>4, <2>9 DEF KeysMatch
    <3>3. QED
      BY <2>6, <3>1, <3>2 DEF KeysMatch
  <2>10. QED
    BY <2>8, <2>9
<1>7. CASE JobsSwept
  <2>1. jobs' = SweptJobs(jobs) /\ idempotency_keys' = idempotency_keys
    BY <1>7 DEF JobsSwept
  <2>2. QED
    BY <1>1, <2>1, SweptKeys, KeysMatchSame DEF TypeOK
<1>8. CASE JobsPruned
  <2>1. /\ DOMAIN jobs' = DOMAIN jobs \ PrunedNow
        /\ \A x \in DOMAIN jobs' : jobs'[x] = jobs[x]
    BY <1>8 DEF JobsPruned
  <2>2. /\ DOMAIN idempotency_keys' =
                DOMAIN idempotency_keys \ {jobs[id].idempotency_key : id \in PrunedNow}
        /\ \A k \in DOMAIN idempotency_keys' : idempotency_keys'[k] = idempotency_keys[k]
    BY <1>8 DEF JobsPruned, KeysAfterPrune
  <2>3. PrunedNow \subseteq DOMAIN jobs
    BY DEF PrunedNow, Prunable
  <2>4. KeysUniqueIn(jobs')
    BY <1>1, <2>1 DEF KeysMatch, KeysUniqueIn
  <2>5. \A k \in DOMAIN idempotency_keys' :
            /\ idempotency_keys'[k] \in DOMAIN jobs'
            /\ jobs'[idempotency_keys'[k]].idempotency_key = k
    BY <1>1, <2>1, <2>2 DEF KeysMatch
  <2>6. \A x \in DOMAIN jobs' : jobs'[x].idempotency_key # None =>
            jobs'[x].idempotency_key \in DOMAIN idempotency_keys'
    <3>1. TAKE x \in DOMAIN jobs'
    <3>2. HAVE jobs'[x].idempotency_key # None
    <3>3. x \in DOMAIN jobs /\ x \notin PrunedNow /\ jobs'[x] = jobs[x]
      BY <2>1
    <3>4. jobs[x].idempotency_key \in DOMAIN idempotency_keys
      BY <1>1, <3>2, <3>3 DEF KeysMatch, KeysIn
    <3>5. \A y \in PrunedNow : jobs[y].idempotency_key # jobs[x].idempotency_key
      BY <1>1, <2>3, <3>2, <3>3 DEF KeysMatch, KeysUniqueIn
    <3>6. QED
      BY <2>2, <3>3, <3>4, <3>5
  <2>7. \A k \in DOMAIN idempotency_keys' : k # None
    BY <1>1, <2>2 DEF KeysMatch, KeysIn
  <2>8. DOMAIN idempotency_keys' = KeysIn(jobs')
    BY <2>5, <2>6, <2>7 DEF KeysIn
  <2>9. QED
    BY <2>4, <2>5, <2>8 DEF KeysMatch
<1>9. QED
  BY <1>3, <1>4, <1>5, <1>6, <1>7, <1>8, StepShape DEF RegistryChange

--------------------------------------------------------------------------------
(* The inductive invariant *)

IInv == TypeOK /\ QueueConsistent /\ LeaseConsistent /\ KeysConsistent /\ IdsBelowNext

\* The inductive invariant holds at the start.
LEMMA InvariantInit == Init => IInv
BY TypeInit, QueueInit, LeaseInit, KeysInit DEF IInv

\* Every step keeps the inductive invariant.
LEMMA InvariantKept == IInv /\ [Step]_vars => IInv'
BY TypeStep, QueueStep, LeaseStep, KeysStep, IdsStep DEF IInv

\* In particular, every step of the specification does.
LEMMA InvariantStep == IInv /\ [Next]_vars => IInv'
BY InvariantKept DEF Step

\* The inductive invariant holds in every reachable state, for all sets of requests,
\* keys and workers and all limits, with failing transactions and restarts at any point.
THEOREM InvariantHolds == Spec => []IInv
BY InvariantInit, InvariantStep, PTL DEF Spec

\* A queue holds exactly the queued jobs of its priority, each one once, across every
\* claim, report, cancellation, sweep, prune, failed transaction and restart.
THEOREM QueuesCorrect == Spec => []QueueConsistent
<1>1. IInv => QueueConsistent
  BY DEF IInv
<1>2. QED
  BY <1>1, InvariantHolds, PTL

\* A job that is not running holds no usable lease and no job is tried more than
\* max_attempts times, in memory and in the rows a restart would load.
THEOREM LeasesCorrect == Spec => []LeaseConsistent
<1>1. IInv => LeaseConsistent
  BY DEF IInv
<1>2. QED
  BY <1>1, InvariantHolds, PTL

\* An idempotency key leads to the one job that was submitted with it, for as long as
\* that job exists, also after a restart.
THEOREM KeysCorrect == Spec => []KeysConsistent
<1>1. IInv => KeysConsistent
  BY DEF IInv
<1>2. QED
  BY <1>1, InvariantHolds, PTL

\* The number that the next submit takes is not in use.
THEOREM IdsCorrect == Spec => []IdsBelowNext
<1>1. IInv => IdsBelowNext
  BY DEF IInv
<1>2. QED
  BY <1>1, InvariantHolds, PTL

================================================================================

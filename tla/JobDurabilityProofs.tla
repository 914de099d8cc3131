-------------------------- MODULE JobDurabilityProofs --------------------------
(***************************************************************************)
(* Theorems about what JobRegistry keeps across failed transactions and    *)
(* restarts, for every value of its constants: the answers it gave, the    *)
(* attempts it handed out, the rows it wrote and the order of its queues;  *)
(* and that it implements JobLifecycle: the initial state maps to the      *)
(* initial state, and every step maps to a step of the life cycle or       *)
(* leaves it as it is.                                                     *)
(***************************************************************************)
EXTENDS JobRegistryProofs

--------------------------------------------------------------------------------
(* What saving, sweeping and loading do *)

\* A transaction that commits replaces the rows by the registry as it is; one that
\* fails leaves them.
LEMMA PersistEffect ==
    ASSUME NEW ok \in Outcomes, Persist(ok)
    PROVE  /\ ok \in BOOLEAN
           /\ ok => /\ store' = Snapshot(jobs', queues')
                    /\ store'.jobs = jobs'
                    /\ behind' = 0
           /\ ~ok => store' = store /\ behind' = behind + 1
<1>1. ok \in BOOLEAN
  BY Zenon DEF Outcomes
<1>2. store' = (IF ok THEN Snapshot(jobs', queues') ELSE store)
      /\ behind' = (IF ok THEN 0 ELSE behind + 1)
  BY DEF Persist
<1>3. Snapshot(jobs', queues').jobs = jobs'
  BY DEF Snapshot
<1>4. QED
  BY <1>1, <1>2, <1>3

\* Taking back expired leases changes running jobs only, and no attempt count.
LEMMA SweptFate ==
    ASSUME now \in Nat, NEW js, JobTable(js)
    PROVE  /\ DOMAIN SweptJobs(js) = DOMAIN js
           /\ \A id \in DOMAIN js :
                /\ SweptJobs(js)[id].attempts = js[id].attempts
                /\ js[id].status # "running" => SweptJobs(js)[id] = js[id]
                /\ SweptJobs(js)[id].status \in {js[id].status, "queued", "failed"}
<1>1. \A id \in DOMAIN js : js[id] \in JobRecord
  BY DEF JobTable
<1>2. \A id \in DOMAIN js : /\ TimedOutJob(js[id]).attempts = js[id].attempts
                            /\ TimedOutJob(js[id]).status \in {"queued", "failed"}
  BY <1>1, RecordEffects
<1>3. \A id \in ExpiredLeases(js) : js[id].status = "running"
  BY DEF ExpiredLeases
<1>4. QED
  BY <1>2, <1>3 DEF SweptJobs

\* A move never lowers the count of attempts, and leaves a finished job as it finished
\* but for its callback.
LEMMA MoveEffect ==
    ASSUME NEW job \in JobRecord, NEW new \in JobRecord, Moves(job, new)
    PROVE  /\ job.attempts \in Nat /\ new.attempts \in Nat
           /\ job.attempts <= new.attempts
           /\ job.status \in Terminal =>
                /\ new.status = job.status
                /\ [new EXCEPT !.callback = "none"] = [job EXCEPT !.callback = "none"]
<1> DEFINE delivered == [job EXCEPT !.callback = "delivered"]
<1>1. /\ delivered.attempts = job.attempts
      /\ delivered.status = job.status
      /\ [delivered EXCEPT !.callback = "none"] = [job EXCEPT !.callback = "none"]
  BY DEF JobRecord
<1>2. job.attempts \in Nat /\ new.attempts \in Nat
  BY DEF JobRecord
<1>3. \/ new = delivered
      \/ /\ new.attempts \in {job.attempts, job.attempts + 1}
         /\ job.status \notin Terminal
  BY DEF Moves, Terminal
<1> HIDE DEF delivered
<1>4. CASE new = delivered
  BY <1>1, <1>2, <1>4
<1>5. CASE new.attempts \in {job.attempts, job.attempts + 1} /\ job.status \notin Terminal
  BY <1>2, <1>5
<1>6. QED
  BY <1>3, <1>4, <1>5

--------------------------------------------------------------------------------
(* The attempts handed to workers *)

\* The rows of a table count every attempt that was handed out.
GrantsIn(js, grants) == \A id \in DOMAIN js : grants[id] <= js[id].attempts

\* The jobs in memory and the rows of the store both do.
GrantsKept == GrantsIn(jobs, granted) /\ GrantsIn(store.jobs, granted)

\* No attempt was handed out at the start.
LEMMA GrantsInit == Init => GrantsKept
BY DEF Init, GrantsKept, GrantsIn, NoJobs, Snapshot

\* Every step keeps the count of attempts at or above the ones handed out: a claim
\* hands one out only once the rows count it, and nothing lowers a count.
LEMMA GrantsStep ==
    ASSUME IInv, GrantsKept, [Step]_vars
    PROVE  GrantsKept'
<1>1. TypeOK /\ QueueConsistent
  BY DEF IInv
<1>2. /\ GrantsIn(jobs, granted) /\ GrantsIn(store.jobs, granted)
      /\ JobTable(jobs) /\ JobTable(store.jobs) /\ now \in Nat
      /\ granted \in [JobIds -> Nat]
  BY <1>1 DEF GrantsKept, TypeOK
<1>3. \A js : JobTable(js) => \A id \in DOMAIN js : id \in JobIds /\ js[id].attempts \in Nat
  BY DEF JobTable, JobRecord
<1>4. SUFFICES GrantsIn(jobs', granted') /\ GrantsIn(store'.jobs, granted')
  BY <1>4 DEF GrantsKept, GrantsIn
<1>5. ASSUME granted' = granted, GrantsIn(jobs', granted)
      PROVE  GrantsIn(jobs', granted') /\ GrantsIn(store'.jobs, granted')
  BY <1>1, <1>2, <1>5, StoreShape
<1>6. CASE Restart
  <2>1. granted' = granted /\ jobs' = SweptJobs(store.jobs)
    BY <1>6 DEF Restart
  <2>2. GrantsIn(jobs', granted)
    BY <1>2, <2>1, SweptFate DEF GrantsIn
  <2>3. QED
    BY <1>5, <2>1, <2>2
<1>7. CASE OnlyAnswers
  BY <1>2, <1>7 DEF OnlyAnswers, registryVars
<1>8. ASSUME NEW ok \in Outcomes, RowsSaved(ok)
      PROVE  GrantsIn(jobs', granted') /\ GrantsIn(store'.jobs, granted')
  BY <1>2, <1>5, <1>8 DEF RowsSaved, registryVars
<1>9. ASSUME NEW ok \in Outcomes, NEW id \in JobIds, NEW new \in JobRecord, JobMoves(id, new, ok)
      PROVE  GrantsIn(jobs', granted') /\ GrantsIn(store'.jobs, granted')
  <2>1. /\ id \in DOMAIN jobs /\ jobs' = [jobs EXCEPT ![id] = new]
        /\ Moves(jobs[id], new) /\ Persist(ok)
        /\ granted' = IF ok /\ Starts(jobs[id], new)
                      THEN [granted EXCEPT ![id] = new.attempts] ELSE granted
    BY <1>9 DEF JobMoves, JobChanges
  <2>2. jobs[id] \in JobRecord
    BY <1>2, <2>1 DEF JobTable
  <2>3. new.attempts \in Nat /\ jobs[id].attempts \in Nat /\ jobs[id].attempts <= new.attempts
    BY <2>1, <2>2, MoveEffect
  <2>4. GrantsIn(jobs', granted)
    <3>1. granted[id] \in Nat /\ granted[id] <= jobs[id].attempts
      BY <1>2, <2>1 DEF GrantsIn
    <3>2. granted[id] <= new.attempts
      BY <2>3, <3>1
    <3>3. QED
      BY <1>2, <2>1, <3>2 DEF GrantsIn
  <2>5. CASE ok /\ Starts(jobs[id], new)
    <3>1. store'.jobs = jobs'
      BY <2>1, <2>5, PersistEffect
    <3>2. granted' = [granted EXCEPT ![id] = new.attempts]
      BY <2>1, <2>5
    <3>3. GrantsIn(jobs', granted')
      BY <1>2, <2>1, <2>3, <2>4, <3>2 DEF GrantsIn
    <3>4. QED
      BY <3>1, <3>3
  <2>6. CASE ~(ok /\ Starts(jobs[id], new))
    BY <1>5, <2>1, <2>4, <2>6
  <2>7. QED
    BY <2>5, <2>6
<1>10. ASSUME NEW request \in Requests, NEW key \in Keys \cup {None}, NEW ok \in Outcomes,
              Submit(request, key, ok)
       PROVE  GrantsIn(jobs', granted') /\ GrantsIn(store'.jobs, granted')
  <2> DEFINE id == next_id + 1
  <2>1. /\ id \in JobIds
        /\ jobs' = [x \in DOMAIN jobs \cup {id} |->
                        IF x = id THEN NewJob(request, key) ELSE jobs[x]]
        /\ granted' = [granted EXCEPT ![id] = 0]
    BY <1>1, <1>10, BoundsAssumption DEF Submit, TypeOK, JobIds
  <2>2. NewJob(request, key).attempts = 0
    BY DEF NewJob
  <2> HIDE DEF id
  <2>3. GrantsIn(jobs', granted')
    BY <1>2, <2>1, <2>2 DEF GrantsIn
  <2>4. GrantsIn(store.jobs, granted')
    BY <1>2, <1>3, <2>1 DEF GrantsIn
  <2>5. QED
    BY <1>1, <2>3, <2>4, StoreShape
<1>11. ASSUME NEW ok \in Outcomes, RequeueExpiredLeases(ok)
       PROVE  GrantsIn(jobs', granted') /\ GrantsIn(store'.jobs, granted')
  <2>1. granted' = granted /\ jobs' = SweptJobs(jobs)
    BY <1>11 DEF RequeueExpiredLeases
  <2>2. GrantsIn(jobs', granted)
    BY <1>2, <2>1, SweptFate DEF GrantsIn
  <2>3. QED
    BY <1>5, <2>1, <2>2
<1>12. ASSUME NEW ok \in Outcomes, PruneTerminalJobs(ok)
       PROVE  GrantsIn(jobs', granted') /\ GrantsIn(store'.jobs, granted')
  <2>1. granted' = granted /\ jobs' = [id \in DOMAIN jobs \ PrunedNow |-> jobs[id]]
    BY <1>12 DEF PruneTerminalJobs
  <2>2. GrantsIn(jobs', granted)
    BY <1>2, <2>1 DEF GrantsIn
  <2>3. QED
    BY <1>5, <2>1, <2>2
<1>13. QED
  BY <1>1, <1>6, <1>7, <1>8, <1>9, <1>10, <1>11, <1>12, StepEffects DEF StepEffect


--------------------------------------------------------------------------------
(* The answers given to callers and workers *)

\* Table js honours every answer that was taken down.
AnswersIn(js, acks) == \A id \in JobIds : Honours(acks[id], id, js)

\* The jobs in memory and the rows of the store both do: a restart may come at any time.
AnswersKept == AnswersIn(jobs, acked) /\ AnswersIn(store.jobs, acked)

\* No answer was given at the start.
LEMMA AnswersInit == Init => AnswersKept
BY DEF Init, AnswersKept, AnswersIn, Honours

\* Taking back expired leases keeps the jobs that answers were given about.
LEMMA SweptAnswers ==
    ASSUME now \in Nat, NEW js, JobTable(js), NEW acks, AnswersIn(js, acks)
    PROVE  AnswersIn(SweptJobs(js), acks)
<1>1. "running" \notin Terminal
  BY DEF Terminal
<1>2. QED
  BY <1>1, SweptFate DEF AnswersIn, Honours

\* Every step honours the answers given before it, in memory and in the rows, and
\* gives a new answer only once the rows honour it too.
LEMMA AnswersStep ==
    ASSUME IInv, StoreFaithful, AnswersKept, [Step]_vars
    PROVE  AnswersKept'
<1>1. TypeOK /\ QueueConsistent /\ IdsBelowNext
  BY DEF IInv
<1>2. /\ AnswersIn(jobs, acked) /\ AnswersIn(store.jobs, acked)
      /\ JobTable(jobs) /\ JobTable(store.jobs) /\ now \in Nat
      /\ acked \in [JobIds -> Ack]
  BY <1>1 DEF AnswersKept, TypeOK
<1>3. SUFFICES AnswersIn(jobs', acked') /\ AnswersIn(store'.jobs, acked')
  BY <1>3 DEF AnswersKept, AnswersIn, Honours
<1>4. ASSUME acked' = acked, AnswersIn(jobs', acked)
      PROVE  AnswersIn(jobs', acked') /\ AnswersIn(store'.jobs, acked')
  BY <1>1, <1>2, <1>4, StoreShape
<1>5. CASE Restart
  <2>1. acked' = acked /\ jobs' = SweptJobs(store.jobs)
    BY <1>5 DEF Restart
  <2>2. QED
    BY <1>2, <1>4, <2>1, SweptAnswers
<1>6. CASE OnlyAnswers
  <2>1. jobs' = jobs /\ store' = store /\ (behind = 0 => store.jobs = jobs)
    BY <1>6 DEF OnlyAnswers, registryVars, StoreFaithful
  <2>2. QED
    BY <1>2, <1>6, <2>1 DEF OnlyAnswers, AnswersIn
<1>7. ASSUME NEW ok \in Outcomes, RowsSaved(ok)
      PROVE  AnswersIn(jobs', acked') /\ AnswersIn(store'.jobs, acked')
  BY <1>2, <1>4, <1>7 DEF RowsSaved, registryVars
<1>8. ASSUME NEW ok \in Outcomes, NEW id \in JobIds, NEW new \in JobRecord, JobMoves(id, new, ok)
      PROVE  AnswersIn(jobs', acked') /\ AnswersIn(store'.jobs, acked')
  <2>1. /\ id \in DOMAIN jobs /\ jobs' = [jobs EXCEPT ![id] = new]
        /\ Moves(jobs[id], new) /\ Persist(ok)
        /\ acked' = IF ok /\ Finishes(jobs[id], new) THEN [acked EXCEPT ![id] = new.status] ELSE acked
    BY <1>8 DEF JobMoves, JobChanges
  <2>2. jobs[id] \in JobRecord
    BY <1>2, <2>1 DEF JobTable
  <2>3. jobs[id].status \in Terminal => new.status = jobs[id].status
    BY <2>1, <2>2, MoveEffect
  <2>4. AnswersIn(jobs', acked)
    BY <1>2, <2>1, <2>3 DEF AnswersIn, Honours
  <2>5. CASE ok /\ Finishes(jobs[id], new)
    <3>1. store'.jobs = jobs'
      BY <2>1, <2>5, PersistEffect
    <3>2. acked' = [acked EXCEPT ![id] = new.status]
      BY <2>1, <2>5
    <3>3. jobs'[id] = new /\ id \in DOMAIN jobs'
      BY <2>1
    <3>4. Honours(new.status, id, jobs')
      BY <3>3 DEF Honours
    <3>5. AnswersIn(jobs', acked')
      BY <1>2, <2>4, <3>2, <3>4 DEF AnswersIn
    <3>6. QED
      BY <3>1, <3>5
  <2>6. CASE ~(ok /\ Finishes(jobs[id], new))
    BY <1>4, <2>1, <2>4, <2>6
  <2>7. QED
    BY <2>5, <2>6
<1>9. ASSUME NEW request \in Requests, NEW key \in Keys \cup {None}, NEW ok \in Outcomes,
             Submit(request, key, ok)
      PROVE  AnswersIn(jobs', acked') /\ AnswersIn(store'.jobs, acked')
  <2> DEFINE id == next_id + 1
  <2>1. /\ id \in JobIds /\ id \notin DOMAIN jobs
        /\ jobs' = [x \in DOMAIN jobs \cup {id} |->
                        IF x = id THEN NewJob(request, key) ELSE jobs[x]]
        /\ acked' = [acked EXCEPT ![id] = IF ok THEN "accepted" ELSE "none"]
        /\ Persist(ok)
    <3>1. id \in JobIds
      BY <1>1, <1>9, BoundsAssumption DEF Submit, TypeOK, JobIds
    <3>2. \A x \in DOMAIN jobs : x <= next_id
      BY <1>1 DEF IdsBelowNext
    <3>3. id \notin DOMAIN jobs
      BY <1>1, <3>2 DEF TypeOK
    <3>4. QED
      BY <1>9, <3>1, <3>3 DEF Submit, Answered
  <2> HIDE DEF id
  <2>2. ASSUME NEW js, AnswersIn(js, acked), ok => id \in DOMAIN js
        PROVE  AnswersIn(js, acked')
    BY <1>2, <2>1, <2>2 DEF AnswersIn, Honours, Terminal
  <2>3. AnswersIn(jobs', acked)
    <3>1. \A x \in DOMAIN jobs : x \in DOMAIN jobs' /\ jobs'[x] = jobs[x]
      BY <2>1
    <3>2. QED
      BY <1>2, <3>1 DEF AnswersIn, Honours
  <2>4. AnswersIn(jobs', acked')
    BY <2>1, <2>2, <2>3
  <2>5. AnswersIn(store'.jobs, acked')
    BY <1>2, <2>1, <2>2, <2>4, PersistEffect
  <2>6. QED
    BY <2>4, <2>5
<1>10. ASSUME NEW ok \in Outcomes, RequeueExpiredLeases(ok)
       PROVE  AnswersIn(jobs', acked') /\ AnswersIn(store'.jobs, acked')
  <2>1. acked' = acked /\ jobs' = SweptJobs(jobs)
    BY <1>10 DEF RequeueExpiredLeases
  <2>2. QED
    BY <1>2, <1>4, <2>1, SweptAnswers
<1>11. ASSUME NEW ok \in Outcomes, PruneTerminalJobs(ok)
       PROVE  AnswersIn(jobs', acked') /\ AnswersIn(store'.jobs, acked')
  <2>1. /\ jobs' = [id \in DOMAIN jobs \ PrunedNow |-> jobs[id]]
        /\ acked' = [id \in JobIds |-> IF id \in PrunedNow THEN "pruned" ELSE acked[id]]
    BY <1>11 DEF PruneTerminalJobs
  <2>2. \A id \in JobIds : acked'[id] = acked[id] \/ acked'[id] = "pruned"
    BY <1>2, <2>1
  <2>3. \A id \in JobIds : acked'[id] # "pruned" => acked'[id] = acked[id] /\ id \notin PrunedNow
    BY <1>2, <2>1
  <2>4. AnswersIn(store.jobs, acked')
    BY <1>2, <2>2 DEF AnswersIn, Honours
  <2>5. AnswersIn(jobs', acked')
    BY <1>2, <2>1, <2>3 DEF AnswersIn, Honours
  <2>6. QED
    BY <1>1, <2>4, <2>5, StoreShape
<1>12. QED
  BY <1>1, <1>5, <1>6, <1>7, <1>8, <1>9, <1>10, <1>11, StepEffects DEF StepEffect


--------------------------------------------------------------------------------
(* What a restart loads *)

\* Loading the queues from a snapshot gives the queues that were saved: a queue is
\* rebuilt from the places of its jobs, and the queues have no job in common.
LEMMA QueuesSaved ==
    ASSUME NEW js, JobTable(js), NEW qs \in [Priorities -> Seq(JobIds)], QueuesMatch(js, qs)
    PROVE  LoadQueues(Snapshot(js, qs)) = qs
<1> DEFINE rows == Snapshot(js, qs)
<1>1. rows.jobs = js /\ rows.queue_position = QueuePositions(js, qs)
  BY SnapshotType
<1>2. ASSUME NEW p \in Priorities
      PROVE  LoadQueues(rows)[p] = qs[p]
  <2> DEFINE q == qs[p]
             rank == [id \in Members(q) |-> rows.queue_position[id]]
  <2>1. q \in Seq(JobIds) /\ NoDuplicates(q) /\ Members(q) = Waiting(js, p)
    BY DEF QueuesMatch
  <2>2. ASSUME NEW id \in Members(q)
        PROVE  rank[id] = Position(q, id) - 1
    <3>1. id \in DOMAIN js /\ PriorityOf(js[id]) = p
      BY <2>1 DEF Waiting
    <3>2. \A r \in Priorities : id \in Members(qs[r]) => r = p
      BY <3>1 DEF QueuesMatch, Waiting
    <3>3. (CHOOSE r \in Priorities : id \in Members(qs[r])) = p
      BY <3>2
    <3>4. QueuePositions(js, qs)[id] = Position(qs[p], id) - 1
      BY <3>1, <3>3 DEF QueuePositions
    <3>5. QED
      BY <1>1, <3>4
  <2>3. DOMAIN q \in SUBSET Int
    BY <2>1, LenProperties
  <2>4. \A i \in DOMAIN q : q[i] \in Members(q) /\ Position(q, q[i]) = i
    BY <2>1, PositionOf DEF Members
  <2>5. rank \in [Members(q) -> Int]
    <3>1. \A id \in Members(q) : Position(q, id) \in Int
      BY <2>3, <2>4 DEF Members
    <3>2. \A id \in Members(q) : rank[id] \in Int
      BY <2>2, <3>1
    <3>3. QED
      BY <3>2
  <2>6. \A i, j \in DOMAIN q : i < j => rank[q[i]] < rank[q[j]]
    <3>1. \A i \in DOMAIN q : rank[q[i]] = i - 1
      BY <2>2, <2>4
    <3> HIDE DEF q, rank
    <3>2. QED
      BY <2>3, <3>1
  <2>7. LoadQueues(rows)[p] = SortedBy(Members(q), rank)
    BY <1>1, <2>1 DEF LoadQueues
  <2> HIDE DEF rank, q
  <2>8. SortedBy(Members(q), rank) = q
    BY <2>1, <2>5, <2>6, JobIdsFinite, SortedByOwnOrder
  <2>9. QED
    BY <2>7, <2>8 DEF q
<1>3. LoadQueues(rows) = [p \in Priorities |-> LoadQueues(rows)[p]]
  BY DEF LoadQueues
<1>4. QED
  BY <1>2, <1>3

\* Loading the keys from rows gives the one map that matches them.
LEMMA KeysSaved ==
    ASSUME NEW rows, NEW map, KeysMatch(rows.jobs, map), map \in [DOMAIN map -> JobIds]
    PROVE  LoadKeys(rows) = map
<1>1. DOMAIN LoadKeys(rows) = DOMAIN map
  BY DEF LoadKeys, KeysMatch, KeysIn
<1>2. ASSUME NEW key \in DOMAIN map PROVE LoadKeys(rows)[key] = map[key]
  <2>1. /\ key # None
        /\ map[key] \in DOMAIN rows.jobs /\ rows.jobs[map[key]].idempotency_key = key
    BY DEF KeysMatch, KeysIn
  <2>2. \A id \in DOMAIN rows.jobs : rows.jobs[id].idempotency_key = key => id = map[key]
    BY <2>1 DEF KeysMatch, KeysUniqueIn
  <2>3. LoadKeys(rows)[key] = CHOOSE id \in DOMAIN rows.jobs : rows.jobs[id].idempotency_key = key
    BY <1>1 DEF LoadKeys
  <2>4. QED
    BY <2>1, <2>2, <2>3
<1>3. LoadKeys(rows) = [key \in DOMAIN LoadKeys(rows) |-> LoadKeys(rows)[key]]
  BY DEF LoadKeys
<1>4. QED
  BY <1>1, <1>2, <1>3

\* A restart from the rows would give these jobs, queues and keys.
LoadsAs(rows, js, qs, map) ==
    rows.jobs = js /\ LoadQueues(rows) = qs /\ LoadKeys(rows) = map

\* A snapshot loads as the registry it was taken of.
LEMMA SnapshotLoads ==
    ASSUME TypeOK, QueueConsistent, KeysConsistent
    PROVE  LoadsAs(Snapshot(jobs, queues), jobs, queues, idempotency_keys)
<1> DEFINE rows == Snapshot(jobs, queues)
<1>1. rows.jobs = jobs
  BY DEF Snapshot
<1>2. LoadQueues(rows) = queues
  BY QueuesSaved DEF TypeOK, QueueConsistent
<1>3. KeysMatch(rows.jobs, idempotency_keys)
  BY <1>1 DEF KeysConsistent, KeysMatch, KeysIn
<1>4. LoadKeys(rows) = idempotency_keys
  <2>1. idempotency_keys \in [DOMAIN idempotency_keys -> JobIds]
    BY DEF TypeOK
  <2> HIDE DEF rows
  <2>2. QED
    BY <1>3, <2>1, KeysSaved
<1>5. QED
  BY <1>1, <1>2, <1>4 DEF LoadsAs

\* When no lease has run out there is nothing to take back.
LEMMA NothingSwept ==
    ASSUME NEW js, JobTable(js), NEW qs \in [Priorities -> Seq(JobIds)], ExpiredLeases(js) = {}
    PROVE  SweptJobs(js) = js /\ SweptQueues(js, qs) = qs
<1>1. js = [id \in DOMAIN js |-> js[id]]
  BY DEF JobTable
<1>2. SweptJobs(js) = js
  BY <1>1 DEF SweptJobs
<1>3. Ascending({}) = <<>>
  <2>1. {} \in SUBSET Int /\ IsFiniteSet({})
    BY FS_EmptySet
  <2>2. Ascending({}) \in Seq({}) /\ Members(Ascending({})) = {}
    BY <2>1, AscendingLists
  <2>3. DOMAIN Ascending({}) = 1..Len(Ascending({})) /\ Len(Ascending({})) \in Nat
    BY <2>2, LenProperties
  <2>4. Len(Ascending({})) = 0
    BY <2>2, <2>3 DEF Members
  <2>5. QED
    BY <2>2, <2>4, EmptySeq
<1>4. \A p \in Priorities : SweptQueues(js, qs)[p] = qs[p]
  <2>1. TAKE p \in Priorities
  <2>2. {id \in ExpiredLeases(js) \ Members(qs[p]) :
            PriorityOf(js[id]) = p /\ js[id].attempts < MaxAttempts} = {}
    OBVIOUS
  <2>3. SweptQueues(js, qs)[p] = qs[p] \o <<>>
    BY <1>3, <2>2 DEF SweptQueues
  <2>4. QED
    BY <2>3, ConcatEmptySeq
<1>5. SweptQueues(js, qs) = [p \in Priorities |-> SweptQueues(js, qs)[p]]
  BY DEF SweptQueues
<1>6. QED
  BY <1>2, <1>4, <1>5

\* The empty database loads as the empty registry.
LEMMA FaithfulInit == Init => StoreFaithful
<1> SUFFICES ASSUME Init PROVE StoreFaithful
  OBVIOUS
<1>1. TypeOK /\ QueueConsistent /\ KeysConsistent
  BY TypeInit, QueueInit, KeysInit
<1>2. store = Snapshot(jobs, queues)
  BY DEF Init
<1>3. QED
  BY <1>1, <1>2, SnapshotLoads DEF StoreFaithful, LoadsAs

\* A step that commits leaves rows that load as the registry; a step that leaves the
\* rows alone either leaves the registry alone or counts a failed transaction.
LEMMA FaithfulStep ==
    ASSUME IInv, IInv', StoreFaithful, [Step]_vars
    PROVE  StoreFaithful'
<1>1. /\ TypeOK /\ QueueConsistent
      /\ TypeOK' /\ QueueConsistent' /\ KeysConsistent'
  BY DEF IInv
<1>2. SUFFICES behind' = 0 => LoadsAs(store', jobs', queues', idempotency_keys')
  BY <1>2 DEF StoreFaithful, LoadsAs
<1>3. LoadsAs(Snapshot(jobs', queues'), jobs', queues', idempotency_keys')
  <2>1. LoadsAs(Snapshot(jobs, queues), jobs, queues, idempotency_keys)'
    BY <1>1, SnapshotLoads, PTL
  <2>2. QED
    BY <2>1
<1>4. ASSUME NEW ok \in Outcomes, Persist(ok)
      PROVE  behind' = 0 => LoadsAs(store', jobs', queues', idempotency_keys')
  <2>1. CASE ok
    BY <1>3, <1>4, <2>1, PersistEffect
  <2>2. CASE ~ok
    <3>1. behind' = behind + 1 /\ behind \in Nat
      BY <1>1, <1>4, <2>2, PersistEffect DEF TypeOK
    <3>2. QED
      BY <3>1
  <2>3. QED
    BY <2>1, <2>2
<1>5. CASE Restart
  <2>1. CASE ExpiredLeases(store.jobs) = {}
    <3>1. /\ JobTable(store.jobs) /\ LoadQueues(store) \in [Priorities -> Seq(JobIds)]
      BY <1>1, LoadTypes DEF TypeOK
    <3>2. /\ SweptJobs(store.jobs) = store.jobs
          /\ SweptQueues(store.jobs, LoadQueues(store)) = LoadQueues(store)
      BY <2>1, <3>1, NothingSwept
    <3>3. QED
      BY <1>5, <2>1, <3>2 DEF Restart, LoadsAs
  <2>2. CASE ExpiredLeases(store.jobs) # {}
    BY <1>3, <1>5, <2>2 DEF Restart
  <2>3. QED
    BY <2>1, <2>2
<1>6. CASE OnlyAnswers
  BY <1>6 DEF OnlyAnswers, registryVars, StoreFaithful, LoadsAs
<1>7. ASSUME NEW ok \in Outcomes,
             \/ RowsSaved(ok)
             \/ \E id \in JobIds, new \in JobRecord : JobMoves(id, new, ok)
             \/ \E request \in Requests, key \in Keys \cup {None} : Submit(request, key, ok)
             \/ RequeueExpiredLeases(ok)
             \/ PruneTerminalJobs(ok)
      PROVE  Persist(ok)
  BY <1>7 DEF RowsSaved, JobMoves, Submit, RequeueExpiredLeases, PruneTerminalJobs
<1>8. QED
  BY <1>1, <1>4, <1>5, <1>6, <1>7, StepEffects DEF StepEffect

--------------------------------------------------------------------------------
(* The invariant of the registry and of what it wrote down *)

\* A step of the specification is a Step: its claims are for the kinds that ClaimKinds has.
LEMMA NextIsStep == [Next]_vars => [Step]_vars
BY DEF Step

DurableInv == IInv /\ GrantsKept /\ AnswersKept /\ StoreFaithful

\* The empty registry on the empty database has it.
LEMMA DurableInit == Init => DurableInv
BY InvariantInit, GrantsInit, AnswersInit, FaithfulInit DEF DurableInv

\* Every step keeps it, whatever kinds the claims are for.
LEMMA DurableKept == DurableInv /\ [Step]_vars => DurableInv'
<1> SUFFICES ASSUME IInv, GrantsKept, AnswersKept, StoreFaithful, [Step]_vars
             PROVE  IInv' /\ GrantsKept' /\ AnswersKept' /\ StoreFaithful'
  BY DEF DurableInv
<1>1. IInv'
  BY InvariantKept
<1>2. QED
  BY <1>1, GrantsStep, AnswersStep, FaithfulStep

\* It says that no attempt and no answer is forgotten, and that the rows load as the registry.
LEMMA DurableImplies == DurableInv => AttemptsNotForgotten /\ AcknowledgedKept /\ StoreFaithful
<1>1. GrantsKept => AttemptsNotForgotten
  BY DEF GrantsKept, GrantsIn, AttemptsNotForgotten
<1>2. AnswersKept => AcknowledgedKept
  BY DEF AnswersKept, AnswersIn, AcknowledgedKept
<1>3. QED
  BY <1>1, <1>2 DEF DurableInv

\* The registry under any driver: its steps in any order, with claims for any kinds.  The
\* drivers are the environment that Spec has, the scheduler and the callback dispatcher.
AnyDriver == Init /\ [][Step]_vars

\* The specification of the registry is one.
LEMMA SpecIsDriver == Spec => AnyDriver
BY NextIsStep, PTL DEF Spec, AnyDriver

\* The invariant holds in every reachable state, under any driver.
LEMMA DurableInvariant == AnyDriver => []DurableInv
BY DurableInit, DurableKept, PTL DEF AnyDriver

\* An attempt number that a worker was given is never given out again for the same
\* job, whatever transactions fail and whenever the process restarts.
THEOREM AttemptsRemembered == Spec => []AttemptsNotForgotten
BY SpecIsDriver, DurableInvariant, DurableImplies, PTL

\* A submit, completion, failure or cancellation that was answered with success, by the
\* call that did it or by a repeated one after a committed transaction, is never undone,
\* whatever transactions fail and whenever the process restarts, until the job is pruned.
THEOREM AnswersHonoured == Spec => []AcknowledgedKept
BY SpecIsDriver, DurableInvariant, DurableImplies, PTL

\* After a committed transaction a restart would rebuild the registry as it is: the
\* jobs, the order of every queue and the key map.
THEOREM RestartRebuilds == Spec => []StoreFaithful
BY SpecIsDriver, DurableInvariant, DurableImplies, PTL

--------------------------------------------------------------------------------
(* Finished jobs *)

\* No step changes a finished job, but for its callback; only a restart from rows that miss
\* the last changes can bring back an earlier state.
LEMMA DriversKeepFinished == AnyDriver => TerminalFinal
<1> DEFINE Kept ==
      \A id \in DOMAIN jobs :
          jobs[id].status \in Terminal /\ id \in DOMAIN jobs' /\ ~RestartBehind =>
              [jobs'[id] EXCEPT !.callback = "none"] = [jobs[id] EXCEPT !.callback = "none"]
<1>1. IInv /\ StoreFaithful /\ [Step]_vars => [Kept]_vars
  <2> SUFFICES ASSUME IInv, StoreFaithful, [Step]_vars,
                      NEW id \in DOMAIN jobs, jobs[id].status \in Terminal,
                      id \in DOMAIN jobs', ~RestartBehind
               PROVE  \/ jobs'[id] = jobs[id]
                      \/ [jobs'[id] EXCEPT !.callback = "none"] = [jobs[id] EXCEPT !.callback = "none"]
    OBVIOUS
  <2>1. /\ TypeOK /\ QueueConsistent /\ IdsBelowNext
        /\ JobTable(jobs) /\ jobs[id] \in JobRecord /\ now \in Nat /\ behind \in Nat
        /\ jobs[id].status # "running"
    BY DEF IInv, TypeOK, JobTable, Terminal
  <2>2. CASE Restart
    <3>1. store.jobs = jobs
      BY <2>1, <2>2 DEF RestartBehind, StoreFaithful
    <3>2. QED
      BY <2>1, <2>2, <3>1, SweptFate DEF Restart
  <2>3. CASE OnlyAnswers \/ \E ok \in Outcomes : RowsSaved(ok)
    BY <2>3 DEF OnlyAnswers, RowsSaved, registryVars
  <2>4. ASSUME NEW ok \in Outcomes, NEW x \in JobIds, NEW new \in JobRecord, JobMoves(x, new, ok)
        PROVE  \/ jobs'[id] = jobs[id]
               \/ [jobs'[id] EXCEPT !.callback = "none"] = [jobs[id] EXCEPT !.callback = "none"]
    <3>1. jobs' = [jobs EXCEPT ![x] = new] /\ Moves(jobs[x], new)
      BY <2>4 DEF JobMoves, JobChanges
    <3>2. CASE x = id
      BY <2>1, <3>1, <3>2, MoveEffect
    <3>3. CASE x # id
      BY <3>1, <3>3
    <3>4. QED
      BY <3>2, <3>3
  <2>5. ASSUME NEW request \in Requests, NEW key \in Keys \cup {None}, NEW ok \in Outcomes,
               Submit(request, key, ok)
        PROVE  jobs'[id] = jobs[id]
    <3>1. next_id + 1 # id
      BY <2>1 DEF IdsBelowNext, TypeOK
    <3>2. QED
      BY <2>5, <3>1 DEF Submit
  <2>6. ASSUME NEW ok \in Outcomes, RequeueExpiredLeases(ok) \/ PruneTerminalJobs(ok)
        PROVE  jobs'[id] = jobs[id]
    BY <2>1, <2>6, SweptFate DEF RequeueExpiredLeases, PruneTerminalJobs
  <2>7. QED
    BY <2>1, <2>2, <2>3, <2>4, <2>5, <2>6, StepEffects DEF StepEffect
<1>2. QED
  BY <1>1, DurableInvariant, PTL DEF AnyDriver, DurableInv, TerminalFinal

\* A finished job stays as it finished, but for its callback, until it is pruned; only
\* a restart from rows that miss the last changes can bring back an earlier state.
THEOREM FinishedStaysFinished == Spec => TerminalFinal
BY SpecIsDriver, DriversKeepFinished

--------------------------------------------------------------------------------
(* The order of the queues *)

\* The queue `longer' starts with queue q.
StartsWith(longer, q) ==
    DOMAIN q \subseteq DOMAIN longer /\ \A i \in DOMAIN q : longer[i] = q[i]

\* Two jobs of queue q that are still in queue new have not changed places.
OrderKept(q, new) ==
    \A i, j \in DOMAIN q :
        i < j /\ {q[i], q[j]} \subseteq Members(new) => Position(new, q[i]) < Position(new, q[j])

\* A queue that grows at its end or loses jobs keeps its order.
LEMMA QueueOrder ==
    ASSUME NEW q \in Seq(JobIds), NoDuplicates(q), NEW new, NoDuplicates(new),
           StartsWith(new, q) \/ \E ids : new = Without(q, ids)
    PROVE  OrderKept(q, new)
<1> SUFFICES ASSUME NEW i \in DOMAIN q, NEW j \in DOMAIN q, i < j,
                    q[i] \in Members(new), q[j] \in Members(new)
             PROVE  Position(new, q[i]) < Position(new, q[j])
  BY DEF OrderKept
<1>1. /\ Position(q, q[i]) = i /\ Position(q, q[j]) = j
      /\ q[i] \in Members(q) /\ q[j] \in Members(q)
  BY PositionOf DEF Members
<1>2. CASE StartsWith(new, q)
  <2>1. Position(new, q[i]) = i /\ Position(new, q[j]) = j
    BY <1>1, <1>2, PrefixKeepsPosition DEF StartsWith
  <2>2. QED
    BY <2>1
<1>3. ASSUME NEW ids, new = Without(q, ids)
      PROVE  Position(new, q[i]) < Position(new, q[j])
  <2>1. q[i] \in Members(q) \ ids /\ q[j] \in Members(q) \ ids
    BY <1>3, JobIdsFinite, WithoutLists
  <2>2. QED
    BY <1>1, <1>3, <2>1, JobIdsFinite, WithoutKeepsOrder
<1>4. QED
  BY <1>2, <1>3

\* The queues after a sweep start with the queues before it.
LEMMA SweptQueuesGrow ==
    ASSUME now \in Nat, NEW js, JobTable(js), NEW qs \in [Priorities -> Seq(JobIds)],
           NEW p \in Priorities
    PROVE  StartsWith(SweptQueues(js, qs)[p], qs[p])
<1> DEFINE back == {id \in ExpiredLeases(js) \ Members(qs[p]) :
                        PriorityOf(js[id]) = p /\ js[id].attempts < MaxAttempts}
           r == Ascending(back)
<1>1. SweptQueues(js, qs)[p] = qs[p] \o r
  BY DEF SweptQueues
<1>2. back \in SUBSET JobIds
  BY DEF ExpiredLeases, JobTable
<1>3. r \in Seq(JobIds)
  <2>1. back \in SUBSET Int /\ IsFiniteSet(back)
    BY <1>2, JobIdsFinite, FS_Subset
  <2> HIDE DEF back
  <2>2. QED
    BY <1>2, <2>1, AscendingLists, SeqMonotonic
<1>4. qs[p] \in Seq(JobIds)
  OBVIOUS
<1> HIDE DEF r
<1>5. /\ Len(qs[p]) \in Nat /\ DOMAIN qs[p] = 1..Len(qs[p]) /\ Len(r) \in Nat
      /\ DOMAIN (qs[p] \o r) = 1..(Len(qs[p]) + Len(r))
      /\ \A i \in 1..(Len(qs[p]) + Len(r)) :
            (qs[p] \o r)[i] = IF i <= Len(qs[p]) THEN qs[p][i] ELSE r[i - Len(qs[p])]
  BY <1>3, <1>4, LenProperties, ConcatProperties
<1>6. QED
  BY <1>1, <1>5 DEF StartsWith

\* A queue with a job appended starts with the queue.
LEMMA AppendedQueueGrows ==
    ASSUME NEW q \in Seq(JobIds), NEW id \in JobIds
    PROVE  StartsWith(Append(q, id), q)
<1>1. /\ Len(q) \in Nat /\ DOMAIN q = 1..Len(q)
      /\ DOMAIN Append(q, id) = 1..(Len(q) + 1)
      /\ \A i \in 1..Len(q) : Append(q, id)[i] = q[i]
  BY LenProperties, AppendProperties
<1>2. QED
  BY <1>1 DEF StartsWith

\* A step appends jobs to a queue or takes jobs out of it, nothing else.
LEMMA QueuesGrowOrShrink ==
    ASSUME IInv, StoreFaithful, [Step]_vars, ~RestartBehind, NEW p \in Priorities
    PROVE  StartsWith(queues'[p], queues[p]) \/ \E ids : queues'[p] = Without(queues[p], ids)
<1>1. /\ TypeOK /\ QueueConsistent
      /\ JobTable(jobs) /\ now \in Nat /\ behind \in Nat
      /\ queues \in [Priorities -> Seq(JobIds)]
  BY DEF IInv, TypeOK
<1>2. queues'[p] = queues[p] => StartsWith(queues'[p], queues[p])
  BY DEF StartsWith
<1>3. CASE Restart
  <2>1. store.jobs = jobs /\ LoadQueues(store) = queues
    BY <1>1, <1>3 DEF RestartBehind, StoreFaithful
  <2>2. queues' = SweptQueues(jobs, queues)
    BY <1>3, <2>1 DEF Restart
  <2>3. QED
    BY <1>1, <2>2, SweptQueuesGrow
<1>4. CASE RegistryRests
  BY <1>2, <1>4 DEF RegistryRests, registryVars
<1>5. ASSUME NEW id \in JobIds, NEW new \in JobRecord, JobChanges(id, new)
      PROVE  StartsWith(queues'[p], queues[p]) \/ \E ids : queues'[p] = Without(queues[p], ids)
  <2> DEFINE own == PriorityOf(jobs[id])
  <2>1. \/ queues' = [queues EXCEPT ![own] = Without(@, {id})]
        \/ queues' = [queues EXCEPT ![own] = Append(@, id)]
        \/ queues' = queues
    BY <1>5 DEF JobChanges
  <2>2. \/ queues'[p] = queues[p]
        \/ queues'[p] = Without(queues[p], {id})
        \/ queues'[p] = Append(queues[p], id)
    BY <1>1, <2>1
  <2>3. QED
    BY <1>1, <1>2, <2>2, AppendedQueueGrows
<1>6. ASSUME NEW request \in Requests, NEW key \in Keys \cup {None}, JobArrives(request, key)
      PROVE  StartsWith(queues'[p], queues[p])
  <2>1. next_id + 1 \in JobIds
    BY <1>6 DEF JobArrives
  <2>2. queues'[p] \in {queues[p], Append(queues[p], next_id + 1)}
    BY <1>1, <1>6 DEF JobArrives
  <2>3. QED
    BY <1>1, <1>2, <2>1, <2>2, AppendedQueueGrows
<1>7. CASE JobsSwept
  BY <1>1, <1>7, SweptQueuesGrow DEF JobsSwept
<1>8. CASE JobsPruned
  BY <1>8 DEF JobsPruned
<1>9. QED
  BY <1>1, <1>3, <1>4, <1>5, <1>6, <1>7, <1>8, StepShape DEF RegistryChange

\* No step makes two waiting jobs change places.
LEMMA DriversKeepOrder == AnyDriver => QueueOrderKept
<1> DEFINE Ordered ==
      ~RestartBehind =>
        \A p \in Priorities : \A i, j \in DOMAIN queues[p] :
            LET x == queues[p][i]
                y == queues[p][j]
            IN  i < j /\ {x, y} \subseteq Members(queues'[p]) =>
                    Position(queues'[p], x) < Position(queues'[p], y)
<1>1. IInv /\ StoreFaithful /\ [Step]_vars => [Ordered]_vars
  <2> SUFFICES ASSUME IInv, StoreFaithful, [Step]_vars, ~RestartBehind, NEW p \in Priorities
               PROVE  OrderKept(queues[p], queues'[p])
    BY DEF OrderKept
  <2>1. queues[p] \in Seq(JobIds) /\ NoDuplicates(queues[p])
    BY DEF IInv, TypeOK, QueueConsistent, QueuesMatch
  <2>2. NoDuplicates(queues'[p])
    <3>1. QueueConsistent'
      BY InvariantKept DEF IInv
    <3>2. QED
      BY <3>1 DEF QueueConsistent, QueuesMatch
  <2>3. QED
    BY <2>1, <2>2, QueuesGrowOrShrink, QueueOrder
<1>2. QED
  BY <1>1, DurableInvariant, PTL DEF AnyDriver, DurableInv, QueueOrderKept

\* Two jobs that wait in a queue never change places, not even across a restart from a
\* committed snapshot.
THEOREM QueuesKeepOrder == Spec => QueueOrderKept
BY SpecIsDriver, DriversKeepOrder

\* No claim, for whatever kinds, passes over a job of the same kind that is more urgent or
\* has waited longer.
LEMMA DriversClaimInOrder == AnyDriver => ClaimsInOrder
<1> DEFINE InOrder ==
      \A p, q \in Priorities : \A i \in DOMAIN queues[p], j \in DOMAIN queues[q] :
          LET x == queues[p][i]
              y == queues[q][j]
          IN  /\ jobs[x].request.kind = jobs[y].request.kind
              /\ PriorityRank[q] < PriorityRank[p] \/ (p = q /\ j < i)
              => ~(y \in DOMAIN jobs' /\ jobs'[y].status = "queued"
                   /\ x \in DOMAIN jobs' /\ jobs'[x].status = "running" /\ ~RestartBehind)
<1>1. IInv /\ StoreFaithful /\ [Step]_vars => [InOrder]_vars
  <2> SUFFICES ASSUME IInv, StoreFaithful, [Step]_vars,
                      NEW p \in Priorities, NEW q \in Priorities,
                      NEW i \in DOMAIN queues[p], NEW j \in DOMAIN queues[q],
                      jobs[queues[p][i]].request.kind = jobs[queues[q][j]].request.kind,
                      PriorityRank[q] < PriorityRank[p] \/ (p = q /\ j < i),
                      queues[p][i] \in DOMAIN jobs', jobs'[queues[p][i]].status = "running",
                      ~RestartBehind
               PROVE  FALSE
    OBVIOUS
  <2> DEFINE x == queues[p][i]
             y == queues[q][j]
  <2>1. /\ TypeOK /\ QueueConsistent /\ IdsBelowNext
        /\ JobTable(jobs) /\ now \in Nat /\ behind \in Nat /\ next_id \in Nat
    BY DEF IInv, TypeOK
  <2>2. /\ x \in DOMAIN jobs /\ jobs[x].status = "queued" /\ PriorityOf(jobs[x]) = p
        /\ y \in DOMAIN jobs /\ jobs[y].status = "queued"
    BY <2>1 DEF QueueConsistent, QueuesMatch, Members, Waiting
  <2>3. \A z \in DOMAIN SweptJobs(jobs) : z = x => SweptJobs(jobs)[z].status = "queued"
    BY <2>1, <2>2, SweptFate
  <2>4. ~Restart
    <3>1. SUFFICES ASSUME Restart PROVE FALSE
      OBVIOUS
    <3>2. store.jobs = jobs
      BY <2>1, <3>1 DEF RestartBehind, StoreFaithful
    <3>3. QED
      BY <2>3, <3>1, <3>2 DEF Restart
  <2>5. PICK ok \in Outcomes, new \in JobRecord : JobMoves(x, new, ok) /\ Starts(jobs[x], new)
    <3>1. ~OnlyAnswers /\ \A ok \in Outcomes : ~RowsSaved(ok)
      BY <2>2 DEF OnlyAnswers, RowsSaved, registryVars
    <3>2. \A ok \in Outcomes : ~RequeueExpiredLeases(ok) /\ ~PruneTerminalJobs(ok)
      BY <2>2, <2>3 DEF RequeueExpiredLeases, PruneTerminalJobs
    <3>3. \A request \in Requests, key \in Keys \cup {None}, ok \in Outcomes :
            ~Submit(request, key, ok)
      <4>1. x # next_id + 1
        <5>1. x <= next_id /\ x \in Int
          BY <2>1, <2>2, JobIdsFinite DEF IdsBelowNext, JobTable
        <5>2. QED
          BY <2>1, <5>1
      <4>2. QED
        BY <2>2, <4>1 DEF Submit
    <3>4. PICK ok \in Outcomes, id \in JobIds, new \in JobRecord : JobMoves(id, new, ok)
      BY <2>1, <2>4, <3>1, <3>2, <3>3, StepEffects DEF StepEffect
    <3>5. jobs' = [jobs EXCEPT ![id] = new] /\ id \in DOMAIN jobs
      BY <3>4 DEF JobMoves, JobChanges
    <3>6. id = x /\ new.status = "running"
      BY <2>2, <3>5
    <3>7. QED
      BY <2>2, <3>4, <3>6 DEF Starts
  <2>6. PICK kinds \in SUBSET Kinds, r \in Priorities :
            \E k \in DOMAIN queues[r] : FirstClaimable(kinds, r, k) /\ x = queues[r][k]
    BY <2>5 DEF JobMoves
  <2>7. PICK k \in DOMAIN queues[r] : FirstClaimable(kinds, r, k) /\ x = queues[r][k]
    BY <2>6
  <2>8. r = p /\ k = i
    BY <2>1, <2>2, <2>7 DEF QueueConsistent, QueuesMatch, NoDuplicates, Members, Waiting
  <2>9. Claimable(kinds, q, j)
    BY <2>2, <2>7, <2>8 DEF FirstClaimable, Claimable
  <2>10. PriorityRank[p] < PriorityRank[q] \/ (p = q /\ i <= j)
    BY <2>7, <2>8, <2>9 DEF FirstClaimable
  <2>11. \A r1, r2 \in Priorities : PriorityRank[r1] \in Int /\ PriorityRank[r2] \in Int
    BY DEF Priorities, PriorityRank
  <2>12. i \in Int /\ j \in Int
    BY <2>1, LenProperties, SMTT(30) DEF TypeOK
  <2>13. QED
    BY <2>10, <2>11, <2>12
<1>2. QED
  BY <1>1, DurableInvariant, PTL DEF AnyDriver, DurableInv, ClaimsInOrder

\* The job that a claim starts is the most urgent one of its kind, and within its
\* priority the one that has waited longest since it was last queued.
THEOREM ClaimsTakeTheFirst == Spec => ClaimsInOrder
BY SpecIsDriver, DriversClaimInOrder

--------------------------------------------------------------------------------
(* The life cycle *)

\* What the refinement mapping reads from a table of jobs.
PhasesIn(js) == [id \in JobIds |-> PhaseOf(id, js)]
TriesIn(js) == [id \in JobIds |-> TriesOf(id, js)]

\* The mapping applied to the jobs and to the rows, before and after a step.
LEMMA Mapping ==
    /\ Life!lifeVars = <<PhasesIn(jobs), TriesIn(jobs),
                         [phase |-> PhasesIn(store.jobs), tries |-> TriesIn(store.jobs)]>>
    /\ Life!lifeVars' = <<PhasesIn(jobs'), TriesIn(jobs'),
                          [phase |-> PhasesIn(store'.jobs), tries |-> TriesIn(store'.jobs)]>>
BY DEF Life!lifeVars, PhasesIn, TriesIn, PhaseOf, TriesOf

\* A step that leaves the rows or replaces them by the jobs is durable or leaves what
\* was saved.
LEMMA RowsMap ==
    ASSUME store'.jobs \in {store.jobs, jobs'}
    PROVE  Life!MaybeDurable
<1>1. CASE store'.jobs = jobs'
  BY <1>1 DEF Life!MaybeDurable, Life!Durable, PhaseOf, TriesOf
<1>2. CASE store'.jobs = store.jobs
  BY <1>2 DEF Life!MaybeDurable, PhaseOf, TriesOf
<1>3. QED
  BY <1>1, <1>2

\* A step that changes no job's status or attempts saves what was so far, or leaves the
\* life cycle as it is.
LEMMA RestMaps ==
    ASSUME store'.jobs \in {store.jobs, jobs'},
           PhasesIn(jobs') = PhasesIn(jobs), TriesIn(jobs') = TriesIn(jobs)
    PROVE  [Life!LifeNext]_(Life!lifeVars)
<1>1. CASE store'.jobs = store.jobs
  BY <1>1, Mapping
<1>2. CASE store'.jobs = jobs'
  <2>1. Life!Durable
    BY <1>2 DEF Life!Durable, PhaseOf, TriesOf
  <2>2. Life!Save
    BY <2>1 DEF Life!Save, PhasesIn, TriesIn, PhaseOf, TriesOf
  <2>3. QED
    BY <2>2 DEF Life!LifeNext
<1>3. QED
  BY <1>1, <1>2

\* The move of one job is Start, Report or Withdraw, or leaves its phase as it is.
LEMMA MoveMaps ==
    ASSUME IInv, NEW id \in JobIds, NEW new \in JobRecord, id \in DOMAIN jobs,
           jobs' = [jobs EXCEPT ![id] = new], Moves(jobs[id], new),
           store'.jobs \in {store.jobs, jobs'}
    PROVE  [Life!LifeNext]_(Life!lifeVars)
<1> DEFINE job == jobs[id]
<1>1. job \in JobRecord /\ LeaseInOrder(job) /\ MaxAttempts \in Nat
  BY BoundsAssumption DEF IInv, TypeOK, JobTable, LeaseConsistent, LeasesConsistentIn
<1>2. job.attempts \in Nat /\ job.status \in JobStatus
  BY <1>1 DEF JobRecord
<1>3. PhasesIn(jobs)[id] = job.status /\ TriesIn(jobs)[id] = job.attempts
  BY DEF PhasesIn, TriesIn, PhaseOf, TriesOf
<1>4. /\ PhasesIn(jobs') = [PhasesIn(jobs) EXCEPT ![id] = new.status]
      /\ TriesIn(jobs') = [TriesIn(jobs) EXCEPT ![id] = new.attempts]
  BY DEF PhasesIn, TriesIn, PhaseOf, TriesOf
<1>5. Life!MaybeDurable
  BY RowsMap
<1>6. /\ PhasesIn(jobs) = [x \in JobIds |-> PhaseOf(x, jobs)]
      /\ TriesIn(jobs) = [x \in JobIds |-> TriesOf(x, jobs)]
      /\ PhasesIn(jobs') = [x \in JobIds |-> PhaseOf(x, jobs)]'
      /\ TriesIn(jobs') = [x \in JobIds |-> TriesOf(x, jobs)]'
  BY DEF PhasesIn, TriesIn, PhaseOf, TriesOf
<1>7. /\ PhasesIn(jobs)[id] = new.status => PhasesIn(jobs') = PhasesIn(jobs)
      /\ TriesIn(jobs)[id] = new.attempts => TriesIn(jobs') = TriesIn(jobs)
  BY <1>4 DEF PhasesIn, TriesIn
<1>8. CASE job.status \notin Terminal /\ new.status = "cancelled" /\ new.attempts = job.attempts
  <2>1. Life!Withdraw(id)
    BY <1>2, <1>3, <1>4, <1>5, <1>6, <1>7, <1>8 DEF Life!Withdraw, JobStatus, Terminal
  <2>2. QED
    BY <2>1 DEF Life!LifeNext
<1>9. CASE job.status = "queued" /\ new.status = "running" /\ new.attempts = job.attempts + 1
  <2>1. job.attempts < MaxAttempts
    BY <1>1, <1>9 DEF LeaseInOrder
  <2>2. Life!Start(id)
    <3>1. TriesIn(jobs') = [TriesIn(jobs) EXCEPT ![id] = TriesIn(jobs)[id] + 1]
      BY <1>3, <1>4, <1>9
    <3>2. PhasesIn(jobs') = [PhasesIn(jobs) EXCEPT ![id] = "running"]
      BY <1>4, <1>9
    <3>3. PhasesIn(jobs)[id] = "queued" /\ TriesIn(jobs)[id] < MaxAttempts
      BY <1>3, <1>9, <2>1
    <3> HIDE DEF job
    <3>4. QED
      BY <1>5, <1>6, <3>1, <3>2, <3>3 DEF Life!Start
  <2>3. QED
    BY <2>2 DEF Life!LifeNext
<1>10. CASE /\ job.status = "running"
            /\ new.status \in {"running", "complete", "failed", "queued"}
            /\ new.status = "queued" => job.attempts < MaxAttempts
            /\ new.attempts = job.attempts
  <2>1. CASE new.status = "running"
    <3>1. PhasesIn(jobs') = PhasesIn(jobs) /\ TriesIn(jobs') = TriesIn(jobs)
      BY <1>3, <1>7, <1>10, <2>1
    <3>2. QED
      BY <3>1, RestMaps
  <2>2. CASE new.status # "running"
    <3>1. Life!Report(id)
      BY <1>3, <1>4, <1>5, <1>6, <1>7, <1>10, <2>2 DEF Life!Report
    <3>2. QED
      BY <3>1 DEF Life!LifeNext
  <2>3. QED
    BY <2>1, <2>2
<1>11. CASE new = [job EXCEPT !.callback = "delivered"]
  <2>1. new.status = job.status /\ new.attempts = job.attempts
    BY <1>1, <1>11 DEF JobRecord
  <2>2. PhasesIn(jobs') = PhasesIn(jobs) /\ TriesIn(jobs') = TriesIn(jobs)
    BY <1>3, <1>7, <2>1
  <2>3. QED
    BY <2>2, RestMaps
<1>12. QED
  BY <1>8, <1>9, <1>10, <1>11 DEF Moves

\* The phases and tries of a table after its expired leases are taken back.
LEMMA SweptMaps ==
    ASSUME now \in Nat, NEW js, JobTable(js)
    PROVE  /\ PhasesIn(SweptJobs(js)) =
                Life!TimedOut(PhasesIn(js), TriesIn(js), ExpiredLeases(js))
           /\ TriesIn(SweptJobs(js)) = TriesIn(js)
           /\ ExpiredLeases(js) \in SUBSET Life!RunningIn(PhasesIn(js))
<1>1. \A id \in DOMAIN js : js[id] \in JobRecord /\ id \in JobIds
  BY DEF JobTable
<1>2. /\ DOMAIN SweptJobs(js) = DOMAIN js
      /\ \A id \in DOMAIN js : SweptJobs(js)[id].attempts = js[id].attempts
  BY SweptFate
<1>3. TriesIn(SweptJobs(js)) = TriesIn(js)
  BY <1>2 DEF TriesIn, TriesOf
<1>4. ExpiredLeases(js) \in SUBSET Life!RunningIn(PhasesIn(js))
  BY <1>1 DEF ExpiredLeases, Life!RunningIn, PhasesIn, PhaseOf
<1>5. \A id \in ExpiredLeases(js) :
        /\ id \in DOMAIN js
        /\ SweptJobs(js)[id].status = IF js[id].attempts < MaxAttempts THEN "queued" ELSE "failed"
  BY <1>1, RecordEffects DEF ExpiredLeases, SweptJobs
<1>6. \A id \in DOMAIN js : id \notin ExpiredLeases(js) => SweptJobs(js)[id] = js[id]
  BY DEF SweptJobs
<1>7. ASSUME NEW id \in JobIds
      PROVE  PhaseOf(id, SweptJobs(js)) =
                IF id \notin ExpiredLeases(js) THEN PhasesIn(js)[id]
                ELSE IF TriesIn(js)[id] < MaxAttempts THEN "queued" ELSE "failed"
  BY <1>2, <1>5, <1>6 DEF PhasesIn, TriesIn, PhaseOf, TriesOf
<1>8. PhasesIn(SweptJobs(js)) = Life!TimedOut(PhasesIn(js), TriesIn(js), ExpiredLeases(js))
  BY <1>7 DEF Life!TimedOut, PhasesIn
<1>9. QED
  BY <1>3, <1>4, <1>8

\* The empty database maps to the initial state of the life cycle.
LEMMA InitMaps == Init => Life!LifeInit
BY DEF Init, Life!LifeInit, PhaseOf, TriesOf, NoJobs, Snapshot

\* Every step of the registry maps to a step of the life cycle.
LEMMA StepMaps ==
    ASSUME IInv, [Step]_vars
    PROVE  [Life!LifeNext]_(Life!lifeVars)
<1>1. /\ TypeOK /\ QueueConsistent /\ IdsBelowNext
      /\ JobTable(jobs) /\ JobTable(store.jobs) /\ now \in Nat
  BY DEF IInv, TypeOK
<1>2. store'.jobs \in {store.jobs, jobs'}
  BY <1>1, StoreShape
<1>3. Life!MaybeDurable
  BY <1>2, RowsMap
<1>4. /\ PhasesIn(jobs) = [x \in JobIds |-> PhaseOf(x, jobs)]
      /\ TriesIn(jobs) = [x \in JobIds |-> TriesOf(x, jobs)]
      /\ PhasesIn(jobs') = [x \in JobIds |-> PhaseOf(x, jobs)]'
      /\ TriesIn(jobs') = [x \in JobIds |-> TriesOf(x, jobs)]'
      /\ PhasesIn(store.jobs) = [x \in JobIds |-> PhaseOf(x, store.jobs)]
      /\ TriesIn(store.jobs) = [x \in JobIds |-> TriesOf(x, store.jobs)]
  BY DEF PhasesIn, TriesIn, PhaseOf, TriesOf
<1>5. CASE Restart
  <2>1. jobs' = SweptJobs(store.jobs)
    BY <1>5 DEF Restart
  <2>2. store'.jobs = jobs'
    <3>1. CASE ExpiredLeases(store.jobs) = {}
      <4>1. LoadQueues(store) \in [Priorities -> Seq(JobIds)]
        BY <1>1, LoadTypes DEF TypeOK
      <4>2. SweptJobs(store.jobs) = store.jobs
        BY <1>1, <3>1, <4>1, NothingSwept
      <4>3. QED
        BY <1>5, <2>1, <3>1, <4>2 DEF Restart
    <3>2. CASE ExpiredLeases(store.jobs) # {}
      BY <1>5, <3>2 DEF Restart, Snapshot
    <3>3. QED
      BY <3>1, <3>2
  <2>3. Life!Durable
    BY <2>2 DEF Life!Durable, PhaseOf, TriesOf
  <2>4. /\ PhasesIn(jobs') = Life!TimedOut(PhasesIn(store.jobs), TriesIn(store.jobs),
                                          ExpiredLeases(store.jobs))
        /\ TriesIn(jobs') = TriesIn(store.jobs)
        /\ ExpiredLeases(store.jobs) \in SUBSET Life!RunningIn(PhasesIn(store.jobs))
    BY <1>1, <2>1, SweptMaps
  <2>5. Life!Crash
    BY <1>4, <2>3, <2>4 DEF Life!Crash
  <2>6. QED
    BY <2>5 DEF Life!LifeNext
<1>6. CASE OnlyAnswers \/ \E ok \in Outcomes : RowsSaved(ok)
  <2>1. jobs' = jobs
    BY <1>6 DEF OnlyAnswers, RowsSaved, registryVars
  <2>2. QED
    BY <1>2, <2>1, RestMaps
<1>7. ASSUME NEW ok \in Outcomes, NEW id \in JobIds, NEW new \in JobRecord, JobMoves(id, new, ok)
      PROVE  [Life!LifeNext]_(Life!lifeVars)
  <2>1. id \in DOMAIN jobs /\ jobs' = [jobs EXCEPT ![id] = new] /\ Moves(jobs[id], new)
    BY <1>7 DEF JobMoves, JobChanges
  <2>2. QED
    BY <1>2, <2>1, MoveMaps
<1>8. ASSUME NEW request \in Requests, NEW key \in Keys \cup {None}, NEW ok \in Outcomes,
             Submit(request, key, ok)
      PROVE  [Life!LifeNext]_(Life!lifeVars)
  <2> DEFINE id == next_id + 1
  <2>1. id \in JobIds /\ id \notin DOMAIN jobs
    <3>1. id \in JobIds
      BY <1>1, <1>8, BoundsAssumption DEF Submit, TypeOK, JobIds
    <3>2. \A x \in DOMAIN jobs : x <= next_id
      BY <1>1 DEF IdsBelowNext
    <3>3. QED
      BY <1>1, <3>1, <3>2 DEF TypeOK
  <2>2. jobs' = [x \in DOMAIN jobs \cup {id} |-> IF x = id THEN NewJob(request, key) ELSE jobs[x]]
    BY <1>8 DEF Submit
  <2>3. NewJob(request, key).status = "queued" /\ NewJob(request, key).attempts = 0
    BY DEF NewJob
  <2> HIDE DEF id
  <2>4. /\ PhasesIn(jobs)[id] = "absent"
        /\ PhasesIn(jobs') = [PhasesIn(jobs) EXCEPT ![id] = "queued"]
        /\ TriesIn(jobs') = [TriesIn(jobs) EXCEPT ![id] = 0]
    BY <2>1, <2>2, <2>3 DEF PhasesIn, TriesIn, PhaseOf, TriesOf
  <2>5. Life!Enter(id)
    BY <1>3, <1>4, <2>4 DEF Life!Enter
  <2>6. QED
    BY <2>1, <2>5 DEF Life!LifeNext
<1>9. ASSUME NEW ok \in Outcomes, RequeueExpiredLeases(ok)
      PROVE  [Life!LifeNext]_(Life!lifeVars)
  <2>1. jobs' = SweptJobs(jobs)
    BY <1>9 DEF RequeueExpiredLeases
  <2>2. /\ PhasesIn(jobs') = Life!TimedOut(PhasesIn(jobs), TriesIn(jobs), ExpiredLeases(jobs))
        /\ TriesIn(jobs') = TriesIn(jobs)
        /\ ExpiredLeases(jobs) \in SUBSET Life!RunningIn(PhasesIn(jobs))
    BY <1>1, <2>1, SweptMaps
  <2>3. Life!TimeOut
    BY <1>3, <1>4, <2>2 DEF Life!TimeOut
  <2>4. QED
    BY <2>3 DEF Life!LifeNext
<1>10. ASSUME NEW ok \in Outcomes, PruneTerminalJobs(ok)
       PROVE  [Life!LifeNext]_(Life!lifeVars)
  <2>1. jobs' = [id \in DOMAIN jobs \ PrunedNow |-> jobs[id]]
    BY <1>10 DEF PruneTerminalJobs
  <2>2. PrunedNow \subseteq {id \in JobIds : PhasesIn(jobs)[id] \in Life!Finished}
    BY <1>1 DEF PrunedNow, Prunable, Terminal, Life!Finished, PhasesIn, PhaseOf, JobTable
  <2>3. /\ PhasesIn(jobs') = [id \in JobIds |-> IF id \in PrunedNow THEN "absent"
                                                ELSE PhasesIn(jobs)[id]]
        /\ TriesIn(jobs') = [id \in JobIds |-> IF id \in PrunedNow THEN 0 ELSE TriesIn(jobs)[id]]
    BY <2>1 DEF PhasesIn, TriesIn, PhaseOf, TriesOf
  <2>4. Life!Forget
    BY <1>3, <1>4, <2>2, <2>3 DEF Life!Forget
  <2>5. QED
    BY <2>4 DEF Life!LifeNext
<1>11. QED
  BY <1>1, <1>5, <1>6, <1>7, <1>8, <1>9, <1>10, StepEffects DEF StepEffect

\* The registry implements the life cycle under any driver.
LEMMA DriversImplementLifecycle == AnyDriver => ImplementsLifecycle
<1>1. IInv /\ [Step]_vars => [Life!LifeNext]_(Life!lifeVars)
  BY StepMaps
<1>2. QED
  BY <1>1, InitMaps, DurableInvariant, PTL
  DEF AnyDriver, DurableInv, ImplementsLifecycle, Life!LifeSpec

\* The registry with its queues, leases, keys and rows implements the life cycle: each
\* method and each sweep moves jobs only along it, a committed transaction makes all
\* earlier ones durable, and a restart loses exactly what was not committed.
THEOREM RegistryImplementsLifecycle == Spec => ImplementsLifecycle
BY SpecIsDriver, DriversImplementLifecycle

================================================================================

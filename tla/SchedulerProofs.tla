---------------------------- MODULE SchedulerProofs ----------------------------
(***************************************************************************)
(* Theorems about the scheduler: the slots that the worker registry counts *)
(* are those of the leases in the job registry and of the handlers between *)
(* the two, for any number of handlers, jobs, workers and attempts, with   *)
(* clients that go away and restarts anywhere.                             *)
(***************************************************************************)
EXTENDS Scheduler, JobDurabilityProofs

--------------------------------------------------------------------------------
(* Handlers *)

\* What a handler may be doing.
Ops ==
    {NoOperation, Operation("recovery", None, None, None, None)}
    \cup {Operation("claim", worker, None, None, None) : worker \in Workers}
    \cup Reports

\* A handler has a list of slots to give back while it gives them back, and at no other time.
HandlerRecord ==
    {q \in [pc : {"idle", "sweep", "release", "acquire", "claim", "apply"}, op : Ops,
            kinds : SUBSET Kinds, releases : Seq(Workers)] :
        /\ q.pc = "release" <=> q.releases # <<>>
        /\ q.pc \in {"acquire", "claim"} => q.op.name = "claim"}

\* The operations of handlers, and what their fields hold.
LEMMA OpFields ==
    ASSUME NEW op \in Ops
    PROVE  /\ op.name \in {"none", "recovery", "claim", "renew", "complete", "fail"}
           /\ op.name \in {"claim", "renew", "complete", "fail"} => op.worker \in Workers
           /\ op.name \in {"renew", "complete", "fail"} => op.job \in JobIds
           /\ op.name \in {"complete", "fail"} => op.attempt \in ReportedAttempts
           /\ op.name = "complete" => op.report \in Results
           /\ op.name = "fail" => op.report \in Reported
BY DEF Ops, Reports, Operation, NoOperation

\* The entries of a handler's list for worker w.
Owed(q, w) == {k \in DOMAIN q.releases : q.releases[k] = w}

\* The handler holds a slot of w for which it has not claimed a job yet.
ClaimsFor(q, w) == q.pc = "claim" /\ q.op.worker = w

\* The slots of w that the handler holds.
Charge(q, w) == Cardinality(Owed(q, w)) + IF ClaimsFor(q, w) THEN 1 ELSE 0

\* The slots of w that all handlers hold.
Held(w) == Cardinality(Claiming(w)) + Cardinality(Releasing(w))

\* A handler owes finitely many slots.
LEMMA OwedFinite ==
    ASSUME NEW q, q.releases \in Seq(Workers), NEW w
    PROVE  /\ IsFiniteSet(Owed(q, w))
           /\ Cardinality(Owed(q, w)) \in Nat
           /\ q.releases = <<>> => Cardinality(Owed(q, w)) = 0
<1>1. Len(q.releases) \in Nat /\ DOMAIN q.releases = 1..Len(q.releases)
  BY LenProperties
<1>2. IsFiniteSet(1..Len(q.releases))
  <2>1. \A n \in Nat : IsFiniteSet(1..n)
    BY FS_Interval
  <2>2. QED
    BY <1>1, <2>1
<1>3. Owed(q, w) \subseteq 1..Len(q.releases)
  BY <1>1 DEF Owed
<1>4. IsFiniteSet(Owed(q, w)) /\ Cardinality(Owed(q, w)) \in Nat
  BY <1>2, <1>3, FS_Subset, FS_CardinalityType
<1>5. ASSUME q.releases = <<>> PROVE Owed(q, w) = {}
  BY <1>5 DEF Owed
<1>6. QED
  BY <1>4, <1>5, FS_EmptySet

\* As many pairs as second components.
LEMMA PairsCount ==
    ASSUME NEW h, NEW S, IsFiniteSet(S)
    PROVE  IsFiniteSet({h} \X S) /\ Cardinality({h} \X S) = Cardinality(S)
<1>1. IsFiniteSet({h}) /\ Cardinality({h}) = 1
  BY FS_Singleton
<1>2. Cardinality(S) \in Nat
  BY FS_CardinalityType
<1>3. IsFiniteSet({h} \X S) /\ Cardinality({h} \X S) = Cardinality({h}) * Cardinality(S)
  BY <1>1, FS_Product
<1>4. QED
  BY <1>1, <1>2, <1>3

\* When one handler moves, the slots held change by what that handler held and holds.
LEMMA OneHandler ==
    ASSUME handler \in [Handlers -> HandlerRecord], NEW h \in Handlers, NEW q \in HandlerRecord,
           handler' = [handler EXCEPT ![h] = q], NEW w
    PROVE  /\ handler' \in [Handlers -> HandlerRecord]
           /\ Charge(handler[h], w) \in Nat /\ Charge(q, w) \in Nat
           /\ Cardinality(Claiming(w)) \in Nat /\ Cardinality(Claiming(w)') \in Nat
           /\ Cardinality(Releasing(w)) \in Nat /\ Cardinality(Releasing(w)') \in Nat
           /\ Held(w) \in Nat /\ Held(w)' \in Nat
           /\ Held(w)' + Charge(handler[h], w) = Held(w) + Charge(q, w)
<1> DEFINE old       == handler[h]
           claiming  == {g \in Handlers \ {h} : ClaimsFor(handler[g], w)}
           releasing == UNION {{g} \X Owed(handler[g], w) : g \in Handlers \ {h}}
<1>1. handler' \in [Handlers -> HandlerRecord] /\ old \in HandlerRecord
  OBVIOUS
<1>2. \A g \in Handlers \ {h} : handler'[g] = handler[g]
  OBVIOUS
<1>3. handler'[h] = q
  OBVIOUS
<1>4. \A g \in Handlers : handler[g].releases \in Seq(Workers)
  BY DEF HandlerRecord
<1>5. old.releases \in Seq(Workers) /\ q.releases \in Seq(Workers)
  BY <1>1 DEF HandlerRecord
<1>6. /\ IsFiniteSet(Owed(old, w)) /\ Cardinality(Owed(old, w)) \in Nat
      /\ IsFiniteSet(Owed(q, w)) /\ Cardinality(Owed(q, w)) \in Nat
  <2> HIDE DEF old
  <2> QED
    BY <1>5, OwedFinite
<1>7. IsFiniteSet(claiming) /\ h \notin claiming /\ Cardinality(claiming) \in Nat
  <2>1. claiming \subseteq Handlers
    OBVIOUS
  <2>2. IsFiniteSet(claiming)
    BY <2>1, HandlersAssumption, FS_Subset
  <2>3. QED
    BY <2>2, FS_CardinalityType
<1>8. Claiming(w) = IF ClaimsFor(old, w) THEN claiming \cup {h} ELSE claiming
  BY DEF Claiming, At, ClaimsFor
<1>9. Claiming(w)' = IF ClaimsFor(q, w) THEN claiming \cup {h} ELSE claiming
  BY <1>2, <1>3 DEF Claiming, At, ClaimsFor
<1>10. IsFiniteSet(releasing) /\ Cardinality(releasing) \in Nat
  <2> DEFINE Own(g) == {g} \X Owed(handler[g], w)
             f      == [g \in Handlers \ {h} |-> Own(g)]
             sets   == {Own(g) : g \in Handlers \ {h}}
  <2>1. IsFiniteSet(Handlers \ {h})
    BY HandlersAssumption, FS_Difference
  <2>2. f \in Surjection(Handlers \ {h}, sets)
    BY DEF Surjection
  <2>3. IsFiniteSet(sets)
    BY <2>1, <2>2, FS_Surjection
  <2>4. \A g \in Handlers : IsFiniteSet(Own(g))
    BY <1>4, OwedFinite, PairsCount
  <2>5. \A T \in sets : IsFiniteSet(T)
    BY <2>4
  <2>6. IsFiniteSet(UNION sets)
    <3> HIDE DEF sets
    <3> QED
      BY <2>3, <2>5, FS_UNION
  <2>7. QED
    BY <2>6, FS_CardinalityType
<1>11. Releasing(w) = releasing \cup ({h} \X Owed(old, w))
  BY DEF Releasing, Owed
<1>12. Releasing(w)' = releasing \cup ({h} \X Owed(q, w))
  <2>1. Releasing(w)' = UNION {{g} \X Owed(handler'[g], w) : g \in Handlers}
    BY DEF Releasing, Owed
  <2>2. \A g \in Handlers \ {h} : Owed(handler'[g], w) = Owed(handler[g], w)
    BY <1>2
  <2>3. QED
    BY <1>3, <2>1, <2>2
<1>13. \A S : releasing \cap ({h} \X S) = {}
  OBVIOUS
<1>14. ASSUME NEW S, IsFiniteSet(S), Cardinality(S) \in Nat
       PROVE  /\ IsFiniteSet(releasing \cup ({h} \X S))
              /\ Cardinality(releasing \cup ({h} \X S)) = Cardinality(releasing) + Cardinality(S)
  <2>1. IsFiniteSet({h} \X S) /\ Cardinality({h} \X S) = Cardinality(S)
    BY <1>14, PairsCount
  <2> DEFINE pairs == {h} \X S
  <2>2. releasing \cap pairs = {}
    BY <1>13
  <2> HIDE DEF releasing, pairs
  <2>3. Cardinality(releasing \cup pairs)
            = Cardinality(releasing) + Cardinality(pairs) - Cardinality(releasing \cap pairs)
    BY <1>10, <2>1, FS_Union DEF pairs
  <2>4. Cardinality(releasing \cap pairs) = 0
    BY <2>2, FS_EmptySet
  <2>5. IsFiniteSet(releasing \cup pairs)
    BY <1>10, <2>1, FS_Union DEF pairs
  <2>6. QED
    BY <1>10, <1>14, <2>1, <2>3, <2>4, <2>5 DEF pairs
<1>15. /\ Cardinality(Releasing(w)) = Cardinality(releasing) + Cardinality(Owed(old, w))
       /\ Cardinality(Releasing(w)') = Cardinality(releasing) + Cardinality(Owed(q, w))
  <2> HIDE DEF releasing, old
  <2> QED
    BY <1>6, <1>11, <1>12, <1>14
<1>16. Cardinality(claiming \cup {h}) = Cardinality(claiming) + 1
  BY <1>7, FS_AddElement
<1>17. /\ Cardinality(Claiming(w)) = Cardinality(claiming) + IF ClaimsFor(old, w) THEN 1 ELSE 0
       /\ Cardinality(Claiming(w)') = Cardinality(claiming) + IF ClaimsFor(q, w) THEN 1 ELSE 0
  <2> HIDE DEF claiming, old
  <2> QED
    BY <1>7, <1>8, <1>9, <1>16
<1>18. /\ Held(w) = Cardinality(Claiming(w)) + Cardinality(Releasing(w))
       /\ Held(w)' = Cardinality(Claiming(w)') + Cardinality(Releasing(w)')
  BY DEF Held
<1>19. QED
  <2> HIDE DEF claiming, releasing, old
  <2>1. /\ Charge(old, w) \in Nat /\ Charge(q, w) \in Nat
        /\ Cardinality(Claiming(w)) \in Nat /\ Cardinality(Claiming(w)') \in Nat
        /\ Cardinality(Releasing(w)) \in Nat /\ Cardinality(Releasing(w)') \in Nat
        /\ Held(w) \in Nat /\ Held(w)' \in Nat
        /\ Held(w)' + Charge(old, w) = Held(w) + Charge(q, w)
    BY <1>6, <1>7, <1>10, <1>15, <1>17, <1>18 DEF Charge
  <2>2. QED
    BY <1>1, <2>1 DEF old

--------------------------------------------------------------------------------
(* Leases *)

\* The job runs on worker w.
RunsOn(job, w) == job.status = "running" /\ job.lease.worker_id = w

\* A worker runs finitely many jobs.
LEMMA RunningFinite ==
    ASSUME JobTable(jobs), NEW w
    PROVE  IsFiniteSet(Running(w)) /\ Cardinality(Running(w)) \in Nat
<1>1. Running(w) \subseteq JobIds
  BY DEF Running, JobTable
<1>2. IsFiniteSet(Running(w))
  BY <1>1, JobIdsFinite, FS_Subset
<1>3. QED
  BY <1>2, FS_CardinalityType

\* When one job changes, the work of a worker changes by that job.
LEMMA OneJob ==
    ASSUME JobTable(jobs), NEW id \in DOMAIN jobs, NEW new,
           jobs' = [jobs EXCEPT ![id] = new], NEW w
    PROVE  /\ Cardinality(Running(w)) \in Nat /\ Cardinality(Running(w)') \in Nat
           /\ Cardinality(Running(w)') + (IF RunsOn(jobs[id], w) THEN 1 ELSE 0)
                = Cardinality(Running(w)) + (IF RunsOn(new, w) THEN 1 ELSE 0)
<1> DEFINE others == {x \in DOMAIN jobs \ {id} : RunsOn(jobs[x], w)}
<1>1. DOMAIN jobs' = DOMAIN jobs /\ jobs'[id] = new
  OBVIOUS
<1>2. \A x \in DOMAIN jobs \ {id} : jobs'[x] = jobs[x]
  OBVIOUS
<1>3. Running(w) = IF RunsOn(jobs[id], w) THEN others \cup {id} ELSE others
  BY DEF Running, RunsOn
<1>4. Running(w)' = IF RunsOn(new, w) THEN others \cup {id} ELSE others
  BY <1>1, <1>2 DEF Running, RunsOn
<1>5. IsFiniteSet(others) /\ id \notin others
  <2>1. others \subseteq JobIds
    BY DEF JobTable
  <2>2. QED
    BY <2>1, JobIdsFinite, FS_Subset
<1>6. Cardinality(others) \in Nat /\ Cardinality(others \cup {id}) = Cardinality(others) + 1
  BY <1>5, FS_AddElement, FS_CardinalityType
<1>7. QED
  <2> HIDE DEF others
  <2> QED
    BY <1>3, <1>4, <1>6

\* The sweep takes from each worker as many jobs as it lists slots to give back.
LEMMA SweepBalances ==
    ASSUME JobTable(jobs), LeasesConsistentIn(jobs), now \in Nat, jobs' = SweptJobs(jobs), NEW w
    PROVE  /\ ReleasedWorkers \in Seq(Workers)
           /\ Cardinality(Running(w)) \in Nat /\ Cardinality(Running(w)') \in Nat
           /\ Cardinality({k \in DOMAIN ReleasedWorkers : ReleasedWorkers[k] = w}) \in Nat
           /\ Cardinality(Running(w)')
                + Cardinality({k \in DOMAIN ReleasedWorkers : ReleasedWorkers[k] = w})
                = Cardinality(Running(w))
<1> DEFINE expired == ExpiredLeases(jobs)
           ids     == Ascending(expired)
           theirs  == {id \in expired : jobs[id].lease.worker_id = w}
           places  == {k \in DOMAIN ReleasedWorkers : ReleasedWorkers[k] = w}
<1>1. expired \subseteq DOMAIN jobs /\ expired \subseteq JobIds
  BY DEF ExpiredLeases, JobTable
<1>2. expired \in SUBSET Int /\ IsFiniteSet(expired)
  BY <1>1, JobIdsFinite, FS_Subset
<1>3. ids \in Seq(expired) /\ Members(ids) = expired /\ NoDuplicates(ids)
  <2> HIDE DEF expired
  <2> QED
    BY <1>2, AscendingLists
<1>4. \A id \in expired : /\ jobs[id].status = "running"
                          /\ jobs[id].lease # None
                          /\ jobs[id].lease.worker_id \in Workers
  <2>1. \A id \in expired : jobs[id].status = "running" /\ jobs[id].lease # None
    BY DEF ExpiredLeases
  <2>2. \A id \in expired : jobs[id].lease \in JobLease
    BY <1>1, <2>1 DEF LeasesConsistentIn, LeaseInOrder
  <2>3. QED
    BY <2>1, <2>2 DEF JobLease
<1>5. Len(ids) \in Nat /\ DOMAIN ids = 1..Len(ids) /\ \A k \in DOMAIN ids : ids[k] \in expired
  <2> HIDE DEF expired, ids
  <2> QED
    BY <1>3, LenProperties
<1>6. ReleasedWorkers = [k \in DOMAIN ids |-> jobs[ids[k]].lease.worker_id]
  BY DEF ReleasedWorkers
<1>7. ReleasedWorkers \in Seq(Workers)
  <2> HIDE DEF ids, expired
  <2>1. ReleasedWorkers \in [1..Len(ids) -> Workers]
    BY <1>4, <1>5, <1>6
  <2>2. QED
    BY <1>5, <2>1, IsASeq
<1>8. IsFiniteSet(theirs) /\ theirs \subseteq Running(w)
  <2>1. theirs \subseteq expired
    OBVIOUS
  <2>2. theirs \subseteq Running(w)
    BY <1>1, <1>4 DEF Running
  <2>3. QED
    BY <1>2, <2>1, <2>2, FS_Subset
<1>9. places \in SUBSET (1..Len(ids)) /\ IsFiniteSet(places)
      /\ Cardinality(places) = Cardinality(theirs)
  <2> DEFINE f == [k \in places |-> ids[k]]
  <2>1. places = {k \in DOMAIN ids : jobs[ids[k]].lease.worker_id = w}
    <3> HIDE DEF ids
    <3> QED
      BY <1>6
  <2> HIDE DEF places
  <2>2. f \in [places -> theirs]
    BY <1>5, <2>1
  <2>3. \A j, k \in places : f[j] = f[k] => j = k
    <3> HIDE DEF ids
    <3> QED
      BY <1>3, <2>1 DEF NoDuplicates
  <2>4. \A id \in theirs : \E k \in places : f[k] = id
    <3> HIDE DEF ids, expired
    <3>1. ASSUME NEW id \in theirs
          PROVE  \E k \in DOMAIN ids : ids[k] = id
      BY <1>3 DEF Members
    <3> QED
      BY <2>1, <3>1
  <2>5. f \in Bijection(places, theirs)
    <3> HIDE DEF f, theirs
    <3> QED
      BY <2>2, <2>3, <2>4 DEF Bijection, Injection, Surjection, IsInjective
  <2>6. places \in SUBSET (1..Len(ids))
    BY <1>5, <2>1
  <2>7. IsFiniteSet(places)
    <3>1. \A n \in Nat : IsFiniteSet(1..n)
      BY FS_Interval
    <3>2. IsFiniteSet(1..Len(ids))
      BY <1>5, <3>1
    <3>3. QED
      BY <2>6, <3>2, FS_Subset
  <2>8. ExistsBijection(places, theirs)
    <3> HIDE DEF f, theirs
    <3> QED
      BY <2>5 DEF ExistsBijection
  <2>9. QED
    <3> HIDE DEF theirs
    <3> QED
      BY <2>6, <2>7, <2>8, FS_Bijection
<1>10. Running(w)' = Running(w) \ theirs
  <2>1. DOMAIN jobs' = DOMAIN jobs
    BY DEF SweptJobs
  <2>2. \A id \in DOMAIN jobs : jobs'[id] = IF id \in expired THEN TimedOutJob(jobs[id]) ELSE jobs[id]
    BY DEF SweptJobs
  <2>3. \A id \in expired : TimedOutJob(jobs[id]).status # "running"
    <3>1. \A id \in expired : jobs[id] \in JobRecord
      BY <1>1 DEF JobTable
    <3>2. \A job \in JobRecord : TimedOutJob(job).status \in {"queued", "failed"}
      BY RecordEffects
    <3>3. QED
      BY <3>1, <3>2
  <2> HIDE DEF expired
  <2>4. \A id : id \in Running(w)' <=> id \in DOMAIN jobs /\ RunsOn(jobs'[id], w)
    BY <2>1 DEF Running, RunsOn
  <2>5. \A id : id \in Running(w) <=> id \in DOMAIN jobs /\ RunsOn(jobs[id], w)
    BY DEF Running, RunsOn
  <2>6. \A id \in expired : ~RunsOn(jobs'[id], w) /\ (RunsOn(jobs[id], w) <=> id \in theirs)
    BY <1>1, <1>4, <2>2, <2>3 DEF RunsOn
  <2>7. \A id \in DOMAIN jobs \ expired : jobs'[id] = jobs[id] /\ id \notin theirs
    BY <2>2
  <2>8. QED
    BY <1>1, <2>4, <2>5, <2>6, <2>7
<1>11. IsFiniteSet(Running(w)) /\ Cardinality(Running(w)) \in Nat
  BY RunningFinite
<1>12. Running(w) \cap theirs = theirs
  BY <1>8
<1>13. /\ IsFiniteSet(Running(w) \ theirs)
       /\ Cardinality(Running(w) \ theirs) = Cardinality(Running(w)) - Cardinality(theirs)
  <2> HIDE DEF theirs
  <2> QED
    BY <1>11, <1>12, FS_Difference
<1>14. Cardinality(theirs) \in Nat /\ Cardinality(Running(w)') \in Nat
  <2> HIDE DEF theirs
  <2> QED
    BY <1>8, <1>10, <1>13, FS_CardinalityType
<1>15. QED
  <2> HIDE DEF theirs, places
  <2>1. Cardinality(Running(w)') = Cardinality(Running(w)) - Cardinality(theirs)
    BY <1>10, <1>13
  <2>2. /\ Cardinality(places) \in Nat
        /\ Cardinality(Running(w)') + Cardinality(places) = Cardinality(Running(w))
    BY <1>9, <1>11, <1>14, <2>1
  <2>3. QED
    BY <1>7, <1>11, <1>14, <2>2 DEF places

\* A claim adds one job to the claiming worker.
LEMMA ClaimBalances ==
    ASSUME TypeOK, NEW worker \in Workers, NEW kinds, NEW ok, Claim(worker, kinds, ok), NEW w
    PROVE  /\ Cardinality(Running(w)) \in Nat /\ Cardinality(Running(w)') \in Nat
           /\ Cardinality(Running(w)') = Cardinality(Running(w)) + (IF worker = w THEN 1 ELSE 0)
<1>1. PICK p \in Priorities : \E i \in DOMAIN queues[p] :
          /\ FirstClaimable(kinds, p, i)
          /\ jobs' = [jobs EXCEPT ![queues[p][i]] = ClaimedJob(@, worker)]
  BY DEF Claim
<1>2. PICK i \in DOMAIN queues[p] :
          /\ FirstClaimable(kinds, p, i)
          /\ jobs' = [jobs EXCEPT ![queues[p][i]] = ClaimedJob(@, worker)]
  BY <1>1
<1> DEFINE id  == queues[p][i]
           new == ClaimedJob(jobs[id], worker)
<1>3. id \in DOMAIN jobs /\ jobs[id].status = "queued" /\ jobs[id] \in JobRecord
  BY <1>2 DEF FirstClaimable, Claimable, TypeOK, JobTable
<1>4. new.status = "running" /\ new.lease.worker_id = worker
  BY <1>3 DEF ClaimedJob, JobRecord
<1>5. jobs' = [jobs EXCEPT ![id] = new]
  BY <1>2
<1>6. ~RunsOn(jobs[id], w) /\ (RunsOn(new, w) <=> worker = w)
  <2> HIDE DEF new, id
  <2> QED
    BY <1>3, <1>4 DEF RunsOn
<1>7. QED
  <2> HIDE DEF new, id
  <2>1. /\ Cardinality(Running(w)) \in Nat /\ Cardinality(Running(w)') \in Nat
        /\ Cardinality(Running(w)') + (IF RunsOn(jobs[id], w) THEN 1 ELSE 0)
             = Cardinality(Running(w)) + (IF RunsOn(new, w) THEN 1 ELSE 0)
    BY <1>3, <1>5, OneJob DEF TypeOK
  <2>2. QED
    BY <1>6, <2>1

\* A renewal changes nobody's work.
LEMMA RenewBalances ==
    ASSUME TypeOK, NEW id, NEW worker, NEW ok, RenewLease(id, worker, ok), NEW w
    PROVE  /\ Cardinality(Running(w)) \in Nat /\ Cardinality(Running(w)') \in Nat
           /\ Cardinality(Running(w)') = Cardinality(Running(w))
<1> DEFINE new == RenewedJob(jobs[id])
<1>1. /\ id \in DOMAIN jobs /\ jobs[id] \in JobRecord /\ jobs[id].status = "running"
      /\ jobs[id].lease # None /\ jobs' = [jobs EXCEPT ![id] = new]
  BY DEF RenewLease, HoldsLease, TypeOK, JobTable
<1>2. jobs[id].lease \in JobLease
  BY <1>1 DEF JobRecord
<1>3. new.status = "running" /\ new.lease.worker_id = jobs[id].lease.worker_id
  <2> DEFINE lease == [jobs[id].lease EXCEPT !.expires_at = now + LeaseDuration]
  <2>1. lease.worker_id = jobs[id].lease.worker_id
    BY <1>2 DEF JobLease
  <2>2. new = [jobs[id] EXCEPT !.lease = lease, !.updated_at = now]
    BY DEF RenewedJob
  <2> HIDE DEF lease, new
  <2>3. QED
    BY <1>1, <2>1, <2>2 DEF JobRecord
<1>4. RunsOn(jobs[id], w) <=> RunsOn(new, w)
  <2> HIDE DEF new
  <2> QED
    BY <1>1, <1>3 DEF RunsOn
<1>5. QED
  <2> HIDE DEF new
  <2>1. /\ Cardinality(Running(w)) \in Nat /\ Cardinality(Running(w)') \in Nat
        /\ Cardinality(Running(w)') + (IF RunsOn(jobs[id], w) THEN 1 ELSE 0)
             = Cardinality(Running(w)) + (IF RunsOn(new, w) THEN 1 ELSE 0)
    BY <1>1, OneJob DEF TypeOK
  <2>2. QED
    BY <1>4, <2>1

\* A report that is accepted takes one job from its worker.
LEMMA ReportBalances ==
    ASSUME TypeOK, NEW id, NEW worker, NEW attempt, NEW report, NEW ok, NEW w,
           \/ report \in Results /\ CompleteLease(id, worker, attempt, report, ok)
           \/ report \in Reported /\ FailLease(id, worker, attempt, report, ok)
    PROVE  /\ Cardinality(Running(w)) \in Nat /\ Cardinality(Running(w)') \in Nat
           /\ Cardinality(Running(w)') + (IF worker = w THEN 1 ELSE 0) = Cardinality(Running(w))
<1>1. HoldsLease(id, worker)
  BY DEF CompleteLease, FailLease, ReportsLease
<1>2. /\ id \in DOMAIN jobs /\ jobs[id] \in JobRecord /\ jobs[id].status = "running"
      /\ jobs[id].lease # None /\ jobs[id].lease.worker_id = worker /\ now \in Nat
  BY <1>1 DEF HoldsLease, TypeOK, JobTable
<1>3. \E new : jobs' = [jobs EXCEPT ![id] = new] /\ new.status # "running"
  <2>1. CASE report \in Results /\ CompleteLease(id, worker, attempt, report, ok)
    <3>1. jobs' = [jobs EXCEPT ![id] = CompletedJob(jobs[id], report)]
      BY <2>1 DEF CompleteLease
    <3>2. CompletedJob(jobs[id], report).status = "complete"
      BY <1>2, <2>1, RecordEffects
    <3>3. QED
      BY <3>1, <3>2
  <2>2. CASE report \in Reported /\ FailLease(id, worker, attempt, report, ok)
    <3>1. jobs' = [jobs EXCEPT ![id] = FailedJob(jobs[id], report)]
      BY <2>2 DEF FailLease
    <3>2. FailedJob(jobs[id], report).status \in {"queued", "failed"}
      BY <1>2, <2>2, RecordEffects
    <3>3. QED
      BY <3>1, <3>2
  <2>3. QED
    BY <2>1, <2>2
<1>4. PICK new : jobs' = [jobs EXCEPT ![id] = new] /\ new.status # "running"
  BY <1>3
<1>5. (RunsOn(jobs[id], w) <=> worker = w) /\ ~RunsOn(new, w)
  BY <1>2, <1>4 DEF RunsOn
<1>6. QED
  <2>1. /\ Cardinality(Running(w)) \in Nat /\ Cardinality(Running(w)') \in Nat
        /\ Cardinality(Running(w)') + (IF RunsOn(jobs[id], w) THEN 1 ELSE 0)
             = Cardinality(Running(w)) + (IF RunsOn(new, w) THEN 1 ELSE 0)
    BY <1>2, <1>4, OneJob DEF TypeOK
  <2>2. QED
    BY <1>5, <2>1

\* A cancellation takes the job from the worker that its lease names, if it has one.
LEMMA CancelBalances ==
    ASSUME TypeOK, LeaseConsistent, NEW id, NEW ok, Cancel(id, ok), NEW w
    PROVE  /\ Cardinality(Running(w)) \in Nat /\ Cardinality(Running(w)') \in Nat
           /\ jobs[id].lease # None => jobs[id].lease.worker_id \in Workers
           /\ Cardinality(Running(w)')
                + (IF jobs[id].lease # None /\ jobs[id].lease.worker_id = w THEN 1 ELSE 0)
                = Cardinality(Running(w))
<1> DEFINE new == CancelledJob(jobs[id])
<1>1. /\ id \in DOMAIN jobs /\ jobs[id] \in JobRecord /\ jobs[id].status \in {"queued", "running"}
      /\ jobs' = [jobs EXCEPT ![id] = new] /\ now \in Nat
  BY DEF Cancel, CanCancel, TypeOK, JobTable, JobRecord, JobStatus, Terminal
<1>2. new.status = "cancelled"
  BY <1>1, RecordEffects
<1>3. (jobs[id].status = "running" <=> jobs[id].lease # None)
  <2>1. LeaseInOrder(jobs[id])
    BY <1>1 DEF LeaseConsistent, LeasesConsistentIn
  <2>2. QED
    BY <1>1, <2>1, LeaseAssumption DEF LeaseInOrder
<1>4. jobs[id].lease # None => jobs[id].lease.worker_id \in Workers
  BY <1>1 DEF JobRecord, JobLease
<1>5. ~RunsOn(new, w)
  BY <1>2 DEF RunsOn
<1>6. RunsOn(jobs[id], w) <=> jobs[id].lease # None /\ jobs[id].lease.worker_id = w
  BY <1>3 DEF RunsOn
<1>7. QED
  <2> HIDE DEF new
  <2>1. /\ Cardinality(Running(w)) \in Nat /\ Cardinality(Running(w)') \in Nat
        /\ Cardinality(Running(w)') + (IF RunsOn(jobs[id], w) THEN 1 ELSE 0)
             = Cardinality(Running(w)) + (IF RunsOn(new, w) THEN 1 ELSE 0)
    BY <1>1, OneJob DEF TypeOK
  <2>2. QED
    BY <1>4, <1>5, <1>6, <2>1

\* A submission and pruning change nobody's work: the number of the new job is not in use,
\* and only finished jobs are removed.
LEMMA OtherJobsBalance ==
    ASSUME IInv, NEW w, NEW ok,
           \/ \E request \in Requests, key \in Keys \cup {None} : Submit(request, key, ok)
           \/ PruneTerminalJobs(ok)
    PROVE  Running(w)' = Running(w)
<1>1. ASSUME NEW request \in Requests, NEW key \in Keys \cup {None}, Submit(request, key, ok)
      PROVE  Running(w)' = Running(w)
  <2>1. next_id + 1 \notin DOMAIN jobs
    <3>1. \A id \in DOMAIN jobs : id \in Int /\ id <= next_id
      BY JobIdsFinite DEF IInv, TypeOK, JobTable, IdsBelowNext
    <3>2. next_id \in Int
      BY DEF IInv, TypeOK
    <3>3. QED
      BY <3>1, <3>2
  <2>2. /\ DOMAIN jobs' = DOMAIN jobs \cup {next_id + 1}
        /\ \A id \in DOMAIN jobs : jobs'[id] = jobs[id]
        /\ jobs'[next_id + 1].status = "queued"
    BY <1>1, <2>1 DEF Submit, NewJob
  <2>3. QED
    BY <2>2 DEF Running
<1>2. CASE PruneTerminalJobs(ok)
  <2>1. /\ DOMAIN jobs' = DOMAIN jobs \ PrunedNow
        /\ \A id \in DOMAIN jobs \ PrunedNow : jobs'[id] = jobs[id]
    BY <1>2 DEF PruneTerminalJobs
  <2>2. \A id \in PrunedNow : jobs[id].status # "running"
    BY DEF PrunedNow, Prunable, Terminal
  <2>3. QED
    BY <2>1, <2>2 DEF Running
<1>3. QED
  BY <1>1, <1>2

--------------------------------------------------------------------------------
(* The lists of slots to give back *)

\* A list of one.
LEMMA OneOwed ==
    ASSUME NEW worker, NEW q, q.releases = <<worker>>, NEW w
    PROVE  Cardinality(Owed(q, w)) = IF worker = w THEN 1 ELSE 0
<1>1. Owed(q, w) = IF worker = w THEN {1} ELSE {}
  BY DEF Owed
<1>2. QED
  BY <1>1, FS_EmptySet, FS_Singleton

\* The first entry of a list is given back, and the others stay.
LEMMA TailOwed ==
    ASSUME NEW old, old.releases \in Seq(Workers), old.releases # <<>>,
           NEW q, q.releases = Tail(old.releases), NEW w
    PROVE  /\ Head(old.releases) \in Workers
           /\ q.releases \in Seq(Workers)
           /\ Cardinality(Owed(old, w))
                = Cardinality(Owed(q, w)) + IF Head(old.releases) = w THEN 1 ELSE 0
<1> DEFINE s == old.releases
           t == Tail(s)
           n == Len(s)
           f == [k \in Owed(q, w) |-> k + 1]
<1>1. /\ n \in Nat /\ n >= 1 /\ DOMAIN s = 1..n
      /\ Head(s) \in Workers /\ Head(s) = s[1]
      /\ t \in Seq(Workers) /\ DOMAIN t = 1..(n - 1)
      /\ \A i \in 1..(n - 1) : t[i] = s[i + 1]
  <2> HIDE DEF s
  <2>1. s \in Seq(Workers) /\ s # <<>>
    BY DEF s
  <2>2. n \in Nat /\ DOMAIN s = 1..n /\ n >= 1
    BY <2>1, LenProperties, EmptySeq
  <2>3. QED
    BY <2>1, <2>2, HeadTailProperties, LenProperties
<1> HIDE DEF n
<1>2. Owed(q, w) = {k \in 1..(n - 1) : s[k + 1] = w}
  BY <1>1 DEF Owed
<1>3. Owed(old, w) = {k \in 1..n : s[k] = w}
  BY <1>1 DEF Owed
<1>4. f \in Bijection(Owed(q, w), Owed(old, w) \ {1})
  <2>1. f \in [Owed(q, w) -> Owed(old, w) \ {1}]
    BY <1>1, <1>2, <1>3
  <2>2. \A j, k \in Owed(q, w) : f[j] = f[k] => j = k
    BY <1>1, <1>2
  <2>3. \A k \in Owed(old, w) \ {1} : \E j \in Owed(q, w) : f[j] = k
    <3>1. TAKE k \in Owed(old, w) \ {1}
    <3>2. k - 1 \in Owed(q, w) /\ f[k - 1] = k
      BY <1>1, <1>2, <1>3
    <3>3. QED
      BY <3>2
  <2>4. QED
    <3> HIDE DEF f
    <3> QED
      BY <2>1, <2>2, <2>3 DEF Bijection, Injection, Surjection, IsInjective
<1>5. ExistsBijection(Owed(q, w), Owed(old, w) \ {1})
  <2> HIDE DEF f
  <2> QED
    BY <1>4 DEF ExistsBijection
<1>6. q.releases \in Seq(Workers)
  BY <1>1
<1>7. /\ IsFiniteSet(Owed(q, w)) /\ Cardinality(Owed(q, w)) \in Nat
      /\ IsFiniteSet(Owed(old, w)) /\ Cardinality(Owed(old, w)) \in Nat
  BY <1>6, OwedFinite
<1>8. Cardinality(Owed(old, w) \ {1}) = Cardinality(Owed(q, w))
  BY <1>5, <1>7, FS_Bijection
<1>9. Cardinality(Owed(old, w) \ {1})
        = IF 1 \in Owed(old, w) THEN Cardinality(Owed(old, w)) - 1 ELSE Cardinality(Owed(old, w))
  BY <1>7, FS_RemoveElement
<1>10. 1 \in Owed(old, w) <=> Head(s) = w
  BY <1>1, <1>3
<1>11. QED
  BY <1>1, <1>6, <1>7, <1>8, <1>9, <1>10

\* A handler at one of these steps holds nothing.
LEMMA NothingHeld ==
    ASSUME NEW q \in HandlerRecord, q.pc \notin {"claim", "release"}, NEW w
    PROVE  Charge(q, w) = 0
<1>1. q.releases \in Seq(Workers) /\ q.releases = <<>>
  BY DEF HandlerRecord
<1>2. Cardinality(Owed(q, w)) = 0
  BY <1>1, OwedFinite
<1>3. QED
  BY <1>2 DEF Charge, ClaimsFor

\* A handler between try_acquire_slot and its claim holds the slot it acquired.
LEMMA ClaimHeld ==
    ASSUME NEW q \in HandlerRecord, q.pc = "claim", NEW w
    PROVE  Charge(q, w) = IF q.op.worker = w THEN 1 ELSE 0
<1>1. q.releases \in Seq(Workers) /\ q.releases = <<>>
  BY DEF HandlerRecord
<1>2. Cardinality(Owed(q, w)) = 0
  BY <1>1, OwedFinite
<1>3. QED
  BY <1>2 DEF Charge, ClaimsFor

\* An idle handler.
LEMMA IdleType == Idle \in HandlerRecord /\ NoOperation \in Ops
<1>1. NoOperation \in Ops
  BY DEF Ops
<1>2. NoOperation.name = "none"
  BY DEF NoOperation, Operation
<1>3. <<>> \in Seq(Workers)
  OBVIOUS
<1>4. QED
  BY <1>1, <1>2, <1>3 DEF HandlerRecord, Idle

\* The handler's next state holds exactly the slots on its list.
LEMMA ListHeld ==
    ASSUME handler \in [Handlers -> HandlerRecord], NEW h \in Handlers,
           NEW released \in Seq(Workers), NEW op \in Ops, NEW next \in {"idle", "acquire", "apply"},
           next = "acquire" => op.name = "claim", ReleaseThen(h, released, op, next)
    PROVE  \E q \in HandlerRecord :
              /\ handler' = [handler EXCEPT ![h] = q]
              /\ q.releases = released
              /\ \A w : Charge(q, w) = Cardinality({k \in DOMAIN released : released[k] = w})
<1>1. ASSUME NEW q \in HandlerRecord, handler' = [handler EXCEPT ![h] = q],
             q.releases = released, q.pc # "claim"
      PROVE  \E r \in HandlerRecord :
              /\ handler' = [handler EXCEPT ![h] = r]
              /\ r.releases = released
              /\ \A w : Charge(r, w) = Cardinality({k \in DOMAIN released : released[k] = w})
  <2>1. \A w : Owed(q, w) = {k \in DOMAIN released : released[k] = w}
    BY <1>1 DEF Owed
  <2>2. \A w : Cardinality(Owed(q, w)) \in Nat
    BY <1>1, OwedFinite
  <2>3. \A w : Charge(q, w) = Cardinality(Owed(q, w))
    BY <1>1, <2>2 DEF Charge, ClaimsFor
  <2>4. \A w : Charge(q, w) = Cardinality({k \in DOMAIN released : released[k] = w})
    BY <2>1, <2>3
  <2>5. QED
    BY <1>1, <2>4
<1>2. CASE released = <<>> /\ next = "idle"
  <2>1. handler' = [handler EXCEPT ![h] = Idle]
    BY <1>2 DEF ReleaseThen, Finish
  <2>2. Idle.releases = <<>> /\ Idle.pc = "idle"
    BY DEF Idle
  <2>3. QED
    BY <1>1, <1>2, <2>1, <2>2, IdleType
<1>3. CASE released = <<>> /\ next # "idle"
  <2> DEFINE q == [Idle EXCEPT !.op = op, !.pc = next]
  <2>1. handler' = [handler EXCEPT ![h] = q]
    BY <1>3 DEF ReleaseThen, Continue
  <2>2. /\ q \in [pc : {"acquire", "apply"}, op : Ops, kinds : SUBSET Kinds, releases : Seq(Workers)]
        /\ q.pc = next /\ q.op = op /\ q.releases = <<>>
    BY <1>3, IdleType DEF Idle
  <2>3. q \in HandlerRecord /\ q.releases = <<>> /\ q.pc # "claim"
    BY <1>3, <2>2 DEF HandlerRecord
  <2>4. QED
    <3> HIDE DEF q
    <3> QED
      BY <1>1, <1>3, <2>1, <2>3
<1>4. CASE released # <<>>
  <2> DEFINE q == [Idle EXCEPT !.op = op, !.pc = "release", !.releases = released]
  <2>1. handler' = [handler EXCEPT ![h] = q]
    BY <1>4 DEF ReleaseThen
  <2>2. /\ q \in [pc : {"release"}, op : Ops, kinds : SUBSET Kinds, releases : Seq(Workers)]
        /\ q.pc = "release" /\ q.op = op /\ q.releases = released
    BY IdleType DEF Idle
  <2>3. q \in HandlerRecord /\ q.releases = released /\ q.pc # "claim"
    BY <1>4, <2>2 DEF HandlerRecord
  <2>4. QED
    <3> HIDE DEF q
    <3> QED
      BY <1>1, <2>1, <2>3
<1>5. QED
  BY <1>2, <1>3, <1>4

\* What follows a sweep.
LEMMA AfterSweepType ==
    ASSUME NEW op \in Ops
    PROVE  /\ AfterSweep(op) \in {"idle", "acquire", "apply"}
           /\ AfterSweep(op) = "acquire" => op.name = "claim"
BY OpFields DEF AfterSweep

--------------------------------------------------------------------------------
(* The worker registry *)

\* A registered worker carries what one of its registrations said.
WorkerRecord ==
    [job_types : SUBSET Kinds, pool : Pools,
     max_concurrent_jobs : {profile.max_concurrent_jobs : profile \in Profiles},
     in_flight_jobs : Nat, draining : BOOLEAN, stale : BOOLEAN]

WorkersOK == DOMAIN workers \subseteq Workers /\ workers \in [DOMAIN workers -> WorkerRecord]

\* in_flight_jobs is a number.
LEMMA InFlightType == ASSUME WorkersOK, NEW w PROVE InFlight(w) \in Nat
BY DEF WorkersOK, InFlight, WorkerRecord

\* Registration, heartbeats, draining and deregistration leave every slot where it is:
\* deregister forgets only workers that have none.
LEMMA RegistrationKeepsSlots ==
    ASSUME WorkersOK, WorkerRegistryNext
    PROVE  WorkersOK' /\ \A w : InFlight(w)' = InFlight(w)
<1>1. PICK worker \in Workers :
         \/ \E profile \in Profiles : Register(worker, profile)
         \/ Heartbeat(worker) \/ GoStale(worker) \/ Drain(worker) \/ Reactivate(worker)
         \/ Deregister(worker)
  BY DEF WorkerRegistryNext
<1>2. ASSUME NEW profile \in Profiles, Register(worker, profile)
      PROVE  WorkersOK' /\ \A w : InFlight(w)' = InFlight(w)
  <2> DEFINE known == worker \in DOMAIN workers
             slots == IF known THEN workers[worker].in_flight_jobs ELSE 0
             drain == known /\ workers[worker].draining
             entry == [job_types |-> profile.job_types, pool |-> profile.pool,
                       max_concurrent_jobs |-> profile.max_concurrent_jobs,
                       in_flight_jobs |-> slots, draining |-> drain, stale |-> FALSE]
  <2>1. workers' = [x \in DOMAIN workers \cup {worker} |->
                        IF x = worker THEN entry ELSE workers[x]]
    BY <1>2 DEF Register
  <2>2. slots \in Nat
    BY DEF WorkersOK, WorkerRecord
  <2>3. drain \in BOOLEAN
    OBVIOUS
  <2>4. profile.job_types \in SUBSET Kinds /\ profile.pool \in Pools
    BY ProfilesAssumption
  <2>5. entry \in WorkerRecord /\ entry.in_flight_jobs = slots
    <3> HIDE DEF slots, drain
    <3> QED
      BY <2>2, <2>3, <2>4 DEF WorkerRecord
  <2>6. slots = InFlight(worker)
    BY DEF InFlight
  <2>7. WorkersOK'
    <3> HIDE DEF entry
    <3> QED
      BY <2>1, <2>5 DEF WorkersOK
  <2>8. QED
    <3> HIDE DEF entry, slots
    <3> QED
      BY <2>1, <2>5, <2>6, <2>7 DEF InFlight
<1>3. ASSUME worker \in DOMAIN workers, NEW new \in WorkerRecord,
             new.in_flight_jobs = workers[worker].in_flight_jobs,
             workers' = [workers EXCEPT ![worker] = new]
      PROVE  WorkersOK' /\ \A w : InFlight(w)' = InFlight(w)
  BY <1>3 DEF WorkersOK, InFlight
<1>4. CASE Heartbeat(worker) \/ GoStale(worker) \/ Drain(worker) \/ Reactivate(worker)
  <2>1. worker \in DOMAIN workers
    BY <1>4 DEF Heartbeat, GoStale, Drain, Reactivate
  <2> DEFINE old == workers[worker]
  <2>2. old \in WorkerRecord
    BY <2>1 DEF WorkersOK
  <2>3. \E new \in WorkerRecord : new.in_flight_jobs = old.in_flight_jobs
                                  /\ workers' = [workers EXCEPT ![worker] = new]
    <3>1. CASE Heartbeat(worker)
      <4>1. [old EXCEPT !.stale = FALSE] \in WorkerRecord
            /\ [old EXCEPT !.stale = FALSE].in_flight_jobs = old.in_flight_jobs
        BY <2>2 DEF WorkerRecord
      <4>2. QED
        BY <3>1, <4>1 DEF Heartbeat
    <3>2. CASE GoStale(worker)
      <4>1. [old EXCEPT !.stale = TRUE] \in WorkerRecord
            /\ [old EXCEPT !.stale = TRUE].in_flight_jobs = old.in_flight_jobs
        BY <2>2 DEF WorkerRecord
      <4>2. QED
        BY <3>2, <4>1 DEF GoStale
    <3>3. CASE Drain(worker)
      <4>1. [old EXCEPT !.draining = TRUE] \in WorkerRecord
            /\ [old EXCEPT !.draining = TRUE].in_flight_jobs = old.in_flight_jobs
        BY <2>2 DEF WorkerRecord
      <4>2. QED
        BY <3>3, <4>1 DEF Drain
    <3>4. CASE Reactivate(worker)
      <4>1. [old EXCEPT !.draining = FALSE, !.stale = FALSE] \in WorkerRecord
            /\ [old EXCEPT !.draining = FALSE, !.stale = FALSE].in_flight_jobs = old.in_flight_jobs
        BY <2>2 DEF WorkerRecord
      <4>2. workers' = [workers EXCEPT ![worker] = [old EXCEPT !.draining = FALSE, !.stale = FALSE]]
        BY <2>1, <3>4 DEF Reactivate
      <4>3. QED
        BY <4>1, <4>2
    <3>5. QED
      BY <1>4, <3>1, <3>2, <3>3, <3>4
  <2>4. QED
    BY <1>3, <2>1, <2>3
<1>5. CASE Deregister(worker)
  <2>1. worker \in DOMAIN workers /\ workers[worker] \in WorkerRecord
    BY <1>5 DEF Deregister, WorkersOK
  <2>2. CASE workers[worker].in_flight_jobs > 0
    <3> DEFINE new == [workers[worker] EXCEPT !.draining = TRUE]
    <3>1. new \in WorkerRecord /\ new.in_flight_jobs = workers[worker].in_flight_jobs
      BY <2>1 DEF WorkerRecord
    <3>2. workers' = [workers EXCEPT ![worker] = new]
      BY <1>5, <2>2 DEF Deregister
    <3> HIDE DEF new
    <3>3. QED
      BY <1>3, <2>1, <3>1, <3>2
  <2>3. CASE ~(workers[worker].in_flight_jobs > 0)
    <3>1. workers' = [x \in DOMAIN workers \ {worker} |-> workers[x]]
      BY <1>5, <2>3 DEF Deregister
    <3>2. workers[worker].in_flight_jobs = 0
      BY <2>1, <2>3 DEF WorkerRecord
    <3>3. QED
      BY <3>1, <3>2 DEF WorkersOK, InFlight
  <2>4. QED
    BY <2>2, <2>3
<1>6. QED
  BY <1>1, <1>2, <1>4, <1>5

\* in_flight_jobs of one worker is set.
LEMMA SlotsSet ==
    ASSUME WorkersOK, NEW x \in DOMAIN workers, NEW n \in Nat,
           workers' = [workers EXCEPT ![x].in_flight_jobs = n]
    PROVE  WorkersOK' /\ InFlight(x)' = n /\ \A w : w # x => InFlight(w)' = InFlight(w)
<1> DEFINE new == [workers[x] EXCEPT !.in_flight_jobs = n]
<1>1. workers[x] \in WorkerRecord
  BY DEF WorkersOK
<1>2. new \in WorkerRecord /\ new.in_flight_jobs = n
  BY <1>1 DEF WorkerRecord
<1>3. workers' = [workers EXCEPT ![x] = new]
  OBVIOUS
<1>4. QED
  <2> HIDE DEF new
  <2> QED
    BY <1>2, <1>3 DEF WorkersOK, InFlight

\* try_acquire_slot takes one slot of its worker.
LEMMA AcquireTakes ==
    ASSUME WorkersOK, NEW x, TryAcquireSlot(x), NEW w
    PROVE  WorkersOK' /\ InFlight(w)' = InFlight(w) + IF x = w THEN 1 ELSE 0
<1>1. x \in DOMAIN workers /\ InFlight(x) = workers[x].in_flight_jobs
  BY DEF TryAcquireSlot, CanAcquire, Reachable, InFlight
<1>2. workers' = [workers EXCEPT ![x].in_flight_jobs = InFlight(x) + 1]
  BY <1>1 DEF TryAcquireSlot
<1>3. InFlight(x) \in Nat /\ InFlight(w) \in Nat /\ InFlight(x) + 1 \in Nat
  BY InFlightType
<1>4. WorkersOK' /\ InFlight(x)' = InFlight(x) + 1 /\ \A v : v # x => InFlight(v)' = InFlight(v)
  BY <1>1, <1>2, <1>3, SlotsSet
<1>5. QED
  BY <1>3, <1>4

\* release_slot gives back one slot of its worker, if any is taken.
LEMMA ReleaseGives ==
    ASSUME WorkersOK, NEW x, ReleaseSlot(x), NEW w
    PROVE  /\ WorkersOK'
           /\ InFlight(w)' = IF x = w /\ InFlight(w) > 0 THEN InFlight(w) - 1 ELSE InFlight(w)
<1>1. InFlight(x) \in Nat /\ InFlight(w) \in Nat
  BY InFlightType
<1>2. CASE x \in DOMAIN workers /\ workers[x].in_flight_jobs > 0
  <2>1. InFlight(x) = workers[x].in_flight_jobs
    BY <1>2 DEF InFlight
  <2>2. workers' = [workers EXCEPT ![x].in_flight_jobs = InFlight(x) - 1]
    BY <1>2, <2>1 DEF ReleaseSlot
  <2>3. InFlight(x) - 1 \in Nat
    BY <1>1, <1>2, <2>1
  <2>4. /\ WorkersOK' /\ InFlight(x)' = InFlight(x) - 1
        /\ \A v : v # x => InFlight(v)' = InFlight(v)
    BY <1>2, <2>2, <2>3, SlotsSet
  <2>5. QED
    BY <1>1, <1>2, <2>1, <2>4
<1>3. CASE ~(x \in DOMAIN workers /\ workers[x].in_flight_jobs > 0)
  <2>1. workers' = workers
    BY <1>3 DEF ReleaseSlot
  <2>2. ~(InFlight(x) > 0)
    BY <1>3 DEF InFlight
  <2>3. QED
    BY <2>1, <2>2 DEF WorkersOK, InFlight
<1>4. QED
  BY <1>2, <1>3

--------------------------------------------------------------------------------
(* What a step does to the slots of a worker *)

\* The slots of w in use, and those that dropped handlers never gave back.
Used(w) == SlotsInUse(w) + leaked[w]

\* The work and in_flight_jobs change together: neither, or both by one more.
SlotStep(w) ==
    \/ Used(w)' = Used(w) /\ InFlight(w)' = InFlight(w)
    \/ Used(w)' = Used(w) + 1 /\ InFlight(w)' = InFlight(w) + 1

\* Both by one less, except that in_flight_jobs does not fall below 0.
SlotFreed(w) ==
    Used(w)' + 1 = Used(w) /\ InFlight(w)' = IF InFlight(w) > 0 THEN InFlight(w) - 1 ELSE 0

\* Handler h is about to give back a slot of w.
NextReleased(h, w) == At(h, "release") /\ Head(handler[h].releases) = w

SchedulerTypes ==
    /\ handler \in [Handlers -> HandlerRecord]
    /\ WorkersOK
    /\ leaked \in [Workers -> Nat]
    /\ reloaded \in [Workers -> Nat]

\* The parts are numbers.
LEMMA PartsAreNumbers ==
    ASSUME handler \in [Handlers -> HandlerRecord], JobTable(jobs), NEW w
    PROVE  /\ Cardinality(Running(w)) \in Nat
           /\ Cardinality(Claiming(w)) \in Nat
           /\ Cardinality(Releasing(w)) \in Nat
<1>1. IsFiniteSet(Claiming(w))
  <2>1. Claiming(w) \subseteq Handlers
    BY DEF Claiming
  <2>2. QED
    BY <2>1, HandlersAssumption, FS_Subset
<1>2. IsFiniteSet(Releasing(w))
  <2> DEFINE Own(g) == {g} \X Owed(handler[g], w)
             f      == [g \in Handlers |-> Own(g)]
             sets   == {Own(g) : g \in Handlers}
  <2>1. f \in Surjection(Handlers, sets)
    BY DEF Surjection
  <2>2. IsFiniteSet(sets)
    BY <2>1, HandlersAssumption, FS_Surjection
  <2>3. \A g \in Handlers : handler[g].releases \in Seq(Workers)
    BY DEF HandlerRecord
  <2>4. \A g \in Handlers : IsFiniteSet(Own(g))
    BY <2>3, OwedFinite, PairsCount
  <2>5. \A T \in sets : IsFiniteSet(T)
    BY <2>4
  <2>6. IsFiniteSet(UNION sets)
    <3> HIDE DEF sets
    <3> QED
      BY <2>2, <2>5, FS_UNION
  <2>7. Releasing(w) = UNION sets
    BY DEF Releasing, Owed
  <2>8. QED
    BY <2>6, <2>7
<1>3. QED
  BY <1>1, <1>2, RunningFinite, FS_CardinalityType

\* One handler moves and nothing is leaked: what the worker runs and what the handler holds
\* make the difference.
LEMMA Balance ==
    ASSUME SchedulerTypes, NEW h \in Handlers, NEW q \in HandlerRecord,
           handler' = [handler EXCEPT ![h] = q], NEW w \in Workers, leaked'[w] = leaked[w],
           Cardinality(Running(w)) \in Nat, Cardinality(Running(w)') \in Nat
    PROVE  /\ Used(w) \in Nat /\ Used(w)' \in Nat
           /\ Charge(handler[h], w) \in Nat /\ Charge(q, w) \in Nat
           /\ Used(w)' + Cardinality(Running(w)) + Charge(handler[h], w)
                = Used(w) + Cardinality(Running(w)') + Charge(q, w)
<1>1. /\ Charge(handler[h], w) \in Nat /\ Charge(q, w) \in Nat
      /\ Cardinality(Claiming(w)) \in Nat /\ Cardinality(Claiming(w)') \in Nat
      /\ Cardinality(Releasing(w)) \in Nat /\ Cardinality(Releasing(w)') \in Nat
      /\ Held(w) \in Nat /\ Held(w)' \in Nat
      /\ Held(w)' + Charge(handler[h], w) = Held(w) + Charge(q, w)
  BY OneHandler DEF SchedulerTypes
<1>2. leaked[w] \in Nat
  BY DEF SchedulerTypes
<1>3. Used(w) = Cardinality(Running(w)) + Held(w) + leaked[w]
  BY <1>1, <1>2 DEF Used, SlotsInUse, Held
<1>4. Used(w)' = Cardinality(Running(w)') + Held(w)' + leaked'[w]
  BY <1>1, <1>2 DEF Used, SlotsInUse, Held
<1>5. QED
  BY <1>1, <1>2, <1>3, <1>4

\* A handler that held nothing sweeps: what it takes from the workers it has to give back.
LEMMA SweepSlots ==
    ASSUME IInv, SchedulerTypes, NEW h \in Handlers, NEW op \in Ops, NEW ok,
           handler[h].pc \in {"idle", "sweep"}, SweepExpiredLeases(h, op, ok),
           leaked' = leaked, NEW w \in Workers
    PROVE  SlotStep(w)
<1>1. JobTable(jobs) /\ LeasesConsistentIn(jobs) /\ now \in Nat /\ jobs' = SweptJobs(jobs)
  BY DEF IInv, TypeOK, LeaseConsistent, SweepExpiredLeases, RequeueExpiredLeases
<1> DEFINE owed == Cardinality({k \in DOMAIN ReleasedWorkers : ReleasedWorkers[k] = w})
<1>2. /\ ReleasedWorkers \in Seq(Workers)
      /\ Cardinality(Running(w)) \in Nat /\ Cardinality(Running(w)') \in Nat
      /\ owed \in Nat /\ Cardinality(Running(w)') + owed = Cardinality(Running(w))
  BY <1>1, SweepBalances
<1>3. /\ ReleaseThen(h, ReleasedWorkers, op, AfterSweep(op)) /\ workers' = workers
      /\ handler \in [Handlers -> HandlerRecord]
  BY DEF SweepExpiredLeases, SchedulerTypes
<1>4. PICK q \in HandlerRecord :
         /\ handler' = [handler EXCEPT ![h] = q]
         /\ \A v : Charge(q, v) = Cardinality({k \in DOMAIN ReleasedWorkers : ReleasedWorkers[k] = v})
  BY <1>2, <1>3, AfterSweepType, ListHeld
<1>5. Charge(q, w) = owed
  BY <1>4
<1>6. Charge(handler[h], w) = 0
  BY NothingHeld DEF SchedulerTypes
<1>7. Used(w)' = Used(w)
  <2> HIDE DEF owed
  <2>1. /\ Used(w) \in Nat /\ Used(w)' \in Nat
        /\ Used(w)' + Cardinality(Running(w)) + Charge(handler[h], w)
             = Used(w) + Cardinality(Running(w)') + Charge(q, w)
    BY <1>2, <1>4, Balance
  <2>2. QED
    BY <1>2, <1>5, <1>6, <2>1
<1>8. InFlight(w)' = InFlight(w)
  BY <1>3 DEF InFlight
<1>9. QED
  BY <1>7, <1>8 DEF SlotStep

\* A handler that held nothing, or the slot of a claim, moves on with the list <<worker>>, or
\* with nothing: the work changes by what the registry's step changed.
LEMMA ReportSlots ==
    ASSUME SchedulerTypes, NEW h \in Handlers, NEW q \in HandlerRecord,
           handler' = [handler EXCEPT ![h] = q], workers' = workers, leaked' = leaked,
           NEW w \in Workers, Cardinality(Running(w)) \in Nat, Cardinality(Running(w)') \in Nat,
           Cardinality(Running(w)) + Charge(handler[h], w)
                = Cardinality(Running(w)') + Charge(q, w)
    PROVE  SlotStep(w)
<1>1. /\ Used(w) \in Nat /\ Used(w)' \in Nat
      /\ Charge(handler[h], w) \in Nat /\ Charge(q, w) \in Nat
      /\ Used(w)' + Cardinality(Running(w)) + Charge(handler[h], w)
           = Used(w) + Cardinality(Running(w)') + Charge(q, w)
  BY Balance
<1>2. Used(w)' = Used(w)
  BY <1>1
<1>3. InFlight(w)' = InFlight(w)
  BY DEF InFlight
<1>4. QED
  BY <1>2, <1>3 DEF SlotStep

\* A list of one worker, at the end of an operation.
LEMMA LastSlot ==
    ASSUME handler \in [Handlers -> HandlerRecord], NEW h \in Handlers, NEW worker \in Workers,
           ReleaseThen(h, <<worker>>, NoOperation, "idle")
    PROVE  \E q \in HandlerRecord :
              /\ handler' = [handler EXCEPT ![h] = q]
              /\ \A w : Charge(q, w) = IF worker = w THEN 1 ELSE 0
<1>1. <<worker>> \in Seq(Workers)
  OBVIOUS
<1>2. PICK q \in HandlerRecord :
         /\ handler' = [handler EXCEPT ![h] = q]
         /\ q.releases = <<worker>>
         /\ \A w : Charge(q, w) = Cardinality({k \in DOMAIN <<worker>> : <<worker>>[k] = w})
  BY <1>1, IdleType, ListHeld
<1>3. \A w : Cardinality(Owed(q, w)) = IF worker = w THEN 1 ELSE 0
  BY <1>2, OneOwed
<1>4. \A w : Owed(q, w) = {k \in DOMAIN <<worker>> : <<worker>>[k] = w}
  BY <1>2 DEF Owed
<1>5. \A w : Charge(q, w) = IF worker = w THEN 1 ELSE 0
  BY <1>2, <1>3, <1>4
<1>6. QED
  BY <1>2, <1>5

\* The handler is done and holds nothing.
LEMMA FinishHeld ==
    ASSUME NEW h, Finish(h)
    PROVE  /\ handler' = [handler EXCEPT ![h] = Idle]
           /\ \A w : Charge(Idle, w) = 0
<1>1. Idle.pc = "idle"
  BY DEF Idle
<1>2. QED
  BY <1>1, IdleType, NothingHeld DEF Finish

--------------------------------------------------------------------------------
(* Each step of a handler *)

\* The sweeps: of the recovery loop, of a claim and of a report.
LEMMA SweepingSteps ==
    ASSUME IInv, SchedulerTypes, NEW h \in Handlers, NEW ok, leaked' = leaked, NEW w \in Workers,
           \/ LeaseRecovery(h, ok)
           \/ \E worker \in Workers : ClaimRequest(h, worker, ok)
           \/ ReportSweep(h, ok)
    PROVE  SlotStep(w)
<1>1. \E op \in Ops : SweepExpiredLeases(h, op, ok) /\ handler[h].pc \in {"idle", "sweep"}
  <2>1. CASE LeaseRecovery(h, ok)
    BY <2>1 DEF LeaseRecovery, At, Ops
  <2>2. ASSUME NEW worker \in Workers, ClaimRequest(h, worker, ok)
        PROVE  SweepExpiredLeases(h, Operation("claim", worker, None, None, None), ok)
               /\ handler[h].pc = "idle" /\ Operation("claim", worker, None, None, None) \in Ops
    BY <2>2 DEF ClaimRequest, At, Ops
  <2>3. CASE ReportSweep(h, ok)
    <3>1. handler[h].op \in Ops
      BY DEF SchedulerTypes, HandlerRecord
    <3>2. QED
      BY <2>3, <3>1 DEF ReportSweep, At
  <2>4. QED
    BY <2>1, <2>2, <2>3
<1>2. QED
  BY <1>1, SweepSlots

\* A report begins: its handler goes on to the sweep.
LEMMA ReportBegins ==
    ASSUME NEW h \in Handlers, NEW op \in Reports, ReportRequest(h, op)
    PROVE  \E q \in HandlerRecord : handler' = [handler EXCEPT ![h] = q] /\ q.pc = "sweep"
<1> DEFINE q == [Idle EXCEPT !.op = op, !.pc = "sweep"]
<1>1. handler' = [handler EXCEPT ![h] = q]
  BY DEF ReportRequest, Continue
<1>2. op \in Ops /\ <<>> \in Seq(Workers)
  BY DEF Ops
<1>3. /\ q \in [pc : {"sweep"}, op : Ops, kinds : SUBSET Kinds, releases : Seq(Workers)]
      /\ q.pc = "sweep" /\ q.releases = <<>>
  BY <1>2 DEF Idle
<1> HIDE DEF q
<1>4. QED
  BY <1>1, <1>3 DEF HandlerRecord

\* That changes no slot.
LEMMA RequestStep ==
    ASSUME IInv, SchedulerTypes, NEW h \in Handlers, NEW op \in Reports, ReportRequest(h, op),
           leaked' = leaked, NEW w \in Workers
    PROVE  SlotStep(w)
<1>1. PICK q \in HandlerRecord : handler' = [handler EXCEPT ![h] = q] /\ q.pc = "sweep"
  BY ReportBegins
<1>2. handler[h].pc = "idle" /\ jobs' = jobs /\ workers' = workers
  BY DEF ReportRequest, At, vars
<1>3. Charge(q, w) = 0 /\ Charge(handler[h], w) = 0
  BY <1>1, <1>2, NothingHeld DEF SchedulerTypes
<1>4. Cardinality(Running(w)) \in Nat /\ Running(w)' = Running(w)
  BY <1>2, RunningFinite DEF IInv, TypeOK, Running
<1>5. QED
  BY <1>1, <1>2, <1>3, <1>4, ReportSlots

\* A slot is given back.
LEMMA ReleaseStep ==
    ASSUME IInv, SchedulerTypes, NEW h \in Handlers, Release(h), leaked' = leaked, NEW w \in Workers
    PROVE  IF NextReleased(h, w) THEN SlotFreed(w) ELSE SlotStep(w)
<1> DEFINE old == handler[h]
           x   == Head(old.releases)
<1>1. old \in HandlerRecord /\ old.op \in Ops /\ old.pc = "release"
      /\ old.releases \in Seq(Workers) /\ old.releases # <<>>
  BY DEF Release, At, SchedulerTypes, HandlerRecord
<1>2. /\ ReleaseThen(h, Tail(old.releases), old.op, AfterSweep(old.op))
      /\ ReleaseSlot(x) /\ jobs' = jobs
  BY DEF Release, vars
<1>3. x \in Workers /\ Tail(old.releases) \in Seq(Workers)
  BY <1>1, HeadTailProperties
<1>4. PICK q \in HandlerRecord :
         /\ handler' = [handler EXCEPT ![h] = q]
         /\ q.releases = Tail(old.releases)
         /\ \A v : Charge(q, v) = Cardinality({k \in DOMAIN Tail(old.releases) : Tail(old.releases)[k] = v})
  <2> DEFINE rest == Tail(old.releases)
             op   == old.op
             next == AfterSweep(op)
  <2>0. op \in Ops /\ next \in {"idle", "acquire", "apply"} /\ (next = "acquire" => op.name = "claim")
    BY <1>1, AfterSweepType
  <2>1. rest \in Seq(Workers) /\ ReleaseThen(h, rest, op, next)
    BY <1>2, <1>3
  <2> HIDE DEF rest, op, next
  <2>2. \E q \in HandlerRecord :
         /\ handler' = [handler EXCEPT ![h] = q]
         /\ q.releases = rest
         /\ \A v : Charge(q, v) = Cardinality({k \in DOMAIN rest : rest[k] = v})
    BY <2>0, <2>1, ListHeld DEF SchedulerTypes
  <2>3. QED
    BY <2>2 DEF rest
<1> HIDE DEF old
<1>5. Charge(q, w) = Cardinality(Owed(q, w))
  BY <1>4 DEF Owed
<1>6. Cardinality(Owed(old, w)) = Cardinality(Owed(q, w)) + IF x = w THEN 1 ELSE 0
  BY <1>1, <1>4, TailOwed
<1>7. Charge(old, w) = Cardinality(Owed(old, w))
  <2>1. Cardinality(Owed(old, w)) \in Nat
    BY <1>1, OwedFinite
  <2>2. QED
    BY <1>1, <2>1 DEF Charge, ClaimsFor
<1>8. Cardinality(Running(w)) \in Nat /\ Running(w)' = Running(w)
  BY <1>2, RunningFinite DEF IInv, TypeOK, Running
<1>9. /\ Used(w) \in Nat /\ Used(w)' \in Nat
      /\ Charge(old, w) \in Nat /\ Charge(q, w) \in Nat
      /\ Used(w)' + Cardinality(Running(w)) + Charge(old, w)
           = Used(w) + Cardinality(Running(w)) + Charge(q, w)
  BY <1>4, <1>8, Balance DEF old
<1>10. Used(w) = Used(w)' + IF x = w THEN 1 ELSE 0
  BY <1>5, <1>6, <1>7, <1>8, <1>9
<1>11. InFlight(w) \in Nat
  BY InFlightType DEF SchedulerTypes
<1>12. InFlight(w)' = IF x = w /\ InFlight(w) > 0 THEN InFlight(w) - 1 ELSE InFlight(w)
  BY <1>2, ReleaseGives DEF SchedulerTypes
<1>13. NextReleased(h, w) <=> x = w
  BY <1>1 DEF NextReleased, At, old
<1>14. QED
  BY <1>9, <1>10, <1>11, <1>12, <1>13 DEF SlotStep, SlotFreed

\* A slot is acquired: the handler goes on to claim a job for it.
LEMMA SlotAcquired ==
    ASSUME SchedulerTypes, NEW h \in Handlers, AcquireSlot(h), CanAcquire(handler[h].op.worker)
    PROVE  \E q \in HandlerRecord : /\ handler' = [handler EXCEPT ![h] = q]
                                    /\ q.pc = "claim" /\ q.op = handler[h].op
<1> DEFINE old    == handler[h]
           worker == old.op.worker
           q      == [old EXCEPT !.pc = "claim", !.kinds = AllowedKinds(workers[worker])]
<1>1. old \in HandlerRecord /\ old.pc = "acquire" /\ old.op.name = "claim"
  BY DEF AcquireSlot, At, SchedulerTypes, HandlerRecord
<1>2. handler' = [handler EXCEPT ![h] = q]
  BY DEF AcquireSlot, SchedulerTypes
<1>3. AllowedKinds(workers[worker]) \in SUBSET Kinds
  <2>1. workers[worker] \in WorkerRecord
    BY DEF CanAcquire, Reachable, SchedulerTypes, WorkersOK
  <2>2. QED
    BY <2>1 DEF WorkerRecord, AllowedKinds
<1>4. /\ q \in [pc : {"claim"}, op : Ops, kinds : SUBSET Kinds, releases : Seq(Workers)]
      /\ q.pc = "claim" /\ q.op = old.op /\ q.releases = old.releases
  BY <1>1, <1>3 DEF HandlerRecord
<1>5. old.releases = <<>>
  BY <1>1 DEF HandlerRecord
<1>6. QED
  <2> HIDE DEF q, old
  <2>1. q \in HandlerRecord /\ q.pc = "claim" /\ q.op = old.op
    BY <1>1, <1>4, <1>5 DEF HandlerRecord
  <2>2. QED
    BY <1>2, <2>1 DEF old

\* A slot is taken, or refused.
LEMMA AcquireStep ==
    ASSUME IInv, SchedulerTypes, NEW h \in Handlers, AcquireSlot(h), leaked' = leaked,
           NEW w \in Workers
    PROVE  SlotStep(w)
<1> DEFINE old    == handler[h]
           worker == old.op.worker
<1>1. old \in HandlerRecord /\ old.pc = "acquire" /\ old.op.name = "claim" /\ jobs' = jobs
  BY DEF AcquireSlot, At, SchedulerTypes, HandlerRecord, vars
<1>2. Cardinality(Running(w)) \in Nat /\ Running(w)' = Running(w)
  BY <1>1, RunningFinite DEF IInv, TypeOK, Running
<1>3. Charge(old, w) = 0
  BY <1>1, NothingHeld
<1>4. CASE CanAcquire(worker)
  <2>1. TryAcquireSlot(worker)
    BY <1>4 DEF AcquireSlot
  <2>2. PICK q \in HandlerRecord : /\ handler' = [handler EXCEPT ![h] = q]
                                   /\ q.pc = "claim" /\ q.op = old.op
    BY <1>4, SlotAcquired
  <2>4. q.op.worker = worker
    BY <2>2
  <2>5. Charge(q, w) = IF worker = w THEN 1 ELSE 0
    BY <2>2, <2>4, ClaimHeld
  <2>6. /\ Used(w) \in Nat /\ Used(w)' \in Nat
        /\ Used(w)' + Cardinality(Running(w)) + Charge(old, w)
             = Used(w) + Cardinality(Running(w)) + Charge(q, w)
    BY <1>2, <2>2, <2>4, Balance
  <2>7. Used(w)' = Used(w) + IF worker = w THEN 1 ELSE 0
    BY <1>2, <1>3, <2>5, <2>6
  <2>8. InFlight(w)' = InFlight(w) + IF worker = w THEN 1 ELSE 0
    <3> HIDE DEF worker
    <3> QED
      BY <2>1, AcquireTakes DEF SchedulerTypes
  <2>9. InFlight(w) \in Nat
    BY InFlightType DEF SchedulerTypes
  <2>10. QED
    <3> HIDE DEF worker
    <3> QED
      BY <2>6, <2>7, <2>8, <2>9 DEF SlotStep
<1>5. CASE ~CanAcquire(worker)
  <2>1. Finish(h) /\ workers' = workers
    BY <1>5 DEF AcquireSlot
  <2>2. handler' = [handler EXCEPT ![h] = Idle] /\ Charge(Idle, w) = 0
    BY <2>1, FinishHeld
  <2>3. QED
    BY <1>2, <1>3, <2>1, <2>2, IdleType, ReportSlots
<1>6. QED
  BY <1>4, <1>5

\* A claim: the slot that the handler holds becomes that of the job, or is given back.
LEMMA ClaimStep ==
    ASSUME IInv, SchedulerTypes, NEW h \in Handlers, ClaimNext(h, TRUE), leaked' = leaked,
           NEW w \in Workers
    PROVE  SlotStep(w)
<1> DEFINE old    == handler[h]
           worker == old.op.worker
<1>1. old \in HandlerRecord /\ old.pc = "claim" /\ old.op.name = "claim" /\ old.op \in Ops
      /\ workers' = workers
  BY DEF ClaimNext, At, SchedulerTypes, HandlerRecord
<1>2. worker \in Workers
  BY <1>1, OpFields
<1>3. Charge(old, w) = IF worker = w THEN 1 ELSE 0
  BY <1>1, ClaimHeld
<1>4. CASE Claim(worker, old.kinds, TRUE) /\ Finish(h)
  <2>1. handler' = [handler EXCEPT ![h] = Idle] /\ Charge(Idle, w) = 0
    BY <1>4, FinishHeld
  <2>2. /\ Cardinality(Running(w)) \in Nat /\ Cardinality(Running(w)') \in Nat
        /\ Cardinality(Running(w)') = Cardinality(Running(w)) + (IF worker = w THEN 1 ELSE 0)
    <3> HIDE DEF worker
    <3> QED
      BY <1>2, <1>4, ClaimBalances DEF IInv
  <2>3. Cardinality(Running(w)) + Charge(old, w) = Cardinality(Running(w)') + Charge(Idle, w)
    BY <1>3, <2>1, <2>2
  <2>4. QED
    BY <1>1, <2>1, <2>2, <2>3, IdleType, ReportSlots
<1>5. CASE ReleaseThen(h, <<worker>>, NoOperation, "idle") /\ jobs' = jobs
  <2>1. Cardinality(Running(w)) \in Nat /\ Running(w)' = Running(w)
    BY <1>5, RunningFinite DEF IInv, TypeOK, Running
  <2>2. PICK q \in HandlerRecord :
            /\ handler' = [handler EXCEPT ![h] = q]
            /\ \A v : Charge(q, v) = IF worker = v THEN 1 ELSE 0
    <3> HIDE DEF worker
    <3> QED
      BY <1>2, <1>5, LastSlot DEF SchedulerTypes
  <2>3. Charge(q, w) = Charge(old, w)
    BY <1>3, <2>2
  <2>4. QED
    BY <1>1, <2>1, <2>2, <2>3, ReportSlots
<1>6. QED
  BY <1>4, <1>5 DEF ClaimNext, vars
\* A renewal: the job stays with its worker.
LEMMA RenewStep ==
    ASSUME IInv, SchedulerTypes, NEW h \in Handlers, NEW ok, ApplyRenew(h, ok), leaked' = leaked,
           NEW w \in Workers
    PROVE  SlotStep(w)
<1>1. handler[h] \in HandlerRecord /\ handler[h].pc = "apply" /\ workers' = workers /\ Finish(h)
  BY DEF ApplyRenew, At, SchedulerTypes
<1>2. Charge(handler[h], w) = 0
  BY <1>1, NothingHeld
<1>3. handler' = [handler EXCEPT ![h] = Idle] /\ Charge(Idle, w) = 0
  BY <1>1, FinishHeld
<1>4. /\ Cardinality(Running(w)) \in Nat /\ Cardinality(Running(w)') \in Nat
      /\ Cardinality(Running(w)') = Cardinality(Running(w))
  <2>1. CASE jobs' = jobs
    BY <2>1, RunningFinite DEF IInv, TypeOK, Running
  <2>2. CASE \E id, worker : RenewLease(id, worker, ok)
    BY <2>2, RenewBalances DEF IInv
  <2>3. QED
    BY <2>1, <2>2 DEF ApplyRenew, vars
<1>5. QED
  BY <1>1, <1>2, <1>3, <1>4, IdleType, ReportSlots

\* A report: the slot of the job that it ends goes on the handler's list; a repeated or
\* refused report changes nothing.
LEMMA ReportStep ==
    ASSUME IInv, SchedulerTypes, NEW h \in Handlers, leaked' = leaked, NEW w \in Workers,
           ApplyComplete(h, TRUE) \/ ApplyFail(h, TRUE)
    PROVE  SlotStep(w)
<1> DEFINE op   == handler[h].op
           done == ReportsLease(op.job, op.worker, op.attempt)
<1>1. /\ handler[h] \in HandlerRecord /\ handler[h].pc = "apply" /\ workers' = workers
      /\ op \in Ops /\ op.name \in {"complete", "fail"} /\ AfterReport(h, TRUE, done)
  BY DEF ApplyComplete, ApplyFail, At, SchedulerTypes, HandlerRecord
<1>2. /\ op.worker \in Workers
      /\ op.name = "complete" => op.report \in Results
      /\ op.name = "fail" => op.report \in Reported
  BY <1>1, OpFields
<1>3. Charge(handler[h], w) = 0
  BY <1>1, NothingHeld
<1>4. CASE done
  <2>1. \/ CompleteLease(op.job, op.worker, op.attempt, op.report, TRUE) /\ op.report \in Results
        \/ FailLease(op.job, op.worker, op.attempt, op.report, TRUE) /\ op.report \in Reported
    BY <1>2, <1>4 DEF ApplyComplete, ApplyFail, CompleteAgain, FailAgain, ReportsLease, HoldsLease
  <2>2. ReleaseThen(h, <<op.worker>>, NoOperation, "idle")
    BY <1>1, <1>4 DEF AfterReport
  <2> HIDE DEF op
  <2>3. /\ Cardinality(Running(w)) \in Nat /\ Cardinality(Running(w)') \in Nat
        /\ Cardinality(Running(w)') + (IF op.worker = w THEN 1 ELSE 0) = Cardinality(Running(w))
    <3> DEFINE id == op.job  worker == op.worker  attempt == op.attempt  report == op.report
               ok == TRUE
    <3>1. \/ report \in Results /\ CompleteLease(id, worker, attempt, report, ok)
          \/ report \in Reported /\ FailLease(id, worker, attempt, report, ok)
      BY <2>1
    <3>2. TypeOK
      BY DEF IInv
    <3> HIDE DEF id, worker, attempt, report, ok, done
    <3>3. /\ Cardinality(Running(w)) \in Nat /\ Cardinality(Running(w)') \in Nat
          /\ Cardinality(Running(w)') + (IF worker = w THEN 1 ELSE 0) = Cardinality(Running(w))
      BY <3>1, <3>2, ReportBalances
    <3>4. QED
      BY <3>3 DEF worker
  <2>4. PICK q \in HandlerRecord :
            /\ handler' = [handler EXCEPT ![h] = q]
            /\ \A v : Charge(q, v) = IF op.worker = v THEN 1 ELSE 0
    BY <1>2, <2>2, LastSlot DEF SchedulerTypes
  <2>5. Cardinality(Running(w)) + Charge(handler[h], w) = Cardinality(Running(w)') + Charge(q, w)
    BY <1>3, <2>3, <2>4
  <2>6. QED
    BY <1>1, <2>3, <2>4, <2>5, ReportSlots
<1>5. CASE ~done
  <2>1. jobs' = jobs
    BY <1>5 DEF ApplyComplete, ApplyFail, CompleteLease, FailLease, CompleteAgain, FailAgain,
                registryVars, vars
  <2>2. Cardinality(Running(w)) \in Nat /\ Running(w)' = Running(w)
    BY <2>1, RunningFinite DEF IInv, TypeOK, Running
  <2>3. handler' = [handler EXCEPT ![h] = Idle] /\ Charge(Idle, w) = 0
    BY <1>1, <1>5, FinishHeld DEF AfterReport
  <2>4. QED
    BY <1>1, <1>3, <2>2, <2>3, IdleType, ReportSlots
<1>6. QED
  BY <1>4, <1>5

\* A cancellation: the slot of a running job goes on the handler's list.
LEMMA CancelStep ==
    ASSUME IInv, SchedulerTypes, NEW h \in Handlers, NEW id, CancelRequest(h, id, TRUE),
           leaked' = leaked, NEW w \in Workers
    PROVE  SlotStep(w)
<1>1. handler[h] \in HandlerRecord /\ handler[h].pc = "idle" /\ workers' = workers
  BY DEF CancelRequest, At, SchedulerTypes
<1>2. Charge(handler[h], w) = 0
  BY <1>1, NothingHeld
<1>3. CASE Cancel(id, TRUE)
  <2> DEFINE leased == jobs[id].lease # None
             worker == jobs[id].lease.worker_id
  <2>1. /\ Cardinality(Running(w)) \in Nat /\ Cardinality(Running(w)') \in Nat
        /\ leased => worker \in Workers
        /\ Cardinality(Running(w)') + (IF leased /\ worker = w THEN 1 ELSE 0)
             = Cardinality(Running(w))
    BY <1>3, CancelBalances DEF IInv
  <2>2. IF leased THEN ReleaseThen(h, <<worker>>, NoOperation, "idle") ELSE Finish(h)
    <3>1. ~CancelAgain(id)
      BY <1>3 DEF Cancel, CanCancel, CancelAgain, Terminal
    <3>2. QED
      BY <3>1 DEF CancelRequest
  <2> HIDE DEF leased, worker
  <2>3. \E q \in HandlerRecord : /\ handler' = [handler EXCEPT ![h] = q]
                                 /\ Charge(q, w) = IF leased /\ worker = w THEN 1 ELSE 0
    <3>1. CASE leased
      BY <2>1, <2>2, <3>1, LastSlot DEF SchedulerTypes
    <3>2. CASE ~leased
      BY <2>2, <3>2, FinishHeld, IdleType
    <3>3. QED
      BY <3>1, <3>2
  <2>4. PICK q \in HandlerRecord : /\ handler' = [handler EXCEPT ![h] = q]
                                   /\ Charge(q, w) = IF leased /\ worker = w THEN 1 ELSE 0
    BY <2>3
  <2>5. Cardinality(Running(w)) + Charge(handler[h], w) = Cardinality(Running(w)') + Charge(q, w)
    BY <1>2, <2>1, <2>4
  <2>6. QED
    BY <1>1, <2>1, <2>4, <2>5, ReportSlots
<1>4. CASE CancelAgain(id) /\ Finish(h)
  <2>1. jobs' = jobs
    BY <1>4 DEF CancelAgain, registryVars
  <2>2. Cardinality(Running(w)) \in Nat /\ Running(w)' = Running(w)
    BY <2>1, RunningFinite DEF IInv, TypeOK, Running
  <2>3. handler' = [handler EXCEPT ![h] = Idle] /\ Charge(Idle, w) = 0
    BY <1>4, FinishHeld
  <2>4. QED
    BY <1>1, <1>2, <2>2, <2>3, IdleType, ReportSlots
<1>5. QED
  BY <1>3, <1>4 DEF CancelRequest

\* A dropped handler leaks exactly the slots that it held.
LEMMA DisconnectStep ==
    ASSUME IInv, SchedulerTypes, NEW h \in Handlers, Disconnect(h), NEW w \in Workers
    PROVE  SlotStep(w) /\ leaked' \in [Workers -> Nat]
<1> DEFINE old == handler[h]
<1>1. /\ old \in HandlerRecord /\ Finish(h) /\ workers' = workers /\ jobs' = jobs
      /\ leaked' = [v \in Workers |-> leaked[v] + Cardinality(HeldBy(h, v))]
  BY DEF Disconnect, SchedulerTypes, vars
<1>2. handler' = [handler EXCEPT ![h] = Idle] /\ Charge(Idle, w) = 0
  BY <1>1, FinishHeld
<1>3. \A v : Cardinality(HeldBy(h, v)) = Charge(old, v)
  <2>1. TAKE v
  <2>2. old.releases \in Seq(Workers) /\ (old.pc = "claim" => old.releases = <<>>)
    BY <1>1 DEF HandlerRecord
  <2>3. Cardinality(Owed(old, v)) \in Nat
    BY <2>2, OwedFinite
  <2>4. CASE ClaimsFor(old, v)
    <3>1. HeldBy(h, v) = {0}
      BY <2>2, <2>4 DEF HeldBy, At, ClaimsFor
    <3>2. Charge(old, v) = 1
      BY <1>1, <2>4, ClaimHeld DEF ClaimsFor
    <3>3. QED
      BY <3>1, <3>2, FS_Singleton
  <2>5. CASE ~ClaimsFor(old, v)
    <3>1. HeldBy(h, v) = Owed(old, v)
      BY <2>5 DEF HeldBy, At, ClaimsFor, Owed
    <3>2. QED
      BY <2>3, <2>5, <3>1 DEF Charge
  <2>6. QED
    BY <2>4, <2>5
<1>4. \A v \in Workers : leaked[v] \in Nat /\ leaked'[v] = leaked[v] + Charge(old, v)
  BY <1>1, <1>3 DEF SchedulerTypes
<1>5. \A v : /\ Charge(old, v) \in Nat /\ handler' \in [Handlers -> HandlerRecord]
             /\ Cardinality(Claiming(v)) \in Nat /\ Cardinality(Claiming(v)') \in Nat
             /\ Cardinality(Releasing(v)) \in Nat /\ Cardinality(Releasing(v)') \in Nat
             /\ Held(v)' + Charge(old, v) = Held(v) + Charge(Idle, v)
  BY <1>2, IdleType, OneHandler DEF SchedulerTypes
<1>6. leaked' \in [Workers -> Nat]
  <2> HIDE DEF old
  <2> QED
    BY <1>1, <1>3, <1>4, <1>5
<1>7. Cardinality(Running(w)) \in Nat /\ Running(w)' = Running(w)
  BY <1>1, RunningFinite DEF IInv, TypeOK, Running
<1>8. Used(w) = Cardinality(Running(w)) + Held(w) + leaked[w]
  BY <1>4, <1>5, <1>7 DEF Used, SlotsInUse, Held
<1>9. Used(w)' = Cardinality(Running(w)') + Held(w)' + leaked'[w]
  <2>1. leaked'[w] \in Nat
    BY <1>6
  <2>2. QED
    BY <1>5, <1>7, <2>1 DEF Used, SlotsInUse, Held
<1>10. Held(w) \in Nat /\ Held(w)' \in Nat
  BY <1>5 DEF Held
<1>11. Used(w)' = Used(w)
  <2> HIDE DEF old
  <2> QED
    BY <1>2, <1>4, <1>5, <1>7, <1>8, <1>9, <1>10
<1>12. InFlight(w)' = InFlight(w)
  BY <1>1 DEF InFlight
<1>13. QED
  BY <1>6, <1>11, <1>12 DEF SlotStep

\* Every step of a handler but a release, when transactions do not fail.
LEMMA OtherSteps ==
    ASSUME MaxBehind = 0, IInv, SchedulerTypes, NEW h \in Handlers, HandlerStep(h), ~Release(h),
           leaked' = leaked, NEW w \in Workers
    PROVE  SlotStep(w)
<1>1. Outcomes = {TRUE}
  BY DEF IInv, TypeOK, Outcomes
<1>2. ASSUME NEW op \in Reports, ReportRequest(h, op) PROVE SlotStep(w)
  BY <1>2, RequestStep
<1>3. CASE AcquireSlot(h)
  BY <1>3, AcquireStep
<1>4. CASE LeaseRecovery(h, TRUE) \/ (\E worker \in Workers : ClaimRequest(h, worker, TRUE))
           \/ ReportSweep(h, TRUE)
  <2> DEFINE ok == TRUE
  <2>1. LeaseRecovery(h, ok) \/ (\E worker \in Workers : ClaimRequest(h, worker, ok))
        \/ ReportSweep(h, ok)
    BY <1>4
  <2> HIDE DEF ok
  <2>2. QED
    BY <2>1, SweepingSteps
<1>5. ASSUME NEW id \in JobIds, CancelRequest(h, id, TRUE) PROVE SlotStep(w)
  BY <1>5, CancelStep
<1>6. CASE ClaimNext(h, TRUE)
  BY <1>6, ClaimStep
<1>7. CASE ApplyRenew(h, TRUE)
  BY <1>7, RenewStep
<1>8. CASE ApplyComplete(h, TRUE) \/ ApplyFail(h, TRUE)
  BY <1>8, ReportStep
<1>9. QED
  BY <1>1, <1>2, <1>3, <1>4, <1>5, <1>6, <1>7, <1>8 DEF HandlerStep

\* A handler that is about to give back a slot does only that; every other step changes the
\* work and the count together.
LEMMA HandlerSteps ==
    ASSUME MaxBehind = 0, IInv, SchedulerTypes, NEW h \in Handlers, HandlerStep(h),
           leaked' = leaked, NEW w \in Workers
    PROVE  IF NextReleased(h, w) THEN SlotFreed(w) ELSE SlotStep(w)
<1>1. CASE Release(h)
  BY <1>1, ReleaseStep
<1>2. CASE ~Release(h)
  <2>1. ~At(h, "release")
    BY <1>2 DEF HandlerStep, ReportRequest, AcquireSlot, LeaseRecovery, ClaimRequest,
                CancelRequest, ReportSweep, ClaimNext, ApplyRenew, ApplyComplete, ApplyFail, At
  <2>2. SlotStep(w)
    BY <1>2, OtherSteps
  <2>3. QED
    BY <2>1, <2>2 DEF NextReleased
<1>3. QED
  BY <1>1, <1>2

\* After a restart no worker is registered and no handler runs; the leases that were reloaded
\* are all the work there is.
LEMMA RestartSlots ==
    ASSUME IInv, SchedulerRestart
    PROVE  /\ SchedulerTypes'
           /\ \A w \in Workers : InFlight(w)' = 0 /\ reloaded'[w] = Used(w)'
<1>1. /\ workers' = [w \in {} |-> 0] /\ handler' = [h \in Handlers |-> Idle]
      /\ leaked' = [w \in Workers |-> 0]
      /\ reloaded' = [w \in Workers |-> Cardinality(Running(w)')]
  BY DEF SchedulerRestart
<1>2. WorkersOK'
  BY <1>1 DEF WorkersOK
<1>3. handler' \in [Handlers -> HandlerRecord]
  BY <1>1, IdleType
<1>4. JobTable(jobs')
  BY TypeRestart DEF SchedulerRestart, IInv, TypeOK, JobTable
<1>5. ASSUME NEW w \in Workers PROVE Cardinality(Running(w)') \in Nat
  <2>1. Running(w)' \in SUBSET JobIds
    BY <1>4 DEF Running, JobTable
  <2>2. QED
    BY <2>1, JobIdsFinite, FS_Subset, FS_CardinalityType
<1>6. \A h \in Handlers : handler'[h].pc = "idle" /\ handler'[h].releases = <<>>
  BY <1>1 DEF Idle
<1>7. SchedulerTypes'
  <2>1. leaked' \in [Workers -> Nat] /\ reloaded' \in [Workers -> Nat]
    BY <1>1, <1>5
  <2>2. QED
    BY <1>2, <1>3, <2>1 DEF SchedulerTypes
<1> SUFFICES ASSUME NEW w \in Workers
             PROVE  InFlight(w)' = 0 /\ reloaded'[w] = Used(w)'
  BY <1>7
<1>8. InFlight(w)' = 0
  BY <1>1 DEF InFlight
<1>9. Claiming(w)' = {}
  BY <1>6 DEF Claiming, At
<1>10. Releasing(w)' = {}
  <2>1. \A h \in Handlers : {k \in DOMAIN handler'[h].releases : handler'[h].releases[k] = w} = {}
    BY <1>6
  <2>2. QED
    BY <2>1 DEF Releasing
<1>11. leaked'[w] = 0 /\ reloaded'[w] = Cardinality(Running(w)')
  BY <1>1
<1>12. Used(w)' = Cardinality(Running(w)')
  BY <1>5, <1>9, <1>10, <1>11, FS_EmptySet DEF Used, SlotsInUse
<1>13. QED
  BY <1>8, <1>11, <1>12

\* A step of a handler keeps the types of the handlers.
LEMMA HandlerMoves ==
    ASSUME IInv, SchedulerTypes, NEW h \in Handlers, HandlerStep(h)
    PROVE  \E q \in HandlerRecord : handler' = [handler EXCEPT ![h] = q]
<1> DEFINE Goal == \E q \in HandlerRecord : handler' = [handler EXCEPT ![h] = q]
<1> SUFFICES Goal
  OBVIOUS
<1>1. handler[h] \in HandlerRecord /\ handler[h].op \in Ops
      /\ handler[h].releases \in Seq(Workers) /\ handler \in [Handlers -> HandlerRecord]
  BY DEF SchedulerTypes, HandlerRecord
<1>2. ASSUME NEW released \in Seq(Workers), NEW op \in Ops, NEW next \in {"idle", "acquire", "apply"},
             next = "acquire" => op.name = "claim", ReleaseThen(h, released, op, next)
      PROVE  Goal
  BY <1>1, <1>2, ListHeld
<1>3. CASE Finish(h)
  BY <1>3, IdleType DEF Finish
<1>4. ASSUME NEW worker \in Workers, ReleaseThen(h, <<worker>>, NoOperation, "idle") PROVE Goal
  <2>1. <<worker>> \in Seq(Workers)
    OBVIOUS
  <2>2. QED
    BY <1>2, <1>4, <2>1, IdleType
<1>5. ASSUME NEW op \in Ops, NEW ok, SweepExpiredLeases(h, op, ok) PROVE Goal
  <2>1. JobTable(jobs) /\ LeasesConsistentIn(jobs) /\ now \in Nat /\ jobs' = SweptJobs(jobs)
    BY <1>5 DEF IInv, TypeOK, LeaseConsistent, SweepExpiredLeases, RequeueExpiredLeases
  <2>2. ReleasedWorkers \in Seq(Workers)
    BY <2>1, SweepBalances
  <2>3. QED
    BY <1>2, <1>5, <2>2, AfterSweepType DEF SweepExpiredLeases
<1>6. ASSUME NEW op \in Reports, ReportRequest(h, op) PROVE Goal
  BY <1>6, ReportBegins
<1>7. CASE Release(h)
  <2>1. handler[h].releases # <<>>
    BY <1>1, <1>7 DEF Release, At, HandlerRecord
  <2>2. Tail(handler[h].releases) \in Seq(Workers)
    BY <1>1, <2>1, HeadTailProperties
  <2>3. QED
    BY <1>1, <1>2, <1>7, <2>2, AfterSweepType DEF Release
<1>8. CASE AcquireSlot(h)
  <2>1. CASE CanAcquire(handler[h].op.worker)
    BY <1>8, <2>1, SlotAcquired
  <2>2. CASE ~CanAcquire(handler[h].op.worker)
    BY <1>3, <1>8, <2>2 DEF AcquireSlot
  <2>3. QED
    BY <2>1, <2>2
<1>9. ASSUME NEW ok, LeaseRecovery(h, ok) \/ (\E worker \in Workers : ClaimRequest(h, worker, ok))
                     \/ ReportSweep(h, ok)
      PROVE  Goal
  BY <1>1, <1>5, <1>9 DEF LeaseRecovery, ClaimRequest, ReportSweep, Ops
<1>10. ASSUME NEW ok, NEW id \in JobIds, CancelRequest(h, id, ok) PROVE Goal
  <2>1. ASSUME Cancel(id, ok), jobs[id].lease # None PROVE jobs[id].lease.worker_id \in Workers
    <3>1. id \in DOMAIN jobs /\ jobs[id] \in JobRecord
      BY <2>1 DEF IInv, TypeOK, JobTable, Cancel, CanCancel
    <3>2. QED
      BY <2>1, <3>1 DEF JobRecord, JobLease
  <2>2. QED
    BY <1>3, <1>4, <1>10, <2>1 DEF CancelRequest
<1>11. ASSUME NEW ok, ClaimNext(h, ok) PROVE Goal
  <2>1. handler[h].op.worker \in Workers
    BY <1>1, <1>11, OpFields DEF ClaimNext, At, HandlerRecord
  <2>2. QED
    BY <1>3, <1>4, <1>11, <2>1 DEF ClaimNext
<1>12. ASSUME NEW ok, ApplyRenew(h, ok) PROVE Goal
  BY <1>3, <1>12 DEF ApplyRenew
<1>13. ASSUME NEW ok, ApplyComplete(h, ok) \/ ApplyFail(h, ok) PROVE Goal
  <2>1. handler[h].op.worker \in Workers
    BY <1>1, <1>13, OpFields DEF ApplyComplete, ApplyFail
  <2>2. QED
    BY <1>3, <1>4, <1>13, <2>1 DEF ApplyComplete, ApplyFail, AfterReport
<1>14. QED
  <2> HIDE DEF Goal
  <2> QED
    BY <1>6, <1>7, <1>8, <1>9, <1>10, <1>11, <1>12, <1>13 DEF HandlerStep

\* Only try_acquire_slot takes a slot, and it takes one of a worker that can take a job.
LEMMA WorkersMove ==
    ASSUME SchedulerTypes, [SchedulerNext]_schedulerVars
    PROVE  /\ WorkersOK'
           /\ \A w : \/ InFlight(w)' <= InFlight(w)
                     \/ CanAcquire(w) /\ InFlight(w)' = InFlight(w) + 1
<1> DEFINE Goal == /\ WorkersOK'
                   /\ \A w : \/ InFlight(w)' <= InFlight(w)
                             \/ CanAcquire(w) /\ InFlight(w)' = InFlight(w) + 1
<1> SUFFICES Goal
  OBVIOUS
<1>1. WorkersOK /\ \A w : InFlight(w) \in Nat
  BY InFlightType DEF SchedulerTypes
<1>2. CASE workers' = workers
  BY <1>1, <1>2 DEF InFlight, WorkersOK
<1>3. ASSUME NEW x, ReleaseSlot(x) PROVE Goal
  BY <1>1, <1>3, ReleaseGives
<1>4. ASSUME NEW x, TryAcquireSlot(x) PROVE Goal
  <2>1. WorkersOK' /\ \A w : InFlight(w)' = InFlight(w) + IF x = w THEN 1 ELSE 0
    BY <1>1, <1>4, AcquireTakes
  <2>2. CanAcquire(x)
    BY <1>4 DEF TryAcquireSlot
  <2>3. QED
    BY <1>1, <2>1, <2>2
<1>5. CASE WorkerRegistryNext
  BY <1>1, <1>5, RegistrationKeepsSlots
<1>6. CASE SchedulerRestart
  BY <1>1, <1>6 DEF SchedulerRestart, InFlight, WorkersOK
<1>7. ASSUME NEW h \in Handlers, HandlerNext(h) PROVE Goal
  <2>1. CASE Release(h)
    BY <1>3, <2>1 DEF Release
  <2>2. CASE AcquireSlot(h)
    BY <1>2, <1>4, <2>2 DEF AcquireSlot
  <2>3. CASE ~Release(h) /\ ~AcquireSlot(h)
    <3>1. workers' = workers
      BY <1>7, <2>3 DEF HandlerNext, HandlerStep, Disconnect, ReportRequest, LeaseRecovery,
            ClaimRequest, ReportSweep, SweepExpiredLeases, CancelRequest, ClaimNext, ApplyRenew,
            ApplyComplete, ApplyFail
    <3>2. QED
      BY <1>2, <3>1
  <2>4. QED
    BY <2>1, <2>2, <2>3
<1>8. QED
  <2> HIDE DEF Goal
  <2>1. CASE RegistryOnlyNext \/ UNCHANGED schedulerVars
    BY <1>2, <2>1 DEF RegistryOnlyNext, schedulerVars
  <2>2. QED
    BY <1>5, <1>6, <1>7, <2>1 DEF SchedulerNext

--------------------------------------------------------------------------------
(* The registry under the scheduler *)

\* Every step of the scheduler is a step of the job registry, or leaves it alone.
LEMMA RegistryActs ==
    ASSUME SchedulerTypes, [SchedulerNext]_schedulerVars
    PROVE  [Step]_vars
<1>1. CASE UNCHANGED vars
  BY <1>1
<1>2. CASE RegistryOnlyNext
  BY <1>2 DEF RegistryOnlyNext, Step, Next, CallerNext, MaintenanceNext
<1>3. CASE SchedulerRestart
  BY <1>3 DEF SchedulerRestart, Step, Next
<1>4. ASSUME NEW h \in Handlers, HandlerStep(h) PROVE [Step]_vars
  <2> DEFINE old == handler[h]
             op  == old.op
  <2>1. old \in HandlerRecord /\ op \in Ops /\ old.kinds \in SUBSET Kinds
    BY DEF SchedulerTypes, HandlerRecord
  <2>2. ASSUME NEW ok \in Outcomes, RequeueExpiredLeases(ok) PROVE Step
    BY <2>2 DEF Step, Next, MaintenanceNext
  <2>3. ASSUME NEW ok \in Outcomes, NEW id \in JobIds, CancelRequest(h, id, ok) PROVE Step
    BY <2>3 DEF CancelRequest, Step, Next, CallerNext
  <2>4. ASSUME NEW ok \in Outcomes, ClaimNext(h, ok) PROVE [Step]_vars
    <3>1. op.worker \in Workers
      BY <2>1, <2>4, OpFields DEF ClaimNext, At, HandlerRecord
    <3>2. Claim(op.worker, old.kinds, ok) \/ UNCHANGED vars
      BY <2>4 DEF ClaimNext
    <3> HIDE DEF op, old
    <3>3. QED
      BY <2>1, <3>1, <3>2 DEF Step, AnyClaim
  <2>5. ASSUME NEW ok \in Outcomes, ApplyRenew(h, ok) \/ ApplyComplete(h, ok) \/ ApplyFail(h, ok)
        PROVE  [Step]_vars
    <3> DEFINE id == op.job  worker == op.worker  attempt == op.attempt  report == op.report
    <3>1. op.name \in {"renew", "complete", "fail"}
      BY <2>5 DEF ApplyRenew, ApplyComplete, ApplyFail
    <3>2. /\ worker \in Workers /\ id \in JobIds
          /\ op.name \in {"complete", "fail"} => attempt \in ReportedAttempts
          /\ op.name = "complete" => report \in Results
          /\ op.name = "fail" => report \in Reported
      BY <2>1, <3>1, OpFields
    <3>3. CASE ApplyRenew(h, ok)
      <4>1. RenewLease(id, worker, ok) \/ UNCHANGED vars
        BY <3>3 DEF ApplyRenew
      <4> HIDE DEF id, worker
      <4>2. QED
        BY <3>2, <4>1 DEF Step, Next, WorkerNext
    <3>4. CASE ApplyComplete(h, ok)
      <4>1. /\ attempt \in ReportedAttempts /\ report \in Results
            /\ \/ CompleteLease(id, worker, attempt, report, ok)
               \/ CompleteAgain(id, worker, attempt, report)
               \/ UNCHANGED vars
        BY <3>2, <3>4 DEF ApplyComplete
      <4> HIDE DEF id, worker, attempt, report
      <4>2. QED
        BY <3>2, <4>1 DEF Step, Next, WorkerNext
    <3>5. CASE ApplyFail(h, ok)
      <4>1. /\ attempt \in ReportedAttempts /\ report \in Reported
            /\ \/ FailLease(id, worker, attempt, report, ok)
               \/ FailAgain(id, worker, attempt, report)
               \/ UNCHANGED vars
        BY <3>2, <3>5 DEF ApplyFail
      <4> HIDE DEF id, worker, attempt, report
      <4>2. QED
        BY <3>2, <4>1 DEF Step, Next, WorkerNext
    <3>6. QED
      BY <2>5, <3>3, <3>4, <3>5
  <2>6. QED
    <3>1. CASE \E ok \in Outcomes : \/ LeaseRecovery(h, ok) \/ ReportSweep(h, ok)
                                    \/ \E worker \in Workers : ClaimRequest(h, worker, ok)
      BY <2>2, <3>1 DEF LeaseRecovery, ReportSweep, ClaimRequest, SweepExpiredLeases
    <3>2. CASE (\E o \in Reports : ReportRequest(h, o)) \/ Release(h) \/ AcquireSlot(h)
      BY <3>2 DEF ReportRequest, Release, AcquireSlot
    <3>3. QED
      BY <1>4, <2>3, <2>4, <2>5, <3>1, <3>2 DEF HandlerStep
<1>5. QED
  <2>1. CASE \E h \in Handlers : HandlerNext(h)
    BY <1>1, <1>4, <2>1 DEF HandlerNext, Disconnect
  <2>2. CASE WorkerRegistryNext \/ UNCHANGED schedulerVars
    BY <1>1, <2>2 DEF WorkerRegistryNext, schedulerVars
  <2>3. QED
    BY <1>2, <1>3, <2>1, <2>2 DEF SchedulerNext

\* The types of the scheduler's own state are kept.
LEMMA SchedulerTypesKept ==
    ASSUME IInv, SchedulerTypes, [SchedulerNext]_schedulerVars
    PROVE  SchedulerTypes'
<1>1. WorkersOK'
  BY WorkersMove
<1>2. CASE UNCHANGED <<handler, leaked, reloaded>>
  BY <1>1, <1>2 DEF SchedulerTypes
<1>3. CASE SchedulerRestart
  BY <1>3, RestartSlots
<1>4. ASSUME NEW h \in Handlers, HandlerNext(h) PROVE SchedulerTypes'
  <2>1. \E q \in HandlerRecord : handler' = [handler EXCEPT ![h] = q]
    BY <1>4, HandlerMoves, IdleType DEF HandlerNext, Disconnect, Finish
  <2>2. handler' \in [Handlers -> HandlerRecord]
    BY <2>1 DEF SchedulerTypes
  <2>3. CASE leaked' = leaked /\ reloaded' = [v \in Workers |-> StillLost(h, v)]
    <3>1. \A v \in Workers : StillLost(h, v) \in Nat
      BY DEF StillLost, SchedulerTypes
    <3>2. QED
      BY <1>1, <2>2, <2>3, <3>1 DEF SchedulerTypes
  <2>4. CASE Disconnect(h)
    <3>1. leaked' = [v \in Workers |-> leaked[v] + Cardinality(HeldBy(h, v))] /\ reloaded' = reloaded
      BY <2>4 DEF Disconnect
    <3>2. \A v \in Workers : leaked[v] + Cardinality(HeldBy(h, v)) \in Nat
      BY <2>4, DisconnectStep, <3>1
    <3>3. QED
      BY <1>1, <2>2, <3>1, <3>2 DEF SchedulerTypes
  <2>5. QED
    BY <1>4, <2>3, <2>4 DEF HandlerNext
<1>5. QED
  BY <1>2, <1>3, <1>4
  DEF SchedulerNext, WorkerRegistryNext, RegistryOnlyNext, schedulerVars

--------------------------------------------------------------------------------
(* The slots *)

\* The slots and in_flight_jobs of each worker change together; a restart starts again from
\* nothing.
LEMMA SlotsMove ==
    ASSUME MaxBehind = 0, IInv, SchedulerTypes, [SchedulerNext]_schedulerVars, NEW w \in Workers
    PROVE  \/ reloaded'[w] = reloaded[w] /\ SlotStep(w)
           \/ /\ reloaded'[w] = IF InFlight(w) = 0 /\ reloaded[w] > 0
                               THEN reloaded[w] - 1 ELSE reloaded[w]
              /\ SlotFreed(w)
           \/ InFlight(w)' = 0 /\ reloaded'[w] = Used(w)'
<1>1. ASSUME NEW h \in Handlers, HandlerNext(h)
      PROVE  \/ reloaded'[w] = reloaded[w] /\ SlotStep(w)
             \/ /\ reloaded'[w] = IF InFlight(w) = 0 /\ reloaded[w] > 0
                                 THEN reloaded[w] - 1 ELSE reloaded[w]
                /\ SlotFreed(w)
  <2>1. CASE HandlerStep(h) /\ leaked' = leaked /\ reloaded' = [v \in Workers |-> StillLost(h, v)]
    <3>1. IF NextReleased(h, w) THEN SlotFreed(w) ELSE SlotStep(w)
      BY <2>1, HandlerSteps
    <3>2. reloaded'[w] = IF NextReleased(h, w) /\ InFlight(w) = 0 /\ reloaded[w] > 0
                         THEN reloaded[w] - 1 ELSE reloaded[w]
      BY <2>1 DEF StillLost, NextReleased
    <3>3. QED
      BY <3>1, <3>2
  <2>2. CASE Disconnect(h)
    <3>1. reloaded' = reloaded
      BY <2>2 DEF Disconnect
    <3>2. QED
      BY <2>2, <3>1, DisconnectStep
  <2>3. QED
    BY <1>1, <2>1, <2>2 DEF HandlerNext
<1>2. ASSUME UNCHANGED <<handler, leaked, reloaded>>, Running(w)' = Running(w),
             InFlight(w)' = InFlight(w)
      PROVE  reloaded'[w] = reloaded[w] /\ SlotStep(w)
  <2>1. Claiming(w)' = Claiming(w) /\ Releasing(w)' = Releasing(w)
    BY <1>2 DEF Claiming, Releasing, At
  <2>2. Used(w)' = Used(w)
    BY <1>2, <2>1 DEF Used, SlotsInUse
  <2>3. QED
    BY <1>2, <2>2 DEF SlotStep
<1>3. CASE WorkerRegistryNext
  <2>1. InFlight(w)' = InFlight(w)
    BY <1>3, RegistrationKeepsSlots DEF SchedulerTypes
  <2>2. UNCHANGED <<handler, leaked, reloaded>> /\ jobs' = jobs
    BY <1>3 DEF WorkerRegistryNext, vars
  <2>3. Running(w)' = Running(w)
    BY <2>2 DEF Running
  <2>4. QED
    BY <1>2, <2>1, <2>2, <2>3
<1>4. CASE RegistryOnlyNext
  <2>1. UNCHANGED <<workers, handler, leaked, reloaded>>
    BY <1>4 DEF RegistryOnlyNext
  <2>2. InFlight(w)' = InFlight(w)
    BY <2>1 DEF InFlight
  <2>3. Running(w)' = Running(w)
    <3>1. CASE jobs' = jobs
      BY <3>1 DEF Running
    <3>2. ASSUME NEW ok, \/ \E request \in Requests, key \in Keys \cup {None} : Submit(request, key, ok)
                         \/ PruneTerminalJobs(ok)
          PROVE  Running(w)' = Running(w)
      BY <3>2, OtherJobsBalance
    <3>3. QED
      BY <1>4, <3>1, <3>2 DEF RegistryOnlyNext, SubmitAgain, Tick, registryVars
  <2>4. QED
    BY <1>2, <2>1, <2>2, <2>3
<1>5. CASE SchedulerRestart
  BY <1>5, RestartSlots
<1>6. CASE UNCHANGED schedulerVars
  <2>1. UNCHANGED <<jobs, workers, handler, leaked, reloaded>>
    BY <1>6 DEF schedulerVars, vars
  <2>2. Running(w)' = Running(w) /\ InFlight(w)' = InFlight(w)
    BY <2>1 DEF Running, InFlight
  <2>3. QED
    BY <1>2, <2>1, <2>2
<1>7. QED
  BY <1>1, <1>3, <1>4, <1>5, <1>6 DEF SchedulerNext

\* What is in use is a number.
LEMMA UsedIsNumber == TypeOK /\ SchedulerTypes => \A w \in Workers : Used(w) \in Nat
<1> SUFFICES ASSUME TypeOK, SchedulerTypes, NEW w \in Workers PROVE Used(w) \in Nat
  OBVIOUS
<1>1. /\ Cardinality(Running(w)) \in Nat /\ Cardinality(Claiming(w)) \in Nat
      /\ Cardinality(Releasing(w)) \in Nat
  BY PartsAreNumbers DEF TypeOK, SchedulerTypes
<1>2. leaked[w] \in Nat
  BY DEF SchedulerTypes
<1>3. QED
  BY <1>1, <1>2 DEF Used, SlotsInUse

\* The same in the next state.
LEMMA UsedStaysNumber == (TypeOK /\ SchedulerTypes)' => (\A w \in Workers : Used(w) \in Nat)'
BY UsedIsNumber, PTL

\* in_flight_jobs is what is in use, less what a restart lost.
SlotsMatch == \A w \in Workers : InFlight(w) + reloaded[w] = Used(w)

\* The numbers keep matching.
LEMMA SlotsKeepMatching ==
    ASSUME MaxBehind = 0, IInv, SchedulerTypes, SlotsMatch, [SchedulerNext]_schedulerVars
    PROVE  SlotsMatch'
<1> SUFFICES ASSUME NEW w \in Workers
             PROVE  InFlight(w)' + reloaded'[w] = Used(w)'
  BY DEF SlotsMatch
<1>1. InFlight(w) + reloaded[w] = Used(w) /\ InFlight(w) \in Nat /\ reloaded[w] \in Nat
  BY InFlightType DEF SlotsMatch, SchedulerTypes
<1>2. Used(w) \in Nat
  BY UsedIsNumber DEF IInv
<1>3. Used(w)' \in Nat
  <2>1. TypeOK' /\ SchedulerTypes'
    BY RegistryActs, TypeStep, SchedulerTypesKept DEF IInv
  <2>2. QED
    BY <2>1, UsedStaysNumber
<1>4. InFlight(w)' \in Nat
  BY WorkersMove DEF InFlight, WorkersOK, WorkerRecord
<1>5. CASE reloaded'[w] = reloaded[w] /\ SlotStep(w)
  BY <1>1, <1>2, <1>3, <1>4, <1>5 DEF SlotStep
<1>6. CASE /\ reloaded'[w] = IF InFlight(w) = 0 /\ reloaded[w] > 0
                            THEN reloaded[w] - 1 ELSE reloaded[w]
           /\ SlotFreed(w)
  BY <1>1, <1>2, <1>3, <1>4, <1>6 DEF SlotFreed
<1>7. CASE InFlight(w)' = 0 /\ reloaded'[w] = Used(w)'
  BY <1>3, <1>7
<1>8. QED
  BY <1>5, <1>6, <1>7, SlotsMove

--------------------------------------------------------------------------------
(* Theorems *)

\* At the start nothing is registered, nothing runs and nothing is in use.
LEMMA SchedulerStarts == SchedulerInit => IInv /\ SchedulerTypes /\ SlotsMatch
<1> SUFFICES ASSUME SchedulerInit PROVE IInv /\ SchedulerTypes /\ SlotsMatch
  OBVIOUS
<1>1. IInv
  BY InvariantInit DEF SchedulerInit
<1>2. /\ workers = [w \in {} |-> 0] /\ handler = [h \in Handlers |-> Idle]
      /\ leaked = [w \in Workers |-> 0] /\ reloaded = [w \in Workers |-> 0]
      /\ jobs = NoJobs
  BY DEF SchedulerInit, InitWorkers, Init
<1>3. SchedulerTypes
  BY <1>2, IdleType DEF SchedulerTypes, WorkersOK
<1>4. SlotsMatch
  <2> SUFFICES ASSUME NEW w \in Workers PROVE InFlight(w) = 0 /\ Used(w) = 0
    BY <1>2 DEF SlotsMatch
  <2>1. InFlight(w) = 0
    BY <1>2 DEF InFlight
  <2>2. \A h \in Handlers : handler[h].pc = "idle" /\ handler[h].releases = <<>>
    BY <1>2 DEF Idle
  <2>3. Claiming(w) = {} /\ Running(w) = {}
    BY <1>2, <2>2 DEF Claiming, At, Running, NoJobs
  <2>4. Releasing(w) = {}
    <3>1. \A h \in Handlers : {k \in DOMAIN handler[h].releases : handler[h].releases[k] = w} = {}
      BY <2>2
    <3>2. QED
      BY <3>1 DEF Releasing
  <2>5. leaked[w] = 0
    BY <1>2
  <2>6. QED
    BY <2>1, <2>3, <2>4, <2>5, FS_EmptySet DEF Used, SlotsInUse
<1>5. QED
  BY <1>1, <1>3, <1>4

\* The job registry's invariant holds under the scheduler, whose handlers interleave between
\* the locks, are dropped at any step, claim for any kinds, and whose transactions may fail.
THEOREM RegistryUnderScheduling == SchedulerSpec => [](IInv /\ SchedulerTypes)
<1>1. SchedulerInit => IInv /\ SchedulerTypes
  BY SchedulerStarts
<1>2. IInv /\ SchedulerTypes /\ [SchedulerNext]_schedulerVars => (IInv /\ SchedulerTypes)'
  BY RegistryActs, InvariantKept, SchedulerTypesKept
<1>3. QED
  BY <1>1, <1>2, PTL DEF SchedulerSpec

\* The handlers and loops of the scheduler are a driver of the registry.
LEMMA SchedulerIsDriver == SchedulerSpec => AnyDriver
<1>1. SchedulerInit => Init
  BY DEF SchedulerInit
<1>2. SchedulerTypes /\ [SchedulerNext]_schedulerVars => [Step]_vars
  BY RegistryActs
<1>3. QED
  BY <1>1, <1>2, RegistryUnderScheduling, PTL DEF SchedulerSpec, AnyDriver

\* Handlers that interleave between the locks and are dropped at any step move a job only
\* along its life cycle.
THEOREM SchedulerImplementsLifecycle == SchedulerSpec => ImplementsLifecycle
BY SchedulerIsDriver, DriversImplementLifecycle

\* What the endpoints answered stays true and no attempt number is handed to two workers,
\* whatever handlers interleave, transactions fail and the process restarts.
THEOREM SchedulerKeepsAnswers ==
    SchedulerSpec => [](AcknowledgedKept /\ AttemptsNotForgotten /\ StoreFaithful)
BY SchedulerIsDriver, DurableInvariant, DurableImplies, PTL

\* Workers that claim for the kinds they registered take the first job of each kind, also
\* when several claims, sweeps and reports interleave.
THEOREM SchedulerClaimsInOrder == SchedulerSpec => ClaimsInOrder
BY SchedulerIsDriver, DriversClaimInOrder

\* No interleaving of handlers makes waiting jobs change places or a finished job change.
THEOREM SchedulerKeepsOrder == SchedulerSpec => QueueOrderKept /\ TerminalFinal
BY SchedulerIsDriver, DriversKeepOrder, DriversKeepFinished

\* Without failed transactions in_flight_jobs matches the work at every step of every handler.
LEMMA SlotsAlwaysMatch ==
    ASSUME MaxBehind = 0
    PROVE  SchedulerSpec => [](IInv /\ SchedulerTypes /\ SlotsMatch)
<1>1. IInv /\ SchedulerTypes /\ SlotsMatch /\ [SchedulerNext]_schedulerVars
        => (IInv /\ SchedulerTypes /\ SlotsMatch)'
  <2> SUFFICES ASSUME IInv, SchedulerTypes, SlotsMatch, [SchedulerNext]_schedulerVars
               PROVE  IInv' /\ SchedulerTypes' /\ SlotsMatch'
    OBVIOUS
  <2> QED
    BY RegistryActs, InvariantKept, SchedulerTypesKept, SlotsKeepMatching
<1>2. QED
  BY <1>1, SchedulerStarts, PTL DEF SchedulerSpec

\* For any number of workers, handlers and jobs: every lease, every slot taken for a claim,
\* every release still to come and every slot of a dropped handler is counted in
\* in_flight_jobs or was lost by a restart, as long as no transaction fails: a claim whose transaction fails gives the
\* slot back although its job is leased in memory, and a sweep or report whose transaction
\* fails keeps the slot of a job that is over, which run scheduler_store_failure shows.
THEOREM EveryLeaseHasItsSlot ==
    ASSUME MaxBehind = 0
    PROVE  SchedulerSpec => []SlotsCoverWork
<1>1. IInv /\ SchedulerTypes /\ SlotsMatch => SlotsCoverWork
  <2> SUFFICES ASSUME IInv, SchedulerTypes, SlotsMatch, NEW w \in Workers
               PROVE  InFlight(w) + reloaded[w] >= Used(w)
    BY DEF SlotsCoverWork, Used
  <2>1. Used(w) \in Nat
    BY UsedIsNumber DEF IInv
  <2>2. QED
    BY <2>1 DEF SlotsMatch
<1>2. QED
  BY <1>1, SlotsAlwaysMatch, PTL

\* And in_flight_jobs counts nothing else: no slot stays taken for work that is over.
THEOREM NoSlotIsLost ==
    ASSUME MaxBehind = 0
    PROVE  SchedulerSpec => []NoPhantomSlots
<1>1. IInv /\ SchedulerTypes /\ SlotsMatch => NoPhantomSlots
  <2> SUFFICES ASSUME IInv, SchedulerTypes, SlotsMatch, NEW w \in Workers
               PROVE  InFlight(w) + reloaded[w] <= Used(w)
    BY DEF NoPhantomSlots, Used
  <2>1. Used(w) \in Nat
    BY UsedIsNumber DEF IInv
  <2>2. QED
    BY <2>1 DEF SlotsMatch
<1>2. QED
  BY <1>1, SlotsAlwaysMatch, PTL

\* Every registration declares the same max_concurrent_jobs, so that none lowers it.
OneLimit == \A p, q \in Profiles : p.max_concurrent_jobs = q.max_concurrent_jobs

\* The slots taken of a worker are within what any registration may declare.
WithinLimit ==
    \A w \in Workers : \A p \in Profiles :
        p.max_concurrent_jobs # Unlimited => InFlight(w) <= p.max_concurrent_jobs

\* try_acquire_slot is the only step that takes one, and it looks at the limit.
LEMMA LimitKept ==
    ASSUME OneLimit, SchedulerTypes, WithinLimit, [SchedulerNext]_schedulerVars
    PROVE  WithinLimit'
<1> SUFFICES ASSUME NEW w \in Workers, NEW p \in Profiles, p.max_concurrent_jobs # Unlimited
             PROVE  InFlight(w)' <= p.max_concurrent_jobs
  BY DEF WithinLimit
<1> DEFINE limit == p.max_concurrent_jobs
<1>1. limit \in Nat /\ InFlight(w) <= limit
  BY ProfilesAssumption DEF WithinLimit
<1>2. InFlight(w) \in Nat
  BY InFlightType DEF SchedulerTypes
<1>3. WorkersOK' /\ \/ InFlight(w)' <= InFlight(w)
                    \/ CanAcquire(w) /\ InFlight(w)' = InFlight(w) + 1
  BY WorkersMove
<1>4. InFlight(w)' \in Nat
  BY <1>3 DEF InFlight, WorkersOK, WorkerRecord
<1>5. CASE CanAcquire(w)
  <2>1. w \in DOMAIN workers /\ workers[w] \in WorkerRecord
    BY <1>5 DEF CanAcquire, Reachable, SchedulerTypes, WorkersOK
  <2>2. PICK q \in Profiles : workers[w].max_concurrent_jobs = q.max_concurrent_jobs
    BY <2>1 DEF WorkerRecord
  <2>3. workers[w].max_concurrent_jobs = limit
    BY <2>2 DEF OneLimit
  <2>4. InFlight(w) < limit
    BY <1>5, <2>1, <2>3 DEF CanAcquire, BelowCapacity, InFlight
  <2> HIDE DEF limit
  <2>5. InFlight(w)' <= limit
    BY <1>1, <1>2, <1>3, <1>4, <2>4
  <2>6. QED
    BY <2>5 DEF limit
<1>6. CASE InFlight(w)' <= InFlight(w)
  <2> HIDE DEF limit
  <2>1. InFlight(w)' <= limit
    BY <1>1, <1>2, <1>4, <1>6
  <2>2. QED
    BY <2>1 DEF limit
<1>7. QED
  BY <1>3, <1>5, <1>6

\* try_acquire_slot never takes more slots of a worker than it declares, if it always declares
\* the same number: also when transactions fail, handlers are dropped and Fairlead restarts.
THEOREM NeverOverbooked ==
    ASSUME OneLimit
    PROVE  SchedulerSpec => []WithinLimit
<1>1. SchedulerInit => WithinLimit
  <2> SUFFICES ASSUME SchedulerInit, NEW w \in Workers, NEW p \in Profiles,
                      p.max_concurrent_jobs # Unlimited
               PROVE  InFlight(w) <= p.max_concurrent_jobs
    BY DEF WithinLimit
  <2>1. InFlight(w) = 0
    BY DEF SchedulerInit, InitWorkers, InFlight
  <2>2. p.max_concurrent_jobs \in Nat
    BY ProfilesAssumption
  <2>3. QED
    BY <2>1, <2>2
<1>2. SchedulerTypes /\ WithinLimit /\ [SchedulerNext]_schedulerVars => WithinLimit'
  BY LimitKept
<1>3. QED
  BY <1>1, <1>2, RegistryUnderScheduling, PTL DEF SchedulerSpec

\* A worker never runs more jobs than it declared, whatever the interleaving of claims,
\* reports, sweeps and dropped handlers, when it always declares the same number, beyond the
\* slots that a restart lost.
THEOREM CapacityIsRespected ==
    ASSUME MaxBehind = 0, OneLimit
    PROVE  SchedulerSpec => []CapacityRespected
<1> DEFINE Inv == IInv /\ SchedulerTypes /\ SlotsMatch
<1>1. Inv /\ WithinLimit => CapacityRespected
  <2> SUFFICES ASSUME Inv, WithinLimit, NEW w \in DOMAIN workers,
                      workers[w].max_concurrent_jobs # Unlimited
               PROVE  Cardinality(Running(w)) + leaked[w]
                        <= workers[w].max_concurrent_jobs + reloaded[w]
    BY DEF CapacityRespected
  <2>1. w \in Workers /\ workers[w] \in WorkerRecord
    BY DEF SchedulerTypes, WorkersOK
  <2>2. PICK p \in Profiles : workers[w].max_concurrent_jobs = p.max_concurrent_jobs
    BY <2>1 DEF WorkerRecord
  <2>3. p.max_concurrent_jobs \in Nat
    BY <2>2, ProfilesAssumption
  <2>4. /\ InFlight(w) \in Nat /\ InFlight(w) <= p.max_concurrent_jobs
        /\ reloaded[w] \in Nat /\ InFlight(w) + reloaded[w] = Used(w)
    BY <2>1, <2>2, InFlightType DEF WithinLimit, SchedulerTypes, SlotsMatch
  <2>5. /\ Cardinality(Running(w)) \in Nat /\ Cardinality(Claiming(w)) \in Nat
        /\ Cardinality(Releasing(w)) \in Nat /\ leaked[w] \in Nat
    BY <2>1, PartsAreNumbers DEF IInv, TypeOK, SchedulerTypes
  <2>6. Cardinality(Running(w)) + leaked[w] <= Used(w)
    BY <2>5 DEF Used, SlotsInUse
  <2>7. Cardinality(Running(w)) + leaked[w] <= p.max_concurrent_jobs + reloaded[w]
    BY <2>3, <2>4, <2>5, <2>6
  <2>8. QED
    BY <2>2, <2>7
<1>2. SchedulerSpec => []Inv
  BY SlotsAlwaysMatch
<1>3. QED
  <2> HIDE DEF Inv
  <2> QED
    BY <1>1, <1>2, NeverOverbooked, PTL

================================================================================

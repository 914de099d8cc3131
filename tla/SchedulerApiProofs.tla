--------------------------- MODULE SchedulerApiProofs ---------------------------
(***************************************************************************)
(* Theorems about what the scheduler's endpoints answer, for every value   *)
(* of the constants.                                                       *)
(***************************************************************************)
EXTENDS SchedulerApi, SchedulerProofs

--------------------------------------------------------------------------------
(* The queues as one list *)

\* How many jobs are listed before those of priority p.
Before(p) ==
    IF p = "realtime" THEN 0
    ELSE IF p = "batch" THEN Len(queues["realtime"])
    ELSE Len(queues["realtime"]) + Len(queues["batch"])

\* The queues are lists of job numbers.
LEMMA QueueTypes ==
    ASSUME IInv, NEW p \in Priorities
    PROVE  /\ queues[p] \in Seq(JobIds)
           /\ Len(queues[p]) \in Nat
           /\ DOMAIN queues[p] = 1..Len(queues[p])
<1>1. queues[p] \in Seq(JobIds)
  BY DEF IInv, TypeOK
<1> QED
  BY <1>1, LenProperties

\* List c is s followed by t, seen from the places of their entries.
IsJoined(c, s, t) ==
    /\ Len(c) = Len(s) + Len(t)
    /\ \A i \in DOMAIN s : i \in DOMAIN c /\ c[i] = s[i]
    /\ \A i \in DOMAIN t : Len(s) + i \in DOMAIN c /\ c[Len(s) + i] = t[i]
    /\ \A n \in DOMAIN c : n \in DOMAIN s \/ \E i \in DOMAIN t : n = Len(s) + i

\* One list after another: the entries of the first keep their places, those of the second
\* follow.
LEMMA ConcatPlaces ==
    ASSUME NEW S, NEW s \in Seq(S), NEW t \in Seq(S), NEW c, c = s \o t
    PROVE  c \in Seq(S) /\ IsJoined(c, s, t)
<1>1. /\ c \in Seq(S) /\ Len(c) = Len(s) + Len(t)
      /\ \A i \in 1..Len(s) + Len(t) : c[i] = IF i <= Len(s) THEN s[i] ELSE t[i - Len(s)]
  BY ConcatProperties
<1>2. /\ Len(s) \in Nat /\ DOMAIN s = 1..Len(s)
      /\ Len(t) \in Nat /\ DOMAIN t = 1..Len(t)
  BY LenProperties
<1>3. DOMAIN c = 1..Len(s) + Len(t)
  BY <1>1, LenProperties
<1>4. \A i \in DOMAIN s : i \in DOMAIN c /\ c[i] = s[i]
  BY <1>1, <1>2, <1>3
<1>5. ASSUME NEW i \in DOMAIN t PROVE Len(s) + i \in DOMAIN c /\ c[Len(s) + i] = t[i]
  <2>1. i \in Int /\ i >= 1 /\ i <= Len(t)
    BY <1>2
  <2>2. Len(s) + i \in 1..Len(s) + Len(t) /\ ~(Len(s) + i <= Len(s)) /\ (Len(s) + i) - Len(s) = i
    BY <1>2, <2>1
  <2> QED
    BY <1>1, <1>3, <2>2
<1>6. ASSUME NEW n \in DOMAIN c PROVE n \in DOMAIN s \/ \E i \in DOMAIN t : n = Len(s) + i
  <2>1. n \in Int /\ 1 <= n /\ n <= Len(s) + Len(t)
    BY <1>2, <1>3
  <2>2. CASE n <= Len(s)
    BY <1>2, <2>1, <2>2
  <2>3. CASE ~(n <= Len(s))
    <3>1. n - Len(s) \in DOMAIN t /\ n = Len(s) + (n - Len(s))
      BY <1>2, <2>1, <2>3
    <3> QED
      BY <3>1
  <2> QED
    BY <2>2, <2>3
<1> QED
  BY <1>1, <1>4, <1>5, <1>6 DEF IsJoined

\* queued_jobs_by_priority skips nothing: it is the three queues one after the other.
LEMMA QueuedJobsLists ==
    ASSUME IInv
    PROVE  /\ QueuedJobs \in Seq(JobIds)
           /\ \A p \in Priorities : \A i \in DOMAIN queues[p] :
                  /\ Before(p) + i \in DOMAIN QueuedJobs
                  /\ QueuedJobs[Before(p) + i] = queues[p][i]
           /\ \A n \in DOMAIN QueuedJobs :
                  \E p \in Priorities : \E i \in DOMAIN queues[p] :
                      n = Before(p) + i /\ QueuedJobs[n] = queues[p][i]
<1> DEFINE realtime == queues["realtime"]
           batch == queues["batch"]
           background == queues["background"]
           first == realtime \o batch
           all == first \o background
<1>1. /\ realtime \in Seq(JobIds) /\ batch \in Seq(JobIds) /\ background \in Seq(JobIds)
      /\ Len(realtime) \in Nat /\ Len(batch) \in Nat /\ Len(background) \in Nat
      /\ DOMAIN realtime = 1..Len(realtime) /\ DOMAIN batch = 1..Len(batch)
  BY QueueTypes DEF Priorities
<1>2. first \in Seq(JobIds) /\ IsJoined(first, realtime, batch)
  <2>1. first = realtime \o batch
    OBVIOUS
  <2> HIDE DEF realtime, batch, first
  <2> QED
    BY <1>1, <2>1, ConcatPlaces
<1>3. all \in Seq(JobIds) /\ IsJoined(all, first, background)
  <2>1. all = first \o background
    OBVIOUS
  <2> HIDE DEF first, background, all
  <2> QED
    BY <1>1, <1>2, <2>1, ConcatPlaces
<1>4. QueuedJobs = Picked(all, {i \in DOMAIN all : all[i] \in DOMAIN jobs /\ jobs[all[i]].status = "queued"})
  BY DEF QueuedJobs
<1> HIDE DEF first, all
<1>5. \A p \in Priorities : \A i \in DOMAIN queues[p] :
          Before(p) + i \in DOMAIN all /\ all[Before(p) + i] = queues[p][i]
  <2>1. ASSUME NEW i \in DOMAIN realtime PROVE 0 + i \in DOMAIN all /\ all[0 + i] = realtime[i]
    <3>1. 0 + i = i
      BY <1>1
    <3>2. i \in DOMAIN all /\ all[i] = realtime[i]
      BY <1>2, <1>3 DEF IsJoined
    <3> QED
      BY <3>1, <3>2
  <2>2. ASSUME NEW i \in DOMAIN batch
        PROVE  Len(realtime) + i \in DOMAIN all /\ all[Len(realtime) + i] = batch[i]
    <3> HIDE DEF realtime, batch, background
    <3> QED
      BY <1>2, <1>3 DEF IsJoined
  <2>3. ASSUME NEW i \in DOMAIN background
        PROVE  /\ Len(realtime) + Len(batch) + i \in DOMAIN all
               /\ all[Len(realtime) + Len(batch) + i] = background[i]
    <3> HIDE DEF realtime, batch, background
    <3> QED
      BY <1>2, <1>3 DEF IsJoined
  <2> QED
    BY <2>1, <2>2, <2>3 DEF Priorities, Before
<1> DEFINE Found(n) == \E p \in Priorities : \E i \in DOMAIN queues[p] :
                           n = Before(p) + i /\ all[n] = queues[p][i]
<1>6. ASSUME NEW n \in DOMAIN all PROVE Found(n)
  <2>1. CASE n \in DOMAIN first /\ n \in DOMAIN realtime
    <3>1. n = 0 + n
      BY <1>1, <2>1
    <3> QED
      BY <1>2, <1>3, <2>1, <3>1 DEF Priorities, Before, IsJoined
  <2>2. ASSUME NEW i \in DOMAIN batch, n = Len(realtime) + i PROVE Found(n)
    BY <1>5, <2>2 DEF Priorities, Before
  <2>3. ASSUME NEW i \in DOMAIN background, n = Len(first) + i PROVE Found(n)
    BY <1>2, <1>5, <2>3 DEF Priorities, Before, IsJoined
  <2> QED
    BY <1>2, <1>3, <2>1, <2>2, <2>3 DEF IsJoined
<1>7. QueuedJobs = all
  <2>1. ASSUME NEW n \in DOMAIN all PROVE all[n] \in DOMAIN jobs /\ jobs[all[n]].status = "queued"
    <3>1. \E p \in Priorities : all[n] \in Members(queues[p])
      BY <1>6 DEF Members
    <3> QED
      BY <3>1 DEF IInv, QueueConsistent, QueuesMatch, Waiting
  <2>2. {i \in DOMAIN all : all[i] \in DOMAIN jobs /\ jobs[all[i]].status = "queued"} = DOMAIN all
    BY <2>1
  <2> QED
    BY <1>3, <1>4, <2>2, PickedAll
<1> QED
  BY <1>3, <1>5, <1>6, <1>7

\* Who stands earlier in that list has the better priority, or the earlier place.
LEMMA EarlierIsBetter ==
    ASSUME IInv, NEW p \in Priorities, NEW i \in DOMAIN queues[p],
           NEW q \in Priorities, NEW j \in DOMAIN queues[q],
           Before(p) + i <= Before(q) + j
    PROVE  PriorityRank[p] < PriorityRank[q] \/ (p = q /\ i <= j)
<1>1. /\ \A x \in Priorities : Len(queues[x]) \in Nat
      /\ i \in 1..Len(queues[p]) /\ j \in 1..Len(queues[q])
  BY QueueTypes
<1>2. /\ Len(queues["realtime"]) \in Nat /\ Len(queues["batch"]) \in Nat
      /\ Len(queues["background"]) \in Nat
  BY <1>1 DEF Priorities
<1> DEFINE r == Len(queues["realtime"])
           b == Len(queues["batch"])
<1>3. /\ r \in Nat /\ b \in Nat
      /\ Before("realtime") = 0 /\ Before("batch") = r /\ Before("background") = r + b
      /\ Len(queues["realtime"]) = r /\ Len(queues["batch"]) = b
  BY <1>2 DEF Before
<1> HIDE DEF r, b
<1>4. Before(p) \in Nat /\ Before(q) \in Nat /\ i \in Int /\ j \in Int
  <2>1. i \in Int /\ j \in Int
    BY <1>1
  <2>2. \A x \in Priorities : Before(x) \in Nat
    BY <1>3 DEF Priorities
  <2> QED
    BY <2>1, <2>2
<1>5. CASE p = q
  <2>1. i <= j
    BY <1>4, <1>5
  <2> QED
    BY <1>5, <2>1
<1>6. CASE p # q
  <2>1. \/ PriorityRank[p] < PriorityRank[q]
        \/ p = "background" /\ q = "realtime"
        \/ p = "background" /\ q = "batch"
        \/ p = "batch" /\ q = "realtime"
    BY <1>6 DEF Priorities, PriorityRank
  <2>2. PriorityRank[p] < PriorityRank[q] \/ Before(q) + Len(queues[q]) <= Before(p)
    <3>1. r <= r + b /\ 0 + r <= r + b /\ 0 + r <= r /\ r + b <= r + b
      BY <1>3
    <3> QED
      BY <1>3, <2>1, <3>1
  <2>3. i >= 1 /\ j <= Len(queues[q]) /\ Len(queues[q]) \in Nat
    BY <1>1
  <2> QED
    BY <1>4, <2>2, <2>3
<1> QED
  BY <1>5, <1>6

--------------------------------------------------------------------------------
(* The preview *)

\* The first of a set of places.
LEMMA FirstIsFirst ==
    ASSUME NEW S \in SUBSET Nat, S # {}
    PROVE  First(S) \in S /\ \A j \in S : First(S) <= j
<1>1. \E i \in S : \A j \in S : i <= j
  BY SmallestExists
<1> QED
  BY <1>1 DEF First

\* What claim_next_job_for_worker takes for a worker is a job of which the preview would
\* name the worker as a candidate, if the worker takes jobs at all.
LEMMA ClaimableIsCandidate ==
    ASSUME NEW w, Reachable(w), ~workers[w].draining,
           NEW p, NEW i, Claimable(AllowedKinds(workers[w]), p, i)
    PROVE  Candidate(w, queues[p][i])
BY DEF Claimable, Candidate, CanAcceptWork

\* preview_next_assignment_with_policy and claim_next_job_for_worker agree, whatever the
\* handlers are doing: they read the same queues in the same order.
THEOREM PreviewAgrees == SchedulerSpec => []PreviewIsNextClaim
<1>1. IInv => PreviewIsNextClaim
  <2> SUFFICES ASSUME IInv PROVE PreviewIsNextClaim
    OBVIOUS
  <2> DEFINE matched == {n \in DOMAIN QueuedJobs : \E w \in Workers : Candidate(w, QueuedJobs[n])}
             n0 == First(matched)
             id == QueuedJobs[n0]
             able == {n \in DOMAIN WorkerOrder : Candidate(WorkerOrder[n], id)}
             w0 == WorkerOrder[First(able)]
  <2>1. /\ QueuedJobs \in Seq(JobIds)
        /\ DOMAIN QueuedJobs \in SUBSET Nat
        /\ DOMAIN WorkerOrder \in SUBSET Nat
    <3>1. QueuedJobs \in Seq(JobIds)
      BY QueuedJobsLists
    <3>2. Len(QueuedJobs) \in Nat /\ DOMAIN QueuedJobs = 1..Len(QueuedJobs)
      BY <3>1, LenProperties
    <3>3. Len(WorkerOrder) \in Nat /\ DOMAIN WorkerOrder = 1..Len(WorkerOrder)
      BY WorkerOrderAssumption, LenProperties
    <3> QED
      BY <3>1, <3>2, <3>3
  <2>2. ASSUME NEW w \in Workers, Reachable(w), ~workers[w].draining,
               NEW p \in Priorities, NEW i \in DOMAIN queues[p],
               Claimable(AllowedKinds(workers[w]), p, i)
        PROVE  Before(p) + i \in matched
    BY <2>2, QueuedJobsLists, ClaimableIsCandidate
  <2>3. CASE matched = {}
    <3>1. Preview = None
      BY <2>3 DEF Preview
    <3>2. ASSUME NEW w \in Workers, NEW x \in DOMAIN jobs, NextFor(w, x) PROVE FALSE
      <4>1. Reachable(w) /\ ~workers[w].draining
        BY <3>2 DEF NextFor, CanAcquire
      <4>2. PICK p \in Priorities : \E i \in DOMAIN queues[p] : Claimable(AllowedKinds(workers[w]), p, i)
        BY <3>2 DEF NextFor, FirstClaimable
      <4> QED
        BY <2>2, <2>3, <4>1, <4>2
    <3> QED
      BY <3>1, <3>2 DEF PreviewIsNextClaim
  <2>4. CASE matched # {}
    <3>1. n0 \in matched /\ \A n \in matched : n0 <= n
      <4>1. matched \in SUBSET Nat
        BY <2>1
      <4> HIDE DEF matched
      <4> QED
        BY <2>4, <4>1, FirstIsFirst
    <3>2. First(able) \in able
      <4>1. able \in SUBSET Nat
        BY <2>1
      <4>2. PICK w \in Workers : Candidate(w, id)
        BY <3>1
      <4>3. PICK n \in DOMAIN WorkerOrder : WorkerOrder[n] = w
        BY WorkerOrderAssumption DEF Members
      <4>4. able # {}
        BY <4>2, <4>3
      <4> HIDE DEF able
      <4> QED
        BY <4>1, <4>4, FirstIsFirst
    <3>3. Preview = <<id, w0>>
      BY <2>4 DEF Preview
    <3>4. id \in JobIds /\ w0 \in Workers /\ Candidate(w0, id)
      <4>1. n0 \in 1..Len(QueuedJobs)
        BY <2>1, <3>1, LenProperties
      <4>2. w0 \in Workers
        BY <3>2, WorkerOrderAssumption DEF Members
      <4> QED
        BY <2>1, <3>2, <4>1, <4>2, ElementOfSeq
    <3>5. Preview # None /\ Preview[1] = id /\ Preview[2] = w0
      BY <3>3, <3>4, PreviewAssumption
    <3> HIDE DEF id, w0
    <3>6. ASSUME BelowCapacity(workers[w0]) PROVE NextFor(w0, id)
      <4>1. Reachable(w0) /\ ~workers[w0].draining
        BY <3>4 DEF Candidate, CanAcceptWork
      <4>2. CanAcquire(w0)
        BY <3>6, <4>1 DEF CanAcquire
      <4>3. PICK p \in Priorities : \E i \in DOMAIN queues[p] : n0 = Before(p) + i /\ id = queues[p][i]
        BY <3>1, QueuedJobsLists DEF id
      <4>4. PICK i \in DOMAIN queues[p] : n0 = Before(p) + i /\ id = queues[p][i]
        BY <4>3
      <4>5. Claimable(AllowedKinds(workers[w0]), p, i)
        <5>1. id \in Members(queues[p])
          BY <4>4 DEF Members
        <5>2. id \in DOMAIN jobs /\ jobs[id].status = "queued"
          BY <5>1 DEF IInv, QueueConsistent, QueuesMatch, Waiting
        <5> QED
          BY <3>4, <4>4, <5>2 DEF Claimable, Candidate
      <4>6. ASSUME NEW q \in Priorities, NEW j \in DOMAIN queues[q],
                   Claimable(AllowedKinds(workers[w0]), q, j)
            PROVE  PriorityRank[p] < PriorityRank[q] \/ (p = q /\ i <= j)
        <5>1. Before(q) + j \in matched
          BY <2>2, <3>4, <4>1, <4>6
        <5>2. Before(p) + i <= Before(q) + j
          BY <3>1, <4>4, <5>1
        <5> QED
          BY <5>2, EarlierIsBetter
      <4>7. FirstClaimable(AllowedKinds(workers[w0]), p, i)
        BY <4>5, <4>6 DEF FirstClaimable
      <4> QED
        BY <4>2, <4>4, <4>7 DEF NextFor
    <3> QED
      BY <3>5, <3>6 DEF PreviewIsNextClaim
  <2> QED
    BY <2>3, <2>4
<1> QED
  BY <1>1, RegistryUnderScheduling, PTL

================================================================================

----------------------------- MODULE MCSchedulerApi -----------------------------
(***************************************************************************)
(* Instances of SchedulerApi for TLC: two kinds of jobs of two priorities, *)
(* one of which may only run in the first pool.                            *)
(***************************************************************************)
EXTENDS SchedulerApi, TLC

CONSTANTS k1, k2, p1, pool1, pool2, w1, w2

MixedRequests ==
    {[kind |-> k1, priority |-> "batch", payload |-> p1, callback_url |-> None],
     [kind |-> k2, priority |-> "realtime", payload |-> p1, callback_url |-> None]}

NoKindSets == {}
OnePoolOnly == (k2 :> {pool1})

\* A worker that the policy does not restrict and one that it does.
TwoProfiles ==
    {[job_types |-> {k2}, pool |-> pool1, max_concurrent_jobs |-> 1],
     [job_types |-> {k1, k2}, pool |-> pool2, max_concurrent_jobs |-> 1]}

BothWorkers == <<w1, w2>>

================================================================================

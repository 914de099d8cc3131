------------------------------ MODULE MCScheduler ------------------------------
(***************************************************************************)
(* Instances of Scheduler for TLC.                                         *)
(***************************************************************************)
EXTENDS Scheduler, TLC

CONSTANTS k1, p1, pool1

PlainRequests ==
    {[kind |-> k1, priority |-> "batch", payload |-> p1, callback_url |-> None]}

NoKindSets == {}
NoPolicy == [kind \in {} |-> {}]

\* One job at a time.
OneSlot == {[job_types |-> {k1}, pool |-> pool1, max_concurrent_jobs |-> 1]}

Symmetry == Permutations(Handlers)

================================================================================

----------------------------- MODULE WorkerRegistry -----------------------------
(***************************************************************************)
(* The registry of async workers (src/workers.rs): one RwLock, one action  *)
(* per method.  It lives in memory only.                                   *)
(*                                                                         *)
(* A worker is stale when its last heartbeat is stale_after old.  That age *)
(* is measured with Instant, a clock of its own which is unrelated to the  *)
(* wall clock of the leases, so the model keeps only whether the worker is *)
(* stale: a heartbeat makes it fresh, and it may go stale at any time.     *)
(* Endpoint, node and VRAM are left out: no scheduling step reads them.    *)
(***************************************************************************)
EXTENDS Integers

CONSTANT Unlimited  \* max_concurrent_jobs = None

\* WorkerRegistryInner.workers: for each registered worker its job_types, pool,
\* max_concurrent_jobs, in_flight_jobs and draining, and whether it is stale.
VARIABLE workers

InitWorkers == workers = [w \in {} |-> 0]

\* register: a worker that is already known keeps its slots and its draining flag.
Register(w, profile) ==
    LET known == w \in DOMAIN workers
        entry == [job_types |-> profile.job_types,
                  pool |-> profile.pool,
                  max_concurrent_jobs |-> profile.max_concurrent_jobs,
                  in_flight_jobs |-> IF known THEN workers[w].in_flight_jobs ELSE 0,
                  draining |-> known /\ workers[w].draining,
                  stale |-> FALSE]
    IN  workers' = [x \in DOMAIN workers \cup {w} |-> IF x = w THEN entry ELSE workers[x]]

Heartbeat(w) ==
    /\ w \in DOMAIN workers
    /\ workers' = [workers EXCEPT ![w].stale = FALSE]

\* No heartbeat for stale_after.
GoStale(w) ==
    /\ w \in DOMAIN workers
    /\ ~workers[w].stale
    /\ workers' = [workers EXCEPT ![w].stale = TRUE]

\* What get reports: the worker is known and not stale.
Reachable(w) == w \in DOMAIN workers /\ ~workers[w].stale

\* Mutant: one job too many.
BelowCapacityOffByOne(worker) ==
    worker.max_concurrent_jobs # Unlimited =>
        worker.in_flight_jobs <= worker.max_concurrent_jobs

BelowCapacity(worker) ==
    worker.max_concurrent_jobs # Unlimited =>
        worker.in_flight_jobs < worker.max_concurrent_jobs

CanAcquire(w) ==
    /\ Reachable(w)
    /\ ~workers[w].draining
    /\ BelowCapacity(workers[w])

\* try_acquire_slot.
TryAcquireSlot(w) ==
    /\ CanAcquire(w)
    /\ workers' = [workers EXCEPT ![w].in_flight_jobs = @ + 1]

\* release_slot: saturates at 0; nothing happens for an unknown worker.
ReleaseSlot(w) ==
    workers' = IF w \in DOMAIN workers /\ workers[w].in_flight_jobs > 0
               THEN [workers EXCEPT ![w].in_flight_jobs = @ - 1]
               ELSE workers

Drain(w) ==
    /\ w \in DOMAIN workers
    /\ workers' = [workers EXCEPT ![w].draining = TRUE]

\* reactivate counts as a heartbeat.
Reactivate(w) ==
    /\ w \in DOMAIN workers
    /\ workers' = [workers EXCEPT ![w].draining = FALSE, ![w].stale = FALSE]

\* deregister: a worker that holds slots is drained instead.
Deregister(w) ==
    /\ w \in DOMAIN workers
    /\ workers' = IF workers[w].in_flight_jobs > 0
                  THEN [workers EXCEPT ![w].draining = TRUE]
                  ELSE [x \in DOMAIN workers \ {w} |-> workers[x]]

================================================================================

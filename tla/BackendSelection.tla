--------------------------- MODULE BackendSelection ---------------------------
(***************************************************************************)
(* The order in which a request looks for a backend: the pools of its      *)
(* workload (src/proxy/mod.rs) and, inside a pool, origin node, affinity   *)
(* and resource rank (src/router/fallback.rs).                             *)
(*                                                                         *)
(* A backend is its index in the configuration.  A request is a record     *)
(* with at least its workload and origin, the backend its affinity         *)
(* prefers, the backends it attempted, and what it knows of resources.     *)
(***************************************************************************)
EXTENDS Integers, FiniteSets, SequencesExt

CONSTANTS
    BackendConfig,  \* sequence of [node, pool, workloads]
    WorkloadPools,  \* workload_pools: from some workloads to sequences of pools
    NoNode,         \* None of node_id and origin_node
    NoLoad          \* None of current_load

\* The configured backends, and the pools of a workload, are lists.
ASSUME ConfigAssumption ==
    /\ BackendConfig \in Seq(ToSet(BackendConfig))
    /\ \A w \in DOMAIN WorkloadPools : WorkloadPools[w] \in Seq(ToSet(WorkloadPools[w]))

Backends == DOMAIN BackendConfig
NoBackend == 0

\* route_allows_backend.  Both routes have BackendPoolPolicy::Any.
RouteAllows(workload, b) ==
    /\ workload \in DOMAIN WorkloadPools =>
           BackendConfig[b].pool \in ToSet(WorkloadPools[workload])
    /\ workload \in BackendConfig[b].workloads

--------------------------------------------------------------------------------
(* Resource rank.  DOMAIN ranks is the set of backends that have one. *)

LoadBefore(x, y) == x # NoLoad /\ (y = NoLoad \/ x < y)

RankValueBefore(x, y) ==
    \/ LoadBefore(x.load, y.load)
    \/ x.load = y.load /\ x.available > y.available

\* compare_resource_rank = Less.
RankBefore(ranks, a, b) ==
    \/ a \in DOMAIN ranks /\ b \notin DOMAIN ranks
    \/ a \in DOMAIN ranks /\ b \in DOMAIN ranks /\ RankValueBefore(ranks[a], ranks[b])
    \/ /\ IF a \in DOMAIN ranks THEN b \in DOMAIN ranks /\ ranks[a] = ranks[b]
                                ELSE b \notin DOMAIN ranks
       /\ a < b

\* The end of best_available_backend: min_by(compare_resource_rank).
BestOf(available, ranks) ==
    CHOOSE a \in available : \A b \in available \ {a} : RankBefore(ranks, a, b)

--------------------------------------------------------------------------------
(* The walk. *)

\* What is left after attempted, route_ineligible and resource ineligible.
Eligible(q) ==
    {b \in Backends \ (q.attempted \cup q.ineligible) : RouteAllows(q.workload, b)}

OnNode(candidates, node) == {b \in candidates : node # NoNode /\ BackendConfig[b].node = node}

\* Mutant: affinity before the origin node.
WalkPreferredFirst(q, candidates) ==
    LET local == OnNode(Backends, q.origin)
    IN  <<candidates \cap {q.preferred}, (candidates \cap local) \ {q.preferred},
          candidates \ (local \cup {q.preferred})>>

\* select_backend_excluding_resource: the groups that it asks one after the other.
Walk(q, candidates) ==
    LET local == OnNode(Backends, q.origin)
    IN  <<candidates \cap local, (candidates \cap {q.preferred}) \ local,
          candidates \ (local \cup {q.preferred})>>

InPool(candidates, pool) == {b \in candidates : BackendConfig[b].pool = pool}

\* Mutant: only the first pool is looked at.
PlanFirstPool(q) ==
    <<Walk(q, IF q.workload \in DOMAIN WorkloadPools
              THEN InPool(Eligible(q), WorkloadPools[q.workload][1])
              ELSE Eligible(q))>>

\* select_backend_for_route: one walk for each pool, or one over all backends.
Plan(q) ==
    IF q.workload \in DOMAIN WorkloadPools
    THEN [n \in DOMAIN WorkloadPools[q.workload] |->
             Walk(q, InPool(Eligible(q), WorkloadPools[q.workload][n]))]
    ELSE <<Walk(q, Eligible(q))>>

\* Nobody is left to be asked.
Exhausted(plan) == plan \in Seq({<<{}, {}, {}>>})

\* Candidate b, of group g of walk n, is asked next: the first one left, in declared order,
\* of the first group of which any is left.
IsNext(plan, n, g, b) ==
    /\ b \in plan[n][g]
    /\ \A c \in plan[n][g] : b <= c
    /\ \A h \in 1..(g - 1) : plan[n][h] = {}
    /\ \A m \in 1..(n - 1) : plan[m] = <<{}, {}, {}>>

\* The plan without it.
StrikeOut(plan, n, g, b) == [plan EXCEPT ![n][g] = @ \ {b}]

--------------------------------------------------------------------------------
(* The order the documentation gives, as a relation between two backends: an   *)
(* earlier pool, then the origin node, then affinity, then rank.               *)

PoolPosition(q, b) ==
    IF q.workload \in DOMAIN WorkloadPools
    THEN CHOOSE i \in DOMAIN WorkloadPools[q.workload] :
             /\ WorkloadPools[q.workload][i] = BackendConfig[b].pool
             /\ \A j \in 1..(i - 1) : WorkloadPools[q.workload][j] # BackendConfig[b].pool
    ELSE 1

Closeness(q, b) ==
    IF b \in OnNode(Backends, q.origin) THEN 1 ELSE IF q.preferred = b THEN 2 ELSE 3

PreferredTo(q, a, b) ==
    \/ PoolPosition(q, a) < PoolPosition(q, b)
    \/ /\ PoolPosition(q, a) = PoolPosition(q, b)
       /\ \/ Closeness(q, a) < Closeness(q, b)
          \/ Closeness(q, a) = Closeness(q, b) /\ RankBefore(q.ranks, a, b)

================================================================================

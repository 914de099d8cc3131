------------------------------ MODULE ProxyProofs ------------------------------
(***************************************************************************)
(* Proofs about the proxy, for any configuration of backends and pools,    *)
(* any threshold and any number of requests: the circuits under requests,  *)
(* probes and disconnects, and the way of a request: the order in which it *)
(* asks backends, what it remembers of them, and what it holds.            *)
(***************************************************************************)
EXTENDS Proxy, JobQueuesProofs

--------------------------------------------------------------------------------
(* Circuits *)

\* A circuit that is not closed remembers failure_threshold failures.
Remembers(c) == c.state # "closed" => c.failures >= FailureThreshold

\* What the operations of CircuitBreaker make of any circuit: a circuit that remembers.
\* record_failure opens a circuit that was not closed.
LEMMA CircuitEffects ==
    ASSUME NEW c \in Circuit, Remembers(c)
    PROVE  /\ NewCircuit \in Circuit /\ Remembers(NewCircuit)
           /\ Asked(c) \in Circuit /\ Remembers(Asked(c))
           /\ Succeeded(c) \in Circuit /\ Remembers(Succeeded(c))
           /\ Failed(c) \in Circuit /\ Remembers(Failed(c))
           /\ CooledCircuit(c) \in Circuit
           /\ c.state # "closed" => Remembers(CooledCircuit(c)) /\ Failed(c).state = "open"
           /\ c.state = "half_open" => Asked(c) = c
<1>1. c.failures \in 0..FailureThreshold /\ c.state \in CircuitState
  BY DEF Circuit
<1>2. NewCircuit \in Circuit /\ Remembers(NewCircuit)
  BY ThresholdAssumption DEF NewCircuit, Circuit, CircuitState, Remembers
<1>3. Asked(c) \in Circuit /\ Remembers(Asked(c)) /\ (c.state = "half_open" => Asked(c) = c)
  BY <1>1 DEF Asked, Circuit, CircuitState, Remembers
<1>4. Failed(c) \in Circuit /\ Remembers(Failed(c)) /\ (c.state # "closed" => Failed(c).state = "open")
  BY <1>1, ThresholdAssumption DEF Failed, Circuit, CircuitState, Remembers
<1>5. /\ CooledCircuit(c) \in Circuit
      /\ c.state # "closed" => Remembers(CooledCircuit(c))
  BY <1>1 DEF CooledCircuit, Circuit, CircuitState, Remembers
<1> QED
  BY <1>2, <1>3, <1>4, <1>5 DEF Succeeded

\* The inductive invariant: every circuit is one, and remembers unless it is closed.
CircuitInv ==
    /\ circuit \in [Backends -> Circuit]
    /\ \A b \in Backends : Remembers(circuit[b])

\* One circuit is replaced by what one of the operations makes of it.
CircuitStep(b) ==
    \/ circuit[b].state = "open" /\ circuit' = [circuit EXCEPT ![b] = CooledCircuit(@)]
    \/ circuit' = [circuit EXCEPT ![b] = Asked(@)]
    \/ circuit' = [circuit EXCEPT ![b] = Succeeded(@)]
    \/ circuit' = [circuit EXCEPT ![b] = Failed(@)]

\* Every step of a request, a probe, a clock or a reporter leaves all circuits alone or is
\* such a step, of a backend or of nothing that has a circuit.
LEMMA StepOfOneCircuit ==
    ASSUME [ProxyNext]_proxyVars
    PROVE  circuit' = circuit \/ \E b : CircuitStep(b)
<1>1. CASE UNCHANGED proxyVars
  BY <1>1 DEF proxyVars
<1>2. ASSUME NEW r \in Requests, NEW kind \in Kinds, TakePermit(r, kind)
      PROVE  circuit' = circuit
  BY <1>2 DEF TakePermit
<1>3. ASSUME NEW r \in Requests, ForwardStep(r)
      PROVE  circuit' = circuit \/ \E b : CircuitStep(b)
  <2>1. CASE AskCircuit(r)
    <3>1. \E b : circuit' = [circuit EXCEPT ![b] = Asked(@)]
      BY <2>1 DEF AskCircuit
    <3> QED
      BY <3>1 DEF CircuitStep
  <2>2. CASE RecordFailure(r)
    BY <2>2 DEF RecordFailure, CircuitStep
  <2>3. CASE RecordSuccess(r)
    BY <2>3 DEF RecordSuccess, CircuitStep
  <2>4. CASE \/ CountIn(r) \/ ReadAffinity(r) \/ ReadBackendReport(r) \/ ReadNodeReport(r)
             \/ GiveUp(r) \/ RecordAffinity(r) \/ DropPermit(r)
    BY <2>4 DEF CountIn, ReadAffinity, ReadBackendReport, ReadNodeReport, GiveUp,
                RecordAffinity, DropPermit
  <2> QED
    BY <1>3, <2>1, <2>2, <2>3, <2>4 DEF ForwardStep
<1>4. ASSUME NEW r \in Requests, UpstreamStep(r) \/ ClientLeaves(r)
      PROVE  circuit' = circuit
  BY <1>4 DEF UpstreamStep, Succeeds, Fails, StreamEnds, ClientLeaves
<1>5. ASSUME NEW b \in Backends, ProbeRecords(b) \/ CooldownElapses(b)
      PROVE  CircuitStep(b)
  BY <1>5 DEF ProbeRecords, CooldownElapses, CircuitStep
<1>6. CASE ProxyNext
  BY <1>2, <1>3, <1>4, <1>5, <1>6 DEF ProxyNext
<1> QED
  BY <1>1, <1>6

\* Every step keeps the invariant.
LEMMA CircuitInvStep == CircuitInv /\ [ProxyNext]_proxyVars => CircuitInv'
<1> SUFFICES ASSUME CircuitInv, [ProxyNext]_proxyVars PROVE CircuitInv'
  OBVIOUS
<1>1. circuit' = circuit \/ \E b : CircuitStep(b)
  BY StepOfOneCircuit
<1>2. CASE circuit' = circuit
  BY <1>2 DEF CircuitInv
<1>3. ASSUME NEW b, CircuitStep(b)
      PROVE  CircuitInv'
  <2>1. CASE b \notin Backends
    <3>1. circuit' = circuit
      BY <1>3, <2>1 DEF CircuitStep, CircuitInv
    <3> QED
      BY <3>1 DEF CircuitInv
  <2>2. CASE b \in Backends
    <3>1. circuit[b] \in Circuit /\ Remembers(circuit[b])
      BY <2>2 DEF CircuitInv
    <3>2. \E c \in Circuit : Remembers(c) /\ circuit' = [circuit EXCEPT ![b] = c]
      BY <1>3, <3>1, CircuitEffects DEF CircuitStep
    <3> QED
      BY <3>2 DEF CircuitInv
  <2> QED
    BY <2>1, <2>2
<1> QED
  BY <1>1, <1>2, <1>3

\* The circuits are well-formed and remember in every reachable state.
THEOREM CircuitsInvariant == ProxySpec => []CircuitInv
<1>1. ProxyInit => CircuitInv
  <2>1. NewCircuit \in Circuit /\ Remembers(NewCircuit)
    BY ThresholdAssumption DEF NewCircuit, Circuit, CircuitState, Remembers
  <2> QED
    BY <2>1 DEF ProxyInit, CircuitInv
<1> QED
  BY <1>1, CircuitInvStep, PTL DEF ProxySpec

\* Whatever late reports and probes do, a circuit that is not closed remembers
\* failure_threshold failures.
THEOREM CircuitsRemember == ProxySpec => []TrippedRemembers
<1>1. CircuitInv => TrippedRemembers
  BY DEF CircuitInv, TrippedRemembers, Remembers
<1> QED
  BY <1>1, CircuitsInvariant, PTL

\* The first report of a request or a probe on a half-open circuit opens or closes it.
THEOREM TrialsDecide == ProxySpec => TrialFailureReopens
<1> DEFINE Decided ==
      \A b \in Backends :
          circuit[b].state = "half_open" /\ circuit'[b] # circuit[b]
              => circuit'[b].state \in {"open", "closed"}
<1>1. CircuitInv /\ [ProxyNext]_proxyVars => [Decided]_proxyVars
  <2> SUFFICES ASSUME CircuitInv, [ProxyNext]_proxyVars PROVE Decided
    OBVIOUS
  <2>1. circuit' = circuit \/ \E b : CircuitStep(b)
    BY StepOfOneCircuit
  <2>2. ASSUME NEW b, CircuitStep(b),
               NEW a \in Backends, circuit[a].state = "half_open", circuit'[a] # circuit[a]
        PROVE  circuit'[a].state \in {"open", "closed"}
    <3>1. a = b
      BY <2>2 DEF CircuitStep, CircuitInv
    <3>2. circuit \in [Backends -> Circuit] /\ circuit[b] \in Circuit /\ Remembers(circuit[b])
      BY <3>1 DEF CircuitInv
    <3>3. /\ Asked(circuit[b]) = circuit[b]
          /\ Failed(circuit[b]).state = "open"
          /\ Succeeded(circuit[b]).state = "closed"
      BY <2>2, <3>1, <3>2, CircuitEffects DEF Succeeded, NewCircuit
    <3> QED
      BY <2>2, <3>1, <3>2, <3>3 DEF CircuitStep
  <2> QED
    BY <2>1, <2>2
<1> QED
  BY <1>1, CircuitsInvariant, PTL DEF ProxySpec, TrialFailureReopens

--------------------------------------------------------------------------------
(* The order of ranks *)

\* What a request knows of resources: a rank for some of the backends.
Ranking == UNION {[S -> ResourceReport] : S \in SUBSET Backends}

\* compare_resource_rank orders the values of two ranks: one way or the other, unless
\* they are the same.
LEMMA RankValuesOrdered ==
    ASSUME NEW x \in ResourceReport, NEW y \in ResourceReport, NEW z \in ResourceReport
    PROVE  /\ ~RankValueBefore(x, x)
           /\ RankValueBefore(x, y) => ~RankValueBefore(y, x)
           /\ RankValueBefore(x, y) /\ RankValueBefore(y, z) => RankValueBefore(x, z)
           /\ x # y => RankValueBefore(x, y) \/ RankValueBefore(y, x)
<1>1. /\ x.available \in Nat /\ y.available \in Nat /\ z.available \in Nat
      /\ x.load \in Nat \cup {NoLoad} /\ y.load \in Nat \cup {NoLoad} /\ z.load \in Nat \cup {NoLoad}
      /\ x = [available |-> x.available, load |-> x.load]
      /\ y = [available |-> y.available, load |-> y.load]
  BY SizesAssumption DEF ResourceReport
<1> QED
  BY <1>1 DEF RankValueBefore, LoadBefore

\* So compare_resource_rank is a strict total order of the backends: by rank, ranked
\* before unranked ones, and by declared order where that says nothing.
LEMMA RanksOrdered ==
    ASSUME NEW ranks \in Ranking, NEW a \in Backends, NEW b \in Backends, NEW c \in Backends
    PROVE  /\ ~RankBefore(ranks, a, a)
           /\ RankBefore(ranks, a, b) => ~RankBefore(ranks, b, a)
           /\ RankBefore(ranks, a, b) /\ RankBefore(ranks, b, c) => RankBefore(ranks, a, c)
           /\ a # b => RankBefore(ranks, a, b) \/ RankBefore(ranks, b, a)
<1>1. a \in Nat /\ b \in Nat /\ c \in Nat
  BY ConfigAssumption DEF Backends
<1>2. \A d \in DOMAIN ranks : ranks[d] \in ResourceReport
  BY DEF Ranking
<1>3. \A d, e, f \in DOMAIN ranks :
         /\ ~RankValueBefore(ranks[d], ranks[d])
         /\ RankValueBefore(ranks[d], ranks[e]) => ~RankValueBefore(ranks[e], ranks[d])
         /\ RankValueBefore(ranks[d], ranks[e]) /\ RankValueBefore(ranks[e], ranks[f])
               => RankValueBefore(ranks[d], ranks[f])
         /\ ranks[d] # ranks[e]
               => RankValueBefore(ranks[d], ranks[e]) \/ RankValueBefore(ranks[e], ranks[d])
  BY <1>2, RankValuesOrdered
<1> QED
  BY <1>1, <1>3 DEF RankBefore

\* best_available_backend returns one of the available backends, to which no other of
\* them is before.
LEMMA BestIsFirst ==
    ASSUME NEW ranks \in Ranking, NEW available \in SUBSET Backends, available # {}
    PROVE  /\ BestOf(available, ranks) \in available
           /\ \A b \in available : ~RankBefore(ranks, b, BestOf(available, ranks))
<1> DEFINE Before(a) == {b \in available : RankBefore(ranks, b, a)}
           Sizes == {Cardinality(Before(a)) : a \in available}
<1>1. IsFiniteSet(Backends)
  BY ConfigAssumption, FS_Interval DEF Backends
<1>2. \A a \in available : IsFiniteSet(Before(a)) /\ Cardinality(Before(a)) \in Nat
  <2> TAKE a \in available
  <2>1. Before(a) \subseteq Backends
    OBVIOUS
  <2> QED
    BY <1>1, <2>1, FS_Subset, FS_CardinalityType
<1>3. Sizes \in SUBSET Nat /\ Sizes # {}
  BY <1>2
<1>4. PICK a \in available : \A b \in available : Cardinality(Before(a)) <= Cardinality(Before(b))
  <2> HIDE DEF Before
  <2>1. PICK x \in Sizes : \A y \in Sizes : x <= y
    BY <1>3, SmallestExists
  <2> QED
    BY <2>1
<1>5. Before(a) = {}
  <2> SUFFICES ASSUME NEW b \in Before(a) PROVE FALSE
    OBVIOUS
  <2>1. Before(b) \subseteq Before(a) /\ b \notin Before(b) /\ b \in available
    BY RanksOrdered
  <2>2. Before(b) # Before(a)
    BY <2>1
  <2>3. Cardinality(Before(b)) < Cardinality(Before(a))
    BY <1>2, <2>1, <2>2, FS_Subset
  <2> QED
    BY <1>2, <1>4, <2>1, <2>3
<1>6. \A b \in available \ {a} : RankBefore(ranks, a, b)
  BY <1>5, RanksOrdered
<1>7. /\ BestOf(available, ranks) \in available
      /\ \A b \in available \ {BestOf(available, ranks)} :
             RankBefore(ranks, BestOf(available, ranks), b)
  BY <1>6 DEF BestOf
<1> QED
  BY <1>7, RanksOrdered

--------------------------------------------------------------------------------
(* The plan of a selection *)

\* A plan is a list of walks of three groups.
LEMMA PlanType ==
    ASSUME NEW q
    PROVE  Plan(q) \in Seq([1..3 -> SUBSET Backends])
<1>1. \A c \in SUBSET Backends : Walk(q, c) \in [1..3 -> SUBSET Backends]
  BY DEF Walk
<1>2. Eligible(q) \in SUBSET Backends /\ \A pool : InPool(Eligible(q), pool) \in SUBSET Backends
  BY DEF Eligible, InPool
<1>3. CASE q.workload \in DOMAIN WorkloadPools
  <2>1. DOMAIN WorkloadPools[q.workload] = 1..Len(WorkloadPools[q.workload])
        /\ Len(WorkloadPools[q.workload]) \in Nat
    BY <1>3, ConfigAssumption
  <2> QED
    BY <1>1, <1>2, <1>3, <2>1 DEF Plan
<1>4. CASE q.workload \notin DOMAIN WorkloadPools
  BY <1>1, <1>2, <1>4 DEF Plan
<1> QED
  BY <1>3, <1>4

\* The pool of the n-th walk of a request.
PoolOfWalk(q, n, b) ==
    q.workload \in DOMAIN WorkloadPools => BackendConfig[b].pool = WorkloadPools[q.workload][n]

\* A group holds the eligible backends of its pool that are as close as it says.
LEMMA GroupMembers ==
    ASSUME NEW q, NEW n \in DOMAIN Plan(q), NEW g \in 1..3, NEW b
    PROVE  b \in Plan(q)[n][g]
               <=> b \in Eligible(q) /\ PoolOfWalk(q, n, b) /\ Closeness(q, b) = g
<1>1. g = 1 \/ g = 2 \/ g = 3
  OBVIOUS
<1>2. Eligible(q) \subseteq Backends
  BY DEF Eligible
<1>3. \A c \in SUBSET Backends : b \in Walk(q, c)[g] <=> b \in c /\ Closeness(q, b) = g
  BY <1>1 DEF Walk, Closeness
<1>4. CASE q.workload \in DOMAIN WorkloadPools
  <2>1. Plan(q)[n] = Walk(q, InPool(Eligible(q), WorkloadPools[q.workload][n]))
    BY <1>4 DEF Plan
  <2>2. InPool(Eligible(q), WorkloadPools[q.workload][n]) \in SUBSET Backends
    BY <1>2 DEF InPool
  <2> QED
    BY <1>3, <1>4, <2>1, <2>2 DEF InPool, PoolOfWalk
<1>5. CASE q.workload \notin DOMAIN WorkloadPools
  <2>1. Plan(q)[n] = Walk(q, Eligible(q))
    BY <1>5 DEF Plan
  <2> QED
    BY <1>2, <1>3, <1>5, <2>1 DEF PoolOfWalk
<1> QED
  BY <1>4, <1>5

\* Every eligible backend has a place in the plan: in the walk of the first pool that is
\* its own, in the group of its closeness.
LEMMA EligiblePlanned ==
    ASSUME NEW q, NEW b \in Eligible(q)
    PROVE  /\ PoolPosition(q, b) \in DOMAIN Plan(q)
           /\ PoolPosition(q, b) \in Nat
           /\ PoolOfWalk(q, PoolPosition(q, b), b)
           /\ \A n \in DOMAIN Plan(q) : PoolOfWalk(q, n, b) => PoolPosition(q, b) <= n
           /\ b \in Plan(q)[PoolPosition(q, b)][Closeness(q, b)]
           /\ Closeness(q, b) \in 1..3
<1>1. Closeness(q, b) \in 1..3
  BY DEF Closeness
<1>2. CASE q.workload \notin DOMAIN WorkloadPools
  <2>1. DOMAIN Plan(q) = {1} /\ PoolPosition(q, b) = 1
    BY <1>2 DEF Plan, PoolPosition
  <2>2. \A n : PoolOfWalk(q, n, b)
    BY <1>2 DEF PoolOfWalk
  <2> QED
    BY <1>1, <2>1, <2>2, GroupMembers
<1>3. CASE q.workload \in DOMAIN WorkloadPools
  <2> DEFINE pools == WorkloadPools[q.workload]
             pool == BackendConfig[b].pool
             Places == {i \in DOMAIN pools : pools[i] = pool}
  <2>1. DOMAIN pools = 1..Len(pools) /\ Len(pools) \in Nat /\ DOMAIN Plan(q) = DOMAIN pools
    BY <1>3, ConfigAssumption DEF Plan
  <2>2. Places # {}
    BY <1>3 DEF Eligible, RouteAllows, ToSet
  <2>3. PICK i \in Places : \A j \in Places : i <= j
    <3>1. Places \in SUBSET Nat
      BY <2>1
    <3> HIDE DEF Places
    <3> QED
      BY <2>2, <3>1, SmallestExists
  <2>4. \A j \in 1..(i - 1) : pools[j] # pool
    BY <2>1, <2>3
  <2>5. PoolPosition(q, b) = CHOOSE k \in DOMAIN pools :
            pools[k] = pool /\ \A j \in 1..(k - 1) : pools[j] # pool
    BY <1>3 DEF PoolPosition
  <2>6. /\ PoolPosition(q, b) \in DOMAIN pools
        /\ pools[PoolPosition(q, b)] = pool
        /\ \A j \in 1..(PoolPosition(q, b) - 1) : pools[j] # pool
    <3> HIDE DEF pools, pool
    <3> QED
      BY <2>3, <2>4, <2>5
  <2>7. \A n \in DOMAIN Plan(q) : PoolOfWalk(q, n, b) => PoolPosition(q, b) <= n
    <3>1. \A n \in DOMAIN pools : pools[n] = pool => PoolPosition(q, b) <= n
      BY <2>1, <2>6
    <3> QED
      BY <1>3, <2>1, <3>1 DEF PoolOfWalk
  <2>8. PoolOfWalk(q, PoolPosition(q, b), b)
    BY <2>6 DEF PoolOfWalk
  <2> QED
    BY <1>1, <2>1, <2>6, <2>7, <2>8, GroupMembers
<1> QED
  BY <1>2, <1>3

\* p and q know the same about the backends.
SameCandidates(p, q) ==
    /\ p.workload = q.workload /\ p.origin = q.origin /\ p.preferred = q.preferred
    /\ p.attempted = q.attempted /\ p.ineligible = q.ineligible

\* Then they have the same candidates, in the same plan, at the same places.
LEMMA SamePlan ==
    ASSUME NEW p, NEW q, SameCandidates(p, q)
    PROVE  /\ Eligible(p) = Eligible(q)
           /\ Plan(p) = Plan(q)
           /\ \A b : PoolPosition(p, b) = PoolPosition(q, b) /\ Closeness(p, b) = Closeness(q, b)
<1>1. Eligible(p) = Eligible(q)
  BY DEF SameCandidates, Eligible
<1>2. \A c : Walk(p, c) = Walk(q, c)
  BY DEF SameCandidates, Walk
<1>3. Plan(p) = Plan(q)
  BY <1>1, <1>2 DEF SameCandidates, Plan
<1>4. \A b : PoolPosition(p, b) = PoolPosition(q, b) /\ Closeness(p, b) = Closeness(q, b)
  BY DEF SameCandidates, PoolPosition, Closeness
<1> QED
  BY <1>1, <1>3, <1>4

\* Group h of walk m comes before group g of walk n.
Earlier(m, h, n, g) == m < n \/ (m = n /\ h < g)

\* What holds between two answers of a selection: who is no longer in the plan was found
\* available or refused; a group is asked when nobody is left of the earlier ones; and who
\* was found available is of a group that is not yet asked to the end.
SelectionOK(q) ==
    /\ DOMAIN q.plan = DOMAIN Plan(q)
    /\ \A n \in DOMAIN Plan(q), g \in 1..3 :
           /\ q.plan[n][g] \subseteq Plan(q)[n][g]
           /\ Plan(q)[n][g] \ q.plan[n][g] \subseteq q.available \cup q.refused
           /\ q.plan[n][g] # Plan(q)[n][g] =>
                  \A m \in DOMAIN Plan(q), h \in 1..3 : Earlier(m, h, n, g) => q.plan[m][h] = {}
    /\ \A a \in q.available : \E n \in DOMAIN Plan(q), g \in 1..3 :
           a \in Plan(q)[n][g] \ q.plan[n][g] /\ q.plan[n][g] # {}

\* While one of a group is asked, nobody is left of the earlier groups, nobody of the later
\* ones has been asked, and those found available are of this group.
LEMMA WhenAsking ==
    ASSUME NEW q, q.plan \in Seq([1..3 -> SUBSET Backends]), SelectionOK(q),
           NEW n \in DOMAIN q.plan, NEW g \in 1..3, NEW b, IsNext(q.plan, n, g, b)
    PROVE  /\ n \in DOMAIN Plan(q) /\ DOMAIN Plan(q) \subseteq Nat
           /\ \A m \in DOMAIN Plan(q), h \in 1..3 :
                  /\ Earlier(m, h, n, g) => q.plan[m][h] = {}
                  /\ Earlier(n, g, m, h) => q.plan[m][h] = Plan(q)[m][h]
           /\ q.available \subseteq Plan(q)[n][g]
<1>1. n \in DOMAIN Plan(q) /\ DOMAIN Plan(q) \subseteq Nat \ {0}
  BY DEF SelectionOK
<1>2. b \in q.plan[n][g]
  BY DEF IsNext
<1>3. ASSUME NEW m \in DOMAIN Plan(q), NEW h \in 1..3, Earlier(m, h, n, g)
      PROVE  q.plan[m][h] = {}
  <2>1. CASE m < n
    <3>1. m \in 1..(n - 1)
      BY <1>1, <2>1
    <3>2. q.plan[m] = <<{}, {}, {}>>
      BY <3>1 DEF IsNext
    <3>3. h = 1 \/ h = 2 \/ h = 3
      OBVIOUS
    <3> QED
      BY <3>2, <3>3
  <2>2. CASE m = n /\ h < g
    BY <2>2 DEF IsNext
  <2> QED
    BY <1>3, <2>1, <2>2 DEF Earlier
<1>4. ASSUME NEW m \in DOMAIN Plan(q), NEW h \in 1..3, Earlier(n, g, m, h)
      PROVE  q.plan[m][h] = Plan(q)[m][h]
  BY <1>1, <1>2, <1>4 DEF SelectionOK
<1>5. ASSUME NEW a \in q.available
      PROVE  a \in Plan(q)[n][g]
  <2>1. PICK m \in DOMAIN Plan(q), h \in 1..3 :
            a \in Plan(q)[m][h] \ q.plan[m][h] /\ q.plan[m][h] # {}
    BY DEF SelectionOK
  <2>2. ~Earlier(m, h, n, g) /\ ~Earlier(n, g, m, h)
    BY <1>3, <1>4, <2>1
  <2>3. m = n /\ h = g
    BY <1>1, <2>2 DEF Earlier
  <2> QED
    BY <2>1, <2>3
<1> QED
  BY <1>1, <1>3, <1>4, <1>5

\* The fields of a request that forward computes before a selection, or keeps through it.
SameRequest(p, q) ==
    /\ SameCandidates(p, q)
    /\ p.priority = q.priority /\ p.thread = q.thread /\ p.ranks = q.ranks
    /\ p.examined = q.examined /\ p.failure = q.failure

\* What an answer changes of a request.
LEMMA AsksEffects ==
    ASSUME NEW q \in Forwarding, NEW n \in DOMAIN q.plan, NEW g \in 1..3, NEW b \in Backends,
           NEW c
    PROVE  LET asked == Asks(q, n, g, b, c)
           IN  /\ asked \in Forwarding
               /\ asked.pc = q.pc /\ SameRequest(asked, q) /\ asked.tried = q.tried
               /\ asked.plan = StrikeOut(q.plan, n, g, b)
               /\ \/ asked.available = q.available \cup {b} /\ asked.refused = q.refused
                  \/ asked.available = q.available /\ asked.refused = q.refused \cup {b}
<1> DEFINE plan == StrikeOut(q.plan, n, g, b)
           available == IF IsAvailable(c) THEN q.available \cup {b} ELSE q.available
           refused == IF IsAvailable(c) THEN q.refused ELSE q.refused \cup {b}
           on_trial == IF c.state \in {"cooled", "half_open"} THEN q.on_trial \cup {b}
                       ELSE q.on_trial
<1>1. Asks(q, n, g, b, c) =
        [q EXCEPT !.plan = plan, !.available = available, !.refused = refused,
                  !.on_trial = on_trial]
  BY DEF Asks
<1>2. plan \in Seq([1..3 -> SUBSET Backends])
  <2>1. q.plan \in Seq([1..3 -> SUBSET Backends])
    BY DEF Forwarding
  <2>2. [q.plan[n] EXCEPT ![g] = q.plan[n][g] \ {b}] \in [1..3 -> SUBSET Backends]
    BY <2>1
  <2>3. plan = [q.plan EXCEPT ![n] = [q.plan[n] EXCEPT ![g] = q.plan[n][g] \ {b}]]
    BY <2>1 DEF StrikeOut
  <2> QED
    BY <2>1, <2>2, <2>3
<1>3. /\ available \in SUBSET Backends /\ refused \in SUBSET Backends
      /\ on_trial \in SUBSET Backends
  BY DEF Forwarding
<1>4. \/ available = q.available \cup {b} /\ refused = q.refused
      \/ available = q.available /\ refused = q.refused \cup {b}
  OBVIOUS
<1> HIDE DEF plan, available, refused, on_trial
<1>5. Asks(q, n, g, b, c) \in Forwarding
  BY <1>1, <1>2, <1>3, ZenonT(40) DEF Forwarding
<1>6. /\ Asks(q, n, g, b, c).plan = plan /\ Asks(q, n, g, b, c).available = available
      /\ Asks(q, n, g, b, c).refused = refused /\ Asks(q, n, g, b, c).pc = q.pc
      /\ Asks(q, n, g, b, c).tried = q.tried
      /\ SameRequest(Asks(q, n, g, b, c), q)
  BY <1>1 DEF Forwarding, SameRequest, SameCandidates
<1> QED
  BY <1>4, <1>5, <1>6 DEF plan

\* The end of a selection with b: of the eligible backends, those preferred to b were
\* refused.
InOrder(q, b) ==
    /\ b \in Eligible(q)
    /\ \A a \in Eligible(q) \ {b} : PreferredTo(q, a, b) => a \in q.refused

\* b, in group g of walk n, was asked by q, which is now p.
OneAnswer(q, p, n, g, b) ==
    /\ q.plan \in Seq([1..3 -> SUBSET Backends]) /\ n \in DOMAIN q.plan /\ g \in 1..3
    /\ SelectionOK(q)
    /\ IsNext(q.plan, n, g, b)
    /\ SameCandidates(p, q)
    /\ p.plan = StrikeOut(q.plan, n, g, b)
    /\ \/ p.available = q.available \cup {b} /\ p.refused = q.refused
       \/ p.available = q.available /\ p.refused = q.refused \cup {b}

\* After an answer, nobody is left of the earlier groups, and of this one b is no longer;
\* the others are as they were.  Everybody who is no longer in the plan is available or
\* refused, and the available ones are of this group.
LEMMA AfterOneAnswer ==
    ASSUME NEW q, NEW p, NEW n, NEW g, NEW b, OneAnswer(q, p, n, g, b)
    PROVE  /\ n \in DOMAIN Plan(p) /\ DOMAIN Plan(p) \subseteq Nat /\ DOMAIN p.plan = DOMAIN Plan(p)
           /\ \A m \in DOMAIN Plan(p), h \in 1..3 :
                  /\ p.plan[m][h] \subseteq Plan(p)[m][h]
                  /\ Plan(p)[m][h] \ p.plan[m][h] \subseteq p.available \cup p.refused
                  /\ Earlier(m, h, n, g) => p.plan[m][h] = {}
                  /\ Earlier(n, g, m, h) => p.plan[m][h] = Plan(p)[m][h]
           /\ p.available \subseteq Plan(p)[n][g] \ p.plan[n][g]
<1>1. Plan(p) = Plan(q)
  BY SamePlan DEF OneAnswer
<1>2. /\ n \in DOMAIN Plan(q) /\ DOMAIN Plan(q) \subseteq Nat
      /\ \A m \in DOMAIN Plan(q), h \in 1..3 :
             /\ Earlier(m, h, n, g) => q.plan[m][h] = {}
             /\ Earlier(n, g, m, h) => q.plan[m][h] = Plan(q)[m][h]
      /\ q.available \subseteq Plan(q)[n][g]
  BY WhenAsking DEF OneAnswer
<1>3. /\ DOMAIN q.plan = DOMAIN Plan(q)
      /\ \A m \in DOMAIN Plan(q), h \in 1..3 :
             /\ q.plan[m][h] \subseteq Plan(q)[m][h]
             /\ Plan(q)[m][h] \ q.plan[m][h] \subseteq q.available \cup q.refused
  BY DEF OneAnswer, SelectionOK
<1>4. \A a \in q.available : a \notin q.plan[n][g]
  <2> TAKE a \in q.available
  <2>1. PICK m \in DOMAIN Plan(q), h \in 1..3 :
            a \in Plan(q)[m][h] \ q.plan[m][h] /\ q.plan[m][h] # {}
    BY DEF SelectionOK, OneAnswer
  <2>2. ~Earlier(m, h, n, g) /\ ~Earlier(n, g, m, h)
    BY <1>2, <2>1
  <2>3. m = n /\ h = g
    BY <1>2, <2>2 DEF Earlier, OneAnswer
  <2> QED
    BY <2>1, <2>3
<1>5. b \in q.plan[n][g] /\ b \in Plan(q)[n][g]
  BY <1>2, <1>3 DEF OneAnswer, IsNext
<1>6. /\ DOMAIN p.plan = DOMAIN q.plan
      /\ p.plan[n][g] = q.plan[n][g] \ {b}
      /\ \A m \in DOMAIN Plan(q), h \in 1..3 :
             m # n \/ h # g => p.plan[m][h] = q.plan[m][h]
  BY <1>3 DEF OneAnswer, StrikeOut
<1>7. ~Earlier(n, g, n, g)
  BY <1>2 DEF Earlier, OneAnswer
<1>8. /\ q.available \cup q.refused \subseteq p.available \cup p.refused
      /\ b \in p.available \cup p.refused
      /\ p.available \subseteq q.available \cup {b}
      /\ g \in 1..3
  BY DEF OneAnswer
<1>9. ASSUME NEW m \in DOMAIN Plan(p), NEW h \in 1..3
      PROVE  /\ p.plan[m][h] \subseteq Plan(p)[m][h]
             /\ Plan(p)[m][h] \ p.plan[m][h] \subseteq p.available \cup p.refused
             /\ Earlier(m, h, n, g) => p.plan[m][h] = {}
             /\ Earlier(n, g, m, h) => p.plan[m][h] = Plan(p)[m][h]
  <2>1. CASE m = n /\ h = g
    BY <1>1, <1>2, <1>3, <1>6, <1>7, <1>8, <2>1
  <2>2. CASE m # n \/ h # g
    BY <1>1, <1>2, <1>3, <1>6, <1>8, <2>2
  <2> QED
    BY <2>1, <2>2
<1>10. p.available \subseteq Plan(p)[n][g] \ p.plan[n][g]
  BY <1>1, <1>2, <1>4, <1>5, <1>6, <1>8
<1> QED
  BY <1>1, <1>2, <1>3, <1>6, <1>9, <1>10

\* As long as somebody of the group is left, or nobody is available, the selection goes on.
LEMMA SelectionGoesOn ==
    ASSUME NEW q, NEW p, NEW n, NEW g, NEW b, OneAnswer(q, p, n, g, b),
           p.plan[n][g] # {} \/ p.available = {}
    PROVE  SelectionOK(p)
<1>1. /\ n \in DOMAIN Plan(p) /\ DOMAIN Plan(p) \subseteq Nat /\ DOMAIN p.plan = DOMAIN Plan(p)
      /\ \A m \in DOMAIN Plan(p), h \in 1..3 :
             /\ p.plan[m][h] \subseteq Plan(p)[m][h]
             /\ Plan(p)[m][h] \ p.plan[m][h] \subseteq p.available \cup p.refused
             /\ Earlier(m, h, n, g) => p.plan[m][h] = {}
             /\ Earlier(n, g, m, h) => p.plan[m][h] = Plan(p)[m][h]
      /\ p.available \subseteq Plan(p)[n][g] \ p.plan[n][g]
  BY AfterOneAnswer
<1>2. g \in 1..3
  BY DEF OneAnswer
<1>3. ASSUME NEW m \in DOMAIN Plan(p), NEW h \in 1..3, p.plan[m][h] # Plan(p)[m][h],
             NEW k \in DOMAIN Plan(p), NEW l \in 1..3, Earlier(k, l, m, h)
      PROVE  p.plan[k][l] = {}
  <2>1. ~Earlier(n, g, m, h)
    BY <1>1, <1>3
  <2>2. Earlier(k, l, n, g)
    BY <1>1, <1>2, <1>3, <2>1 DEF Earlier
  <2> QED
    BY <1>1, <2>2
<1> QED
  BY <1>1, <1>2, <1>3 DEF SelectionOK

\* A group that is asked to the end with somebody available ends the selection in order.
LEMMA SelectionIsInOrder ==
    ASSUME NEW q, NEW p, NEW n, NEW g, NEW b, OneAnswer(q, p, n, g, b),
           p.plan[n][g] = {}, p.available # {}, p.ranks \in Ranking
    PROVE  InOrder(p, BestOf(p.available, p.ranks))
<1> DEFINE best == BestOf(p.available, p.ranks)
<1>1. /\ n \in DOMAIN Plan(p) /\ DOMAIN Plan(p) \subseteq Nat
      /\ \A m \in DOMAIN Plan(p), h \in 1..3 :
             /\ Plan(p)[m][h] \ p.plan[m][h] \subseteq p.available \cup p.refused
             /\ Earlier(m, h, n, g) => p.plan[m][h] = {}
      /\ p.available \subseteq Plan(p)[n][g]
  BY AfterOneAnswer
<1>2. g \in 1..3
  BY DEF OneAnswer
<1>3. \A a \in p.available : a \in Eligible(p) /\ PoolOfWalk(p, n, a) /\ Closeness(p, a) = g
  BY <1>1, <1>2, GroupMembers
<1>4. Eligible(p) \subseteq Backends
  BY DEF Eligible
<1>5. best \in p.available /\ \A a \in p.available : ~RankBefore(p.ranks, a, best)
  BY <1>3, <1>4, BestIsFirst
<1> HIDE DEF best
<1>6. ASSUME NEW a \in Eligible(p) \ {best}, PreferredTo(p, a, best)
      PROVE  a \in p.refused
  <2> DEFINE m == PoolPosition(p, a)
             h == Closeness(p, a)
  <2>1. /\ m \in DOMAIN Plan(p) /\ m \in Nat /\ h \in 1..3 /\ a \in Plan(p)[m][h]
        /\ PoolOfWalk(p, m, a)
        /\ \A k \in DOMAIN Plan(p) : PoolOfWalk(p, k, a) => m <= k
    BY EligiblePlanned
  <2>2. /\ PoolPosition(p, best) \in Nat /\ PoolPosition(p, best) <= n /\ Closeness(p, best) = g
        /\ PoolPosition(p, best) \in DOMAIN Plan(p)
        /\ PoolOfWalk(p, PoolPosition(p, best), best)
        /\ \A k \in DOMAIN Plan(p) : PoolOfWalk(p, k, best) => PoolPosition(p, best) <= k
    BY <1>1, <1>3, <1>5, EligiblePlanned
  <2>3. \/ m < PoolPosition(p, best)
        \/ /\ m = PoolPosition(p, best)
           /\ h < g \/ (h = g /\ RankBefore(p.ranks, a, best))
    BY <1>6, <2>2 DEF PreferredTo
  <2>4. Earlier(m, h, n, g) \/ (m = n /\ h = g)
    <3> HIDE DEF m, h
    <3> QED
      BY <1>1, <1>2, <2>1, <2>2, <2>3 DEF Earlier
  <2>5. p.plan[m][h] = {}
    <3> HIDE DEF m, h
    <3> QED
      BY <1>1, <2>1, <2>4
  <2>6. a \in p.available \cup p.refused
    <3> HIDE DEF m, h
    <3> QED
      BY <1>1, <2>1, <2>5
  <2>7. a \notin p.available
    <3> SUFFICES ASSUME a \in p.available PROVE FALSE
      OBVIOUS
    <3>1. PoolOfWalk(p, n, a) /\ PoolOfWalk(p, n, best) /\ h = g
      BY <1>3, <1>5
    <3>2. \A k : PoolOfWalk(p, k, a) <=> PoolOfWalk(p, k, best)
      BY <3>1 DEF PoolOfWalk
    <3>3. m = PoolPosition(p, best)
      <4> HIDE DEF m
      <4> QED
        BY <2>1, <2>2, <3>2
    <3>4. RankBefore(p.ranks, a, best)
      <4> HIDE DEF m, h
      <4> QED
        BY <1>2, <2>2, <2>3, <3>1, <3>3
    <3> QED
      BY <1>5, <3>4
  <2> QED
    BY <2>6, <2>7
<1> QED
  BY <1>3, <1>5, <1>6 DEF InOrder, best

\* Nobody is left of an exhausted plan.
LEMMA ExhaustedEmpty ==
    ASSUME NEW plan, Exhausted(plan), NEW n \in DOMAIN plan, NEW g \in 1..3
    PROVE  plan[n][g] = {}
<1>1. plan[n] = <<{}, {}, {}>>
  BY DEF Exhausted
<1>2. g = 1 \/ g = 2 \/ g = 3
  OBVIOUS
<1> QED
  BY <1>1, <1>2

\* A selection that ends with nobody available has asked, and found refused, everybody.
LEMMA EveryoneRefused ==
    ASSUME NEW q, SelectionOK(q), q.available = {}, Exhausted(q.plan)
    PROVE  Eligible(q) \subseteq q.refused
<1> SUFFICES ASSUME NEW b \in Eligible(q) PROVE b \in q.refused
  OBVIOUS
<1> DEFINE n == PoolPosition(q, b)
           g == Closeness(q, b)
<1>1. n \in DOMAIN Plan(q) /\ g \in 1..3 /\ b \in Plan(q)[n][g]
  BY EligiblePlanned
<1> HIDE DEF n, g
<1>2. q.plan[n][g] = {}
  BY <1>1, ExhaustedEmpty DEF SelectionOK
<1> QED
  BY <1>1, <1>2 DEF SelectionOK

--------------------------------------------------------------------------------
(* What a request knows at each point of forward *)

Preparing == {"count", "affinity", "report", "node_report"}
Sent == {"post", "failed", "succeeded", "remember"}

\* resource_selection_state: whom the loop has passed is ineligible or ranked, and who is
\* ranked has the memory.  After the loop that is everybody.
Examined(q) ==
    /\ \A b \in DOMAIN q.ranks : q.ranks[b].available >= RequiredVram[q.workload]
    /\ ResourceAware => \A b \in 1..q.examined : b \in q.ineligible \/ b \in DOMAIN q.ranks
    /\ q.pc \in {"report", "node_report"} => ResourceAware /\ q.examined < Cardinality(Backends)
    /\ q.pc \notin Preparing /\ ResourceAware => q.examined = Cardinality(Backends)

\* attempted and the last failure say to whom the request was sent, and what came of it.
Remembered(q) ==
    /\ q.pc \in Preparing => q.attempted = {}
    /\ q.pc \notin Sent => q.tried = q.attempted
    /\ q.pc \in Sent => q.tried = q.attempted \cup {q.backend} /\ q.backend \in Eligible(q)
    /\ q.pc = "failed" => q.failure # "none"
    /\ q.pc # "failed" => (q.failure = "none" <=> q.attempted = {})
    /\ q.pc \in {"affinity", "remember"} => q.thread # NoThread

\* A selection is under way, or has ended with a backend, or without one.
Searched(q) ==
    /\ q.pc # "ask" => q.available = {}
    /\ q.pc = "ask" => SelectionOK(q)
    /\ q.pc = "post" => InOrder(q, q.backend)
    /\ q.pc = "give_up" => Eligible(q) \subseteq q.refused

FlowOK(q) == q \in Forwarding /\ Examined(q) /\ Remembered(q) /\ Searched(q)

\* What a selection starts from.
ReadyToSelect(q) ==
    /\ q \in Forwarding
    /\ \A b \in DOMAIN q.ranks : q.ranks[b].available >= RequiredVram[q.workload]
    /\ ResourceAware => \A b \in 1..q.examined : b \in q.ineligible \/ b \in DOMAIN q.ranks
    /\ ResourceAware => q.examined = Cardinality(Backends)
    /\ q.tried = q.attempted
    /\ q.failure = "none" <=> q.attempted = {}
    /\ q.available = {}

\* A selection starts with a plan of which nobody has been asked, or ends at once.
LEMMA SelectionBegins ==
    ASSUME NEW q, ReadyToSelect(q)
    PROVE  /\ FlowOK(BeginSelection(q))
           /\ BeginSelection(q).pc \in {"ask", "give_up"}
           /\ BeginSelection(q).priority = q.priority
<1> DEFINE plan == Plan(q)
           pc == IF Exhausted(plan) THEN "give_up" ELSE "ask"
           p == [q EXCEPT !.plan = plan, !.refused = {}, !.on_trial = {}, !.pc = pc]
<1>1. q \in Forwarding /\ plan \in Seq([1..3 -> SUBSET Backends])
  BY PlanType DEF ReadyToSelect
<1>2. BeginSelection(q) = p
  <2> HIDE DEF plan
  <2> QED
    BY <1>1 DEF BeginSelection, Searching, plan, Forwarding
<1>3. pc \in {"ask", "give_up"} /\ (pc = "give_up" <=> Exhausted(plan))
  OBVIOUS
<1> HIDE DEF plan, pc
<1>4. p \in Forwarding
  BY <1>1, <1>3 DEF Forwarding
<1>5. /\ p.plan = plan /\ p.refused = {} /\ p.pc = pc /\ SameRequest(p, q)
      /\ p.available = q.available /\ p.tried = q.tried
  BY <1>1 DEF Forwarding, SameRequest, SameCandidates
<1> HIDE DEF p
<1>6. Plan(p) = plan /\ Eligible(p) = Eligible(q)
  BY <1>5, SamePlan DEF SameRequest, plan
<1>7. SelectionOK(p)
  BY <1>5, <1>6 DEF SelectionOK, ReadyToSelect
<1>8. pc = "give_up" => Eligible(p) \subseteq p.refused
  BY <1>3, <1>5, <1>7, EveryoneRefused DEF ReadyToSelect
<1>9. Searched(p)
  BY <1>3, <1>5, <1>7, <1>8 DEF Searched, ReadyToSelect
<1>10. Examined(p) /\ Remembered(p)
  BY <1>3, <1>5 DEF Examined, Remembered, ReadyToSelect, SameRequest, SameCandidates,
                    Preparing, Sent
<1> QED
  BY <1>2, <1>3, <1>4, <1>5, <1>9, <1>10 DEF FlowOK, SameRequest

\* After an answer the selection goes on, or has ended: in order, with a backend to which
\* the request was not sent before, or with everybody refused.
LEMMA AnswerFlows ==
    ASSUME NEW q, FlowOK(q), q.pc = "ask",
           NEW n \in DOMAIN q.plan, NEW g \in 1..3, NEW b \in Backends, IsNext(q.plan, n, g, b),
           NEW c
    PROVE  LET p == AfterAnswer(q, n, g, b, c)
           IN  /\ FlowOK(p)
               /\ p.pc \in {"ask", "post", "give_up"}
               /\ p.priority = q.priority
               /\ p.pc = "post" => p.backend \notin q.tried
<1> DEFINE asked == Asks(q, n, g, b, c)
           best == BestOf(asked.available, asked.ranks)
           next == AfterAnswer(q, n, g, b, c)
<1>1. q \in Forwarding /\ q.plan \in Seq([1..3 -> SUBSET Backends]) /\ SelectionOK(q)
  BY DEF FlowOK, Searched, Forwarding
<1>2. /\ asked \in Forwarding
      /\ asked.pc = "ask" /\ SameRequest(asked, q) /\ asked.tried = q.tried
      /\ asked.plan = StrikeOut(q.plan, n, g, b)
      /\ \/ asked.available = q.available \cup {b} /\ asked.refused = q.refused
         \/ asked.available = q.available /\ asked.refused = q.refused \cup {b}
  <2>0. q \in Forwarding
    BY <1>1
  <2>1. /\ asked \in Forwarding
        /\ asked.pc = q.pc /\ SameRequest(asked, q) /\ asked.tried = q.tried
        /\ asked.plan = StrikeOut(q.plan, n, g, b)
        /\ \/ asked.available = q.available \cup {b} /\ asked.refused = q.refused
           \/ asked.available = q.available /\ asked.refused = q.refused \cup {b}
    BY <2>0, AsksEffects
  <2> HIDE DEF asked
  <2>2. QED
    BY <2>1
<1>3. /\ next = CASE asked.plan[n][g] # {} -> asked
                   [] asked.plan[n][g] = {} /\ asked.available # {} -> Selected(asked, best)
                   [] asked.plan[n][g] = {} /\ asked.available = {} -> Searching(asked)
  BY DEF AfterAnswer
<1>4. asked.ranks \in Ranking
  BY <1>2 DEF Forwarding, Ranking
<1> HIDE DEF asked, next
<1>5. OneAnswer(q, asked, n, g, b)
  BY <1>1, <1>2 DEF OneAnswer, SameRequest
<1>6. Examined(asked) /\ Remembered(asked) /\ asked.tried = asked.attempted
  <2>1. Eligible(asked) = Eligible(q)
    BY <1>2, SamePlan DEF SameRequest
  <2> QED
    BY <1>2, <2>1 DEF FlowOK, Examined, Remembered, SameRequest, SameCandidates, Preparing, Sent
<1>7. CASE asked.plan[n][g] # {}
  <2>1. SelectionOK(asked)
    BY <1>5, <1>7, SelectionGoesOn
  <2>2. next = asked
    BY <1>3, <1>7
  <2> QED
    BY <1>2, <1>6, <2>1, <2>2 DEF FlowOK, Searched, SameRequest, next
<1>8. CASE asked.plan[n][g] = {} /\ asked.available # {}
  <2>1. InOrder(asked, best)
    BY <1>4, <1>5, <1>8, SelectionIsInOrder
  <2> DEFINE tried == asked.tried \cup {best}
             on_trial == asked.on_trial \cap {best}
             p == [asked EXCEPT !.pc = "post", !.backend = best, !.plan = <<>>, !.available = {},
                                !.tried = tried, !.on_trial = on_trial]
  <2> HIDE DEF best
  <2>2. next = p
    BY <1>3, <1>8 DEF Selected
  <2>3. best \in Backends /\ best \notin asked.attempted
    BY <2>1 DEF InOrder, Eligible
  <2>4. tried \in SUBSET Backends /\ on_trial \in SUBSET Backends
    BY <1>2, <2>3 DEF Forwarding
  <2> HIDE DEF tried, on_trial
  <2>5. p \in Forwarding
    <3>1. <<>> \in Seq([1..3 -> SUBSET Backends])
      OBVIOUS
    <3> QED
      BY <1>2, <2>3, <2>4, <3>1 DEF Forwarding
  <2>6. /\ p.pc = "post" /\ p.backend = best /\ p.available = {} /\ p.tried = tried
        /\ p.refused = asked.refused
        /\ SameRequest(p, asked)
    BY <1>2 DEF Forwarding, SameRequest, SameCandidates
  <2> HIDE DEF p
  <2>7. Eligible(p) = Eligible(asked)
        /\ \A a : PoolPosition(p, a) = PoolPosition(asked, a) /\ Closeness(p, a) = Closeness(asked, a)
    BY <2>6, SamePlan DEF SameRequest
  <2>8. InOrder(p, p.backend)
    BY <2>1, <2>6, <2>7 DEF InOrder, PreferredTo, SameRequest
  <2>9. Examined(p)
    BY <1>2, <1>6, <2>6 DEF Examined, SameRequest, SameCandidates, Preparing
  <2>10. Remembered(p)
    BY <1>2, <1>6, <2>1, <2>6, <2>7 DEF Remembered, SameRequest, SameCandidates, Preparing, Sent, tried,
       InOrder
  <2>11. FlowOK(p)
    BY <2>5, <2>6, <2>8, <2>9, <2>10 DEF FlowOK, Searched
  <2>12. p.backend \notin q.tried /\ p.priority = q.priority
    BY <1>2, <1>6, <2>3, <2>6 DEF SameRequest, SameCandidates
  <2> QED
    BY <2>2, <2>6, <2>11, <2>12 DEF next
<1>9. CASE asked.plan[n][g] = {} /\ asked.available = {}
  <2>1. SelectionOK(asked)
    BY <1>5, <1>9, SelectionGoesOn
  <2> DEFINE pc == IF Exhausted(asked.plan) THEN "give_up" ELSE "ask"
             p == [asked EXCEPT !.pc = pc]
  <2>2. next = p
    BY <1>3, <1>9 DEF Searching
  <2>3. pc \in {"ask", "give_up"} /\ (pc = "give_up" => Eligible(asked) \subseteq asked.refused)
    BY <1>9, <2>1, EveryoneRefused
  <2> HIDE DEF pc
  <2>4. p \in Forwarding
    BY <1>2, <2>3 DEF Forwarding
  <2>5. /\ p.pc = pc /\ p.plan = asked.plan /\ p.available = {} /\ p.tried = asked.tried
        /\ p.refused = asked.refused
        /\ SameRequest(p, asked)
    BY <1>2, <1>9 DEF Forwarding, SameRequest, SameCandidates
  <2> HIDE DEF p
  <2>6. Eligible(p) = Eligible(asked) /\ Plan(p) = Plan(asked)
    BY <2>5, SamePlan DEF SameRequest
  <2>7. SelectionOK(p)
    BY <1>9, <2>1, <2>5, <2>6 DEF SelectionOK
  <2>8. Searched(p)
    BY <2>3, <2>5, <2>6, <2>7 DEF Searched
  <2>9. Examined(p) /\ Remembered(p)
    BY <1>2, <1>6, <2>3, <2>5 DEF Examined, Remembered, SameRequest, SameCandidates, Preparing, Sent
  <2> QED
    BY <1>2, <2>2, <2>3, <2>4, <2>5, <2>8, <2>9 DEF FlowOK, SameRequest, next
<1>10. \/ asked.plan[n][g] # {}
       \/ asked.plan[n][g] = {} /\ asked.available # {}
       \/ asked.plan[n][g] = {} /\ asked.available = {}
  OBVIOUS
<1> QED
  BY <1>7, <1>8, <1>9, <1>10, Zenon

\* What a request has of the loop of resource_selection_state, at its head.
ReadyToExamine(q) ==
    /\ q \in Forwarding
    /\ \A b \in DOMAIN q.ranks : q.ranks[b].available >= RequiredVram[q.workload]
    /\ ResourceAware => \A b \in 1..q.examined : b \in q.ineligible \/ b \in DOMAIN q.ranks
    /\ q.attempted = {} /\ q.tried = {} /\ q.failure = "none" /\ q.available = {}

\* The number of backends is that of the configuration.
LEMMA BackendsFinite ==
    /\ IsFiniteSet(Backends)
    /\ Cardinality(Backends) \in Nat
    /\ Backends = 1..Cardinality(Backends)
<1>1. Len(BackendConfig) \in Nat /\ Backends = 1..Len(BackendConfig)
  BY ConfigAssumption DEF Backends
<1>2. IsFiniteSet(Backends) /\ Cardinality(Backends) = Len(BackendConfig)
  <2>1. \A n \in Nat : IsFiniteSet(1..n) /\ Cardinality(1..n) = n
    <3> TAKE n \in Nat
    <3>1. IsFiniteSet(1..n) /\ Cardinality(1..n) = IF 1 > n THEN 0 ELSE n - 1 + 1
      BY FS_Interval
    <3> QED
      BY <3>1
  <2> QED
    BY <1>1, <2>1
<1> QED
  BY <1>1, <1>2

\* The loop looks at the next backend's report, or the selection begins.
LEMMA ExaminationFlows ==
    ASSUME NEW q, ReadyToExamine(q)
    PROVE  /\ FlowOK(BeginResources(q))
           /\ BeginResources(q).pc \in {"report", "ask", "give_up"}
           /\ BeginResources(q).priority = q.priority
<1>1. q \in Forwarding /\ q.examined \in 0..Cardinality(Backends)
  BY DEF ReadyToExamine, Forwarding
<1>2. CASE ResourceAware /\ q.examined < Cardinality(Backends)
  <2> DEFINE p == [q EXCEPT !.pc = "report"]
  <2>1. BeginResources(q) = p
    BY <1>2 DEF BeginResources
  <2>2. p \in Forwarding
    BY <1>1 DEF Forwarding
  <2>3. /\ p.pc = "report" /\ p.ranks = q.ranks /\ p.examined = q.examined
        /\ p.ineligible = q.ineligible /\ p.workload = q.workload /\ p.attempted = q.attempted
        /\ p.tried = q.tried /\ p.failure = q.failure /\ p.available = q.available
        /\ p.priority = q.priority
    BY <1>1 DEF Forwarding
  <2> HIDE DEF p
  <2>4. Examined(p) /\ Remembered(p) /\ Searched(p)
    BY <1>2, <2>3 DEF ReadyToExamine, Examined, Remembered, Searched, Preparing, Sent
  <2> QED
    BY <2>1, <2>2, <2>3, <2>4 DEF FlowOK
<1>3. CASE ~(ResourceAware /\ q.examined < Cardinality(Backends))
  <2>1. ResourceAware => q.examined = Cardinality(Backends)
    BY <1>1, <1>3, BackendsFinite
  <2>2. ReadyToSelect(q)
    BY <2>1 DEF ReadyToSelect, ReadyToExamine
  <2>3. BeginResources(q) = BeginSelection(q)
    BY <1>3 DEF BeginResources
  <2> QED
    BY <2>2, <2>3, SelectionBegins
<1> QED
  BY <1>2, <1>3

\* One more backend is found ineligible, or is ranked with memory enough.
LEMMA JudgementFlows ==
    ASSUME NEW q, ReadyToExamine(q), q.examined < Cardinality(Backends),
           NEW p, \/ p = [q EXCEPT !.ineligible = @ \cup {q.examined + 1}]
                  \/ \E report \in ResourceReport : p = Judged(q, q.examined + 1, report)
    PROVE  /\ FlowOK(NextReport(p))
           /\ NextReport(p).pc \in {"report", "ask", "give_up"}
           /\ NextReport(p).priority = q.priority
<1> DEFINE b == q.examined + 1
           next == [p EXCEPT !.examined = @ + 1]
<1>1. /\ q \in Forwarding /\ q.examined \in Nat /\ b \in Backends
      /\ b \in 0..Cardinality(Backends) /\ q.workload \in Workloads
      /\ q.ineligible \in SUBSET Backends
  BY BackendsFinite DEF ReadyToExamine, Forwarding
<1>2. q.ranks \in Ranking
  BY <1>1 DEF Forwarding, Ranking
<1> HIDE DEF b
<1>3. /\ next \in Forwarding
      /\ next.examined = b /\ next.priority = q.priority /\ next.workload = q.workload
      /\ next.attempted = q.attempted /\ next.tried = q.tried /\ next.failure = q.failure
      /\ next.available = q.available
      /\ q.ineligible \subseteq next.ineligible
      /\ DOMAIN q.ranks \subseteq DOMAIN next.ranks
      /\ b \in next.ineligible \/ b \in DOMAIN next.ranks
      /\ \A d \in DOMAIN next.ranks : next.ranks[d].available >= RequiredVram[q.workload]
  <2>1. CASE p = [q EXCEPT !.ineligible = @ \cup {b}]
    <3> DEFINE ineligible == q.ineligible \cup {b}
    <3>1. next = [q EXCEPT !.ineligible = ineligible, !.examined = b]
      BY <1>1, <2>1 DEF Forwarding, b
    <3>2. ineligible \in SUBSET Backends
      BY <1>1
    <3> HIDE DEF ineligible
    <3> HIDE DEF next
    <3> QED
      BY <1>1, <3>1, <3>2 DEF Forwarding, ReadyToExamine, ineligible
  <2>2. CASE \E report \in ResourceReport : p = [q EXCEPT !.ranks = Put(@, b, report)]
                /\ report.available >= RequiredVram[q.workload]
    <3>1. PICK report \in ResourceReport : p = [q EXCEPT !.ranks = Put(@, b, report)]
                /\ report.available >= RequiredVram[q.workload]
      BY <2>2
    <3> DEFINE ranks == Put(q.ranks, b, report)
    <3>2. /\ DOMAIN ranks = DOMAIN q.ranks \cup {b}
          /\ \A d \in DOMAIN ranks : ranks[d] = IF d = b THEN report ELSE q.ranks[d]
          /\ ranks = [d \in DOMAIN ranks |-> ranks[d]]
      BY DEF Put
    <3> HIDE DEF ranks
    <3>3. ranks \in UNION {[S -> ResourceReport] : S \in SUBSET Backends}
      <4>1. DOMAIN q.ranks \in SUBSET Backends /\ \A d \in DOMAIN q.ranks : q.ranks[d] \in ResourceReport
        BY <1>2 DEF Ranking
      <4>2. DOMAIN ranks \in SUBSET Backends /\ \A d \in DOMAIN ranks : ranks[d] \in ResourceReport
        BY <1>1, <3>2, <4>1
      <4>3. ranks \in [DOMAIN ranks -> ResourceReport]
        BY <3>2, <4>2
      <4> QED
        BY <4>2, <4>3
    <3>4. next = [q EXCEPT !.ranks = ranks, !.examined = b]
      BY <1>1, <3>1 DEF Forwarding, b, ranks
    <3>5. \A d \in DOMAIN ranks : ranks[d].available >= RequiredVram[q.workload]
      BY <3>1, <3>2 DEF ReadyToExamine
    <3> HIDE DEF next
    <3> QED
      BY <1>1, <3>2, <3>3, <3>4, <3>5 DEF Forwarding
  <2> QED
    <3>1. \A report \in ResourceReport :
            report.available \in Nat /\ RequiredVram[q.workload] \in Nat
      BY <1>1, SizesAssumption DEF ResourceReport, Workloads
    <3> QED
      BY <2>1, <2>2, <3>1 DEF Judged, b
<1> HIDE DEF next
<1>4. ResourceAware => \A d \in 1..next.examined : d \in next.ineligible \/ d \in DOMAIN next.ranks
  <2>1. \A d \in 1..b : d = b \/ d \in 1..q.examined
    BY <1>1 DEF b
  <2> QED
    BY <1>3, <2>1 DEF ReadyToExamine
<1>5. ReadyToExamine(next)
  BY <1>3, <1>4 DEF ReadyToExamine
<1>6. NextReport(p) = BeginResources(next)
  BY DEF NextReport, next
<1> QED
  BY <1>3, <1>5, <1>6, ExaminationFlows

\* The steps that change nothing of a request but where it is, and how it failed.
MovesOn(q, pc, failure) ==
    \/ q.pc = "count" /\ pc = "affinity" /\ q.thread # NoThread /\ failure = q.failure
    \/ q.pc = "report" /\ pc = "node_report" /\ failure = q.failure
    \/ q.pc = "post" /\ pc = "succeeded" /\ failure = q.failure
    \/ q.pc = "post" /\ pc = "failed" /\ failure \in {"connection_error", "server_error"}
    \/ q.pc = "succeeded" /\ pc = "remember" /\ q.thread # NoThread /\ failure = q.failure

Moved(q, pc, failure) == [q EXCEPT !.pc = pc, !.failure = failure]

\* They keep what the request knows.
LEMMA MoveFlows ==
    ASSUME NEW q, FlowOK(q), NEW pc, NEW failure, MovesOn(q, pc, failure)
    PROVE  /\ FlowOK(Moved(q, pc, failure))
           /\ Moved(q, pc, failure).pc = pc
           /\ Moved(q, pc, failure).priority = q.priority
<1> DEFINE p == [q EXCEPT !.pc = pc, !.failure = failure]
<1>1. q \in Forwarding
  BY DEF FlowOK
<1>2. /\ pc \in {"affinity", "node_report", "succeeded", "failed", "remember"}
      /\ failure \in {"none", "connection_error", "server_error"}
  BY <1>1 DEF MovesOn, Forwarding
<1>3. p \in Forwarding
  BY <1>1, <1>2, ZenonT(40) DEF Forwarding
<1>4. /\ p.pc = pc /\ p.failure = failure /\ SameCandidates(p, q) /\ p.ranks = q.ranks
      /\ p.examined = q.examined /\ p.priority = q.priority /\ p.thread = q.thread
      /\ p.tried = q.tried /\ p.available = q.available /\ p.backend = q.backend
  BY <1>1, ZenonT(40) DEF Forwarding, SameCandidates
<1> HIDE DEF p
<1>5. Eligible(p) = Eligible(q)
  BY <1>4, SamePlan
<1>6. Examined(p)
  BY <1>4 DEF FlowOK, MovesOn, Examined, Preparing, SameCandidates
<1>7. Remembered(p)
  BY <1>4, <1>5 DEF FlowOK, MovesOn, Remembered, Preparing, Sent, SameCandidates
<1>8. Searched(p)
  BY <1>4 DEF FlowOK, MovesOn, Searched
<1> QED
  BY <1>3, <1>4, <1>6, <1>7, <1>8 DEF FlowOK, Moved, p

\* A new request knows nothing.
LEMMA NewFlows ==
    ASSUME NEW kind \in Kinds
    PROVE  /\ FlowOK(NewRequest(kind))
           /\ NewRequest(kind).pc = "count"
           /\ NewRequest(kind).priority = kind.priority
<1> DEFINE q == NewRequest(kind)
<1>1. <<>> \in UNION {[S -> ResourceReport] : S \in SUBSET Backends} /\ DOMAIN <<>> = {}
  <2>1. <<>> \in [{} -> ResourceReport]
    OBVIOUS
  <2> QED
    BY <2>1
<1>2. <<>> \in Seq([1..3 -> SUBSET Backends])
  OBVIOUS
<1>3. 0 \in 0..Cardinality(Backends)
  BY BackendsFinite
<1>4. /\ kind.workload \in Workloads /\ kind.priority \in Priorities
      /\ kind.thread \in Threads \cup {NoThread} /\ kind.origin \in {k.origin : k \in Kinds}
  BY KindsAssumption DEF Workloads, Priorities
<1>5. q \in Forwarding
  BY <1>1, <1>2, <1>3, <1>4 DEF NewRequest, Forwarding
<1>6. /\ q.pc = "count" /\ q.priority = kind.priority /\ q.ranks = <<>> /\ q.examined = 0
      /\ q.attempted = {} /\ q.tried = {} /\ q.failure = "none" /\ q.available = {}
  BY DEF NewRequest
<1> HIDE DEF q
<1>7. Examined(q) /\ Remembered(q) /\ Searched(q)
  BY <1>1, <1>6 DEF Examined, Remembered, Searched, Preparing, Sent
<1> QED
  BY <1>5, <1>6, <1>7 DEF FlowOK, q

\* The loop of resource_selection_state goes on from what a request knows.
LEMMA PreparingReady ==
    ASSUME NEW q, FlowOK(q), q.pc \in Preparing
    PROVE  ReadyToExamine(q)
BY DEF FlowOK, Examined, Remembered, Searched, Preparing, Sent, ReadyToExamine

\* After a failure the backend is one of those attempted, and a selection begins.
LEMMA RetryFlows ==
    ASSUME NEW q, FlowOK(q), q.pc = "failed"
    PROVE  /\ FlowOK(Retry(q))
           /\ Retry(q).pc \in {"ask", "give_up"}
           /\ Retry(q).priority = q.priority
<1> DEFINE attempted == q.attempted \cup {q.backend}
           p == [q EXCEPT !.attempted = attempted]
<1>1. q \in Forwarding /\ q.backend \in Backends /\ q.attempted \in SUBSET Backends
  BY DEF FlowOK, Remembered, Sent, Eligible, Forwarding
<1>2. attempted \in SUBSET Backends /\ attempted # {} /\ attempted = q.tried
  BY <1>1 DEF FlowOK, Remembered, Sent
<1> HIDE DEF attempted
<1>3. p \in Forwarding
  BY <1>1, <1>2 DEF Forwarding
<1>4. /\ p.attempted = attempted /\ p.tried = q.tried /\ p.failure = q.failure
      /\ p.ranks = q.ranks /\ p.workload = q.workload /\ p.examined = q.examined
      /\ p.ineligible = q.ineligible /\ p.available = q.available /\ p.priority = q.priority
  BY <1>1 DEF Forwarding
<1>5. Retry(q) = BeginSelection(p)
  BY DEF Retry, attempted
<1> HIDE DEF p
<1>6. ReadyToSelect(p)
  BY <1>2, <1>3, <1>4 DEF FlowOK, Examined, Remembered, Searched, Preparing, Sent, ReadyToSelect
<1> QED
  BY <1>4, <1>5, <1>6, SelectionBegins

--------------------------------------------------------------------------------
(* Steps of requests *)

\* What record_request counted is what happened.
TellsStory(q) ==
    CASE q.outcome = "completed" -> q.sent = 1
      [] q.outcome = "retried_success" -> q.sent > 1
      [] q.outcome \in {"upstream_5xx", "upstream_error"} -> q.sent > 0
      [] q.outcome \in {"unavailable", "resource_unavailable", "unsupported_workload"} -> q.sent = 0

RequestOK(q) ==
    \/ q = Idle
    \/ q \in Answered /\ TellsStory(q)
    \/ q \in Leaving
    \/ FlowOK(q)

\* Requests, and the shared state that they copy from, are as they should be.
RequestInv ==
    /\ request \in [Requests -> {Idle} \cup Answered \cup Leaving \cup Forwarding]
    /\ \A r \in Requests : RequestOK(request[r])
    /\ affinity \in [Workloads \X Threads -> Backends \cup {NoBackend}]
    /\ AffinityServes
    /\ ResourcesTypeOK

\* A request is accepted and holds a permit; it counts in the gauge.
Accepted(q) == q.pc # "idle"
Counted(q) == q.pc \notin {"idle", "count", "release"}

\* What the step of one request, from q to p, does to the two counters of its priority.
CounterStep(q, p) ==
    \/ /\ ~Accepted(q) /\ Accepted(p) /\ ~Counted(p) /\ p.priority \in Priorities
       /\ permits[p.priority] > 0
       /\ permits' = [permits EXCEPT ![p.priority] = @ - 1] /\ in_flight' = in_flight
    \/ /\ Accepted(q) /\ ~Counted(q) /\ Accepted(p) /\ Counted(p)
       /\ q.priority \in Priorities /\ p.priority = q.priority
       /\ in_flight' = [in_flight EXCEPT ![q.priority] = @ + 1] /\ permits' = permits
    \/ /\ Accepted(q) /\ Counted(q) /\ Accepted(p) /\ ~Counted(p)
       /\ q.priority \in Priorities /\ p.priority = q.priority
       /\ in_flight' = [in_flight EXCEPT ![q.priority] = @ - 1] /\ permits' = permits
    \/ /\ Accepted(q) /\ ~Counted(q) /\ ~Accepted(p) /\ q.priority \in Priorities
       /\ permits' = [permits EXCEPT ![q.priority] = @ + 1] /\ in_flight' = in_flight
    \/ /\ Accepted(q) /\ Counted(q) /\ Accepted(p) /\ Counted(p)
       /\ q.priority \in Priorities /\ p.priority = q.priority
       /\ UNCHANGED <<permits, in_flight>>

\* An answer that is recorded with a success.
LEMMA SuccessAnswered ==
    ASSUME NEW q, FlowOK(q), q.pc \in {"succeeded", "remember"}
    PROVE  LET p == Answers(q, "stream", SuccessOutcome(q))
           IN  p \in Answered /\ TellsStory(p) /\ p.priority = q.priority /\ p.pc = "stream"
<1>1. /\ q.tried = q.attempted \cup {q.backend} /\ q.backend \notin q.attempted
      /\ q.attempted \in SUBSET Backends /\ q.tried \in SUBSET Backends /\ q.priority \in Priorities
  BY DEF FlowOK, Remembered, Sent, Eligible, Forwarding
<1>2. /\ IsFiniteSet(q.attempted) /\ IsFiniteSet(q.tried)
      /\ Cardinality(q.tried) <= Cardinality(Backends)
  BY <1>1, BackendsFinite, FS_Subset
<1>3. /\ Cardinality(q.attempted) \in Nat /\ Cardinality(q.tried) = Cardinality(q.attempted) + 1
      /\ q.attempted = {} => Cardinality(q.attempted) = 0
  BY <1>1, <1>2, FS_AddElement, FS_CardinalityType, FS_EmptySet
<1> DEFINE sent == Cardinality(q.tried)
           outcome == SuccessOutcome(q)
           p == Answers(q, "stream", outcome)
<1>4. /\ (outcome = "completed" /\ sent = 1) \/ (outcome = "retried_success" /\ sent > 1)
      /\ sent \in 0..Cardinality(Backends)
  <2>1. sent \in 0..Cardinality(Backends)
    BY <1>2, <1>3, BackendsFinite
  <2>2. CASE q.attempted = {}
    BY <1>3, <2>1, <2>2 DEF SuccessOutcome
  <2>3. CASE q.attempted # {}
    <3>1. Cardinality(q.attempted) # 0
      BY <1>2, <2>3, FS_EmptySet
    <3>2. sent > 1
      BY <1>3, <3>1
    <3> QED
      BY <2>1, <2>3, <3>2 DEF SuccessOutcome
  <2> QED
    BY <2>2, <2>3
<1>5. p = [pc |-> "stream", priority |-> q.priority, outcome |-> outcome, sent |-> sent]
  BY DEF Answers
<1> HIDE DEF sent, outcome, p
<1>6. p \in Answered
  BY <1>1, <1>4, <1>5 DEF Answered, Outcome
<1>7. TellsStory(p)
  BY <1>4, <1>5 DEF TellsStory
<1> QED
  BY <1>5, <1>6, <1>7 DEF p, outcome

\* An answer that is recorded without one.
LEMMA FailureAnswered ==
    ASSUME NEW q, FlowOK(q), q.pc = "give_up"
    PROVE  LET p == CASE q.failure = "none" -> Answers(q, "drop", UnavailableOutcome(q))
                      [] q.failure = "connection_error" -> Answers(q, "drop", "upstream_error")
                      [] q.failure = "server_error" -> Answers(q, "stream", "upstream_5xx")
           IN  p \in Answered /\ TellsStory(p) /\ p.priority = q.priority /\ p.pc \in {"drop", "stream"}
<1>1. /\ q.tried = q.attempted /\ (q.failure = "none" <=> q.attempted = {})
      /\ q.tried \in SUBSET Backends /\ q.priority \in Priorities
      /\ q.failure \in {"none", "connection_error", "server_error"}
  BY DEF FlowOK, Remembered, Preparing, Sent, Forwarding
<1> DEFINE sent == Cardinality(q.tried)
<1>2. IsFiniteSet(q.tried) /\ sent <= Cardinality(Backends)
  BY <1>1, BackendsFinite, FS_Subset
<1>3. sent \in Nat /\ (sent = 0 <=> q.failure = "none")
  BY <1>1, <1>2, FS_CardinalityType, FS_EmptySet
<1>4. sent \in 0..Cardinality(Backends)
  BY <1>2, <1>3, BackendsFinite
<1>5. \A pc, outcome : Answers(q, pc, outcome) =
          [pc |-> pc, priority |-> q.priority, outcome |-> outcome, sent |-> sent]
  BY DEF Answers
<1> HIDE DEF sent
<1>6. CASE q.failure = "none"
  <2> DEFINE outcome == UnavailableOutcome(q)
             p == [pc |-> "drop", priority |-> q.priority, outcome |-> outcome, sent |-> sent]
  <2>1. outcome \in {"unsupported_workload", "resource_unavailable", "unavailable"}
    BY DEF UnavailableOutcome
  <2> HIDE DEF outcome
  <2>2. p \in Answered /\ TellsStory(p) /\ p.priority = q.priority /\ p.pc \in {"drop", "stream"}
    BY <1>1, <1>3, <1>4, <1>6, <2>1 DEF Answered, Outcome, TellsStory
  <2> QED
    BY <1>5, <1>6, <2>2 DEF outcome
<1>7. CASE q.failure = "connection_error"
  <2> DEFINE p == [pc |-> "drop", priority |-> q.priority, outcome |-> "upstream_error", sent |-> sent]
  <2>1. p \in Answered /\ TellsStory(p) /\ p.priority = q.priority /\ p.pc \in {"drop", "stream"}
    BY <1>1, <1>3, <1>4, <1>7 DEF Answered, Outcome, TellsStory
  <2> QED
    BY <1>5, <1>7, <2>1
<1>8. CASE q.failure = "server_error"
  <2> DEFINE p == [pc |-> "stream", priority |-> q.priority, outcome |-> "upstream_5xx", sent |-> sent]
  <2>1. p \in Answered /\ TellsStory(p) /\ p.priority = q.priority /\ p.pc \in {"drop", "stream"}
    BY <1>1, <1>3, <1>4, <1>8 DEF Answered, Outcome, TellsStory
  <2> QED
    BY <1>5, <1>8, <2>1
<1> QED
  BY <1>1, <1>6, <1>7, <1>8

\* The step of a request r to p: all that it changes of the requests.
RequestStep(r, p) ==
    /\ request' = [request EXCEPT ![r] = p]
    /\ RequestOK(p)
    /\ CounterStep(request[r], p)

\* Where a request is tells what it is.
LEMMA KnownByPc ==
    ASSUME NEW q, RequestOK(q)
    PROVE  /\ q.pc \in Preparing \cup Sent \cup {"ask", "give_up"} => FlowOK(q)
           /\ q.pc # "idle" => q.priority \in Priorities
           /\ FlowOK(q) => q \in Forwarding /\ q.priority \in Priorities
                           /\ q.pc \in Preparing \cup Sent \cup {"ask", "give_up"}
<1>1. CASE q = Idle
  BY <1>1 DEF Idle, Preparing, Sent, FlowOK, Forwarding
<1>2. CASE q \in Answered
  BY <1>2 DEF Answered, Preparing, Sent, FlowOK, Forwarding
<1>3. CASE q \in Leaving
  BY <1>3 DEF Leaving, Preparing, Sent, FlowOK, Forwarding
<1>4. CASE FlowOK(q)
  BY <1>4 DEF FlowOK, Forwarding, Preparing, Sent
<1> QED
  BY <1>1, <1>2, <1>3, <1>4 DEF RequestOK

\* What only holds a permit.
LEMMA LeavesOK ==
    ASSUME NEW q, RequestOK(q), q.pc # "idle", NEW pc \in {"drop", "release"}
    PROVE  RequestOK(Leaves(q, pc)) /\ Leaves(q, pc).pc = pc /\ Leaves(q, pc).priority = q.priority
<1>1. q.priority \in Priorities
  BY KnownByPc
<1> QED
  BY <1>1 DEF RequestOK, Leaves, Leaving

\* Before the first attempt: every step of a request that prepares its selection.
LEMMA PreparingSteps ==
    ASSUME RequestInv, NEW r \in Requests,
           CountIn(r) \/ ReadAffinity(r) \/ ReadBackendReport(r) \/ ReadNodeReport(r)
    PROVE  \E p : RequestStep(r, p)
<1> DEFINE q == request[r]
<1>1. RequestOK(q)
  BY DEF RequestInv
<1>2. q.pc \in Preparing
  BY DEF CountIn, ReadAffinity, ReadBackendReport, ReadNodeReport, At, Preparing
<1>3. FlowOK(q) /\ q \in Forwarding /\ q.priority \in Priorities /\ ReadyToExamine(q)
  BY <1>1, <1>2, KnownByPc, PreparingReady
<1>4. /\ q.examined \in Nat /\ q.thread \in Threads \cup {NoThread} /\ q.workload \in Workloads
      /\ q.pc \in {"report", "node_report"} => q.examined < Cardinality(Backends)
      /\ q.pc = "affinity" => q.thread # NoThread
  BY <1>3, BackendsFinite DEF Forwarding, FlowOK, Examined, Remembered
<1>5. CASE CountIn(r)
  <2> DEFINE p == IF q.thread = NoThread THEN BeginResources(q) ELSE [q EXCEPT !.pc = "affinity"]
  <2>1. /\ q.pc = "count" /\ request' = [request EXCEPT ![r] = p]
        /\ in_flight' = [in_flight EXCEPT ![q.priority] = @ + 1] /\ permits' = permits
    BY <1>5 DEF CountIn, At, Becomes
  <2>2. FlowOK(p) /\ p.pc \in {"affinity", "report", "ask", "give_up"} /\ p.priority = q.priority
    <3>1. CASE q.thread = NoThread
      BY <1>3, <3>1, ExaminationFlows
    <3>2. CASE q.thread # NoThread
      <4>1. p = Moved(q, "affinity", q.failure)
        BY <1>3, <3>2 DEF Forwarding, Moved
      <4>2. MovesOn(q, "affinity", q.failure)
        BY <2>1, <3>2 DEF MovesOn
      <4> QED
        BY <1>3, <4>1, <4>2, MoveFlows
    <3> QED
      BY <3>1, <3>2
  <2> HIDE DEF p
  <2> QED
    BY <1>3, <2>1, <2>2 DEF RequestStep, RequestOK, CounterStep, Accepted, Counted
<1>6. CASE ReadAffinity(r)
  <2> DEFINE preferred == affinity[AffinityKey(q)]
             prepared == [q EXCEPT !.preferred = preferred]
             p == BeginResources(prepared)
  <2>1. /\ q.pc = "affinity" /\ request' = [request EXCEPT ![r] = p]
        /\ UNCHANGED <<permits, in_flight>>
    BY <1>6 DEF ReadAffinity, At, Becomes
  <2>2. preferred \in Backends \cup {NoBackend}
    BY <1>4, <2>1 DEF RequestInv, AffinityKey
  <2> HIDE DEF preferred
  <2>3. prepared \in Forwarding
    BY <1>3, <2>2 DEF Forwarding
  <2>4. /\ prepared.ranks = q.ranks /\ prepared.workload = q.workload
        /\ prepared.examined = q.examined /\ prepared.ineligible = q.ineligible
        /\ prepared.attempted = q.attempted /\ prepared.tried = q.tried
        /\ prepared.failure = q.failure /\ prepared.available = q.available
        /\ prepared.priority = q.priority
    BY <1>3 DEF Forwarding
  <2> HIDE DEF prepared
  <2>5. ReadyToExamine(prepared)
    BY <1>3, <2>3, <2>4 DEF ReadyToExamine
  <2>6. FlowOK(p) /\ p.pc \in {"report", "ask", "give_up"} /\ p.priority = q.priority
    BY <2>4, <2>5, ExaminationFlows
  <2> HIDE DEF p
  <2> QED
    BY <1>3, <2>1, <2>6 DEF RequestStep, RequestOK, CounterStep, Accepted, Counted
<1>7. CASE ReadBackendReport(r)
  <2> DEFINE b == q.examined + 1
             node == BackendConfig[b].node
             p == IF node = NoNode THEN NextReport([q EXCEPT !.ineligible = @ \cup {b}])
                  ELSE IF HasFreshReport(<<node, b>>)
                       THEN NextReport(Judged(q, b, reports[<<node, b>>]))
                       ELSE [q EXCEPT !.pc = "node_report"]
  <2>1. /\ q.pc = "report" /\ request' = [request EXCEPT ![r] = p]
        /\ UNCHANGED <<permits, in_flight>>
    BY <1>7 DEF ReadBackendReport, At, Becomes
  <2>2. HasFreshReport(<<node, b>>) => reports[<<node, b>>] \in ResourceReport
    BY DEF RequestInv, ResourcesTypeOK, HasFreshReport
  <2>3. FlowOK(p) /\ p.pc \in {"node_report", "report", "ask", "give_up"} /\ p.priority = q.priority
    <3>1. CASE node = NoNode
      BY <1>3, <1>4, <2>1, <3>1, JudgementFlows
    <3>2. CASE node # NoNode /\ HasFreshReport(<<node, b>>)
      BY <1>3, <1>4, <2>1, <2>2, <3>2, JudgementFlows
    <3>3. CASE node # NoNode /\ ~HasFreshReport(<<node, b>>)
      <4>1. p = Moved(q, "node_report", q.failure)
        BY <1>3, <3>3 DEF Forwarding, Moved
      <4>2. MovesOn(q, "node_report", q.failure)
        BY <2>1, <3>3 DEF MovesOn
      <4> QED
        BY <1>3, <4>1, <4>2, MoveFlows
    <3> QED
      BY <3>1, <3>2, <3>3
  <2> HIDE DEF p
  <2> QED
    BY <1>3, <2>1, <2>3 DEF RequestStep, RequestOK, CounterStep, Accepted, Counted
<1>8. CASE ReadNodeReport(r)
  <2> DEFINE b == q.examined + 1
             key == <<BackendConfig[b].node, NoBackend>>
             judged == IF HasFreshReport(key) THEN Judged(q, b, reports[key])
                       ELSE [q EXCEPT !.ineligible = @ \cup {b}]
             p == NextReport(judged)
  <2>1. /\ q.pc = "node_report" /\ request' = [request EXCEPT ![r] = p]
        /\ UNCHANGED <<permits, in_flight>>
    BY <1>8 DEF ReadNodeReport, At, Becomes
  <2>2. \/ judged = [q EXCEPT !.ineligible = @ \cup {b}]
        \/ \E report \in ResourceReport : judged = Judged(q, b, report)
    BY DEF RequestInv, ResourcesTypeOK, HasFreshReport
  <2> HIDE DEF judged
  <2>3. FlowOK(p) /\ p.pc \in {"report", "ask", "give_up"} /\ p.priority = q.priority
    BY <1>3, <1>4, <2>1, <2>2, JudgementFlows
  <2> HIDE DEF p
  <2> QED
    BY <1>3, <2>1, <2>3 DEF RequestStep, RequestOK, CounterStep, Accepted, Counted
<1> QED
  BY <1>5, <1>6, <1>7, <1>8

\* From the selection to the answer.
LEMMA AttemptSteps ==
    ASSUME RequestInv, NEW r \in Requests,
           \/ AskCircuit(r) \/ GiveUp(r) \/ RecordFailure(r) \/ RecordSuccess(r) \/ RecordAffinity(r)
           \/ Succeeds(r)
           \/ \E failure \in {"connection_error", "server_error"} : Fails(r, failure)
    PROVE  \E p : RequestStep(r, p)
<1> DEFINE q == request[r]
<1>1. RequestOK(q)
  BY DEF RequestInv
<1>2. q.pc \in Sent \cup {"ask", "give_up"}
  BY DEF AskCircuit, GiveUp, RecordFailure, RecordSuccess, RecordAffinity, Succeeds, Fails, At, Sent
<1>3. FlowOK(q) /\ q \in Forwarding /\ q.priority \in Priorities /\ Counted(q) /\ Accepted(q)
  BY <1>1, <1>2, KnownByPc DEF Counted, Accepted, Sent
<1>4. SUFFICES ASSUME NEW p, request' = [request EXCEPT ![r] = p], RequestOK(p),
                      p.priority = q.priority, p.pc \notin {"idle", "count", "release"},
                      permits' = permits, in_flight' = in_flight
               PROVE  RequestStep(r, p)
  <2>1. CASE AskCircuit(r)
    <3>1. PICK n \in DOMAIN q.plan, g \in 1..3, b \in Backends :
              /\ IsNext(q.plan, n, g, b)
              /\ request' = [request EXCEPT ![r] = AfterAnswer(q, n, g, b, circuit[b])]
      BY <2>1 DEF AskCircuit, Becomes
    <3>2. q.pc = "ask" /\ permits' = permits /\ in_flight' = in_flight
      BY <2>1 DEF AskCircuit, At
    <3> DEFINE p == AfterAnswer(q, n, g, b, circuit[b])
    <3>3. FlowOK(p) /\ p.pc \in {"ask", "post", "give_up"} /\ p.priority = q.priority
      BY <1>3, <3>1, <3>2, AnswerFlows
    <3> HIDE DEF p
    <3> QED
      BY <1>4, <3>1, <3>2, <3>3 DEF p, RequestOK
  <2>2. CASE GiveUp(r)
    <3> DEFINE p == CASE q.failure = "none" -> Answers(q, "drop", UnavailableOutcome(q))
                      [] q.failure = "connection_error" -> Answers(q, "drop", "upstream_error")
                      [] q.failure = "server_error" -> Answers(q, "stream", "upstream_5xx")
    <3>1. /\ q.pc = "give_up" /\ permits' = permits /\ in_flight' = in_flight
          /\ request' = [request EXCEPT ![r] = p]
      BY <2>2 DEF GiveUp, At, Becomes
    <3>2. p \in Answered /\ TellsStory(p) /\ p.priority = q.priority /\ p.pc \in {"drop", "stream"}
      BY <1>3, <3>1, FailureAnswered
    <3> HIDE DEF p
    <3> QED
      BY <1>4, <3>1, <3>2 DEF RequestOK
  <2>3. CASE RecordFailure(r)
    <3> DEFINE p == Retry(q)
    <3>1. /\ q.pc = "failed" /\ permits' = permits /\ in_flight' = in_flight
          /\ request' = [request EXCEPT ![r] = p]
      BY <2>3 DEF RecordFailure, At, Becomes
    <3>2. FlowOK(p) /\ p.pc \in {"ask", "give_up"} /\ p.priority = q.priority
      BY <1>3, <3>1, RetryFlows
    <3> HIDE DEF p
    <3> QED
      BY <1>4, <3>1, <3>2 DEF RequestOK
  <2>4. CASE RecordSuccess(r)
    <3>1. /\ q.pc = "succeeded" /\ permits' = permits /\ in_flight' = in_flight
          /\ request' = [request EXCEPT ![r] =
                 IF q.thread = NoThread THEN Answers(q, "stream", SuccessOutcome(q))
                 ELSE [q EXCEPT !.pc = "remember"]]
      BY <2>4 DEF RecordSuccess, At, Becomes
    <3>2. CASE q.thread = NoThread
      <4> DEFINE p == Answers(q, "stream", SuccessOutcome(q))
      <4>1. p \in Answered /\ TellsStory(p) /\ p.priority = q.priority /\ p.pc = "stream"
        BY <1>3, <3>1, SuccessAnswered
      <4>2. request' = [request EXCEPT ![r] = p]
        BY <3>1, <3>2
      <4> HIDE DEF p
      <4> QED
        BY <1>4, <3>1, <4>1, <4>2 DEF RequestOK
    <3>3. CASE q.thread # NoThread
      <4> DEFINE p == Moved(q, "remember", q.failure)
      <4>1. request' = [request EXCEPT ![r] = p]
        BY <1>3, <3>1, <3>3 DEF Forwarding, Moved
      <4>2. MovesOn(q, "remember", q.failure)
        BY <3>1, <3>3 DEF MovesOn
      <4>3. FlowOK(p) /\ p.pc = "remember" /\ p.priority = q.priority
        BY <1>3, <4>2, MoveFlows
      <4> HIDE DEF p
      <4> QED
        BY <1>4, <3>1, <4>1, <4>3 DEF RequestOK
    <3> QED
      BY <3>2, <3>3
  <2>5. CASE RecordAffinity(r)
    <3> DEFINE p == Answers(q, "stream", SuccessOutcome(q))
    <3>1. /\ q.pc = "remember" /\ permits' = permits /\ in_flight' = in_flight
          /\ request' = [request EXCEPT ![r] = p]
      BY <2>5 DEF RecordAffinity, At, Becomes
    <3>2. p \in Answered /\ TellsStory(p) /\ p.priority = q.priority /\ p.pc = "stream"
      BY <1>3, <3>1, SuccessAnswered
    <3> HIDE DEF p
    <3> QED
      BY <1>4, <3>1, <3>2 DEF RequestOK
  <2>6. CASE Succeeds(r)
    <3> DEFINE p == Moved(q, "succeeded", q.failure)
    <3>1. /\ q.pc = "post" /\ permits' = permits /\ in_flight' = in_flight
          /\ request' = [request EXCEPT ![r] = p]
      BY <1>3, <2>6 DEF Succeeds, Goes, Becomes, At, Forwarding, Moved
    <3>2. FlowOK(p) /\ p.pc = "succeeded" /\ p.priority = q.priority
      BY <1>3, <3>1, MoveFlows DEF MovesOn
    <3> HIDE DEF p
    <3> QED
      BY <1>4, <3>1, <3>2 DEF RequestOK
  <2>7. ASSUME NEW failure \in {"connection_error", "server_error"}, Fails(r, failure)
        PROVE  \E p : RequestStep(r, p)
    <3> DEFINE p == Moved(q, "failed", failure)
    <3>1. /\ q.pc = "post" /\ permits' = permits /\ in_flight' = in_flight
          /\ request' = [request EXCEPT ![r] = p]
      BY <2>7 DEF Fails, Becomes, At, Moved
    <3>2. FlowOK(p) /\ p.pc = "failed" /\ p.priority = q.priority
      BY <1>3, <3>1, MoveFlows DEF MovesOn
    <3> HIDE DEF p
    <3> QED
      BY <1>4, <3>1, <3>2 DEF RequestOK
  <2> QED
    BY <2>1, <2>2, <2>3, <2>4, <2>5, <2>6, <2>7
<1> QED
  BY <1>3, <1>4 DEF RequestStep, CounterStep, Accepted, Counted

\* The beginning and the end.
LEMMA PermitSteps ==
    ASSUME RequestInv, NEW r \in Requests,
           \/ \E kind \in Kinds : TakePermit(r, kind)
           \/ StreamEnds(r) \/ DropPermit(r) \/ ClientLeaves(r)
    PROVE  \E p : RequestStep(r, p)
<1> DEFINE q == request[r]
<1>1. RequestOK(q) /\ (q.pc # "idle" => q.priority \in Priorities)
  BY KnownByPc DEF RequestInv
<1>2. ASSUME NEW kind \in Kinds, TakePermit(r, kind)
      PROVE  \E p : RequestStep(r, p)
  <2> DEFINE p == NewRequest(kind)
  <2>1. FlowOK(p) /\ p.pc = "count" /\ p.priority = kind.priority /\ kind.priority \in Priorities
    BY NewFlows, KindsAssumption DEF Priorities
  <2>2. /\ q.pc = "idle" /\ request' = [request EXCEPT ![r] = p] /\ in_flight' = in_flight
        /\ permits[kind.priority] > 0
        /\ permits' = [permits EXCEPT ![kind.priority] = @ - 1]
    BY <1>2 DEF TakePermit, At, Becomes
  <2> HIDE DEF p
  <2> QED
    BY <2>1, <2>2 DEF RequestStep, RequestOK, CounterStep, Accepted, Counted
<1>3. CASE StreamEnds(r) \/ ClientLeaves(r)
  <2> DEFINE p == Leaves(q, "drop")
  <2>1. /\ q.pc \notin {"idle", "count", "release"} /\ request' = [request EXCEPT ![r] = p]
        /\ permits' = permits /\ in_flight' = in_flight
    BY <1>3 DEF StreamEnds, ClientLeaves, At, Becomes
  <2>2. RequestOK(p) /\ p.pc = "drop" /\ p.priority = q.priority
    BY <1>1, <2>1, LeavesOK
  <2> HIDE DEF p
  <2> QED
    BY <1>1, <2>1, <2>2 DEF RequestStep, CounterStep, Accepted, Counted
<1>4. CASE DropPermit(r) /\ q.pc = "drop"
  <2> DEFINE p == Leaves(q, "release")
  <2>1. /\ request' = [request EXCEPT ![r] = p] /\ permits' = permits
        /\ in_flight' = [in_flight EXCEPT ![q.priority] = @ - 1]
    BY <1>4 DEF DropPermit, At, Becomes
  <2>2. RequestOK(p) /\ p.pc = "release" /\ p.priority = q.priority
    BY <1>1, <1>4, LeavesOK
  <2> HIDE DEF p
  <2> QED
    BY <1>1, <1>4, <2>1, <2>2 DEF RequestStep, CounterStep, Accepted, Counted
<1>5. CASE DropPermit(r) /\ q.pc # "drop"
  <2>1. /\ q.pc = "release" /\ request' = [request EXCEPT ![r] = Idle] /\ in_flight' = in_flight
        /\ permits' = [permits EXCEPT ![q.priority] = @ + 1]
    BY <1>5 DEF DropPermit, At, Becomes
  <2>2. Idle.pc = "idle"
    BY DEF Idle
  <2> QED
    BY <1>1, <2>1, <2>2 DEF RequestStep, RequestOK, CounterStep, Accepted, Counted
<1> QED
  BY <1>2, <1>3, <1>4, <1>5

\* Every step of the proxy is the step of a request or leaves requests and their counters
\* alone.
LEMMA StepOfOneRequest ==
    ASSUME RequestInv, [ProxyNext]_proxyVars
    PROVE  \/ \E r \in Requests : \E p : RequestStep(r, p)
           \/ UNCHANGED <<request, permits, in_flight>>
<1>1. CASE UNCHANGED proxyVars
  BY <1>1 DEF proxyVars
<1>2. ASSUME NEW r \in Requests,
             \/ \E kind \in Kinds : TakePermit(r, kind)
             \/ ForwardStep(r) \/ UpstreamStep(r) \/ ClientLeaves(r)
      PROVE  \E p : RequestStep(r, p)
  BY <1>2, PreparingSteps, AttemptSteps, PermitSteps DEF ForwardStep, UpstreamStep
<1>3. ASSUME NEW b \in Backends, ProbeRecords(b) \/ CooldownElapses(b)
      PROVE  UNCHANGED <<request, permits, in_flight>>
  BY <1>3 DEF ProbeRecords, CooldownElapses
<1>4. CASE ProxyNext
  BY <1>2, <1>3, <1>4 DEF ProxyNext
<1> QED
  BY <1>1, <1>4

\* Every step keeps what threads remember of backends that serve them.
LEMMA AffinityStep ==
    ASSUME RequestInv, [ProxyNext]_proxyVars
    PROVE  /\ affinity' \in [Workloads \X Threads -> Backends \cup {NoBackend}]
           /\ AffinityServes'
<1>1. affinity' = affinity \/ \E r \in Requests : RecordAffinity(r)
  <2>1. ASSUME NEW r \in Requests, ForwardStep(r)
        PROVE  affinity' = affinity \/ RecordAffinity(r)
    BY <2>1 DEF ForwardStep, CountIn, ReadAffinity, ReadBackendReport, ReadNodeReport, AskCircuit,
                GiveUp, RecordFailure, RecordSuccess, DropPermit
  <2>2. ASSUME NEW r \in Requests, NEW kind \in Kinds, TakePermit(r, kind)
        PROVE  affinity' = affinity
    BY <2>2 DEF TakePermit
  <2>3. ASSUME NEW r \in Requests, UpstreamStep(r) \/ ClientLeaves(r)
        PROVE  affinity' = affinity
    BY <2>3 DEF UpstreamStep, Succeeds, Fails, StreamEnds, ClientLeaves
  <2>4. ASSUME NEW b \in Backends, ProbeRecords(b) \/ CooldownElapses(b)
        PROVE  affinity' = affinity
    BY <2>4 DEF ProbeRecords, CooldownElapses
  <2> QED
    BY <2>1, <2>2, <2>3, <2>4 DEF ProxyNext, proxyVars
<1>2. CASE affinity' = affinity
  BY <1>2 DEF RequestInv, AffinityServes
<1>3. ASSUME NEW r \in Requests, RecordAffinity(r)
      PROVE  /\ affinity' \in [Workloads \X Threads -> Backends \cup {NoBackend}]
             /\ AffinityServes'
  <2> DEFINE q == request[r]
  <2>1. /\ q.pc = "remember"
        /\ affinity' = [affinity EXCEPT ![<<q.workload, q.thread>>] = q.backend]
    BY <1>3 DEF RecordAffinity, At, AffinityKey
  <2>2. FlowOK(q)
    BY <2>1, KnownByPc DEF RequestInv, Sent
  <2>3. /\ q.workload \in Workloads /\ q.thread \in Threads
        /\ q.backend \in Backends /\ RouteAllows(q.workload, q.backend)
    BY <2>1, <2>2 DEF FlowOK, Remembered, Sent, Eligible, Forwarding
  <2> HIDE DEF q
  <2> QED
    BY <2>1, <2>3 DEF RequestInv, AffinityServes
<1> QED
  BY <1>1, <1>2, <1>3

\* A valid report, and one that is stale, leave a registry of reports.
LEMMA ReportsStep ==
    ASSUME ResourcesTypeOK, ResourcesNext
    PROVE  ResourcesTypeOK'
<1>1. ASSUME NEW key \in ReportKeys, NEW total \in VramSizes, NEW reserved \in VramSizes,
             NEW load \in Loads, Report(key, total, reserved, load)
      PROVE  ResourcesTypeOK'
  <2>1. Reported(total, reserved, load) \in ResourceReport
    BY <1>1, SizesAssumption DEF Reported, ResourceReport, Report
  <2> DEFINE report == Reported(total, reserved, load)
  <2>2. reports' = Put(reports, key, report)
    BY <1>1 DEF Report
  <2> HIDE DEF report
  <2>3. /\ DOMAIN reports' = DOMAIN reports \cup {key}
        /\ \A k \in DOMAIN reports' : reports'[k] = IF k = key THEN report ELSE reports[k]
    BY <2>2 DEF Put
  <2> QED
    BY <2>1, <2>3 DEF ResourcesTypeOK, report
<1>2. ASSUME NEW key \in ReportKeys, GoesStale(key)
      PROVE  ResourcesTypeOK'
  <2>1. /\ DOMAIN reports' = DOMAIN reports \ {key}
        /\ \A k \in DOMAIN reports' : reports'[k] = reports[k]
    BY <1>2 DEF GoesStale, Restrict
  <2> QED
    BY <2>1 DEF ResourcesTypeOK
<1> QED
  BY <1>1, <1>2 DEF ResourcesNext

\* Every step keeps the invariant of the requests.
LEMMA RequestInvStep == RequestInv /\ [ProxyNext]_proxyVars => RequestInv'
<1> SUFFICES ASSUME RequestInv, [ProxyNext]_proxyVars PROVE RequestInv'
  OBVIOUS
<1>1. /\ request' \in [Requests -> {Idle} \cup Answered \cup Leaving \cup Forwarding]
      /\ \A r \in Requests : RequestOK(request'[r])
  <2>1. ASSUME NEW r \in Requests, NEW p, RequestStep(r, p)
        PROVE  /\ request' \in [Requests -> {Idle} \cup Answered \cup Leaving \cup Forwarding]
               /\ \A s \in Requests : RequestOK(request'[s])
    <3>1. p \in {Idle} \cup Answered \cup Leaving \cup Forwarding
      BY <2>1 DEF RequestStep, RequestOK, FlowOK
    <3>2. request' = [request EXCEPT ![r] = p] /\ RequestOK(p)
      BY <2>1 DEF RequestStep
    <3> QED
      BY <3>1, <3>2 DEF RequestInv
  <2>2. CASE request' = request
    BY <2>2 DEF RequestInv
  <2> QED
    BY <2>1, <2>2, StepOfOneRequest
<1>2. ResourcesTypeOK'
  <2>1. reports' = reports \/ ResourcesNext
    <3>1. ASSUME NEW r \in Requests, ForwardStep(r) PROVE reports' = reports
      BY <3>1 DEF ForwardStep, CountIn, ReadAffinity, ReadBackendReport, ReadNodeReport, AskCircuit,
                  GiveUp, RecordFailure, RecordSuccess, RecordAffinity, DropPermit
    <3>2. ASSUME NEW r \in Requests, NEW kind \in Kinds, TakePermit(r, kind) PROVE reports' = reports
      BY <3>2 DEF TakePermit
    <3>3. ASSUME NEW r \in Requests, UpstreamStep(r) \/ ClientLeaves(r) PROVE reports' = reports
      BY <3>3 DEF UpstreamStep, Succeeds, Fails, StreamEnds, ClientLeaves
    <3>4. ASSUME NEW b \in Backends, ProbeRecords(b) \/ CooldownElapses(b) PROVE reports' = reports
      BY <3>4 DEF ProbeRecords, CooldownElapses
    <3> QED
      BY <3>1, <3>2, <3>3, <3>4 DEF ProxyNext, proxyVars
  <2>2. CASE reports' = reports
    BY <2>2 DEF RequestInv, ResourcesTypeOK
  <2> QED
    BY <2>1, <2>2, ReportsStep DEF RequestInv
<1> QED
  BY <1>1, <1>2, AffinityStep DEF RequestInv

--------------------------------------------------------------------------------
(* Theorems *)

\* What requests know, and threads remember, is right in every reachable state.
THEOREM RequestsInvariant == ProxySpec => []RequestInv
<1>1. ProxyInit => RequestInv
  <2> SUFFICES ASSUME ProxyInit PROVE RequestInv
    OBVIOUS
  <2>1. /\ request \in [Requests -> {Idle} \cup Answered \cup Leaving \cup Forwarding]
        /\ \A r \in Requests : RequestOK(request[r])
    BY DEF ProxyInit, RequestOK
  <2>2. /\ affinity \in [Workloads \X Threads -> Backends \cup {NoBackend}]
        /\ AffinityServes
    BY DEF ProxyInit, AffinityServes
  <2>3. ResourcesTypeOK
    BY DEF ProxyInit, InitResources, ResourcesTypeOK
  <2> QED
    BY <2>1, <2>2, <2>3 DEF RequestInv
<1> QED
  BY <1>1, RequestInvStep, PTL DEF ProxySpec

\* What is known of a request that is about to be answered by a backend, or by none.
LEMMA KnownWhenSent ==
    ASSUME RequestInv, NEW r \in Requests
    PROVE  /\ At(r, "post") => FlowOK(request[r]) /\ InOrder(request[r], request[r].backend)
           /\ At(r, "give_up") => FlowOK(request[r]) /\ Eligible(request[r]) \subseteq request[r].refused
<1>1. RequestOK(request[r])
  BY DEF RequestInv
<1>2. At(r, "post") \/ At(r, "give_up") => FlowOK(request[r])
  BY <1>1, KnownByPc DEF At, Sent
<1> QED
  BY <1>2 DEF At, FlowOK, Searched

\* A request is sent to a backend to which no other eligible one is preferred, by pool,
\* origin node, affinity and rank, but those it found refused in this selection: for every
\* configuration, also one that lists a pool twice for a workload.
THEOREM SelectsInOrder == ProxySpec => []SentInPreferenceOrder
<1>1. RequestInv => SentInPreferenceOrder
  BY KnownWhenSent DEF SentInPreferenceOrder, InOrder
<1> QED
  BY <1>1, RequestsInvariant, PTL

\* forward gives up only when every backend that serves the workload and has the resources
\* was tried, or refused in the last selection.
THEOREM GivesUpLast == ProxySpec => []GivesUpWhenExhausted
<1>1. RequestInv => GivesUpWhenExhausted
  <2> SUFFICES ASSUME RequestInv, NEW r \in Requests, At(r, "give_up"),
                      NEW b \in Backends \ request[r].ineligible,
                      RouteAllows(request[r].workload, b)
               PROVE  b \in request[r].tried \cup request[r].refused
    BY DEF GivesUpWhenExhausted
  <2>1. FlowOK(request[r]) /\ Eligible(request[r]) \subseteq request[r].refused
    BY KnownWhenSent
  <2>2. request[r].tried = request[r].attempted
    BY <2>1 DEF FlowOK, Remembered, Sent, At
  <2> QED
    BY <2>1, <2>2 DEF Eligible
<1> QED
  BY <1>1, RequestsInvariant, PTL

\* With resource routing, every backend to which a request is sent, first or as a retry,
\* had a report with memory enough.
THEOREM SendsWhereItFits == ProxySpec => []SentWhereItFits
<1>1. RequestInv => SentWhereItFits
  <2> SUFFICES ASSUME RequestInv, NEW r \in Requests, NEW b \in Backends, ResourceAware, Sending(r, b)
               PROVE  /\ b \in DOMAIN request[r].ranks
                      /\ request[r].ranks[b].available >= RequiredVram[request[r].workload]
    BY DEF SentWhereItFits
  <2> DEFINE q == request[r]
  <2>1. At(r, "post") /\ q.backend = b
    BY DEF Sending
  <2>2. FlowOK(q) /\ b \in Eligible(q)
    BY <2>1, KnownWhenSent DEF InOrder
  <2>3. q.examined = Cardinality(Backends) /\ b \in 1..q.examined
    BY <2>1, <2>2, BackendsFinite DEF FlowOK, Examined, Preparing, At
  <2> QED
    BY <2>2, <2>3 DEF FlowOK, Examined, Eligible
<1> QED
  BY <1>1, RequestsInvariant, PTL

\* What a thread remembers for one workload is a backend that serves it.
THEOREM AffinityIsServed == ProxySpec => []AffinityServes
<1>1. RequestInv => AffinityServes
  BY DEF RequestInv
<1> QED
  BY <1>1, RequestsInvariant, PTL

\* The outcome that is counted tells to how many backends a request was sent.
THEOREM OutcomesAreTrue == ProxySpec => []OutcomeTellsStory
<1>1. RequestInv => OutcomeTellsStory
  <2> SUFFICES ASSUME RequestInv, NEW r \in Requests, "outcome" \in DOMAIN request[r]
               PROVE  TellsStory(request[r])
    BY DEF OutcomeTellsStory, TellsStory
  <2>1. RequestOK(request[r])
    BY DEF RequestInv
  <2>2. request[r] # Idle /\ request[r] \notin Leaving /\ request[r] \notin Forwarding
    <3>1. "outcome" \notin DOMAIN Idle
      BY DEF Idle
    <3>2. \A q \in Leaving : DOMAIN q = {"pc", "priority"}
      BY DEF Leaving
    <3>3. \A q \in Forwarding :
             DOMAIN q = {"pc", "workload", "priority", "thread", "origin", "preferred", "attempted",
                         "ineligible", "ranks", "examined", "plan", "available", "backend", "failure",
                         "tried", "refused", "on_trial"}
      BY DEF Forwarding
    <3> QED
      BY <3>1, <3>2, <3>3
  <2> QED
    BY <2>1, <2>2 DEF RequestOK, FlowOK
<1> QED
  BY <1>1, RequestsInvariant, PTL

\* Without pools, the origin node is blamed only when each of its backends failed for the
\* request or was refused.  It follows from the order: a backend of the origin node that is
\* eligible is preferred to one that is not of it.
THEOREM OriginBlamedRightly == ProxySpec => []OriginFallbackIsReal
<1>1. RequestInv => OriginFallbackIsReal
  <2> SUFFICES ASSUME RequestInv, NEW r \in Requests, NEW b \in Backends, Sending(r, b),
                      request[r].workload \notin DOMAIN WorkloadPools,
                      FallbackReason(request[r], b) = "origin_unavailable",
                      NEW a \in OnNode(Backends, request[r].origin)
               PROVE  a \in request[r].attempted \cup request[r].refused
    BY DEF OriginFallbackIsReal
  <2> DEFINE q == request[r]
             local == OnNode(Backends, q.origin)
  <2>1. At(r, "post") /\ q.backend = b /\ InOrder(q, b)
    BY KnownWhenSent DEF Sending
  <2>2. /\ local # {} /\ b \notin local
        /\ local \cap RouteIneligible(q.workload) = {} /\ local \cap q.ineligible = {}
    <3>1. CASE local # {} /\ b \notin local
      <4>1. PassedOver(q, local, "origin_unavailable") = "origin_unavailable"
        BY <3>1 DEF FallbackReason
      <4> QED
        BY <3>1, <4>1 DEF PassedOver
    <3>2. CASE ~(local # {} /\ b \notin local)
      <4>1. \/ FallbackReason(q, b) = PassedOver(q, {q.preferred}, "affinity_unavailable")
            \/ FallbackReason(q, b) = PassedOver(q, 1..(b - 1), "none")
        BY <3>2 DEF FallbackReason
      <4> QED
        BY <4>1 DEF PassedOver
    <3> QED
      BY <3>1, <3>2
  <2>3. SUFFICES ASSUME a \notin q.attempted PROVE a \in q.refused
    OBVIOUS
  <2>4. a \in Eligible(q) \ {b}
    BY <2>2, <2>3 DEF Eligible, RouteIneligible, OnNode
  <2>5. PreferredTo(q, a, b)
    BY <2>2 DEF PreferredTo, PoolPosition, Closeness
  <2> QED
    BY <2>1, <2>4, <2>5 DEF InOrder
<1> QED
  BY <1>1, RequestsInvariant, PTL

\* Only is_available's answer ends a selection with a backend.
LEMMA SelectedByAnswer ==
    ASSUME RequestInv, [ProxyNext]_proxyVars, NEW r \in Requests,
           At(r, "ask"), request'[r].pc = "post"
    PROVE  AskCircuit(r)
<1>1. request \in [Requests -> {Idle} \cup Answered \cup Leaving \cup Forwarding] /\ request[r].pc = "ask"
  BY DEF RequestInv, At
<1>2. request' # request
  BY <1>1
<1>3. PICK s \in Requests :
          \/ \E kind \in Kinds : TakePermit(s, kind)
          \/ ForwardStep(s) \/ UpstreamStep(s) \/ ClientLeaves(s)
  BY <1>2 DEF ProxyNext, proxyVars, ProbeRecords, CooldownElapses
<1>4. \E p : request' = [request EXCEPT ![s] = p]
  BY <1>3, PreparingSteps, AttemptSteps, PermitSteps DEF ForwardStep, UpstreamStep, RequestStep
<1>5. s = r
  BY <1>1, <1>4
<1>6. ~ClientLeaves(r)
  <2>1. Leaves(request[r], "drop").pc = "drop"
    BY DEF Leaves
  <2> QED
    BY <1>1, <2>1 DEF ClientLeaves, Becomes
<1> QED
  BY <1>1, <1>3, <1>5, <1>6
     DEF TakePermit, ForwardStep, UpstreamStep, CountIn, ReadAffinity, ReadBackendReport,
         ReadNodeReport, GiveUp, RecordFailure, RecordSuccess, RecordAffinity, DropPermit, Succeeds,
         Fails, StreamEnds, At

\* No request is sent to the same backend twice, however its circuit changes.
THEOREM NeverTriedTwice == ProxySpec => NoBackendTriedTwice
<1> DEFINE Fresh ==
      \A r \in Requests :
          At(r, "ask") /\ request'[r].pc = "post" => request'[r].backend \notin request[r].tried
<1>1. RequestInv /\ [ProxyNext]_proxyVars => [Fresh]_proxyVars
  <2> SUFFICES ASSUME RequestInv, [ProxyNext]_proxyVars, NEW r \in Requests,
                      At(r, "ask"), request'[r].pc = "post"
               PROVE  request'[r].backend \notin request[r].tried
    OBVIOUS
  <2> DEFINE q == request[r]
  <2>1. AskCircuit(r)
    BY SelectedByAnswer
  <2>2. PICK n \in DOMAIN q.plan, g \in 1..3, b \in Backends :
            /\ IsNext(q.plan, n, g, b)
            /\ request' = [request EXCEPT ![r] = AfterAnswer(q, n, g, b, circuit[b])]
    BY <2>1 DEF AskCircuit, Becomes
  <2>3. FlowOK(q) /\ q.pc = "ask"
    BY KnownByPc DEF RequestInv, At
  <2>4. request'[r] = AfterAnswer(q, n, g, b, circuit[b])
    BY <2>2 DEF RequestInv
  <2> QED
    BY <2>2, <2>3, <2>4, AnswerFlows
<1> QED
  BY <1>1, RequestsInvariant, PTL DEF ProxySpec, NoBackendTriedTwice

--------------------------------------------------------------------------------
(* The priority limiter *)

Holders(p) == {r \in Requests : Accepted(request[r]) /\ request[r].priority = p}
Counting(p) == {r \in Requests : Counted(request[r]) /\ request[r].priority = p}

\* Each permit that the semaphore lacks is held by an accepted request, and the gauge
\* counts those of them that have been counted in and not yet out.
CounterInv ==
    /\ permits \in [Priorities -> Nat]
    /\ in_flight \in [Priorities -> Nat]
    /\ \A p \in Priorities : /\ permits[p] + Cardinality(Holders(p)) = Limit[p]
                             /\ in_flight[p] = Cardinality(Counting(p))

\* Who holds a permit, and who counts, after the step of one request.
LEMMA CountersFollow ==
    ASSUME RequestInv, NEW r \in Requests, NEW q, RequestStep(r, q), NEW p
    PROVE  /\ Holders(p)' = IF Accepted(q) /\ q.priority = p
                            THEN Holders(p) \cup {r} ELSE Holders(p) \ {r}
           /\ Counting(p)' = IF Counted(q) /\ q.priority = p
                             THEN Counting(p) \cup {r} ELSE Counting(p) \ {r}
           /\ r \in Holders(p) <=> Accepted(request[r]) /\ request[r].priority = p
           /\ r \in Counting(p) <=> Counted(request[r]) /\ request[r].priority = p
<1>1. request'[r] = q /\ \A s \in Requests \ {r} : request'[s] = request[s]
  BY DEF RequestStep, RequestInv
<1>2. Holders(p)' = {s \in Requests : Accepted(request'[s]) /\ request'[s].priority = p}
  BY DEF Holders, Accepted
<1>3. Counting(p)' = {s \in Requests : Counted(request'[s]) /\ request'[s].priority = p}
  BY DEF Counting, Counted
<1> QED
  BY <1>1, <1>2, <1>3 DEF Holders, Counting

\* A set of requests with one more, or one less.
LEMMA OneMoreOrLess ==
    ASSUME NEW S \in SUBSET Requests, NEW r
    PROVE  /\ Cardinality(S) \in Nat /\ Cardinality(S \cup {r}) \in Nat /\ Cardinality(S \ {r}) \in Nat
           /\ Cardinality(S \cup {r}) = IF r \in S THEN Cardinality(S) ELSE Cardinality(S) + 1
           /\ Cardinality(S \ {r}) = IF r \in S THEN Cardinality(S) - 1 ELSE Cardinality(S)
<1>1. IsFiniteSet(S)
  BY RequestsAssumption, FS_Subset
<1>2. /\ IsFiniteSet(S \cup {r}) /\ IsFiniteSet(S \ {r})
      /\ Cardinality(S \cup {r}) = IF r \in S THEN Cardinality(S) ELSE Cardinality(S) + 1
      /\ Cardinality(S \ {r}) = IF r \in S THEN Cardinality(S) - 1 ELSE Cardinality(S)
  BY <1>1, FS_AddElement, FS_RemoveElement
<1> QED
  BY <1>1, <1>2, FS_CardinalityType

\* Every step of a request keeps the counters of its priority, and those of the others,
\* at the numbers of requests.
LEMMA CounterInvStep == RequestInv /\ CounterInv /\ [ProxyNext]_proxyVars => CounterInv'
<1> SUFFICES ASSUME RequestInv, CounterInv, [ProxyNext]_proxyVars PROVE CounterInv'
  OBVIOUS
<1>1. CASE UNCHANGED <<request, permits, in_flight>>
  BY <1>1 DEF CounterInv, Holders, Counting, Accepted, Counted
<1>2. ASSUME NEW r \in Requests, NEW q, RequestStep(r, q)
      PROVE  CounterInv'
  <2> DEFINE was == request[r]
  <2>1. CounterStep(was, q)
    BY <1>2 DEF RequestStep
  <2>2. ASSUME NEW p \in Priorities
        PROVE  /\ Cardinality(Holders(p)) \in Nat /\ Cardinality(Counting(p)) \in Nat
               /\ Cardinality(Holders(p)') \in Nat /\ Cardinality(Counting(p)') \in Nat
               /\ Cardinality(Holders(p)') = Cardinality(Holders(p))
                     + (IF Accepted(q) /\ q.priority = p THEN 1 ELSE 0)
                     - (IF Accepted(was) /\ was.priority = p THEN 1 ELSE 0)
               /\ Cardinality(Counting(p)') = Cardinality(Counting(p))
                     + (IF Counted(q) /\ q.priority = p THEN 1 ELSE 0)
                     - (IF Counted(was) /\ was.priority = p THEN 1 ELSE 0)
    <3>1. Holders(p) \in SUBSET Requests /\ Counting(p) \in SUBSET Requests
      BY DEF Holders, Counting
    <3>2. /\ Holders(p)' = IF Accepted(q) /\ q.priority = p
                           THEN Holders(p) \cup {r} ELSE Holders(p) \ {r}
          /\ r \in Holders(p) <=> Accepted(was) /\ was.priority = p
      BY <1>2, CountersFollow
    <3>3. /\ Counting(p)' = IF Counted(q) /\ q.priority = p
                            THEN Counting(p) \cup {r} ELSE Counting(p) \ {r}
          /\ r \in Counting(p) <=> Counted(was) /\ was.priority = p
      BY <1>2, CountersFollow
    <3> DEFINE H == Holders(p)
               C == Counting(p)
    <3>4. /\ Cardinality(H) \in Nat /\ Cardinality(H \cup {r}) \in Nat /\ Cardinality(H \ {r}) \in Nat
          /\ Cardinality(H \cup {r}) = IF r \in H THEN Cardinality(H) ELSE Cardinality(H) + 1
          /\ Cardinality(H \ {r}) = IF r \in H THEN Cardinality(H) - 1 ELSE Cardinality(H)
      BY <3>1, OneMoreOrLess
    <3>5. /\ Cardinality(C) \in Nat /\ Cardinality(C \cup {r}) \in Nat /\ Cardinality(C \ {r}) \in Nat
          /\ Cardinality(C \cup {r}) = IF r \in C THEN Cardinality(C) ELSE Cardinality(C) + 1
          /\ Cardinality(C \ {r}) = IF r \in C THEN Cardinality(C) - 1 ELSE Cardinality(C)
      BY <3>1, OneMoreOrLess
    <3>6. /\ Cardinality(Holders(p)') \in Nat
          /\ Cardinality(Holders(p)') = Cardinality(Holders(p))
                     + (IF Accepted(q) /\ q.priority = p THEN 1 ELSE 0)
                     - (IF Accepted(was) /\ was.priority = p THEN 1 ELSE 0)
      BY <3>2, <3>4
    <3>7. /\ Cardinality(Counting(p)') \in Nat
          /\ Cardinality(Counting(p)') = Cardinality(Counting(p))
                     + (IF Counted(q) /\ q.priority = p THEN 1 ELSE 0)
                     - (IF Counted(was) /\ was.priority = p THEN 1 ELSE 0)
      BY <3>3, <3>5
    <3> QED
      BY <3>4, <3>5, <3>6, <3>7
  <2>3. Counted(q) => Accepted(q)
    BY DEF Counted, Accepted
  <2>4. Counted(was) => Accepted(was)
    BY DEF Counted, Accepted
  <2>5. ASSUME NEW p \in Priorities
        PROVE  /\ permits'[p] + Cardinality(Holders(p)') = Limit[p]
               /\ in_flight'[p] = Cardinality(Counting(p)')
               /\ permits'[p] \in Nat
    <3>1. /\ permits[p] \in Nat /\ in_flight[p] \in Nat
          /\ permits[p] + Cardinality(Holders(p)) = Limit[p]
          /\ in_flight[p] = Cardinality(Counting(p))
          /\ permits \in [Priorities -> Nat] /\ in_flight \in [Priorities -> Nat]
      BY DEF CounterInv
    <3> HIDE DEF was
    <3>2. /\ permits'[p] = permits[p]
                + (IF Accepted(was) /\ was.priority = p THEN 1 ELSE 0)
                - (IF Accepted(q) /\ q.priority = p THEN 1 ELSE 0)
          /\ permits'[p] \in Nat
      BY <2>1, <3>1 DEF CounterStep
    <3>3. in_flight'[p] = in_flight[p]
                + (IF Counted(q) /\ q.priority = p THEN 1 ELSE 0)
                - (IF Counted(was) /\ was.priority = p THEN 1 ELSE 0)
      BY <2>1, <2>3, <2>4, <3>1 DEF CounterStep
    <3>4. Limit[p] \in Nat
      BY LimitAssumption DEF Priorities
    <3> DEFINE holders == Cardinality(Holders(p)')
               counting == Cardinality(Counting(p)')
    <3>5. /\ Cardinality(Holders(p)) \in Nat /\ holders \in Nat
          /\ holders = Cardinality(Holders(p))
                + (IF Accepted(q) /\ q.priority = p THEN 1 ELSE 0)
                - (IF Accepted(was) /\ was.priority = p THEN 1 ELSE 0)
      BY <2>2
    <3>6. counting = Cardinality(Counting(p))
                + (IF Counted(q) /\ q.priority = p THEN 1 ELSE 0)
                - (IF Counted(was) /\ was.priority = p THEN 1 ELSE 0)
      BY <2>2
    <3> HIDE DEF holders, counting
    <3>7. permits'[p] + holders = Limit[p]
      BY <3>1, <3>2, <3>4, <3>5
    <3>8. in_flight'[p] = counting
      BY <3>1, <3>3, <3>6
    <3> QED
      BY <3>2, <3>7, <3>8 DEF holders, counting
  <2>6. /\ permits' = [p \in Priorities |-> permits'[p]]
        /\ in_flight' = [p \in Priorities |-> in_flight'[p]]
    <3>1. permits \in [Priorities -> Nat] /\ in_flight \in [Priorities -> Nat]
      BY DEF CounterInv
    <3> HIDE DEF was
    <3> QED
      BY <2>1, <3>1 DEF CounterStep
  <2> QED
    BY <2>2, <2>5, <2>6 DEF CounterInv
<1> QED
  BY <1>1, <1>2, StepOfOneRequest

\* The semaphore and the gauge agree with the requests in every reachable state.
THEOREM CountersInvariant == ProxySpec => []CounterInv
<1>1. ProxyInit => CounterInv
  <2> SUFFICES ASSUME ProxyInit PROVE CounterInv
    OBVIOUS
  <2>1. \A r \in Requests : ~Accepted(request[r]) /\ ~Counted(request[r])
    BY DEF ProxyInit, Idle, Accepted, Counted
  <2>2. \A p : Holders(p) = {} /\ Counting(p) = {}
    BY <2>1 DEF Holders, Counting
  <2>3. Cardinality({}) = 0
    BY FS_EmptySet
  <2>4. /\ permits \in [Priorities -> Nat] /\ in_flight \in [Priorities -> Nat]
        /\ \A p \in Priorities : permits[p] = Limit[p] /\ Limit[p] \in Nat /\ in_flight[p] = 0
    BY LimitAssumption DEF ProxyInit, Priorities
  <2>5. \A p : Cardinality(Holders(p)) = 0 /\ Cardinality(Counting(p)) = 0
    BY <2>2, <2>3
  <2> QED
    BY <2>4, <2>5 DEF CounterInv
<1> QED
  BY <1>1, CounterInvStep, RequestsInvariant, PTL DEF ProxySpec

\* The gauge that /metrics shows is never above the limit, and never below zero.
THEOREM GaugeBounded == ProxySpec => []GaugeWithinLimit
<1>1. CounterInv => GaugeWithinLimit
  <2> SUFFICES ASSUME CounterInv, NEW p \in Priorities PROVE in_flight[p] \in 0..Limit[p]
    BY DEF GaugeWithinLimit
  <2>1. Counting(p) \subseteq Holders(p) /\ Holders(p) \subseteq Requests
    BY DEF Counting, Holders, Counted, Accepted
  <2>2. IsFiniteSet(Holders(p))
    BY <2>1, RequestsAssumption, FS_Subset
  <2>3. Cardinality(Counting(p)) <= Cardinality(Holders(p)) /\ Cardinality(Holders(p)) \in Nat
    BY <2>1, <2>2, FS_Subset, FS_CardinalityType
  <2> QED
    BY <2>3, LimitAssumption DEF CounterInv, Priorities
<1> QED
  BY <1>1, CountersInvariant, PTL

\* Requests, counters, affinity, circuits and reports stay what they are.
THEOREM ProxyTypeCorrect == ProxySpec => []ProxyTypeOK
<1>1. RequestInv /\ CounterInv /\ CircuitInv => ProxyTypeOK
  <2> SUFFICES ASSUME RequestInv, CounterInv, CircuitInv PROVE ProxyTypeOK
    OBVIOUS
  <2>1. \A p \in Priorities : permits[p] \in 0..Limit[p] /\ in_flight[p] \in Nat
    <3> TAKE p \in Priorities
    <3>1. Cardinality(Holders(p)) \in Nat
      BY OneMoreOrLess DEF Holders
    <3> QED
      BY <3>1, LimitAssumption DEF CounterInv, Priorities
  <2> QED
    BY <2>1 DEF RequestInv, CircuitInv, ProxyTypeOK
<1> QED
  BY <1>1, RequestsInvariant, CountersInvariant, CircuitsInvariant, PTL

================================================================================

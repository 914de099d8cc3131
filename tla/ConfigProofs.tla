------------------------------ MODULE ConfigProofs ------------------------------
(***************************************************************************)
(* Theorems about what Config lets start, for any set of environments.     *)
(***************************************************************************)
EXTENDS Config, JobQueuesProofs

--------------------------------------------------------------------------------
(* What each part of the validation leaves *)

\* validate_backends leaves only backends whose pools are not blank; backends of BACKENDS
\* are in the default pool.
LEMMA BackendsChecked ==
    ASSUME NEW env, BackendComplaints(env) = {}
    PROVE  \A i \in DOMAIN BackendsOf(env) : ~IsBlank(BackendsOf(env)[i].pool)
<1>1. CASE IsSet(env, "BACKENDS_JSON")
  <2>1. InvalidBackends(BackendsOf(env)) = {}
    BY <1>1 DEF BackendComplaints
  <2> QED
    BY <2>1 DEF InvalidBackends, Complain
<1>2. CASE ~IsSet(env, "BACKENDS_JSON")
  <2>1. ASSUME NEW i, NEW url PROVE LegacyBackend(i, url).pool = DefaultPool
    BY DEF LegacyBackend, BackendDefaults, Joined
  <2>2. ~IsBlank(DefaultPool)
    BY DEF DefaultPool, IsBlank, Trim, Plain
  <2> QED
    BY <1>2, <2>1, <2>2 DEF BackendsOf
<1> QED
  BY <1>1, <1>2

\* The list of a set of known pools has each of them once.
LEMMA SortedPools ==
    ASSUME NEW pools, pools \subseteq {Plain(name) : name \in ToSet(PoolNames)}
    PROVE  ToSet(Sorted(pools)) = pools /\ IsInjective(Sorted(pools))
<1> DEFINE places == {n \in DOMAIN PoolNames : Plain(PoolNames[n]) \in pools}
           names == Picked(PoolNames, places)
<1>1. Sorted(pools) = [i \in DOMAIN names |-> Plain(names[i])]
  BY DEF Sorted
<1>2. NoDuplicates(PoolNames)
  BY PoolNamesAssumption DEF IsInjective, NoDuplicates
<1>3. places \in SUBSET (DOMAIN PoolNames)
  OBVIOUS
<1>4. Members(names) = {PoolNames[n] : n \in places} /\ NoDuplicates(names)
  <2> HIDE DEF places
  <2> QED
    BY <1>2, <1>3, PoolNamesAssumption, PickedLists
<1> HIDE DEF names
<1>5. IsInjective(Sorted(pools))
  BY <1>1, <1>4 DEF NoDuplicates, IsInjective, Plain
<1>6. ASSUME NEW pool \in ToSet(Sorted(pools)) PROVE pool \in pools
  <2>1. PICK i \in DOMAIN names : pool = Plain(names[i])
    BY <1>1 DEF ToSet
  <2>2. names[i] \in Members(names)
    BY DEF Members
  <2> QED
    BY <1>4, <2>1, <2>2
<1>7. ASSUME NEW pool \in pools PROVE pool \in ToSet(Sorted(pools))
  <2>1. PICK n \in DOMAIN PoolNames : pool = Plain(PoolNames[n])
    BY DEF ToSet
  <2>2. PoolNames[n] \in Members(names)
    BY <1>4, <2>1
  <2>3. PICK i \in DOMAIN names : names[i] = PoolNames[n]
    BY <2>2 DEF Members
  <2> QED
    BY <1>1, <2>1, <2>3 DEF ToSet
<1> QED
  BY <1>5, <1>6, <1>7

\* The pools that are declared, or derived from the backends: named once, not blank, and
\* those of all backends are among them.
LEMMA PoolsChecked ==
    ASSUME NEW env, WellFormed(env), BackendComplaints(env) = {}, PoolComplaints(env) = {}
    PROVE  /\ DefaultPool \in ToSet(PoolsOf(env)) \/ IsSet(env, "POOLS_JSON")
           /\ PoolsOf(env) # <<>> /\ IsInjective(PoolsOf(env))
           /\ Plain("") \notin ToSet(PoolsOf(env))
           /\ BackendPools(env) \subseteq ToSet(PoolsOf(env))
<1>1. CASE IsSet(env, "POOLS_JSON")
  BY <1>1 DEF PoolComplaints, Complain, UnknownBackendPool
<1>2. CASE ~IsSet(env, "POOLS_JSON")
  <2> DEFINE pools == {DefaultPool} \cup BackendPools(env)
  <2>1. PoolsOf(env) = Sorted(pools)
    BY <1>2 DEF PoolsOf, DerivedPools
  <2>2. pools \subseteq {Plain(name) : name \in ToSet(PoolNames)}
    BY DEF WellFormed
  <2>3. ToSet(PoolsOf(env)) = pools /\ IsInjective(PoolsOf(env))
    BY <2>1, <2>2, SortedPools
  <2>4. PoolsOf(env) # <<>>
    BY <2>3 DEF ToSet
  <2>5. Plain("") \notin pools
    <3>1. Plain("") # DefaultPool
      BY DEF DefaultPool, Plain
    <3>2. Plain("") \notin BackendPools(env)
      BY BackendsChecked DEF BackendPools, IsBlank, Plain
    <3> QED
      BY <3>1, <3>2
  <2> QED
    BY <2>3, <2>4, <2>5
<1> QED
  BY <1>1, <1>2

\* The last entry with a given name exists.
LEMMA LastEntry ==
    ASSUME NEW entries, IsList(entries), NEW w \in Covered(entries)
    PROVE  \E i \in DOMAIN entries :
               /\ Trim(entries[i].workload) = w
               /\ \A j \in DOMAIN entries : Trim(entries[j].workload) = w => j <= i
<1> DEFINE places == {i \in DOMAIN entries : Trim(entries[i].workload) = w}
<1>1. Len(entries) \in Nat /\ DOMAIN entries = 1..Len(entries)
  BY LenProperties DEF IsList
<1>2. places \in SUBSET (1..Len(entries)) /\ places # {}
  BY <1>1 DEF Covered
<1>3. PICK i \in places : \A j \in places : j <= i
  <2> HIDE DEF places
  <2> QED
    BY <1>1, <1>2, LargestExists
<1> QED
  BY <1>3

\* validate_workload_pools: each workload has pools, and all of them exist.
LEMMA PolicyChecked ==
    ASSUME NEW env, WellFormed(env), BackendComplaints(env) = {}, PoolComplaints(env) = {},
           PolicyComplaints(env) = {}
    PROVE  /\ \A w \in DOMAIN PolicyOf(env) :
                  /\ PolicyOf(env)[w] # <<>>
                  /\ ToSet(PolicyOf(env)[w]) \subseteq ToSet(PoolsOf(env))
           /\ Flag(env, "STRICT_WORKLOAD_POOLS") => DOMAIN PolicyOf(env) = KnownWorkloads
<1>1. CASE ~IsSet(env, "WORKLOAD_POOLS_JSON")
  BY <1>1, PoolsChecked DEF PolicyOf, DefaultWorkloadPools
<1>2. CASE IsSet(env, "WORKLOAD_POOLS_JSON")
  <2> DEFINE entries == env["WORKLOAD_POOLS_JSON"]
             LastOf(w) == CHOOSE i \in DOMAIN entries :
                            /\ Trim(entries[i].workload) = w
                            /\ \A j \in DOMAIN entries : Trim(entries[j].workload) = w => j <= i
  <2>1. entries # Malformed /\ InvalidPolicy(env) = {}
    BY <1>2 DEF PolicyComplaints
  <2>2. IsList(entries) /\ \A i \in DOMAIN entries : IsList(entries[i].pools)
    BY <1>2, <2>1 DEF WellFormed, Parsed
  <2>3. /\ \A i \in DOMAIN entries :
               entries[i].pools # <<>> /\ ~UnknownPool(env, entries[i].pools)
        /\ ~Incomplete(env)
    BY <2>1 DEF InvalidPolicy, Complain
  <2>4. PolicyOf(env) = [w \in Covered(entries) |-> Trimmed(entries[LastOf(w)].pools)]
    BY <1>2 DEF PolicyOf
  <2>5. ASSUME NEW w \in Covered(entries)
        PROVE  /\ PolicyOf(env)[w] # <<>>
               /\ ToSet(PolicyOf(env)[w]) \subseteq ToSet(PoolsOf(env))
    <3> DEFINE texts == entries[LastOf(w)].pools
    <3>1. LastOf(w) \in DOMAIN entries
      BY <2>2, LastEntry
    <3> HIDE DEF LastOf, entries
    <3>2. IsList(texts) /\ texts # <<>> /\ ~UnknownPool(env, texts)
      BY <2>2, <2>3, <3>1
    <3>3. PolicyOf(env)[w] = Trimmed(texts)
      BY <2>4
    <3> HIDE DEF texts
    <3>4. DOMAIN texts # {}
      <4>1. texts \in Seq(ToSet(texts))
        BY <3>2 DEF IsList
      <4>2. Len(texts) \in Nat \ {0} /\ DOMAIN texts = 1..Len(texts)
        BY <3>2, <4>1, EmptySeq, LenProperties
      <4> QED
        BY <4>2
    <3>5. Trimmed(texts) # <<>>
      BY <3>4 DEF Trimmed
    <3>6. ToSet(Trimmed(texts)) \subseteq ToSet(PoolsOf(env))
      BY <3>2 DEF Trimmed, ToSet, UnknownPool
    <3> QED
      BY <3>3, <3>5, <3>6
  <2>6. Flag(env, "STRICT_WORKLOAD_POOLS") => Covered(entries) = KnownWorkloads
    BY <2>3 DEF Incomplete
  <2> QED
    BY <2>4, <2>5, <2>6
<1> QED
  BY <1>1, <1>2

--------------------------------------------------------------------------------
(* What runs *)

\* A server runs with the configuration of its environment, and only if nothing is
\* complained about.
ConfigInv ==
    /\ case \in Cases
    /\ IsRunning => Complaints(case.env) = {} /\ server.config = ConfigOf(case.env)

\* main starts with ConfigInv and keeps it.
LEMMA ConfigInvariant == ConfigSpec => []ConfigInv
<1>1. ConfigInit => ConfigInv
  BY DEF ConfigInit, ConfigInv, IsRunning, Off
<1>2. ConfigInv /\ [Start]_configVars => ConfigInv'
  <2> SUFFICES ASSUME ConfigInv, [Start]_configVars PROVE ConfigInv'
    OBVIOUS
  <2>1. CASE Start
    <3>1. case' = case
      BY <2>1 DEF Start
    <3>2. CASE Complaints(case.env) # {}
      BY <2>1, <3>1, <3>2 DEF Start, ConfigInv, IsRunning, Refused
    <3>3. CASE Complaints(case.env) = {}
      BY <2>1, <3>1, <3>3 DEF Start, ConfigInv, IsRunning, Running
    <3> QED
      BY <3>2, <3>3
  <2>2. CASE UNCHANGED configVars
    BY <2>2 DEF configVars, ConfigInv, IsRunning
  <2> QED
    BY <2>1, <2>2
<1> QED
  BY <1>1, <1>2, PTL DEF ConfigSpec

\* Every part of the validation passed the environment of a server that runs.
LEMMA RunningChecked ==
    ASSUME ConfigInv, IsRunning
    PROVE  /\ WellFormed(case.env)
           /\ BackendComplaints(case.env) = {}
           /\ PoolComplaints(case.env) = {}
           /\ PolicyComplaints(case.env) = {}
           /\ server.config.backends = BackendsOf(case.env)
           /\ server.config.pools = PoolsOf(case.env)
           /\ server.config.policy = PolicyOf(case.env)
<1>1. WellFormed(case.env)
  BY CasesAssumption DEF ConfigInv
<1>2. Complaints(case.env) = {} /\ server.config = ConfigOf(case.env)
  BY DEF ConfigInv
<1>3. /\ BackendComplaints(case.env) = {}
      /\ PoolComplaints(case.env) = {}
      /\ PolicyComplaints(case.env) = {}
  BY <1>2 DEF Complaints
<1>4. /\ ConfigOf(case.env).backends = BackendsOf(case.env)
      /\ ConfigOf(case.env).pools = PoolsOf(case.env)
      /\ ConfigOf(case.env).policy = PolicyOf(case.env)
  BY DEF ConfigOf, Joined
<1> QED
  BY <1>1, <1>2, <1>3, <1>4

\* What from_lookup accepts is closed: every pool that a backend or a workload names exists,
\* from whichever of the variables and defaults the configuration was put together.
THEOREM StartsClosed == ConfigSpec => []ReferencesResolve
<1>1. ConfigInv => ReferencesResolve
  <2> SUFFICES ASSUME ConfigInv, IsRunning PROVE ReferencesResolve
    BY DEF ReferencesResolve
  <2> DEFINE pools == ToSet(server.config.pools)
  <2>1. /\ DefaultPool \in pools \/ IsSet(case.env, "POOLS_JSON")
        /\ IsInjective(server.config.pools) /\ Plain("") \notin pools
        /\ BackendPools(case.env) \subseteq pools
    BY RunningChecked, PoolsChecked
  <2>2. \A i \in DOMAIN server.config.backends : Plain(Trim(server.config.backends[i].pool)) \in pools
    BY <2>1, RunningChecked DEF BackendPools
  <2>3. \A w \in DOMAIN server.config.policy :
            server.config.policy[w] # <<>> /\ ToSet(server.config.policy[w]) \subseteq pools
    BY RunningChecked, PolicyChecked
  <2> QED
    BY <2>1, <2>2, <2>3 DEF ReferencesResolve
<1> QED
  BY <1>1, ConfigInvariant, PTL

\* A server that starts with STRICT_WORKLOAD_POOLS lets no known workload use a pool that is
\* not declared.
THEOREM StrictIsStrict == ConfigSpec => []StrictLeavesNothingOpen
<1>1. ConfigInv => StrictLeavesNothingOpen
  <2> SUFFICES ASSUME ConfigInv, IsRunning, Flag(case.env, "STRICT_WORKLOAD_POOLS"),
                      NEW w \in KnownWorkloads, NEW name, Allowed(server.config, w, Plain(name))
               PROVE  Plain(name) \in ToSet(server.config.pools)
    BY DEF StrictLeavesNothingOpen
  <2>1. w \in DOMAIN server.config.policy
    BY RunningChecked, PolicyChecked
  <2> QED
    BY <2>1, RunningChecked, PolicyChecked DEF Allowed
<1> QED
  BY <1>1, ConfigInvariant, PTL

\* The policy that default_workload_pools derives reaches every backend for each of its
\* workloads, if the backend's pool is written without space around it.
THEOREM DefaultPolicyReachesAll == ConfigSpec => []DefaultPolicyReachesBackends
<1>1. ConfigInv => DefaultPolicyReachesBackends
  <2> SUFFICES ASSUME ConfigInv, IsRunning, ~IsSet(case.env, "WORKLOAD_POOLS_JSON"),
                      NEW i \in DOMAIN server.config.backends,
                      ~server.config.backends[i].pool.padded,
                      NEW w \in ToSet(server.config.backends[i].workloads)
               PROVE  Selection!RouteAllows(w, i)
    BY DEF DefaultPolicyReachesBackends
  <2> DEFINE pool == server.config.backends[i].pool
  <2>1. pool = Plain(Trim(pool))
    <3>1. IsText(pool)
      BY RunningChecked DEF WellFormed
    <3>2. ~pool.padded
      OBVIOUS
    <3> HIDE DEF pool
    <3> QED
      BY <3>1, <3>2 DEF IsText, Plain, Padded, Trim
  <2>2. pool \in ToSet(server.config.pools)
    BY <2>1, RunningChecked, PoolsChecked DEF BackendPools
  <2>3. \A x \in DOMAIN server.config.policy : server.config.policy[x] = server.config.pools
    BY RunningChecked DEF PolicyOf, DefaultWorkloadPools
  <2> QED
    BY <2>2, <2>3 DEF Selection!RouteAllows, Selection!ToSet, ToSet, ProxyBackend
<1> QED
  BY <1>1, ConfigInvariant, PTL

================================================================================

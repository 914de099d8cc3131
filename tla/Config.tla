---------------------------------- MODULE Config ----------------------------------
(***************************************************************************)
(* How Fairlead starts (src/config.rs, main in src/main.rs): the           *)
(* environment is read, checked, and either refused with a complaint or    *)
(* turned into the configuration that the server runs with.                *)
(*                                                                         *)
(* An environment is a function on the variables that are set.  JSON is    *)
(* modelled after parsing: a value that serde or FromStr refuses is        *)
(* Malformed.  A check that finds several mistakes reports one of them;    *)
(* the model keeps the set of all.  Both spellings of a pool (a string, or *)
(* an object with an id) are its text, and a case is never told apart      *)
(* from another, since every comparison of a keyword folds it.             *)
(***************************************************************************)
EXTENDS JobQueues, SequencesExt, Functions, TLC, Text

CONSTANTS
    Cases,      \* the starts to consider: [env, expect]
    PoolNames,  \* the names of pools, in the order of String
    Malformed,  \* text that cannot be parsed
    None        \* None

ASSUME PoolNamesAssumption == PoolNames \in Seq(STRING) /\ IsInjective(PoolNames)

VARIABLES
    case,       \* the environment, and what a test expects of it
    server      \* what became of the start

configVars == <<case, server>>

IsSet(env, key) == key \in DOMAIN env
Complain(holds, complaint) == IF holds THEN {complaint} ELSE {}

\* The fields of f, and those of g that f does not have.
Joined(f, g) == [x \in DOMAIN f \cup DOMAIN g |-> IF x \in DOMAIN f THEN f[x] ELSE g[x]]

--------------------------------------------------------------------------------
(* Keywords and numbers *)

\* A number as text, and the bits that it takes.
Number(n) == [number |-> n, bits |-> 16]
NumberOfBits(bits) == [number |-> 1, bits |-> bits]

\* STRICT_WORKLOAD_POOLS, STRICT_WORKER_POOLS: surrounding space is ignored.
Flag(env, key) == IsSet(env, key) /\ Trim(env[key]) = "true"

\* RESOURCE_AWARE_ROUTING and LOG_FORMAT: it is not.
ExactFlag(env, key, word) == IsSet(env, key) /\ env[key] = Plain(word)

Setting(default, bits, nonzero) == [default |-> default, bits |-> bits, nonzero |-> nonzero]

\* The numeric fields of Config: default, width, and whether they go through
\* parse_nonzero or parse_optional_nonzero.
Settings ==
    [PORT |-> Setting(7000, 16, FALSE),
     CIRCUIT_FAILURE_THRESHOLD |-> Setting(3, 32, FALSE),
     CIRCUIT_COOLDOWN_SECS |-> Setting(30, 64, FALSE),
     HEALTH_PROBE_INTERVAL_SECS |-> Setting(10, 64, FALSE),
     RESOURCE_REPORT_TTL_SECS |-> Setting(30, 64, FALSE),
     CHAT_COMPLETIONS_REQUIRED_VRAM_MB |-> Setting(1024, 64, FALSE),
     EMBEDDINGS_REQUIRED_VRAM_MB |-> Setting(512, 64, FALSE),
     PRIORITY_REALTIME_LIMIT |-> Setting(8, 64, FALSE),
     PRIORITY_BATCH_LIMIT |-> Setting(4, 64, FALSE),
     PRIORITY_BACKGROUND_LIMIT |-> Setting(2, 64, FALSE),
     JOB_RETENTION_SECS |-> Setting(86400, 64, FALSE),
     JOB_PRUNE_LIMIT |-> Setting(1000, 64, TRUE),
     JOB_PRUNE_INTERVAL_SECS |-> Setting(None, 64, TRUE),
     JOB_MAINTENANCE_INTERVAL_SECS |-> Setting(30, 64, TRUE),
     JOB_LEASE_DURATION_MS |-> Setting(30000, 64, TRUE),
     CALLBACK_MAX_ATTEMPTS |-> Setting(3, 32, TRUE),
     CALLBACK_TIMEOUT_SECS |-> Setting(5, 64, TRUE),
     CALLBACK_RETRY_DELAY_MS |-> Setting(250, 64, FALSE)]

\* parse, parse_nonzero, parse_optional_nonzero.
ValidNumber(text, setting) ==
    /\ text # Malformed
    /\ text.bits <= setting.bits
    /\ setting.nonzero => text.number # 0

\* Every numeric variable that is set is valid; the complaint names it.
SettingComplaints(env) ==
    {key \in DOMAIN Settings \cap DOMAIN env : ~ValidNumber(env[key], Settings[key])}

SettingsOf(env) ==
    [key \in DOMAIN Settings |-> IF IsSet(env, key) THEN env[key].number ELSE Settings[key].default]

\* parse_job_store.
JobStoreOf(env) == IF IsSet(env, "JOB_STORE") THEN Trim(env["JOB_STORE"]) ELSE "memory"
JobDbPath(env) == IF IsSet(env, "JOB_DB_PATH") THEN Trim(env["JOB_DB_PATH"]) ELSE "fairlead_jobs.sqlite3"

StoreComplaints(env) ==
    Complain(JobStoreOf(env) \notin {"memory", "sqlite"}, "JOB_STORE")
        \cup Complain(JobStoreOf(env) = "sqlite" /\ JobDbPath(env) = "", "JOB_DB_PATH")

StoreOf(env) ==
    IF JobStoreOf(env) = "sqlite" THEN [kind |-> "sqlite", path |-> JobDbPath(env)]
    ELSE [kind |-> "memory"]

--------------------------------------------------------------------------------
(* Backends *)

DefaultPool == Plain("default")
ProxyWorkloads == <<"chat_completions", "embeddings">>

\* BackendConfig: the fields that an entry leaves out.
BackendDefaults ==
    [node_id |-> None, pool |-> DefaultPool, workloads |-> ProxyWorkloads, health_path |-> None]

BackendOf(entry) == Joined(entry, BackendDefaults)

\* Mutant: the ids count from one.
LegacyBackendFromOne(i, url) ==
    Joined([id |-> Plain(<<"backend", i>>), url |-> Plain(url)], BackendDefaults)

\* from_legacy_url.
LegacyBackend(i, url) ==
    Joined([id |-> Plain(<<"backend", i - 1>>), url |-> Plain(url)], BackendDefaults)

\* The entries of BACKENDS that are not blank.
LegacyUrls(env) ==
    IF ~IsSet(env, "BACKENDS") THEN <<>>
    ELSE Picked(env["BACKENDS"], {i \in DOMAIN env["BACKENDS"] : ~IsBlank(env["BACKENDS"][i])})

\* parse_backends.
BackendsOf(env) ==
    IF IsSet(env, "BACKENDS_JSON")
    THEN [i \in DOMAIN env["BACKENDS_JSON"] |-> BackendOf(env["BACKENDS_JSON"][i])]
    ELSE [i \in DOMAIN LegacyUrls(env) |-> LegacyBackend(i, Trim(LegacyUrls(env)[i]))]

\* validate_backends.
InvalidBackends(backends) ==
    LET Some(Wrong(_)) == \E i \in DOMAIN backends : Wrong(backends[i])
    IN  Complain(Some(LAMBDA b : IsBlank(b.id)), "backend id cannot be empty")
            \cup Complain(Some(LAMBDA b : IsBlank(b.url)), "url cannot be empty")
            \cup Complain(Some(LAMBDA b : IsBlank(b.pool)), "pool cannot be empty")
            \cup Complain(Some(LAMBDA b : b.workloads = <<>>), "must support at least one workload")
            \cup Complain(Some(LAMBDA b : b.health_path # None /\ IsBlank(b.health_path)),
                          "health_path cannot be empty")
            \cup Complain(\E i, j \in DOMAIN backends : i # j /\ backends[i].id = backends[j].id,
                          "duplicate backend id")

BackendComplaints(env) ==
    IF ~IsSet(env, "BACKENDS_JSON") THEN {}
    ELSE IF env["BACKENDS_JSON"] = Malformed THEN {"invalid BACKENDS_JSON"}
    ELSE InvalidBackends(BackendsOf(env))

--------------------------------------------------------------------------------
(* Pools *)

Trimmed(texts) == [i \in DOMAIN texts |-> Plain(Trim(texts[i]))]

\* The pools of the backends, trimmed.
BackendPools(env) ==
    {Plain(Trim(BackendsOf(env)[i].pool)) : i \in DOMAIN BackendsOf(env)}

\* A BTreeSet of pools as a list.
Sorted(pools) ==
    LET names == Picked(PoolNames, {n \in DOMAIN PoolNames : Plain(PoolNames[n]) \in pools})
    IN  [i \in DOMAIN names |-> Plain(names[i])]

\* Without POOLS_JSON: the pools of the backends and the default pool.
DerivedPools(env) == Sorted({DefaultPool} \cup BackendPools(env))

\* parse_pools, normalize_pools.
PoolsOf(env) ==
    IF IsSet(env, "POOLS_JSON") THEN Trimmed(env["POOLS_JSON"]) ELSE DerivedPools(env)

\* validate_backend_pool_refs.
UnknownBackendPool(env) == ~(BackendPools(env) \subseteq ToSet(PoolsOf(env)))

\* validate_pools.
PoolComplaints(env) ==
    IF ~IsSet(env, "POOLS_JSON") THEN {}
    ELSE IF env["POOLS_JSON"] = Malformed THEN {"invalid POOLS_JSON"}
    ELSE Complain(PoolsOf(env) = <<>>, "at least one pool")
             \cup Complain(Plain("") \in ToSet(PoolsOf(env)), "pool id cannot be empty")
             \cup Complain(~IsInjective(PoolsOf(env)), "duplicate pool id")
             \cup Complain(UnknownBackendPool(env), "backend references unknown pool")

--------------------------------------------------------------------------------
(* The workload policy; given as the entries of the map in its order *)

\* KNOWN_POOL_WORKLOADS.
KnownWorkloads ==
    {"chat_completions", "embeddings", "vision_analysis", "embed_batch", "index_build", "cluster"}

Covered(entries) == {Trim(entries[i].workload) : i \in DOMAIN entries}

\* Mutant: strict mode is content with a policy for one workload.
IncompleteAny(env) == FALSE

\* The end of validate_workload_pools.
Incomplete(env) ==
    /\ Flag(env, "STRICT_WORKLOAD_POOLS")
    /\ Covered(env["WORKLOAD_POOLS_JSON"]) # KnownWorkloads

\* Mutant: whether the pools exist is not checked.
UnknownPoolNever(env, texts) == FALSE

UnknownPool(env, texts) == \E i \in DOMAIN texts : Plain(Trim(texts[i])) \notin ToSet(PoolsOf(env))

\* validate_workload_pools: the loop over the entries.
InvalidPolicy(env) ==
    LET entries == env["WORKLOAD_POOLS_JSON"]
        Some(Wrong(_)) == \E i \in DOMAIN entries : Wrong(entries[i])
    IN  Complain(entries = <<>>, "at least one workload policy")
            \cup Complain(Some(LAMBDA e : Trim(e.workload) \notin KnownWorkloads), "unknown workload")
            \cup Complain(Some(LAMBDA e : e.pools = <<>>), "must target at least one pool")
            \cup Complain(Some(LAMBDA e : \E i \in DOMAIN e.pools : IsBlank(e.pools[i])),
                          "has an empty pool reference")
            \cup Complain(Some(LAMBDA e : UnknownPool(env, e.pools)), "references unknown pool")
            \cup Complain(Some(LAMBDA e : ~IsInjective(Trimmed(e.pools))), "more than once")
            \cup Complain(Incomplete(env), "missing workload policy")

\* parse_workload_pools.
PolicyComplaints(env) ==
    IF ~IsSet(env, "WORKLOAD_POOLS_JSON")
    THEN Complain(Flag(env, "STRICT_WORKLOAD_POOLS"), "requires explicit workload pool policy")
    ELSE IF env["WORKLOAD_POOLS_JSON"] = Malformed THEN {"invalid WORKLOAD_POOLS_JSON"}
    ELSE InvalidPolicy(env)

\* Mutant: one pool is enough.
DefaultWorkloadPoolsFirst(env) == [w \in KnownWorkloads |-> <<Head(PoolsOf(env))>>]

\* default_workload_pools.
DefaultWorkloadPools(env) == [w \in KnownWorkloads |-> PoolsOf(env)]

\* A name that occurs twice, once padded, keeps the pools of its last entry.
PolicyOf(env) ==
    IF IsSet(env, "WORKLOAD_POOLS_JSON")
    THEN LET entries == env["WORKLOAD_POOLS_JSON"]
         IN  [w \in Covered(entries) |->
                 Trimmed(entries[CHOOSE i \in DOMAIN entries :
                                     /\ Trim(entries[i].workload) = w
                                     /\ \A j \in DOMAIN entries :
                                            Trim(entries[j].workload) = w => j <= i].pools)]
    ELSE DefaultWorkloadPools(env)

--------------------------------------------------------------------------------
(* The environments considered *)

IsList(list) == list \in Seq(ToSet(list))
Parsed(env, key) == IsSet(env, key) /\ env[key] # Malformed

\* What serde leaves: lists, and texts for the pools of backends.  PoolNames is long
\* enough: it has the name of every pool that a backend may be in.
WellFormed(env) ==
    /\ Parsed(env, "WORKLOAD_POOLS_JSON") =>
           /\ IsList(env["WORKLOAD_POOLS_JSON"])
           /\ \A i \in DOMAIN env["WORKLOAD_POOLS_JSON"] : IsList(env["WORKLOAD_POOLS_JSON"][i].pools)
    /\ BackendComplaints(env) = {} =>
           /\ \A i \in DOMAIN BackendsOf(env) : IsText(BackendsOf(env)[i].pool)
           /\ {DefaultPool} \cup BackendPools(env) \subseteq {Plain(name) : name \in ToSet(PoolNames)}

ASSUME CasesAssumption == \A c \in Cases : WellFormed(c.env)

--------------------------------------------------------------------------------
(* Start *)

\* from_lookup: the first part that has something to complain about ends it.
Complaints(env) ==
    IF BackendComplaints(env) # {} THEN BackendComplaints(env)
    ELSE IF PoolComplaints(env) # {} THEN PoolComplaints(env)
    ELSE IF PolicyComplaints(env) # {} THEN PolicyComplaints(env)
    ELSE SettingComplaints(env) \cup StoreComplaints(env)

ConfigOf(env) ==
    Joined([backends |-> BackendsOf(env),
            pools |-> PoolsOf(env),
            policy |-> PolicyOf(env),
            store |-> StoreOf(env),
            json_logs |-> ExactFlag(env, "LOG_FORMAT", "json"),
            resource_aware |-> ExactFlag(env, "RESOURCE_AWARE_ROUTING", "true"),
            strict_worker_pools |-> Flag(env, "STRICT_WORKER_POOLS"),
            strict_workload_pools |-> Flag(env, "STRICT_WORKLOAD_POOLS")],
           SettingsOf(env))

Off == [state |-> "off"]
Refused(complaints) == [state |-> "refused", complaints |-> complaints]

\* main: the backends and the policy of AppState are those of the configuration, and a
\* loop is spawned for each backend's probe, for callbacks, for expired leases and, with
\* an interval, for pruning.
Running(config) ==
    [state |-> "running", config |-> config,
     loops |-> {<<"callbacks">>, <<"leases">>}
                   \cup (IF config.JOB_PRUNE_INTERVAL_SECS = None THEN {} ELSE {<<"prune">>})
                   \cup {<<"probe", i>> : i \in DOMAIN config.backends}]

ConfigInit == case \in Cases /\ server = Off

Start ==
    /\ server = Off
    /\ server' = IF Complaints(case.env) # {} THEN Refused(Complaints(case.env))
                 ELSE Running(ConfigOf(case.env))
    /\ UNCHANGED case

ConfigSpec == ConfigInit /\ [][Start]_configVars

--------------------------------------------------------------------------------
(* Properties *)

IsRunning == server.state = "running"

\* A backend as the proxy sees it.
ProxyBackend(backend) ==
    [node |-> backend.node_id, pool |-> backend.pool, workloads |-> ToSet(backend.workloads)]

\* The proxy's selection in the server that runs (AppState.backends, workload_pools).
Selection ==
    INSTANCE BackendSelection WITH
        BackendConfig <- [i \in DOMAIN server.config.backends |-> ProxyBackend(server.config.backends[i])],
        WorkloadPools <- server.config.policy, NoNode <- None, NoLoad <- None

Allowed(config, workload, pool) ==
    workload \in DOMAIN config.policy => pool \in ToSet(config.policy[workload])

\* What starts is closed: every pool that a backend (up to surrounding space) or a policy
\* names is declared, pools are named once and not blank, and no policy is empty, although
\* the three variables are parsed apart from each other and any of them may be missing.
ReferencesResolve ==
    IsRunning =>
        LET config == server.config
            pools == ToSet(config.pools)
        IN  /\ DefaultPool \in pools \/ IsSet(case.env, "POOLS_JSON")
            /\ IsInjective(config.pools) /\ Plain("") \notin pools
            /\ \A i \in DOMAIN config.backends : Plain(Trim(config.backends[i].pool)) \in pools
            /\ \A w \in DOMAIN config.policy :
                   config.policy[w] # <<>> /\ ToSet(config.policy[w]) \subseteq pools

\* STRICT_WORKLOAD_POOLS ("fails startup unless WORKLOAD_POOLS_JSON is present and mentions
\* every known workload"): in a strict server no workload may use an undeclared pool,
\* whatever spelling the policy's names had.
StrictLeavesNothingOpen ==
    IsRunning /\ Flag(case.env, "STRICT_WORKLOAD_POOLS") =>
        \A w \in KnownWorkloads, name \in ToSet(PoolNames) :
            Allowed(server.config, w, Plain(name)) => Plain(name) \in ToSet(server.config.pools)

\* Without a policy every backend, of BACKENDS or of BACKENDS_JSON, in a derived or in a
\* declared pool, can be routed to for each of its workloads; except one whose pool is
\* written with space around it, which validation trims and the backend keeps.
DefaultPolicyReachesBackends ==
    IsRunning /\ ~IsSet(case.env, "WORKLOAD_POOLS_JSON") =>
        \A i \in DOMAIN server.config.backends :
            LET backend == server.config.backends[i]
            IN  ~backend.pool.padded =>
                    \A w \in ToSet(backend.workloads) :
                        Selection!RouteAllows(w, i)

\* The pools of a workload: WorkloadPoolPolicy::pools_for.
PoolsFor(config, workload) ==
    IF workload \in DOMAIN config.policy THEN config.policy[workload] ELSE None

\* The unit tests of config.rs pass: what each asserts about the start with its
\* environment, either a complaint or fields of the configuration and of its policy.
ConfigTestsAgree ==
    LET expect == case.expect
    IN  server # Off =>
            /\ expect.outcome = "refused" =>
                   server.state = "refused" /\ expect.complaint \in server.complaints
            /\ expect.outcome = "running" =>
                   /\ IsRunning
                   /\ \A field \in DOMAIN expect.fields :
                          expect.fields[field] = server.config[field]
                   /\ \A w \in DOMAIN expect.pools_for :
                          expect.pools_for[w] = PoolsFor(server.config, w)

================================================================================

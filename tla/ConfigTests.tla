------------------------------- MODULE ConfigTests -------------------------------
(***************************************************************************)
(* The unit tests of src/config.rs as cases of Config: the environments    *)
(* each test loads and what it asserts about the outcome.                  *)
(***************************************************************************)
EXTENDS Config

Case(env, expect) == [env |-> env, expect |-> expect]
Err(complaint) == [outcome |-> "refused", complaint |-> complaint]
Loads(fields, pools_for) == [outcome |-> "running", fields |-> fields, pools_for |-> pools_for]
Ok(fields) == Loads(fields, <<>>)

Unset == [key \in {} |-> None]
Variable(key, value) == key :> value
NumberCase(key, text) == Case(Variable(key, text), Err(key))

Pools(names) == [i \in DOMAIN names |-> Plain(names[i])]
Entry(workload, names) == [workload |-> Plain(workload), pools |-> Pools(names)]
AllWorkloads(pools_for) ==
    LET names == SetToSeq(KnownWorkloads) IN [i \in DOMAIN names |-> Entry(names[i], pools_for[names[i]])]
AllDefault == [w \in KnownWorkloads |-> <<"default">>]

NodeA == [id |-> Plain("node-a-vllm"), url |-> Plain("http://node-a:8000/v1")]
NodeB == [id |-> Plain("node-b-vllm"), url |-> Plain("http://node-b:8000/v1")]
In(backend, pool) == backend @@ [pool |-> Plain(pool)]
BackendCase(entries, complaint) == Case(Variable("BACKENDS_JSON", entries), Err(complaint))
TwoPools == Variable("BACKENDS_JSON", <<In(NodeA, "local-llm"), In(NodeB, "peer-llm")>>)

--------------------------------------------------------------------------------
(* Settings *)

defaults_when_env_absent ==
    {Case(Unset, Loads([PORT |-> 7000, json_logs |-> FALSE, pools |-> <<DefaultPool>>,
                        policy |-> [w \in KnownWorkloads |-> <<DefaultPool>>],
                        strict_workload_pools |-> FALSE],
                       "chat_completions" :> <<DefaultPool>>))}

reads_port_from_env == {Case(Variable("PORT", Number(9090)), Ok([PORT |-> 9090]))}

invalid_port_returns_err == {NumberCase("PORT", Malformed)}

json_log_format_enabled == {Case(Variable("LOG_FORMAT", Plain("json")), Ok([json_logs |-> TRUE]))}

non_json_log_format_is_false ==
    {Case(Variable("LOG_FORMAT", Plain("pretty")), Ok([json_logs |-> FALSE]))}

backends_empty_by_default == {Case(Unset, Ok([backends |-> <<>>]))}

circuit_defaults ==
    {Case(Unset, Ok([CIRCUIT_FAILURE_THRESHOLD |-> 3, CIRCUIT_COOLDOWN_SECS |-> 30,
                     HEALTH_PROBE_INTERVAL_SECS |-> 10, RESOURCE_REPORT_TTL_SECS |-> 30,
                     resource_aware |-> FALSE, CHAT_COMPLETIONS_REQUIRED_VRAM_MB |-> 1024,
                     EMBEDDINGS_REQUIRED_VRAM_MB |-> 512, PRIORITY_REALTIME_LIMIT |-> 8,
                     PRIORITY_BATCH_LIMIT |-> 4, PRIORITY_BACKGROUND_LIMIT |-> 2,
                     store |-> [kind |-> "memory"], JOB_RETENTION_SECS |-> 86400,
                     JOB_PRUNE_LIMIT |-> 1000, JOB_PRUNE_INTERVAL_SECS |-> None,
                     JOB_MAINTENANCE_INTERVAL_SECS |-> 30, JOB_LEASE_DURATION_MS |-> 30000,
                     CALLBACK_MAX_ATTEMPTS |-> 3, CALLBACK_TIMEOUT_SECS |-> 5,
                     CALLBACK_RETRY_DELAY_MS |-> 250, strict_worker_pools |-> FALSE]))}

Overrides ==
    [CIRCUIT_FAILURE_THRESHOLD |-> 5, CIRCUIT_COOLDOWN_SECS |-> 60, HEALTH_PROBE_INTERVAL_SECS |-> 15,
     RESOURCE_REPORT_TTL_SECS |-> 45, CHAT_COMPLETIONS_REQUIRED_VRAM_MB |-> 2048,
     EMBEDDINGS_REQUIRED_VRAM_MB |-> 256, PRIORITY_REALTIME_LIMIT |-> 16, PRIORITY_BATCH_LIMIT |-> 6,
     PRIORITY_BACKGROUND_LIMIT |-> 3, JOB_RETENTION_SECS |-> 3600, JOB_PRUNE_LIMIT |-> 25,
     JOB_PRUNE_INTERVAL_SECS |-> 60, JOB_MAINTENANCE_INTERVAL_SECS |-> 12,
     JOB_LEASE_DURATION_MS |-> 250, CALLBACK_MAX_ATTEMPTS |-> 5, CALLBACK_TIMEOUT_SECS |-> 9,
     CALLBACK_RETRY_DELAY_MS |-> 50]

circuit_env_overrides ==
    {Case([key \in DOMAIN Overrides |-> Number(Overrides[key])]
              @@ Variable("RESOURCE_AWARE_ROUTING", Plain("true")),
          Ok(Overrides @@ [resource_aware |-> TRUE]))}

invalid_circuit_failure_threshold_returns_err == {NumberCase("CIRCUIT_FAILURE_THRESHOLD", Malformed)}
invalid_circuit_cooldown_secs_returns_err == {NumberCase("CIRCUIT_COOLDOWN_SECS", Malformed)}
invalid_health_probe_interval_returns_err == {NumberCase("HEALTH_PROBE_INTERVAL_SECS", Malformed)}
invalid_resource_report_ttl_returns_err == {NumberCase("RESOURCE_REPORT_TTL_SECS", Malformed)}
invalid_chat_required_vram_returns_err ==
    {NumberCase("CHAT_COMPLETIONS_REQUIRED_VRAM_MB", Malformed)}
invalid_embeddings_required_vram_returns_err ==
    {NumberCase("EMBEDDINGS_REQUIRED_VRAM_MB", Malformed)}
invalid_priority_limit_returns_err == {NumberCase("PRIORITY_REALTIME_LIMIT", Malformed)}

invalid_job_retention_policy_returns_err ==
    {NumberCase("JOB_RETENTION_SECS", Malformed), NumberCase("JOB_PRUNE_LIMIT", Number(0))}
        \cup {NumberCase(key, text) :
                key \in {"JOB_PRUNE_INTERVAL_SECS", "JOB_MAINTENANCE_INTERVAL_SECS",
                         "JOB_LEASE_DURATION_MS"},
                text \in {Number(0), Malformed}}

invalid_callback_policy_returns_err ==
    {NumberCase("CALLBACK_MAX_ATTEMPTS", Number(0)), NumberCase("CALLBACK_TIMEOUT_SECS", Number(0)),
     NumberCase("CALLBACK_RETRY_DELAY_MS", Malformed)}

job_store_defaults_to_memory == {Case(Unset, Ok([store |-> [kind |-> "memory"]]))}

job_store_parses_sqlite_with_default_path ==
    {Case(Variable("JOB_STORE", Plain("sqlite")),
          Ok([store |-> [kind |-> "sqlite", path |-> "fairlead_jobs.sqlite3"]]))}

job_store_parses_sqlite_with_configured_path ==
    {Case(Variable("JOB_STORE", Plain("sqlite")) @@ Variable("JOB_DB_PATH", Padded("/tmp/fairlead-test.db")),
          Ok([store |-> [kind |-> "sqlite", path |-> "/tmp/fairlead-test.db"]]))}

invalid_job_store_returns_err == {Case(Variable("JOB_STORE", Plain("postgres")), Err("JOB_STORE"))}

empty_job_db_path_returns_err ==
    {Case(Variable("JOB_STORE", Plain("sqlite")) @@ Variable("JOB_DB_PATH", Padded("")),
          Err("JOB_DB_PATH"))}

--------------------------------------------------------------------------------
(* Strict modes *)

strict_worker_pools_parses_true_case_insensitively ==
    {Case(Variable("STRICT_WORKER_POOLS", Plain("true")), Ok([strict_worker_pools |-> TRUE]))}

strict_worker_pools_preserves_default_pool_derivation ==
    {Case(Variable("STRICT_WORKER_POOLS", Plain("true")),
          Ok([strict_worker_pools |-> TRUE, pools |-> <<DefaultPool>>]))}

Strict == Variable("STRICT_WORKLOAD_POOLS", Plain("true"))

strict_workload_pools_parses_true_case_insensitively ==
    {Case(Strict @@ Variable("WORKLOAD_POOLS_JSON", AllWorkloads(AllDefault)),
          Ok([strict_workload_pools |-> TRUE]))}

strict_workload_pools_requires_explicit_policy ==
    {Case(Strict, Err("requires explicit workload pool policy"))}

strict_workload_pools_accepts_complete_policy_with_derived_backend_pools ==
    {Case(Strict @@ TwoPools
              @@ Variable("WORKLOAD_POOLS_JSON",
                          AllWorkloads([chat_completions |-> <<"local-llm", "peer-llm">>,
                                        embeddings |-> <<"peer-llm">>, vision_analysis |-> <<"peer-llm">>,
                                        embed_batch |-> <<"peer-llm">>, index_build |-> <<"default">>,
                                        cluster |-> <<"default">>])),
          Loads([strict_workload_pools |-> TRUE, pools |-> Pools(<<"default", "local-llm", "peer-llm">>)],
                [chat_completions |-> Pools(<<"local-llm", "peer-llm">>),
                 embeddings |-> Pools(<<"peer-llm">>)]))}

workload_pools_json_rejects_omitted_workloads_when_strict ==
    {Case(Strict @@ Variable("WORKLOAD_POOLS_JSON", <<Entry("chat_completions", <<"default">>)>>),
          Err("missing workload policy"))}

workload_pools_json_accepts_all_known_workloads_when_strict ==
    {Case(Strict @@ Variable("WORKLOAD_POOLS_JSON", AllWorkloads(AllDefault)),
          Ok([strict_workload_pools |-> TRUE, policy |-> [w \in KnownWorkloads |-> <<DefaultPool>>]]))}

--------------------------------------------------------------------------------
(* Backends *)

backends_parsed_from_comma_separated_env ==
    {Case(Variable("BACKENDS", <<NodeA.url, [NodeB.url EXCEPT !.padded = TRUE]>>),
          Ok([backends |-> <<[id |-> Plain(<<"backend", 0>>), url |-> NodeA.url] @@ BackendDefaults,
                             [id |-> Plain(<<"backend", 1>>), url |-> NodeB.url] @@ BackendDefaults>>,
              pools |-> <<DefaultPool>>]))}

OnNodeA ==
    In(NodeA, "local-llm") @@ [node_id |-> "node-a", workloads |-> <<"chat_completions", "embeddings">>,
                               health_path |-> Plain("/health")]
OnNodeB == In(NodeB, "local-llm") @@ [node_id |-> "node-b", workloads |-> <<"chat_completions">>]

backends_json_parses_node_aware_metadata ==
    {Case(Variable("BACKENDS_JSON", <<OnNodeA, OnNodeB>>),
          Ok([backends |-> <<OnNodeA, OnNodeB @@ [health_path |-> None]>>,
              pools |-> Pools(<<"default", "local-llm">>)]))}

backends_json_defaults_pool_and_workloads ==
    {Case(Variable("BACKENDS_JSON", <<NodeA @@ [node_id |-> "node-a"]>>),
          Ok([backends |-> <<NodeA @@ [node_id |-> "node-a", pool |-> DefaultPool,
                                       workloads |-> ProxyWorkloads, health_path |-> None]>>]))}

invalid_backends_json_returns_err == {BackendCase(Malformed, "invalid BACKENDS_JSON")}

duplicate_backend_id_returns_err ==
    {BackendCase(<<NodeA, [NodeB EXCEPT !.id = NodeA.id]>>, "duplicate backend id")}

empty_backend_id_returns_err ==
    {BackendCase(<<[NodeA EXCEPT !.id = Padded("")]>>, "backend id cannot be empty")}

empty_backend_url_returns_err ==
    {BackendCase(<<[NodeA EXCEPT !.url = Padded("")]>>, "url cannot be empty")}

empty_backend_pool_returns_err ==
    {BackendCase(<<NodeA @@ [pool |-> Padded("")]>>, "pool cannot be empty")}

empty_backend_workloads_returns_err ==
    {BackendCase(<<NodeA @@ [workloads |-> <<>>]>>, "must support at least one workload")}

empty_health_path_returns_err ==
    {BackendCase(<<NodeA @@ [health_path |-> Padded("")]>>, "health_path cannot be empty")}

--------------------------------------------------------------------------------
(* Pools and policy *)

pools_json_accepts_string_and_object_entries ==
    {Case(Variable("BACKENDS_JSON", <<In(NodeA, "local-llm")>>)
              @@ Variable("POOLS_JSON", <<DefaultPool, Padded("local-llm"), Plain("vision")>>),
          Ok([pools |-> Pools(<<"default", "local-llm", "vision">>)]))}

pools_json_rejects_empty_or_duplicate_pool_ids ==
    {Case(Variable("POOLS_JSON", <<>>), Err("at least one pool")),
     Case(Variable("POOLS_JSON", <<DefaultPool, Padded("")>>), Err("pool id cannot be empty")),
     Case(Variable("POOLS_JSON", <<DefaultPool, Padded("default")>>), Err("duplicate pool id"))}

invalid_pools_json_returns_err == {Case(Variable("POOLS_JSON", Malformed), Err("invalid POOLS_JSON"))}

explicit_pools_json_rejects_unknown_backend_pool_reference ==
    {Case(Variable("BACKENDS_JSON", <<In(NodeA, "local-llm")>>) @@ Variable("POOLS_JSON", <<DefaultPool>>),
          Err("backend references unknown pool"))}

workload_pools_json_can_reference_derived_backend_pools ==
    {Case(TwoPools @@ Variable("WORKLOAD_POOLS_JSON",
                               <<Entry("chat_completions", <<"local-llm", "peer-llm">>)>>),
          Loads([pools |-> Pools(<<"default", "local-llm", "peer-llm">>)],
                [chat_completions |-> Pools(<<"local-llm", "peer-llm">>)]))}

workload_pools_json_parses_known_workload_policy ==
    {Case(Variable("POOLS_JSON", Pools(<<"local-llm", "vision">>))
              @@ Variable("WORKLOAD_POOLS_JSON",
                          <<Entry("chat_completions", <<"local-llm">>),
                            Entry("vision_analysis", <<"vision", "local-llm">>)>>),
          Loads(<<>>, [chat_completions |-> Pools(<<"local-llm">>),
                       vision_analysis |-> Pools(<<"vision", "local-llm">>), embeddings |-> None]))}

invalid_workload_pools_json_returns_err ==
    {Case(Variable("WORKLOAD_POOLS_JSON", Malformed), Err("invalid WORKLOAD_POOLS_JSON"))}

workload_pools_json_rejects_invalid_policy ==
    {Case(Variable("WORKLOAD_POOLS_JSON", entries[1]), Err(entries[2])) : entries \in
        {<< <<>>, "at least one workload policy">>,
         << <<Entry("rerank", <<"default">>)>>, "unknown workload">>,
         << <<Entry("chat_completions", <<>>)>>, "must target at least one pool">>,
         << <<Entry("chat_completions", <<"default", "default">>)>>, "more than once">>,
         << <<Entry("chat_completions", <<"missing">>)>>, "references unknown pool">>,
         << <<[workload |-> Plain("chat_completions"), pools |-> <<Padded("")>>]>>,
            "has an empty pool reference">>}}

--------------------------------------------------------------------------------

TestCases ==
    UNION {defaults_when_env_absent, reads_port_from_env, invalid_port_returns_err,
           json_log_format_enabled, non_json_log_format_is_false, backends_empty_by_default,
           circuit_defaults, circuit_env_overrides, invalid_circuit_failure_threshold_returns_err,
           invalid_circuit_cooldown_secs_returns_err, invalid_health_probe_interval_returns_err,
           invalid_resource_report_ttl_returns_err, invalid_chat_required_vram_returns_err,
           invalid_embeddings_required_vram_returns_err, invalid_priority_limit_returns_err,
           invalid_job_retention_policy_returns_err, invalid_callback_policy_returns_err,
           job_store_defaults_to_memory, job_store_parses_sqlite_with_default_path,
           job_store_parses_sqlite_with_configured_path, invalid_job_store_returns_err,
           empty_job_db_path_returns_err, strict_worker_pools_parses_true_case_insensitively,
           strict_worker_pools_preserves_default_pool_derivation,
           strict_workload_pools_parses_true_case_insensitively,
           strict_workload_pools_requires_explicit_policy,
           strict_workload_pools_accepts_complete_policy_with_derived_backend_pools,
           workload_pools_json_rejects_omitted_workloads_when_strict,
           workload_pools_json_accepts_all_known_workloads_when_strict,
           backends_parsed_from_comma_separated_env, backends_json_parses_node_aware_metadata,
           backends_json_defaults_pool_and_workloads, invalid_backends_json_returns_err,
           duplicate_backend_id_returns_err, empty_backend_id_returns_err,
           empty_backend_url_returns_err, empty_backend_pool_returns_err,
           empty_backend_workloads_returns_err, empty_health_path_returns_err,
           pools_json_accepts_string_and_object_entries,
           pools_json_rejects_empty_or_duplicate_pool_ids, invalid_pools_json_returns_err,
           explicit_pools_json_rejects_unknown_backend_pool_reference,
           workload_pools_json_can_reference_derived_backend_pools,
           workload_pools_json_parses_known_workload_policy,
           invalid_workload_pools_json_returns_err, workload_pools_json_rejects_invalid_policy}

================================================================================

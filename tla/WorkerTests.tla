------------------------------ MODULE WorkerTests ------------------------------
(***************************************************************************)
(* The tests of src/workers.rs, as lines of Scenario, each under its own   *)
(* name.  A registry with stale_after = 0 is one in which the worker goes  *)
(* stale at once; the test that a heartbeat does not help there is left    *)
(* out, as are nodes, endpoints and VRAM.                                  *)
(***************************************************************************)
EXTENDS Scenario

\* A worker that offers vision_analysis in this pool; an omitted pool is "default".
InPool(pool) == WorkerForm(Plain("a"), Plain("http"), pool, Vision, Unlimited)

\* A registration that is wrong in one field.
Wrong(id, endpoint_url, pool, kinds, max) ==
    RegistersForm(WorkerForm(id, endpoint_url, pool, kinds, max), 400)

--------------------------------------------------------------------------------
(* Registration *)

register_worker_returns_worker_metadata ==
    <<RegistersForm(WorkerForm(Plain("a"), Padded("http"), Plain("default"),
                               {"vision_analysis", "embed_batch"}, 2), 200),
      ShowsWorker("a", [pool |-> "default", job_types |-> {"vision_analysis", "embed_batch"},
                        max_concurrent_jobs |-> 2, in_flight_jobs |-> 0,
                        available_job_slots |-> 2, stale |-> FALSE])>>

register_worker_accepts_explicit_pool_metadata ==
    <<RegistersForm(InPool(Padded("vision")), 200), ShowsWorker("a", [pool |-> "vision"])>>

register_worker_rejects_unknown_pool_when_strict ==
    <<RegistersStrictly(InPool(Plain("peer")), {"vision"}, 400), ListsWorkers(<<>>)>>

register_worker_accepts_configured_pool_when_strict ==
    <<RegistersStrictly(InPool(Padded("vision")), {"vision"}, 200),
      ShowsWorker("a", [pool |-> "vision"])>>

register_worker_accepts_omitted_default_pool_when_strict_and_default_configured ==
    <<RegistersStrictly(InPool(Plain("default")), {"default"}, 200),
      ShowsWorker("a", [pool |-> "default"])>>

register_worker_rejects_omitted_default_pool_when_strict_and_default_not_configured ==
    <<RegistersStrictly(InPool(Plain("default")), {"vision"}, 400)>>

register_worker_remains_permissive_by_default ==
    <<RegistersForm(InPool(Plain("ad-hoc")), 200), ShowsWorker("a", [pool |-> "ad-hoc"])>>

register_worker_upserts_existing_worker ==
    <<Registers("a", {"index_build"}, "default", Unlimited),
      Registers("a", {"index_build"}, "vision", Unlimited),
      ListsWorkers(<<"a">>), ShowsWorker("a", [pool |-> "vision"])>>

invalid_worker_registration_returns_400 ==
    <<Wrong(Padded(""), Plain("http"), Plain("default"), Cluster, Unlimited),
      Wrong(Plain("a"), Padded(""), Plain("default"), Cluster, Unlimited),
      Wrong(Plain("a"), Plain("worker:9000"), Plain("default"), Cluster, Unlimited),
      Wrong(Plain("a"), Plain("http"), Padded(""), Cluster, Unlimited),
      Wrong(Plain("a"), Plain("http"), Plain("default"), {}, Unlimited),
      Wrong(Plain("a"), Plain("http"), Plain("default"), Cluster, 0)>>

worker_registration_preserves_in_flight_count_on_upsert ==
    <<Registers("a", Embed, "default", 2), Acquires("a", "Acquired"),
      Registers("a", Embed, "vision", 3),
      ShowsWorker("a", [pool |-> "vision", in_flight_jobs |-> 1, available_job_slots |-> 2])>>

worker_registration_and_heartbeat_preserve_draining_state ==
    <<Registers("a", Embed, "default", 2), Drains("a", 200),
      Registers("a", {"embed_batch", "cluster"}, "vision", 3),
      ShowsWorker("a", [pool |-> "vision", draining |-> TRUE, available_job_slots |-> 0]),
      Heartbeats("a", 200), ShowsWorker("a", [draining |-> TRUE, available_job_slots |-> 0]),
      Acquires("a", "Draining")>>

--------------------------------------------------------------------------------
(* Slots and life cycle *)

worker_slots_track_capacity_and_release ==
    <<Registers("a", Vision, "default", 1), Acquires("a", "Acquired"),
      ShowsWorker("a", [in_flight_jobs |-> 1, available_job_slots |-> 0]),
      Acquires("a", "AtCapacity"), GivesBack("a"),
      ShowsWorker("a", [in_flight_jobs |-> 0, available_job_slots |-> 1])>>

drain_and_reactivate_toggle_worker_claim_eligibility ==
    <<Registers("a", Vision, "default", 1), Drains("a", 200),
      ShowsWorker("a", [draining |-> TRUE, available_job_slots |-> 0]), Acquires("a", "Draining"),
      Reactivates("a", 200), ShowsWorker("a", [draining |-> FALSE, available_job_slots |-> 1]),
      Acquires("a", "Acquired")>>

stale_draining_worker_is_treated_as_stale_first ==
    <<Registers("a", Vision, "default", 1), GoesStale("a"), Drains("a", 200),
      ShowsWorker("a", [draining |-> TRUE, stale |-> TRUE, status |-> "stale"]),
      Acquires("a", "Stale"),
      Shows("availability_snapshots", None, [ks \in {<<"vision_analysis", "stale">>} |-> 1])>>

deregister_removes_idle_worker ==
    <<Registers("a", Cluster, "default", Unlimited), Deregisters("a", 204), NoWorker("a")>>

deregister_drains_busy_worker_without_removing_it ==
    <<Registers("a", Cluster, "default", 1), Acquires("a", "Acquired"), Deregisters("a", 202),
      ShowsWorker("a", [draining |-> TRUE, in_flight_jobs |-> 1])>>

worker_lifecycle_endpoints_drain_reactivate_and_deregister ==
    <<Registers("a", Vision, "default", 1), Drains("a", 200), ShowsWorker("a", [draining |-> TRUE]),
      Reactivates("a", 200), ShowsWorker("a", [draining |-> FALSE]),
      Deregisters("a", 204), NoWorker("a")>>

worker_lifecycle_endpoints_return_not_found_for_unknown_worker ==
    <<Drains("a", 404), Reactivates("a", 404), Deregisters("a", 404)>>

heartbeat_unknown_worker_returns_404 == <<Heartbeats("a", 404)>>

list_workers_sorts_by_id_and_marks_stale ==
    <<Registers("b", Vision, "default", Unlimited), Registers("a", Embed, "default", Unlimited),
      GoesStale("a"), ListsWorkers(<<"a", "b">>), ShowsWorker("a", [stale |-> TRUE])>>

availability_snapshots_count_workers_by_job_type_and_status ==
    <<Registers("a", {"vision_analysis", "embed_batch"}, "default", Unlimited), GoesStale("a"),
      Shows("availability_snapshots", None,
            [ks \in {"vision_analysis", "embed_batch"} \X {"stale"} |-> 1])>>

metrics_reports_worker_availability_by_job_type_and_status ==
    <<Registers("a", {"vision_analysis", "embed_batch"}, "default", 2), Acquires("a", "Acquired"),
      Drains("a", 200),
      Shows("availability_snapshots", None,
            [ks \in {"vision_analysis", "embed_batch"} \X {"draining"} |-> 1]),
      ShowsWorker("a", [in_flight_jobs |-> 1, max_concurrent_jobs |-> 2,
                        available_job_slots |-> 0])>>

--------------------------------------------------------------------------------
WorkerScripts ==
    <<register_worker_returns_worker_metadata,
      register_worker_accepts_explicit_pool_metadata,
      register_worker_rejects_unknown_pool_when_strict,
      register_worker_accepts_configured_pool_when_strict,
      register_worker_accepts_omitted_default_pool_when_strict_and_default_configured,
      register_worker_rejects_omitted_default_pool_when_strict_and_default_not_configured,
      register_worker_remains_permissive_by_default,
      register_worker_upserts_existing_worker,
      invalid_worker_registration_returns_400,
      worker_registration_preserves_in_flight_count_on_upsert,
      worker_registration_and_heartbeat_preserve_draining_state,
      worker_slots_track_capacity_and_release,
      drain_and_reactivate_toggle_worker_claim_eligibility,
      stale_draining_worker_is_treated_as_stale_first,
      deregister_removes_idle_worker,
      deregister_drains_busy_worker_without_removing_it,
      worker_lifecycle_endpoints_drain_reactivate_and_deregister,
      worker_lifecycle_endpoints_return_not_found_for_unknown_worker,
      heartbeat_unknown_worker_returns_404,
      list_workers_sorts_by_id_and_marks_stale,
      availability_snapshots_count_workers_by_job_type_and_status,
      metrics_reports_worker_availability_by_job_type_and_status>>

================================================================================

----------------------------- MODULE SchedulerTests -----------------------------
(***************************************************************************)
(* The tests of src/scheduler.rs, as lines of Scenario, each under its own *)
(* name.  Workers "a", "b" and "c" stand for a test's workers in the order *)
(* of their ids.  The model has one workload pool policy for all tests     *)
(* (vision_analysis runs in the pools "default" and "vision"), so a worker *)
(* that its test keeps out of a pool is in the pool "peer" here.  A lease  *)
(* of 0 ms is an ordinary one that a Sleeps outlasts, as is a wait for a   *)
(* loop.  The tests of callback delivery are not here: see Callbacks.      *)
(***************************************************************************)
EXTENDS Scenario


--------------------------------------------------------------------------------
(* Preview *)

preview_selects_realtime_job_before_earlier_lower_priority_job ==
    <<Submits("index_build", "background", 1), Submits("embed_batch", "realtime", 2),
      Registers("a", {"index_build", "embed_batch"}, "default", Unlimited),
      Previews(<<2, "a">>)>>

preview_preserves_fifo_order_within_same_priority ==
    <<Submits("vision_analysis", "batch", 1), Submits("vision_analysis", "batch", 2),
      Registers("a", Vision, "default", Unlimited), Previews(<<1, "a">>)>>

preview_skips_jobs_without_matching_available_workers ==
    <<Submits("vision_analysis", "realtime", 1), Submits("embed_batch", "batch", 2),
      Registers("a", Embed, "default", Unlimited), Previews(<<2, "a">>)>>

preview_skips_workers_outside_workload_pool_policy ==
    <<Submits("vision_analysis", "batch", 1),
      Registers("a", Vision, "peer", Unlimited), Previews(None)>>

preview_selects_worker_from_allowed_pool ==
    <<Submits("vision_analysis", "batch", 1),
      Registers("a", Vision, "peer", Unlimited), Registers("b", Vision, "vision", Unlimited),
      Previews(<<1, "b">>), ShowsWorker("b", [pool |-> "vision"])>>

preview_ignores_stale_workers ==
    <<Submits("cluster", "batch", 1), Registers("a", Cluster, "default", Unlimited),
      GoesStale("a"), Previews(None)>>

preview_ignores_draining_workers ==
    <<Submits("cluster", "batch", 1), Registers("b", Cluster, "default", Unlimited),
      Registers("a", Cluster, "default", Unlimited), Drains("b", 200), Previews(<<1, "a">>)>>

preview_is_none_when_queue_is_empty ==
    <<Registers("a", Vision, "default", Unlimited), Previews(None)>>

preview_endpoint_reports_next_assignment_without_mutating_job ==
    <<Submits("vision_analysis", "batch", 1), Registers("a", Vision, "default", Unlimited),
      Previews(<<1, "a">>), ShowsJob(1, [status |-> "queued"])>>

preview_endpoint_returns_no_content_when_no_assignment_exists == <<Previews(None)>>

--------------------------------------------------------------------------------
(* Claims *)

worker_claim_endpoint_leases_matching_job ==
    <<Submits("vision_analysis", "batch", 1),
      Registers("b", Vision, "default", Unlimited), Registers("c", Vision, "default", Unlimited),
      Registers("a", Vision, "peer", Unlimited),
      PostsClaim("b", 200), ShowsJob(1, [status |-> "running", attempts |-> 1, holder |-> "b"]),
      Queued(<<>>), Shows("candidate workers", 1, 2)>>

worker_claim_endpoint_skips_jobs_outside_worker_pool ==
    <<Submits("vision_analysis", "realtime", 1), Submits("embed_batch", "batch", 2),
      Registers("a", {"vision_analysis", "embed_batch"}, "peer", Unlimited),
      PostsClaim("a", 200), ShowsJob(2, [status |-> "running", kind |-> "embed_batch"]),
      ShowsJob(1, [status |-> "queued"]), ShowsWorker("a", [in_flight_jobs |-> 1])>>

worker_claim_endpoint_returns_no_content_when_worker_pool_is_not_allowed ==
    <<Submits("vision_analysis", "batch", 1), Submits("vision_analysis", "batch", 2),
      Registers("a", Vision, "peer", Unlimited),
      PostsClaim("a", 204), ShowsJob(1, [status |-> "queued"]),
      ShowsWorker("a", [in_flight_jobs |-> 0]), Shows("candidate workers", 1, 0),
      Shows("blocked jobs", "a", [kp \in {<<"vision_analysis", "batch">>} |-> 2])>>

worker_claim_endpoint_keeps_omitted_workload_pool_policy_permissive ==
    <<Submits("embed_batch", "batch", 1), Registers("a", Embed, "peer", Unlimited),
      Previews(<<1, "a">>), PostsClaim("a", 200),
      ShowsJob(1, [status |-> "running", kind |-> "embed_batch"])>>

worker_claim_endpoint_prevents_duplicate_claims ==
    <<Submits("embed_batch", "realtime", 1), Registers("a", Embed, "default", Unlimited),
      PostsClaim("a", 200), PostsClaim("a", 204)>>

worker_claim_endpoint_rejects_worker_at_capacity ==
    <<Submits("vision_analysis", "batch", 1), Submits("vision_analysis", "batch", 2),
      Registers("a", Vision, "default", 1), PostsClaim("a", 200), PostsClaim("a", 409),
      ShowsWorker("a", [in_flight_jobs |-> 1, available_job_slots |-> 0])>>

worker_claim_endpoint_rejects_draining_worker ==
    <<Submits("vision_analysis", "batch", 1), Registers("a", Vision, "default", 1),
      Drains("a", 200), PostsClaim("a", 409), ShowsJob(1, [status |-> "queued"]),
      ShowsWorker("a", [in_flight_jobs |-> 0])>>

busy_deregistered_worker_can_complete_held_job_while_draining ==
    <<Submits("vision_analysis", "batch", 1), Registers("a", Vision, "default", 1),
      PostsClaim("a", 200), Deregisters("a", 202), ShowsWorker("a", [draining |-> TRUE]),
      PostsComplete("a", 1, None, "ok", 200), ShowsJob(1, [status |-> "complete"]),
      ShowsWorker("a", [draining |-> TRUE, in_flight_jobs |-> 0]),
      Deregisters("a", 204), NoWorker("a")>>

busy_deregistered_worker_can_renew_held_job_while_draining ==
    <<Submits("vision_analysis", "batch", 1), Registers("a", Vision, "default", 1),
      PostsClaim("a", 200), Deregisters("a", 202), PostsRenew("a", 1, 200),
      ShowsJob(1, [holder |-> "a"]), ShowsWorker("a", [draining |-> TRUE, in_flight_jobs |-> 1]),
      ShowsJob(1, [status |-> "running"])>>

busy_deregistered_worker_can_fail_retryable_job_while_draining ==
    <<Submits("vision_analysis", "batch", 1),
      Registers("b", Vision, "default", 1), Registers("a", Vision, "default", 1),
      PostsClaim("b", 200), Deregisters("b", 202),
      PostsFail("b", 1, None, "temporary failure", TRUE, 200),
      ShowsJob(1, [status |-> "queued"]),
      ShowsWorker("b", [draining |-> TRUE, in_flight_jobs |-> 0]),
      PostsClaim("b", 409), PostsClaim("a", 200), ShowsJob(1, [holder |-> "a"])>>

worker_claim_endpoint_requeues_expired_leases_before_claiming ==
    <<Submits("vision_analysis", "batch", 1), Leases("a", Vision, 1), LeaseOver,
      Registers("b", Vision, "default", Unlimited), PostsClaim("b", 200),
      ShowsJob(1, [attempts |-> 2, error |-> TimedOut(TRUE), holder |-> "b"]),
      ShowsJob(1, [status |-> "running"])>>

worker_result_endpoints_release_worker_capacity ==
    <<Submits("embed_batch", "realtime", 1), Submits("embed_batch", "realtime", 2),
      Registers("a", Embed, "default", 1),
      PostsClaim("a", 200), ShowsWorker("a", [in_flight_jobs |-> 1]),
      PostsComplete("a", 1, None, "ok", 200), ShowsWorker("a", [in_flight_jobs |-> 0]),
      PostsClaim("a", 200), PostsFail("a", 2, None, "temporary failure", TRUE, 200),
      ShowsWorker("a", [in_flight_jobs |-> 0])>>

worker_claim_endpoint_skips_cancelled_requeued_job ==
    <<Submits("cluster", "background", 1), Leases("b", Cluster, 1), LeaseOver,
      Requeues(1, <<>>, <<"b">>), CancelsJob(1, "Cancelled"),
      Registers("a", Cluster, "default", Unlimited), PostsClaim("a", 204),
      ShowsJob(1, [status |-> "cancelled"]), Queued(<<>>)>>

worker_claim_endpoint_rejects_unknown_worker == <<PostsClaim("a", 404)>>

worker_claim_endpoint_rejects_stale_worker ==
    <<Submits("cluster", "batch", 1), Registers("a", Cluster, "default", Unlimited),
      GoesStale("a"), PostsClaim("a", 409)>>

worker_claim_endpoint_returns_no_content_without_compatible_job ==
    <<Submits("vision_analysis", "realtime", 1), Registers("a", Embed, "default", Unlimited),
      PostsClaim("a", 204)>>

--------------------------------------------------------------------------------
(* Cancellation and the maintenance loops *)

cancelling_leased_job_releases_worker_capacity ==
    <<Submits("vision_analysis", "batch", 1), Registers("a", Vision, "default", 1),
      PostsClaim("a", 200), ShowsWorker("a", [in_flight_jobs |-> 1]),
      PostsCancel(1, 200), ShowsWorker("a", [in_flight_jobs |-> 0])>>

expired_lease_sweep_releases_worker_capacity_before_claim ==
    <<Submits("vision_analysis", "batch", 1), Submits("vision_analysis", "batch", 2),
      Registers("b", Vision, "default", 1), Registers("a", Vision, "default", 1),
      Acquires("b", "Acquired"), Leases("b", Vision, 1), LeaseOver,
      PostsClaim("a", 200), ShowsWorker("b", [in_flight_jobs |-> 0]),
      ShowsWorker("a", [in_flight_jobs |-> 1])>>

lease_recovery_loop_requeues_expired_lease_and_releases_capacity ==
    <<Submits("vision_analysis", "batch", 1), Registers("a", Vision, "default", 1),
      Acquires("a", "Acquired"), Leases("a", Vision, 1), LeaseOver, RecoversLeases,
      ShowsJob(1, [status |-> "queued", lease |-> FALSE]),
      ShowsWorker("a", [in_flight_jobs |-> 0])>>

lease_recovery_loop_fails_exhausted_expired_lease_and_dispatches_callback ==
    <<SubmitsWithUrl("vision_analysis", "batch", 1), Registers("a", Vision, "default", 1),
      Leases("a", Vision, 1), LeaseOver, Requeues(1, <<>>, <<"a">>),
      Leases("a", Vision, 1), LeaseOver, Requeues(1, <<>>, <<"a">>),
      Acquires("a", "Acquired"), Leases("a", Vision, 1), LeaseOver, RecoversLeases,
      Shows("pending_callback_jobs", None, <<1>>), ShowsJob(1, [status |-> "failed"]),
      ShowsWorker("a", [in_flight_jobs |-> 0])>>

job_pruning_loop_retains_pending_callbacks_until_delivered ==
    <<SubmitsWithUrl("vision_analysis", "batch", 1), Leases("a", Vision, 1),
      CompletesLease("a", 1, None, "ok", "Completed"),
      Prunes(1, [s \in {} |-> 0]), ShowsJob(1, [status |-> "complete"]),
      DeliversCallback(1), Prunes(0, [complete |-> 1]), NoJob(1)>>

--------------------------------------------------------------------------------
(* Reports *)

worker_renew_endpoint_extends_held_lease ==
    <<Submits("vision_analysis", "batch", 1), Leases("a", Vision, 1),
      ShowsJob(1, [expires_at |-> LeaseDuration]), Sleeps(1),
      Registers("a", Vision, "default", Unlimited), PostsRenew("a", 1, 200),
      ShowsJob(1, [status |-> "running", holder |-> "a", expires_at |-> 1 + LeaseDuration])>>

worker_complete_endpoint_marks_held_job_complete ==
    <<Submits("vision_analysis", "batch", 1), Leases("a", Vision, 1),
      Registers("a", Vision, "default", Unlimited),
      PostsComplete("a", 1, None, "healthy", 200),
      ShowsJob(1, [status |-> "complete", result |-> "healthy", error |-> None, lease |-> FALSE])>>

worker_complete_endpoint_rejects_worker_that_does_not_hold_lease ==
    <<Submits("embed_batch", "realtime", 1), Leases("a", Embed, 1),
      Registers("b", Embed, "default", Unlimited), PostsComplete("b", 1, None, "null", 409),
      ShowsJob(1, [status |-> "running", holder |-> "a"])>>

worker_complete_endpoint_rejects_unknown_and_stale_workers ==
    <<Submits("vision_analysis", "batch", 1), Leases("a", Vision, 1),
      PostsComplete("a", 1, None, "null", 404),
      Registers("a", Vision, "default", Unlimited), GoesStale("a"),
      PostsComplete("a", 1, None, "null", 409)>>

duplicate_worker_result_reports_do_not_change_terminal_job ==
    <<Submits("vision_analysis", "batch", 1), Registers("a", Vision, "default", 1),
      PostsClaim("a", 200), PostsComplete("a", 1, 1, "healthy", 200),
      PostsComplete("a", 1, 1, "healthy", 200), PostsComplete("a", 1, 1, "changed", 409),
      PostsFail("a", 1, 1, "late failure", TRUE, 409),
      ShowsJob(1, [status |-> "complete", result |-> "healthy", error |-> None]),
      ShowsWorker("a", [in_flight_jobs |-> 0])>>

duplicate_terminal_failure_returns_existing_job_without_releasing_new_slot ==
    <<Submits("vision_analysis", "batch", 1), Submits("vision_analysis", "batch", 2),
      Registers("a", Vision, "default", 1), PostsClaim("a", 200),
      PostsFail("a", 1, 1, "bad input", FALSE, 200), ShowsWorker("a", [in_flight_jobs |-> 0]),
      PostsClaim("a", 200), ShowsWorker("a", [in_flight_jobs |-> 1]),
      PostsFail("a", 1, 1, "bad input", FALSE, 200), ShowsWorker("a", [in_flight_jobs |-> 1]),
      PostsFail("a", 1, 1, "different", FALSE, 409),
      ShowsJob(1, [status |-> "failed", error |-> [message |-> "bad input", retryable |-> FALSE]])>>

worker_fail_endpoint_requeues_retryable_failure ==
    <<Submits("index_build", "background", 1), Leases("a", {"index_build"}, 1),
      Registers("a", {"index_build"}, "default", Unlimited),
      PostsFail("a", 1, None, "temporary worker failure", TRUE, 200),
      ShowsJob(1, [status |-> "queued", lease |-> FALSE,
                   error |-> [message |-> "temporary worker failure", retryable |-> TRUE]]),
      Queued(<<1>>)>>

worker_fail_endpoint_marks_non_retryable_failure_failed ==
    <<Submits("cluster", "batch", 1), Leases("a", Cluster, 1),
      Registers("a", Cluster, "default", Unlimited),
      PostsFail("a", 1, None, "invalid request", FALSE, 200),
      ShowsJob(1, [status |-> "failed", lease |-> FALSE,
                   error |-> [message |-> "invalid request", retryable |-> FALSE]])>>

worker_fail_endpoint_rejects_empty_error ==
    <<Registers("a", Cluster, "default", Unlimited), PostsFail("a", 1, None, "", TRUE, 400)>>

worker_fail_endpoint_rejects_unknown_and_stale_workers ==
    <<Submits("cluster", "background", 1), Leases("a", Cluster, 1),
      PostsFail("a", 1, None, "worker failed", TRUE, 404),
      Registers("a", Cluster, "default", Unlimited), GoesStale("a"),
      PostsFail("a", 1, None, "worker failed", TRUE, 409)>>

worker_renew_endpoint_rejects_unknown_or_stale_worker ==
    <<Submits("embed_batch", "realtime", 1), Leases("a", Embed, 1), PostsRenew("a", 1, 404),
      Registers("a", Embed, "default", Unlimited), GoesStale("a"), PostsRenew("a", 1, 409)>>

worker_renew_endpoint_rejects_worker_that_does_not_hold_lease ==
    <<Submits("cluster", "background", 1), Leases("a", Cluster, 1),
      Registers("b", Cluster, "default", Unlimited), PostsRenew("b", 1, 409),
      ShowsJob(1, [holder |-> "a"])>>

worker_renew_endpoint_requeues_expired_lease_before_renewal ==
    <<Submits("vision_analysis", "batch", 1), Leases("a", Vision, 1), LeaseOver,
      Registers("a", Vision, "default", Unlimited), PostsRenew("a", 1, 409),
      ShowsJob(1, [status |-> "queued", error |-> TimedOut(TRUE), lease |-> FALSE]),
      Queued(<<1>>)>>

worker_renew_endpoint_rejects_cancelled_running_job ==
    <<Submits("vision_analysis", "batch", 1), Leases("a", Vision, 1), CancelsJob(1, "Cancelled"),
      Registers("a", Vision, "default", Unlimited), PostsRenew("a", 1, 409),
      ShowsJob(1, [status |-> "cancelled", holder |-> "a"])>>

worker_renew_endpoint_returns_not_found_for_missing_job ==
    <<Registers("a", Embed, "default", Unlimited), PostsRenew("a", 1, 404)>>

--------------------------------------------------------------------------------
SchedulerScripts ==
    <<preview_selects_realtime_job_before_earlier_lower_priority_job,
      preview_preserves_fifo_order_within_same_priority,
      preview_skips_jobs_without_matching_available_workers,
      preview_skips_workers_outside_workload_pool_policy,
      preview_selects_worker_from_allowed_pool,
      preview_ignores_stale_workers,
      preview_ignores_draining_workers,
      preview_is_none_when_queue_is_empty,
      preview_endpoint_reports_next_assignment_without_mutating_job,
      preview_endpoint_returns_no_content_when_no_assignment_exists,
      worker_claim_endpoint_leases_matching_job,
      worker_claim_endpoint_skips_jobs_outside_worker_pool,
      worker_claim_endpoint_returns_no_content_when_worker_pool_is_not_allowed,
      worker_claim_endpoint_keeps_omitted_workload_pool_policy_permissive,
      worker_claim_endpoint_prevents_duplicate_claims,
      worker_claim_endpoint_rejects_worker_at_capacity,
      worker_claim_endpoint_rejects_draining_worker,
      busy_deregistered_worker_can_complete_held_job_while_draining,
      busy_deregistered_worker_can_renew_held_job_while_draining,
      busy_deregistered_worker_can_fail_retryable_job_while_draining,
      worker_claim_endpoint_requeues_expired_leases_before_claiming,
      worker_result_endpoints_release_worker_capacity,
      worker_claim_endpoint_skips_cancelled_requeued_job,
      worker_claim_endpoint_rejects_unknown_worker,
      worker_claim_endpoint_rejects_stale_worker,
      worker_claim_endpoint_returns_no_content_without_compatible_job,
      cancelling_leased_job_releases_worker_capacity,
      expired_lease_sweep_releases_worker_capacity_before_claim,
      lease_recovery_loop_requeues_expired_lease_and_releases_capacity,
      lease_recovery_loop_fails_exhausted_expired_lease_and_dispatches_callback,
      job_pruning_loop_retains_pending_callbacks_until_delivered,
      worker_renew_endpoint_extends_held_lease,
      worker_complete_endpoint_marks_held_job_complete,
      worker_complete_endpoint_rejects_worker_that_does_not_hold_lease,
      worker_complete_endpoint_rejects_unknown_and_stale_workers,
      duplicate_worker_result_reports_do_not_change_terminal_job,
      duplicate_terminal_failure_returns_existing_job_without_releasing_new_slot,
      worker_fail_endpoint_requeues_retryable_failure,
      worker_fail_endpoint_marks_non_retryable_failure_failed,
      worker_fail_endpoint_rejects_empty_error,
      worker_fail_endpoint_rejects_unknown_and_stale_workers,
      worker_renew_endpoint_rejects_unknown_or_stale_worker,
      worker_renew_endpoint_rejects_worker_that_does_not_hold_lease,
      worker_renew_endpoint_requeues_expired_lease_before_renewal,
      worker_renew_endpoint_rejects_cancelled_running_job,
      worker_renew_endpoint_returns_not_found_for_missing_job>>

================================================================================

-------------------------------- MODULE JobTests --------------------------------
(***************************************************************************)
(* The tests of src/jobs.rs, as lines of Scenario, each under its own      *)
(* name.  A registry that is opened again on the same database is a        *)
(* restart.  Left out are the tests that age a job by hand, that give two  *)
(* leases of one test different durations, that need max_pruned_jobs = 1   *)
(* (it is 2 here), or that are about JSON.                                 *)
(***************************************************************************)
EXTENDS Scenario

Index == {"index_build"}
Failure(message, retryable) == [message |-> message, retryable |-> retryable]
FinishedBy(w, attempt) == [worker_id |-> w, attempt |-> attempt]
NoneRemoved == [s \in {} |-> 0]
Depth(priority, kind, n) == [pk \in {<<priority, kind>>} |-> n]

\* A vision_analysis job with this payload and idempotency key.
Keyed(payload, key) == Submission("vision_analysis", "batch", payload, None, key)

--------------------------------------------------------------------------------
(* Submission *)

submit_job_returns_accepted_queued_job ==
    <<SubmitsForm(Submission("vision_analysis", "batch", "image-1", Padded("url"), None), 1),
      ShowsJob(1, [kind |-> "vision_analysis", priority |-> "batch", status |-> "queued",
                   payload |-> "image-1", callback_url |-> "url", attempts |-> 0])>>

submit_job_reuses_existing_job_for_matching_idempotency_key ==
    LET form == Submission("vision_analysis", "batch", "image-1", Plain("url"), Padded("image-1"))
    IN  <<SubmitsForm(form, 1), SubmitsForm(form, 1), ShowsJob(1, [key |-> "image-1"]), Lists(<<1>>)>>

submit_job_rejects_idempotency_key_reused_for_different_request ==
    <<SubmitsForm(Keyed("image-1", Plain("image-1")), 1),
      SubmitsForm(Keyed("image-2", Plain("image-1")), None), Lists(<<1>>)>>

submit_job_rejects_overlong_idempotency_key ==
    <<SubmitsForm(Keyed("payload", Plain(TooLong)), None), Lists(<<>>)>>

submit_job_reuses_retained_terminal_job_for_idempotency_key ==
    <<SubmitsForm(Keyed("rose.jpg", Plain("rose-image")), 1), Leases("a", Vision, 1),
      CompletesLease("a", 1, None, "ok", "Completed"),
      SubmitsForm(Keyed("rose.jpg", Plain("rose-image")), 1),
      ShowsJob(1, [status |-> "complete", result |-> "ok"]), Lists(<<1>>)>>

submitted_job_can_be_fetched ==
    <<Submits("embed_batch", "realtime", 1),
      ShowsJob(1, [kind |-> "embed_batch", priority |-> "realtime"])>>

list_jobs_returns_jobs_in_submission_order ==
    <<Submits("vision_analysis", "realtime", 1), Submits("embed_batch", "realtime", 2),
      Lists(<<1, 2>>), ShowsJob(1, [kind |-> "vision_analysis"]),
      ShowsJob(2, [kind |-> "embed_batch"])>>

get_unknown_job_returns_404 == <<NoJob(1)>>

empty_callback_url_returns_400 ==
    <<SubmitsForm(Submission("vision_analysis", "realtime", "payload", Padded(""), None), None)>>

--------------------------------------------------------------------------------
(* Restarts *)

sqlite_registry_recovers_queued_jobs_and_next_id ==
    <<SubmitsForm(Submission("index_build", "background", "nightly", None, None), 1),
      SubmitsWithUrl("embed_batch", "realtime", 2), Restarts, Lists(<<1, 2>>),
      ShowsJob(1, [payload |-> "nightly"]), ShowsJob(2, [callback_url |-> "url"]),
      Queued(<<2, 1>>), Submits("cluster", "batch", 3)>>

sqlite_registry_recovers_submit_idempotency_keys ==
    <<SubmitsForm(Keyed("rose.jpg", Plain("rose-image")), 1), Restarts,
      SubmitsForm(Keyed("rose.jpg", Plain("rose-image")), 1),
      ShowsJob(1, [key |-> "rose-image"]), Lists(<<1>>)>>

sqlite_registry_recovers_fresh_running_cancelled_and_complete_jobs ==
    <<Submits("vision_analysis", "batch", 1), Submits("embed_batch", "realtime", 2),
      Submits("index_build", "background", 3), Submits("cluster", "batch", 4),
      Leases("a", Vision, 1), CancelsJob(2, "Cancelled"),
      Leases("b", Index, 3), CompletesLease("b", 3, None, "ok", "Completed"),
      Leases("c", Cluster, 4), FailsLease("c", 4, None, "bad input", FALSE, "Failed"), Restarts,
      ShowsJob(1, [status |-> "running", attempts |-> 1, holder |-> "a"]),
      ShowsJob(2, [status |-> "cancelled"]),
      ShowsJob(3, [status |-> "complete", result |-> "ok", lease |-> FALSE,
                   terminal_attempt |-> FinishedBy("b", 1)]),
      ShowsJob(4, [status |-> "failed", terminal_attempt |-> FinishedBy("c", 1)])>>

sqlite_registry_requeues_expired_running_job_on_startup ==
    <<Submits("vision_analysis", "batch", 1), Leases("a", Vision, 1), LeaseOver, Restarts,
      ShowsJob(1, [status |-> "queued", attempts |-> 1, lease |-> FALSE, error |-> TimedOut(TRUE)]),
      Queued(<<1>>), Restarts, ShowsJob(1, [status |-> "queued"])>>

sqlite_registry_fails_exhausted_expired_running_job_on_startup ==
    <<Submits("cluster", "background", 1),
      Leases("a", Cluster, 1), LeaseOver, Requeues(1, <<>>, <<"a">>),
      Leases("a", Cluster, 1), LeaseOver, Requeues(1, <<>>, <<"a">>),
      Leases("a", Cluster, 1), LeaseOver, Restarts,
      ShowsJob(1, [status |-> "failed", attempts |-> 3, lease |-> FALSE, error |-> TimedOut(FALSE)]),
      Queued(<<>>)>>

sqlite_backed_endpoints_recover_jobs_after_app_rebuild ==
    <<SubmitsForm(Submission("embed_batch", "batch", "seed", Plain("url"), None), 1), Restarts,
      ShowsJob(1, [status |-> "queued", payload |-> "seed", callback_url |-> "url"])>>

sqlite_registry_persists_lease_renewal_after_restart ==
    <<Submits("vision_analysis", "batch", 1), Leases("a", Vision, 1), Sleeps(1),
      RenewsLease("a", 1, "Renewed"), Restarts,
      ShowsJob(1, [status |-> "running", holder |-> "a", expires_at |-> 1 + LeaseDuration])>>

sqlite_registry_persists_worker_failures_after_restart ==
    <<Submits("embed_batch", "batch", 1), Submits("cluster", "background", 2),
      Leases("a", Embed, 1), FailsLease("a", 1, None, "transient worker error", TRUE, "Requeued"),
      Leases("b", Cluster, 2), FailsLease("b", 2, None, "bad input", FALSE, "Failed"), Restarts,
      ShowsJob(1, [status |-> "queued", error |-> Failure("transient worker error", TRUE)]),
      Queued(<<1>>),
      ShowsJob(2, [status |-> "failed", error |-> Failure("bad input", FALSE), lease |-> FALSE])>>

sqlite_backed_endpoints_claim_recovered_queue_after_app_rebuild ==
    <<Submits("vision_analysis", "batch", 1), Restarts, Registers("a", Vision, "default", 1),
      PostsClaim("a", 200), ShowsJob(1, [status |-> "running", holder |-> "a"])>>

--------------------------------------------------------------------------------
(* Queues, claims and cancellation *)

queue_snapshots_count_queued_jobs_by_priority_and_type ==
    <<Submits("vision_analysis", "realtime", 1), Submits("vision_analysis", "realtime", 2),
      Submits("embed_batch", "batch", 3),
      Shows("queue_snapshots", None,
            [pk \in {<<"realtime", "vision_analysis">>, <<"batch", "embed_batch">>} |->
                IF pk[1] = "realtime" THEN 2 ELSE 1])>>

cancel_job_marks_queued_job_cancelled ==
    <<Submits("index_build", "realtime", 1), PostsCancel(1, 200),
      ShowsJob(1, [status |-> "cancelled"])>>

cancelling_job_removes_it_from_queue_depth ==
    <<Submits("index_build", "background", 1), Submits("index_build", "background", 2),
      CancelsJob(1, "Cancelled"),
      Shows("queue_snapshots", None, Depth("background", "index_build", 1))>>

queued_jobs_by_priority_returns_priority_order_and_skips_cancelled_jobs ==
    <<Submits("index_build", "background", 1), Submits("embed_batch", "realtime", 2),
      Submits("vision_analysis", "batch", 3), CancelsJob(2, "Cancelled"), Queued(<<3, 1>>)>>

claim_next_for_worker_marks_job_running_and_removes_it_from_queue ==
    <<Submits("vision_analysis", "batch", 1), Leases("a", Vision, 1),
      ShowsJob(1, [status |-> "running", attempts |-> 1, holder |-> "a",
                   expires_at |-> LeaseDuration]), Queued(<<>>)>>

claim_next_for_worker_uses_priority_then_fifo_order ==
    <<Submits("vision_analysis", "background", 1), Submits("vision_analysis", "batch", 2),
      Submits("vision_analysis", "batch", 3), Leases("a", Vision, 2), Leases("a", Vision, 3)>>

cancelling_running_job_marks_it_cancelled ==
    <<Submits("embed_batch", "realtime", 1), Leases("a", Embed, 1), CancelsJob(1, "Cancelled"),
      ShowsJob(1, [status |-> "cancelled", lease |-> TRUE])>>

cancelling_running_job_prevents_later_lease_renewal ==
    <<Submits("vision_analysis", "batch", 1), Leases("a", Vision, 1), CancelsJob(1, "Cancelled"),
      RenewsLease("a", 1, "NotRunning"), ShowsJob(1, [status |-> "cancelled", lease |-> TRUE])>>

cancelling_requeued_expired_job_prevents_future_claim ==
    <<Submits("cluster", "background", 1), Leases("a", Cluster, 1), LeaseOver,
      Requeues(1, <<>>, <<"a">>), CancelsJob(1, "Cancelled"), Leases("b", Cluster, None),
      Queued(<<>>), ShowsJob(1, [status |-> "cancelled"])>>

cancel_already_cancelled_job_returns_existing_job ==
    <<Submits("cluster", "realtime", 1), PostsCancel(1, 200), PostsCancel(1, 200),
      ShowsJob(1, [status |-> "cancelled"])>>

cancel_completed_job_returns_conflict ==
    <<Submits("cluster", "batch", 1), Leases("a", Cluster, 1),
      CompletesLease("a", 1, None, "ok", "Completed"), PostsCancel(1, 409),
      ShowsJob(1, [status |-> "complete"])>>

cancelling_job_removes_it_from_queue_wait_snapshots ==
    <<Submits("index_build", "background", 1), Submits("index_build", "background", 2),
      CancelsJob(1, "Cancelled"),
      Shows("queue_snapshots", None, Depth("background", "index_build", 1))>>

queue_wait_snapshots_measure_queued_job_age_by_priority_and_type ==
    <<Submits("vision_analysis", "batch", 1), Submits("vision_analysis", "batch", 2), Sleeps(1),
      Shows("queue_snapshots", None, Depth("batch", "vision_analysis", 2))>>

terminal_duration_snapshots_group_terminal_jobs ==
    <<Submits("vision_analysis", "batch", 1), Submits("embed_batch", "realtime", 2),
      Submits("cluster", "background", 3), Leases("a", Vision, 1),
      CompletesLease("a", 1, None, "ok", "Completed"), CancelsJob(2, "Cancelled"),
      Shows("terminal_duration_snapshots", None,
            [g \in {<<"realtime", "embed_batch", "cancelled">>,
                    <<"batch", "vision_analysis", "complete">>} |-> 1])>>

metrics_reports_queue_depth_and_wait_time_for_queued_jobs ==
    <<Submits("vision_analysis", "batch", 1), Submits("vision_analysis", "batch", 2),
      Submits("cluster", "background", 3), PostsCancel(3, 200),
      Shows("queue_snapshots", None, Depth("batch", "vision_analysis", 2))>>

metrics_reports_terminal_job_duration ==
    <<Submits("vision_analysis", "batch", 1), Submits("cluster", "background", 2),
      Submits("embed_batch", "realtime", 3),
      Leases("a", Vision, 1), CompletesLease("a", 1, None, "ok", "Completed"),
      Leases("a", Cluster, 2), FailsLease("a", 2, None, "bad input", FALSE, "Failed"),
      Shows("terminal_duration_snapshots", None,
            [g \in {<<"batch", "vision_analysis", "complete">>,
                    <<"background", "cluster", "failed">>} |-> 1])>>

--------------------------------------------------------------------------------
(* Expired leases and reports *)

requeue_expired_leases_requeues_running_job_when_attempts_remain ==
    <<Submits("vision_analysis", "batch", 1), Leases("a", Vision, 1), LeaseOver,
      Requeues(1, <<>>, <<"a">>),
      ShowsJob(1, [status |-> "queued", attempts |-> 1, error |-> TimedOut(TRUE), lease |-> FALSE]),
      Queued(<<1>>), Leases("b", Vision, 1),
      ShowsJob(1, [status |-> "running", attempts |-> 2, holder |-> "b"])>>

requeue_expired_leases_fails_job_when_attempts_are_exhausted ==
    <<Submits("cluster", "background", 1),
      Leases("a", Cluster, 1), LeaseOver, Requeues(1, <<>>, <<"a">>),
      Leases("a", Cluster, 1), LeaseOver, Requeues(1, <<>>, <<"a">>),
      Leases("a", Cluster, 1), LeaseOver, Requeues(0, <<1>>, <<"a">>),
      ShowsJob(1, [status |-> "failed", attempts |-> MaxAttempts, error |-> TimedOut(FALSE),
                   lease |-> FALSE]), Queued(<<>>)>>

renew_lease_extends_current_workers_running_job ==
    <<Submits("vision_analysis", "batch", 1), Leases("a", Vision, 1), Sleeps(1),
      RenewsLease("a", 1, "Renewed"),
      ShowsJob(1, [status |-> "running", attempts |-> 1, holder |-> "a",
                   expires_at |-> 1 + LeaseDuration])>>

renew_lease_rejects_expired_lease ==
    <<Submits("vision_analysis", "batch", 1), Leases("a", Vision, 1), LeaseOver,
      RenewsLease("a", 1, "Expired"), ShowsJob(1, [status |-> "running", holder |-> "a"])>>

renew_lease_rejects_worker_that_does_not_hold_lease ==
    <<Submits("embed_batch", "realtime", 1), Leases("a", Embed, 1),
      RenewsLease("b", 1, "LeaseNotHeld"), ShowsJob(1, [status |-> "running", holder |-> "a"])>>

renew_lease_rejects_non_running_job ==
    <<Submits("index_build", "background", 1), RenewsLease("a", 1, "NotRunning"),
      ShowsJob(1, [status |-> "queued"]), CancelsJob(1, "Cancelled"),
      RenewsLease("a", 1, "NotRunning"), ShowsJob(1, [status |-> "cancelled"])>>

renew_lease_reports_missing_job == <<RenewsLease("a", 1, "NotFound")>>

complete_lease_marks_held_running_job_complete ==
    <<Submits("vision_analysis", "batch", 1), Leases("a", Vision, 1),
      CompletesLease("a", 1, None, "ok", "Completed"),
      ShowsJob(1, [status |-> "complete", result |-> "ok", error |-> None, lease |-> FALSE]),
      Queued(<<>>)>>

complete_lease_rejects_wrong_worker_and_expired_lease ==
    <<Submits("embed_batch", "realtime", 1), Leases("a", Embed, 1),
      CompletesLease("b", 1, None, "null", "LeaseNotHeld"),
      CompletesLease("a", 1, 2, "null", "LeaseNotHeld"),
      Submits("cluster", "batch", 2), Leases("a", Cluster, 2), LeaseOver,
      CompletesLease("a", 2, None, "null", "Expired")>>

fail_lease_requeues_retryable_failure_when_attempts_remain ==
    <<Submits("index_build", "background", 1), Leases("a", Index, 1),
      FailsLease("a", 1, None, "transient oom", TRUE, "Requeued"),
      ShowsJob(1, [status |-> "queued", attempts |-> 1, lease |-> FALSE,
                   error |-> Failure("transient oom", TRUE)]), Queued(<<1>>)>>

fail_lease_rejects_mismatched_running_attempt ==
    <<Submits("index_build", "background", 1), Leases("a", Index, 1),
      FailsLease("a", 1, 2, "wrong attempt", FALSE, "LeaseNotHeld"),
      ShowsJob(1, [status |-> "running", error |-> None, lease |-> TRUE])>>

fail_lease_marks_non_retryable_or_exhausted_failure_failed ==
    <<Submits("cluster", "batch", 1), Leases("a", Cluster, 1),
      FailsLease("a", 1, None, "bad input", FALSE, "Failed"),
      ShowsJob(1, [status |-> "failed", lease |-> FALSE]), Submits("embed_batch", "realtime", 2),
      Leases("a", Embed, 2), FailsLease("a", 2, None, "temporary failure", TRUE, "Requeued"),
      Leases("a", Embed, 2), FailsLease("a", 2, None, "temporary failure", TRUE, "Requeued"),
      Leases("a", Embed, 2), FailsLease("a", 2, None, "temporary failure", TRUE, "Failed"),
      ShowsJob(2, [status |-> "failed", attempts |-> MaxAttempts]), Queued(<<>>)>>

--------------------------------------------------------------------------------
(* Pruning *)

prune_terminal_jobs_respects_max_prune_limit ==
    <<Submits("vision_analysis", "batch", 1), Submits("vision_analysis", "batch", 2),
      Submits("vision_analysis", "batch", 3),
      Leases("a", Vision, 1), CompletesLease("a", 1, None, "ok", "Completed"),
      Leases("a", Vision, 2), CompletesLease("a", 2, None, "ok", "Completed"),
      Leases("a", Vision, 3), CompletesLease("a", 3, None, "ok", "Completed"),
      Prunes(0, [complete |-> 2]), Lists(<<3>>)>>

prune_terminal_jobs_removes_delivered_callback_jobs ==
    <<SubmitsWithUrl("vision_analysis", "batch", 1), Leases("a", Vision, 1),
      CompletesLease("a", 1, None, "ok", "Completed"), Prunes(1, NoneRemoved), Lists(<<1>>),
      DeliversCallback(1), Prunes(0, [complete |-> 1]), NoJob(1)>>

delivered_callback_jobs_are_not_dispatched_again ==
    <<SubmitsWithUrl("vision_analysis", "batch", 1), Leases("a", Vision, 1),
      CompletesLease("a", 1, None, "ok", "Completed"),
      Shows("pending_callback_jobs", None, <<1>>), DeliversCallback(1),
      Shows("pending_callback_jobs", None, <<>>)>>

prune_terminal_jobs_releases_submit_idempotency_key ==
    <<SubmitsForm(Keyed("rose.jpg", Plain("rose-image")), 1), Leases("a", Vision, 1),
      CompletesLease("a", 1, None, "ok", "Completed"), Prunes(0, [complete |-> 1]),
      SubmitsForm(Keyed("rose-again.jpg", Plain("rose-image")), 2), Lists(<<2>>)>>

prune_terminal_jobs_preserves_queued_and_running_jobs ==
    <<Submits("vision_analysis", "batch", 1), Submits("embed_batch", "batch", 2),
      Submits("cluster", "batch", 3),
      Leases("a", Vision, 1), CompletesLease("a", 1, None, "ok", "Completed"),
      Leases("b", Embed, 2), Prunes(0, [complete |-> 1]), NoJob(1),
      ShowsJob(2, [status |-> "running"]), ShowsJob(3, [status |-> "queued"]),
      Leases("c", Cluster, 3), ShowsJob(3, [status |-> "running"])>>

sqlite_pruning_persists_removed_terminal_jobs ==
    <<Submits("cluster", "background", 1), Leases("a", Cluster, 1),
      CompletesLease("a", 1, None, "ok", "Completed"), Prunes(0, [complete |-> 1]), Restarts,
      NoJob(1), Lists(<<>>)>>

--------------------------------------------------------------------------------
JobScripts ==
    <<submit_job_returns_accepted_queued_job,
      submit_job_reuses_existing_job_for_matching_idempotency_key,
      submit_job_rejects_idempotency_key_reused_for_different_request,
      submit_job_rejects_overlong_idempotency_key,
      submit_job_reuses_retained_terminal_job_for_idempotency_key,
      submitted_job_can_be_fetched,
      list_jobs_returns_jobs_in_submission_order,
      get_unknown_job_returns_404,
      empty_callback_url_returns_400,
      sqlite_registry_recovers_queued_jobs_and_next_id,
      sqlite_registry_recovers_submit_idempotency_keys,
      sqlite_registry_recovers_fresh_running_cancelled_and_complete_jobs,
      sqlite_registry_requeues_expired_running_job_on_startup,
      sqlite_registry_fails_exhausted_expired_running_job_on_startup,
      sqlite_backed_endpoints_recover_jobs_after_app_rebuild,
      sqlite_registry_persists_lease_renewal_after_restart,
      sqlite_registry_persists_worker_failures_after_restart,
      sqlite_backed_endpoints_claim_recovered_queue_after_app_rebuild,
      queue_snapshots_count_queued_jobs_by_priority_and_type,
      cancel_job_marks_queued_job_cancelled,
      cancelling_job_removes_it_from_queue_depth,
      queued_jobs_by_priority_returns_priority_order_and_skips_cancelled_jobs,
      claim_next_for_worker_marks_job_running_and_removes_it_from_queue,
      claim_next_for_worker_uses_priority_then_fifo_order,
      cancelling_running_job_marks_it_cancelled,
      cancelling_running_job_prevents_later_lease_renewal,
      cancelling_requeued_expired_job_prevents_future_claim,
      cancel_already_cancelled_job_returns_existing_job,
      cancel_completed_job_returns_conflict,
      cancelling_job_removes_it_from_queue_wait_snapshots,
      queue_wait_snapshots_measure_queued_job_age_by_priority_and_type,
      terminal_duration_snapshots_group_terminal_jobs,
      metrics_reports_queue_depth_and_wait_time_for_queued_jobs,
      metrics_reports_terminal_job_duration,
      requeue_expired_leases_requeues_running_job_when_attempts_remain,
      requeue_expired_leases_fails_job_when_attempts_are_exhausted,
      renew_lease_extends_current_workers_running_job,
      renew_lease_rejects_expired_lease,
      renew_lease_rejects_worker_that_does_not_hold_lease,
      renew_lease_rejects_non_running_job,
      renew_lease_reports_missing_job,
      complete_lease_marks_held_running_job_complete,
      complete_lease_rejects_wrong_worker_and_expired_lease,
      fail_lease_requeues_retryable_failure_when_attempts_remain,
      fail_lease_rejects_mismatched_running_attempt,
      fail_lease_marks_non_retryable_or_exhausted_failure_failed,
      prune_terminal_jobs_respects_max_prune_limit,
      prune_terminal_jobs_removes_delivered_callback_jobs,
      delivered_callback_jobs_are_not_dispatched_again,
      prune_terminal_jobs_releases_submit_idempotency_key,
      prune_terminal_jobs_preserves_queued_and_running_jobs,
      sqlite_pruning_persists_removed_terminal_jobs>>

================================================================================

------------------------------- MODULE Callbacks -------------------------------
(***************************************************************************)
(* Delivery of terminal callbacks (src/callbacks.rs) on top of the job     *)
(* registry.                                                               *)
(*                                                                         *)
(* A handler that finished a job dispatches its callback; a recovery loop  *)
(* dispatches every pending one again and again.  The dispatcher keeps the *)
(* set of jobs in delivery and spawns a task for a job that is not in it.  *)
(* A task counts the attempt in the registry, posts the job to its         *)
(* callback URL, records the outcome, and tries again up to max_attempts   *)
(* times.  Every access to the registry and every POST is a step of its    *)
(* own, and the process may stop between any two of them.                  *)
(***************************************************************************)
EXTENDS JobRegistry

CONSTANTS
    Tasks,                  \* bound: delivery tasks that exist at a time
    CallbackMaxAttempts,    \* CallbackPolicy.max_attempts, at least 1
    MaxRestarts             \* bound: restarts of the process

ASSUME CallbackAssumption == CallbackMaxAttempts \in Nat \ {0} /\ MaxRestarts \in Nat

VARIABLES
    task,           \* the delivery tasks
    in_flight,      \* CallbackDispatcher.in_flight
    dispatching,    \* jobs that request handlers are about to dispatch
    recovering,     \* jobs that the recovery loop has listed and not dispatched yet
    received,       \* the statuses of each job that its receiver has been told
    restarts        \* history: restarts so far

deliveryVars == <<task, in_flight, dispatching, recovering, received, restarts>>
callbackVars == <<vars, deliveryVars>>

NoTask == [pc |-> "idle", job |-> 0, attempt |-> 0, status |-> "none"]

CallbacksInit ==
    /\ Init
    /\ task = [t \in Tasks |-> NoTask]
    /\ in_flight = {}
    /\ dispatching = {}
    /\ recovering = {}
    /\ received = [id \in JobIds |-> {}]
    /\ restarts = 0

CallbacksTypeOK ==
    /\ TypeOK
    /\ task \in [Tasks -> [pc : {"idle", "begin", "post", "record_success", "record_failure", "done"},
                           job : 0..MaxJobs, attempt : 0..CallbackMaxAttempts,
                           status : Terminal \cup {"none"}]]
    /\ in_flight \subseteq JobIds
    /\ dispatching \subseteq JobIds
    /\ recovering \subseteq JobIds
    /\ received \in [JobIds -> SUBSET Terminal]

--------------------------------------------------------------------------------
(* Who dispatches *)

\* The jobs that a step finished: their handler dispatches them.
JustFinished ==
    {id \in DOMAIN jobs : jobs[id].status \notin Terminal
                          /\ id \in DOMAIN jobs' /\ jobs'[id].status \in Terminal}

\* The receiver has been told nothing about a job that has just been submitted.
ForgetNewJobs ==
    received' = [id \in JobIds |-> IF id \in DOMAIN jobs' \ DOMAIN jobs THEN {} ELSE received[id]]

\* A step of the registry.  The handlers of complete, fail and cancel dispatch the
\* job once their transaction was committed.
RegistryStep ==
    /\ CallerNext \/ WorkerNext \/ Tick
    /\ dispatching' = IF behind' = 0 THEN dispatching \cup JustFinished ELSE dispatching
    /\ ForgetNewJobs
    /\ UNCHANGED <<task, in_flight, recovering, restarts>>

\* sweep_expired_leases dispatches the jobs it failed in any case.
SweepStep ==
    /\ \E ok \in Outcomes : RequeueExpiredLeases(ok)
    /\ dispatching' = dispatching \cup JustFinished
    /\ UNCHANGED <<task, in_flight, recovering, received, restarts>>

PruneStep ==
    /\ \E ok \in Outcomes : PruneTerminalJobs(ok)
    /\ UNCHANGED deliveryVars

\* dispatch_pending_callbacks: the recovery loop lists the pending callbacks.
RecoveryScan ==
    /\ recovering = {}
    /\ recovering' = {id \in DOMAIN jobs : CallbackPending(id)}
    /\ UNCHANGED <<vars, task, in_flight, dispatching, received, restarts>>

\* A request handler is dropped before it dispatches, because its client went away.
DropDispatch(id) ==
    /\ id \in dispatching
    /\ dispatching' = dispatching \ {id}
    /\ UNCHANGED <<vars, task, in_flight, recovering, received, restarts>>

--------------------------------------------------------------------------------
(* CallbackDispatcher *)

\* Mutant: the task is spawned whether or not the job is in delivery.
MarkInFlightAlways(id) == in_flight' = in_flight \cup {id}

\* mark_in_flight.
MarkInFlight(id) ==
    /\ id \notin in_flight
    /\ in_flight' = in_flight \cup {id}

\* dispatch: does nothing for a job in delivery, else spawns a task.
Dispatch(id) ==
    /\ \/ /\ MarkInFlight(id)
          /\ \E t \in Tasks :
                /\ task[t].pc = "idle"
                /\ task' = [task EXCEPT ![t] = [NoTask EXCEPT !.pc = "begin", !.job = id,
                                                              !.attempt = 1]]
       \/ id \in in_flight /\ UNCHANGED <<task, in_flight>>
    /\ UNCHANGED <<vars, received, restarts>>

HandlerDispatch(id) ==
    /\ id \in dispatching
    /\ dispatching' = dispatching \ {id}
    /\ Dispatch(id)
    /\ UNCHANGED recovering

RecoveryDispatch(id) ==
    /\ id \in recovering
    /\ recovering' = recovering \ {id}
    /\ Dispatch(id)
    /\ UNCHANGED dispatching

\* Mutant: the set of jobs in delivery is not cleaned up.
ClearInFlightNever(id) == in_flight' = in_flight

\* clear_in_flight.
ClearInFlight(id) == in_flight' = in_flight \ {id}

\* deliver_callback has returned.
TaskEnds(t) ==
    /\ task[t].pc = "done"
    /\ ClearInFlight(task[t].job)
    /\ task' = [task EXCEPT ![t] = NoTask]
    /\ UNCHANGED <<vars, dispatching, recovering, received, restarts>>

--------------------------------------------------------------------------------
(* deliver_callback *)

TaskAt(t, pc) == task[t].pc = pc

\* Mutant: the POST is sent although the attempt was not committed.
AfterBeginUnchecked(ok) == "post"

\* The POST is sent only when the attempt was committed.
AfterBegin(ok) == IF ok THEN "post" ELSE "done"

\* begin_callback_attempt; the task keeps a copy of the job for the POST.
Begin(t, ok) ==
    /\ TaskAt(t, "begin")
    /\ \/ /\ BeginCallbackAttempt(task[t].job, ok)
          /\ task' = [task EXCEPT ![t].pc = AfterBegin(ok),
                                  ![t].status = jobs[task[t].job].status]
       \/ /\ ~CallbackPending(task[t].job)
          /\ task' = [task EXCEPT ![t].pc = "done"]
          /\ UNCHANGED vars
    /\ UNCHANGED <<in_flight, dispatching, recovering, received, restarts>>

\* The receiver is told the status of the job.
Handled(t) == received' = [received EXCEPT ![task[t].job] = @ \cup {task[t].status}]

\* The receiver handles the POST and its 2xx answer arrives in time.
PostAccepted(t) ==
    /\ TaskAt(t, "post")
    /\ Handled(t)
    /\ task' = [task EXCEPT ![t].pc = "record_success"]
    /\ UNCHANGED <<vars, in_flight, dispatching, recovering, restarts>>

\* The receiver handles the POST, but the answer is lost or late; or it refuses the
\* POST, or never gets it.
PostFails(t) ==
    /\ TaskAt(t, "post")
    /\ Handled(t) \/ UNCHANGED received
    /\ task' = [task EXCEPT ![t].pc = "record_failure"]
    /\ UNCHANGED <<vars, in_flight, dispatching, recovering, restarts>>

RecordSuccess(t, ok) ==
    /\ TaskAt(t, "record_success")
    /\ RecordCallbackSuccess(task[t].job, ok)
    /\ task' = [task EXCEPT ![t].pc = "done"]
    /\ UNCHANGED <<in_flight, dispatching, recovering, received, restarts>>

\* Mutant: one attempt too many.
LastAttemptOffByOne(attempt) == attempt > CallbackMaxAttempts

LastAttempt(attempt) == attempt = CallbackMaxAttempts

\* The next attempt after retry_delay, up to max_attempts.
AfterFailure(delivery) ==
    IF LastAttempt(delivery.attempt)
    THEN [delivery EXCEPT !.pc = "done"]
    ELSE [delivery EXCEPT !.pc = "begin", !.attempt = @ + 1]

\* record_callback_failure, then the next attempt.
RecordFailure(t, ok) ==
    /\ TaskAt(t, "record_failure")
    /\ IF CallbackPending(task[t].job)
       THEN RecordCallbackFailure(task[t].job, ok)
       ELSE UNCHANGED vars
    /\ task' = [task EXCEPT ![t] = AfterFailure(@)]
    /\ UNCHANGED <<in_flight, dispatching, recovering, received, restarts>>

--------------------------------------------------------------------------------
(* Specification *)

\* The tasks and the dispatcher's set are gone after a restart.
CallbacksRestart ==
    /\ restarts < MaxRestarts
    /\ restarts' = restarts + 1
    /\ Restart
    /\ task' = [t \in Tasks |-> NoTask]
    /\ in_flight' = {}
    /\ dispatching' = {}
    /\ recovering' = {}
    /\ UNCHANGED received

TaskStep(t) ==
    \/ \E ok \in Outcomes : Begin(t, ok) \/ RecordSuccess(t, ok) \/ RecordFailure(t, ok)
    \/ PostAccepted(t)
    \/ PostFails(t)
    \/ TaskEnds(t)

CallbacksNext ==
    \/ RegistryStep
    \/ SweepStep
    \/ PruneStep
    \/ RecoveryScan
    \/ \E id \in JobIds : DropDispatch(id) \/ HandlerDispatch(id) \/ RecoveryDispatch(id)
    \/ \E t \in Tasks : TaskStep(t)
    \/ CallbacksRestart

\* The recovery loop and the tasks run on; a database that is asked again and again
\* eventually commits, and a receiver eventually answers in time.
CallbacksFairness ==
    /\ WF_callbackVars(RecoveryScan)
    /\ \A id \in JobIds : WF_callbackVars(RecoveryDispatch(id))
    /\ \A t \in Tasks :
           /\ WF_callbackVars(TaskStep(t))
           /\ SF_callbackVars(Begin(t, TRUE))
           /\ SF_callbackVars(PostAccepted(t))

CallbacksSpec == CallbacksInit /\ [][CallbacksNext]_callbackVars /\ CallbacksFairness

--------------------------------------------------------------------------------
(* Properties *)

\* The receiver is never told two different outcomes of a job, nor one that the
\* registry later takes back: an outcome is on disk before it is posted, so a crash
\* between the POST and any later step cannot make the job run again.
ToldOutcomeIsFinal == \A id \in DOMAIN jobs : received[id] \subseteq {jobs[id].status}

\* A job that asks for a callback is not pruned before its receiver has handled it,
\* whatever happens to answers, transactions and tasks.
PrunedAfterDelivery ==
    [][PruneStep => \A id \in DOMAIN jobs \ DOMAIN jobs' :
            jobs[id].request.callback_url # None => received[id] # {}]_callbackVars

\* In one process a job is never in delivery twice at a time.
OneDeliveryAtATime ==
    \A t, u \in Tasks : task[t].job = task[u].job /\ task[t].job # 0 => t = u

\* Every pending callback that is on disk is eventually delivered, although transactions
\* fail, handlers may be dropped before they dispatch, tasks give up after max_attempts
\* and the process may restart.
PendingCallbackDelivered ==
    \A id \in JobIds :
        id \in DOMAIN store.jobs /\ store.jobs[id].callback = "pending"
            ~> (id \notin DOMAIN jobs \/ jobs[id].callback = "delivered")

================================================================================

---------------------------- MODULE CallbacksProofs ----------------------------
(***************************************************************************)
(* Theorems about callback delivery, for any number of jobs, tasks,        *)
(* attempts and restarts.                                                  *)
(***************************************************************************)
EXTENDS Callbacks, JobDurabilityProofs

--------------------------------------------------------------------------------
(* The registry under the dispatcher *)

\* Every step of the handlers, loops and tasks is a step of the registry, leaves it
\* alone, or is a restart.
LEMMA DeliveryStepsRegistry ==
    ASSUME TypeOK, [CallbacksNext]_callbackVars
    PROVE  [Works]_vars \/ Restart
<1>1. DOMAIN jobs \subseteq JobIds
  BY DEF TypeOK, JobTable
<1>2. CASE UNCHANGED callbackVars
  BY <1>2 DEF callbackVars
<1>3. CASE RegistryStep
  BY <1>3 DEF RegistryStep, Works
<1>4. CASE SweepStep
  BY <1>4 DEF SweepStep, Works, MaintenanceNext
<1>5. CASE PruneStep
  BY <1>5 DEF PruneStep, Works, MaintenanceNext
<1>6. CASE RecoveryScan
  BY <1>6 DEF RecoveryScan
<1>7. ASSUME NEW id \in JobIds, DropDispatch(id) \/ HandlerDispatch(id) \/ RecoveryDispatch(id)
      PROVE  UNCHANGED vars
  BY <1>7 DEF DropDispatch, HandlerDispatch, RecoveryDispatch, Dispatch
<1>8. ASSUME NEW t \in Tasks, TaskStep(t)
      PROVE  [Works]_vars
  <2>1. ASSUME NEW ok \in Outcomes, Begin(t, ok)
        PROVE  CallbackNext \/ UNCHANGED vars
    <3>1. CASE BeginCallbackAttempt(task[t].job, ok)
      BY <1>1, <3>1 DEF BeginCallbackAttempt, CallbackPending, CallbackNext
    <3>2. QED
      BY <2>1, <3>1 DEF Begin
  <2>2. ASSUME NEW ok \in Outcomes, RecordSuccess(t, ok)
        PROVE  CallbackNext
    <3>1. RecordCallbackSuccess(task[t].job, ok)
      BY <2>2 DEF RecordSuccess
    <3>2. task[t].job \in JobIds
      BY <1>1, <3>1 DEF RecordCallbackSuccess
    <3>3. QED
      BY <3>1, <3>2 DEF CallbackNext
  <2>3. ASSUME NEW ok \in Outcomes, RecordFailure(t, ok)
        PROVE  CallbackNext \/ UNCHANGED vars
    <3>1. CASE RecordCallbackFailure(task[t].job, ok)
      BY <1>1, <3>1 DEF RecordCallbackFailure, CallbackNext
    <3>2. QED
      BY <2>3, <3>1 DEF RecordFailure
  <2>4. CASE PostAccepted(t) \/ PostFails(t) \/ TaskEnds(t)
    BY <2>4 DEF PostAccepted, PostFails, TaskEnds
  <2>5. QED
    BY <1>8, <2>1, <2>2, <2>3, <2>4 DEF TaskStep, Works
<1>9. CASE CallbacksRestart
  BY <1>9 DEF CallbacksRestart
<1>10. QED
  BY <1>2, <1>3, <1>4, <1>5, <1>6, <1>7, <1>8, <1>9 DEF CallbacksNext

\* It keeps the registry's invariant.
LEMMA RegistryInvStep == IInv /\ [CallbacksNext]_callbackVars => IInv'
<1>1. [Works]_vars \/ Restart => [Step]_vars
  BY DEF Works, Step, Next
<1>2. QED
  BY <1>1, DeliveryStepsRegistry, InvariantKept DEF IInv

\* Delivery does not disturb the registry: its invariant holds under the dispatcher too.
THEOREM RegistryUnderDelivery == CallbacksSpec => []IInv
<1>1. CallbacksInit => IInv
  BY InvariantInit DEF CallbacksInit
<1>2. QED
  BY <1>1, RegistryInvStep, PTL DEF CallbacksSpec

\* The handlers, the loops and the dispatcher with its tasks are a driver of the registry.
LEMMA DeliveryIsDriver == CallbacksSpec => AnyDriver
<1>1. CallbacksInit => Init
  BY DEF CallbacksInit
<1>2. IInv /\ [CallbacksNext]_callbackVars => [Step]_vars
  <2>1. [Works]_vars \/ Restart => [Step]_vars
    BY DEF Works, Step, Next
  <2>2. QED
    BY <2>1, DeliveryStepsRegistry DEF IInv
<1>3. QED
  BY <1>1, <1>2, RegistryUnderDelivery, PTL DEF CallbacksSpec, AnyDriver

\* Delivery with its retries, recoveries and crashes moves a job only along its life cycle.
THEOREM DeliveryImplementsLifecycle == CallbacksSpec => ImplementsLifecycle
BY DeliveryIsDriver, DriversImplementLifecycle

\* What callers and workers were told stays true while callbacks are delivered, and a restart
\* after a committed transaction finds the registry that the dispatcher saw.
THEOREM DeliveryKeepsAnswers ==
    CallbacksSpec => [](AcknowledgedKept /\ AttemptsNotForgotten /\ StoreFaithful)
BY DeliveryIsDriver, DurableInvariant, DurableImplies, PTL

\* The outcome that a callback is about does not change while it is delivered and retried.
THEOREM DeliveredOutcomesStay == CallbacksSpec => TerminalFinal
BY DeliveryIsDriver, DriversKeepFinished

--------------------------------------------------------------------------------
(* The dispatcher and its tasks *)

\* The delivery tasks.
TaskRecord ==
    [pc : {"idle", "begin", "post", "record_success", "record_failure", "done"},
     job : 0..MaxJobs, attempt : 0..CallbackMaxAttempts, status : Terminal \cup {"none"}]

\* A task starts on a job that is not in delivery.
TaskStarts(t, id) ==
    /\ task[t].pc = "idle"
    /\ id \in JobIds \ in_flight
    /\ task' = [task EXCEPT ![t] = [NoTask EXCEPT !.pc = "begin", !.job = id, !.attempt = 1]]
    /\ in_flight' = in_flight \cup {id}
    /\ UNCHANGED received

\* A task goes on with its job.
TaskMoves(t, new) ==
    /\ task[t].pc \notin {"idle", "done"}
    /\ new.pc # "idle" /\ new.job = task[t].job
    /\ new.pc = "post" => new.status \in Terminal
    /\ task' = [task EXCEPT ![t] = new]
    /\ UNCHANGED <<in_flight, dispatching, recovering>>

\* What a step does to the tasks and to the set of jobs in delivery.
DeliveryEffect ==
    \/ UNCHANGED <<task, in_flight>>
    \/ \E t \in Tasks, id \in JobIds : TaskStarts(t, id)
    \/ \E t \in Tasks, new \in TaskRecord : TaskMoves(t, new)
    \/ \E t \in Tasks : TaskEnds(t)
    \/ CallbacksRestart

\* The types of what the dispatcher keeps.
DeliveryTypes ==
    /\ task \in [Tasks -> TaskRecord]
    /\ in_flight \subseteq JobIds
    /\ dispatching \subseteq JobIds
    /\ recovering \subseteq JobIds
    /\ received \in [JobIds -> SUBSET Terminal]

\* After a failed attempt a task goes on with its job, within max_attempts, or is done.
LEMMA FailureEffect ==
    ASSUME NEW old \in TaskRecord, old.pc # "idle"
    PROVE  /\ AfterFailure(old) \in TaskRecord
           /\ AfterFailure(old).pc \in {"begin", "done"}
           /\ AfterFailure(old).job = old.job
<1>1. ~LastAttempt(old.attempt) => old.attempt + 1 \in 0..CallbackMaxAttempts
  BY CallbackAssumption DEF TaskRecord, LastAttempt
<1>2. QED
  BY <1>1 DEF TaskRecord, AfterFailure

\* Every step has one of these effects.
LEMMA DeliveryEffects ==
    ASSUME TypeOK, DeliveryTypes, [CallbacksNext]_callbackVars
    PROVE  DeliveryEffect
<1>1. CASE \/ UNCHANGED callbackVars \/ RegistryStep \/ SweepStep \/ PruneStep \/ RecoveryScan
  BY <1>1 DEF callbackVars, deliveryVars, RegistryStep, SweepStep, PruneStep, RecoveryScan,
              DeliveryEffect
<1>2. ASSUME NEW id \in JobIds, DropDispatch(id)
      PROVE  DeliveryEffect
  BY <1>2 DEF DropDispatch, DeliveryEffect
<1>3. ASSUME NEW id \in JobIds, Dispatch(id)
      PROVE  DeliveryEffect
  BY <1>3 DEF Dispatch, MarkInFlight, DeliveryEffect, TaskStarts
<1>4. ASSUME NEW t \in Tasks, TaskStep(t)
      PROVE  DeliveryEffect
  <2> DEFINE old == task[t]
  <2>1. old \in TaskRecord
    BY DEF DeliveryTypes
  <2>2. ASSUME NEW ok \in Outcomes, Begin(t, ok)
        PROVE  DeliveryEffect
    <3>1. old.pc = "begin" /\ UNCHANGED <<in_flight, dispatching, recovering>>
      BY <2>2 DEF Begin, TaskAt
    <3>2. CASE BeginCallbackAttempt(old.job, ok) /\ task' = [task EXCEPT ![t].pc = AfterBegin(ok),
                                                        ![t].status = jobs[task[t].job].status]
      <4>1. AfterBegin(ok) \in {"post", "done"} /\ jobs[old.job].status \in Terminal
        BY <3>2 DEF AfterBegin, BeginCallbackAttempt, CallbackPending
      <4> DEFINE new == [old EXCEPT !.pc = AfterBegin(ok), !.status = jobs[old.job].status]
      <4>2. /\ new \in TaskRecord /\ new.pc \in {"post", "done"} /\ new.job = old.job
            /\ new.status \in Terminal
        BY <2>1, <4>1 DEF TaskRecord
      <4>3. task' = [task EXCEPT ![t] = new]
        BY <2>1, <3>2 DEF DeliveryTypes
      <4> HIDE DEF new
      <4>4. TaskMoves(t, new)
        BY <3>1, <4>2, <4>3 DEF TaskMoves
      <4>5. QED
        BY <4>2, <4>4 DEF DeliveryEffect
    <3>3. CASE task' = [task EXCEPT ![t].pc = "done"]
      <4> DEFINE new == [old EXCEPT !.pc = "done"]
      <4>1. new \in TaskRecord /\ new.pc = "done" /\ new.job = old.job
        BY <2>1 DEF TaskRecord
      <4>2. task' = [task EXCEPT ![t] = new]
        BY <3>3 DEF DeliveryTypes
      <4> HIDE DEF new
      <4>3. QED
        BY <3>1, <4>1, <4>2 DEF TaskMoves, DeliveryEffect
    <3>4. QED
      BY <2>2, <3>2, <3>3 DEF Begin
  <2>3. ASSUME NEW pc \in {"done", "record_success", "record_failure"},
               old.pc \notin {"idle", "done"}, task' = [task EXCEPT ![t].pc = pc],
               UNCHANGED <<in_flight, dispatching, recovering>>
        PROVE  DeliveryEffect
    <3> DEFINE new == [old EXCEPT !.pc = pc]
    <3>1. new \in TaskRecord /\ new.pc = pc /\ new.job = old.job
      BY <2>1, <2>3 DEF TaskRecord
    <3>2. task' = [task EXCEPT ![t] = new]
      BY <2>3 DEF DeliveryTypes
    <3> HIDE DEF new
    <3>3. QED
      BY <2>3, <3>1, <3>2 DEF TaskMoves, DeliveryEffect
  <2>4. ASSUME NEW ok \in Outcomes, RecordSuccess(t, ok)
        PROVE  DeliveryEffect
    BY <2>3, <2>4 DEF RecordSuccess, TaskAt
  <2>5. CASE PostAccepted(t) \/ PostFails(t)
    BY <2>3, <2>5 DEF PostAccepted, PostFails, TaskAt
  <2>6. ASSUME NEW ok \in Outcomes, RecordFailure(t, ok)
        PROVE  DeliveryEffect
    <3> DEFINE new == AfterFailure(old)
    <3>1. old.pc = "record_failure" /\ UNCHANGED <<in_flight, dispatching, recovering>>
      BY <2>6 DEF RecordFailure, TaskAt
    <3>2. new \in TaskRecord /\ new.pc \in {"begin", "done"} /\ new.job = old.job
      BY <2>1, <3>1, FailureEffect
    <3>3. task' = [task EXCEPT ![t] = new]
      BY <2>6 DEF RecordFailure
    <3> HIDE DEF new
    <3>4. QED
      BY <3>1, <3>2, <3>3 DEF TaskMoves, DeliveryEffect
  <2>7. CASE TaskEnds(t)
    BY <2>7 DEF DeliveryEffect
  <2>8. QED
    BY <1>4, <2>2, <2>4, <2>5, <2>6, <2>7 DEF TaskStep
<1>5. CASE CallbacksRestart
  BY <1>5 DEF DeliveryEffect
<1>6. QED
  BY <1>1, <1>2, <1>3, <1>4, <1>5 DEF CallbacksNext, HandlerDispatch, RecoveryDispatch

\* A task that is not idle has a job, which is in delivery, and posts only an outcome.
TaskInOrder(delivery) ==
    /\ delivery.pc = "idle" => delivery.job = 0
    /\ delivery.pc # "idle" => delivery.job \in in_flight
    /\ delivery.pc = "post" => delivery.status \in Terminal

TasksInOrder == \A t \in Tasks : TaskInOrder(task[t])

\* Every step keeps the types of what the dispatcher keeps.
LEMMA DeliveryTypesStep ==
    ASSUME TypeOK, DeliveryTypes, TasksInOrder, [CallbacksNext]_callbackVars
    PROVE  DeliveryTypes'
<1>1. DOMAIN jobs \subseteq JobIds
  BY DEF TypeOK, JobTable
<1>2. NoTask \in TaskRecord /\ \A id \in JobIds :
            [NoTask EXCEPT !.pc = "begin", !.job = id, !.attempt = 1] \in TaskRecord
  <2>1. NoTask \in TaskRecord /\ 1 \in 0..CallbackMaxAttempts /\ JobIds \subseteq 0..MaxJobs
    BY CallbackAssumption, BoundsAssumption DEF NoTask, TaskRecord, JobIds
  <2>2. QED
    BY <2>1 DEF TaskRecord
<1>3. task' \in [Tasks -> TaskRecord] /\ in_flight' \subseteq JobIds
  <2>1. ASSUME NEW t \in Tasks, NEW id \in JobIds, TaskStarts(t, id)
        PROVE  task' \in [Tasks -> TaskRecord] /\ in_flight' \subseteq JobIds
    BY <1>2, <2>1 DEF TaskStarts, DeliveryTypes
  <2>2. ASSUME NEW t \in Tasks, NEW new \in TaskRecord, TaskMoves(t, new)
        PROVE  task' \in [Tasks -> TaskRecord] /\ in_flight' \subseteq JobIds
    BY <2>2 DEF TaskMoves, DeliveryTypes
  <2>3. ASSUME NEW t \in Tasks, TaskEnds(t)
        PROVE  task' \in [Tasks -> TaskRecord] /\ in_flight' \subseteq JobIds
    BY <1>2, <2>3 DEF TaskEnds, ClearInFlight, DeliveryTypes
  <2>4. CASE CallbacksRestart
    BY <1>2, <2>4 DEF CallbacksRestart
  <2>5. CASE UNCHANGED <<task, in_flight>>
    BY <2>5 DEF DeliveryTypes
  <2>6. QED
    BY <2>1, <2>2, <2>3, <2>4, <2>5, DeliveryEffects DEF DeliveryEffect
<1>4. /\ dispatching' \subseteq JobIds
      /\ recovering' \subseteq JobIds
      /\ received' \in [JobIds -> SUBSET Terminal]
  <2> USE DEF DeliveryTypes
  <2>1. JustFinished \subseteq JobIds
    BY <1>1 DEF JustFinished
  <2>2. CASE UNCHANGED callbackVars
    BY <2>2 DEF callbackVars, deliveryVars
  <2>3. CASE RegistryStep
    BY <2>1, <2>3 DEF RegistryStep, ForgetNewJobs
  <2>4. CASE SweepStep
    BY <2>1, <2>4 DEF SweepStep
  <2>5. CASE PruneStep \/ RecoveryScan
    BY <1>1, <2>5 DEF PruneStep, RecoveryScan, deliveryVars
  <2>6. ASSUME NEW id \in JobIds, DropDispatch(id) \/ HandlerDispatch(id) \/ RecoveryDispatch(id)
        PROVE  /\ dispatching' \subseteq JobIds /\ recovering' \subseteq JobIds
               /\ received' \in [JobIds -> SUBSET Terminal]
    BY <2>6 DEF DropDispatch, HandlerDispatch, RecoveryDispatch, Dispatch
  <2>7. ASSUME NEW t \in Tasks, TaskStep(t)
        PROVE  UNCHANGED <<dispatching, recovering>>
    BY <2>7 DEF TaskStep, Begin, RecordSuccess, RecordFailure, PostAccepted, PostFails, TaskEnds
  <2>8. ASSUME NEW t \in Tasks, TaskStep(t)
        PROVE  received' \in [JobIds -> SUBSET Terminal]
    <3>1. CASE UNCHANGED received
      BY <3>1
    <3>2. CASE Handled(t) /\ (PostAccepted(t) \/ PostFails(t))
      <4>1. task[t].job \in JobIds /\ task[t].status \in Terminal
        BY <3>2 DEF PostAccepted, PostFails, TaskAt, TasksInOrder, TaskInOrder
      <4>2. QED
        BY <3>2, <4>1 DEF Handled
    <3>3. QED
      BY <2>8, <3>1, <3>2 DEF TaskStep, Begin, RecordSuccess, RecordFailure, PostAccepted,
                              PostFails, TaskEnds
  <2>9. CASE CallbacksRestart
    BY <2>9 DEF CallbacksRestart
  <2>10. QED
    BY <2>2, <2>3, <2>4, <2>5, <2>6, <2>7, <2>8, <2>9 DEF CallbacksNext
<1>5. QED
  BY <1>3, <1>4 DEF DeliveryTypes

\* Every step keeps the tasks in order and one per job: mark_in_flight refuses a job that
\* some task has, and a task that ends clears its own job only.
LEMMA TasksStep ==
    ASSUME TypeOK, DeliveryTypes, TasksInOrder, OneDeliveryAtATime, [CallbacksNext]_callbackVars
    PROVE  TasksInOrder' /\ OneDeliveryAtATime'
<1> USE DEF TasksInOrder, TaskInOrder, OneDeliveryAtATime
<1>1. task \in [Tasks -> TaskRecord] /\ 0 \notin JobIds /\ in_flight \subseteq JobIds
  BY BoundsAssumption DEF DeliveryTypes, JobIds
<1>2. CASE UNCHANGED <<task, in_flight>>
  BY <1>2
<1>3. ASSUME NEW t \in Tasks, NEW id \in JobIds, TaskStarts(t, id)
      PROVE  TasksInOrder' /\ OneDeliveryAtATime'
  <2> DEFINE new == [NoTask EXCEPT !.pc = "begin", !.job = id, !.attempt = 1]
  <2>1. new.pc = "begin" /\ new.job = id
    BY DEF NoTask
  <2>2. /\ task' = [task EXCEPT ![t] = new] /\ in_flight' = in_flight \cup {id}
        /\ id \notin in_flight /\ id # 0
    BY <1>1, <1>3 DEF TaskStarts
  <2> HIDE DEF new
  <2>3. \A u \in Tasks : task[u].job # id
    BY <1>1, <2>2
  <2>4. QED
    BY <1>1, <2>1, <2>2, <2>3
<1>4. ASSUME NEW t \in Tasks, NEW new \in TaskRecord, TaskMoves(t, new)
      PROVE  TasksInOrder' /\ OneDeliveryAtATime'
  BY <1>1, <1>4 DEF TaskMoves
<1>5. ASSUME NEW t \in Tasks, TaskEnds(t)
      PROVE  TasksInOrder' /\ OneDeliveryAtATime'
  <2>1. NoTask.pc = "idle" /\ NoTask.job = 0
    BY DEF NoTask
  <2>2. /\ task' = [task EXCEPT ![t] = NoTask] /\ in_flight' = in_flight \ {task[t].job}
        /\ task[t].job # 0
    BY <1>1, <1>5 DEF TaskEnds, ClearInFlight
  <2>3. \A u \in Tasks \ {t} : task[u].pc # "idle" => task[u].job # task[t].job
    BY <1>1, <2>2
  <2>4. QED
    BY <1>1, <2>1, <2>2, <2>3
<1>6. CASE CallbacksRestart
  BY <1>6 DEF CallbacksRestart, NoTask
<1>7. QED
  BY <1>2, <1>3, <1>4, <1>5, <1>6, DeliveryEffects DEF DeliveryEffect

\* The inductive invariant of the dispatcher.
DeliveryInv == IInv /\ DeliveryTypes /\ TasksInOrder /\ OneDeliveryAtATime

\* It holds in every reachable state.
LEMMA DeliveryInvariant == CallbacksSpec => []DeliveryInv
<1>1. CallbacksInit => DeliveryInv
  <2> SUFFICES ASSUME CallbacksInit PROVE DeliveryInv
    OBVIOUS
  <2>1. IInv
    BY InvariantInit DEF CallbacksInit
  <2>2. NoTask \in TaskRecord /\ NoTask.pc = "idle" /\ NoTask.job = 0
    BY CallbackAssumption, BoundsAssumption DEF NoTask, TaskRecord
  <2>3. DeliveryTypes
    BY <2>2 DEF CallbacksInit, DeliveryTypes
  <2>4. TasksInOrder /\ OneDeliveryAtATime
    BY <2>2 DEF CallbacksInit, TasksInOrder, TaskInOrder, OneDeliveryAtATime
  <2>5. QED
    BY <2>1, <2>3, <2>4 DEF DeliveryInv
<1>2. DeliveryInv /\ [CallbacksNext]_callbackVars => DeliveryInv'
  <2> SUFFICES ASSUME DeliveryInv, [CallbacksNext]_callbackVars PROVE DeliveryInv'
    OBVIOUS
  <2>1. IInv /\ TypeOK /\ DeliveryTypes /\ TasksInOrder /\ OneDeliveryAtATime
    BY DEF DeliveryInv, IInv
  <2>2. IInv'
    BY <2>1, RegistryInvStep
  <2>3. DeliveryTypes'
    BY <2>1, DeliveryTypesStep
  <2>4. TasksInOrder' /\ OneDeliveryAtATime'
    BY <2>1, TasksStep
  <2>5. QED
    BY <2>2, <2>3, <2>4 DEF DeliveryInv
<1>3. QED
  BY <1>1, <1>2, PTL DEF CallbacksSpec

\* The registry, the dispatcher's sets and the tasks keep their types.
THEOREM DeliveryTypeCorrect == CallbacksSpec => []CallbacksTypeOK
<1>1. DeliveryInv => CallbacksTypeOK
  BY DEF DeliveryInv, IInv, DeliveryTypes, TaskRecord, CallbacksTypeOK
<1>2. QED
  BY <1>1, DeliveryInvariant, PTL

\* However many handlers and scans dispatch a job, no two tasks have it at a time.
THEOREM DeliveriesExclusive == CallbacksSpec => []OneDeliveryAtATime
<1>1. DeliveryInv => OneDeliveryAtATime
  BY DEF DeliveryInv
<1>2. QED
  BY <1>1, DeliveryInvariant, PTL

--------------------------------------------------------------------------------
(* What the registry does with outcomes *)

\* The rows have no numbers that a new job could be given.
RowsBelowNext == \A id \in DOMAIN store.jobs : id <= next_id

\* A restart brings back the outcomes in the rows.
LEMMA RestartKeepsOutcomes ==
    ASSUME TypeOK, Restart
    PROVE  /\ DOMAIN jobs' = DOMAIN store.jobs
           /\ \A id \in DOMAIN jobs' : id <= next_id'
           /\ \A id \in DOMAIN jobs' :
                store.jobs[id].status \in Terminal => jobs'[id].status = store.jobs[id].status
<1>1. "running" \notin Terminal
  BY DEF Terminal
<1>2. jobs' = SweptJobs(store.jobs) /\ next_id' = LoadNextId(store)
  BY DEF Restart
<1>3. /\ DOMAIN jobs' = DOMAIN store.jobs
      /\ \A id \in DOMAIN jobs' : store.jobs[id].status \in Terminal =>
            jobs'[id].status = store.jobs[id].status
  BY <1>1, <1>2, SweptFate DEF TypeOK
<1>4. \A id \in DOMAIN store.jobs : id <= LoadNextId(store)
  BY LoadTypes DEF TypeOK
<1>5. QED
  BY <1>2, <1>3, <1>4

NewJobs == DOMAIN jobs' \ DOMAIN jobs

\* While the process goes on, a new job gets a number above all others, and a finished
\* job keeps its outcome.
LEMMA WorkKeepsOutcomes ==
    ASSUME IInv, [Works]_vars
    PROVE  /\ next_id <= next_id'
           /\ \A id \in NewJobs : next_id < id
           /\ \A id \in DOMAIN jobs \cap DOMAIN jobs' :
                jobs[id].status \in Terminal => jobs'[id].status = jobs[id].status
<1> USE DEF NewJobs
<1>1. TypeOK /\ QueueConsistent
  BY DEF IInv
<1>2. /\ JobTable(jobs) /\ now \in Nat /\ next_id \in Nat
      /\ \A id \in DOMAIN jobs : jobs[id] \in JobRecord /\ id \in JobIds
  BY <1>1 DEF TypeOK, JobTable
<1>3. CASE UNCHANGED registryVars
  BY <1>2, <1>3 DEF registryVars
<1>4. ASSUME NEW ok \in Outcomes, NEW id \in JobIds, NEW new \in JobRecord, JobMoves(id, new, ok)
      PROVE  /\ next_id' = next_id
             /\ DOMAIN jobs' = DOMAIN jobs
             /\ \A x \in DOMAIN jobs :
                    jobs[x].status \in Terminal => jobs'[x].status = jobs[x].status
  <2>1. /\ id \in DOMAIN jobs /\ jobs' = [jobs EXCEPT ![id] = new] /\ Moves(jobs[id], new)
        /\ next_id' = next_id
    BY <1>4 DEF JobMoves, JobChanges
  <2>2. jobs[id].status \in Terminal => new.status = jobs[id].status
    BY <1>2, <2>1, MoveEffect
  <2>3. QED
    BY <1>2, <2>1, <2>2
<1>5. ASSUME NEW request \in Requests, NEW key \in Keys \cup {None}, NEW ok \in Outcomes,
             Submit(request, key, ok)
      PROVE  /\ next_id' = next_id + 1
             /\ DOMAIN jobs' = DOMAIN jobs \cup {next_id + 1}
             /\ \A x \in DOMAIN jobs : jobs'[x] = jobs[x]
  <2>1. \A x \in DOMAIN jobs : x # next_id + 1
    BY <1>2 DEF IInv, IdsBelowNext
  <2>2. QED
    BY <1>5, <2>1 DEF Submit
<1>6. ASSUME NEW ok \in Outcomes, RequeueExpiredLeases(ok)
      PROVE  /\ next_id' = next_id
             /\ DOMAIN jobs' = DOMAIN jobs
             /\ \A x \in DOMAIN jobs :
                    jobs[x].status \in Terminal => jobs'[x].status = jobs[x].status
  <2>1. "running" \notin Terminal
    BY DEF Terminal
  <2>2. QED
    BY <1>2, <1>6, <2>1, SweptFate DEF RequeueExpiredLeases
<1>7. ASSUME NEW ok \in Outcomes, PruneTerminalJobs(ok)
      PROVE  /\ next_id' = next_id
             /\ DOMAIN jobs' \subseteq DOMAIN jobs
             /\ \A x \in DOMAIN jobs' : jobs'[x] = jobs[x]
  BY <1>7 DEF PruneTerminalJobs
<1>8. CASE \E ok \in Outcomes : \E request \in Requests, key \in Keys \cup {None} :
              Submit(request, key, ok)
  BY <1>2, <1>5, <1>8
<1>9. QED
  BY <1>1, <1>2, <1>3, <1>4, <1>6, <1>7, <1>8, WorkEffects DEF StepEffect, OnlyAnswers, RowsSaved

\* The job's callback does not become "delivered".
SameDelivery(job, new) == new.callback = "delivered" => job.callback = "delivered"

\* Of the operators on one job, none makes its callback "delivered".
LEMMA RecordDelivery ==
    ASSUME now \in Nat, NEW job \in JobRecord
    PROVE  /\ SameDelivery(job, CancelledJob(job))
           /\ SameDelivery(job, TimedOutJob(job))
           /\ \A worker \in Workers : SameDelivery(job, ClaimedJob(job, worker))
           /\ SameDelivery(job, RenewedJob(job))
           /\ \A result \in Results : SameDelivery(job, CompletedJob(job, result))
           /\ \A failure \in Reported : SameDelivery(job, FailedJob(job, failure))
<1>1. ASSUME NEW other, DOMAIN other = DOMAIN job, other.callback = job.callback
      PROVE  SameDelivery(job, PrepareCallback(other))
  <2>1. "callback" \in DOMAIN other
    BY <1>1 DEF JobRecord
  <2>2. QED
    BY <1>1, <2>1 DEF PrepareCallback, SameDelivery
<1>2. SameDelivery(job, CancelledJob(job))
  BY <1>1 DEF CancelledJob, JobRecord
<1>3. SameDelivery(job, TimedOutJob(job))
  BY <1>1 DEF TimedOutJob, JobRecord
<1>4. ASSUME NEW worker \in Workers PROVE SameDelivery(job, ClaimedJob(job, worker))
  BY DEF ClaimedJob, JobRecord, SameDelivery
<1>5. SameDelivery(job, RenewedJob(job))
  BY DEF RenewedJob, JobRecord, SameDelivery
<1>6. ASSUME NEW result \in Results PROVE SameDelivery(job, CompletedJob(job, result))
  BY <1>1 DEF CompletedJob, JobRecord
<1>7. ASSUME NEW failure \in Reported PROVE SameDelivery(job, FailedJob(job, failure))
  <2> DEFINE base == [job EXCEPT !.result = None, !.error = failure, !.lease = None,
                                 !.updated_at = now]
             attempt == [worker_id |-> job.lease.worker_id, attempt |-> job.lease.attempt]
             retried == [base EXCEPT !.status = "queued", !.terminal_attempt = None]
             failed == [base EXCEPT !.status = "failed", !.terminal_attempt = attempt]
  <2>1. base.callback = job.callback /\ DOMAIN base = DOMAIN job
    BY DEF JobRecord
  <2>2. FailedJob(job, failure) = IF WillRetry(job, failure) THEN retried ELSE PrepareCallback(failed)
    BY DEF FailedJob
  <2> HIDE DEF base
  <2>3. "callback" \in DOMAIN base
    BY <2>1 DEF JobRecord
  <2>4. retried.callback = job.callback
    BY <2>1, <2>3
  <2>5. DOMAIN failed = DOMAIN job /\ failed.callback = job.callback
    BY <2>1, <2>3
  <2> HIDE DEF failed, retried
  <2>6. QED
    BY <1>1, <2>2, <2>4, <2>5 DEF SameDelivery
<1>8. QED
  BY <1>2, <1>3, <1>4, <1>5, <1>6, <1>7

\* No handler, sweep, prune or restart does.
LEMMA SweptDelivery ==
    ASSUME now \in Nat, NEW js, JobTable(js)
    PROVE  /\ DOMAIN SweptJobs(js) = DOMAIN js
           /\ \A id \in DOMAIN js : SameDelivery(js[id], SweptJobs(js)[id])
<1>1. \A id \in DOMAIN js : SameDelivery(js[id], TimedOutJob(js[id]))
  BY RecordDelivery DEF JobTable
<1>2. \A id \in DOMAIN js : SameDelivery(js[id], js[id])
  BY DEF SameDelivery
<1>3. QED
  BY <1>1, <1>2 DEF SweptJobs

\* No callback becomes "delivered" in this step.
NothingDelivered ==
    \A id \in DOMAIN jobs' : jobs'[id].callback = "delivered" =>
        id \in DOMAIN jobs /\ jobs[id].callback = "delivered"

\* Only record_callback_success makes a callback "delivered": the steps of callers, workers
\* and maintenance do not.
LEMMA HandlersDeliverNothing ==
    ASSUME TypeOK,
           \/ CallerNext \/ WorkerNext \/ Tick \/ UNCHANGED jobs
           \/ \E ok \in Outcomes : RequeueExpiredLeases(ok) \/ PruneTerminalJobs(ok)
    PROVE  NothingDelivered
<1>1. now \in Nat /\ JobTable(jobs) /\ \A id \in DOMAIN jobs : jobs[id] \in JobRecord
  BY DEF TypeOK, JobTable
<1>2. CASE UNCHANGED jobs
  BY <1>2 DEF NothingDelivered
<1>3. ASSUME NEW id \in DOMAIN jobs, NEW new, jobs' = [jobs EXCEPT ![id] = new],
             SameDelivery(jobs[id], new)
      PROVE  NothingDelivered
  BY <1>3 DEF NothingDelivered, SameDelivery
<1>4. CASE CallerNext
  <2>1. ASSUME NEW request, NEW key, NEW ok, Submit(request, key, ok)
        PROVE  NothingDelivered
    <3>1. jobs' = [x \in DOMAIN jobs \cup {next_id + 1} |->
                        IF x = next_id + 1 THEN NewJob(request, key) ELSE jobs[x]]
      BY <2>1 DEF Submit
    <3>2. NewJob(request, key).callback = "none"
      BY DEF NewJob
    <3>3. QED
      BY <3>1, <3>2 DEF NothingDelivered
  <2>2. ASSUME NEW id, NEW ok, Cancel(id, ok)
        PROVE  NothingDelivered
    <3>1. id \in DOMAIN jobs /\ jobs' = [jobs EXCEPT ![id] = CancelledJob(jobs[id])]
      BY <2>2 DEF Cancel, CanCancel
    <3>2. QED
      BY <1>1, <1>3, <3>1, RecordDelivery
  <2>3. ASSUME NEW request, NEW key, NEW id, SubmitAgain(request, key) \/ CancelAgain(id)
        PROVE  UNCHANGED jobs
    BY <2>3 DEF SubmitAgain, CancelAgain, registryVars
  <2>4. QED
    BY <1>2, <1>4, <2>1, <2>2, <2>3 DEF CallerNext
<1>5. CASE WorkerNext
  <2>1. ASSUME NEW worker \in Workers, NEW kinds, NEW ok, Claim(worker, kinds, ok)
        PROVE  NothingDelivered
    <3>1. PICK p \in Priorities : \E i \in DOMAIN queues[p] :
                /\ FirstClaimable(kinds, p, i)
                /\ jobs' = [jobs EXCEPT ![queues[p][i]] = ClaimedJob(@, worker)]
      BY <2>1 DEF Claim
    <3>2. PICK i \in DOMAIN queues[p] :
                /\ FirstClaimable(kinds, p, i)
                /\ jobs' = [jobs EXCEPT ![queues[p][i]] = ClaimedJob(@, worker)]
      BY <3>1
    <3>3. queues[p][i] \in DOMAIN jobs
      BY <3>2 DEF FirstClaimable, Claimable
    <3>4. QED
      BY <1>1, <1>3, <3>2, <3>3, RecordDelivery
  <2>2. ASSUME NEW worker, NEW id, HoldsLease(id, worker),
               \/ jobs' = [jobs EXCEPT ![id] = RenewedJob(@)]
               \/ \E result \in Results : jobs' = [jobs EXCEPT ![id] = CompletedJob(@, result)]
               \/ \E failure \in Reported : jobs' = [jobs EXCEPT ![id] = FailedJob(@, failure)]
        PROVE  NothingDelivered
    <3>1. id \in DOMAIN jobs
      BY <2>2 DEF HoldsLease
    <3>2. QED
      BY <1>1, <1>3, <2>2, <3>1, RecordDelivery
  <2>3. ASSUME NEW worker, NEW id, NEW ok, RenewLease(id, worker, ok)
        PROVE  NothingDelivered
    BY <2>2, <2>3 DEF RenewLease
  <2>4. ASSUME NEW worker, NEW id, NEW attempt, NEW ok, NEW result \in Results,
               CompleteLease(id, worker, attempt, result, ok)
        PROVE  NothingDelivered
    BY <2>2, <2>4 DEF CompleteLease, ReportsLease
  <2>5. ASSUME NEW worker, NEW id, NEW attempt, NEW ok, NEW failure \in Reported,
               FailLease(id, worker, attempt, failure, ok)
        PROVE  NothingDelivered
    BY <2>2, <2>5 DEF FailLease, ReportsLease
  <2>6. ASSUME NEW worker, NEW id, NEW attempt, NEW result, CompleteAgain(id, worker, attempt, result)
        PROVE  UNCHANGED jobs
    BY <2>6 DEF CompleteAgain, registryVars
  <2>7. ASSUME NEW worker, NEW id, NEW attempt, NEW failure, FailAgain(id, worker, attempt, failure)
        PROVE  UNCHANGED jobs
    BY <2>7 DEF FailAgain, registryVars
  <2>8. QED
    BY <1>2, <1>5, <2>1, <2>3, <2>4, <2>5, <2>6, <2>7 DEF WorkerNext
<1>6. CASE Tick
  BY <1>2, <1>6 DEF Tick, registryVars
<1>7. ASSUME NEW ok, RequeueExpiredLeases(ok)
      PROVE  NothingDelivered
  BY <1>1, <1>7, SweptDelivery DEF RequeueExpiredLeases, NothingDelivered, SameDelivery
<1>8. ASSUME NEW ok, PruneTerminalJobs(ok)
      PROVE  NothingDelivered
  BY <1>8 DEF PruneTerminalJobs, NothingDelivered
<1>9. QED
  BY <1>2, <1>4, <1>5, <1>6, <1>7, <1>8

--------------------------------------------------------------------------------
(* What receivers are told *)

\* Nothing is told, and no task gets to its POST or past it.
NothingTold ==
    /\ [Works]_vars
    /\ \A id \in JobIds : received'[id] = IF id \in NewJobs THEN {} ELSE received[id]
    /\ \A t \in Tasks : task'[t].pc \in {"post", "record_success"} => task'[t] = task[t]

TellingEffect ==
    \/ NothingTold /\ NothingDelivered
    \/ \E t \in Tasks, ok \in Outcomes : NothingTold /\ RecordSuccess(t, ok)
    \/ \E t \in Tasks, ok \in Outcomes :
           ok /\ Begin(t, ok) /\ BeginCallbackAttempt(task[t].job, ok)
    \/ \E t \in Tasks : PostAccepted(t) \/ PostFails(t)
    \/ CallbacksRestart

\* Every step tells nothing, records a delivery, begins an attempt, posts, or restarts.
LEMMA TellingEffects ==
    ASSUME DeliveryInv, [CallbacksNext]_callbackVars
    PROVE  TellingEffect
<1> USE DEF TellingEffect
<1>1. /\ TypeOK /\ DeliveryTypes /\ task \in [Tasks -> TaskRecord]
      /\ received \in [JobIds -> SUBSET Terminal]
  BY DEF DeliveryInv, IInv, DeliveryTypes
<1>2. CASE CallbacksRestart
  BY <1>2
<1>3. ASSUME UNCHANGED received, DOMAIN jobs' \subseteq DOMAIN jobs
      PROVE  \A id \in JobIds : received'[id] = IF id \in NewJobs THEN {} ELSE received[id]
  BY <1>3 DEF NewJobs
<1>4. CASE RegistryStep
  <2>1. \A id \in JobIds : received'[id] = IF id \in NewJobs THEN {} ELSE received[id]
    BY <1>4 DEF RegistryStep, ForgetNewJobs, NewJobs
  <2>2. NothingDelivered
    BY <1>1, <1>4, HandlersDeliverNothing DEF RegistryStep
  <2>3. [Works]_vars /\ UNCHANGED task
    BY <1>4 DEF RegistryStep, Works
  <2>4. QED
    BY <2>1, <2>2, <2>3 DEF NothingTold
<1>5. CASE SweepStep \/ PruneStep
  <2>1. /\ \E ok \in Outcomes : RequeueExpiredLeases(ok) \/ PruneTerminalJobs(ok)
        /\ UNCHANGED <<task, received>>
    BY <1>5 DEF SweepStep, PruneStep, deliveryVars
  <2>2. DOMAIN jobs' \subseteq DOMAIN jobs
    BY <2>1 DEF RequeueExpiredLeases, PruneTerminalJobs, SweptJobs
  <2>3. NothingDelivered
    BY <1>1, <2>1, HandlersDeliverNothing
  <2>4. [Works]_vars
    BY <2>1 DEF Works, MaintenanceNext
  <2>5. QED
    BY <1>3, <2>1, <2>2, <2>3, <2>4 DEF NothingTold
<1>6. ASSUME UNCHANGED <<jobs, received>>, [Works]_vars,
             \A t \in Tasks : task'[t].pc \in {"post", "record_success"} => task'[t] = task[t]
      PROVE  TellingEffect
  <2>1. NothingDelivered
    BY <1>6 DEF NothingDelivered
  <2>2. QED
    BY <1>3, <1>6, <2>1 DEF NothingTold
<1>7. CASE UNCHANGED callbackVars \/ RecoveryScan
  BY <1>6, <1>7 DEF callbackVars, deliveryVars, vars, RecoveryScan
<1>8. ASSUME NEW id \in JobIds, DropDispatch(id) \/ HandlerDispatch(id) \/ RecoveryDispatch(id)
      PROVE  TellingEffect
  <2>1. UNCHANGED <<vars, received>>
    BY <1>8 DEF DropDispatch, HandlerDispatch, RecoveryDispatch, Dispatch
  <2>2. CASE UNCHANGED task
    BY <1>6, <2>1, <2>2 DEF vars
  <2>3. CASE Dispatch(id)
    <3> DEFINE new == [NoTask EXCEPT !.pc = "begin", !.job = id, !.attempt = 1]
    <3>1. new.pc = "begin"
      BY DEF NoTask
    <3>2. UNCHANGED task \/ \E t \in Tasks : task' = [task EXCEPT ![t] = new]
      BY <2>3 DEF Dispatch
    <3> HIDE DEF new
    <3>3. \A t \in Tasks : task'[t].pc \in {"post", "record_success"} => task'[t] = task[t]
      BY <1>1, <3>1, <3>2
    <3>4. QED
      BY <1>6, <2>1, <3>3 DEF vars
  <2>4. QED
    BY <1>8, <2>2, <2>3 DEF DropDispatch, HandlerDispatch, RecoveryDispatch
<1>9. ASSUME NEW t \in Tasks, TaskStep(t)
      PROVE  TellingEffect
  <2>1. task[t] \in TaskRecord
    BY <1>1
  <2>2. ASSUME NEW new, task' = [task EXCEPT ![t] = new], new.pc \notin {"post", "record_success"}
        PROVE  \A u \in Tasks : task'[u].pc \in {"post", "record_success"} => task'[u] = task[u]
    BY <1>1, <2>2
  <2>3. ASSUME NEW pc \in {"done", "record_failure"}, task' = [task EXCEPT ![t].pc = pc]
        PROVE  \A u \in Tasks : task'[u].pc \in {"post", "record_success"} => task'[u] = task[u]
    <3>1. [task[t] EXCEPT !.pc = pc].pc = pc
      BY <2>1 DEF TaskRecord
    <3>2. QED
      BY <1>1, <2>2, <2>3, <3>1
  <2>4. ASSUME NEW ok \in Outcomes, Begin(t, ok)
        PROVE  TellingEffect
    <3>1. ok \in BOOLEAN
      BY Zenon DEF Outcomes
    <3>2. CASE BeginCallbackAttempt(task[t].job, ok) /\ ok
      BY <2>4, <3>2
    <3>3. CASE /\ BeginCallbackAttempt(task[t].job, ok) /\ ~ok
               /\ task' = [task EXCEPT ![t].pc = AfterBegin(ok),
                                       ![t].status = jobs[task[t].job].status]
      <4>1. UNCHANGED <<jobs, received>>
        BY <2>4, <3>3 DEF Begin, BeginCallbackAttempt, registryVars
      <4>2. CallbackNext
        BY <3>3, <1>1 DEF CallbackNext, BeginCallbackAttempt, CallbackPending, TypeOK, JobTable
      <4> DEFINE new == [task[t] EXCEPT !.pc = "done", !.status = jobs[task[t].job].status]
      <4>3. new.pc = "done"
        BY <2>1 DEF TaskRecord
      <4>4. task' = [task EXCEPT ![t] = new]
        BY <1>1, <3>3 DEF AfterBegin
      <4> HIDE DEF new
      <4>5. QED
        BY <1>6, <2>2, <4>1, <4>2, <4>3, <4>4 DEF Works
    <3>4. CASE task' = [task EXCEPT ![t].pc = "done"] /\ UNCHANGED vars
      BY <1>6, <2>3, <2>4, <3>4 DEF Begin, vars
    <3>5. QED
      BY <2>4, <3>1, <3>2, <3>3, <3>4 DEF Begin
  <2>5. ASSUME NEW ok \in Outcomes, RecordSuccess(t, ok)
        PROVE  TellingEffect
    <3>1. task' = [task EXCEPT ![t].pc = "done"] /\ UNCHANGED received
      BY <2>5 DEF RecordSuccess
    <3>2. /\ RecordCallbackSuccess(task[t].job, ok)
          /\ DOMAIN jobs' \subseteq DOMAIN jobs
      BY <2>5 DEF RecordSuccess, RecordCallbackSuccess
    <3>3. task[t].job \in JobIds
      BY <1>1, <3>2 DEF RecordCallbackSuccess, TypeOK, JobTable
    <3>4. Works
      BY <3>2, <3>3 DEF CallbackNext, Works
    <3>5. NothingTold
      BY <1>3, <2>3, <3>1, <3>2, <3>4 DEF NothingTold
    <3>6. QED
      BY <2>5, <3>5
  <2>6. ASSUME NEW ok \in Outcomes, RecordFailure(t, ok)
        PROVE  TellingEffect
    <3>1. task' = [task EXCEPT ![t] = AfterFailure(task[t])] /\ UNCHANGED received
      BY <2>6 DEF RecordFailure
    <3>2. AfterFailure(task[t]).pc \in {"begin", "done"}
      BY <2>1, <2>6, FailureEffect DEF RecordFailure, TaskAt
    <3>3. UNCHANGED jobs /\ [Works]_vars
      <4>1. CASE RecordCallbackFailure(task[t].job, ok)
        BY <1>1, <4>1 DEF RecordCallbackFailure, registryVars, Works, CallbackNext, TypeOK, JobTable
      <4>2. QED
        BY <2>6, <4>1 DEF RecordFailure, vars
    <3>4. QED
      BY <1>6, <2>2, <3>1, <3>2, <3>3
  <2>7. CASE TaskEnds(t)
    BY <1>6, <2>2, <2>7 DEF TaskEnds, NoTask, vars
  <2>8. QED
    BY <1>9, <2>4, <2>5, <2>6, <2>7 DEF TaskStep
<1>10. QED
  BY <1>2, <1>4, <1>5, <1>7, <1>8, <1>9 DEF CallbacksNext

\* Table js does not contradict an outcome of job id.
Agrees(id, status, js) == id \in DOMAIN js => js[id].status = status

\* An outcome that the jobs and the rows agree with is never contradicted, until the number
\* of the job is given to another one.
LEMMA AgreementKept ==
    ASSUME IInv, NEW id, NEW status \in Terminal,
           Agrees(id, status, jobs), Agrees(id, status, store.jobs),
           \/ [Works]_vars /\ id \notin NewJobs
           \/ Restart
    PROVE  Agrees(id, status, jobs') /\ Agrees(id, status, store'.jobs)
<1>1. Agrees(id, status, jobs')
  <2>1. CASE [Works]_vars /\ id \notin NewJobs
    BY <2>1, WorkKeepsOutcomes DEF NewJobs, Agrees
  <2>2. CASE Restart
    BY <2>2, RestartKeepsOutcomes DEF Agrees, IInv
  <2>3. QED
    BY <2>1, <2>2
<1>2. [Step]_vars
  BY DEF Works, Step, Next
<1>3. store'.jobs \in {store.jobs, jobs'}
  BY <1>2, StoreShape DEF IInv
<1>4. QED
  BY <1>1, <1>3

\* Table js agrees with everything told, with what tasks are about to tell, and calls no
\* callback delivered whose receiver was told nothing.
ToldIn(js, told) == \A id \in JobIds : \A status \in told[id] : Agrees(id, status, js)
PostsIn(js, tasks) == \A t \in Tasks :
    tasks[t].pc = "post" => Agrees(tasks[t].job, tasks[t].status, js)
DeliveredIn(js, told) == \A id \in DOMAIN js : js[id].callback = "delivered" => told[id] # {}

\* The number of a job whose outcome is posted or told cannot be given away, and after a
\* 2xx answer the receiver was told something.
TaskKnows(delivery, told, last) ==
    /\ delivery.pc \in {"post", "record_success"} => delivery.job <= last
    /\ delivery.pc = "record_success" => told[delivery.job] # {}

\* The jobs in memory and the rows agree alike: a restart may come at any time.
ToldInv ==
    /\ RowsBelowNext
    /\ ToldIn(jobs, received) /\ ToldIn(store.jobs, received)
    /\ PostsIn(jobs, task) /\ PostsIn(store.jobs, task)
    /\ DeliveredIn(jobs, received) /\ DeliveredIn(store.jobs, received)
    /\ \A t \in Tasks : TaskKnows(task[t], received, next_id)

\* Every step keeps the rows below next_id.
LEMMA RowsBelowStep ==
    ASSUME DeliveryInv, RowsBelowNext, [CallbacksNext]_callbackVars
    PROVE  RowsBelowNext'
<1>1. IInv /\ TypeOK /\ IInv'
  BY RegistryInvStep DEF DeliveryInv, IInv
<1>2. \A id \in DOMAIN jobs' : id <= next_id'
  BY <1>1 DEF IInv, IdsBelowNext
<1>3. [Works]_vars \/ Restart
  BY <1>1, DeliveryStepsRegistry
<1>4. store'.jobs \in {store.jobs, jobs'}
  BY <1>1, <1>3, StoreShape DEF Works, Step, Next
<1>5. CASE [Works]_vars
  <2>1. next_id <= next_id' /\ next_id \in Nat /\ next_id' \in Nat
    BY <1>1, <1>5, WorkKeepsOutcomes DEF IInv, TypeOK
  <2>2. \A id \in DOMAIN store.jobs : id \in Nat /\ id <= next_id
    BY <1>1, JobIdsFinite DEF TypeOK, JobTable, RowsBelowNext
  <2>3. \A id \in DOMAIN store.jobs : id <= next_id'
    BY <2>1, <2>2
  <2>4. QED
    BY <1>2, <1>4, <2>3 DEF RowsBelowNext
<1>6. CASE Restart
  <2>1. DOMAIN jobs' = DOMAIN store.jobs
    BY <1>1, <1>6, RestartKeepsOutcomes
  <2>2. QED
    BY <1>2, <1>4, <2>1 DEF RowsBelowNext
<1>7. QED
  BY <1>3, <1>5, <1>6

\* Every step keeps the jobs and the rows in agreement with what was told.
LEMMA ToldStep ==
    ASSUME DeliveryInv, ToldInv, [CallbacksNext]_callbackVars
    PROVE  ToldInv'
<1>1. /\ IInv /\ TypeOK /\ DeliveryTypes /\ TasksInOrder
      /\ task \in [Tasks -> TaskRecord] /\ received \in [JobIds -> SUBSET Terminal]
      /\ next_id \in Nat /\ DOMAIN jobs \subseteq JobIds /\ DOMAIN store.jobs \subseteq JobIds
      /\ JobIds \subseteq Nat
  BY JobIdsFinite DEF DeliveryInv, IInv, DeliveryTypes, TypeOK, JobTable
<1>2. /\ RowsBelowNext /\ ToldIn(jobs, received) /\ ToldIn(store.jobs, received)
      /\ PostsIn(jobs, task) /\ PostsIn(store.jobs, task)
      /\ DeliveredIn(jobs, received) /\ DeliveredIn(store.jobs, received)
      /\ \A t \in Tasks : TaskKnows(task[t], received, next_id)
  BY DEF ToldInv
<1>3. store'.jobs \in {store.jobs, jobs'}
  <2>1. [Step]_vars
    BY <1>1, DeliveryStepsRegistry DEF Works, Step, Next
  <2>2. QED
    BY <1>1, <2>1, StoreShape
<1>4. RowsBelowNext'
  BY <1>2, RowsBelowStep
<1>5. SUFFICES /\ ToldIn(jobs', received') /\ ToldIn(store'.jobs, received')
               /\ PostsIn(jobs', task') /\ PostsIn(store'.jobs, task')
               /\ DeliveredIn(jobs', received') /\ DeliveredIn(store'.jobs, received')
               /\ \A t \in Tasks : TaskKnows(task'[t], received', next_id')
  BY <1>4, <1>5 DEF ToldInv, ToldIn, PostsIn, DeliveredIn, TaskKnows, Agrees, RowsBelowNext
<1>6. ASSUME NothingTold,
             NothingDelivered \/ \E t \in Tasks, ok \in Outcomes : RecordSuccess(t, ok)
      PROVE  /\ ToldIn(jobs', received') /\ ToldIn(store'.jobs, received')
             /\ PostsIn(jobs', task') /\ PostsIn(store'.jobs, task')
             /\ DeliveredIn(jobs', received') /\ DeliveredIn(store'.jobs, received')
             /\ \A t \in Tasks : TaskKnows(task'[t], received', next_id')
  <2>1. /\ [Works]_vars
        /\ \A id \in JobIds : received'[id] = IF id \in NewJobs THEN {} ELSE received[id]
        /\ \A t \in Tasks : task'[t].pc \in {"post", "record_success"} => task'[t] = task[t]
    BY <1>6 DEF NothingTold
  <2>2. /\ next_id <= next_id' /\ \A id \in NewJobs : next_id < id /\ id \in Nat
        /\ next_id' \in Nat
    <3>1. IInv'
      BY <1>1, RegistryInvStep
    <3>2. DOMAIN jobs' \subseteq JobIds /\ next_id' \in Nat
      BY <3>1 DEF IInv, TypeOK, JobTable
    <3>3. QED
      BY <1>1, <2>1, <3>2, WorkKeepsOutcomes DEF NewJobs
  <2>3. ToldIn(jobs', received') /\ ToldIn(store'.jobs, received')
    <3>1. ASSUME NEW id \in JobIds, NEW status \in received'[id]
          PROVE  Agrees(id, status, jobs') /\ Agrees(id, status, store'.jobs)
      <4>1. id \notin NewJobs /\ status \in received[id] /\ status \in Terminal
        BY <1>1, <2>1, <3>1
      <4>2. Agrees(id, status, jobs) /\ Agrees(id, status, store.jobs)
        BY <1>2, <4>1 DEF ToldIn
      <4>3. QED
        BY <1>1, <2>1, <4>1, <4>2, AgreementKept
    <3>2. QED
      BY <3>1 DEF ToldIn
  <2>4. ASSUME NEW t \in Tasks, task'[t].pc \in {"post", "record_success"}
        PROVE  /\ task'[t] = task[t] /\ task[t].job \in JobIds /\ task[t].job <= next_id
               /\ task[t].job \notin NewJobs
    <3>1. task'[t] = task[t]
      BY <2>1, <2>4
    <3>2. task[t].job \in JobIds /\ task[t].job <= next_id
      BY <1>1, <1>2, <2>4, <3>1 DEF TasksInOrder, TaskInOrder, DeliveryTypes, TaskKnows
    <3>3. QED
      BY <1>1, <2>2, <3>1, <3>2
  <2>5. PostsIn(jobs', task') /\ PostsIn(store'.jobs, task')
    <3>1. ASSUME NEW t \in Tasks, task'[t].pc = "post"
          PROVE  /\ Agrees(task'[t].job, task'[t].status, jobs')
                 /\ Agrees(task'[t].job, task'[t].status, store'.jobs)
      <4>1. task'[t] = task[t] /\ task[t].job \notin NewJobs
        BY <2>4, <3>1
      <4>2. /\ Agrees(task[t].job, task[t].status, jobs)
            /\ Agrees(task[t].job, task[t].status, store.jobs)
            /\ task[t].status \in Terminal
        BY <1>1, <1>2, <3>1, <4>1 DEF PostsIn, TasksInOrder, TaskInOrder
      <4>3. QED
        BY <1>1, <2>1, <4>1, <4>2, AgreementKept
    <3>2. QED
      BY <3>1 DEF PostsIn
  <2>6. \A t \in Tasks : TaskKnows(task'[t], received', next_id')
    <3>1. ASSUME NEW t \in Tasks, task'[t].pc \in {"post", "record_success"}
          PROVE  TaskKnows(task'[t], received', next_id')
      <4>1. /\ task'[t] = task[t] /\ task[t].job \in JobIds /\ task[t].job <= next_id
            /\ received'[task[t].job] = received[task[t].job]
        BY <2>1, <2>4, <3>1
      <4>2. TaskKnows(task[t], received, next_id)
        BY <1>2
      <4>3. task[t].job <= next_id'
        <5>1. \A x \in Nat : x <= next_id => x <= next_id'
          BY <1>1, <2>2
        <5>2. task[t].job \in Nat
          BY <1>1, <4>1
        <5>3. QED
          BY <4>1, <5>1, <5>2
      <4>4. QED
        BY <4>1, <4>2, <4>3 DEF TaskKnows
    <3>2. QED
      BY <3>1 DEF TaskKnows
  <2>7. \A id \in DOMAIN store.jobs : id \notin NewJobs
    BY <1>1, <1>2, <2>2 DEF RowsBelowNext
  <2>8. DeliveredIn(store.jobs, received')
    BY <1>1, <1>2, <2>1, <2>7 DEF DeliveredIn
  <2>9. DeliveredIn(jobs', received')
    <3>1. ASSUME NEW id \in DOMAIN jobs', jobs'[id].callback = "delivered"
          PROVE  received'[id] # {}
      <4>1. CASE id \in DOMAIN jobs /\ jobs[id].callback = "delivered"
        BY <1>1, <1>2, <2>1, <4>1 DEF DeliveredIn, NewJobs
      <4>2. ASSUME NEW t \in Tasks, NEW ok \in Outcomes, RecordSuccess(t, ok)
            PROVE  received'[id] # {}
        <5>1. /\ task[t].pc = "record_success" /\ UNCHANGED received
              /\ jobs' = [jobs EXCEPT ![task[t].job].callback = "delivered"]
          BY <4>2 DEF RecordSuccess, TaskAt, RecordCallbackSuccess
        <5>2. received[task[t].job] # {}
          BY <1>2, <5>1 DEF TaskKnows
        <5>3. id = task[t].job \/ (id \in DOMAIN jobs /\ jobs'[id] = jobs[id])
          BY <5>1
        <5>4. QED
          BY <1>2, <3>1, <5>1, <5>2, <5>3 DEF DeliveredIn
      <4>3. QED
        BY <1>6, <3>1, <4>1, <4>2 DEF NothingDelivered
    <3>2. QED
      BY <3>1 DEF DeliveredIn
  <2>10. QED
    BY <1>3, <2>3, <2>5, <2>6, <2>8, <2>9
<1>7. ASSUME NEW t \in Tasks, NEW ok \in Outcomes, ok, Begin(t, ok),
             BeginCallbackAttempt(task[t].job, ok)
      PROVE  /\ ToldIn(jobs', received') /\ ToldIn(store'.jobs, received')
             /\ PostsIn(jobs', task') /\ PostsIn(store'.jobs, task')
             /\ DeliveredIn(jobs', received') /\ DeliveredIn(store'.jobs, received')
             /\ \A u \in Tasks : TaskKnows(task'[u], received', next_id')
  <2> DEFINE id == task[t].job
             new == [task[t] EXCEPT !.pc = "post", !.status = jobs[id].status]
  <2>1. UNCHANGED <<jobs, next_id, received>> /\ CallbackPending(id) /\ Persist(ok)
    BY <1>7 DEF Begin, BeginCallbackAttempt, registryVars
  <2>2. store'.jobs = jobs
    BY <1>7, <2>1, PersistEffect
  <2>3. id \in DOMAIN jobs /\ id <= next_id
    BY <1>1, <2>1 DEF CallbackPending, IInv, IdsBelowNext
  <2>4. new.pc = "post" /\ new.job = id /\ new.status = jobs[id].status
    BY <1>1 DEF TaskRecord
  <2>5. task' = [task EXCEPT ![t] = new]
    BY <1>1, <1>7, <2>1 DEF Begin, AfterBegin
  <2> HIDE DEF new, id
  <2>6. PostsIn(jobs, task')
    BY <1>1, <1>2, <2>4, <2>5 DEF PostsIn, Agrees
  <2>7. \A u \in Tasks : TaskKnows(task'[u], received, next_id)
    BY <1>1, <1>2, <2>3, <2>4, <2>5 DEF TaskKnows
  <2>8. QED
    BY <1>2, <2>1, <2>2, <2>6, <2>7
<1>8. ASSUME NEW t \in Tasks, PostAccepted(t) \/ PostFails(t)
      PROVE  /\ ToldIn(jobs', received') /\ ToldIn(store'.jobs, received')
             /\ PostsIn(jobs', task') /\ PostsIn(store'.jobs, task')
             /\ DeliveredIn(jobs', received') /\ DeliveredIn(store'.jobs, received')
             /\ \A u \in Tasks : TaskKnows(task'[u], received', next_id')
  <2> DEFINE id == task[t].job
             status == task[t].status
  <2>1. /\ UNCHANGED <<jobs, store, next_id>> /\ task[t].pc = "post"
        /\ received' = received \/ received' = [received EXCEPT ![id] = @ \cup {status}]
    BY <1>8 DEF PostAccepted, PostFails, TaskAt, vars, Handled
  <2>2. id \in JobIds /\ id <= next_id
    BY <1>1, <1>2, <2>1 DEF TasksInOrder, TaskInOrder, DeliveryTypes, TaskKnows
  <2>3. \A x \in JobIds : received[x] \subseteq received'[x]
    BY <1>1, <2>1
  <2>4. ToldIn(jobs, received') /\ ToldIn(store.jobs, received')
    <3>1. Agrees(id, status, jobs) /\ Agrees(id, status, store.jobs)
      BY <1>2, <2>1 DEF PostsIn
    <3>2. \A x \in JobIds : \A s \in received'[x] : s \in received[x] \/ (x = id /\ s = status)
      <4> HIDE DEF id, status
      <4> QED
        BY <1>1, <2>1
    <3> HIDE DEF id, status
    <3>3. QED
      BY <1>2, <3>1, <3>2 DEF ToldIn
  <2>5. DeliveredIn(jobs, received') /\ DeliveredIn(store.jobs, received')
    BY <1>1, <1>2, <2>3 DEF DeliveredIn
  <2>6. PICK pc \in {"record_success", "record_failure"} :
            /\ task' = [task EXCEPT ![t].pc = pc]
            /\ pc = "record_success" => received'[id] # {}
    <3>1. CASE PostAccepted(t)
      BY <1>1, <2>2, <3>1 DEF PostAccepted, Handled
    <3>2. CASE PostFails(t)
      BY <3>2 DEF PostFails
    <3>3. QED
      BY <1>8, <3>1, <3>2
  <2> DEFINE new == [task[t] EXCEPT !.pc = pc]
  <2>7. new.pc = pc /\ new.job = id /\ task' = [task EXCEPT ![t] = new]
    BY <1>1, <2>6 DEF TaskRecord
  <2> HIDE DEF new, id, status
  <2>8. PostsIn(jobs, task') /\ PostsIn(store.jobs, task')
    BY <1>1, <1>2, <2>7 DEF PostsIn
  <2>9. \A u \in Tasks : TaskKnows(task'[u], received', next_id)
    <3>1. TaskKnows(new, received', next_id)
      BY <2>2, <2>6, <2>7 DEF TaskKnows
    <3>2. ASSUME NEW u \in Tasks \ {t} PROVE TaskKnows(task'[u], received', next_id)
      <4>1. task'[u] = task[u] /\ TaskKnows(task[u], received, next_id)
        BY <1>1, <1>2, <2>7
      <4>2. task[u].pc = "record_success" => task[u].job \in JobIds
        BY <1>1 DEF TasksInOrder, TaskInOrder, DeliveryTypes
      <4>3. QED
        BY <2>3, <4>1, <4>2 DEF TaskKnows
    <3>3. QED
      BY <1>1, <2>7, <3>1, <3>2
  <2>10. QED
    BY <2>1, <2>4, <2>5, <2>8, <2>9
<1>9. CASE CallbacksRestart
  <2>1. Restart /\ received' = received /\ task' = [t \in Tasks |-> NoTask]
    BY <1>9 DEF CallbacksRestart
  <2>2. ToldIn(jobs', received') /\ ToldIn(store'.jobs, received')
    <3>1. ASSUME NEW id \in JobIds, NEW status \in received[id]
          PROVE  Agrees(id, status, jobs') /\ Agrees(id, status, store'.jobs)
      BY <1>1, <1>2, <2>1, AgreementKept DEF ToldIn
    <3>2. QED
      BY <2>1, <3>1 DEF ToldIn
  <2>3. /\ PostsIn(jobs', task') /\ PostsIn(store'.jobs, task')
        /\ \A t \in Tasks : TaskKnows(task'[t], received', next_id')
    BY <2>1 DEF NoTask, PostsIn, TaskKnows
  <2>4. DeliveredIn(jobs', received)
    <3>1. jobs' = SweptJobs(store.jobs)
      BY <2>1 DEF Restart
    <3>2. QED
      BY <1>1, <1>2, <3>1, SweptDelivery DEF DeliveredIn, SameDelivery, TypeOK
  <2>5. QED
    BY <1>2, <1>3, <2>1, <2>2, <2>3, <2>4
<1>10. QED
  BY <1>6, <1>7, <1>8, <1>9, TellingEffects DEF TellingEffect

\* Nothing was told at the start.
LEMMA ToldInit == CallbacksInit => ToldInv
BY DEF CallbacksInit, Init, NoJobs, Snapshot, NoTask, ToldInv, RowsBelowNext, ToldIn, PostsIn,
       DeliveredIn, TaskKnows

\* The receivers' knowledge and the registry agree in every reachable state.
LEMMA ToldInvariant == CallbacksSpec => [](DeliveryInv /\ ToldInv)
<1>1. DeliveryInv /\ ToldInv /\ [CallbacksNext]_callbackVars => ToldInv'
  BY ToldStep
<1>2. QED
  BY <1>1, ToldInit, DeliveryInvariant, PTL DEF CallbacksSpec

\* A receiver is never told two outcomes, nor one that is taken back, although answers
\* are lost, transactions fail and the process may stop between any two steps.
THEOREM OutcomesToldAreFinal == CallbacksSpec => []ToldOutcomeIsFinal
<1>1. DeliveryInv /\ ToldInv => ToldOutcomeIsFinal
  <2> SUFFICES ASSUME DeliveryInv, ToldInv PROVE ToldOutcomeIsFinal
    OBVIOUS
  <2>1. DOMAIN jobs \subseteq JobIds
    BY DEF DeliveryInv, IInv, TypeOK, JobTable
  <2>2. QED
    BY <2>1 DEF ToldInv, ToldIn, Agrees, ToldOutcomeIsFinal
<1>2. QED
  BY <1>1, ToldInvariant, PTL

\* A job that asks for a callback is pruned only after its receiver has handled one.
THEOREM PrunedOnlyDelivered == CallbacksSpec => PrunedAfterDelivery
<1> DEFINE Pruned ==
      PruneStep => \A id \in DOMAIN jobs \ DOMAIN jobs' :
            jobs[id].request.callback_url # None => received[id] # {}
<1>1. DeliveryInv /\ ToldInv => [Pruned]_callbackVars
  <2> SUFFICES ASSUME DeliveryInv, ToldInv, PruneStep,
                      NEW id \in DOMAIN jobs \ DOMAIN jobs', jobs[id].request.callback_url # None
               PROVE  received[id] # {}
    OBVIOUS
  <2>1. id \in PrunedNow
    BY DEF PruneStep, PruneTerminalJobs
  <2>2. jobs[id].callback = "delivered"
    BY <2>1 DEF PrunedNow, Prunable, HasPendingCallback
  <2>3. QED
    BY <2>2 DEF ToldInv, DeliveredIn
<1>2. QED
  BY <1>1, ToldInvariant, PTL DEF CallbacksSpec, PrunedAfterDelivery

================================================================================

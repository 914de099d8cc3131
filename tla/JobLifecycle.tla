------------------------------ MODULE JobLifecycle ------------------------------
(***************************************************************************)
(* What the job registry promises about each job, whatever its queues,     *)
(* leases, keys and rows look like: the life of a job from its submission  *)
(* to its removal, and what a crash can undo of it.                        *)
(*                                                                         *)
(* phase and tries are what the running process says of each job; saved    *)
(* is the phase and the tries that a restarted process will start from.    *)
(* A step may or may not become durable; one that does makes everything    *)
(* before it durable too, so a crash never keeps a later step and undoes   *)
(* an earlier one.                                                         *)
(***************************************************************************)
EXTENDS Integers

CONSTANTS
    Ids,        \* job ids
    MaxTries    \* attempts that a job has

VARIABLES phase, tries, saved

lifeVars == <<phase, tries, saved>>

Finished == {"complete", "failed", "cancelled"}
Phases == {"absent", "queued", "running"} \cup Finished

LifeTypeOK ==
    /\ phase \in [Ids -> Phases]
    /\ tries \in [Ids -> 0..MaxTries]
    /\ saved \in [phase : [Ids -> Phases], tries : [Ids -> 0..MaxTries]]

LifeInit ==
    /\ phase = [id \in Ids |-> "absent"]
    /\ tries = [id \in Ids |-> 0]
    /\ saved = [phase |-> phase, tries |-> tries]

Durable == saved' = [phase |-> phase', tries |-> tries']
MaybeDurable == Durable \/ UNCHANGED saved

Enter(id) ==
    /\ phase[id] = "absent"
    /\ phase' = [phase EXCEPT ![id] = "queued"]
    /\ tries' = [tries EXCEPT ![id] = 0]
    /\ MaybeDurable

\* A worker starts on the job; this uses up one try.
Start(id) ==
    /\ phase[id] = "queued"
    /\ tries[id] < MaxTries
    /\ phase' = [phase EXCEPT ![id] = "running"]
    /\ tries' = [tries EXCEPT ![id] = @ + 1]
    /\ MaybeDurable

\* Its worker reports on a running job; a try is given back to the queue only while
\* one is left.
Report(id) ==
    /\ phase[id] = "running"
    /\ \E outcome \in {"complete", "failed", "queued"} :
          /\ outcome = "queued" => tries[id] < MaxTries
          /\ phase' = [phase EXCEPT ![id] = outcome]
    /\ UNCHANGED tries
    /\ MaybeDurable

Withdraw(id) ==
    /\ phase[id] \in {"queued", "running"}
    /\ phase' = [phase EXCEPT ![id] = "cancelled"]
    /\ UNCHANGED tries
    /\ MaybeDurable

\* The phases before with the running jobs in lost taken from their workers.
TimedOut(before, used, lost) ==
    [id \in Ids |->
        IF id \notin lost THEN before[id]
        ELSE IF used[id] < MaxTries THEN "queued" ELSE "failed"]

RunningIn(phases) == {id \in Ids : phases[id] = "running"}

TimeOut ==
    /\ \E lost \in SUBSET RunningIn(phase) : phase' = TimedOut(phase, tries, lost)
    /\ UNCHANGED tries
    /\ MaybeDurable

\* Finished jobs are forgotten.
Forget ==
    /\ \E gone \in SUBSET {id \in Ids : phase[id] \in Finished} :
          /\ phase' = [id \in Ids |-> IF id \in gone THEN "absent" ELSE phase[id]]
          /\ tries' = [id \in Ids |-> IF id \in gone THEN 0 ELSE tries[id]]
    /\ MaybeDurable

\* The process stops and starts again from what was saved.
Crash ==
    /\ \E lost \in SUBSET RunningIn(saved.phase) :
          phase' = TimedOut(saved.phase, saved.tries, lost)
    /\ tries' = saved.tries
    /\ Durable

\* Something else is made durable, and everything so far with it.
Save ==
    /\ UNCHANGED <<phase, tries>>
    /\ Durable

LifeNext ==
    \/ \E id \in Ids : Enter(id) \/ Start(id) \/ Report(id) \/ Withdraw(id)
    \/ TimeOut
    \/ Forget
    \/ Crash
    \/ Save

LifeSpec == LifeInit /\ [][LifeNext]_lifeVars

================================================================================

---------------------------- MODULE CircuitBreaker ----------------------------
(***************************************************************************)
(* The circuit breaker of one backend (src/router/circuit.rs), as          *)
(* operators on its state.                                                 *)
(*                                                                         *)
(* How long a circuit has been open is measured with Instant, a monotonic  *)
(* clock that nothing else looks at, so the model keeps only whether the   *)
(* cooldown has passed: an open circuit may become "cooled" at any time.   *)
(* The failure count is only ever compared with the threshold, so it stops *)
(* there.                                                                  *)
(***************************************************************************)
EXTENDS Integers

CONSTANT FailureThreshold   \* failure_threshold

ASSUME ThresholdAssumption == FailureThreshold \in Nat

\* CircuitState; "cooled" is Open with the cooldown elapsed.
CircuitState == {"closed", "open", "cooled", "half_open"}
Circuit == [state : CircuitState, failures : 0..FailureThreshold]

NewCircuit == [state |-> "closed", failures |-> 0]

CooledCircuit(c) == [c EXCEPT !.state = "cooled"]

\* is_available: its answer.
IsAvailable(c) == c.state # "open"

\* Mutant: the failures are forgotten when the trial begins.
AskedForgetting(c) ==
    IF c.state = "cooled" THEN [state |-> "half_open", failures |-> 0] ELSE c

\* is_available: the circuit it leaves.
Asked(c) == IF c.state = "cooled" THEN [c EXCEPT !.state = "half_open"] ELSE c

\* Mutant: a success resets the count of a tripped circuit without closing it.
SucceededCountOnly(c) ==
    IF c.state \in {"open", "cooled"} THEN [c EXCEPT !.failures = 0] ELSE NewCircuit

\* record_success: closes the circuit from any state.
Succeeded(c) == NewCircuit

\* record_failure.  The cooldown starts anew, also for a circuit that was open.
Failed(c) ==
    LET failures == IF c.failures < FailureThreshold THEN c.failures + 1 ELSE c.failures
    IN  [state |-> IF failures >= FailureThreshold THEN "open" ELSE c.state,
         failures |-> failures]

================================================================================

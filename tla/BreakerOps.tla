----------------------------- MODULE BreakerOps -----------------------------
(***************************************************************************)
(* The circuit breaker of kubeflow_mcp/core/resilience.py as operators on  *)
(* a record.  Each method of the class runs under the breaker's own lock,  *)
(* so one method call is one atomic step of whoever uses these operators.  *)
(*                                                                         *)
(* Two fields are exact finite views of unbounded ones:                    *)
(*  - elapsed stands for time.time() - last_failure_time, saturating at    *)
(*    RecoveryTimeout: the code only compares it with recovery_timeout;    *)
(*  - failure_count saturates at FailureThreshold: the code only compares  *)
(*    it with failure_threshold, by >=.                                    *)
(***************************************************************************)
EXTENDS Integers

CONSTANTS FailureThreshold,  \* failures in a row that open the circuit
          RecoveryTimeout,   \* time without a failure before a probe is let in
          HalfOpenMaxCalls   \* slots, and successes needed, in HALF_OPEN

ASSUME BreakerAssumption ==
          /\ FailureThreshold \in Nat \ {0}
          /\ RecoveryTimeout \in Nat \ {0}
          /\ HalfOpenMaxCalls \in Nat \ {0}

CircuitState == {"closed", "open", "half_open"}

Breaker == [state : CircuitState,
            failure_count : 0..FailureThreshold,
            elapsed : 0..RecoveryTimeout,
            half_open_calls : 0..HalfOpenMaxCalls,
            half_open_successes : 0..HalfOpenMaxCalls]

BreakerWith(state, failures, elapsed, calls, successes) ==
    [state |-> state,
     failure_count |-> failures,
     elapsed |-> elapsed,
     half_open_calls |-> calls,
     half_open_successes |-> successes]

\* last_failure_time starts at the epoch: as long ago as can be told apart.
NewBreaker == BreakerWith("closed", 0, RecoveryTimeout, 0, 0)

-----------------------------------------------------------------------------
\* can_execute: when it answers TRUE ...
Recovered(b) == b.state = "open" /\ b.elapsed >= RecoveryTimeout

\* Mutation of CanExecute: a half-open circuit lets every call through.
CanExecuteUnlimited(b) == b.state # "open" \/ Recovered(b)

CanExecute(b) ==
    \/ b.state = "closed"
    \/ Recovered(b)
    \/ b.state = "half_open" /\ b.half_open_calls < HalfOpenMaxCalls

\* ... and the breaker it then leaves behind: half_open_successes is not reset.
Reserve(b) ==
    CASE Recovered(b) ->
             BreakerWith("half_open", b.failure_count, b.elapsed, 1, b.half_open_successes)
      [] b.state = "half_open" -> [b EXCEPT !.half_open_calls = @ + 1]
      [] OTHER -> b

\* Mutation of RecordSuccess: the circuit needs one success more than it has slots.
RecordSuccessOneMore(b) ==
    CASE b.state # "half_open" -> [b EXCEPT !.failure_count = 0]
      [] b.state = "half_open" /\ b.half_open_successes < HalfOpenMaxCalls ->
             [b EXCEPT !.half_open_successes = @ + 1]
      [] OTHER -> BreakerWith("closed", 0, b.elapsed, b.half_open_calls, 0)

\* Mutation of RecordSuccess: a success outside of HALF_OPEN closes the circuit,
\* also that of a call which began before the circuit opened.
RecordSuccessCloses(b) ==
    CASE b.state # "half_open" -> [b EXCEPT !.state = "closed", !.failure_count = 0]
      [] b.state = "half_open" /\ b.half_open_successes + 1 < HalfOpenMaxCalls ->
             [b EXCEPT !.half_open_successes = @ + 1]
      [] OTHER -> BreakerWith("closed", 0, b.elapsed, b.half_open_calls, 0)

RecordSuccess(b) ==
    CASE b.state # "half_open" -> [b EXCEPT !.failure_count = 0]
      [] b.state = "half_open" /\ b.half_open_successes + 1 < HalfOpenMaxCalls ->
             [b EXCEPT !.half_open_successes = @ + 1]
      [] OTHER -> BreakerWith("closed", 0, b.elapsed, b.half_open_calls, 0)

OneMore(failures) == IF failures < FailureThreshold THEN failures + 1 ELSE failures

\* Mutation of RecordFailure: reopening keeps the successes of the failed period.
RecordFailureKeeping(b) ==
    LET failures == OneMore(b.failure_count) IN
    CASE b.state = "half_open" \/ failures >= FailureThreshold ->
             BreakerWith("open", failures, 0, b.half_open_calls, b.half_open_successes)
      [] OTHER ->
             BreakerWith(b.state, failures, 0, b.half_open_calls, b.half_open_successes)

\* A failure always restarts the clock, also one that arrives while OPEN.
RecordFailure(b) ==
    LET failures == OneMore(b.failure_count) IN
    CASE b.state = "half_open" -> BreakerWith("open", failures, 0, b.half_open_calls, 0)
      [] b.state # "half_open" /\ failures >= FailureThreshold ->
             BreakerWith("open", failures, 0, b.half_open_calls, b.half_open_successes)
      [] OTHER ->
             BreakerWith(b.state, failures, 0, b.half_open_calls, b.half_open_successes)

\* What the caller reports: a result that is neither a success nor an
\* infrastructure error ("neutral") is not reported to the breaker at all.
Report(b, outcome) ==
    CASE outcome = "success" -> RecordSuccess(b)
      [] outcome = "failure" -> RecordFailure(b)
      [] OTHER               -> b

\* One unit of time passes.
Age(b) == [b EXCEPT !.elapsed = IF @ < RecoveryTimeout THEN @ + 1 ELSE @]
=============================================================================

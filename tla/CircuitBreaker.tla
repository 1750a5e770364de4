--------------------------- MODULE CircuitBreaker ---------------------------
(***************************************************************************)
(* One circuit breaker and the tool calls it guards.                       *)
(*                                                                         *)
(* FastMCP runs synchronous tools on worker threads, so several calls are  *)
(* between can_execute() and record_*() at once: a call admitted before    *)
(* the circuit opened may report long after it has opened, half-opened or  *)
(* closed again (a straggler).                                             *)
(*                                                                         *)
(* Outcomes is what calls report.  The breaker of _audit_wrap sees         *)
(* "success", "failure" and "neutral" (a non-infrastructure error);        *)
(* execute_tool reports every error that is not infrastructure as success. *)
(***************************************************************************)
EXTENDS BreakerOps, FiniteSets

CONSTANTS Callers,   \* concurrent tool calls (worker threads)
          Outcomes   \* what a call may report

ASSUME CallersAssumption == IsFiniteSet(Callers)
ASSUME OutcomesAssumption == /\ Outcomes \subseteq {"success", "failure", "neutral"}
                             /\ "success" \in Outcomes

VARIABLES breaker,   \* the CircuitBreaker object
          pc,        \* a caller is "idle" or "running" its tool
          healthy    \* environment: the cluster answers every call from now on

\* Observers of the current HALF_OPEN period; no step's guard reads them.
VARIABLES probes,    \* running calls that hold a slot of this period
          passed,    \* slots of this period whose call reported a success
          spent,     \* slots of this period whose call reported nothing
          evidence,  \* successes reported in this period by anybody, capped
          openFor    \* time since the circuit last opened, capped

program   == <<breaker, pc, healthy>>
observers == <<probes, passed, spent, evidence, openFor>>
vars      == <<breaker, pc, healthy, probes, passed, spent, evidence, openFor>>

TypeOK ==
    /\ breaker \in Breaker
    /\ pc \in [Callers -> {"idle", "running"}]
    /\ healthy \in BOOLEAN
    /\ probes \subseteq Callers
    /\ passed \in 0..HalfOpenMaxCalls
    /\ spent \in 0..HalfOpenMaxCalls
    /\ evidence \in 0..HalfOpenMaxCalls
    /\ openFor \in 0..RecoveryTimeout

Init ==
    /\ breaker = NewBreaker
    /\ pc = [t \in Callers |-> "idle"]
    /\ healthy = FALSE
    /\ probes = {}
    /\ passed = 0
    /\ spent = 0
    /\ evidence = 0
    /\ openFor = 0

-----------------------------------------------------------------------------
\* can_execute() answers True and the tool starts.
Admit(t) ==
    /\ pc[t] = "idle"
    /\ CanExecute(breaker)
    /\ breaker' = Reserve(breaker)
    /\ pc' = [pc EXCEPT ![t] = "running"]
    /\ probes' = IF breaker'.state = "half_open" THEN probes \cup {t} ELSE probes
    /\ UNCHANGED <<healthy, passed, spent, evidence, openFor>>

\* can_execute() answers False: the caller gets CIRCUIT_OPEN at once.
Deny(t) ==
    /\ pc[t] = "idle"
    /\ ~CanExecute(breaker)
    /\ UNCHANGED vars

\* The observers after a report: cleared when the report ends the period.
Observe(t, outcome) ==
    IF breaker'.state = "half_open"
    THEN /\ probes' = probes \ {t}
         /\ passed' = IF outcome = "success" /\ t \in probes THEN passed + 1 ELSE passed
         /\ spent' = IF outcome = "neutral" /\ t \in probes THEN spent + 1 ELSE spent
         /\ evidence' = IF outcome = "success" THEN evidence + 1 ELSE evidence
    ELSE probes' = {} /\ passed' = 0 /\ spent' = 0 /\ evidence' = 0

\* The tool returns or raises, and the wrapper reports.
Finish(t) ==
    /\ pc[t] = "running"
    /\ \E outcome \in Outcomes :
          /\ healthy => outcome = "success"
          /\ breaker' = Report(breaker, outcome)
          /\ Observe(t, outcome)
    /\ openFor' = IF breaker'.state = "open" /\ breaker.state # "open" THEN 0 ELSE openFor
    /\ pc' = [pc EXCEPT ![t] = "idle"]
    /\ UNCHANGED healthy

Tick ==
    /\ breaker.elapsed < RecoveryTimeout \/ openFor < RecoveryTimeout
    /\ breaker' = Age(breaker)
    /\ openFor' = IF openFor < RecoveryTimeout THEN openFor + 1 ELSE openFor
    /\ UNCHANGED <<pc, healthy, probes, passed, spent, evidence>>

\* From here on every call succeeds.
Heal ==
    /\ ~healthy
    /\ healthy' = TRUE
    /\ UNCHANGED <<breaker, pc, probes, passed, spent, evidence, openFor>>

Next == Tick \/ Heal \/ \E t \in Callers : Admit(t) \/ Deny(t) \/ Finish(t)

Spec == Init /\ [][Next]_vars

\* Time passes and a tool that runs returns: the SDK calls have timeouts.
Progress == WF_vars(Tick) /\ \A t \in Callers : WF_vars(Finish(t))

\* In addition every client calls again after a refusal or an answer.
ClientsRetry == \A t \in Callers : WF_vars(Admit(t))

RetryingSpec == Spec /\ Progress /\ ClientsRetry
-----------------------------------------------------------------------------
(* Properties *)

\* Threads, failure counts and stragglers taken away, the breaker is the gate of
\* BreakerGate: its state, its own count of successes, the probes under way and
\* the time since it last shut move only as the gate may, whatever calls of
\* earlier periods report in between.
Gate == INSTANCE BreakerGate WITH
            Pause     <- RecoveryTimeout,
            Slots     <- HalfOpenMaxCalls,
            gate      <- CASE breaker.state = "closed" -> "closed"
                           [] breaker.state = "open"   -> "paused"
                           [] OTHER                    -> "probing",
            since     <- openFor,
            probing   <- Cardinality(probes),
            successes <- breaker.half_open_successes

ImplementsGate == Gate!Spec

\* The cluster being probed is never hit by more than half_open_max_calls
\* calls of one HALF_OPEN period at a time, whatever the interleaving of
\* can_execute and record_* (the slot is reserved under the lock).
ProbeBound ==
    breaker.state = "half_open" => Cardinality(probes) <= HalfOpenMaxCalls

\* A half-open circuit that refuses calls with no probe left to report has
\* lost a slot to a neutral call: nothing else can use the slots up.
LockoutNeedsNeutral ==
    breaker.state = "half_open" /\ ~CanExecute(breaker) /\ probes = {} => spent > 0

\* The circuit closes from HALF_OPEN only after half_open_max_calls successes
\* were reported since it half-opened, with no failure between them: the
\* counter it inherits is never stale, though can_execute does not reset it.
ClosesOnEvidence ==
    [][breaker.state = "half_open" /\ breaker'.state = "closed"
          => evidence + 1 >= HalfOpenMaxCalls]_vars

\* Once the circuit opens, no call gets through for recovery_timeout, and it
\* leaves OPEN only through HALF_OPEN: reports of stragglers, successes
\* included, cannot shorten the pause.
OpenPauses ==
    [][breaker.state = "open" /\ breaker'.state # "open"
          => breaker'.state = "half_open" /\ openFor >= RecoveryTimeout]_vars

\* Calls get through again and again for ever, unless a neutral call used up
\* a slot of the half-open circuit.
RetriesUnlessSpent == []<>(CanExecute(breaker) \/ spent > 0)

\* Once the cluster answers every call and clients keep calling, the circuit
\* closes, unless a neutral call used up a slot of the half-open circuit.
RecoversUnlessSpent == healthy ~> (breaker.state = "closed" \/ spent > 0)
=============================================================================

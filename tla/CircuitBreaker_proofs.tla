----------------------- MODULE CircuitBreaker_proofs -----------------------
(***************************************************************************)
(* Safety of CircuitBreaker for every number of callers, every threshold,  *)
(* timeout and number of half-open slots.                                  *)
(*                                                                         *)
(* The inductive invariant is an account of the half-open slots: each slot *)
(* taken in the current period is held by a running probe, was returned    *)
(* with a success, or was spent by a call that reported nothing.           *)
(***************************************************************************)
EXTENDS CircuitBreaker, FiniteSetTheorems, TLAPS

SlotAccount ==
    breaker.state = "half_open" =>
        /\ Cardinality(probes) + passed + spent = breaker.half_open_calls
        /\ passed <= breaker.half_open_successes
        /\ evidence = breaker.half_open_successes
        /\ breaker.half_open_successes < HalfOpenMaxCalls

CleanOutsidePeriod ==
    breaker.state # "half_open" =>
        /\ probes = {} /\ passed = 0 /\ spent = 0 /\ evidence = 0
        /\ breaker.half_open_successes = 0

ProbesRun == \A t \in probes : pc[t] = "running"

OpenClock == breaker.state = "open" => breaker.elapsed <= openFor

IInv == TypeOK /\ SlotAccount /\ CleanOutsidePeriod /\ ProbesRun /\ OpenClock

-----------------------------------------------------------------------------
(* What the methods of the class return, stated once for the steps below. *)

\* Every method leaves a well-formed breaker behind; can_execute stays within
\* the slots.
LEMMA MethodTypes ==
    ASSUME NEW b \in Breaker
    PROVE  /\ CanExecute(b) => Reserve(b) \in Breaker
           /\ RecordFailure(b) \in Breaker
           /\ (b.state = "half_open" => b.half_open_successes < HalfOpenMaxCalls)
                 => RecordSuccess(b) \in Breaker
           /\ Age(b) \in Breaker
  <1> USE BreakerAssumption DEF Breaker, CircuitState, BreakerWith
  <1>1. CanExecute(b) => Reserve(b) \in Breaker
    BY DEF CanExecute, Reserve, Recovered
  <1>2. RecordFailure(b) \in Breaker
    BY DEF RecordFailure, OneMore
  <1>3. ASSUME b.state = "half_open" => b.half_open_successes < HalfOpenMaxCalls
        PROVE  RecordSuccess(b) \in Breaker
    BY <1>3 DEF RecordSuccess
  <1>4. Age(b) \in Breaker
    BY DEF Age
  <1>5. QED BY <1>1, <1>2, <1>3, <1>4

\* A subset of the callers is finite, and adding or removing one caller
\* changes its size by one.
LEMMA ProbeCount ==
    ASSUME NEW S \in SUBSET Callers, NEW t \in Callers
    PROVE  /\ IsFiniteSet(S) /\ Cardinality(S) \in Nat
           /\ t \notin S => Cardinality(S \cup {t}) = Cardinality(S) + 1
           /\ t \in S => Cardinality(S \ {t}) = Cardinality(S) - 1
           /\ t \notin S => S \ {t} = S
  <1>1. IsFiniteSet(S) BY CallersAssumption, FS_Subset
  <1>2. Cardinality(S) \in Nat BY <1>1, FS_CardinalityType
  <1>3. t \notin S => Cardinality(S \cup {t}) = Cardinality(S) + 1
    BY <1>1, FS_AddElement
  <1>4. t \in S => Cardinality(S \ {t}) = Cardinality(S) - 1
    BY <1>1, FS_RemoveElement
  <1>5. QED BY <1>1, <1>2, <1>3, <1>4

-----------------------------------------------------------------------------
\* The new breaker of get_breaker satisfies the inductive invariant.
LEMMA InitIInv == Init => IInv
  <1> SUFFICES ASSUME Init PROVE IInv
    OBVIOUS
  <1>1. breaker \in Breaker /\ breaker.state = "closed" /\ breaker.half_open_successes = 0
    BY BreakerAssumption DEF Init, NewBreaker, Breaker, CircuitState, BreakerWith
  <1>2. TypeOK
    <2>1. 0 \in 0..HalfOpenMaxCalls /\ 0 \in 0..RecoveryTimeout
      BY BreakerAssumption
    <2>2. pc \in [Callers -> {"idle", "running"}] /\ healthy \in BOOLEAN
      BY DEF Init
    <2>3. QED BY <1>1, <2>1, <2>2 DEF Init, TypeOK
  <1>3. QED
    BY <1>1, <1>2
    DEF Init, IInv, SlotAccount, CleanOutsidePeriod, ProbesRun, OpenClock

\* A call let in by can_execute keeps it: the slot is reserved in the same step.
LEMMA AdmitIInv == ASSUME IInv, NEW t \in Callers, Admit(t) PROVE IInv'
  <1> USE DEF IInv, Admit
  <1>1. /\ breaker \in Breaker /\ breaker' = Reserve(breaker) /\ breaker' \in Breaker
        /\ CanExecute(breaker) /\ pc[t] = "idle"
    BY MethodTypes DEF TypeOK
  <1>2. /\ t \notin probes
        /\ probes \in SUBSET Callers
        /\ Cardinality(probes) \in Nat
        /\ Cardinality(probes \cup {t}) = Cardinality(probes) + 1
    BY ProbeCount DEF TypeOK, ProbesRun
  <1>3. TypeOK'
    BY <1>1 DEF TypeOK
  <1>4. /\ breaker'.state = "half_open" =>
             /\ probes' = probes \cup {t}
             /\ breaker'.half_open_calls =
                  IF breaker.state = "half_open" THEN breaker.half_open_calls + 1 ELSE 1
        /\ breaker'.half_open_successes = breaker.half_open_successes
        /\ breaker.state = "half_open" => breaker'.state = "half_open"
        /\ breaker'.state # "half_open" => probes' = probes
        /\ breaker'.state # "open"
    BY <1>1 DEF Reserve, CanExecute, Recovered, Breaker, CircuitState, BreakerWith
  <1>5. Cardinality({}) = 0
    BY FS_EmptySet
  <1>6. SlotAccount'
    <2> SUFFICES ASSUME breaker'.state = "half_open" PROVE SlotAccount!2'
      BY DEF SlotAccount
    <2>1. CASE breaker.state = "half_open"
      BY <1>1, <1>2, <1>4, <2>1, BreakerAssumption DEF SlotAccount, TypeOK, Breaker
    <2>2. CASE breaker.state # "half_open"
      <3>1. /\ Cardinality(probes') = 1 /\ breaker'.half_open_calls = 1
            /\ breaker'.half_open_successes = 0
        BY <1>2, <1>4, <1>5, <2>2 DEF CleanOutsidePeriod
      <3>2. passed' = 0 /\ spent' = 0 /\ evidence' = 0
        BY <2>2 DEF CleanOutsidePeriod
      <3>3. QED BY <3>1, <3>2, BreakerAssumption
    <2>3. QED BY <2>1, <2>2
  <1>7. CleanOutsidePeriod'
    BY <1>1, <1>4 DEF CleanOutsidePeriod
  <1>8. ProbesRun'
    BY <1>1 DEF ProbesRun, TypeOK
  <1>9. OpenClock'
    BY <1>4 DEF OpenClock
  <1>10. QED BY <1>3, <1>6, <1>7, <1>8, <1>9

\* So does a report, of a probe or of a straggler, in any state of the circuit.
LEMMA FinishIInv == ASSUME IInv, NEW t \in Callers, Finish(t) PROVE IInv'
  <1> USE DEF IInv
  <1>1. PICK outcome \in Outcomes :
          breaker' = Report(breaker, outcome) /\ Observe(t, outcome)
    BY DEF Finish
  <1>2. /\ breaker \in Breaker
        /\ breaker.state = "half_open" => breaker.half_open_successes < HalfOpenMaxCalls
    BY DEF TypeOK, SlotAccount
  <1>3. breaker' \in Breaker
    BY <1>1, <1>2, MethodTypes DEF Report
  <1>4. /\ probes \in SUBSET Callers
        /\ Cardinality(probes) \in Nat
        /\ t \in probes => Cardinality(probes \ {t}) = Cardinality(probes) - 1
        /\ t \notin probes => probes \ {t} = probes
    BY ProbeCount DEF TypeOK
  <1>5. ASSUME breaker'.state = "half_open"
        PROVE  /\ breaker.state = "half_open"
               /\ outcome # "failure"
               /\ breaker'.half_open_calls = breaker.half_open_calls
               /\ breaker'.half_open_successes =
                     IF outcome = "success" THEN breaker.half_open_successes + 1
                                            ELSE breaker.half_open_successes
               /\ breaker'.half_open_successes < HalfOpenMaxCalls
    BY <1>1, <1>2, <1>5, BreakerAssumption
    DEF Report, RecordSuccess, RecordFailure, OneMore, Breaker, BreakerWith
  <1>6. ASSUME breaker'.state # "half_open"
        PROVE  breaker'.half_open_successes = 0
    BY <1>1, <1>2, <1>6
    DEF Report, RecordSuccess, RecordFailure, OneMore, Breaker, BreakerWith, CleanOutsidePeriod
  <1>7. SlotAccount'
    <2> SUFFICES ASSUME breaker'.state = "half_open" PROVE SlotAccount!2'
      BY DEF SlotAccount
    <2>1. /\ probes' = probes \ {t}
          /\ passed' = IF outcome = "success" /\ t \in probes THEN passed + 1 ELSE passed
          /\ spent' = IF outcome = "neutral" /\ t \in probes THEN spent + 1 ELSE spent
          /\ evidence' = IF outcome = "success" THEN evidence + 1 ELSE evidence
      BY <1>1 DEF Observe
    <2>2. outcome \in {"success", "neutral"}
      BY <1>5, OutcomesAssumption
    <2>3. /\ Cardinality(probes) + passed + spent = breaker.half_open_calls
          /\ passed <= breaker.half_open_successes
          /\ evidence = breaker.half_open_successes
          /\ passed \in Nat /\ spent \in Nat /\ breaker.half_open_successes \in Nat
          /\ breaker.half_open_calls \in Nat
      BY <1>5, <1>2, BreakerAssumption DEF SlotAccount, TypeOK, Breaker
    <2> HIDE DEF IInv
    <2>4. CASE t \in probes BY <2>1, <2>2, <2>3, <2>4, <1>4, <1>5
    <2>5. CASE t \notin probes
      <3>1. probes' = probes /\ passed' = passed /\ spent' = spent
        BY <2>1, <2>5, <1>4
      <3>2. QED BY <2>1, <2>2, <2>3, <3>1, <1>5
    <2>6. QED BY <2>4, <2>5
  <1>8. CleanOutsidePeriod'
    BY <1>1, <1>6 DEF CleanOutsidePeriod, Observe
  <1>9. /\ breaker'.half_open_calls \in 0..HalfOpenMaxCalls
        /\ breaker'.half_open_successes \in 0..HalfOpenMaxCalls
    BY <1>3 DEF Breaker
  <1>10. probes' \subseteq probes \ {t}
    BY <1>1 DEF Observe
  <1>11. /\ passed' \in 0..HalfOpenMaxCalls
         /\ spent' \in 0..HalfOpenMaxCalls
         /\ evidence' \in 0..HalfOpenMaxCalls
    <2>1. CASE breaker'.state # "half_open"
      BY <2>1, <1>8, BreakerAssumption DEF CleanOutsidePeriod
    <2>2. CASE breaker'.state = "half_open"
      <3>1. /\ Cardinality(probes') + passed' + spent' = breaker'.half_open_calls
            /\ passed' <= breaker'.half_open_successes
            /\ evidence' = breaker'.half_open_successes
        BY <2>2, <1>7 DEF SlotAccount
      <3>2. Cardinality(probes') \in Nat
        BY <1>10, <1>4, ProbeCount
      <3>3. passed' \in Nat /\ spent' \in Nat
        BY <1>1 DEF TypeOK, Observe
      <3>4. QED BY <3>1, <3>2, <3>3, <1>9, BreakerAssumption
    <2>3. QED BY <2>1, <2>2
  <1>12. TypeOK'
    BY <1>3, <1>4, <1>10, <1>11, BreakerAssumption DEF TypeOK, Finish
  <1>13. ProbesRun'
    BY <1>10 DEF ProbesRun, Finish, TypeOK
  <1>14. OpenClock'
    <2>1. CASE breaker.state # "open" /\ breaker'.state = "open"
      BY <1>1, <1>2, <2>1, BreakerAssumption
      DEF OpenClock, Finish, Report, RecordSuccess, RecordFailure, OneMore, Breaker, BreakerWith, TypeOK
    <2>2. CASE breaker.state = "open"
      BY <1>1, <1>2, <2>2, BreakerAssumption
      DEF OpenClock, Finish, Report, RecordSuccess, RecordFailure, OneMore, Breaker, BreakerWith, TypeOK
    <2>3. QED BY <2>1, <2>2 DEF OpenClock
  <1>15. QED BY <1>7, <1>8, <1>12, <1>13, <1>14

\* So does the passage of time.
LEMMA TickIInv == ASSUME IInv, Tick PROVE IInv'
  <1> USE DEF IInv, Tick
  <1>1. breaker \in Breaker /\ breaker' \in Breaker
    BY MethodTypes DEF TypeOK
  <1>2. /\ breaker'.state = breaker.state
        /\ breaker'.half_open_calls = breaker.half_open_calls
        /\ breaker'.half_open_successes = breaker.half_open_successes
        /\ breaker'.elapsed = IF breaker.elapsed < RecoveryTimeout
                              THEN breaker.elapsed + 1 ELSE breaker.elapsed
    BY <1>1 DEF Age, Breaker
  <1>3. TypeOK'
    BY <1>1, BreakerAssumption DEF TypeOK
  <1>4. SlotAccount' /\ CleanOutsidePeriod' /\ ProbesRun'
    BY <1>2 DEF SlotAccount, CleanOutsidePeriod, ProbesRun
  <1>5. OpenClock'
    BY <1>1, <1>2, BreakerAssumption DEF OpenClock, TypeOK, Breaker
  <1>6. QED BY <1>3, <1>4, <1>5

\* So does a step that changes nothing, such as a refusal of can_execute.
LEMMA StutterIInv == ASSUME IInv, UNCHANGED vars PROVE IInv'
  BY DEF IInv, vars, TypeOK, SlotAccount, CleanOutsidePeriod, ProbesRun, OpenClock

\* So does the recovery of the cluster.
LEMMA HealIInv == ASSUME IInv, Heal PROVE IInv'
  BY DEF Heal, IInv, TypeOK, SlotAccount, CleanOutsidePeriod, ProbesRun, OpenClock

\* The slot account is kept by every step of every interleaving.
THEOREM Inductive == Spec => []IInv
  <1>1. ASSUME IInv, [Next]_vars PROVE IInv'
    <2>1. CASE Tick BY <1>1, <2>1, TickIInv
    <2>2. CASE Heal BY <1>1, <2>2, HealIInv
    <2>3. ASSUME NEW t \in Callers, Admit(t) PROVE IInv' BY <1>1, <2>3, AdmitIInv
    <2>4. ASSUME NEW t \in Callers, Deny(t) PROVE IInv'
      BY <1>1, <2>4, StutterIInv DEF Deny
    <2>5. ASSUME NEW t \in Callers, Finish(t) PROVE IInv' BY <1>1, <2>5, FinishIInv
    <2>6. CASE UNCHANGED vars BY <1>1, <2>6, StutterIInv
    <2>7. QED BY <1>1, <2>1, <2>2, <2>3, <2>4, <2>5, <2>6 DEF Next
  <1>2. QED BY InitIInv, <1>1, PTL DEF Spec

\* Type correctness: the counters of the breaker stay within their bounds.
THEOREM TypeCorrect == Spec => []TypeOK
  <1>1. IInv => TypeOK BY DEF IInv
  <1>2. QED BY Inductive, <1>1, PTL

\* A half-open circuit never has more than half_open_max_calls probes running.
THEOREM ProbesBounded == Spec => []ProbeBound
  <1>1. ASSUME IInv PROVE ProbeBound
    <2> SUFFICES ASSUME breaker.state = "half_open"
                 PROVE  Cardinality(probes) <= HalfOpenMaxCalls
      BY DEF ProbeBound
    <2>1. /\ Cardinality(probes) + passed + spent = breaker.half_open_calls
          /\ passed \in Nat /\ spent \in Nat
          /\ breaker.half_open_calls \in 0..HalfOpenMaxCalls
      BY <1>1 DEF IInv, SlotAccount, TypeOK, Breaker
    <2>2. Cardinality(probes) \in Nat
      BY <1>1, CallersAssumption, FS_Subset, FS_CardinalityType DEF IInv, TypeOK
    <2>3. QED BY <2>1, <2>2, BreakerAssumption
  <1>2. QED BY Inductive, <1>1, PTL

\* Only a neutral report can leave a half-open circuit shut with nobody to
\* open it.
THEOREM LockoutOnlyByNeutral == Spec => []LockoutNeedsNeutral
  <1>1. ASSUME IInv PROVE LockoutNeedsNeutral
    <2> SUFFICES ASSUME breaker.state = "half_open", ~CanExecute(breaker), probes = {}
                 PROVE  spent > 0
      BY DEF LockoutNeedsNeutral
    <2>1. /\ Cardinality(probes) + passed + spent = breaker.half_open_calls
          /\ passed <= breaker.half_open_successes
          /\ breaker.half_open_successes < HalfOpenMaxCalls
          /\ passed \in Nat /\ spent \in Nat
          /\ breaker.half_open_calls \in 0..HalfOpenMaxCalls
          /\ breaker.half_open_successes \in 0..HalfOpenMaxCalls
      BY <1>1 DEF IInv, SlotAccount, TypeOK, Breaker
    <2>2. ~(breaker.half_open_calls < HalfOpenMaxCalls)
      BY DEF CanExecute
    <2>3. Cardinality(probes) = 0
      BY FS_EmptySet
    <2>4. QED BY <2>1, <2>2, <2>3, BreakerAssumption
  <1>2. QED BY Inductive, <1>1, PTL

\* Closing needs half_open_max_calls successes of the current period.
THEOREM ClosingNeedsEvidence == Spec => ClosesOnEvidence
  <1>1. ASSUME IInv, [Next]_vars, breaker.state = "half_open", breaker'.state = "closed"
        PROVE  evidence + 1 >= HalfOpenMaxCalls
    <2>1. PICK t \in Callers : Finish(t)
      <3>1. breaker \in Breaker BY <1>1 DEF IInv, TypeOK
      <3>2. ASSUME NEW t \in Callers, Admit(t) PROVE FALSE
        BY <1>1, <3>1, <3>2 DEF Admit, Reserve, Recovered, Breaker, BreakerWith
      <3>3. ASSUME Tick PROVE FALSE BY <1>1, <3>1, <3>3 DEF Tick, Age, Breaker
      <3>4. ASSUME Heal PROVE FALSE BY <1>1, <3>4 DEF Heal
      <3>5. ASSUME UNCHANGED vars PROVE FALSE BY <1>1, <3>5 DEF vars
      <3>6. ASSUME NEW t \in Callers, Deny(t) PROVE FALSE
        BY <1>1, <3>6 DEF Deny, vars
      <3>7. QED BY <1>1, <3>2, <3>3, <3>4, <3>5, <3>6 DEF Next
    <2>2. breaker \in Breaker /\ evidence = breaker.half_open_successes
      BY <1>1 DEF IInv, TypeOK, SlotAccount
    <2>3. QED
      BY <1>1, <2>1, <2>2, BreakerAssumption
      DEF Finish, Report, RecordSuccess, RecordFailure, OneMore, Breaker, BreakerWith
  <1>2. QED BY Inductive, <1>1, PTL DEF ClosesOnEvidence, Spec

\* An open circuit pauses for recovery_timeout and then half-opens.
THEOREM OpeningPauses == Spec => OpenPauses
  <1>1. ASSUME IInv, [Next]_vars, breaker.state = "open", breaker'.state # "open"
        PROVE  breaker'.state = "half_open" /\ openFor >= RecoveryTimeout
    <2>1. breaker \in Breaker /\ breaker.elapsed <= openFor /\ openFor \in 0..RecoveryTimeout
      BY <1>1 DEF IInv, TypeOK, OpenClock
    <2>2. ASSUME NEW t \in Callers, Finish(t) PROVE FALSE
      BY <1>1, <2>1, <2>2 DEF Finish, Report, RecordSuccess, RecordFailure, OneMore, Breaker, BreakerWith
    <2>3. ASSUME Tick PROVE FALSE BY <1>1, <2>1, <2>3 DEF Tick, Age, Breaker
    <2>4. ASSUME Heal PROVE FALSE BY <1>1, <2>4 DEF Heal
    <2>5. ASSUME UNCHANGED vars PROVE FALSE BY <1>1, <2>5 DEF vars
    <2>6. ASSUME NEW t \in Callers, Deny(t) PROVE FALSE
      BY <1>1, <2>6 DEF Deny, vars
    <2>7. PICK t \in Callers : Admit(t)
      BY <1>1, <2>2, <2>3, <2>4, <2>5, <2>6 DEF Next
    <2>8. QED
      BY <1>1, <2>1, <2>7, BreakerAssumption
      DEF Admit, Reserve, CanExecute, Recovered, Breaker, BreakerWith
  <1>2. QED BY Inductive, <1>1, PTL DEF OpenPauses, Spec

-----------------------------------------------------------------------------
(* The breaker implements BreakerGate: each of its steps is a step of the    *)
(* gate or leaves the gate alone.                                            *)

\* The gate as CircuitBreaker maps it.
GateState == CASE breaker.state = "closed" -> "closed"
               [] breaker.state = "open"   -> "paused"
               [] OTHER                    -> "probing"

GateView == <<GateState, openFor, Cardinality(probes), breaker.half_open_successes>>

\* A call let in starts the probing, is one more probe, or flows.
LEMMA AdmitGate ==
    ASSUME IInv, NEW t \in Callers, Admit(t)
    PROVE  Gate!Try \/ Gate!Probe \/ UNCHANGED GateView
  <1>1. /\ breaker \in Breaker /\ CanExecute(breaker) /\ breaker' = Reserve(breaker)
        /\ openFor' = openFor /\ openFor \in 0..RecoveryTimeout /\ pc[t] = "idle"
    BY DEF IInv, TypeOK, Admit
  <1>2. /\ t \notin probes
        /\ Cardinality(probes) \in Nat
        /\ Cardinality(probes \cup {t}) = Cardinality(probes) + 1
    BY <1>1, ProbeCount DEF IInv, TypeOK, ProbesRun
  <1>3. CASE breaker.state = "open"
    <2>1. /\ breaker'.state = "half_open"
          /\ breaker'.half_open_successes = breaker.half_open_successes
          /\ openFor >= RecoveryTimeout
      BY <1>1, <1>3, BreakerAssumption
      DEF IInv, OpenClock, CanExecute, Reserve, Recovered, Breaker, BreakerWith
    <2>2. probes = {} /\ probes' = {t}
      BY <1>3, <2>1 DEF IInv, CleanOutsidePeriod, Admit
    <2>3. Cardinality(probes') = 1
      BY <1>2, <2>2, FS_EmptySet
    <2>4. QED BY <1>1, <1>3, <2>1, <2>3 DEF Gate!Try
  <1>4. CASE breaker.state = "half_open"
    <2>1. /\ breaker'.state = "half_open"
          /\ breaker'.half_open_successes = breaker.half_open_successes
          /\ breaker.half_open_calls < HalfOpenMaxCalls
      BY <1>1, <1>4 DEF CanExecute, Reserve, Recovered, Breaker
    <2>2. probes' = probes \cup {t}
      BY <2>1 DEF Admit
    <2>3. Cardinality(probes) < HalfOpenMaxCalls
      BY <1>1, <1>2, <1>4, <2>1, BreakerAssumption DEF IInv, SlotAccount, TypeOK, Breaker
    <2>4. QED BY <1>1, <1>2, <1>4, <2>1, <2>2, <2>3 DEF Gate!Probe
  <1>5. CASE breaker.state = "closed"
    <2>1. breaker' = breaker
      BY <1>1, <1>5 DEF Reserve, Recovered
    <2>2. QED BY <1>1, <1>5, <2>1 DEF Admit, GateView, GateState
  <1>6. QED BY <1>1, <1>3, <1>4, <1>5 DEF Breaker, CircuitState

\* A report shuts the gate, counts for it, closes it, gives a probe back, or
\* says nothing that matters.
LEMMA FinishGate ==
    ASSUME IInv, NEW t \in Callers, Finish(t)
    PROVE  Gate!Shut \/ Gate!Succeed \/ Gate!GiveUp \/ Gate!Close \/ UNCHANGED GateView
  <1>1. PICK outcome \in Outcomes :
          breaker' = Report(breaker, outcome) /\ Observe(t, outcome)
    BY DEF Finish
  <1>2. /\ breaker \in Breaker
        /\ openFor' = IF breaker'.state = "open" /\ breaker.state # "open" THEN 0 ELSE openFor
        /\ outcome \in {"success", "failure", "neutral"}
    BY OutcomesAssumption DEF IInv, TypeOK, Finish
  <1>3. /\ probes \in SUBSET Callers
        /\ Cardinality(probes) \in Nat
        /\ t \in probes => Cardinality(probes \ {t}) = Cardinality(probes) - 1
        /\ t \notin probes => probes \ {t} = probes
        /\ Cardinality(probes \ {t}) \in Nat
        /\ Cardinality({}) = 0
    BY ProbeCount, FS_EmptySet DEF IInv, TypeOK
  <1>4. CASE breaker.state = "half_open"
    <2>1. /\ breaker.half_open_successes \in Nat
          /\ breaker.half_open_successes < HalfOpenMaxCalls
      BY <1>2, <1>4, BreakerAssumption DEF IInv, SlotAccount, Breaker
    <2>2. CASE outcome = "failure"
      <3>1. breaker'.state = "open" /\ breaker'.half_open_successes = 0
        BY <1>1, <1>4, <2>2 DEF Report, RecordFailure, BreakerWith
      <3>2. Cardinality(probes') = 0 /\ openFor' = 0
        BY <1>1, <1>2, <1>3, <1>4, <3>1 DEF Observe
      <3>3. QED BY <1>4, <3>1, <3>2 DEF Gate!Shut
    <2>3. CASE outcome = "neutral"
      <3>1. breaker' = breaker
        BY <1>1, <2>3 DEF Report
      <3>2. probes' = probes \ {t} /\ openFor' = openFor
        BY <1>1, <1>2, <1>4, <3>1 DEF Observe
      <3>3. CASE t \in probes
        <4>1. Cardinality(probes') = Cardinality(probes) - 1 /\ Cardinality(probes') \in Nat
          BY <1>3, <3>2, <3>3
        <4>2. QED BY <1>3, <1>4, <3>1, <3>2, <4>1 DEF Gate!GiveUp
      <3>4. CASE t \notin probes
        BY <1>3, <3>1, <3>2, <3>4 DEF GateView, GateState
      <3>5. QED BY <3>3, <3>4
    <2>4. CASE outcome = "success" /\ breaker.half_open_successes + 1 < HalfOpenMaxCalls
      <3>1. /\ breaker'.state = "half_open"
            /\ breaker'.half_open_successes = breaker.half_open_successes + 1
        BY <1>1, <1>2, <1>4, <2>1, <2>4 DEF Report, RecordSuccess, Breaker
      <3>2. probes' = probes \ {t} /\ openFor' = openFor
        BY <1>1, <1>2, <1>4, <3>1 DEF Observe
      <3>3. Cardinality(probes') \in {Cardinality(probes), Cardinality(probes) - 1} \cap Nat
        BY <1>3, <3>2
      <3>4. QED BY <1>4, <2>4, <3>1, <3>2, <3>3 DEF Gate!Succeed
    <2>5. CASE outcome = "success" /\ ~(breaker.half_open_successes + 1 < HalfOpenMaxCalls)
      <3>1. breaker'.state = "closed" /\ breaker'.half_open_successes = 0
        BY <1>1, <1>2, <1>4, <2>5 DEF Report, RecordSuccess, Breaker, BreakerWith
      <3>2. Cardinality(probes') = 0 /\ openFor' = openFor
        BY <1>1, <1>2, <1>3, <1>4, <3>1 DEF Observe
      <3>3. breaker.half_open_successes + 1 = HalfOpenMaxCalls
        BY <2>1, <2>5, BreakerAssumption
      <3>4. QED BY <1>4, <3>1, <3>2, <3>3 DEF Gate!Close
    <2>6. QED BY <1>2, <2>2, <2>3, <2>4, <2>5
  <1>5. CASE breaker.state # "half_open"
    <2>1. /\ probes = {} /\ breaker.half_open_successes = 0
      BY <1>5 DEF IInv, CleanOutsidePeriod
    <2>2. /\ breaker'.state # "half_open" /\ breaker'.half_open_successes = 0
          /\ breaker.state = "open" => breaker'.state = "open"
          /\ breaker'.state \in {"open", "closed"}
      BY <1>1, <1>2, <1>5, <2>1, BreakerAssumption
      DEF Report, RecordSuccess, RecordFailure, OneMore, Breaker, CircuitState, BreakerWith
    <2>3. probes' = {}
      BY <1>1, <2>2 DEF Observe
    <2>4. CASE breaker.state = "closed" /\ breaker'.state = "open"
      BY <1>2, <1>3, <2>2, <2>3, <2>4 DEF Gate!Shut
    <2>5. CASE breaker'.state = breaker.state
      BY <1>2, <2>1, <2>2, <2>3, <2>5 DEF GateView, GateState
    <2>6. QED BY <1>2, <1>5, <2>2, <2>4, <2>5 DEF Breaker, CircuitState
  <1>6. QED BY <1>4, <1>5

\* Time passes for the gate too, until its pause is over.
LEMMA TickGate ==
    ASSUME IInv, Tick
    PROVE  Gate!Elapse \/ UNCHANGED GateView
  <1>1. /\ breaker \in Breaker /\ breaker' = Age(breaker) /\ probes' = probes
        /\ openFor' = IF openFor < RecoveryTimeout THEN openFor + 1 ELSE openFor
    BY DEF IInv, TypeOK, Tick
  <1>2. /\ breaker'.state = breaker.state
        /\ breaker'.half_open_successes = breaker.half_open_successes
    BY <1>1 DEF Age, Breaker
  <1>3. QED BY <1>1, <1>2 DEF Gate!Elapse, GateView, GateState

\* The breaker with its callers, for any number of them and any settings, is a
\* gate: what it shows to the outside moves only as BreakerGate allows.
THEOREM BreakerImplementsGate == Spec => ImplementsGate
  <1>1. Init => Gate!Init
    <2>1. Init => /\ breaker.state = "closed" /\ breaker.half_open_successes = 0
                  /\ Cardinality(probes) = 0 /\ openFor = 0
      BY FS_EmptySet DEF Init, NewBreaker, BreakerWith
    <2>2. QED BY <2>1 DEF Gate!Init
  <1>2. ASSUME IInv, [Next]_vars PROVE [Gate!Next]_(Gate!gateVars)
    <2>1. Gate!gateVars = GateView /\ Gate!gateVars' = GateView'
      BY DEF Gate!gateVars, GateView, GateState
    <2>2. CASE Tick BY <1>2, <2>1, <2>2, TickGate DEF Gate!Next
    <2>3. CASE Heal BY <2>3 DEF Heal, Gate!gateVars
    <2>4. ASSUME NEW t \in Callers, Admit(t) PROVE [Gate!Next]_(Gate!gateVars)
      BY <1>2, <2>1, <2>4, AdmitGate DEF Gate!Next
    <2>5. ASSUME NEW t \in Callers, Deny(t) PROVE [Gate!Next]_(Gate!gateVars)
      BY <2>5 DEF Deny, vars, Gate!gateVars
    <2>6. ASSUME NEW t \in Callers, Finish(t) PROVE [Gate!Next]_(Gate!gateVars)
      BY <1>2, <2>1, <2>6, FinishGate DEF Gate!Next
    <2>7. CASE UNCHANGED vars BY <2>7 DEF vars, Gate!gateVars
    <2>8. QED BY <1>2, <2>2, <2>3, <2>4, <2>5, <2>6, <2>7 DEF Next
  <1>3. QED BY Inductive, <1>1, <1>2, PTL DEF Spec, Gate!Spec, ImplementsGate
=============================================================================

------------------------- MODULE ToolGateway_proofs -------------------------
(***************************************************************************)
(* Whose failures a breaker of the gateway answers to, for any tools,      *)
(* threads and thresholds.                                                 *)
(*                                                                         *)
(* A breaker that never had a failure reported stays closed, so the        *)
(* argument follows a failure from the tool that has it to the breaker     *)
(* that hears of it: through the result a call carries between the two.    *)
(*                                                                         *)
(* The rate limiter that every call passes first is proved about below, in *)
(* the units and with the clock of RateLimiter.                            *)
(***************************************************************************)
EXTENDS ToolGateway, RateLimiter, TLAPS

\* A breaker as its methods leave it: the successes of a half-open period are
\* fewer than it needs, and outside of one there are none.
Sound(b) ==
    /\ b \in Breaker
    /\ b.state = "half_open" => b.half_open_successes < HalfOpenMaxCalls
    /\ b.state # "half_open" => b.half_open_successes = 0

\* A result that a breaker will be told of as a failure.
Failing(result) == result \in {"infra_error", "exception"}

\* A call that carries a failure carries one its tool had.
CarriedFailures == \A t \in Callers : Failing(calls[t].result) => calls[t].tool \in failed

\* A breaker that is not closed stands for a tool that failed.
OnlyFailedTrip ==
    \A n \in Names : breakers[n].state # "closed" => \E tool \in failed : n \in {tool, OuterName(tool)}

IInv ==
    /\ TypeOK
    /\ \A n \in Names : Sound(breakers[n])
    /\ CarriedFailures
    /\ OnlyFailedTrip

-----------------------------------------------------------------------------
(* The methods of a breaker. *)

\* What can_execute leaves behind: sound, and closed if it was closed.
LEMMA ReserveKeeps ==
    ASSUME NEW b, Sound(b), CanExecute(b)
    PROVE  Sound(Reserve(b)) /\ (b.state = "closed" => Reserve(b).state = "closed")
  BY BreakerAssumption
  DEF Sound, CanExecute, Reserve, Recovered, Breaker, CircuitState, BreakerWith

\* What a report leaves behind: sound, and closed unless it reports a failure.
LEMMA ReportKeeps ==
    ASSUME NEW b, Sound(b), NEW outcome
    PROVE  /\ Sound(Report(b, outcome))
           /\ b.state = "closed" /\ outcome # "failure" => Report(b, outcome).state = "closed"
  <1> USE BreakerAssumption DEF Sound, Breaker, CircuitState, BreakerWith
  <1>1. /\ Sound(RecordSuccess(b))
        /\ b.state = "closed" => RecordSuccess(b).state = "closed"
    BY DEF RecordSuccess
  <1>2. Sound(RecordFailure(b))
    BY DEF RecordFailure, OneMore
  <1>3. QED
    <2> HIDE DEF Sound
    <2>1. CASE outcome = "success" BY <1>1, <2>1 DEF Report
    <2>2. CASE outcome = "failure" BY <1>2, <2>2 DEF Report
    <2>3. CASE outcome \notin {"success", "failure"}
      <3>1. Report(b, outcome) = b BY <2>3 DEF Report
      <3>2. QED BY <2>3, <3>1
    <2>4. QED BY <2>1, <2>2, <2>3

\* Time alone neither opens nor closes a breaker.
LEMMA AgeKeeps ==
    ASSUME NEW b, Sound(b)
    PROVE  Sound(Age(b)) /\ Age(b).state = b.state
  BY BreakerAssumption DEF Sound, Age, Breaker

\* A closed breaker lets calls through.
LEMMA ClosedAdmits == ASSUME NEW b, b.state = "closed" PROVE CanExecute(b)
  BY DEF CanExecute

\* Both wrappers report a failure only for a result that is one, and
\* execute_tool's answer to an exception stays one.
LEMMA Reports ==
    ASSUME NEW result \in Results
    PROVE  /\ AuditReport(result) = "failure" => Failing(result)
           /\ ExecuteReport(result) = "failure" => Failing(result)
           /\ ExecuteResult(result) \in Results
           /\ Failing(ExecuteResult(result)) => Failing(result)
  BY DEF AuditReport, ExecuteReport, ExecuteResult, Failing, Results, IsInfrastructureError

\* The breaker of _audit_wrap is one of the server's, and so is the tool's own.
LEMMA OuterNames ==
    ASSUME NEW tool \in Tools
    PROVE  OuterName(tool) \in Names /\ tool \in Names
  BY DEF OuterName, Names

-----------------------------------------------------------------------------
(* The invariant, step by step. *)

\* A change to one breaker, by one of its methods, keeps what is said of the
\* breakers if a failure is reported only of a tool that failed, to a breaker
\* that stands for it.
LEMMA OneBreaker ==
    ASSUME IInv, NEW n \in Names, NEW b, Sound(b),
           breakers' = [breakers EXCEPT ![n] = b], failed' = failed, dynamic' = dynamic,
           NEW tool \in Tools, n \in {tool, OuterName(tool)},
           tool \notin failed /\ breakers[n].state = "closed" => b.state = "closed"
    PROVE  /\ breakers' \in [Names -> Breaker]
           /\ \A m \in Names : Sound(breakers'[m])
           /\ OnlyFailedTrip'
  <1>1. breakers \in [Names -> Breaker] /\ b \in Breaker
    BY DEF IInv, TypeOK, Sound
  <1>2. \A m \in Names : breakers'[m] = IF m = n THEN b ELSE breakers[m]
    BY <1>1
  <1>3. breakers' \in [Names -> Breaker]
    BY <1>1
  <1>4. \A m \in Names : Sound(breakers'[m])
    BY <1>2 DEF IInv
  <1>5. ASSUME NEW m \in Names, breakers'[m].state # "closed"
        PROVE  \E other \in failed : m \in {other, OuterName(other)}
    <2>1. CASE m = n /\ tool \in failed
      BY <2>1
    <2>2. CASE m # n \/ tool \notin failed
      BY <1>2, <1>5, <2>2 DEF IInv, OnlyFailedTrip
    <2>3. QED BY <2>1, <2>2
  <1>6. OnlyFailedTrip'
    BY <1>5 DEF OnlyFailedTrip, OuterName
  <1>7. QED BY <1>3, <1>4, <1>6

\* The new breakers of a server satisfy the inductive invariant.
LEMMA InitIInv == Init => IInv
  <1> SUFFICES ASSUME Init PROVE IInv
    OBVIOUS
  <1>1. Sound(NewBreaker) /\ NewBreaker.state = "closed"
    BY BreakerAssumption DEF Sound, NewBreaker, Breaker, CircuitState, BreakerWith
  <1>2. \A n \in Names : breakers[n] = NewBreaker
    BY DEF Init
  <1>3. NoCall \in [stage : Stages, tool : Tools, result : Results]
    <2>1. (CHOOSE tool \in Tools : TRUE) \in Tools BY GatewayAssumption
    <2>2. QED BY <2>1 DEF NoCall, Stages, Results
  <1>4. breakers \in [Names -> Breaker]
    BY <1>1 DEF Init, Sound
  <1>5. \A t \in Callers : calls[t].result = "none"
    BY DEF Init, NoCall
  <1>6. QED
    BY <1>1, <1>2, <1>3, <1>4, <1>5, GatewayAssumption
    DEF Init, IInv, TypeOK, CarriedFailures, Failing, OnlyFailedTrip, OuterName, Names
\* A call that moves on with a result that is no failure, or with one its tool
\* had, keeps what is said of the calls.
LEMMA OneCall ==
    ASSUME IInv, NEW t \in Callers,
           NEW call \in [stage : Stages, tool : Tools, result : Results],
           calls' = [calls EXCEPT ![t] = call], failed \subseteq failed',
           Failing(call.result) => call.tool \in failed'
    PROVE  /\ calls' \in [Callers -> [stage : Stages, tool : Tools, result : Results]]
           /\ CarriedFailures'
  <1>1. calls \in [Callers -> [stage : Stages, tool : Tools, result : Results]]
    BY DEF IInv, TypeOK
  <1>2. \A u \in Callers : calls'[u] = IF u = t THEN call ELSE calls[u]
    BY <1>1
  <1>3. QED BY <1>1, <1>2 DEF IInv, CarriedFailures

\* What a call is about, and what an idle thread has.
LEMMA CallOf ==
    ASSUME IInv, NEW t \in Callers
    PROVE  /\ calls[t].tool \in Tools /\ calls[t].result \in Results
           /\ NoCall \in [stage : Stages, tool : Tools, result : Results]
           /\ NoCall.result = "none"
  <1>1. calls[t] \in [stage : Stages, tool : Tools, result : Results]
    BY DEF IInv, TypeOK
  <1>2. (CHOOSE tool \in Tools : TRUE) \in Tools
    BY GatewayAssumption
  <1>3. NoCall \in [stage : Stages, tool : Tools, result : Results] /\ NoCall.result = "none"
    BY <1>2 DEF NoCall, Stages, Results
  <1>4. QED BY <1>1, <1>3

\* The same for a call that keeps its tool and goes to another stage.
LEMMA CallMoves ==
    ASSUME IInv, NEW t \in Callers, NEW stage \in Stages, NEW result \in Results,
           \/ calls' = [calls EXCEPT ![t].stage = stage, ![t].result = result]
           \/ calls' = [calls EXCEPT ![t].stage = stage] /\ result = calls[t].result,
           failed \subseteq failed', Failing(result) => calls[t].tool \in failed'
    PROVE  /\ calls' \in [Callers -> [stage : Stages, tool : Tools, result : Results]]
           /\ CarriedFailures'
  <1>1. calls \in [Callers -> [stage : Stages, tool : Tools, result : Results]]
    BY DEF IInv, TypeOK
  <1>2. calls' \in [Callers -> [stage : Stages, tool : Tools, result : Results]]
    BY <1>1
  <1>3. calls'[t].tool = calls[t].tool /\ calls'[t].result = result
    BY <1>1
  <1>4. \A u \in Callers \ {t} : calls'[u] = calls[u]
    BY <1>1
  <1>5. CarriedFailures'
    BY <1>3, <1>4 DEF IInv, CarriedFailures
  <1>6. QED BY <1>2, <1>5

\* Clients call, and are refused by the limiter, without touching a breaker.
LEMMA CallIInv == ASSUME IInv, NEW t \in Callers, NEW tool \in Tools, Call(t, tool) PROVE IInv'
  <1>1. [stage |-> "outer", tool |-> tool, result |-> "none"]
           \in [stage : Stages, tool : Tools, result : Results]
    BY DEF Stages, Results
  <1>2. /\ calls' \in [Callers -> [stage : Stages, tool : Tools, result : Results]]
        /\ CarriedFailures'
    BY <1>1, OneCall DEF Call, Failing
  <1>3. grants' \in 0..MaxGrants
    BY GatewayAssumption DEF Call, IInv, TypeOK
  <1>4. QED BY <1>2, <1>3 DEF Call, IInv, TypeOK, OnlyFailedTrip, OuterName

\* can_execute of _audit_wrap's breaker reserves a slot or ends the call.
LEMMA EnterOuterIInv == ASSUME IInv, NEW t \in Callers, EnterOuter(t) PROVE IInv'
  <1> DEFINE name == OuterName(calls[t].tool)
             stage == IF dynamic THEN "inner" ELSE "run"
  <1>1. /\ name \in Names /\ name \in {calls[t].tool, OuterName(calls[t].tool)}
        /\ calls[t].tool \in Tools /\ calls[t].result \in Results /\ Sound(breakers[name])
        /\ Failing(calls[t].result) => calls[t].tool \in failed
    BY CallOf, OuterNames DEF IInv, CarriedFailures
  <1>2. stage \in Stages
    BY DEF Stages
  <1>3. UNCHANGED <<dynamic, grants, failed>>
    BY DEF EnterOuter
  <1>4. CASE CanExecute(breakers[name]) /\ breakers' = [breakers EXCEPT ![name] = Reserve(@)]
             /\ GoTo(t, stage)
    <2>1. /\ breakers' \in [Names -> Breaker]
          /\ \A n \in Names : Sound(breakers'[n])
          /\ OnlyFailedTrip'
      BY <1>1, <1>3, <1>4, ReserveKeeps, OneBreaker
    <2>2. /\ calls' \in [Callers -> [stage : Stages, tool : Tools, result : Results]]
          /\ CarriedFailures'
      BY <1>1, <1>2, <1>3, <1>4, CallMoves DEF GoTo
    <2>3. QED BY <1>3, <2>1, <2>2 DEF IInv, TypeOK
  <1>5. CASE Return(t) /\ UNCHANGED breakers
    <2>1. /\ calls' \in [Callers -> [stage : Stages, tool : Tools, result : Results]]
          /\ CarriedFailures'
      BY <1>3, <1>5, CallOf, OneCall DEF Return, Failing
    <2>2. QED BY <1>3, <1>5, <2>1 DEF IInv, TypeOK, OnlyFailedTrip, OuterName
  <1>6. QED BY <1>4, <1>5 DEF EnterOuter

\* can_execute of the tool's own breaker reserves a slot, or the call goes back
\* with an answer that is no failure.
LEMMA EnterInnerIInv == ASSUME IInv, NEW t \in Callers, EnterInner(t) PROVE IInv'
  <1> DEFINE tool == calls[t].tool
  <1>1. /\ tool \in Tools /\ tool \in Names /\ calls[t].result \in Results
        /\ Sound(breakers[tool]) /\ (Failing(calls[t].result) => tool \in failed)
    BY CallOf, OuterNames DEF IInv, CarriedFailures
  <1>2. UNCHANGED <<dynamic, grants, failed>>
    BY DEF EnterInner
  <1>3. CASE /\ CanExecute(breakers[tool]) /\ GoTo(t, "run")
             /\ breakers' = [breakers EXCEPT ![tool] = Reserve(@)]
    <2>1. /\ breakers' \in [Names -> Breaker]
          /\ \A n \in Names : Sound(breakers'[n])
          /\ OnlyFailedTrip'
      BY <1>1, <1>2, <1>3, ReserveKeeps, OneBreaker
    <2>2. "run" \in Stages
      BY DEF Stages
    <2>3. /\ calls' \in [Callers -> [stage : Stages, tool : Tools, result : Results]]
          /\ CarriedFailures'
      BY <1>1, <1>2, <1>3, <2>2, CallMoves DEF GoTo
    <2>4. QED BY <1>2, <2>1, <2>3 DEF IInv, TypeOK
  <1>4. CASE /\ UNCHANGED breakers
             /\ calls' = [calls EXCEPT ![t].stage = "report_outer", ![t].result = "user_error"]
    <2>1. "report_outer" \in Stages /\ "user_error" \in Results /\ ~Failing("user_error")
      BY DEF Stages, Results, Failing
    <2>2. /\ calls' \in [Callers -> [stage : Stages, tool : Tools, result : Results]]
          /\ CarriedFailures'
      BY <1>2, <1>4, <2>1, CallMoves
    <2>3. QED BY <1>2, <1>4, <2>2 DEF IInv, TypeOK, OnlyFailedTrip, OuterName
  <1>5. QED BY <1>3, <1>4 DEF EnterInner

\* A tool that fails is noted, and the call carries its failure.
LEMMA RunIInv == ASSUME IInv, NEW t \in Callers, Run(t) PROVE IInv'
  <1> DEFINE stage == IF dynamic THEN "report_inner" ELSE "report_outer"
  <1>1. PICK result \in Results \ {"none"} :
           /\ calls' = [calls EXCEPT ![t].stage = stage, ![t].result = result]
           /\ failed' = IF result \in {"infra_error", "exception"}
                        THEN failed \cup {calls[t].tool} ELSE failed
    BY DEF Run
  <1>2. /\ stage \in Stages /\ failed \subseteq failed' /\ failed' \subseteq Tools
        /\ Failing(result) => calls[t].tool \in failed'
    BY <1>1, CallOf DEF Stages, Failing, IInv, TypeOK
  <1>3. UNCHANGED <<dynamic, breakers, grants>>
    BY DEF Run
  <1>4. /\ calls' \in [Callers -> [stage : Stages, tool : Tools, result : Results]]
        /\ CarriedFailures'
    BY <1>1, <1>2, CallMoves
  <1>5. OnlyFailedTrip'
    BY <1>2, <1>3 DEF IInv, OnlyFailedTrip, OuterName
  <1>6. QED
    BY <1>2, <1>3, <1>4, <1>5 DEF IInv, TypeOK

\* execute_tool tells the tool's own breaker, and answers.
LEMMA ReportInnerIInv == ASSUME IInv, NEW t \in Callers, ReportInner(t) PROVE IInv'
  <1> DEFINE tool == calls[t].tool
             outcome == ExecuteReport(calls[t].result)
             answer == ExecuteResult(calls[t].result)
  <1>1. /\ tool \in Tools /\ tool \in Names /\ Sound(breakers[tool])
        /\ Failing(calls[t].result) => tool \in failed
    BY CallOf, OuterNames DEF IInv, CarriedFailures
  <1>2. /\ outcome = "failure" => Failing(calls[t].result)
        /\ answer \in Results /\ (Failing(answer) => Failing(calls[t].result))
    BY CallOf, Reports
  <1>3. /\ breakers' = [breakers EXCEPT ![tool] = Report(@, outcome)]
        /\ calls' = [calls EXCEPT ![t].stage = "report_outer", ![t].result = answer]
        /\ UNCHANGED <<dynamic, grants, failed>>
    BY DEF ReportInner
  <1> HIDE DEF outcome, answer
  <1>4. /\ breakers' \in [Names -> Breaker]
        /\ \A n \in Names : Sound(breakers'[n])
        /\ OnlyFailedTrip'
    <2>1. /\ Sound(Report(breakers[tool], outcome))
          /\ tool \notin failed /\ breakers[tool].state = "closed"
                => Report(breakers[tool], outcome).state = "closed"
      BY <1>1, <1>2, ReportKeeps
    <2>2. /\ breakers' = [breakers EXCEPT ![tool] = Report(breakers[tool], outcome)]
          /\ failed' = failed /\ dynamic' = dynamic
      BY <1>3
    <2>3. QED BY <1>1, <2>1, <2>2, OneBreaker
  <1>5. "report_outer" \in Stages
    BY DEF Stages
  <1>6. /\ calls' \in [Callers -> [stage : Stages, tool : Tools, result : Results]]
        /\ CarriedFailures'
    BY <1>1, <1>2, <1>3, <1>5, CallMoves
  <1>7. QED BY <1>3, <1>4, <1>6 DEF IInv, TypeOK

\* _audit_wrap tells its breaker, and the call is over.
LEMMA ReportOuterIInv == ASSUME IInv, NEW t \in Callers, ReportOuter(t) PROVE IInv'
  <1> DEFINE name == OuterName(calls[t].tool)
             outcome == AuditReport(calls[t].result)
  <1>1. /\ name \in Names /\ name \in {calls[t].tool, OuterName(calls[t].tool)}
        /\ calls[t].tool \in Tools /\ Sound(breakers[name])
        /\ Failing(calls[t].result) => calls[t].tool \in failed
    BY CallOf, OuterNames DEF IInv, CarriedFailures
  <1>2. outcome = "failure" => Failing(calls[t].result)
    BY CallOf, Reports
  <1>3. /\ breakers' = [breakers EXCEPT ![name] = Report(@, outcome)]
        /\ calls' = [calls EXCEPT ![t] = NoCall]
        /\ UNCHANGED <<dynamic, grants, failed>>
    BY DEF ReportOuter, Return
  <1> HIDE DEF outcome
  <1> HIDE DEF name
  <1>4. /\ breakers' \in [Names -> Breaker]
        /\ \A n \in Names : Sound(breakers'[n])
        /\ OnlyFailedTrip'
    <2>1. /\ Sound(Report(breakers[name], outcome))
          /\ calls[t].tool \notin failed /\ breakers[name].state = "closed"
                => Report(breakers[name], outcome).state = "closed"
      BY <1>1, <1>2, ReportKeeps
    <2>2. QED BY <1>1, <1>3, <2>1, OneBreaker
  <1>5. /\ calls' \in [Callers -> [stage : Stages, tool : Tools, result : Results]]
        /\ CarriedFailures'
    BY <1>3, CallOf, OneCall DEF Failing
  <1>6. QED BY <1>3, <1>4, <1>5 DEF IInv, TypeOK

\* Time passes for every breaker at once.
LEMMA TickIInv == ASSUME IInv, Tick PROVE IInv'
  <1>1. \A n \in Names : Sound(breakers[n]) /\ breakers'[n] = Age(breakers[n])
    BY DEF Tick, IInv
  <1>2. \A n \in Names : Sound(breakers'[n]) /\ breakers'[n].state = breakers[n].state
    BY <1>1, AgeKeeps
  <1>3. breakers' \in [Names -> Breaker]
    BY <1>2 DEF Tick, Sound
  <1>4. grants' \in 0..MaxGrants
    BY GatewayAssumption DEF Tick, IInv, TypeOK
  <1>5. UNCHANGED <<dynamic, calls, failed>>
    BY DEF Tick
  <1>6. OnlyFailedTrip'
    BY <1>2, <1>5 DEF IInv, OnlyFailedTrip, OuterName, Names
  <1>7. QED BY <1>2, <1>3, <1>4, <1>5, <1>6 DEF IInv, TypeOK, CarriedFailures

\* Every step of every interleaving keeps the invariant.
LEMMA NextIInv == IInv /\ [Next]_vars => IInv'
  <1> SUFFICES ASSUME IInv, [Next]_vars PROVE IInv'
    OBVIOUS
  <1>1. ASSUME NEW t \in Callers, Step(t) PROVE IInv'
    BY <1>1, EnterOuterIInv, EnterInnerIInv, RunIInv, ReportInnerIInv, ReportOuterIInv
    DEF Step
  <1>2. ASSUME NEW t \in Callers, NEW tool \in Tools, Call(t, tool) PROVE IInv'
    BY <1>2, CallIInv
  <1>3. CASE Tick
    BY <1>3, TickIInv
  <1>4. CASE UNCHANGED vars
    BY <1>4 DEF vars, IInv, TypeOK, CarriedFailures, OnlyFailedTrip, OuterName
  <1>5. QED BY <1>1, <1>2, <1>3, <1>4 DEF Next, RateLimited

\* The invariant holds for any tools, threads, thresholds and modes.
THEOREM Inductive == Spec => []IInv
  BY InitIInv, NextIInv, PTL DEF Spec

\* Type correctness: breakers, grants and calls keep to their ranges.
THEOREM TypeCorrect == Spec => []TypeOK
  <1>1. IInv => TypeOK BY DEF IInv
  <1>2. QED BY Inductive, <1>1, PTL

\* A breaker refuses only after a failure that counts, of a tool it stands for,
\* in every mode and whichever threads report in which order.
THEOREM BreakersIsolated == Spec => []ToolBreakerIsolation
  <1>1. ASSUME IInv PROVE ToolBreakerIsolation
    BY <1>1, ClosedAdmits DEF IInv, OnlyFailedTrip, ToolBreakerIsolation
  <1>2. QED BY Inductive, <1>1, PTL

\* An open breaker is opened up by can_execute after the timeout, and by nothing
\* else: reports and time leave it open.
LEMMA OpenStays ==
    ASSUME NEW b, Sound(b), b.state = "open"
    PROVE  /\ CanExecute(b) => /\ b.elapsed >= RecoveryTimeout
                               /\ Reserve(b).state = "half_open"
                               /\ Reserve(b).half_open_calls = 1
           /\ \A outcome : Report(b, outcome).state = "open"
           /\ Age(b).state = "open"
  <1> USE DEF Sound, Breaker, BreakerWith
  <1>1. CanExecute(b) => /\ b.elapsed >= RecoveryTimeout
                         /\ Reserve(b).state = "half_open"
                         /\ Reserve(b).half_open_calls = 1
    BY DEF CanExecute, Reserve, Recovered
  <1>2. RecordSuccess(b).state = "open" /\ RecordFailure(b).state = "open"
    BY DEF RecordSuccess, RecordFailure, OneMore
  <1>3. ASSUME NEW outcome PROVE Report(b, outcome).state = "open"
    <2>1. CASE outcome = "success" BY <1>2, <2>1 DEF Report
    <2>2. CASE outcome = "failure" BY <1>2, <2>2 DEF Report
    <2>3. CASE outcome \notin {"success", "failure"} BY <2>3 DEF Report
    <2>4. QED BY <2>1, <2>2, <2>3
  <1>4. Age(b).state = "open"
    BY DEF Age
  <1>5. QED BY <1>1, <1>3, <1>4

\* No report, however late and from whichever thread, shortens the pause of any
\* breaker of the server, and none closes it without probing first.
THEOREM PausesLast == Spec => BreakersPause
  <1>1. ASSUME IInv, [Next]_vars, NEW n \in Names PROVE OpensForProbe(n)
    <2> SUFFICES ASSUME breakers[n].state = "open", breakers'[n].state # "open"
                 PROVE  OpensForProbe(n)
      BY DEF OpensForProbe
    <2>1. breakers \in [Names -> Breaker] /\ Sound(breakers[n])
      BY <1>1 DEF IInv, TypeOK
    <2>2. ASSUME NEW m, NEW b, breakers' = [breakers EXCEPT ![m] = b] PROVE m = n /\ breakers'[n] = b
      BY <1>1, <2>1, <2>2
    <2>3. ASSUME NEW t \in Callers, EnterOuter(t) PROVE OpensForProbe(n)
      <3>1. /\ calls[t].stage = "outer" /\ CanExecute(breakers[OuterName(calls[t].tool)])
            /\ breakers' = [breakers EXCEPT ![OuterName(calls[t].tool)] = Reserve(@)]
        BY <1>1, <2>3 DEF EnterOuter
      <3>2. OuterName(calls[t].tool) = n /\ breakers'[n] = Reserve(breakers[n])
        BY <2>2, <3>1
      <3>3. QED BY <2>1, <3>1, <3>2, OpenStays DEF OpensForProbe
    <2>4. ASSUME NEW t \in Callers, EnterInner(t) PROVE OpensForProbe(n)
      <3>1. /\ calls[t].stage = "inner" /\ CanExecute(breakers[calls[t].tool])
            /\ breakers' = [breakers EXCEPT ![calls[t].tool] = Reserve(@)]
        BY <1>1, <2>4 DEF EnterInner
      <3>2. calls[t].tool = n /\ breakers'[n] = Reserve(breakers[n])
        BY <2>2, <3>1
      <3>3. QED BY <2>1, <3>1, <3>2, OpenStays DEF OpensForProbe
    <2>5. ASSUME NEW t \in Callers, NEW name, NEW outcome,
                 breakers' = [breakers EXCEPT ![name] = Report(@, outcome)]
          PROVE  FALSE
      <3>1. breakers'[n] = Report(breakers[n], outcome)
        BY <2>2, <2>5
      <3>2. QED BY <1>1, <2>1, <3>1, OpenStays
    <2>6. ASSUME NEW t \in Callers, ReportInner(t) \/ ReportOuter(t) PROVE FALSE
      BY <2>5, <2>6 DEF ReportInner, ReportOuter
    <2>7. CASE Tick
      <3>1. breakers'[n] = Age(breakers[n])
        BY <2>7 DEF Tick
      <3>2. QED BY <1>1, <2>1, <3>1, OpenStays
    <2>8. ASSUME UNCHANGED breakers PROVE FALSE
      BY <1>1, <2>8
    <2>9. ASSUME NEW t \in Callers, Step(t) PROVE OpensForProbe(n)
      <3>1. CASE Run(t) BY <2>8, <3>1 DEF Run
      <3>2. QED BY <2>3, <2>4, <2>6, <2>9, <3>1 DEF Step
    <2>10. ASSUME NEW t \in Callers, RateLimited(t) \/ \E tool \in Tools : Call(t, tool)
           PROVE  FALSE
      BY <2>8, <2>10 DEF RateLimited, Call, vars
    <2>11. CASE UNCHANGED vars
      BY <2>8, <2>11 DEF vars
    <2>12. QED BY <1>1, <2>7, <2>9, <2>10, <2>11 DEF Next
  <1>2. IInv /\ [Next]_vars => \A n \in Names : OpensForProbe(n)
    BY <1>1
  <1>3. QED BY Inductive, <1>2, PTL DEF Spec, BreakersPause

-----------------------------------------------------------------------------
(* The token bucket in front of the gateway, in units and with a clock that *)
(* may be set back: for every rate, cost and capacity, and for every bound  *)
(* of the model.  The refill is lazy, so the invariants speak of the        *)
(* balance acquire() would find now and not of _tokens.                     *)

\* What was granted and what is still to be had never exceed a bucket and the
\* refill of the window.
Balance == used + Available <= Capacity + allowance

\* From a full bucket, what was not granted is still there.
FullStart == burst => Available >= Capacity - used

\* WindowBound is part of the invariant: set-backs can make the balance
\* negative, and then Balance alone does not bound what was granted.
LimiterInv ==
    /\ LimiterTypeOK
    /\ Balance
    /\ FullStart
    /\ WindowBound

\* The full bucket the limiter starts with satisfies the inductive invariant.
LEMMA InitLimiter == LimiterInit => LimiterInv
  BY LimiterAssumption
  DEF LimiterInit, LimiterInv, LimiterTypeOK, Balance, FullStart, WindowBound, Available

\* Every acquire(), and every move of the clock, keeps it.
LEMMA NextLimiter == LimiterInv /\ [LimiterNext]_limiterVars => LimiterInv'
  <1> SUFFICES ASSUME LimiterInv, [LimiterNext]_limiterVars PROVE LimiterInv'
    OBVIOUS
  <1> USE LimiterAssumption
      DEF LimiterInv, LimiterTypeOK, Balance, FullStart, WindowBound, Available
  <1>1. CASE Grant BY <1>1 DEF Grant
  <1>2. CASE Refuse BY <1>2 DEF Refuse
  <1>3. CASE Elapse BY <1>3 DEF Elapse
  <1>4. CASE StepBack
    <2>1. /\ tokens' = tokens /\ accrued' = accrued - Rate /\ steps' \in 0..MaxSteps
          /\ used' = used /\ allowance' = allowance
      BY <1>4 DEF StepBack
    <2>2. ~burst' /\ burst' \in BOOLEAN
      BY <1>4 DEF StepBack
    <2>3. Balance' /\ WindowBound' /\ accrued' \in Int BY <2>1
    <2>4. QED BY <2>1, <2>2, <2>3
  <1>5. CASE Mark
    <2>1. /\ tokens' = tokens /\ accrued' = accrued /\ steps' = steps
          /\ used' = 0 /\ allowance' = 0
      BY <1>5 DEF Mark
    <2>2. burst' \in BOOLEAN
      BY <1>5, Zenon DEF Mark
    <2>3. burst' => Available = Capacity
      BY <1>5, Zenon DEF Mark
    <2>4. Balance' /\ WindowBound' BY <2>1
    <2>5. FullStart' BY <2>1, <2>3
    <2>6. QED BY <2>1, <2>2, <2>4, <2>5
  <1>6. CASE UNCHANGED limiterVars BY <1>6 DEF limiterVars
  <1>7. QED BY <1>1, <1>2, <1>3, <1>4, <1>5, <1>6 DEF LimiterNext

\* The invariant holds for every rate, cost and capacity.
THEOREM LimiterInductive == LimiterSpec => []LimiterInv
  BY InitLimiter, NextLimiter, PTL DEF LimiterSpec

\* Type correctness: the bucket never holds more than its capacity.
THEOREM LimiterTypeCorrect == LimiterSpec => []LimiterTypeOK
  <1>1. LimiterInv => LimiterTypeOK BY DEF LimiterInv
  <1>2. QED BY LimiterInductive, <1>1, PTL

\* The limiter's promise: no window of time sees more than a bucket plus the
\* refill of the window.
THEOREM WindowsBounded == LimiterSpec => []WindowBound
  <1>1. LimiterInv => WindowBound BY DEF LimiterInv
  <1>2. QED BY LimiterInductive, <1>1, PTL

\* A full bucket serves a burst up to its capacity.
THEOREM BurstsServed == LimiterSpec => []BurstServed
  <1>1. ASSUME LimiterInv PROVE BurstServed
    BY <1>1, LimiterAssumption
    DEF LimiterInv, LimiterTypeOK, FullStart, Available, BurstServed
  <1>2. QED BY LimiterInductive, <1>1, PTL
=============================================================================

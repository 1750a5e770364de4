---------------------------- MODULE ToolGateway ----------------------------
(***************************************************************************)
(* The path of a tool call through the server: _audit_wrap (rate limiter,  *)
(* then the breaker named after the wrapped function) around the tool, or, *)
(* in the progressive and semantic modes, around the meta-tool             *)
(* execute_tool, which looks the tool up in the registry and guards it     *)
(* with a second breaker, the tool's own.                                  *)
(*                                                                         *)
(* Every lock acquisition is a step of its own, so calls interleave        *)
(* between the limiter, the two breakers, the tool and the two reports.    *)
(***************************************************************************)
EXTENDS BreakerOps, FiniteSets

CONSTANTS Tools,        \* the tools clients call
          Registered,   \* those the server has registered
          ExecuteTool,  \* the name of the meta-tool's breaker
          Callers,      \* worker threads
          MaxGrants     \* calls the rate limiter holds

ASSUME GatewayAssumption ==
          /\ Tools # {} /\ Registered \subseteq Tools
          /\ ExecuteTool \notin Tools
          /\ MaxGrants \in Nat \ {0}

VARIABLES dynamic,    \* progressive or semantic mode, chosen at startup
          breakers,   \* _breakers: the breaker of each name
          grants,     \* whole calls the rate limiter would grant now
          calls       \* per thread: where its call is, which tool, what came of it

VARIABLE failed       \* observer: tools that ever ended in a failure that counts

vars == <<dynamic, breakers, grants, calls, failed>>

Names == Tools \cup {ExecuteTool}

Stages == {"idle", "outer", "inner", "run", "report_inner", "report_outer"}

\* What a tool call amounts to: a result without error; an error whose code is
\* not one of infrastructure; an infrastructure error code; an exception.  The
\* code says nothing of whose fault it was: a name that is taken is answered with
\* KUBERNETES_ERROR, a job that is missing or has failed with SDK_ERROR, and
\* arguments that do not fit the function raise in execute_tool.
Results == {"none", "ok", "user_error", "infra_error", "exception"}

\* An idle thread; which tool it called last does not matter any more.
NoCall == [stage |-> "idle", tool |-> CHOOSE tool \in Tools : TRUE, result |-> "none"]

TypeOK ==
    /\ dynamic \in BOOLEAN
    /\ breakers \in [Names -> Breaker]
    /\ grants \in 0..MaxGrants
    /\ calls \in [Callers -> [stage : Stages, tool : Tools, result : Results]]
    /\ failed \subseteq Tools

Init ==
    /\ dynamic \in BOOLEAN
    /\ breakers = [n \in Names |-> NewBreaker]
    /\ grants = MaxGrants
    /\ calls = [t \in Callers |-> NoCall]
    /\ failed = {}

-----------------------------------------------------------------------------
\* The breaker of _audit_wrap is named after the function it wraps.
OuterName(tool) == IF dynamic THEN ExecuteTool ELSE tool

IsInfrastructureError(result) == result = "infra_error"

\* What _audit_wrap reports to its breaker.
AuditReport(result) ==
    CASE result = "ok" -> "success"
      [] IsInfrastructureError(result) \/ result = "exception" -> "failure"
      [] OTHER -> "neutral"

\* What execute_tool reports to the tool's breaker: any result that is not an
\* infrastructure error is a success.
ExecuteReport(result) ==
    IF IsInfrastructureError(result) \/ result = "exception" THEN "failure" ELSE "success"

\* execute_tool answers an exception with an SDK_ERROR result.
ExecuteResult(result) == IF result = "exception" THEN "infra_error" ELSE result

-----------------------------------------------------------------------------
GoTo(t, stage) == calls' = [calls EXCEPT ![t].stage = stage]

Return(t) == calls' = [calls EXCEPT ![t] = NoCall]

\* A client calls a tool; the limiter grants a token or the call is over.  In
\* full mode FastMCP itself refuses a name that is not registered.
Call(t, tool) ==
    /\ calls[t].stage = "idle"
    /\ dynamic \/ tool \in Registered
    /\ grants > 0
    /\ grants' = grants - 1
    /\ calls' = [calls EXCEPT ![t] = [stage |-> "outer", tool |-> tool, result |-> "none"]]
    /\ UNCHANGED <<dynamic, breakers, failed>>

RateLimited(t) ==
    /\ calls[t].stage = "idle"
    /\ grants = 0
    /\ UNCHANGED vars

\* can_execute() of _audit_wrap's breaker.
EnterOuter(t) ==
    LET name == OuterName(calls[t].tool) IN
    /\ calls[t].stage = "outer"
    /\ \/ /\ CanExecute(breakers[name])
          /\ breakers' = [breakers EXCEPT ![name] = Reserve(@)]
          /\ GoTo(t, IF dynamic THEN "inner" ELSE "run")
       \/ /\ ~CanExecute(breakers[name])
          /\ Return(t)
          /\ UNCHANGED breakers
    /\ UNCHANGED <<dynamic, grants, failed>>

\* execute_tool's lookup and can_execute() of the tool's own breaker.  Neither
\* an unknown tool nor CIRCUIT_OPEN is an infrastructure error.
EnterInner(t) ==
    LET tool == calls[t].tool IN
    /\ calls[t].stage = "inner"
    /\ \/ /\ tool \in Registered /\ CanExecute(breakers[tool])
          /\ breakers' = [breakers EXCEPT ![tool] = Reserve(@)]
          /\ GoTo(t, "run")
       \/ /\ tool \notin Registered \/ ~CanExecute(breakers[tool])
          /\ calls' = [calls EXCEPT ![t].stage = "report_outer", ![t].result = "user_error"]
          /\ UNCHANGED breakers
    /\ UNCHANGED <<dynamic, grants, failed>>

\* The tool runs.  Neither a healthy cluster nor a broken one decides the result:
\* a mistake of the caller may count as a failure, and a preview needs no backend.
Run(t) ==
    /\ calls[t].stage = "run"
    /\ \E result \in Results \ {"none"} :
          /\ calls' = [calls EXCEPT ![t].stage = IF dynamic THEN "report_inner"
                                                            ELSE "report_outer",
                                    ![t].result = result]
          /\ failed' = IF result \in {"infra_error", "exception"}
                       THEN failed \cup {calls[t].tool} ELSE failed
    /\ UNCHANGED <<dynamic, breakers, grants>>

\* record_* by execute_tool.
ReportInner(t) ==
    /\ calls[t].stage = "report_inner"
    /\ breakers' = [breakers EXCEPT
                      ![calls[t].tool] = Report(@, ExecuteReport(calls[t].result))]
    /\ calls' = [calls EXCEPT ![t].stage = "report_outer", ![t].result = ExecuteResult(@)]
    /\ UNCHANGED <<dynamic, grants, failed>>

\* Mutation of ReportOuter: the report goes to the breaker of some other call's
\* tool, as with a breaker kept in a variable the threads share.
ReportOuterShared(t) ==
    /\ calls[t].stage = "report_outer"
    /\ \E u \in Callers :
          breakers' = [breakers EXCEPT
                         ![OuterName(calls[u].tool)] = Report(@, AuditReport(calls[t].result))]
    /\ Return(t)
    /\ UNCHANGED <<dynamic, grants, failed>>

\* record_* by _audit_wrap.
ReportOuter(t) ==
    /\ calls[t].stage = "report_outer"
    /\ breakers' = [breakers EXCEPT
                      ![OuterName(calls[t].tool)] = Report(@, AuditReport(calls[t].result))]
    /\ Return(t)
    /\ UNCHANGED <<dynamic, grants, failed>>

\* Time passes: every breaker ages and the limiter refills.
Tick ==
    /\ breakers' = [n \in Names |-> Age(breakers[n])]
    /\ grants' = IF grants < MaxGrants THEN grants + 1 ELSE grants
    /\ breakers' # breakers \/ grants' # grants
    /\ UNCHANGED <<dynamic, calls, failed>>

Step(t) == EnterOuter(t) \/ EnterInner(t) \/ Run(t) \/ ReportInner(t) \/ ReportOuter(t)

Next ==
    \/ \E t \in Callers : Step(t)
    \/ \E t \in Callers : RateLimited(t) \/ \E tool \in Tools : Call(t, tool)
    \/ Tick

Spec == Init /\ [][Next]_vars

-----------------------------------------------------------------------------
\* A breaker refuses calls only after a failure of a tool that it stands for: the
\* tool it is named after, or any tool that was run through the meta-tool, in the
\* modes that have one.  Errors that do not count, unknown tools, refusals and
\* rate limiting never make one refuse, whichever thread reports in which order.
\* Failures that count may be mistakes of the caller (see Results), although
\* the docstring of is_infrastructure_error says that user errors do not trip
\* the breaker (common/constants.py:44).
ToolBreakerIsolation ==
    \A n \in Names : CanExecute(breakers[n]) \/ \E tool \in failed : n \in {tool, OuterName(tool)}

\* If the breaker of name n opens up, it does so after recovery_timeout without a
\* failure, for one probe, of a call that stands before it.
OpensForProbe(n) ==
    breakers[n].state = "open" /\ breakers'[n].state # "open" =>
       /\ breakers[n].elapsed >= RecoveryTimeout
       /\ breakers'[n].state = "half_open" /\ breakers'[n].half_open_calls = 1
       /\ \E t \in Callers : \/ calls[t].stage = "outer" /\ n = OuterName(calls[t].tool)
                             \/ calls[t].stage = "inner" /\ n = calls[t].tool

\* Whatever other calls report, early or late, of this tool or another, an open
\* breaker lets nobody through for the whole pause, and then only to probe.
BreakersPause == [][\A n \in Names : OpensForProbe(n)]_vars
=============================================================================

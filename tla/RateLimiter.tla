---------------------------- MODULE RateLimiter ----------------------------
(***************************************************************************)
(* The token bucket of kubeflow_mcp/core/resilience.py, shared by every    *)
(* tool call of the server (_audit_wrap calls acquire() first).            *)
(*                                                                         *)
(* acquire() runs under the limiter's lock, so it is one step.  Tokens are *)
(* counted in units: a call costs Cost units and a unit of time refills    *)
(* Rate units, so rate/Cost is the configured calls per time and fractions *)
(* of a token are whole numbers of units.  Refill is lazy: accrued stands  *)
(* for (time.time() - _last_update) * rate, which the next acquire() adds. *)
(*                                                                         *)
(* time.time() is the wall clock, which may be set back (StepBack).        *)
(***************************************************************************)
EXTENDS Integers

CONSTANTS Rate,      \* units refilled per unit of time
          Cost,      \* units one call takes
          Capacity,  \* units the bucket holds

          \* Bounds of the model, not of the code:
          MaxIdle,   \* accrued units the clock is followed to
          MaxWindow, \* refill the observed window may cover
          MaxSteps   \* times the clock is set back (by one unit of time)

ASSUME LimiterAssumption ==
          /\ Rate \in Nat \ {0}
          /\ Cost \in Nat \ {0}
          /\ Capacity \in Nat /\ Cost <= Capacity
          /\ MaxIdle \in Nat /\ MaxWindow \in Nat /\ MaxSteps \in Nat

VARIABLES tokens,    \* _tokens
          accrued,   \* what acquire() would add now, before the cap
          steps      \* clock set-backs so far

\* Observers of a window of time that may begin at any moment.
VARIABLES used,      \* units granted in the window
          allowance, \* Rate times the time the clock advanced in the window
          burst      \* the window began with a full bucket, no set-back since

limiterVars == <<tokens, accrued, steps, used, allowance, burst>>

LimiterTypeOK ==
    /\ tokens \in Int /\ tokens <= Capacity
    /\ accrued \in Int
    /\ steps \in 0..MaxSteps
    /\ used \in Nat
    /\ allowance \in Nat
    /\ burst \in BOOLEAN

LimiterInit ==
    /\ tokens = Capacity
    /\ accrued = 0
    /\ steps = 0
    /\ used = 0
    /\ allowance = 0
    /\ burst = TRUE

\* Mutation of Available: the bucket has no bottom rim.
AvailableUncapped == tokens + accrued

\* The balance acquire() computes before it compares it with the cost.
Available == IF tokens + accrued < Capacity THEN tokens + accrued ELSE Capacity

\* Mutation of Grant: the call is charged twice.
GrantTwice ==
    /\ Available >= Cost
    /\ tokens' = Available - Cost - Cost
    /\ accrued' = 0
    /\ used' = used + Cost
    /\ UNCHANGED <<steps, allowance, burst>>

Grant ==
    /\ Available >= Cost
    /\ tokens' = Available - Cost
    /\ accrued' = 0
    /\ used' = used + Cost
    /\ UNCHANGED <<steps, allowance, burst>>

\* Mutation of Refuse: a refused call empties the bucket.
RefuseAndCharge ==
    /\ Available < Cost
    /\ tokens' = IF Available > 0 THEN 0 ELSE Available
    /\ accrued' = 0
    /\ UNCHANGED <<steps, used, allowance, burst>>

\* A refused call has updated the balance too.
Refuse ==
    /\ Available < Cost
    /\ tokens' = Available
    /\ accrued' = 0
    /\ UNCHANGED <<steps, used, allowance, burst>>

Elapse ==
    /\ accrued + Rate <= MaxIdle
    /\ allowance + Rate <= MaxWindow
    /\ accrued' = accrued + Rate
    /\ allowance' = allowance + Rate
    /\ UNCHANGED <<tokens, steps, used, burst>>

StepBack ==
    /\ steps < MaxSteps
    /\ steps' = steps + 1
    /\ accrued' = accrued - Rate
    /\ burst' = FALSE
    /\ UNCHANGED <<tokens, used, allowance>>

\* The observed window begins anew.
Mark ==
    /\ used' = 0
    /\ allowance' = 0
    /\ burst' = (Available = Capacity)
    /\ UNCHANGED <<tokens, accrued, steps>>

LimiterNext == Grant \/ Refuse \/ Elapse \/ StepBack \/ Mark

LimiterSpec == LimiterInit /\ [][LimiterNext]_limiterVars

\* Time passes (Mark only lets the observed window start again), and clients
\* keep calling.
FairLimiterSpec ==
    /\ LimiterSpec
    /\ WF_limiterVars(Elapse) /\ WF_limiterVars(Mark)
    /\ WF_limiterVars(Grant \/ Refuse)

-----------------------------------------------------------------------------
\* In every window of time the limiter lets through at most one bucket plus
\* what the rate refills in that window, wherever the window begins, and no
\* matter when the clock was set back: what protects the Kubernetes API.
WindowBound == used <= Capacity + allowance

\* From a full bucket, a burst of calls that together cost no more than the
\* capacity is served without a refusal as long as the clock is not set back.
BurstServed == burst /\ used + Cost <= Capacity => Available >= Cost

\* A limiter that refuses calls lets one through again, also after the clock
\* was set back and the balance went below zero.
KeepsServing == []<>(Available >= Cost)
=============================================================================

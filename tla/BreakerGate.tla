----------------------------- MODULE BreakerGate -----------------------------
(***************************************************************************)
(* What a circuit breaker promises, without threads, counters of failures  *)
(* or reports that come late: a gate that is closed (calls flow), paused   *)
(* (none do) or probing (a few do, to see whether the backend is back).    *)
(*                                                                         *)
(* A gate that shuts stays paused for the whole of Pause, then probes with *)
(* at most Slots calls at a time, and closes again only after Slots        *)
(* successes since it began to probe; it never goes from paused to closed. *)
(* CircuitBreaker is shown to implement it.                                *)
(***************************************************************************)
EXTENDS Integers

CONSTANTS Pause,  \* time for which a gate that shut lets nothing through
          Slots   \* calls let through while probing, and successes needed

VARIABLES gate,       \* "closed", "paused" or "probing"
          since,      \* time since the gate shut, as far as it matters
          probing,    \* calls let through in this probing that are under way
          successes   \* successes in this probing

gateVars == <<gate, since, probing, successes>>

Init ==
    /\ gate = "closed"
    /\ since = 0
    /\ probing = 0
    /\ successes = 0

\* Too many failures, or one while probing.
Shut ==
    /\ gate \in {"closed", "probing"}
    /\ gate' = "paused"
    /\ since' = 0
    /\ probing' = 0
    /\ successes' = 0

Elapse ==
    /\ since < Pause
    /\ since' = since + 1
    /\ UNCHANGED <<gate, probing, successes>>

\* The first probe after the pause.
Try ==
    /\ gate = "paused"
    /\ since >= Pause
    /\ gate' = "probing"
    /\ probing' = 1
    /\ UNCHANGED <<since, successes>>

Probe ==
    /\ gate = "probing"
    /\ probing < Slots
    /\ probing' = probing + 1
    /\ UNCHANGED <<gate, since, successes>>

\* A success, of a probe or of a call from before the pause.
Succeed ==
    /\ gate = "probing"
    /\ successes + 1 < Slots
    /\ successes' = successes + 1
    /\ probing' \in {probing, probing - 1} \cap Nat
    /\ UNCHANGED <<gate, since>>

\* A probe ends and tells nothing.
GiveUp ==
    /\ gate = "probing"
    /\ probing > 0
    /\ probing' = probing - 1
    /\ UNCHANGED <<gate, since, successes>>

\* The last success that was needed.
Close ==
    /\ gate = "probing"
    /\ successes + 1 = Slots
    /\ gate' = "closed"
    /\ probing' = 0
    /\ successes' = 0
    /\ UNCHANGED since

Next == Shut \/ Elapse \/ Try \/ Probe \/ Succeed \/ GiveUp \/ Close

Spec == Init /\ [][Next]_gateVars
=============================================================================

------------------------- MODULE MCCircuitBreaker -------------------------
\* Small instances of CircuitBreaker for TLC: one caller more than slots.
EXTENDS CircuitBreaker

CONSTANTS c1, c2, c3, c4

FourCallers == {c1, c2, c3, c4}

\* What _audit_wrap reports.
AuditOutcomes == {"success", "failure", "neutral"}
=============================================================================

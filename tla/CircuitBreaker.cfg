CONSTANTS
    c1 = c1
    c2 = c2
    c3 = c3
    c4 = c4
    Callers <- FourCallers
    Outcomes <- AuditOutcomes
    FailureThreshold = 2
    RecoveryTimeout = 3
    HalfOpenMaxCalls = 3
SPECIFICATION RetryingSpec
INVARIANTS
    TypeOK
    ProbeBound
    LockoutNeedsNeutral
PROPERTIES
    ImplementsGate
    RetriesUnlessSpent
    RecoversUnlessSpent

CONSTANTS
    fine_tune = fine_tune
    get_runtime = get_runtime
    unknown = unknown
    execute_tool = execute_tool
    t1 = t1
    t2 = t2
    Tools <- MCTools
    Registered <- MCRegistered
    ExecuteTool = execute_tool
    Callers <- MCCallers
    MaxGrants = 1
    FailureThreshold = 1
    RecoveryTimeout = 1
    HalfOpenMaxCalls = 2
SPECIFICATION Spec
INVARIANTS
    ToolBreakerIsolation
PROPERTIES
    BreakersPause

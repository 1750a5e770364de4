CONSTANTS
    Callers = {c1}
    Wanted <- MCWanted
    MaxPolls = 2
    MaxChanges = 4
SPECIFICATION Spec
INVARIANTS
    CountedNeedsCause
    StatusTold
    LogsOfStep

CONSTANTS
    a = a
    b = b
    c = c
    d = d
    Calls <- MCCalls
    Original = Original
    NoCall = NoCall
SPECIFICATION PatchSpec
CHECK_DEADLOCK FALSE
INVARIANTS
    PatchIsTemporary

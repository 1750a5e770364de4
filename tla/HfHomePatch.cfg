CONSTANTS
    a = a
    b = b
    c = c
    d = d
    Calls <- MCCalls
    Original = Original
    NoCall = NoCall
SPECIFICATION FairPatchSpec
\* Every call is made once, so the model comes to rest.
CHECK_DEADLOCK FALSE
INVARIANTS
    OwnWrapper
    HomeOnce
    RestoredUnlessOverlap
PROPERTIES
    AllEnd

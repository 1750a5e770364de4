CONSTANTS
    a = a
    b = b
    Calls <- MCCalls
    PollLimit = 2
SPECIFICATION FairPodSpec
INVARIANTS
    LeakNeedsFailure
    PackagesFromSuccess
    NotFoundNeedsLoss
PROPERTIES
    AllAnswered

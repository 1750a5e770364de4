CONSTANTS
    t1 = t1
    t2 = t2
    ns1 = ns1
    ns2 = ns2
    Nobody = Nobody
    Threads <- MCThreads
    Factories <- MCFactories
    Namespaces <- MCNamespaces
    CacheMax = 1
    MaxVersion = 1
SPECIFICATION FairSpec
INVARIANTS
    NsCacheSound
    StaleNeedsOverlap
PROPERTIES
    Answered

CONSTANTS
    Rate <- MCRate
    Cost <- MCCost
    Capacity <- MCCapacity
    MaxIdle = 12
    MaxWindow = 8
    MaxSteps = 3
SPECIFICATION FairLimiterSpec
INVARIANTS
    WindowBound
    BurstServed
PROPERTIES
    KeepsServing

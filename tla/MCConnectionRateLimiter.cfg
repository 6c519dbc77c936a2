SPECIFICATION BoundedSpec
CONSTANTS
    Burst = 5
    Refill = 1
    Cost = 2
    IdleWorth = 6
    MaxAccrued = 8
    MaxEarned = 7
INVARIANTS
    TypeOK
    RateBound
PROPERTIES
    ImplementsBucket

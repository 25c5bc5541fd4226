SPECIFICATION FairSpec
CONSTANTS
    r1 = r1
    r2 = r2
    p1 = p1
    Replicas <- TwoReplicas
    Puts <- OnePut
    Watching = TRUE
    Faults <- AllFaults
    MaxVersion = 2
INVARIANT TypeOK
INVARIANT ServingHasLifetimes
INVARIANT OwnWriteAppliesBeforeAnswer
PROPERTY TickerConverges
PROPERTY CaughtUpStays

SPECIFICATION FairSpec
CONSTANTS
    r1 = r1
    r2 = r2
    h1 = h1
    t1 = t1
    Replicas <- TwoReplicas
    Handlers <- OneHandler
    Tokens <- OneToken
    Exp <- ExpiresAtOne
    Skew <- LateStore
    Faults <- AllFaults
    MaxTime = 2
INVARIANT TypeOK
INVARIANT LoggedOutHereStaysOut
INVARIANT LocalIsRecorded
PROPERTY RevocationSpreads

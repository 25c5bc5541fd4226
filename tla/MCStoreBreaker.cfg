SPECIFICATION FairSpec
CONSTANTS
    q1 = q1
    q2 = q2
    q3 = q3
    Requests <- ThreeRequests
    Threshold = 2
    Cooldown = 3
    Timeout = 2
INVARIANT TypeOK
INVARIANT ProbingTracksTheProbe
INVARIANT OnlyTheProbeIsOut
PROPERTY RecoveryCloses

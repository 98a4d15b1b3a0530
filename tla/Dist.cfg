CONSTANTS
    a = a
    b = b
    e = e
    Key = {k0}
    Token = {b}
    Eos = e
    Deltas <- SomeDeltas
    Batch = 1
    MaxGen = 1
    MaxSeq = 4
    Conn = {1,2,3,4,5,6}
    MaxCrash = 1
    Setups <- Deployments
    None = None
    Bad = Bad
SPECIFICATION FairSpec
INVARIANT SampledFromSession
INVARIANT SegmentsCommit
PROPERTY RoundEndsOrOrphaned
CHECK_DEADLOCK FALSE

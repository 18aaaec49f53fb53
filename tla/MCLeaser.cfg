SPECIFICATION FairSpec
CONSTANTS
    b1 = b1
    b2 = b2
    b3 = b3
    Broker = {b1, b2}
    NoLease = NoLease
    Duration = 2
    Skew <- MCSkewOne
    SkewSpan = 1
    MaxAge = 3
    MaxStops = 2
INVARIANTS
    FreshLeaderHoldsLease
PROPERTY
    TakeoverOnlyAfterExpiry
    EvictedOnlyByDeposed
    LeadershipRecovers

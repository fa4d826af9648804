SPECIFICATION FairSpec
CONSTANTS
    k1 = k1
    k2 = k2
    Callers = {k1, k2}
    MaxRetries = 3
    Threshold = 5
    MaxRequests = 2
    Window = 2
    InitialDelay = 1
    LimiterFields = {TRUE, FALSE}
    Kinds = {"events", "health", "fee"}
INVARIANT StormBounded
INVARIANT LimitHoldsAlone
PROPERTY OpenForGood
PROPERTY CallsEnd

SPECIFICATION Spec
CONSTANTS
    s1 = s1
    s2 = s2
    s3 = s3
    p1 = p1
    p2 = p2
    t1 = t1
    x1 = x1
    x2 = x2
    c1 = c1
    c2 = c2
    h1 = h1
    h2 = h2
    h3 = h3
    Runs = {r1, r2}
    Schedules = {s1, s2, s3}
    TierOf <- McTierOf
    AvailableAt <- McAvailableAt
    Passes = {p1, p2}
    PassTier <- McPassTier
    PassUntil <- McPassUntil
    Batch = 2
    MaxClock = 1
    MaxFaults = 1
    Sales = {x1, x2}
    Creators = {c1, c2}
    Mailed = {c1}
    Hooks = {h1, h2, h3}
    HookOwner <- McHookOwner
    BundleOf <- McBundleOf
    Readers = {g1, g2}
    Editors = {e1, e2}
    Ttl = 2
    MaxVersion = 3
    MaxTick = 4
    Empty = Empty
    Filers = {q1, q2, q3}
    Reporters = {u1}
    DailyLimit = 2
    MaxDay = 1
    Nobody = Nobody
    MaxLedger = 5
    Times = {0, 1, 2, 3}
INVARIANT NotifiedOnce
INVARIANT HoldersTold
INVARIANT SaleAnnounced
INVARIANT StaleIsExplained
INVARIANT LimitOvershoot
INVARIANT FindsLedger
INVARIANT NeverTooLate
PROPERTY DueIsActivated
PROPERTY SearchEnds
CHECK_DEADLOCK FALSE

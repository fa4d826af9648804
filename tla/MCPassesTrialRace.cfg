SPECIFICATION Spec
CONSTANTS
    w1 = w1
    w2 = w2
    f1 = f1
    f2 = f2
    c1 = c1
    c2 = c2
    t1 = t1
    t2 = t2
    p1 = p1
    p2 = p2
    g1 = g1
    g2 = g2
    None = None
    Workers = {w1, w2}
    Fans = {f1}
    Creators = {c1}
    Tiers = {t1, t2}
    CreatorOf <- McCreatorOf
    ChainIdOf <- McChainIdOf
    TrialDays <- McTrialDays
    DurationDays <- McDurationDays
    SyncedTiers = {t1, t2}
    PassIds = {p1, p2}
    GeneratedIds = {}
    MintEvents <- McTrialEvents
    Bundles = {}
    Gifts = {}
    Leavers = {}
    TierEvents = {}
    BlockPairs = {}
    MaxTime = 0
INVARIANT TrialOnce

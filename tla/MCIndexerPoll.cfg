SPECIFICATION Spec
CONSTANTS
    c1 = c1
    c2 = c2
    f1 = f1
    p1 = p1
    p2 = p2
    q1 = q1
    q2 = q2
    j1 = j1
    None = None
    Log <- McLifeLog
    LastLedger = 3
    ClosedAt <- McClosedAt
    Limit = 5
    MaxRange = 2
    MaxSpan = 20
    Polls = {q1, q2}
    Jobs = {}
    Requests = {}
    Spans = {}
    Creators = {c1, c2}
    Enrolled = {c1}
    TierIds = {1, 2}
    TrialTiers = {}
    Fans = {f1}
    PassIds = {p1, p2}
SYMMETRY Symmetry
INVARIANT CheckpointCovers
INVARIANT TiersInSync
PROPERTY CheckpointMonotone

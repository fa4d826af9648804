SPECIFICATION FairSpec
CONSTANTS
    c1 = c1
    c2 = c2
    f1 = f1
    p1 = p1
    p2 = p2
    q1 = q1
    q2 = q2
    j1 = j1
    None = None
    Log <- McShortLog
    LastLedger = 2
    ClosedAt <- McClosedAt
    Limit = 2
    MaxRange = 2
    MaxSpan = 20
    Polls = {q1}
    Jobs = {j1}
    Requests <- McRequests
    Spans <- McSpans
    Creators = {c1}
    Enrolled = {c1}
    TierIds = {1}
    TrialTiers = {}
    Fans = {f1}
    PassIds = {p1}
INVARIANT JobsCover
PROPERTY JobsEnd
PROPERTY CatchesUp

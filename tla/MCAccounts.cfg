SPECIFICATION Spec
CONSTANTS
    w1 = w1
    w2 = w2
    f1 = f1
    f2 = f2
    p1 = p1
    s1 = s1
    s2 = s2
    None = None
    Workers = {w1, w2}
    Fans = {f1, f2}
    Sellers = {f1}
    PassIds = {p1}
    Tokens = {s1}
    Leavers = {f1}
    Exporters = {f1}
    Members = {f1}
    Retention = 2
    Cooldown = 1
    SessionDays = 1
    MaxTime = 3
SYMMETRY Symmetry
INVARIANT LeaversPasses
INVARIANT DeletedIsOut
INVARIANT HalfDeletionExplained
INVARIANT ExportsSpaced
PROPERTY RetentionKept
PROPERTY PeriodNeverRestarts
PROPERTY RecordsKept
CHECK_DEADLOCK FALSE

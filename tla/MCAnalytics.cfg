SPECIFICATION Spec
CONSTANTS
    p1 = p1
    p2 = p2
    p3 = p3
    f1 = f1
    f2 = f2
    t1 = t1
    t2 = t2
    None = None
    PassIds = {p1, p2, p3}
    Fans = {f1}
    Tiers = {t1, t2}
    Price <- McPrice
    Cent = 2
    Duration <- McDuration
    Trial <- McTrial
    TicksPerDay = 2
    Periods = {2, 3}
    DailyMax = 2
    WeekLen = 2
    TopCount = 1
    UnlockTicks = 1
    WarnTicks = 2
    MaxLimit = 2
    Limits = {3}
    MaxTime = 4
CONSTRAINT McOneReader
SYMMETRY Symmetry
INVARIANT AccessAgrees
INVARIANT TokenOutlives
INVARIANT ScrollMissesNone
INVARIANT FiguresAddUp
CHECK_DEADLOCK FALSE

----------------------------- MODULE Analytics -----------------------------
(***************************************************************************)
(* What the API answers from the pass table: access checks and lists       *)
(* (passes.service.ts, fans.service.ts), content tokens and tier figures   *)
(* (tiers.service.ts), a creator's revenue and subscriber figures          *)
(* (creators.service.ts).  The answers are operators of the table and the  *)
(* clock; the state machine fills the table, rewrites it when a purchase   *)
(* is delivered again, ages it, hands out tokens and has one client page   *)
(* through a list meanwhile.  token and scroll follow one client each, any *)
(* one.                                                                    *)
(* Time is in ticks, TicksPerDay to the day, and money in the units that   *)
(* prices are kept in, Cent to the cent.  One creator owns all tiers.      *)
(***************************************************************************)
EXTENDS Integers, FiniteSets, Sequences, SequencesExt, FiniteSetsExt

CONSTANTS
    PassIds, Fans, Tiers,
    Price,        \* priceUsdc of each tier
    Cent,         \* units of a price in a cent
    Duration,     \* of each tier's passes, in ticks
    Trial,        \* of each tier's free trial, 0 for none
    TicksPerDay,
    Periods,      \* the analytics windows that are offered, in days
    DailyMax,     \* the longest window with daily buckets (90)
    WeekLen,      \* days of a bucket of a longer window (7)
    TopCount,     \* tiers in the revenue summary (3)
    UnlockTicks,  \* UNLOCK_TTL_SECONDS
    WarnTicks,    \* 48 hours
    MaxLimit,     \* the cap on a page of subscriptions (50)
    Limits,       \* page sizes that clients ask for
    MaxTime,      \* bound of the clock
    None

ASSUME AnalyticsAssumption ==
    /\ IsFiniteSet(PassIds) /\ IsFiniteSet(Fans) /\ IsFiniteSet(Tiers)
    /\ Price \in [Tiers -> Nat]
    /\ Cent \in Nat \ {0}
    /\ Duration \in [Tiers -> Nat \ {0}]
    /\ Trial \in [Tiers -> Nat]
    /\ TicksPerDay \in Nat \ {0}
    /\ Periods \subseteq Nat \ {0}
    /\ DailyMax \in Nat
    /\ WeekLen \in Nat \ {0}
    /\ {TopCount, UnlockTicks, WarnTicks, MaxTime} \subseteq Nat
    /\ MaxLimit \in Nat \ {0}
    /\ Limits \subseteq Nat \ {0}

\* A row, and a content token.
Rows   == [fan : Fans, tier : Tiers, at : Nat, until : Nat, active : BOOLEAN]
Tokens == [fan : Fans, tier : Tiers, until : Nat]

ASSUME AnalyticsNoneAssumption == None \notin Nat \cup BOOLEAN \cup Fans \cup Rows \cup Tokens

VARIABLES
    passes,  \* table passes
    now,
    token,   \* the content token a client holds, until it runs out
    held,    \* history: when a fan last had a valid pass of a tier
    scroll   \* the client that pages through its subscriptions

vars == <<passes, now, token, held, scroll>>

Stored == {p \in PassIds : passes[p] # None}
Row(p) == passes[p]

----------------------------------------------------------------------------
(* Access. *)

\* Mutant: a pass is still valid in the instant it expires.
ValidMutant(p) == Row(p).active /\ Row(p).until >= now

\* The query of every access check: active, and expiring later than now.
Valid(p) == Row(p).active /\ Row(p).until > now

HasValidPass(f, t) == \E p \in Stored : Row(p).fan = f /\ Row(p).tier = t /\ Valid(p)

HasAnyValidPass(f) == \E p \in Stored : Row(p).fan = f /\ Valid(p)

FindByFan(f, activeOnly) == {p \in Stored : Row(p).fan = f /\ (activeOnly => Valid(p))}

\* getCreatorPassCount.
PassCount == [total |-> Cardinality(Stored), active |-> Cardinality({p \in Stored : Valid(p)})]

\* The passes that findByAddress shows with a fan.
ShownWith(f) == {p \in Stored : Row(p).fan = f /\ Row(p).active /\ Row(p).until > now}

\* The counts of passes in the admin's statistics.
PlatformStats == [total |-> Cardinality(Stored),
                  active |-> Cardinality({p \in Stored : Row(p).active /\ Row(p).until > now})]

\* The passes whose owners are warned that they end within WarnTicks.
ExpiringSoon ==
    {p \in Stored : /\ Row(p).active
                    /\ Row(p).until > now
                    /\ Row(p).until <= now + WarnTicks}

\* The fans whose rooms hear of a creator's new tier.
NewTierAudience == {Row(p).fan : p \in {q \in Stored : Row(q).active /\ Row(q).until > now}}

\* The status in a pass's public metadata.
Status(p) == IF Row(p).active /\ Row(p).until > now THEN "active" ELSE "expired"

\* findAll's filters on active and expired, each absent (None) or a Boolean.
FindAll(active, expired) ==
    {p \in Stored :
        /\ active # None => Row(p).active = active
        /\ expired # None => (Row(p).until <= now) = expired}

\* The expired flag of a subscription.
ShownExpired(p) == ~Row(p).active \/ Row(p).until <= now

\* The orders in which the database may return rows sorted by expiry: rows that
\* expire together come in any order, and not always in the same one.
ByExpiry(S) ==
    {s \in SetToSeqs(S) : \A i, j \in DOMAIN s : i < j => Row(s[i]).until <= Row(s[j]).until}

Capped(limit) == IF limit > MaxLimit THEN MaxLimit ELSE limit

\* Mutant: the offset is computed from the limit that was asked for.
SkippedMutant(page, limit) == (page - 1) * limit

Skipped(page, limit) == (page - 1) * Capped(limit)

\* A page of a listing.
PageOf(s, page, limit) ==
    {s[i] : i \in {j \in DOMAIN s : /\ j > Skipped(page, limit)
                                    /\ j <= Skipped(page, limit) + Capped(limit)}}

----------------------------------------------------------------------------
(* Content tokens. *)

\* Mutant: any pass of the tier will do.
UnlocksMutant(f, t) == \E p \in Stored : Row(p).fan = f /\ Row(p).tier = t

\* The check of unlockContent.
Unlocks(f, t) == HasValidPass(f, t)

VerifyContentToken(t, k) == k.tier = t /\ now <= k.until

----------------------------------------------------------------------------
(* Figures. *)

Day(t) == t - (t % TicksPerDay)
EndDate == Day(now)
StartDate(period) == EndDate - (period - 1) * TicksPerDay
AddDays(t, n) == t + n * TicksPerDay

\* The rows getAnalytics reads.
InView(period) ==
    {p \in Stored : Row(p).at >= StartDate(period) \/ Row(p).until >= StartDate(period)}

BucketDays(period) == IF period <= DailyMax THEN 1 ELSE WeekLen
BucketCount(period) == (period + BucketDays(period) - 1) \div BucketDays(period)
BucketStart(period, i) == AddDays(StartDate(period), (i - 1) * BucketDays(period))

InBucket(p, from, to) == Row(p).at <= to /\ Row(p).until > from

SubscriberGrowth(period) ==
    [i \in 1..BucketCount(period) |->
        LET from == BucketStart(period, i)
            to   == AddDays(from, BucketDays(period))
        IN  Cardinality({p \in InView(period) : InBucket(p, from, to)})]

ActiveAt(t, view) == {p \in view : Row(p).at <= t /\ Row(p).until > t}

\* Mutant: a pass that expires with the window is not counted.
ChurnedMutant(period) ==
    {p \in ActiveAt(StartDate(period), InView(period)) : Row(p).until < EndDate}

Churned(period) ==
    {p \in ActiveAt(StartDate(period), InView(period)) : Row(p).until <= EndDate}

\* What toFixed may make of x / unit: the nearest whole number, and either neighbour of
\* a tie, which the double that stands for it decides.
Rounded(x, unit) ==
    {n \in {x \div unit, x \div unit + 1} : 2 * (n * unit - x) \in -unit..unit}

\* What a percentage is shown as, in tenths: 0 for an empty base.
Rate(n, base) == IF base = 0 THEN {0} ELSE Rounded(1000 * n, base)

ChurnRate(period) ==
    Rate(Cardinality(Churned(period)),
         Cardinality(ActiveAt(StartDate(period), InView(period))))

RetentionRate(period) ==
    Rate(Cardinality(ActiveAt(EndDate, InView(period))),
         Cardinality(ActiveAt(StartDate(period), InView(period))))

\* How long a pass has run by the end date, and what the average is shown as, in tenths
\* of a day.
Ran(p) ==
    LET end == IF Row(p).until > EndDate THEN EndDate ELSE Row(p).until
    IN  IF end > Row(p).at THEN end - Row(p).at ELSE 0

AvgPassDuration(period) ==
    LET n == Cardinality(InView(period)) * TicksPerDay
    IN  IF n = 0 THEN {0} ELSE Rounded(10 * MapThenSumSet(Ran, InView(period)), n)

PriceOf(p) == Price[Row(p).tier]
\* getRevenue shows cents; getEarnings adds up the same rows its own way, unrounded.
TotalRevenue == Rounded(MapThenSumSet(PriceOf, Stored), Cent)
TotalEarnings == LET Add(p, sum) == sum + PriceOf(p) IN FoldSet(Add, 0, Stored)
SoldTiers == {Row(p).tier : p \in Stored}
RevenueOf(t) == MapThenSumSet(PriceOf, {p \in Stored : Row(p).tier = t})
ShownRevenue(t) == Rounded(RevenueOf(t), Cent)

\* The order of the summary; tiers that earned the same may come either way.
EarnsMore(t, u) == RevenueOf(t) >= RevenueOf(u)

TopTiers ==
    LET sorted == CHOOSE s \in SetToSeqs(SoldTiers) :
                     \A i, j \in DOMAIN s : i < j => EarnsMore(s[i], s[j])
    IN  SubSeq(sorted, 1, IF Len(sorted) < TopCount THEN Len(sorted) ELSE TopCount)

\* A tier's purchases in the window, and their series by day.
Purchases(t, period) ==
    {p \in Stored : /\ Row(p).tier = t
                    /\ Row(p).at >= StartDate(period)
                    /\ Row(p).at <= now}

OnDay(p, day) == Row(p).at >= day /\ Row(p).at < AddDays(day, 1)

PurchasesByDay(t, period) ==
    [i \in 1..period |-> Cardinality({p \in Purchases(t, period) :
                                        OnDay(p, AddDays(StartDate(period), i - 1))})]

ActivePasses(t) == {p \in Stored : Row(p).tier = t /\ Valid(p)}

----------------------------------------------------------------------------
(* The table and its readers over time. *)

NoScroll == [of |-> None, page |-> 1, limit |-> 1, left |-> {}, moved |-> FALSE,
             done |-> FALSE]

Init ==
    /\ passes = [p \in PassIds |-> None]
    /\ now = 0
    /\ token = None
    /\ held = [d \in Fans \X Tiers |-> None]
    /\ scroll = NoScroll

\* held at a moment: the instants at which a fan has a valid pass are noted, and
\* forgotten once no token of that instant can be left.
Noted(rows, time) ==
    LET Had(d) == \E p \in PassIds : /\ rows[p] # None
                                     /\ rows[p].fan = d[1]
                                     /\ rows[p].tier = d[2]
                                     /\ rows[p].active
                                     /\ rows[p].until > time
        Past(d) == held[d] # None /\ time - held[d] > UnlockTicks
    IN  [d \in Fans \X Tiers |-> IF Had(d) THEN time ELSE IF Past(d) THEN None ELSE held[d]]

\* A pass is bought and stored, or a trial begun where the tier has one (module Passes
\* says who gets it).
Sale(p, f, t) ==
    /\ passes[p] = None
    /\ \E ticks \in {Duration[t], Trial[t]} \ {0} :
          passes' = [passes EXCEPT ![p] =
              [fan |-> f, tier |-> t, at |-> now, until |-> now + ticks, active |-> TRUE]]
    /\ held' = Noted(passes', now)
    /\ UNCHANGED <<now, token, scroll>>

\* A purchase is delivered again: its row gets the expiry of the chain, which knows no
\* trials.  scroll notes a change of expiry among the rows that are paged through.
Redeliver(p) ==
    /\ p \in Stored
    /\ LET until == Row(p).at + Duration[Row(p).tier]
           moves == Row(p).fan = scroll.of /\ Row(p).until # until
       IN  /\ passes' = [passes EXCEPT ![p].until = until]
           /\ scroll' = [scroll EXCEPT !.moved = @ \/ moves]
    /\ held' = Noted(passes', now)
    /\ UNCHANGED <<now, token>>

\* The cron, or the owner's deletion request, makes a pass inactive.
Withdraw(p) ==
    /\ p \in Stored
    /\ passes' = [passes EXCEPT ![p].active = FALSE]
    /\ UNCHANGED <<now, token, held, scroll>>

UnlockContent(f, t) ==
    /\ Unlocks(f, t)
    /\ token' = [fan |-> f, tier |-> t, until |-> now + UnlockTicks]
    /\ UNCHANGED <<passes, now, held, scroll>>

OpenList(f, limit) ==
    /\ scroll = NoScroll
    /\ scroll' = [NoScroll EXCEPT !.of = f, !.limit = limit, !.left = FindByFan(f, FALSE)]
    /\ UNCHANGED <<passes, now, token, held>>

\* The client asks for the next page until one is not full.
NextPage ==
    /\ scroll.of # None
    /\ ~scroll.done
    /\ \E s \in ByExpiry(FindByFan(scroll.of, FALSE)) :
          LET got  == PageOf(s, scroll.page, scroll.limit)
              left == scroll.left \ got
          IN  scroll' = IF Cardinality(got) < Capped(scroll.limit)
                        THEN [NoScroll EXCEPT !.of = scroll.of, !.left = left,
                                              !.moved = scroll.moved, !.done = TRUE]
                        ELSE [scroll EXCEPT !.page = @ + 1, !.left = left]
    /\ UNCHANGED <<passes, now, token, held>>

\* A token that has run out is forgotten.
Tick ==
    /\ now < MaxTime
    /\ now' = now + 1
    /\ token' = IF token # None /\ token.until < now' THEN None ELSE token
    /\ held' = Noted(passes, now')
    /\ UNCHANGED <<passes, scroll>>

Next ==
    \/ \E p \in PassIds, f \in Fans, t \in Tiers : Sale(p, f, t)
    \/ \E p \in PassIds : Redeliver(p)
    \/ \E p \in PassIds : Withdraw(p)
    \/ \E f \in Fans, t \in Tiers : UnlockContent(f, t)
    \/ \E f \in Fans, limit \in Limits : OpenList(f, limit)
    \/ NextPage
    \/ Tick

Spec == Init /\ [][Next]_vars

----------------------------------------------------------------------------
(* Properties *)

\* The answers of the different access routes agree at every instant, the one of
\* expiry included: the check by tier and the check by creator, the list of a fan's
\* valid passes and the expired flags of the subscriptions, metadata and filters, the
\* creator's counts, the tiers' and the platform's, the warnings of passes that end and
\* the audience of a new tier.
AccessAgrees ==
    /\ PassCount = PlatformStats
    /\ \A p \in Stored : p \in ExpiringSoon <=> Valid(p) /\ Row(p).until - now <= WarnTicks
    /\ LET Held(f) == Cardinality(FindByFan(f, TRUE))
           Left(t) == Cardinality(ActivePasses(t))
       IN  /\ PassCount.active = MapThenSumSet(Held, Fans)
           /\ PassCount.active = MapThenSumSet(Left, Tiers)
    /\ \A f \in Fans :
           /\ HasAnyValidPass(f) <=> \E t \in Tiers : HasValidPass(f, t)
           /\ FindByFan(f, TRUE) = {p \in FindByFan(f, FALSE) : ~ShownExpired(p)}
           /\ FindByFan(f, TRUE) = {p \in FindAll(TRUE, FALSE) : Row(p).fan = f}
           /\ FindByFan(f, TRUE) = ShownWith(f)
           /\ f \in NewTierAudience <=> HasAnyValidPass(f)
           /\ \A p \in FindByFan(f, FALSE) : Status(p) = "active" <=> p \in FindByFan(f, TRUE)

\* A content token that is still accepted was issued to a fan who had a valid pass of
\* that tier no longer ago than the token's life, though the pass may have expired or
\* been withdrawn since.
TokenOutlives ==
    token # None /\ VerifyContentToken(token.tier, token) =>
        held[token.fan, token.tier] # None

\* A client that pages through its subscriptions sees every pass that was stored when
\* it began, though sales go on meanwhile, whatever page size it asks for, unless
\* another of its passes expires at the same instant, or a delivery that came again has
\* moved one of its passes to another place of the list since it began.
ScrollMissesNone ==
    scroll.done /\ ~scroll.moved =>
        \A p \in scroll.left :
            \E q \in FindByFan(scroll.of, FALSE) \ {p} : Row(q).until = Row(p).until

\* A bucket counts the passes that were alive at some instant of it, both ends
\* included, whatever rows the query has left out.
GrowthCounts ==
    \A period \in Periods : \A i \in 1..BucketCount(period) :
        LET from == BucketStart(period, i)
            to   == AddDays(from, BucketDays(period))
        IN  SubscriberGrowth(period)[i] = Cardinality({p \in Stored :
                \E time \in from..to : Row(p).at <= time /\ time < Row(p).until})

\* Subscribers at the end are those at the start, less the churned, plus the newcomers
\* that are left: with no newcomers the churn and retention that are shown make 100 %,
\* to the tenth that rounding may add or take.
FlowBalances ==
    \A period \in Periods :
        LET old  == ActiveAt(StartDate(period), Stored)
            new  == {p \in ActiveAt(EndDate, Stored) : Row(p).at > StartDate(period)}
        IN  /\ Cardinality(ActiveAt(EndDate, Stored)) =
                  Cardinality(old) - Cardinality(Churned(period)) + Cardinality(new)
            /\ \A churn \in ChurnRate(period), kept \in RetentionRate(period) :
                  /\ churn <= 1000
                  /\ old # {} /\ new = {} => churn + kept \in 999..1001

\* The days of a series add up to the purchases of the window.
SeriesAddsUp ==
    \A t \in Tiers, period \in Periods :
        FoldSeq(+, 0, PurchasesByDay(t, period)) = Cardinality(Purchases(t, period))

\* The revenue that is shown, in cents, is the earnings', in full, to half a cent.  The
\* tiers' revenues, each rounded by itself, add up to it to half a cent for each of them
\* and for the total, and no tier left out of the summary earned more than one in it.
RevenueAddsUp ==
    /\ \A total \in TotalRevenue :
          /\ 2 * (total * Cent - TotalEarnings) \in -Cent..Cent
          /\ \A shown \in [SoldTiers -> UNION {ShownRevenue(t) : t \in SoldTiers}] :
                (\A t \in SoldTiers : shown[t] \in ShownRevenue(t)) =>
                    LET n == Cardinality(SoldTiers) + 1 IN
                    2 * (SumFunctionOnSet(shown, SoldTiers) - total) \in -n..n
    /\ \A t \in SoldTiers \ ToSet(TopTiers), u \in ToSet(TopTiers) :
          RevenueOf(t) <= RevenueOf(u)

\* The average that is shown is no more than the longest run, in tenths of a day, and
\* what rounding may add.
AverageIsOne ==
    \A period \in Periods : \A average \in AvgPassDuration(period) :
        InView(period) # {} =>
            \E p \in InView(period) :
                2 * average * TicksPerDay <= 20 * Ran(p) + TicksPerDay

\* A creator's figures are consistent with the table and with each other.
FiguresAddUp ==
    /\ GrowthCounts
    /\ FlowBalances
    /\ SeriesAddsUp
    /\ RevenueAddsUp
    /\ AverageIsOne
============================================================================

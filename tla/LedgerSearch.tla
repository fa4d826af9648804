---------------------------- MODULE LedgerSearch ----------------------------
(***************************************************************************)
(* findLedgerForTimestamp: the binary search by which a replay-history job *)
(* turns a time into a ledger.  Each probe asks the node for one ledger's  *)
(* closing time; a probe that fails is taken for a ledger that is too      *)
(* late, so the search goes on among earlier ones.                         *)
(***************************************************************************)
EXTENDS Integers

CONSTANTS
    MaxLedger,   \* bound: the most ledgers a chain has
    Times        \* closing times and the times asked for

ASSUME SearchAssumption == MaxLedger \in Nat /\ Times \subseteq Nat

VARIABLES
    closedAt,    \* by ledger, its closing time: later ledgers close later
    latest,      \* latestLedger
    target,      \* targetTimestamp
    low, high, bestLedger,
    failed       \* history: a probe failed

searchVars == <<closedAt, latest, target, low, high, bestLedger, failed>>

Chain == {f \in [1 .. MaxLedger -> Times] :
            \A k, l \in 1 .. MaxLedger : k <= l => f[k] <= f[l]}

SearchInit ==
    /\ closedAt \in Chain
    /\ latest \in 0 .. MaxLedger
    /\ target \in Times
    /\ low = 1
    /\ high = latest
    /\ bestLedger = 1
    /\ failed = FALSE

Mid == (low + high) \div 2

\* Mutant: a ledger closed exactly at the target is passed over.
ClosedInTimeMutant(l) == closedAt[l] < target

ClosedInTime(l) == closedAt[l] <= target

GoUp ==
    /\ low <= high
    /\ ClosedInTime(Mid)
    /\ bestLedger' = Mid
    /\ low' = Mid + 1
    /\ UNCHANGED <<closedAt, latest, target, high, failed>>

\* Mutant: the upper bound is the probe itself.
GoDownMutant ==
    /\ low <= high
    /\ ~ClosedInTime(Mid)
    /\ high' = Mid
    /\ UNCHANGED <<closedAt, latest, target, low, bestLedger, failed>>

GoDown ==
    /\ low <= high
    /\ ~ClosedInTime(Mid)
    /\ high' = Mid - 1
    /\ UNCHANGED <<closedAt, latest, target, low, bestLedger, failed>>

\* Mutant: a failed probe is taken for a ledger that is too early.
ProbeFailsMutant ==
    /\ low <= high
    /\ bestLedger' = Mid
    /\ low' = Mid + 1
    /\ failed' = TRUE
    /\ UNCHANGED <<closedAt, latest, target, high>>

\* The catch branch.
ProbeFails ==
    /\ low <= high
    /\ high' = Mid - 1
    /\ failed' = TRUE
    /\ UNCHANGED <<closedAt, latest, target, low, bestLedger>>

SearchNext == GoUp \/ GoDown \/ ProbeFails

SearchSpec == SearchInit /\ [][SearchNext]_searchVars

\* A probe under way is answered, or else it fails.
SearchFairness == WF_searchVars(GoUp \/ GoDown)

\* No search: the chain has no ledger to probe.
NoSearch ==
    /\ latest = 0
    /\ target = CHOOSE t \in Times : TRUE
    /\ closedAt = [l \in 1 .. MaxLedger |-> target]

-----------------------------------------------------------------------------
\* The bounds stay inside the chain and close in on each other, and every probe asks for
\* a ledger the chain has.
SearchTypeOK ==
    /\ closedAt \in Chain
    /\ latest \in 0 .. MaxLedger
    /\ target \in Times
    /\ low \in 1 .. latest + 1
    /\ high \in 0 .. latest
    /\ low <= high + 1
    /\ bestLedger \in 1 .. latest + 1
    /\ failed \in BOOLEAN
    /\ low <= high => Mid \in 1 .. latest

\* With every probe answered the search returns the last ledger closed by the target
\* time, or ledger 1 when there is none.
FindsLedger ==
    low > high /\ ~failed =>
        \A l \in 1 .. latest :
            /\ l < bestLedger => closedAt[l] <= target
            /\ l = bestLedger => closedAt[l] <= target \/ l = 1
            /\ l > bestLedger => closedAt[l] > target

\* Whatever probes fail, the ledger returned is never too late: it closed by the target
\* time, or it is the first.  A replay that starts from it misses nothing at its start.
NeverTooLate == bestLedger = 1 \/ closedAt[bestLedger] <= target

\* The search ends.
SearchEnds == <>(low > high)
=============================================================================

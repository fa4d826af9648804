----------------------------- MODULE MCIndexer -----------------------------
(***************************************************************************)
(* Instances of Indexer for TLC: short logs that hold the cases of         *)
(* interest, one timer with room for two overlapping polls, one job.       *)
(***************************************************************************)
EXTENDS Indexer, TLC

CONSTANTS c1, c2, f1, p1, p2, q1, q2, j1

Created(l, c, n)     == [kind |-> "tier_created", ledger |-> l, creator |-> c, tier |-> n]
Deactivated(l, c, n) == [kind |-> "tier_deactivated", ledger |-> l, creator |-> c, tier |-> n]
Registered(l, c)     == [kind |-> "creator_registered", ledger |-> l, creator |-> c]
Minted(l, n, p, f)   == [kind |-> "pass_minted", ledger |-> l, tier |-> n, pass |-> p, fan |-> f]

\* A tier made and withdrawn in one ledger, another withdrawn a ledger later, a pass.
McLifeLog == <<Registered(1, c2), Created(1, c1, 1), Deactivated(1, c1, 1),
               Created(2, c1, 2), Minted(2, 2, p1, f1), Deactivated(3, c1, 2)>>

\* A tier and a pass, then the tier's withdrawal.
McShortLog == <<Created(1, c1, 1), Minted(1, 1, p1, f1), Deactivated(2, c1, 1)>>

\* The hypothesis of the theorem on the tier table holds of the logs above.
ASSUME McLogAssumption == WithdrawnAfterMade

McClosedAt == [l \in 1 .. LastLedger |-> 10 * l]

McRequests == {[from |-> 1, to |-> 2], [from |-> 2, to |-> 1], [from |-> 1, to |-> 3]}
McSpans == {[from |-> 15, to |-> 25]}

Symmetry == Permutations({q1, q2})
=============================================================================

------------------------------ MODULE MCPasses ------------------------------
(***************************************************************************)
(* Instances of Passes for TLC.  Two fans, one creator or two, a tier with *)
(* a trial and one without; pass ids p1 and p2 come from the chain,        *)
(* g1 and g2 are generated by the API.                                      *)
(***************************************************************************)
EXTENDS Passes, TLC

CONSTANTS w1, w2, f1, f2, c1, c2, t1, t2, p1, p2, g1, g2

\* t1 offers a one-day trial, t2 none; both are creator c1's.
McCreatorOf    == t1 :> c1 @@ t2 :> c1
McChainIdOf    == t1 :> 1 @@ t2 :> 2
McTrialDays    == t1 :> 1 @@ t2 :> 0
McDurationDays == t1 :> 2 @@ t2 :> 1

Event(p, t, f, x) == [id |-> p, tier |-> t, fan |-> f, expiresAt |-> x]

\* Two purchases of the trial tier; one of each tier, the second already expired at
\* time 1; one paid purchase.
McTrialEvents == {Event(p1, t1, f1, 2), Event(p2, t1, f1, 2)}
McMixedEvents == {Event(p1, t1, f1, 2), Event(p2, t2, f1, 0)}
McPaidEvent   == {Event(p1, t2, f1, 0)}

McBundle  == {[ids |-> {1, 2}, fan |-> f1]}
McSingles == {[ids |-> {2}, fan |-> f1]}
McGift    == {[tier |-> t1, sender |-> f2, recipient |-> f1]}

McBlockPair == {<<c1, f1>>}

Symmetry == Permutations({w1, w2}) \cup Permutations({g1, g2})
=============================================================================

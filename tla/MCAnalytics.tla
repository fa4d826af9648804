---------------------------- MODULE MCAnalytics ----------------------------
\* An instance of the pass table's readers for TLC.
EXTENDS Analytics, TLC

CONSTANTS p1, p2, p3, f1, f2, t1, t2

McPrice    == t1 :> 3 @@ t2 :> 5
McDuration == t1 :> 2 @@ t2 :> 3
McTrial    == t1 :> 1 @@ t2 :> 0

\* One client at a time, the one with a token or the one with a list: neither reads what
\* the other changes, and no property speaks of both.
McOneReader == token = None \/ scroll.of = None

Symmetry == Permutations(PassIds)
============================================================================

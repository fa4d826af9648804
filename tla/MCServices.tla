----------------------------- MODULE MCServices -----------------------------
\* An instance of the four services and the search for TLC.
EXTENDS Services, TLC

CONSTANTS s1, s2, s3, p1, p2, t1, x1, x2, c1, c2, h1, h2, h3

McTierOf      == s1 :> t1 @@ s2 :> t1 @@ s3 :> t1
McAvailableAt == s1 :> 0 @@ s2 :> 1 @@ s3 :> 1
McPassTier    == p1 :> t1 @@ p2 :> t1
McPassUntil   == p1 :> 1 @@ p2 :> 2
McHookOwner   == h1 :> c1 @@ h2 :> c1 @@ h3 :> c2
McBundleOf    == x1 :> <<c1, c2, c1>> @@ x2 :> <<c1>>
============================================================================

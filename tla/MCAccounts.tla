----------------------------- MODULE MCAccounts -----------------------------
\* Instances of the accounts for TLC.
EXTENDS Accounts, TLC

CONSTANTS w1, w2, f1, f2, p1, s1, s2

Symmetry == Permutations({w1, w2}) \cup Permutations({s1, s2})
============================================================================

-------------------------- MODULE MCStellarClient --------------------------
\* Instances of the Stellar client for TLC.
EXTENDS StellarClient

CONSTANTS k1, k2
============================================================================

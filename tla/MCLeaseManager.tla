--------------------------- MODULE MCLeaseManager ---------------------------
EXTENDS LeaseManager, TLC
ClientSymmetry == Permutations(Clients)
=============================================================================

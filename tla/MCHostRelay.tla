---------------------------- MODULE MCHostRelay -----------------------------
EXTENDS HostRelay, TLC

Symmetry == Permutations(Reqs)
=============================================================================

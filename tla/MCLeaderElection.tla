------------------------- MODULE MCLeaderElection -------------------------
EXTENDS LeaderElection, TLC

Symmetric == Permutations(Procs)
=============================================================================

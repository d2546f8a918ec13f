---------------------------- MODULE MCRemoteOps ----------------------------
EXTENDS RemoteOps, TLC
Symmetry == Permutations(Thread)
=============================================================================

-------------------------- MODULE MCCounterCluster --------------------------
EXTENDS CounterCluster, TLC

Symmetry == Permutations(Server)
=============================================================================

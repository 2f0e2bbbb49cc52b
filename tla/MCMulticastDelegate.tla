------------------------- MODULE MCMulticastDelegate ------------------------
EXTENDS MulticastDelegate, TLC

Symmetry == Permutations(Object)
=============================================================================

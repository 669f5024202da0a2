------------------------------ MODULE MCQueue ------------------------------
EXTENDS QueueInv, TLC

Symmetry == Permutations(Threads) \cup Permutations(Values)
=============================================================================

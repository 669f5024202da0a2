----------------------------- MODULE MCWorkers -----------------------------
EXTENDS Workers, TLC

Symmetry == Permutations(Threads) \cup Permutations(Values)
=============================================================================

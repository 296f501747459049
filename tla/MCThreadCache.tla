--------------------------- MODULE MCThreadCache ---------------------------
EXTENDS ThreadCache, TLC

Symmetry == Permutations(Threads) \cup Permutations(Blocks) \cup Permutations(Collections)
=============================================================================

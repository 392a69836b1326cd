--------------------------- MODULE MC_StorageTtl ---------------------------
EXTENDS StorageTtl, TLC

Symmetry == Permutations(Operator)
============================================================================

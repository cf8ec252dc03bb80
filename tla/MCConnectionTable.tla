-------------------------- MODULE MCConnectionTable --------------------------
EXTENDS ConnectionTable, TLC
ConnSymmetry == Permutations(Conns)
=============================================================================

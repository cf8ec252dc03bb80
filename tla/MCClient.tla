------------------------------ MODULE MCClient ------------------------------
EXTENDS Client, TLC
\* No specification tells two terminals or two users apart.
ClientSymmetry == Permutations(Terminals) \cup Permutations(Users)
=============================================================================

--------------------------- MODULE MCUserRegistry ---------------------------
(* Two threads, three names for two places, two keys.                      *)
EXTENDS UserRegistry, TLC
Symmetry == Permutations(Threads) \cup Permutations(Names) \cup Permutations(Keys)
=============================================================================

--------------------------- MODULE MC_Connections ---------------------------
EXTENDS Connections, TLC

CONSTANTS s1, s2, a1, t1, t2, o1

Symm == Permutations({s1, s2}) \cup Permutations({t1, t2})
=============================================================================

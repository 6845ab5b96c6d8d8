---------------------------- MODULE MC_Multiplex ----------------------------
EXTENDS Multiplex, TLC

CONSTANTS s1, s2, u

MCSockets == {s1, s2}

Symm == Permutations(MCSockets)
=============================================================================

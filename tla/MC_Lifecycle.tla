----------------------------- MODULE MC_Lifecycle -----------------------------
(* Two application threads, two sessions each, four handles.               *)
EXTENDS Lifecycle, TLC

CONSTANTS t1, t2

MCThreads == {t1, t2}

ThreadSymmetry == Permutations(MCThreads)
=============================================================================

---------------------------- MODULE MC_Overlapped ----------------------------
(* Two OVERLAPPED structures, two events, one byte per transfer ,   *)
(* success or WSAECONNRESET, two operations per OVERLAPPED.                *)
EXTENDS Overlapped, TLC

CONSTANTS o1, o2, e1, e2

MCOvs == {o1, o2}
MCEvents == {e1, e2}
MCBytes == {1}
MCErrCodes == {0, 10054}

\* one OVERLAPPED and one event, for the liveness run (no symmetry there)
MCOvsOne == {o1}
MCEventsOne == {e1}

OvEventSymmetry == Permutations(MCOvs) \cup Permutations(MCEvents)
=============================================================================

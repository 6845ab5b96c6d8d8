--------------------------- MODULE MC_EventSelect ---------------------------
(* Model-checking instance of EventSelect: one socket, two event handles.  *)
EXTENDS EventSelect, TLC

CONSTANTS s1, e1, e2

MCSockets == {s1}
MCEvents == {e1, e2}
\* cancel (0), FD_READ, FD_READ | FD_CLOSE
MCSelectMasks == {0, FD_READ, FD_READ | FD_CLOSE}

\* Event handles are interchangeable: nothing depends on which one is created first.
EventSymmetry == Permutations(MCEvents)
=============================================================================

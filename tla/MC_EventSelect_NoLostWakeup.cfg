\* The application may legitimately block forever in an INFINITE wait once
\* no more packets arrive (MaxArrivals), so terminal states are expected.
CONSTANTS
    s1 = s1
    e1 = e1
    e2 = e2
    NoEvent = NoEvent
    Sockets <- MCSockets
    Events <- MCEvents
    SelectMasks <- MCSelectMasks
    MaxArrivals = 3
    MaxSelects = 2
    MaxWaitLen = 2
SPECIFICATION Spec
SYMMETRY EventSymmetry

INVARIANT NoLostWakeup
CHECK_DEADLOCK FALSE

\* The application thread may block for ever in WSAGetOverlappedResult on
\* an event nobody will signal (after an OVERLAPPED WSASendTo), and the
\* operations per OVERLAPPED are bounded, so the system really stops.
CONSTANTS
    o1 = o1
    o2 = o2
    e1 = e1
    e2 = e2
    NoEvent = NoEvent
    Ovs <- MCOvs
    Events <- MCEvents
    Bytes <- MCBytes
    ErrCodes <- MCErrCodes
    WaitModes = {TRUE, FALSE}
    MaxGen = 2
SPECIFICATION Spec
SYMMETRY OvEventSymmetry
INVARIANT TypeOK
INVARIANT OwnSignalNotIncomplete
CHECK_DEADLOCK FALSE

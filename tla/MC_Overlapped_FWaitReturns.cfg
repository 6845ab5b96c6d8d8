\* Liveness under the goroutines' fairness: one OVERLAPPED, one event, two
\* operations; the application may stop calling, so deadlock is not checked.
CONSTANTS
    o1 = o1
    o2 = o2
    e1 = e1
    e2 = e2
    NoEvent = NoEvent
    Ovs <- MCOvsOne
    Events <- MCEventsOne
    Bytes <- MCBytes
    ErrCodes <- MCErrCodes
    WaitModes = {TRUE, FALSE}
    MaxGen = 2
SPECIFICATION FairSpec
PROPERTY FWaitReturns
CHECK_DEADLOCK FALSE

\* A blocking read on a socket whose peer stays silent waits for ever, as the
\* code does, so terminal states are expected.
CONSTANTS
    Kinds <- MCKinds
    Lens <- MCLens
    SegLens <- MCSegLens
    Timeouts <- MCTimeouts
    MaxBytes = 2
    SndCap = 1
SPECIFICATION FairSpec
INVARIANT TypeOK
INVARIANT ByteConservation
PROPERTY NonBlockingReadReturns
PROPERTY NonBlockingSendReturns
CHECK_DEADLOCK FALSE

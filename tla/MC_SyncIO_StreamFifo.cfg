\* A blocking read on a socket whose peer stays silent waits for ever, as the
\* code does, so terminal states are expected.
CONSTANTS
    Kinds <- MCKinds
    Lens <- MCLens
    SegLens <- MCSegLens
    Timeouts <- MCTimeouts
    MaxBytes = 2
    SndCap = 1
SPECIFICATION Spec
INVARIANT StreamFifo
CHECK_DEADLOCK FALSE

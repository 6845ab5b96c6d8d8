\* Each thread makes a bounded number of WSAStartup calls and the registry
\* hands out a bounded number of handles, so every behaviour ends with all
\* threads idle; those final states are not a fault of the code.
CONSTANTS
    t1 = t1
    t2 = t2
    None = None
    Threads <- MCThreads
    MaxStarts = 2
    MaxHandles = 4
SPECIFICATION Spec
SYMMETRY ThreadSymmetry
INVARIANT TypeOK
INVARIANT SocketsPurgedAtCleanup
CHECK_DEADLOCK FALSE
PROPERTY RefinesAbstractLifecycle

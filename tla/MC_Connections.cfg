\* Two sockets of either type, one handle for accept, two threads that may
\* close concurrently, one option key, three transport objects.
CONSTANTS
    s1 = s1
    s2 = s2
    a1 = a1
    t1 = t1
    t2 = t2
    o1 = o1
    Sockets = {s1, s2}
    Spare = {a1}
    Threads = {t1, t2}
    Opts = {o1}
    MaxObjs = 3
SPECIFICATION Spec
INVARIANT TypeOK
CHECK_DEADLOCK FALSE
SYMMETRY Symm
INVARIANT ConnectAppliesStoredOptions

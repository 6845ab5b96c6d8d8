\* Two UDP sockets and one handle the registry does not know.
CONSTANTS
    s1 = s1
    s2 = s2
    u = u
    Sockets <- MCSockets
    Unknown = u
    MaxArrivals = 2
SPECIFICATION Spec
INVARIANT TypeOK
INVARIANT NoLostWakeup
SYMMETRY Symm

CONSTANTS
    k1 = k1
    Keys <- MCKeys
    Hints <- MCHints
    Services <- MCServices
    HostAnswer <- MCHostAnswer
SPECIFICATION Spec
INVARIANT TypeOK
INVARIANT ChainWellFormed
INVARIANT ResultMatchesRequest
INVARIANT PortRoundTrip

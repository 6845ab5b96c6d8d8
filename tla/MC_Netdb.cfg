CONSTANTS
    HostAnswer <- MCHostAnswer
    HostName <- MCHostName
    SockType <- MCSockType
SPECIFICATION Spec
INVARIANTS
    TypeOK
    ServiceDbRoundTrip
    SizeHintSuffices
    NtopPtonRoundTrip
    GetsockoptReadsBack

CONSTANTS
    HostAnswer <- MCHostAnswer
    HostName <- MCHostName
    SockType <- MCSockType
SPECIFICATION Spec
INVARIANTS
    HostentReadsBack

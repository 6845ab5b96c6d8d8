----------------------------- MODULE MC_Resolver -----------------------------
EXTENDS Resolver

CONSTANTS k1

MCKeys == {k1}

\* hints covering every branch: none, PASSIVE, CANONNAME on a v4 stream
\* request, NUMERICHOST|NUMERICSERV, an IPv6 datagram request, a raw socktype
MCHints ==
    {[flags |-> {}, family |-> 0, socktype |-> 0, protocol |-> 0],
     [flags |-> {"PASSIVE"}, family |-> 0, socktype |-> 0, protocol |-> 0],
     [flags |-> {"CANONNAME"}, family |-> AF_INET, socktype |-> SOCK_STREAM, protocol |-> 0],
     [flags |-> {"NUMERICHOST", "NUMERICSERV"}, family |-> 0, socktype |-> 0, protocol |-> 0],
     [flags |-> {}, family |-> AF_INET6, socktype |-> SOCK_DGRAM, protocol |-> 0],
     [flags |-> {}, family |-> 0, socktype |-> 3, protocol |-> 0]}

MCServices == {"nil", "80", "65536", "http", "bogus"}

\* the tunnel answers an IPv6 address, a string ParseIP rejects, and an IPv4 address
MCHostAnswer == <<"a6", "junk", "a4">>


====

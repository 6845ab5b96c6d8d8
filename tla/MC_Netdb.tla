------------------------------ MODULE MC_Netdb ------------------------------
(* Netdb with the tunnel's answer for "host" holding an IPv6 address, a     *)
(* malformed entry and two IPv4 addresses, and a short host name.           *)
EXTENDS Netdb

MCHostAnswer == <<"fd00::1", "junk", "10.0.0.1", "127.0.0.1">>
MCHostName == "gw-node"
MCSockType == "TypeUDP"
=============================================================================

-------------------------------- MODULE Inet --------------------------------
(***************************************************************************)
(* Data shared by the resolver (Resolver) and the static databases and     *)
(* conversions (Netdb): IP address tokens and their text, Go's             *)
(* net.ParseIP / To4 / IP.String over them, the byte swaps, and the        *)
(* protocol and service tables of proto_svc.go.  No variables.             *)
(*                                                                         *)
(* A 4-byte address is a token of V4.  A 16-byte net.IP is a token of V6   *)
(* or the IPv4-mapped form Mapped(t) of a V4 token, which is what          *)
(* net.ParseIP returns for dotted text and net.IPv4 builds.                *)
(***************************************************************************)
EXTENDS Integers, SequencesExt

AF_INET == 2
AF_INET6 == 23

V4 == {"v4zero", "v4lo", "a4", "bcast"}
V6 == {"v6zero", "v6lo", "a6"}
IPs == V4 \cup V6
IPText == [v4zero |-> "0.0.0.0", v4lo |-> "127.0.0.1", a4 |-> "10.0.0.1",
           bcast |-> "255.255.255.255",
           v6zero |-> "::", v6lo |-> "::1", a6 |-> "fd00::1"]

Mapped(t) == "ffff:" \o t
IP16 == V6 \cup {Mapped(t) : t \in V4}
\* IPv4-mapped text ParseIP accepts
MappedText == "::ffff:10.0.0.1"

\* net.ParseIP: the 16-byte form, or "nil"
ParseIP(s) ==
    CASE \E t \in V4 : IPText[t] = s -> Mapped(CHOOSE t \in V4 : IPText[t] = s)
      [] \E t \in V6 : IPText[t] = s -> CHOOSE t \in V6 : IPText[t] = s
      [] s = MappedText -> Mapped("a4")
      [] OTHER -> "nil"

\* ip.To4(): the 4-byte form of a 4-byte or IPv4-mapped address, else nil
To4(ip) == CASE ip \in V4 -> ip
             [] ip \in {Mapped(t) : t \in V4} -> CHOOSE t \in V4 : Mapped(t) = ip
             [] OTHER -> "nil"

\* ip.String(): dotted decimal whenever To4 succeeds, the IPv6 text otherwise
IPString(ip) == IF To4(ip) # "nil" THEN IPText[To4(ip)] ELSE IPText[ip]

\* htons16 of name_res.go: swap the two bytes of a uint16, whatever the host
htons16(v) == (v \div 256) + ((v % 256) * 256)

\* protoTable of proto_svc.go (name, aliases, number), in order
protoTable ==
    <<[name |-> "icmp", aliases |-> <<"ICMP">>, number |-> 1],
      [name |-> "igmp", aliases |-> <<"IGMP">>, number |-> 2],
      [name |-> "tcp", aliases |-> <<"TCP">>, number |-> 6],
      [name |-> "udp", aliases |-> <<"UDP">>, number |-> 17],
      [name |-> "ipv6", aliases |-> <<"IPv6">>, number |-> 41],
      [name |-> "icmpv6", aliases |-> <<"ICMPv6">>, number |-> 58]>>

\* servTable of proto_svc.go (name, aliases, port, proto), in order
ServRow(n, a, p, pr) == [name |-> n, aliases |-> a, port |-> p, proto |-> pr]
servTable ==
    <<ServRow("echo", <<>>, 7, "tcp"), ServRow("echo", <<>>, 7, "udp"),
      ServRow("ftp-data", <<>>, 20, "tcp"), ServRow("ftp", <<>>, 21, "tcp"),
      ServRow("ssh", <<>>, 22, "tcp"), ServRow("telnet", <<>>, 23, "tcp"),
      ServRow("smtp", <<"mail">>, 25, "tcp"), ServRow("domain", <<"dns">>, 53, "tcp"),
      ServRow("domain", <<"dns">>, 53, "udp"), ServRow("http", <<"www">>, 80, "tcp"),
      ServRow("pop3", <<>>, 110, "tcp"), ServRow("imap", <<>>, 143, "tcp"),
      ServRow("https", <<>>, 443, "tcp"), ServRow("smtps", <<>>, 465, "tcp"),
      ServRow("imaps", <<>>, 993, "tcp"), ServRow("pop3s", <<>>, 995, "tcp")>>

\* strings.ToLower over the mixed-case strings the model uses
UpperCase == [ICMP |-> "icmp", IGMP |-> "igmp", TCP |-> "tcp", UDP |-> "udp",
              IPv6 |-> "ipv6", ICMPv6 |-> "icmpv6", WWW |-> "www"]
Lower(s) == IF s \in DOMAIN UpperCase THEN UpperCase[s] ELSE s

=============================================================================

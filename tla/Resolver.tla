------------------------------ MODULE Resolver ------------------------------
(***************************************************************************)
(* The getaddrinfo / freeaddrinfo / getnameinfo resolver of name_res.go.   *)
(*                                                                         *)
(* getaddrinfo builds one bundle per call: the addrinfo nodes, the         *)
(* companion sockaddr_in / sockaddr_in6 arrays and an optional canonical   *)
(* name buffer, and publishes it in aiAllocs under aiMu, keyed by the      *)
(* address of its first node.  freeaddrinfo deletes that key.  getnameinfo *)
(* reads a sockaddr back into host and service strings.                    *)
(*                                                                         *)
(* Data is abstracted: an IP address is a token of V4 or V6, a string      *)
(* that no property inspects is a token with its length, a pointer is a    *)
(* (key, node index) pair.  The node-building loop is translated as the    *)
(* RECURSIVE operator Fill.                                                *)
(***************************************************************************)
EXTENDS Inet, FiniteSets, TLC

CONSTANTS
    Keys,        \* addresses a first node can have: bounds the live bundles
    Hints,       \* the hints records callers pass (flags, family, socktype, protocol)
    Services,    \* service strings callers pass, "nil" for a NULL service
    HostAnswer   \* what the tunnel DNS answers for the name "host"

SOCK_STREAM == 1
SOCK_DGRAM == 2
IPPROTO_TCP == 6
IPPROTO_UDP == 17
EAI_MEMORY == 8
EAI_NONAME == 11001
EAI_AGAIN == 11002
EAI_FAIL == 11003
EAI_SERVICE == 10109
Null == 0

\* ip.To4() != nil selects V4; "junk" is a DNS answer ParseIP rejects.
\* node strings: NULL, two numeric literals, a name the tunnel resolves, one it does not
NodeIn == {"nil", "a4", "a6", "host", "nohost"}
\* strconv.Atoi and net.LookupPort over the service strings callers pass
AtoiTable == [s \in {"80", "65535", "65536", "-1"} |-> CASE s = "80" -> 80
                                                        [] s = "65535" -> 65535
                                                        [] s = "65536" -> 65536
                                                        [] s = "-1" -> -1]
LookupPortTable == [http |-> 80]
Family(ip) == IF ip \in V4 THEN AF_INET ELSE AF_INET6

VARIABLES
    aiAllocs,   \* key (address of the first node) -> bundle
    gaiRet,     \* what the last getaddrinfo returned
    ni          \* the last getnameinfo result, with the port its sockaddr was built for

vars == <<aiAllocs, gaiRet, ni>>

(***************************************************************************)
(* getaddrinfo, step by step.  Each operator returns either a value or an  *)
(* error code, [err |-> code] with code 0 meaning "go on".                 *)
(***************************************************************************)
\* Service -> port: Atoi, else AI_NUMERICSERV fails, else LookupPort
ServicePort(svc, h) ==
    CASE svc = "nil" -> [err |-> 0, port |-> 0]
      [] svc \in DOMAIN AtoiTable -> [err |-> 0, port |-> AtoiTable[svc]]
      [] "NUMERICSERV" \in h.flags -> [err |-> EAI_SERVICE, port |-> 0]
      [] svc \in DOMAIN LookupPortTable -> [err |-> 0, port |-> LookupPortTable[svc]]
      [] OTHER -> [err |-> EAI_SERVICE, port |-> 0]

\* Node -> IPs: wildcard or loopback for NULL, ParseIP, else the tunnel lookup
ResolveIPs(node, h, stackUp) ==
    LET fam == h.family
        pick(a, b) == (IF fam = 0 \/ fam = AF_INET THEN <<a>> ELSE <<>>)
                        \o (IF fam = 0 \/ fam = AF_INET6 THEN <<b>> ELSE <<>>)
    IN CASE node = "nil" /\ "PASSIVE" \in h.flags -> [err |-> 0, ips |-> pick("v4zero", "v6zero")]
         [] node = "nil" -> [err |-> 0, ips |-> pick("v4lo", "v6lo")]
         [] node \in IPs -> [err |-> 0, ips |-> <<node>>]
         [] "NUMERICHOST" \in h.flags -> [err |-> EAI_NONAME, ips |-> <<>>]
         [] ~stackUp -> [err |-> EAI_AGAIN, ips |-> <<>>]
         [] node = "nohost" -> [err |-> EAI_NONAME, ips |-> <<>>]
         [] OTHER -> [err |-> 0, ips |-> SelectSeq(HostAnswer, LAMBDA r : r \in IPs)]

\* Filter by requested family (only when a family was hinted)
FilterFamily(ips, fam) ==
    IF fam = 0 THEN ips
    ELSE SelectSeq(ips, LAMBDA ip : (fam = AF_INET /\ ip \in V4) \/ (fam = AF_INET6 /\ ip \in V6))

\* (mutant) the hinted protocol taken as is, never defaulted
PairsNoDefault(h) ==
    IF h.socktype # 0
    THEN <<[socktype |-> h.socktype, protocol |-> h.protocol]>>
    ELSE <<[socktype |-> SOCK_STREAM, protocol |-> IPPROTO_TCP],
           [socktype |-> SOCK_DGRAM, protocol |-> IPPROTO_UDP]>>

\* Socktype/protocol pairs: the hinted socktype, its protocol defaulted, else both
Pairs(h) ==
    IF h.socktype # 0
    THEN <<[socktype |-> h.socktype,
            protocol |-> CASE h.protocol # 0 -> h.protocol
                           [] h.socktype = SOCK_STREAM -> IPPROTO_TCP
                           [] h.socktype = SOCK_DGRAM -> IPPROTO_UDP
                           [] OTHER -> 0]>>
    ELSE <<[socktype |-> SOCK_STREAM, protocol |-> IPPROTO_TCP],
           [socktype |-> SOCK_DGRAM, protocol |-> IPPROTO_UDP]>>

ZeroSa == [family |-> 0, port |-> 0, ip |-> "none"]

\* The nested "for ip / for pair" loop; a.idx runs over ips x pairs in order.
RECURSIVE Fill(_, _, _, _, _)
Fill(ips, pairs, netPort, hFlags, a) ==
    LET total == Len(ips) * Len(pairs)
    IN IF a.idx = total THEN a
       ELSE LET ip == ips[a.idx \div Len(pairs) + 1]
                pair == pairs[(a.idx % Len(pairs)) + 1]
                v4 == ip \in V4
                sa == [family |-> Family(ip), port |-> netPort, ip |-> ip]
                info == [flags |-> hFlags, family |-> Family(ip),
                         socktype |-> pair.socktype, protocol |-> pair.protocol,
                         addr |-> IF v4 THEN <<AF_INET, a.i4 + 1>> ELSE <<AF_INET6, a.i6 + 1>>,
                         addrlen |-> IF v4 THEN 16 ELSE 28,
                         next |-> IF a.idx + 1 < total THEN a.idx + 2 ELSE Null,
                         canon |-> "none"]
            IN Fill(ips, pairs, netPort, hFlags,
                    [idx |-> a.idx + 1,
                     i4 |-> IF v4 THEN a.i4 + 1 ELSE a.i4,
                     i6 |-> IF v4 THEN a.i6 ELSE a.i6 + 1,
                     nodes |-> Append(a.nodes, info),
                     addrs4 |-> IF v4 THEN [a.addrs4 EXCEPT ![a.i4 + 1] = sa] ELSE a.addrs4,
                     addrs6 |-> IF v4 THEN a.addrs6 ELSE [a.addrs6 EXCEPT ![a.i6 + 1] = sa]])

\* Allocate the bundle, run the loop, attach the canonical name
BuildAlloc(req, ips, pairs, port) ==
    LET n4 == Len(SelectSeq(ips, LAMBDA ip : ip \in V4))
        n6 == Len(ips) - n4
        a == Fill(ips, pairs, htons16(port % 65536), req.hints.flags,
                  [idx |-> 0, i4 |-> 0, i6 |-> 0, nodes |-> <<>>,
                   addrs4 |-> [i \in 1..n4 * Len(pairs) |-> ZeroSa],
                   addrs6 |-> [i \in 1..n6 * Len(pairs) |-> ZeroSa]])
        canon == "CANONNAME" \in req.hints.flags /\ req.node # "nil"
    IN [nodes |-> IF canon THEN [a.nodes EXCEPT ![1].canon = "narrow"] ELSE a.nodes,
        addrs4 |-> a.addrs4, addrs6 |-> a.addrs6,
        bufs |-> IF canon THEN 1 ELSE 0, wbufs |-> 0,
        req |-> req]   \* req: history of the request, read only by properties

\* The whole of GoGetaddrinfo: [ret, alloc]
Getaddrinfo(node, svc, h, stackUp) ==
    LET sp == ServicePort(svc, h)
        rs == ResolveIPs(node, h, stackUp)
        ips == FilterFamily(rs.ips, h.family)
        req == [node |-> node, svc |-> svc, hints |-> h]
    IN CASE sp.err # 0 -> [ret |-> sp.err]
         [] rs.err # 0 -> [ret |-> rs.err]
         [] ips = <<>> -> [ret |-> EAI_NONAME]
         [] OTHER -> [ret |-> 0, alloc |-> BuildAlloc(req, ips, Pairs(h), sp.port)]

\* getaddrinfo over every input the model passes, computed once
GaiTable == [x \in NodeIn \X Services \X Hints \X BOOLEAN |-> Getaddrinfo(x[1], x[2], x[3], x[4])]

(***************************************************************************)
(* getnameinfo: sockaddr -> host and service strings.                      *)
(***************************************************************************)
NullSa == [family |-> 0, port |-> 0, ip |-> "none"]
OtherSa == [family |-> 1, port |-> 0, ip |-> "none"]

\* The host string: numeric, the PTR answer, the numeric fallback, or none (NAMEREQD)
HostString(ip, flags, ptr) ==
    CASE "NUMERICHOST" \in flags -> IPText[ip]
      [] ptr # "" -> ptr
      [] "NAMEREQD" \notin flags -> IPText[ip]
      [] OTHER -> "none"

\* The service string: decimal, or the servTable name for (port, tcp|udp), else decimal.
\* servTable ports are below 2^15, so int16(port) matches exactly the same entries.
ServString(port, flags) ==
    LET proto == IF "DGRAM" \in flags THEN "udp" ELSE "tcp"
        i == SelectInSeq(servTable, LAMBDA e : e.port = port /\ e.proto = proto)
    IN IF "NUMERICSERV" \notin flags /\ i # 0 THEN servTable[i].name
       ELSE ToString(port)

\* (mutant) the port read from the sockaddr without the byte swap
NameInfoNoSwap(sa, flags, hostlen, servlen, ptr) ==
    LET port == sa.port
        hostStr == HostString(sa.ip, flags, ptr)
        svcStr == ServString(port, flags)
        hostOut == IF hostlen > 0 THEN hostStr ELSE ""
    IN CASE sa = NullSa \/ sa.family \notin {AF_INET, AF_INET6} -> [ret |-> EAI_FAIL, host |-> "", serv |-> ""]
         [] hostlen > 0 /\ hostStr = "none" -> [ret |-> EAI_NONAME, host |-> "", serv |-> ""]
         [] hostlen > 0 /\ Len(hostStr) + 1 > hostlen -> [ret |-> EAI_MEMORY, host |-> "", serv |-> ""]
         [] servlen > 0 /\ Len(svcStr) + 1 > servlen -> [ret |-> EAI_MEMORY, host |-> hostOut, serv |-> ""]
         [] OTHER -> [ret |-> 0, host |-> hostOut, serv |-> IF servlen > 0 THEN svcStr ELSE ""]

\* GoGetnameinfo with output buffers of hostlen and servlen bytes (0: no buffer).
\* The host buffer is written before the service is checked.
NameInfo(sa, flags, hostlen, servlen, ptr) ==
    LET port == htons16(sa.port)
        hostStr == HostString(sa.ip, flags, ptr)
        svcStr == ServString(port, flags)
        hostOut == IF hostlen > 0 THEN hostStr ELSE ""
    IN CASE sa = NullSa \/ sa.family \notin {AF_INET, AF_INET6} -> [ret |-> EAI_FAIL, host |-> "", serv |-> ""]
         [] hostlen > 0 /\ hostStr = "none" -> [ret |-> EAI_NONAME, host |-> "", serv |-> ""]
         [] hostlen > 0 /\ Len(hostStr) + 1 > hostlen -> [ret |-> EAI_MEMORY, host |-> "", serv |-> ""]
         [] servlen > 0 /\ Len(svcStr) + 1 > servlen -> [ret |-> EAI_MEMORY, host |-> hostOut, serv |-> ""]
         [] OTHER -> [ret |-> 0, host |-> hostOut, serv |-> IF servlen > 0 THEN svcStr ELSE ""]

\* GoGetNameInfoW: the narrow call into 256- and 64-byte buffers, then each
\* string re-encoded into the caller's buffer (ASCII: one unit per byte).
NameInfoW(sa, flags, hostlen, servlen, ptr) ==
    LET r == NameInfo(sa, flags, IF hostlen > 0 THEN 256 ELSE 0, IF servlen > 0 THEN 64 ELSE 0, ptr)
    IN CASE r.ret # 0 -> [ret |-> r.ret, host |-> "", serv |-> ""]
         [] hostlen > 0 /\ Len(r.host) + 1 > hostlen -> [ret |-> EAI_MEMORY, host |-> "", serv |-> ""]
         [] servlen > 0 /\ Len(r.serv) + 1 > servlen -> [ret |-> EAI_MEMORY, host |-> r.host, serv |-> ""]
         [] OTHER -> r

(***************************************************************************)
(* The state machine.                                                      *)
(***************************************************************************)
HostLens == {0, 8, 256}
ServLens == {0, 3, 64}
NIFlags == SUBSET {"NUMERICHOST", "NAMEREQD", "NUMERICSERV", "DGRAM"}
PtrAnswers == {"", "gw.lan"}
MaxNodes == 4

\* the port a bundle's request asked for (the service always parsed: it succeeded)
ReqPort(a) == ServicePort(a.req.svc, a.req.hints).port

\* every sockaddr of a live bundle, with the port its request asked for
LiveSockaddrs ==
    UNION {{[sa |-> aiAllocs[k].addrs4[i], port |-> ReqPort(aiAllocs[k])] : i \in DOMAIN aiAllocs[k].addrs4}
           \cup {[sa |-> aiAllocs[k].addrs6[i], port |-> ReqPort(aiAllocs[k])] : i \in DOMAIN aiAllocs[k].addrs6}
           : k \in DOMAIN aiAllocs}

Init ==
    /\ aiAllocs = << >>
    /\ gaiRet = 0
    /\ ni = [ret |-> 0, serv |-> "", port |-> 0]

\* (mutant) a NULL res reported as WSAEINVAL
GoGetaddrinfoEinval(node, svc, h, stackUp, resNil) ==
    LET r == GaiTable[<<node, svc, h, stackUp>>]
    IN \/ /\ resNil
          /\ gaiRet' = 10022
          /\ UNCHANGED <<aiAllocs, ni>>
       \/ /\ ~resNil
          /\ r.ret # 0
          /\ gaiRet' = r.ret
          /\ UNCHANGED <<aiAllocs, ni>>
       \/ /\ ~resNil
          /\ r.ret = 0
          /\ \E k \in Keys \ DOMAIN aiAllocs :
                aiAllocs' = aiAllocs @@ (k :> r.alloc)
          /\ gaiRet' = 0
          /\ UNCHANGED ni

\* getaddrinfo(node, service, hints, res); res = NULL fails before anything else
GoGetaddrinfo(node, svc, h, stackUp, resNil) ==
    LET r == GaiTable[<<node, svc, h, stackUp>>]
    IN \/ /\ resNil
          /\ gaiRet' = EAI_FAIL
          /\ UNCHANGED <<aiAllocs, ni>>
       \/ /\ ~resNil
          /\ r.ret # 0
          /\ gaiRet' = r.ret
          /\ UNCHANGED <<aiAllocs, ni>>
       \/ /\ ~resNil
          /\ r.ret = 0
          /\ \E k \in Keys \ DOMAIN aiAllocs :
                aiAllocs' = aiAllocs @@ (k :> r.alloc)
          /\ gaiRet' = 0
          /\ UNCHANGED ni

\* (mutant) the UTF-16 name installed but its buffer not kept by the bundle
GoGetAddrInfoWNoKeep(node, svc, h, stackUp) ==
    LET r == GaiTable[<<node, svc, h, stackUp>>]
        wide(a) == IF a.nodes[1].canon # "none"
                   THEN [a EXCEPT !.nodes[1].canon = "wide"]
                   ELSE a
    IN /\ r.ret = 0
       /\ \E k \in Keys \ DOMAIN aiAllocs :
             aiAllocs' = aiAllocs @@ (k :> wide(r.alloc))
       /\ gaiRet' = 0
       /\ UNCHANGED ni

\* GetAddrInfoW: the narrow call, then the canonical name re-encoded to UTF-16
\* and its buffer appended to the bundle under aiMu
GoGetAddrInfoW(node, svc, h, stackUp) ==
    LET r == GaiTable[<<node, svc, h, stackUp>>]
        wide(a) == IF a.nodes[1].canon # "none"
                   THEN [a EXCEPT !.nodes[1].canon = "wide", !.wbufs = @ + 1]
                   ELSE a
    IN /\ r.ret = 0
       /\ \E k \in Keys \ DOMAIN aiAllocs :
             aiAllocs' = aiAllocs @@ (k :> wide(r.alloc))
       /\ gaiRet' = 0
       /\ UNCHANGED ni

\* freeaddrinfo(p) / FreeAddrInfoW: delete(aiAllocs, uintptr(p)).  A pointer
\* to node i > 1, or to a bundle already freed, matches no key.
GoFreeaddrinfo(k, i) ==
    /\ aiAllocs' = IF i = 1 THEN Restrict(aiAllocs, DOMAIN aiAllocs \ {k}) ELSE aiAllocs
    /\ UNCHANGED <<gaiRet, ni>>

\* getnameinfo / GetNameInfoW on a NULL sockaddr, an unknown family, or a sockaddr of a live bundle
GoGetnameinfo(in, flags, hostlen, servlen, ptr, wideCall) ==
    LET r == IF wideCall THEN NameInfoW(in.sa, flags, hostlen, servlen, ptr)
                         ELSE NameInfo(in.sa, flags, hostlen, servlen, ptr)
    IN /\ ni' = [ret |-> r.ret, serv |-> r.serv, port |-> in.port]
       /\ UNCHANGED <<aiAllocs, gaiRet>>

Next ==
    \/ \E node \in NodeIn, svc \in Services, h \in Hints, up \in BOOLEAN, rn \in BOOLEAN :
          GoGetaddrinfo(node, svc, h, up, rn)
    \/ \E node \in NodeIn, svc \in Services, h \in Hints, up \in BOOLEAN :
          GoGetAddrInfoW(node, svc, h, up)
    \/ \E k \in Keys, i \in 1..MaxNodes : GoFreeaddrinfo(k, i)
    \/ \E in \in LiveSockaddrs \cup {[sa |-> NullSa, port |-> 0], [sa |-> OtherSa, port |-> 0]},
          flags \in NIFlags, hl \in HostLens, sl \in ServLens, ptr \in PtrAnswers, w \in BOOLEAN :
          GoGetnameinfo(in, flags, hl, sl, ptr, w)

Spec == Init /\ [][Next]_vars

(***************************************************************************)
(* Properties.                                                             *)
(***************************************************************************)
NodeRec == [flags : SUBSET {"PASSIVE", "CANONNAME", "NUMERICHOST", "NUMERICSERV"},
            family : {AF_INET, AF_INET6}, socktype : Nat, protocol : Nat,
            addr : {AF_INET, AF_INET6} \X (1..MaxNodes), addrlen : {16, 28},
            next : 0..MaxNodes, canon : {"none", "narrow", "wide"}]
SaRec == [family : {0, AF_INET, AF_INET6}, port : 0..65535, ip : IPs \cup {"none"}]

TypeOK ==
    /\ DOMAIN aiAllocs \subseteq Keys
    /\ \A k \in DOMAIN aiAllocs :
          /\ aiAllocs[k].nodes \in Seq(NodeRec)
          /\ aiAllocs[k].addrs4 \in Seq(SaRec)
          /\ aiAllocs[k].addrs6 \in Seq(SaRec)
          /\ aiAllocs[k].bufs \in 0..1
          /\ aiAllocs[k].wbufs \in 0..1
    /\ gaiRet \in {0, EAI_MEMORY, EAI_NONAME, EAI_AGAIN, EAI_FAIL, EAI_SERVICE}
    /\ ni.ret \in {0, EAI_MEMORY, EAI_NONAME, EAI_FAIL}

\* The sockaddr a node's ai_addr points at
SockaddrOf(a, addr) == IF addr[1] = AF_INET THEN a.addrs4[addr[2]] ELSE a.addrs6[addr[2]]

\* Every live bundle returned by getaddrinfo (or GetAddrInfoW) is a well-formed
\* chain: following ai_next from the first node visits every node once and ends
\* at NULL; the ai_addr pointers hit every companion sockaddr exactly once, each
\* of the node's family and with the matching ai_addrlen; only the first node
\* carries a canonical name, and the buffer it points at is held by the bundle.
ChainWellFormed ==
    \A k \in DOMAIN aiAllocs :
        LET a == aiAllocs[k]
            n == Len(a.nodes)
            slots == {<<AF_INET, j>> : j \in DOMAIN a.addrs4} \cup {<<AF_INET6, j>> : j \in DOMAIN a.addrs6}
            addrOf == [i \in 1..n |-> a.nodes[i].addr]
        IN /\ n >= 1
           /\ \A i \in 1..n : a.nodes[i].next = IF i < n THEN i + 1 ELSE Null
           /\ IsInjective(addrOf) /\ Range(addrOf) = slots
           /\ \A i \in 1..n : /\ SockaddrOf(a, a.nodes[i].addr).family = a.nodes[i].family
                              /\ a.nodes[i].addrlen = IF a.nodes[i].family = AF_INET THEN 16 ELSE 28
           /\ \A i \in 2..n : a.nodes[i].canon = "none"
           /\ a.bufs = (IF a.nodes[1].canon = "none" THEN 0 ELSE 1)
           /\ a.wbufs = (IF a.nodes[1].canon = "wide" THEN 1 ELSE 0)

\* The reference layout, from the resolver's description: the addresses of the
\* node (wildcard or loopback for NULL, the literal, or the tunnel's answer),
\* filtered by the hinted family, times the socktype/protocol pairs, address-major.
RefIPs(r) ==
    LET cand == CASE r.node = "nil" /\ "PASSIVE" \in r.hints.flags -> <<"v4zero", "v6zero">>
                  [] r.node = "nil" -> <<"v4lo", "v6lo">>
                  [] r.node \in IPs -> <<r.node>>
                  [] OTHER -> SelectSeq(HostAnswer, LAMBDA x : x \in IPs)
    IN SelectSeq(cand, LAMBDA ip : r.hints.family \in {0, Family(ip)})
RefPairs(h) ==
    LET default == [t \in {SOCK_STREAM, SOCK_DGRAM} |-> IF t = SOCK_STREAM THEN IPPROTO_TCP ELSE IPPROTO_UDP]
    IN CASE h.socktype = 0 -> <<<<SOCK_STREAM, IPPROTO_TCP>>, <<SOCK_DGRAM, IPPROTO_UDP>>>>
         [] h.protocol = 0 /\ h.socktype \in DOMAIN default -> <<<<h.socktype, default[h.socktype]>>>>
         [] OTHER -> <<<<h.socktype, h.protocol>>>>

\* Every live bundle lists, node by node, exactly the reference layout for the
\* request that built it: the right address in the node's sockaddr, the right
\* socktype and protocol, in address-major order.
ResultMatchesRequest ==
    \A k \in DOMAIN aiAllocs :
        LET a == aiAllocs[k]
            ips == RefIPs(a.req)
            ps == RefPairs(a.req.hints)
        IN /\ Len(a.nodes) = Len(ips) * Len(ps)
           /\ \A i \in 1..Len(a.nodes) :
                 /\ SockaddrOf(a, a.nodes[i].addr).ip = ips[((i - 1) \div Len(ps)) + 1]
                 /\ <<a.nodes[i].socktype, a.nodes[i].protocol>> = ps[((i - 1) % Len(ps)) + 1]

\* getnameinfo (either variant) on any sockaddr of a getaddrinfo result whose
\* service named a port in 0..65535 reports that port back: as its decimal
\* string, or as a servTable name registered for it.  This composes the two
\* byte swaps (getaddrinfo's htons16 on store, getnameinfo's on load).
PortRoundTrip ==
    (ni.ret = 0 /\ ni.serv # "" /\ ni.port \in 0..65535)
        => ni.serv \in {ToString(ni.port)} \cup {e.name : e \in {x \in ToSet(servTable) : x.port = ni.port}}

====

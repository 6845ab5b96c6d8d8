------------------------------- MODULE Netdb -------------------------------
(***************************************************************************)
(* The calls that answer from process-wide static buffers or convert       *)
(* between addresses and text: gethostbyname and gethostbyaddr (the static *)
(* hostent of name_res.go), getservbyname/getservbyport and                *)
(* getprotobyname/getprotobynumber (the static servent and protoent of     *)
(* proto_svc.go), inet_addr/inet_ntoa/inet_pton/inet_ntop and their wide   *)
(* forms, WSAAddressToString/WSAStringToAddress, gethostname (addr_res.go) *)
(* the byte-order calls of byte_order.go, and the option store behind    *)
(* setsockopt and getsockopt (conf_ctl.go).                              *)
(*                                                                         *)
(* servent, protoent and the inet_ntoa buffer are rewritten field by field *)
(* by every fill, so what a caller reads back is a function of the last    *)
(* fill, recorded in last.  The hostent's address slots are only partly    *)
(* rewritten, so they are state of their own: hostSlots.  A slot holds one *)
(* 4-byte word: a V4 token, the j-th word u#j of a V6 token u, or "0".    *)
(* An n-byte integer is the sequence of its bytes, most significant first. *)
(***************************************************************************)
EXTENDS Inet, TLC

CONSTANTS
    HostAnswer,   \* the texts the tunnel DNS answers for the name "host"
    HostName,     \* what os.Hostname returns, "err" when it fails
    SockType      \* st.Type of the socket whose options are set and read

WSAEFAULT == 10014
WSAENOTSOCK == 10038
WSAENOTCONN == 10057
WSAEINVAL == 10022
WSAEAFNOSUPPORT == 10047
WSAENOBUFS == 10055
EAI_NONAME == 11001
HostSlots == 16    \* staticHostAddrs [16][4]byte
\* a NULL lpAddressLength is NilLen; the lengths passed are never negative
NilLen == -1

VARIABLES
    littleEndian, \* isLittleEndian, fixed by init() for the build
    hostSlots,    \* staticHostAddrs, slot i = staticHostAddrs[i]
    last,         \* what the last call handed its caller, static struct read back included
    lastError,    \* the process-wide last-error cell
    options       \* st.Options: option name -> the raw bytes setsockopt stored

vars == <<littleEndian, hostSlots, last, lastError, options>>

\* The 4-byte words of an address
Words(a) == IF a \in V4 THEN <<a>> ELSE [j \in 1..4 |-> a \o <<"#1", "#2", "#3", "#4">>[j]]

Init ==
    /\ littleEndian \in BOOLEAN
    /\ hostSlots = [i \in 0..HostSlots - 1 |-> "0"]
    /\ last = [call |-> "none", ret |-> 0]
    /\ lastError = 0
    /\ options = <<>>

\* A call that fails after setLastError(code)
Fail(call, code) ==
    /\ last' = [call |-> call, ret |-> "null"]
    /\ lastError' = code
    /\ UNCHANGED <<littleEndian, hostSlots, options>>

\* A call that touches neither the hostent nor the last-error cell
Answer(r) ==
    /\ last' = r
    /\ UNCHANGED <<littleEndian, hostSlots, lastError, options>>

(***************************************************************************)
(* The static hostent.                                                     *)
(***************************************************************************)
\* Fill the static hostent: the name, a NULL alias list, the family and
\* length, and h_addr_list[i] -> staticHostAddrs[i] for at most 16
\* addresses, each copied as its first 4 bytes, then a NULL.
FillHostent(call, name, type, length, addrs) ==
    LET count == IF Len(addrs) > HostSlots THEN HostSlots ELSE Len(addrs)
    IN /\ hostSlots' = [i \in 0..HostSlots - 1 |->
                          IF i < count THEN Words(addrs[i + 1])[1] ELSE hostSlots[i]]
       /\ last' = [call |-> call, ret |-> "hostent", name |-> name, addrtype |-> type,
                   length |-> length, list |-> SubSeq(addrs, 1, count)]
       /\ UNCHANGED <<littleEndian, lastError, options>>

\* gethostbyname: a literal is taken if it is IPv4; a name goes to the tunnel
\* (down: no stack) and only its IPv4 answers are kept.
GoGethostbyname(name, stackUp) ==
    LET ip == ParseIP(name)
        answers == SelectSeq(HostAnswer, LAMBDA r : To4(ParseIP(r)) # "nil")
        addrs == IF ip # "nil"
                 THEN IF To4(ip) # "nil" THEN <<To4(ip)>> ELSE <<>>
                 ELSE IF stackUp /\ name = "host"
                      THEN [k \in 1..Len(answers) |-> To4(ParseIP(answers[k]))]
                      ELSE <<>>
    IN \/ /\ name = "nil"
          /\ Fail("gethostbyname", WSAEINVAL)
       \/ /\ name # "nil" /\ addrs = <<>>
          /\ Fail("gethostbyname", EAI_NONAME)
       \/ /\ name # "nil" /\ addrs # <<>>
          /\ FillHostent("gethostbyname", name, AF_INET, 4, addrs)

\* gethostbyaddr without its family and length check
GoGethostbyaddrNoFamilyCheck(in, ptr) ==
    \/ /\ in.addr = "nil"
       /\ Fail("gethostbyaddr", WSAEINVAL)
    \/ /\ in.addr # "nil" /\ ptr \in {"err", ""}
       /\ Fail("gethostbyaddr", EAI_NONAME)
    \/ /\ in.addr # "nil" /\ ptr \notin {"err", ""}
       /\ FillHostent("gethostbyaddr", ptr, in.type, in.len, <<in.addr>>)

\* gethostbyaddr: (AF_INET, 4) or (AF_INET6, 16), then lookupPTR over the
\* tunnel, whose outcome ptr is "err" (no stack, no DNS server, no answer),
\* an empty name, or a name.
GoGethostbyaddr(in, ptr) ==
    LET supported == <<in.type, in.len>> \in {<<AF_INET, 4>>, <<AF_INET6, 16>>}
    IN \/ /\ in.addr = "nil"
          /\ Fail("gethostbyaddr", WSAEINVAL)
       \/ /\ in.addr # "nil" /\ ~supported
          /\ Fail("gethostbyaddr", WSAEAFNOSUPPORT)
       \/ /\ in.addr # "nil" /\ supported /\ ptr \in {"err", ""}
          /\ Fail("gethostbyaddr", EAI_NONAME)
       \/ /\ in.addr # "nil" /\ supported /\ ptr \notin {"err", ""}
          /\ FillHostent("gethostbyaddr", ptr, in.type, in.len, <<in.addr>>)

(***************************************************************************)
(* The static servent and protoent.                                        *)
(***************************************************************************)
\* fillServent storing the table port without htons
ServentNoSwap(e) == [name |-> e.name,
                     alias |-> IF e.aliases = <<>> THEN "nil" ELSE Head(e.aliases),
                     port |-> e.port % 65536, proto |-> e.proto]

\* fillServent: what the caller reads, s_port in network order
Servent(e) == [name |-> e.name,
               alias |-> IF e.aliases = <<>> THEN "nil" ELSE Head(e.aliases),
               port |-> htons16(e.port % 65536), proto |-> e.proto]

\* net.LookupPort for a name servTable misses: decimal strings within 0..65535
LookupPortTable == [s \in {"80"} |-> 80]

GoGetservbyname(name, proto) ==
    LET search == Lower(name)
        pf == IF proto = "nil" THEN "" ELSE Lower(proto)
        i == SelectInSeq(servTable, LAMBDA e : /\ pf \in {"", e.proto}
                                               /\ search \in {e.name} \cup ToSet(e.aliases))
        netProto == IF pf = "" THEN "tcp" ELSE pf
        found == name # "nil" /\ (i # 0 \/ search \in DOMAIN LookupPortTable)
    IN Answer([call |-> "getservbyname", name |-> search, proto |-> pf, ret |-> found] @@
              (IF ~found THEN << >>
               ELSE [ent |-> IF i # 0 THEN Servent(servTable[i])
                             ELSE Servent(ServRow(search, <<>>, LookupPortTable[search], netProto))]))

\* getservbyport: port arrives in network order; its low 16 bits are swapped
\* back.  int16 comparison matches the same rows: every table port is < 2^15.
GoGetservbyport(port, proto) ==
    LET hostPort == htons16(port % 65536)
        pf == IF proto = "nil" THEN "" ELSE Lower(proto)
        i == SelectInSeq(servTable, LAMBDA e : pf \in {"", e.proto} /\ e.port = hostPort)
    IN Answer([call |-> "getservbyport", port |-> port, proto |-> pf, ret |-> i # 0] @@
              (IF i = 0 THEN << >> ELSE [ent |-> Servent(servTable[i])]))

Protoent(e) == [name |-> e.name, alias |-> Head(e.aliases), proto |-> e.number]

GoGetprotobyname(name) ==
    LET search == Lower(name)
        i == SelectInSeq(protoTable, LAMBDA e : search \in {e.name} \cup {Lower(a) : a \in ToSet(e.aliases)})
    IN Answer([call |-> "getprotobyname", name |-> name, ret |-> name # "nil" /\ i # 0] @@
              (IF name # "nil" /\ i # 0 THEN [ent |-> Protoent(protoTable[i])] ELSE << >>))

GoGetprotobynumber(n) ==
    LET i == SelectInSeq(protoTable, LAMBDA e : e.number = n)
    IN Answer([call |-> "getprotobynumber", number |-> n, ret |-> i # 0] @@
              (IF i = 0 THEN << >> ELSE [ent |-> Protoent(protoTable[i])]))

(***************************************************************************)
(* Address conversions.  inet_addr's failure value INADDR_NONE is the      *)
(* uint32 0xFFFFFFFF, the value of "bcast".                                *)
(***************************************************************************)
INADDR_NONE == "bcast"

InetAddr(text) == IF To4(ParseIP(text)) # "nil" THEN To4(ParseIP(text)) ELSE INADDR_NONE

\* inet_pton copying ip rather than ip.To4() into the 4-byte result: the
\* first 4 bytes of the 16-byte form, all zero for dotted text
InetPtonNoTo4(family, src) ==
    LET ip == ParseIP(src)
    IN CASE src = "nil" -> [ret |-> -1, err |-> WSAEFAULT]
         [] ip = "nil" -> [ret |-> 0]
         [] family = AF_INET /\ To4(ip) = "nil" -> [ret |-> 0]
         [] family = AF_INET -> [ret |-> 1, out |-> IF ip \in V6 THEN Words(ip)[1] ELSE "v4zero"]
         [] family = AF_INET6 -> [ret |-> 1, out |-> ip]
         [] OTHER -> [ret |-> -1, err |-> WSAEFAULT]

\* inet_pton: the text parsed first, then the family looked at
InetPton(family, src) ==
    LET ip == ParseIP(src)
    IN CASE src = "nil" -> [ret |-> -1, err |-> WSAEFAULT]
         [] ip = "nil" -> [ret |-> 0]
         [] family = AF_INET /\ To4(ip) = "nil" -> [ret |-> 0]
         [] family = AF_INET -> [ret |-> 1, out |-> To4(ip)]
         [] family = AF_INET6 -> [ret |-> 1, out |-> ip]
         [] OTHER -> [ret |-> -1, err |-> WSAEFAULT]

\* InetPtonW: utf16.Decode of the ASCII text, then InetPton line for line
InetPtonW(family, src) == InetPton(family, src)

\* inet_ntop: 4 bytes through net.IPv4 or 16 bytes as they are, ip.String(),
\* then the caller's size checked against the string and its NUL
InetNtop(family, src, size) ==
    LET s == IPString(src)
    IN CASE src = "nil" \/ family \notin {AF_INET, AF_INET6} -> [ret |-> "null", err |-> WSAEFAULT]
         [] Len(s) + 1 > size -> [ret |-> "null", err |-> WSAENOBUFS]
         [] OTHER -> [ret |-> s]

\* InetNtopW: the string re-encoded to UTF-16, one unit per ASCII byte
InetNtopW(family, src, size) == InetNtop(family, src, size)

\* WSAAddressToString writing back the string length without its NUL
AddressToStringNoNul(sa, lenIn) ==
    LET s == IPString(sa.addr)
    IN CASE sa.family # AF_INET -> [ret |-> -1, len |-> lenIn]
         [] Len(s) + 1 > lenIn -> [ret |-> -1, len |-> Len(s)]
         [] OTHER -> [ret |-> 0, len |-> Len(s) + 1, text |-> s]

\* WSAAddressToString: AF_INET only, the port ignored; a short buffer gets
\* the length it needs (string and NUL) written back
AddressToString(sa, lenIn) ==
    LET s == IPString(sa.addr)
    IN CASE sa.family # AF_INET -> [ret |-> -1, len |-> lenIn]
         [] Len(s) + 1 > lenIn -> [ret |-> -1, len |-> Len(s) + 1]
         [] OTHER -> [ret |-> 0, len |-> Len(s) + 1, text |-> s]

\* WSAStringToAddress: IPv4 text only, whatever the family asked for; a
\* length below sizeof(sockaddr_in) gets 16 written back
StringToAddress(text, lenIn) ==
    LET ip4 == To4(ParseIP(text))
    IN CASE ip4 = "nil" -> [ret |-> -1, len |-> lenIn]
         [] lenIn < 16 -> [ret |-> -1, len |-> 16]
         [] OTHER -> [ret |-> 0, len |-> 16, sa |-> [family |-> AF_INET, port |-> 0, addr |-> ip4]]

GoInet_addr(text) ==
    Answer([call |-> "inet_addr", text |-> text, ret |-> InetAddr(text)])

\* inet_ntoa: the dotted string copied into the 16-byte static buffer
GoInet_ntoa(in) ==
    Answer([call |-> "inet_ntoa", in |-> in, ret |-> IPString(in)])

GoInet_pton(family, src, wide) ==
    LET r == IF wide THEN InetPtonW(family, src) ELSE InetPton(family, src)
    IN /\ last' = [call |-> "inet_pton", family |-> family, src |-> src, ret |-> r.ret,
                   out |-> IF r.ret = 1 THEN r.out ELSE "none"]
       /\ lastError' = IF r.ret = -1 THEN r.err ELSE lastError
       /\ UNCHANGED <<littleEndian, hostSlots, options>>

GoInet_ntop(in, size, wide) ==
    LET r == IF wide THEN InetNtopW(in.family, in.src, size) ELSE InetNtop(in.family, in.src, size)
    IN /\ last' = [call |-> "inet_ntop", family |-> in.family, src |-> in.src, ret |-> r.ret]
       /\ lastError' = IF r.ret = "null" THEN r.err ELSE lastError
       /\ UNCHANGED <<littleEndian, hostSlots, options>>

\* WSAAddressToStringA/W; a NULL sockaddr or length pointer fails at once.
\* No failure path sets the last-error cell.
GoWSAAddressToString(sa, lenIn) ==
    Answer([call |-> "WSAAddressToString", sa |-> sa, lenIn |-> lenIn] @@
           (IF sa.addr = "nil" \/ lenIn = NilLen THEN [ret |-> -1, len |-> lenIn]
            ELSE AddressToString(sa, lenIn)))

\* WSAStringToAddressA/W; AddressFamily is not read
GoWSAStringToAddress(text, lenIn) ==
    Answer([call |-> "WSAStringToAddress", text |-> text, lenIn |-> lenIn] @@
           (IF text = "nil" \/ lenIn = NilLen THEN [ret |-> -1, len |-> lenIn]
            ELSE StringToAddress(text, lenIn)))

\* gethostname/GetHostNameW: os.Hostname, then the name and its NUL must fit
GoGethostname(namelen) ==
    Answer([call |-> "gethostname", namelen |-> namelen,
            ret |-> IF HostName = "err" \/ Len(HostName) + 1 > namelen THEN -1 ELSE 0])

(***************************************************************************)
(* The last-error cell, getsockname and getpeername (status_error.go).    *)
(* The socket's address source is an input: st.Conn's local and remote    *)
(* net.Addr (a TCPAddr, a UDPAddr, or a "ping" address known only by its  *)
(* String(), which has no port), st.Listener's address, st.BoundAddr as  *)
(* host and port text, or nothing; "closed" is a handle the registry no   *)
(* longer holds.                                                           *)
(***************************************************************************)
GoWSAGetLastError == Answer([call |-> "WSAGetLastError", ret |-> lastError])

GoWSASetLastError(e) ==
    /\ last' = [call |-> "WSASetLastError", ret |-> 0]
    /\ lastError' = e
    /\ UNCHANGED <<littleEndian, hostSlots, options>>

\* no port in the text (SplitHostPort fails)
NoPort == -1
NetAddr(type, ip, port) == [type |-> type, ip |-> ip, port |-> port]
NoAddr == NetAddr("nil", "nil", 0)

\* What the call leaves in the caller's sockaddr_in: Old (-1 for a number,
\* "old" for the address) for each field it does not write.
Old == -1
Untouched == [family |-> Old, port |-> Old, addr |-> "old"]
SockaddrOut(ip, port) ==
    [family |-> AF_INET,
     port |-> IF port = NoPort THEN Old ELSE htons16(port),
     addr |-> IF ip # "nil" /\ To4(ip) # "nil" THEN To4(ip) ELSE "old"]

\* The switch on the net.Addr's type: a TCPAddr or UDPAddr gives its port
\* and, when it is IPv4, its address; any other address goes through
\* net.SplitHostPort(a.String()), which fails for a ping address (no port):
\* getsockname then has no host, getpeername takes the whole string as host.
AddrOut(a, wholeHost) ==
    IF a.type \in {"tcp", "udp"} THEN SockaddrOut(a.ip, a.port)
    ELSE SockaddrOut(IF wholeHost THEN a.ip ELSE "nil", NoPort)

NameResult(call, ret, namelen, sa) == [call |-> call, ret |-> ret, namelen |-> namelen, sa |-> sa]

GoGetsockname(st, namelen) ==
    LET local == CASE st.src \in {"conn", "listener"} -> AddrOut(st.local, FALSE)
                   [] st.src = "bound" /\ st.bound.port # NoPort ->
                          SockaddrOut(ParseIP(st.bound.host), st.bound.port)
                   [] OTHER -> Untouched
    IN \/ /\ st.src = "closed"
          /\ Fail("getsockname", WSAENOTSOCK)
       \/ /\ st.src # "closed" /\ (namelen = NilLen \/ namelen < 16)
          /\ Fail("getsockname", WSAEFAULT)
       \/ /\ st.src # "closed" /\ namelen # NilLen /\ namelen >= 16
          /\ Answer(NameResult("getsockname", 0,
                                IF local = Untouched THEN namelen ELSE 16, local))

GoGetpeername(st, namelen) ==
    \/ /\ st.src # "conn"
       /\ Fail("getpeername", WSAENOTSOCK)
    \/ /\ st.src = "conn" /\ (namelen = NilLen \/ namelen < 16)
       /\ Fail("getpeername", WSAEFAULT)
    \/ /\ st.src = "conn" /\ namelen # NilLen /\ namelen >= 16 /\ st.remote = NoAddr
       /\ Fail("getpeername", WSAENOTCONN)
    \/ /\ st.src = "conn" /\ namelen # NilLen /\ namelen >= 16 /\ st.remote # NoAddr
       /\ Answer(NameResult("getpeername", 0, 16, AddrOut(st.remote, TRUE)))

(***************************************************************************)
(* The option store (conf_ctl.go).  setsockopt keeps a copy of the raw     *)
(* bytes under (level, optname) before applying them (SyncIO models the    *)
(* applying); getsockopt computes SO_ERROR and SO_TYPE and copies any      *)
(* other option out of the store.  A byte is a token: the value setsockopt *)
(* was given, or "0".                                                      *)
(***************************************************************************)
\* st.LastErrorCode, which getsockopt(SO_ERROR) returns and clears: nothing
\* in the package sets it (registry.SetLastError has no caller).
LastErrorCode == 0
Computed == {"SO_ERROR", "SO_TYPE"}
Raw(v, n) == [i \in 1..n |-> v]

GoSetsockopt(valid, name, v, optlen) ==
    \/ /\ ~valid
       /\ Fail("setsockopt", WSAENOTSOCK)
    \/ /\ valid /\ (v = "nil" \/ optlen <= 0)
       /\ Fail("setsockopt", WSAEFAULT)
    \/ /\ valid /\ v # "nil" /\ optlen > 0
       /\ options' = (name :> Raw(v, optlen)) @@ options
       /\ last' = [call |-> "setsockopt", ret |-> 0]
       /\ UNCHANGED <<littleEndian, hostSlots, lastError>>

\* getsockopt that copies a stored option without setting *optlen
GetsockoptResultNoLen(name, optlen) ==
    LET r(val, len) == [call |-> "getsockopt", ret |-> 0, name |-> name, lenIn |-> optlen,
                        val |-> val, len |-> len]
        n == IF name \in DOMAIN options THEN Min({optlen, Len(options[name])}) ELSE 0
    IN CASE name \in Computed /\ optlen < 4 -> r(<<"old">>, optlen)
         [] name = "SO_ERROR" -> r(<<LastErrorCode>>, 4)
         [] name = "SO_TYPE" -> r(<<IF SockType = "TypeUDP" THEN "SOCK_DGRAM" ELSE "SOCK_STREAM">>, 4)
         [] name \notin DOMAIN options -> r(Raw("0", optlen), optlen)
         [] OTHER -> r(SubSeq(options[name], 1, n), optlen)
\* What getsockopt leaves in the caller's buffer (val) and *optlen (len):
\* the computed options are written only into a buffer of 4 bytes or more;
\* an option never stored zero-fills the buffer and leaves *optlen alone;
\* a stored one is copied up to the buffer's length, which becomes *optlen.
GetsockoptResult(name, optlen) ==
    LET r(val, len) == [call |-> "getsockopt", ret |-> 0, name |-> name, lenIn |-> optlen,
                        val |-> val, len |-> len]
        n == IF name \in DOMAIN options THEN Min({optlen, Len(options[name])}) ELSE 0
    IN CASE name \in Computed /\ optlen < 4 -> r(<<"old">>, optlen)
         [] name = "SO_ERROR" -> r(<<LastErrorCode>>, 4)
         [] name = "SO_TYPE" -> r(<<IF SockType = "TypeUDP" THEN "SOCK_DGRAM" ELSE "SOCK_STREAM">>, 4)
         [] name \notin DOMAIN options -> r(Raw("0", optlen), optlen)
         [] OTHER -> r(SubSeq(options[name], 1, n), n)

GoGetsockopt(valid, name, optlen, optvalNil) ==
    \/ /\ ~valid
       /\ Fail("getsockopt", WSAENOTSOCK)
    \/ /\ valid /\ (optvalNil \/ optlen = NilLen)
       /\ Fail("getsockopt", WSAEFAULT)
    \/ /\ valid /\ ~optvalNil /\ optlen # NilLen
       /\ Answer(GetsockoptResult(name, optlen))

(***************************************************************************)
(* Byte order.  Every call swaps when init() found a little-endian host.   *)
(***************************************************************************)
ByteWidth == [htons |-> 2, ntohs |-> 2, htonl |-> 4, ntohl |-> 4, htonll |-> 8, ntohll |-> 8,
              htonf |-> 4, ntohf |-> 4, htond |-> 8, ntohd |-> 8]
WSAWidth == [WSAHtons |-> 2, WSAHtonl |-> 4, WSANtohs |-> 2, WSANtohl |-> 4]

\* GoHtons/GoHtonl/GoHtonll and the ntoh* calls: bits.ReverseBytesN or nothing
HostSwap(b) == IF littleEndian THEN Reverse(b) ELSE b

\* GoHtonf/GoHtond and their inverses: the same swap of the bit pattern
FloatSwap(b) == HostSwap(b)

GoByteOrder(fn, b) ==
    Answer([call |-> fn, in |-> b, ret |-> 0,
            out |-> IF fn \in {"htonf", "ntohf", "htond", "ntohd"} THEN FloatSwap(b) ELSE HostSwap(b)])

\* WSAHtonl/WSAHtons/WSANtohl/WSANtohs: the socket is not looked at; a NULL
\* result pointer fails without setting the last-error cell
GoWSAByteOrder(fn, b, ptrNil) ==
    Answer(IF ptrNil THEN [call |-> fn, ret |-> -1]
           ELSE [call |-> fn, in |-> b, ret |-> 0, out |-> HostSwap(b)])

(***************************************************************************)
(* The inputs callers pass.                                                *)
(***************************************************************************)
HostNameIn == {"nil", "10.0.0.1", "fd00::1", "host", "nohost"}
AddrIn == {[addr |-> "nil", type |-> AF_INET, len |-> 4],
           [addr |-> "a4", type |-> AF_INET, len |-> 4],
           [addr |-> "a6", type |-> AF_INET6, len |-> 16],
           [addr |-> "a4", type |-> AF_INET, len |-> 16],
           [addr |-> "a4", type |-> 99, len |-> 4]}
PtrIn == {"err", "", "gw.lan"}
ServNameIn == {"nil", "http", "WWW", "dns", "echo", "80", "bogus"}
ProtoIn == {"nil", "tcp", "UDP"}
\* s_port values in network order; one with bits above the low 16 set
PortIn == {htons16(7), htons16(53), htons16(80), htons16(443) + 65536, 80}
ProtoNameIn == {"nil", "tcp", "UDP", "icmpv6", "bogus"}
ProtoNumIn == {6, 17, 58, 99}
TextIn == {"nil", "10.0.0.1", "255.255.255.255", "fd00::1", MappedText, "bogus"}
FamilyIn == {AF_INET, AF_INET6, 99}
NtopIn == {[family |-> AF_INET, src |-> "a4"], [family |-> AF_INET, src |-> "bcast"],
           [family |-> AF_INET6, src |-> "a6"], [family |-> AF_INET6, src |-> Mapped("a4")],
           [family |-> 99, src |-> "a4"], [family |-> AF_INET, src |-> "nil"]}
SizeIn == {8, 16, 46}
\* a NULL lpsaAddress is the record whose addr is "nil"
SaIn == {[family |-> 0, port |-> 0, addr |-> "nil"], [family |-> AF_INET, port |-> htons16(80), addr |-> "a4"],
         [family |-> AF_INET, port |-> 0, addr |-> "bcast"],
         [family |-> AF_INET6, port |-> 0, addr |-> "a6"]}
LenIn == {NilLen, 8, 16, 28}
NameLenIn == {Len(HostName), Len(HostName) + 1}
ErrIn == {0, WSAEINVAL}
Sock(src, local, remote, bound) == [src |-> src, local |-> local, remote |-> remote, bound |-> bound]
NoBound == [host |-> "", port |-> NoPort]
\* a TCP connection, an unconnected UDP conn (sendto's implicit bind) on
\* IPv6, a raw ICMP conn, a listener, a socket only bound (BoundAddr with
\* and without a port), a fresh socket and a closed handle
SockIn == {Sock("conn", NetAddr("tcp", "a4", 49152), NetAddr("tcp", "v4lo", 80), NoBound),
           Sock("conn", NetAddr("udp", "a6", 53), NoAddr, NoBound),
           Sock("conn", NetAddr("ping", "a4", 0), NetAddr("ping", "v4lo", 0), NoBound),
           Sock("listener", NetAddr("tcp", "v4zero", 8080), NoAddr, NoBound),
           Sock("bound", NoAddr, NoAddr, [host |-> "10.0.0.1", port |-> 80]),
           Sock("bound", NoAddr, NoAddr, NoBound),
           Sock("none", NoAddr, NoAddr, NoBound),
           Sock("closed", NoAddr, NoAddr, NoBound)}
SockLenIn == {NilLen, 8, 16}
\* SO_RCVTIMEO is the option stored; SO_KEEPALIVE is read never stored
SetOptIn == {"nil", "a", "b"} \X {0, 2, 4}
GetOptIn == {"SO_RCVTIMEO", "SO_KEEPALIVE", "SO_ERROR", "SO_TYPE"} \X {NilLen, 2, 4, 8}
Bytes(w) == [i \in 1..w |-> i]

Next ==
    \/ \E n \in HostNameIn, up \in BOOLEAN : GoGethostbyname(n, up)
    \/ \E a \in AddrIn, p \in PtrIn : GoGethostbyaddr(a, p)
    \/ \E n \in ServNameIn, p \in ProtoIn : GoGetservbyname(n, p)
    \/ \E n \in PortIn, p \in ProtoIn : GoGetservbyport(n, p)
    \/ \E n \in ProtoNameIn : GoGetprotobyname(n)
    \/ \E n \in ProtoNumIn : GoGetprotobynumber(n)
    \/ \E t \in TextIn : GoInet_addr(t)
    \/ \E a \in V4 : GoInet_ntoa(a)
    \/ \E f \in FamilyIn, t \in TextIn, w \in BOOLEAN : GoInet_pton(f, t, w)
    \/ \E a \in NtopIn, z \in SizeIn, w \in BOOLEAN : GoInet_ntop(a, z, w)
    \/ \E sa \in SaIn, l \in LenIn : GoWSAAddressToString(sa, l)
    \/ \E t \in TextIn, l \in LenIn : GoWSAStringToAddress(t, l)
    \/ \E l \in NameLenIn : GoGethostname(l)
    \/ GoWSAGetLastError
    \/ \E e \in ErrIn : GoWSASetLastError(e)
    \/ \E st \in SockIn, l \in SockLenIn : GoGetsockname(st, l) \/ GoGetpeername(st, l)
    \/ \E ok \in BOOLEAN, in \in SetOptIn : GoSetsockopt(ok, "SO_RCVTIMEO", in[1], in[2])
    \/ \E ok \in BOOLEAN, nil \in BOOLEAN, in \in GetOptIn : GoGetsockopt(ok, in[1], in[2], nil)
    \/ \E fn \in DOMAIN ByteWidth : GoByteOrder(fn, Bytes(ByteWidth[fn]))
    \/ \E fn \in DOMAIN WSAWidth, nil \in BOOLEAN : GoWSAByteOrder(fn, Bytes(WSAWidth[fn]), nil)

Spec == Init /\ [][Next]_vars

(***************************************************************************)
(* Properties.                                                             *)
(***************************************************************************)
TypeOK ==
    /\ littleEndian \in BOOLEAN
    /\ hostSlots \in [0..HostSlots - 1 -> V4 \cup {"0"} \cup UNION {ToSet(Words(a)) : a \in V6}]
    /\ (last.call \in {"gethostbyname", "gethostbyaddr"} /\ last.ret = "hostent") =>
          /\ last.addrtype \in {AF_INET, AF_INET6}
          /\ last.length = IF last.addrtype = AF_INET THEN 4 ELSE 16
          /\ last.list \in Seq(IPs) /\ Len(last.list) \in 1..HostSlots
    /\ lastError \in {0, WSAEFAULT, WSAENOTSOCK, WSAENOTCONN, WSAEINVAL, WSAEAFNOSUPPORT,
                      WSAENOBUFS, EAI_NONAME}
    /\ options \in [{"SO_RCVTIMEO"} -> Seq({"a", "b"})] \cup {<<>>}

\* The hostent gethostbyname/gethostbyaddr hand back is consistent: reading
\* h_length bytes through each h_addr_list[i] gives the i-th address the
\* call looked up (staticHostAddrs slots are 4 bytes and only the ones the
\* fill copies into are rewritten).
HostentReadsBack ==
    (last.call \in {"gethostbyname", "gethostbyaddr"} /\ last.ret = "hostent") =>
        \A i \in 1..Len(last.list) :
            [j \in 1..last.length \div 4 |-> hostSlots[(i - 1) + (j - 1)]] = Words(last.list[i])

\* getservbyname and getservbyport agree with servTable (the static
\* servent of fillServent): for a row (name, port, proto),
\* getservbyname(name, proto) returns s_port = htons(port), and
\* getservbyport(htons(port), proto) returns s_name = name.
ServiceDbRoundTrip ==
    /\ (last.call = "getservbyname" /\ last.proto # "") =>
          \A e \in ToSet(servTable) :
             (e.name = last.name /\ e.proto = last.proto) => last.ret /\ last.ent.port = htons16(e.port)
    /\ (last.call = "getservbyport" /\ last.proto # "") =>
          \A e \in ToSet(servTable) :
             (htons16(e.port) = last.port /\ e.proto = last.proto) => last.ret /\ last.ent.name = e.name

\* WSAAddressToString and WSAStringToAddress that fail for a short buffer
\* write back a length; the same call retried with that length succeeds.
SizeHintSuffices ==
    /\ (last.call = "WSAAddressToString" /\ last.ret = -1 /\ last.len # last.lenIn) =>
          AddressToString(last.sa, last.len).ret = 0
    /\ (last.call = "WSAStringToAddress" /\ last.ret = -1 /\ last.len # last.lenIn) =>
          StringToAddress(last.text, last.len).ret = 0

\* The text inet_ntop produces is accepted by inet_pton of the same family
\* and gives back the address inet_ntop was given.
NtopPtonRoundTrip ==
    (last.call = "inet_ntop" /\ last.ret # "null") =>
        InetPton(last.family, last.ret) = [ret |-> 1, out |-> last.src]

\* An option reads back as it was set: getsockopt of an option stored by
\* setsockopt hands back that option's bytes, as many as the caller's
\* buffer holds and no more than were stored, and *optlen says how many,
\* so that a caller may pass the same buffer to setsockopt again.
GetsockoptReadsBack ==
    (last.call = "getsockopt" /\ "name" \in DOMAIN last /\ last.name \in DOMAIN options \ Computed) =>
        /\ last.len <= last.lenIn
        /\ last.len <= Len(options[last.name])
        /\ last.val = SubSeq(options[last.name], 1, last.len)
        /\ last.len = Len(options[last.name]) \/ last.len = last.lenIn

=============================================================================

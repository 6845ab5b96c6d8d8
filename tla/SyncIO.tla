------------------------------- MODULE SyncIO -------------------------------
(***************************************************************************)
(* The synchronous I/O paths of src/winsock on one connected socket:       *)
(* recv with MSG_PEEK and the per-socket PeekBuf, send, recvfrom           *)
(* (tx_std.go), the synchronous WSARecv (tx_extd.go), and the calls that   *)
(* decide how a read or a write waits: setsockopt of SO_RCVTIMEO and      *)
(* SO_SNDTIMEO, ioctlsocket and WSAIoctl (conf_ctl.go).  The bytes          *)
(* setsockopt stores for getsockopt are modelled in Netdb.                 *)
(*                                                                         *)
(* The socket is a stream (TCP) or a connected datagram (UDP) socket.  A   *)
(* call that reaches Conn.Read or Conn.Write is several steps: the call up *)
(* to the transport call, and its return, which waits for data, buffer    *)
(* room, end of stream or the deadline.  The read deadline is the one      *)
(* installed on the endpoint: recv and recvfrom install their own before   *)
(* reading, WSARecv reads with whatever is there; send installs its own    *)
(* write deadline.  Data is abstracted to byte identities: the peer's k-th *)
(* byte is the number k, and the k-th byte of the application's outgoing   *)
(* stream is the number k, so order, loss and duplication are visible.     *)
(***************************************************************************)
EXTENDS Integers, Sequences, SequencesExt, FiniteSets

CONSTANTS
    Kinds,      \* socket kinds the application may create: "stream", "dgram"
    Lens,       \* buffer lengths the application passes
    SegLens,    \* sizes of the datagrams (or stream writes) the peer sends
    Timeouts,   \* SO_RCVTIMEO / SO_SNDTIMEO values in ms (0 = no deadline)
    MaxBytes,   \* bound on bytes moved: sent by the peer plus handed to the transport
    SndCap      \* bytes of a stream the transport accepts before the peer reads

ASSUME Kinds \subseteq {"stream", "dgram"} /\ Lens \subseteq Nat \ {0}
ASSUME SegLens \subseteq Nat \ {0} /\ Timeouts \subseteq Nat /\ MaxBytes \in Nat
ASSUME SndCap \in Nat \ {0}

MSG_PEEK          == 2
WSAEFAULT         == 10014
WSAEWOULDBLOCK    == 10035
WSAEINVAL         == 10022
WSAETIMEDOUT      == 10060
WSAEGENERIC       == 10001   \* mapError's fallback, reached by io.EOF

\* A deadline on the endpoint: none, an SO_RCVTIMEO or SO_SNDTIMEO deadline
\* still in the future, the 1 ns deadline of non-blocking mode, or a
\* deadline whose time has come.
Deadlines == {"none", "timer", "nanosecond", "expired"}

\* The calls that block in Conn.Read or Conn.Write.
Ops == {"recv", "WSARecv", "recvfrom", "send"}

\* NULL for optval/optlen or argp
NilLen == -1

VARIABLES
    kind,         \* SocketState.Type of the socket
    rx,           \* segments queued at the endpoint (datagrams, or stream bytes)
    sent,         \* bytes the peer has sent; byte identities are 1..sent
    segs,         \* history: the datagrams the peer sent, as sets of bytes
    eof,          \* the peer closed its side (stream only)
    peekBuf,      \* SocketState.PeekBuf
    nonBlocking,  \* SocketState.IsNonBlocking
    deadline,     \* the read deadline installed on st.Conn
    wdeadline,    \* the write deadline installed on st.Conn
    out,          \* what Conn.Write handed to the transport, not yet read by the peer
    handed,       \* bytes of its stream the application was told were sent
    peerGot,      \* history: what the peer read, in order
    app,          \* the application thread
    got,          \* history: bytes removed from the socket by the application, in order
    dropped,      \* history: bytes of datagrams truncated by a short buffer
    lastError     \* the process-wide last-error cell (status_error.go)

rxVars == <<rx, sent, segs, eof, peekBuf, got, dropped>>
txVars == <<out, handed, peerGot, wdeadline>>
vars == <<kind, rxVars, txVars, nonBlocking, deadline, app, lastError>>

Bytes == 1..MaxBytes

AppStates == [pc : {"idle", "read", "write"}, op : Ops, len : Nat, peek : BOOLEAN,
              taken : Seq(Nat)]

\* The last-error values a call can leave (0: none set).
CallErrors == {0, WSAEFAULT, WSAEWOULDBLOCK, WSAEINVAL, WSAETIMEDOUT, WSAEGENERIC}


-----------------------------------------------------------------------------
(* Conn.Read of the gvisor endpoint.                                        *)

\* What Read(len) removes from the endpoint when data is queued.  A stream
\* read returns up to len bytes; a datagram read returns one datagram, cut
\* to len bytes, and the rest of the datagram is discarded.
Take(k) ==
    IF kind = "stream"
    THEN LET n == IF k < Len(rx) THEN k ELSE Len(rx)
         IN [data |-> FlattenSeq(SubSeq(rx, 1, n)), rest |-> SubSeq(rx, n + 1, Len(rx)),
             drop |-> {}, err |-> "none"]
    ELSE LET h == Head(rx)
             d == SubSeq(h, 1, IF k < Len(h) THEN k ELSE Len(h))
         IN [data |-> d, rest |-> Tail(rx), drop |-> ToSet(h) \ ToSet(d), err |-> "none"]

\* The ways Read(len) can return now; {} while it blocks.  gonet checks the
\* deadline channel before the endpoint.  The channel of the 1 ns deadline is
\* closed by a timer goroutine that may not have run yet, so that deadline
\* allows both the timeout and the endpoint's answer.
ReadOutcomes(k) ==
    LET timeout  == {[data |-> <<>>, rest |-> rx, drop |-> {}, err |-> "timeout"]}
        endpoint == IF rx # <<>>
                    THEN {Take(k)}
                    ELSE IF eof
                         THEN {[data |-> <<>>, rest |-> rx, drop |-> {}, err |-> "eof"]}
                         ELSE {}
    IN  CASE deadline = "expired"    -> timeout
          [] deadline = "nanosecond" -> timeout \cup endpoint
          [] OTHER                   -> endpoint

\* Mutant of MapError: a timeout reported as the POSIX errno ETIMEDOUT.
MapErrorErrno(err) == IF err = "timeout" THEN 110 ELSE WSAEGENERIC

\* mapError of the Read error: a timeout is WSAETIMEDOUT, io.EOF matches
\* none of its cases.
MapError(err) == IF err = "timeout" THEN WSAETIMEDOUT ELSE WSAEGENERIC

\* Mutant of ModeDeadline: the non-blocking flag is not looked at.
ModeDeadlineBlocking == "none"

\* The deadline recv and recvfrom install before reading.
ModeDeadline == IF nonBlocking THEN "nanosecond" ELSE "none"

Finish(err) ==
    /\ app' = [app EXCEPT !.pc = "idle", !.taken = <<>>]
    /\ lastError' = IF err = 0 THEN lastError ELSE err

-----------------------------------------------------------------------------
Init ==
    /\ kind \in Kinds
    /\ rx = <<>>
    /\ sent = 0
    /\ segs = {}
    /\ eof = FALSE
    /\ peekBuf = <<>>
    /\ nonBlocking = FALSE
    /\ deadline = "none"
    /\ wdeadline = "none"
    /\ out = <<>>
    /\ handed = 0
    /\ peerGot = <<>>
    /\ app = [pc |-> "idle", op |-> "recv", len |-> 0, peek |-> FALSE, taken |-> <<>>]
    /\ got = <<>>
    /\ dropped = {}
    /\ lastError = 0

-----------------------------------------------------------------------------
(* The application's calls.  One thread calls the API on the socket.       *)

\* Mutant of Recv: a plain recv copies PeekBuf but forgets to cut it.
RecvNoConsume(len, peek) ==
    /\ app.pc = "idle"
    /\ LET n      == IF len < Len(peekBuf) THEN len ELSE Len(peekBuf)
           served == SubSeq(peekBuf, 1, n)
       IN /\ UNCHANGED peekBuf
          /\ IF peekBuf # <<>> /\ (n >= len \/ peek)
             THEN /\ Finish(0)
                  /\ got' = IF peek THEN got ELSE got \o served
                  /\ UNCHANGED deadline
             ELSE /\ deadline' = ModeDeadline
                  /\ app' = [pc |-> "read", op |-> "recv", len |-> len - n, peek |-> peek,
                             taken |-> IF peek THEN <<>> ELSE served]
                  /\ UNCHANGED <<got, lastError>>
    /\ UNCHANGED <<kind, rx, sent, segs, eof, nonBlocking, txVars, dropped>>

\* GoRecv up to Conn.Read.  Data parked in PeekBuf is served first; a peek
\* leaves it there, a plain recv consumes it.  The call returns at once when
\* PeekBuf filled the buffer or the call is a peek, and otherwise installs
\* the mode's deadline and reads the rest from the endpoint.
Recv(len, peek) ==
    /\ app.pc = "idle"
    /\ LET n      == IF len < Len(peekBuf) THEN len ELSE Len(peekBuf)
           served == SubSeq(peekBuf, 1, n)
       IN /\ peekBuf' = IF peek THEN peekBuf ELSE SubSeq(peekBuf, n + 1, Len(peekBuf))
          /\ IF peekBuf # <<>> /\ (n >= len \/ peek)
             THEN /\ Finish(0)
                  /\ got' = IF peek THEN got ELSE got \o served
                  /\ UNCHANGED deadline
             ELSE /\ deadline' = ModeDeadline
                  /\ app' = [pc |-> "read", op |-> "recv", len |-> len - n, peek |-> peek,
                             taken |-> IF peek THEN <<>> ELSE served]
                  /\ UNCHANGED <<got, lastError>>
    /\ UNCHANGED <<kind, rx, sent, segs, eof, nonBlocking, txVars, dropped>>

\* GoRecv from the return of Conn.Read: a peek appends what it read to
\* PeekBuf; the call fails only when it has no byte to return, with
\* WSAEWOULDBLOCK for a timeout in non-blocking mode.
RecvRead ==
    /\ app.pc = "read" /\ app.op = "recv"
    /\ \E r \in ReadOutcomes(app.len) :
         LET n == Len(app.taken) + Len(r.data)
         IN /\ rx' = r.rest
            /\ dropped' = dropped \cup r.drop
            /\ peekBuf' = IF app.peek THEN peekBuf \o r.data ELSE peekBuf
            /\ IF r.err # "none" /\ n = 0
               THEN /\ Finish(IF r.err = "timeout" /\ nonBlocking
                                THEN WSAEWOULDBLOCK ELSE MapError(r.err))
                    /\ UNCHANGED got
               ELSE /\ Finish(0)
                    /\ got' = IF app.peek THEN got ELSE got \o app.taken \o r.data
    /\ UNCHANGED <<kind, sent, segs, eof, nonBlocking, txVars, deadline>>

\* GoWSARecv without an OVERLAPPED: reads the endpoint directly, with the
\* deadline already installed and without looking at PeekBuf.
WSARecv(len) ==
    /\ app.pc = "idle"
    /\ app' = [pc |-> "read", op |-> "WSARecv", len |-> len, peek |-> FALSE, taken |-> <<>>]
    /\ UNCHANGED <<kind, rx, sent, segs, eof, peekBuf, nonBlocking, txVars, deadline,
                   got, dropped, lastError>>

\* The return of GoWSARecv's Read: an error with no data fails through
\* mapError (a timeout is WSAETIMEDOUT whatever the mode); otherwise 0.
WSARecvRead ==
    /\ app.pc = "read" /\ app.op = "WSARecv"
    /\ \E r \in ReadOutcomes(app.len) :
         /\ rx' = r.rest
         /\ dropped' = dropped \cup r.drop
         /\ IF r.err # "none" /\ r.data = <<>>
            THEN Finish(MapError(r.err)) /\ UNCHANGED got
            ELSE Finish(0) /\ got' = got \o r.data
    /\ UNCHANGED <<kind, sent, segs, eof, peekBuf, nonBlocking, txVars, deadline>>

\* GoRecvfrom up to Read: only a PacketConn (a datagram socket) is accepted;
\* it installs the mode's deadline and ignores PeekBuf and the flags.
Recvfrom(len) ==
    /\ app.pc = "idle"
    /\ IF kind # "dgram"
       THEN Finish(WSAEINVAL) /\ UNCHANGED deadline
       ELSE /\ deadline' = ModeDeadline
            /\ app' = [pc |-> "read", op |-> "recvfrom", len |-> len, peek |-> FALSE,
                       taken |-> <<>>]
            /\ UNCHANGED lastError
    /\ UNCHANGED <<kind, rx, sent, segs, eof, peekBuf, nonBlocking, txVars, got, dropped>>

\* The return of GoRecvfrom's Read: any error fails the call.
RecvfromRead ==
    /\ app.pc = "read" /\ app.op = "recvfrom"
    /\ \E r \in ReadOutcomes(app.len) :
         /\ rx' = r.rest
         /\ dropped' = dropped \cup r.drop
         /\ IF r.err # "none"
            THEN /\ Finish(IF r.err = "timeout" /\ nonBlocking
                             THEN WSAEWOULDBLOCK ELSE MapError(r.err))
                 /\ UNCHANGED got
            ELSE Finish(0) /\ got' = got \o r.data
    /\ UNCHANGED <<kind, sent, segs, eof, peekBuf, nonBlocking, txVars, deadline>>

\* The bytes of its outgoing stream the application's send buffer holds
\* and Conn.Write has not yet handed to the transport.
Pending == [i \in 1..(app.len - Len(app.taken)) |-> handed + Len(app.taken) + i]

\* What the transport accepts now: a stream up to SndCap bytes not yet read
\* by the peer, a datagram whole.
Room == IF kind = "stream" THEN SndCap - Len(out) ELSE app.len

\* Bytes handed to the transport so far, the ones the peer read included.
Written == Len(peerGot) + Len(FlattenSeq(out))

\* Mutant of SendDeadline: the non-blocking flag is not looked at.
SendDeadlineBlocking == "none"

\* The write deadline send installs before Conn.Write.
SendDeadline == IF nonBlocking THEN "nanosecond" ELSE "none"

\* GoSend up to Conn.Write: the socket is connected, so isConnected holds;
\* the mode's write deadline replaces any SO_SNDTIMEO deadline.
Send(len) ==
    /\ app.pc = "idle"
    /\ sent + Written + len <= MaxBytes
    /\ wdeadline' = SendDeadline
    /\ app' = [pc |-> "write", op |-> "send", len |-> len, peek |-> FALSE, taken |-> <<>>]
    /\ UNCHANGED <<kind, rxVars, out, handed, peerGot, nonBlocking, deadline, lastError>>

\* One pass of Conn.Write's loop: the transport takes what fits.  gonet
\* looks at the deadline before its first write and then only while it
\* waits for room.  When the whole buffer is written send returns its length.
ConnWrite ==
    /\ app.pc = "write"
    /\ Room > 0
    /\ app.taken # <<>> \/ wdeadline # "expired"
    /\ LET w == SubSeq(Pending, 1, Min({Room, Len(Pending)}))
       IN /\ out' = out \o (IF kind = "stream" THEN [i \in 1..Len(w) |-> <<w[i]>>] ELSE <<w>>)
          /\ IF Len(app.taken) + Len(w) = app.len
             THEN /\ Finish(0)
                  /\ handed' = handed + app.len
             ELSE /\ app' = [app EXCEPT !.taken = @ \o w]
                  /\ UNCHANGED <<handed, lastError>>
    /\ UNCHANGED <<kind, rxVars, peerGot, wdeadline, nonBlocking, deadline>>

\* Conn.Write returns the timeout, before its first write or while it waits
\* for room, with the bytes it wrote; GoSend drops that count and fails,
\* with WSAEWOULDBLOCK in non-blocking mode.
ConnWriteTimeout ==
    /\ app.pc = "write"
    /\ wdeadline = "expired"
    /\ app.taken = <<>> \/ Room = 0
    /\ Finish(IF nonBlocking THEN WSAEWOULDBLOCK ELSE MapError("timeout"))
    /\ UNCHANGED <<kind, rxVars, txVars, nonBlocking, deadline>>

\* applySolSocketOpt for SO_RCVTIMEO and SO_SNDTIMEO: an absolute deadline
\* ms from now, or none.
ApplyRcvTimeo(ms) == IF ms > 0 THEN "timer" ELSE "none"

\* setsockopt(SOL_SOCKET, name): a NULL optval or optlen <= 0 fails; the
\* first optlen bytes are stored in st.Options (read back only by
\* getsockopt, which Netdb models), and a value of at least 4 bytes is
\* applied to the read (SO_RCVTIMEO) or the write (SO_SNDTIMEO) deadline.
Setsockopt(name, ms, optlen) ==
    /\ app.pc = "idle"
    /\ IF optlen <= 0
       THEN Finish(WSAEFAULT) /\ UNCHANGED <<deadline, wdeadline>>
       ELSE /\ deadline' = IF name = "SO_RCVTIMEO" /\ optlen >= 4
                           THEN ApplyRcvTimeo(ms) ELSE deadline
            /\ wdeadline' = IF name = "SO_SNDTIMEO" /\ optlen >= 4
                            THEN ApplyRcvTimeo(ms) ELSE wdeadline
            /\ Finish(0)
    /\ UNCHANGED <<kind, rxVars, out, handed, peerGot, nonBlocking>>

\* ioctlsocket: FIONBIO sets IsNonBlocking and touches no deadline; FIONREAD
\* and SIOCATMARK write 0 to *argp, whatever is queued; a NULL argp fails for
\* these three; any other command succeeds and does nothing.
Ioctlsocket(cmd, argp) ==
    /\ app.pc = "idle"
    /\ \/ /\ cmd \in {"FIONBIO", "FIONREAD", "SIOCATMARK"} /\ argp = NilLen
          /\ Finish(WSAEFAULT) /\ UNCHANGED nonBlocking
       \/ /\ cmd = "FIONBIO" /\ argp # NilLen
          /\ nonBlocking' = (argp # 0)
          /\ Finish(0)
       \/ /\ cmd \in {"FIONREAD", "SIOCATMARK"} /\ argp # NilLen
          /\ Finish(0) /\ UNCHANGED nonBlocking
       \/ /\ cmd = "other"
          /\ Finish(0) /\ UNCHANGED nonBlocking
    /\ UNCHANGED <<kind, rxVars, txVars, deadline>>

\* WSAIoctl: SIO_GET_EXTENSION_FUNCTION_POINTER needs a 16-byte GUID in and
\* room for a pointer out, and knows the AcceptEx and ConnectEx GUIDs (their
\* pointers are set by the export shim's init); FIONBIO with a 4-byte input
\* sets IsNonBlocking; SIO_KEEPALIVE_VALS and unknown codes succeed doing
\* nothing.  The input is the control code, the input buffer's length and
\* its value (a GUID or a flag).
WSAIoctl(code, cbIn, val) ==
    /\ app.pc = "idle"
    /\ \/ /\ code = "SIO_GET_EXTENSION_FUNCTION_POINTER"
          /\ IF cbIn < 16 THEN Finish(WSAEFAULT)
             ELSE IF val \in {"WSAID_ACCEPTEX", "WSAID_CONNECTEX"}
                  THEN Finish(0)
                  ELSE Finish(WSAEINVAL)
          /\ UNCHANGED nonBlocking
       \/ /\ code = "FIONBIO"
          /\ nonBlocking' = IF cbIn >= 4 THEN val = "on" ELSE nonBlocking
          /\ Finish(0)
       \/ /\ code \in {"SIO_KEEPALIVE_VALS", "other"}
          /\ Finish(0) /\ UNCHANGED nonBlocking
    /\ UNCHANGED <<kind, rxVars, txVars, deadline>>

-----------------------------------------------------------------------------
(* The environment: time and the peer.                                     *)

\* Time passes an installed read deadline.
DeadlinePasses ==
    /\ deadline \in {"timer", "nanosecond"}
    /\ deadline' = "expired"
    /\ UNCHANGED <<kind, rxVars, txVars, nonBlocking, app, lastError>>

\* Time passes an installed write deadline.
WriteDeadlinePasses ==
    /\ wdeadline \in {"timer", "nanosecond"}
    /\ wdeadline' = "expired"
    /\ UNCHANGED <<kind, rxVars, out, handed, peerGot, nonBlocking, deadline,
                   app, lastError>>

\* The peer sends k bytes: one datagram, or k bytes of stream.
PeerSend(k) ==
    /\ ~eof
    /\ sent + Written + k <= MaxBytes
    /\ LET b == [i \in 1..k |-> sent + i]
       IN /\ rx' = rx \o (IF kind = "stream" THEN [i \in 1..k |-> <<b[i]>>] ELSE <<b>>)
          /\ segs' = segs \cup {ToSet(b)}
    /\ sent' = sent + k
    /\ UNCHANGED <<kind, eof, peekBuf, got, dropped, txVars, nonBlocking, deadline,
                   app, lastError>>

\* The peer closes a stream: Read returns io.EOF once the queue is empty.
PeerClose ==
    /\ kind = "stream" /\ ~eof
    /\ eof' = TRUE
    /\ UNCHANGED <<kind, rx, sent, segs, peekBuf, got, dropped, txVars, nonBlocking,
                   deadline, app, lastError>>

\* The peer reads the next datagram, or the next byte of the stream.
PeerRecv ==
    /\ out # <<>>
    /\ peerGot' = peerGot \o Head(out)
    /\ out' = Tail(out)
    /\ UNCHANGED <<kind, rxVars, handed, wdeadline, nonBlocking, deadline, app,
                   lastError>>

\* The inputs: option values and lengths (NilLen: a NULL pointer), the
\* ioctlsocket commands with an argument, the WSAIoctl codes with an input
\* length and value.
SetsockoptIn == {<<"SO_RCVTIMEO", ms, 4>> : ms \in Timeouts} \cup
                {<<"SO_RCVTIMEO", Max(Timeouts), 2>>, <<"SO_SNDTIMEO", Max(Timeouts), 4>>,
                 <<"SO_SNDTIMEO", Max(Timeouts), 0>>}
IoctlIn == {<<"FIONBIO", 0>>, <<"FIONBIO", 1>>, <<"FIONBIO", NilLen>>, <<"FIONREAD", 0>>,
            <<"SIOCATMARK", 0>>, <<"other", 0>>}
WSAIoctlIn == {<<"SIO_GET_EXTENSION_FUNCTION_POINTER", 16, "WSAID_ACCEPTEX">>,
               <<"SIO_GET_EXTENSION_FUNCTION_POINTER", 16, "other">>,
               <<"SIO_GET_EXTENSION_FUNCTION_POINTER", 0, "WSAID_CONNECTEX">>,
               <<"FIONBIO", 4, "on">>, <<"FIONBIO", 4, "off">>, <<"FIONBIO", 0, "on">>,
               <<"SIO_KEEPALIVE_VALS", 12, "off">>, <<"other", 0, "off">>}

Next ==
    \/ \E len \in Lens, peek \in BOOLEAN : Recv(len, peek)
    \/ RecvRead
    \/ \E len \in Lens : WSARecv(len)
    \/ WSARecvRead
    \/ \E len \in Lens : Recvfrom(len)
    \/ RecvfromRead
    \/ \E len \in Lens : Send(len)
    \/ ConnWrite
    \/ ConnWriteTimeout
    \/ \E c \in SetsockoptIn : Setsockopt(c[1], c[2], c[3])
    \/ \E c \in IoctlIn : Ioctlsocket(c[1], c[2])
    \/ \E c \in WSAIoctlIn : WSAIoctl(c[1], c[2], c[3])
    \/ DeadlinePasses
    \/ WriteDeadlinePasses
    \/ \E k \in SegLens : PeerSend(k)
    \/ PeerClose
    \/ PeerRecv

Spec == Init /\ [][Next]_vars

\* The application thread's Conn.Read and Conn.Write return once they can
\* (the goroutine is scheduled), and time passes an installed deadline.
\* Nothing forces the application to call or the peer to send or read.
FairSpec ==
    /\ Spec
    /\ WF_vars(RecvRead) /\ WF_vars(WSARecvRead) /\ WF_vars(RecvfromRead)
    /\ WF_vars(ConnWrite) /\ WF_vars(ConnWriteTimeout)
    /\ WF_vars(DeadlinePasses) /\ WF_vars(WriteDeadlinePasses)

-----------------------------------------------------------------------------
(* Properties.                                                             *)

TypeOK ==
    /\ kind \in Kinds
    /\ rx \in Seq(Seq(Bytes))
    /\ sent \in 0..MaxBytes
    /\ eof \in BOOLEAN
    /\ peekBuf \in Seq(Bytes)
    /\ nonBlocking \in BOOLEAN
    /\ deadline \in Deadlines /\ wdeadline \in Deadlines
    /\ out \in Seq(Seq(Bytes)) /\ peerGot \in Seq(Bytes) /\ handed \in 0..MaxBytes
    /\ app \in AppStates
    /\ got \in Seq(Bytes)
    /\ dropped \subseteq Bytes
    /\ lastError \in CallErrors

\* Every byte the peer sent is in exactly one place: queued at the endpoint,
\* parked in PeekBuf, taken from PeekBuf by a recv still reading, returned
\* to the application by a consuming call, or cut off a datagram by a short
\* buffer.  recv's peek path, its consumption of PeekBuf and the reads of
\* recv, WSARecv and recvfrom neither lose nor duplicate a byte.
ByteConservation ==
    LET queued == FlattenSeq(rx)
        taken  == IF app.pc = "read" THEN app.taken ELSE <<>>
    IN /\ Len(got) + Len(peekBuf) + Len(taken) + Len(queued) + Cardinality(dropped) = sent
       /\ ToSet(got) \cup ToSet(peekBuf) \cup ToSet(taken) \cup ToSet(queued) \cup dropped
            = 1..sent

\* A recv or recvfrom called in non-blocking mode returns, whether or not
\* the peer ever sends: both install the 1 ns deadline before Conn.Read.
\* (Synchronous WSARecv installs none and is not covered.)
NonBlockingReadReturns ==
    (app.pc = "read" /\ app.op \in {"recv", "recvfrom"} /\ nonBlocking) ~> app.pc = "idle"

\* A send called in non-blocking mode returns, whether or not the peer ever
\* reads: it installs the 1 ns write deadline before Conn.Write, which gives
\* up when the transport has no room.  (A blocking send waits for the peer.)
NonBlockingSendReturns == (app.pc = "write" /\ nonBlocking) ~> app.pc = "idle"

\* Between calls, what the transport has carried to the peer (read or not)
\* is exactly the application's outgoing stream up to the bytes send
\* reported as sent: no byte is lost, duplicated or sent unreported, so an
\* application that resends what a failed send did not report keeps the
\* stream intact.
SendReportsWritten ==
    app.pc = "idle" => peerGot \o FlattenSeq(out) = [i \in 1..handed |-> i]

\* P7: the bytes consuming calls return from a stream socket are the peer's
\* bytes in FIFO order, whichever of recv and WSARecv returned them.
StreamFifo == kind = "stream" => got = [i \in 1..Len(got) |-> i]

====

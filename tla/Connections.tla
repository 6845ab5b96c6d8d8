----------------------------- MODULE Connections -----------------------------
(***************************************************************************)
(* The connection operations of src/winsock (conn_basic.go, conn_extd.go,  *)
(* sock_mgmt.go, setsockopt of conf_ctl.go) over the handle registry.      *)
(*                                                                         *)
(* A socket's st.Conn and st.Listener point at transport objects (a UDP or *)
(* TCP connection, a TCP listener) drawn from a counter; an object is open *)
(* until some operation Closes it.  The data a socket carries, addresses   *)
(* and option values are abstracted away: what is kept is which objects a  *)
(* socket holds, which are open, which options are stored and which have   *)
(* been applied to the current connection, and whose waiter queue the      *)
(* socket follows.  Every call that can fail in the transport (GetStack,   *)
(* Resolve, Listen, Dial, Accept) may fail.                                *)
(***************************************************************************)
EXTENDS Integers, FiniteSets

CONSTANTS
    Sockets,   \* handles created by socket() before the calls start
    Spare,     \* handles accept may register
    Threads,   \* application threads that may call closesocket concurrently
    Opts,      \* option keys (level<<16 | optname) that act on a connection
    MaxObjs    \* bound on transport objects created

ASSUME Sockets \cap Spare = {} /\ MaxObjs \in Nat

Handles == Sockets \cup Spare
NoObj   == 0
Objs    == 1..MaxObjs
Kinds   == {"tcp", "udp"}

VARIABLES
    reg,       \* handles in the registry's socket map
    everReg,   \* handles ever registered (accept draws fresh ones)
    typ,       \* st.Type
    bound,     \* st.BoundAddr # ""
    conn,      \* st.Conn: an object or NoObj
    lst,       \* st.Listener: an object or NoObj
    opts,      \* keys stored in st.Options
    applied,   \* keys applied to the object st.Conn now points at
    origin,    \* history: the call that set st.Conn last ("extended": WSAConnectByName/List)
    open,      \* transport objects not closed yet
    nobj,      \* objects created so far
    closer,    \* per thread: idle, or between closesocket's close and Unregister
    closed     \* per handle, closesocket calls that returned 0

vars == <<reg, everReg, typ, bound, conn, lst, opts, applied, origin, open, nobj,
          closer, closed>>

-----------------------------------------------------------------------------
\* A fresh transport object: the next value of the counter.
NewObj == nobj + 1

CanCreate == nobj < MaxObjs

\* Close an object (Close on a closed one is a no-op).
Close(o) == open \ {o}

Init ==
    /\ reg = Sockets
    /\ everReg = Sockets
    /\ \E k \in [Sockets -> Kinds] : typ = [h \in Handles |-> IF h \in Sockets THEN k[h] ELSE "tcp"]
    /\ bound = [h \in Handles |-> FALSE]
    /\ conn = [h \in Handles |-> NoObj]
    /\ lst = [h \in Handles |-> NoObj]
    /\ opts = [h \in Handles |-> {}]
    /\ applied = [h \in Handles |-> {}]
    /\ origin = [h \in Handles |-> "none"]
    /\ open = {}
    /\ nobj = 0
    /\ closer = [t \in Threads |-> [pc |-> "idle", h |-> NoObj]]
    /\ closed = [h \in Handles |-> 0]

-----------------------------------------------------------------------------
(* The calls.  Each is one step: the registry lookup and the transport     *)
(* calls of a handler are not interleaved with other threads' calls,       *)
(* except closesocket's, whose close and Unregister are two steps.         *)

\* bind: a second bind is WSAEINVAL.  st.BoundAddr is set before anything
\* can fail.  A TCP socket only records it.  A UDP socket resolves the
\* address (may fail), closes its old st.Conn, then ListenUDP (may fail,
\* leaving st.Conn on the closed object), and on success takes the new
\* connection (and UpdateWaiterQueue, see Multiplex); the stored options
\* are not replayed.
Bind(s) ==
    /\ s \in reg /\ ~bound[s]
    /\ bound' = [bound EXCEPT ![s] = TRUE]
    /\ IF typ[s] = "tcp"
       THEN UNCHANGED <<conn, applied, origin, open, nobj>>
       ELSE \/ UNCHANGED <<conn, applied, origin, open, nobj>>
            \/ /\ open' = Close(conn[s])
               /\ UNCHANGED <<conn, applied, origin, nobj>>
            \/ /\ CanCreate
               /\ nobj' = NewObj
               /\ open' = Close(conn[s]) \cup {NewObj}
               /\ conn' = [conn EXCEPT ![s] = NewObj]
               /\ applied' = [applied EXCEPT ![s] = {}]
               /\ origin' = [origin EXCEPT ![s] = "bind"]
    /\ UNCHANGED <<reg, everReg, typ, lst, opts, closer, closed>>

\* listen: ListenTCP on the bound address (":0" when none) and store the
\* listener, whatever st.Listener held before and whatever the socket's
\* type.
Listen(s) ==
    /\ s \in reg
    /\ \/ UNCHANGED <<lst, open, nobj>>
       \/ /\ CanCreate
          /\ nobj' = NewObj
          /\ open' = open \cup {NewObj}
          /\ lst' = [lst EXCEPT ![s] = NewObj]
    /\ UNCHANGED <<reg, everReg, typ, bound, conn, opts, applied, origin, closer, closed>>

\* Mutant of Accept: Register does not advance the handle counter.
AcceptNoCount(s) ==
    /\ s \in reg /\ lst[s] # NoObj /\ lst[s] \in open
    /\ CanCreate
    /\ \E h \in Spare \ everReg :
          /\ nobj' = NewObj
          /\ open' = open \cup {NewObj}
          /\ reg' = reg \cup {h}
          /\ typ' = [typ EXCEPT ![h] = typ[s]]
          /\ conn' = [conn EXCEPT ![h] = NewObj]
          /\ origin' = [origin EXCEPT ![h] = "accept"]
    /\ UNCHANGED <<everReg, bound, lst, opts, applied, closer, closed>>

\* accept: WSAENOTSOCK without a listener; Accept fails on a closed
\* listener.  A new SocketState around the accepted connection, of the
\* listener's type, with empty Options, is registered under a fresh handle
\* (and UpdateWaiterQueue).
Accept(s) ==
    /\ s \in reg /\ lst[s] # NoObj /\ lst[s] \in open
    /\ CanCreate
    /\ \E h \in Spare \ everReg :
          /\ nobj' = NewObj
          /\ open' = open \cup {NewObj}
          /\ reg' = reg \cup {h}
          /\ everReg' = everReg \cup {h}
          /\ typ' = [typ EXCEPT ![h] = typ[s]]
          /\ conn' = [conn EXCEPT ![h] = NewObj]
          /\ origin' = [origin EXCEPT ![h] = "accept"]
    /\ UNCHANGED <<bound, lst, opts, applied, closer, closed>>

\* Mutant of Connect: the stored options are not replayed.
ConnectNoReplay(s) ==
    /\ s \in reg /\ CanCreate
    /\ nobj' = NewObj
    /\ open' = (IF typ[s] = "udp" THEN Close(conn[s]) ELSE open) \cup {NewObj}
    /\ conn' = [conn EXCEPT ![s] = NewObj]
    /\ applied' = [applied EXCEPT ![s] = {}]
    /\ origin' = [origin EXCEPT ![s] = "connect"]
    /\ UNCHANGED <<reg, everReg, typ, bound, lst, opts, closer, closed>>

\* connect: a UDP socket closes its old st.Conn before taking the dialled
\* one; a TCP socket overwrites st.Conn.  Then UpdateWaiterQueue and every
\* stored option is applied to the new connection.  A failed dial changes
\* nothing.
Connect(s) ==
    /\ s \in reg /\ CanCreate
    /\ nobj' = NewObj
    /\ open' = (IF typ[s] = "udp" THEN Close(conn[s]) ELSE open) \cup {NewObj}
    /\ conn' = [conn EXCEPT ![s] = NewObj]
    /\ applied' = [applied EXCEPT ![s] = opts[s]]
    /\ origin' = [origin EXCEPT ![s] = "connect"]
    /\ UNCHANGED <<reg, everReg, typ, bound, lst, opts, closer, closed>>

\* The end of WSAConnectByName and WSAConnectByList: DialContext "tcp" and
\* st.Conn = conn, nothing else: the old connection is not closed, the
\* waiter queue is not updated, the stored options are not applied.
DialAndStore(s) ==
    /\ s \in reg /\ CanCreate
    /\ nobj' = NewObj
    /\ open' = open \cup {NewObj}
    /\ conn' = [conn EXCEPT ![s] = NewObj]
    /\ applied' = [applied EXCEPT ![s] = {}]
    /\ origin' = [origin EXCEPT ![s] = "extended"]
    /\ UNCHANGED <<reg, everReg, typ, bound, lst, opts, closer, closed>>

\* WSAConnectByName: one dial of node:service.
ConnectByName(s) == DialAndStore(s)

\* WSAConnectByList: dials the listed addresses in turn and keeps the first
\* connection that succeeds (one that fails changes nothing).
ConnectByList(s) == DialAndStore(s)

\* setsockopt: store the raw bytes under the key, then apply them to the
\* live connection when there is one.
Setsockopt(s, o) ==
    /\ s \in reg
    /\ opts' = [opts EXCEPT ![s] = @ \cup {o}]
    /\ applied' = IF conn[s] # NoObj THEN [applied EXCEPT ![s] = @ \cup {o}] ELSE applied
    /\ UNCHANGED <<reg, everReg, typ, bound, conn, lst, origin, open, nobj, closer, closed>>

\* closesocket, first step: the handle is looked up and its connection and
\* listener are closed outside the registry lock.  An unknown handle
\* returns -1 at once (no state changes).
Closesocket(t, s) ==
    /\ closer[t].pc = "idle" /\ s \in reg
    /\ open' = open \ {conn[s], lst[s]}
    /\ closer' = [closer EXCEPT ![t] = [pc |-> "unregister", h |-> s]]
    /\ UNCHANGED <<reg, everReg, typ, bound, conn, lst, opts, applied, origin, nobj, closed>>

\* closesocket, second step: Unregister (a no-op when the handle is gone
\* already), return 0.
CloseUnregister(t) ==
    /\ closer[t].pc = "unregister"
    /\ reg' = reg \ {closer[t].h}
    /\ closed' = [closed EXCEPT ![closer[t].h] = @ + 1]
    /\ closer' = [closer EXCEPT ![t] = [pc |-> "idle", h |-> NoObj]]
    /\ UNCHANGED <<everReg, typ, bound, conn, lst, opts, applied, origin, open, nobj>>

Next ==
    \/ \E s \in Handles :
          \/ Bind(s) \/ Listen(s) \/ Accept(s) \/ Connect(s)
          \/ ConnectByName(s) \/ ConnectByList(s)
          \/ \E o \in Opts : Setsockopt(s, o)
          \/ \E t \in Threads : Closesocket(t, s)
    \/ \E t \in Threads : CloseUnregister(t)

Spec == Init /\ [][Next]_vars

-----------------------------------------------------------------------------
TypeOK ==
    /\ reg \subseteq everReg /\ everReg \subseteq Handles
    /\ typ \in [Handles -> Kinds]
    /\ bound \in [Handles -> BOOLEAN]
    /\ conn \in [Handles -> Objs \cup {NoObj}]
    /\ lst \in [Handles -> Objs \cup {NoObj}]
    /\ opts \in [Handles -> SUBSET Opts]
    /\ applied \in [Handles -> SUBSET Opts]
    /\ origin \in [Handles -> {"none", "bind", "accept", "connect", "extended"}]
    /\ open \subseteq 1..nobj
    /\ nobj \in 0..MaxObjs
    /\ closer \in [Threads -> [pc : {"idle", "unregister"}, h : Handles \cup {NoObj}]]
    /\ closed \in [Handles -> Nat]

\* Options outlive the endpoint and are re-applied on connect: while a
\* socket's st.Conn is the one connect dialled, every option stored in
\* st.Options, before or after the connect, has been applied to it.
\* GoConnect replays st.Options onto the new connection and setsockopt
\* applies to the live one.
ConnectAppliesStoredOptions ==
    \A s \in reg : origin[s] = "connect" => opts[s] \subseteq applied[s]

\* No transport object is orphaned: every open connection or listener is
\* held, as st.Conn or st.Listener, by a socket still in the registry, so
\* that closesocket or the last WSACleanup can close it.
NoOrphanEndpoint ==
    \A o \in open : \E s \in reg : conn[s] = o \/ lst[s] = o
====

------------------------------ MODULE Multiplex ------------------------------
(***************************************************************************)
(* select and WSAPoll of src/winsock (io_multplx.go) over the waiter       *)
(* bridge (waiter.go): a call registers one waiter entry on the readiness  *)
(* queue of every listed socket that has one, all feeding a fresh 1-slot   *)
(* channel (channelNotifier), probes readiness, and if nothing is ready    *)
(* waits on the channel (or its timeout) and probes again.                 *)
(*                                                                         *)
(* Three actors interleave: the thread in select or WSAPoll, a second      *)
(* application thread that connects, sends and receives on the same        *)
(* sockets, and the transport, which queues arriving datagrams and runs    *)
(* the waiter callbacks of the socket's queue.  A socket gets a waiter     *)
(* queue and an endpoint only from UpdateWaiterQueue (bind, connect,       *)
(* listen, accept); sendto's implicit bind sets st.Conn without it.        *)
(* Readiness is the read side: datagrams queued at the endpoint.           *)
(***************************************************************************)
EXTENDS Integers, FiniteSets

CONSTANTS
    Sockets,      \* socket handles in the registry (UDP sockets)
    Unknown,      \* a handle the registry does not know
    MaxArrivals   \* bound on datagrams arriving per socket

ASSUME Unknown \notin Sockets /\ MaxArrivals \in Nat

Handles == Sockets \cup {Unknown}

\* The timeout argument: a NULL timeval / negative timeout, a zero one, or a
\* positive one.
Timeouts == {"infinite", "zero", "finite"}

\* How st.Conn came to be: not yet, through a call that runs
\* UpdateWaiterQueue (WaiterQueue and Endpoint set), or through sendto's
\* implicit bind (WaiterQueue and Endpoint nil).
ConnKinds == {"none", "waited", "implicit"}

VARIABLES
    conn,       \* per socket, how st.Conn was set
    queued,     \* datagrams queued at each socket's endpoint
    peeked,     \* datagrams parked in each socket's PeekBuf by recv(MSG_PEEK)
    arrivals,   \* datagrams that have arrived per socket (bounded)
    regs,       \* sockets whose waiter queue holds the current call's entry
    ch,         \* the current call's channelNotifier holds a token
    sel,        \* the thread in select / WSAPoll
    last        \* history: the last completed select / WSAPoll ({} before the first)

vars == <<conn, queued, peeked, arrivals, regs, ch, sel, last>>

\* todo: the handles the register loop has still to visit.
SelStates == [pc : {"idle", "check", "wait", "recheck"}, op : {"select", "poll"},
              fds : SUBSET Handles, todo : SUBSET Handles, to : Timeouts]

Results == [op : {"select", "poll"}, to : Timeouts, ret : Int]

-----------------------------------------------------------------------------
(* Readiness, as the two calls probe it.                                   *)

\* checkReadReady: the endpoint's EventIn readiness when the socket has an
\* endpoint; a socket without one (no listener either) is never readable.
CheckReadReady(s) == conn[s] = "waited" /\ queued[s] > 0

\* select's checkReadiness over readfds: a handle the registry does not
\* know is skipped.
SelectReady(fds) == {s \in fds \cap Sockets : CheckReadReady(s)}

\* WSAPoll's checkReadiness over entries asking POLLIN: an unknown handle
\* gets POLLNVAL and counts; a socket with an endpoint reports its EventIn
\* readiness, one without falls back to checkReadReady.
PollReady(fds) == {h \in fds : h \notin Sockets \/ CheckReadReady(h)}

ReadySet(op, fds) == IF op = "select" THEN SelectReady(fds) ELSE PollReady(fds)

\* The register loop: an entry on the waiter queue of every known socket
\* whose WaiterQueue is set.
\* Return with the result of a readiness pass; the deferred unregister
\* removes every entry.
Return(n) ==
    /\ regs' = {}
    /\ sel' = [sel EXCEPT !.pc = "idle"]
    /\ last' = {[op |-> sel.op, to |-> sel.to, ret |-> n]}

-----------------------------------------------------------------------------
Init ==
    /\ conn = [s \in Sockets |-> "none"]
    /\ queued = [s \in Sockets |-> 0]
    /\ peeked = [s \in Sockets |-> 0]
    /\ arrivals = [s \in Sockets |-> 0]
    /\ regs = {}
    /\ ch = FALSE
    /\ sel = [pc |-> "idle", op |-> "select", fds |-> {}, todo |-> {}, to |-> "zero"]
    /\ last = {}

-----------------------------------------------------------------------------
(* The second application thread.                                          *)

\* UpdateWaiterQueue after st.Conn was replaced: WaiterQueue and Endpoint
\* now come from the new connection.  Its waiter queue is a new one, so an
\* entry a running select put on the old queue no longer hears s.
UpdateWaiterQueue(s) ==
    /\ conn' = [conn EXCEPT ![s] = "waited"]
    /\ regs' = regs \ {s}

\* connect on a UDP socket: DialUDP, close the previous st.Conn (its queued
\* datagrams go with it), st.Conn = conn, UpdateWaiterQueue.
Connect(s) ==
    /\ queued' = [queued EXCEPT ![s] = 0]
    /\ UpdateWaiterQueue(s)
    /\ UNCHANGED <<peeked, arrivals, ch, sel, last>>

\* sendto on a UDP socket with no st.Conn: the implicit bind to 0.0.0.0:0
\* sets st.Conn = ListenUDP(...) and nothing else.  (The datagram it sends
\* changes no readiness this model tracks.)
Sendto(s) ==
    /\ conn[s] = "none"
    /\ conn' = [conn EXCEPT ![s] = "implicit"]
    /\ UNCHANGED <<queued, peeked, arrivals, regs, ch, sel, last>>

\* Mutant of RecvPeek: a peek reads the endpoint again although PeekBuf
\* already holds a datagram, and appends it.
RecvPeekAppend(s) ==
    /\ conn[s] # "none"
    /\ queued[s] > 0
    /\ queued' = [queued EXCEPT ![s] = @ - 1]
    /\ peeked' = [peeked EXCEPT ![s] = @ + 1]
    /\ UNCHANGED <<conn, arrivals, regs, ch, sel, last>>

\* recv(MSG_PEEK) with PeekBuf empty reads one datagram into PeekBuf.
RecvPeek(s) ==
    /\ conn[s] # "none"
    /\ peeked[s] = 0 /\ queued[s] > 0
    /\ queued' = [queued EXCEPT ![s] = @ - 1]
    /\ peeked' = [peeked EXCEPT ![s] = 1]
    /\ UNCHANGED <<conn, arrivals, regs, ch, sel, last>>

\* A non-blocking recv that returns data: it empties PeekBuf first and,
\* when the caller's buffer is longer than what PeekBuf held, goes on to
\* read the next datagram; with PeekBuf empty it reads one datagram.
Recv(s) ==
    /\ conn[s] # "none"
    /\ \/ /\ peeked[s] > 0
          /\ peeked' = [peeked EXCEPT ![s] = 0]
          /\ \/ UNCHANGED queued
             \/ queued[s] > 0 /\ queued' = [queued EXCEPT ![s] = @ - 1]
       \/ /\ peeked[s] = 0 /\ queued[s] > 0
          /\ queued' = [queued EXCEPT ![s] = @ - 1]
          /\ UNCHANGED peeked
    /\ UNCHANGED <<conn, arrivals, regs, ch, sel, last>>

-----------------------------------------------------------------------------
(* The transport.                                                          *)

\* A datagram arrives at the socket's endpoint; the endpoint's waiter queue
\* runs the callback of every entry, and channelNotifier.NotifyEvent leaves
\* a token unless the channel already holds one.  A socket bound by sendto
\* has an endpoint but no WaiterQueue the model can see.
Arrive(s) ==
    /\ conn[s] # "none"
    /\ arrivals[s] < MaxArrivals
    /\ arrivals' = [arrivals EXCEPT ![s] = @ + 1]
    /\ queued' = [queued EXCEPT ![s] = @ + 1]
    /\ ch' = (ch \/ s \in regs)
    /\ UNCHANGED <<conn, peeked, regs, sel, last>>

-----------------------------------------------------------------------------
(* The thread in select / WSAPoll.                                         *)

\* select(readfds = fds, timeout): a fresh channel; the register loop and
\* the first pass follow as steps of their own.
Select(fds, to) ==
    /\ sel.pc = "idle"
    /\ ch' = FALSE
    /\ sel' = [pc |-> "check", op |-> "select", fds |-> fds, todo |-> fds, to |-> to]
    /\ UNCHANGED regs
    /\ UNCHANGED <<conn, queued, peeked, arrivals, last>>

\* WSAPoll(fdArray, fds, timeout) with POLLIN on every entry: fds == 0 is
\* WSAEINVAL; otherwise as select.
WSAPoll(fds, to) ==
    /\ sel.pc = "idle"
    /\ \/ /\ fds = {}
          /\ last' = {[op |-> "poll", to |-> to, ret |-> -1]}
          /\ UNCHANGED <<ch, regs, sel>>
       \/ /\ fds # {}
          /\ ch' = FALSE
          /\ sel' = [pc |-> "check", op |-> "poll", fds |-> fds, todo |-> fds, to |-> to]
          /\ UNCHANGED <<regs, last>>
    /\ UNCHANGED <<conn, queued, peeked, arrivals>>

\* One turn of the register loop: an entry on h's waiter queue when the
\* registry knows h and its WaiterQueue is set (EventIn|EventErr|EventHUp
\* for readfds, EventErr|EventHUp|EventIn for POLLIN).
Register(h) ==
    /\ h \in sel.todo
    /\ regs' = IF h \in Sockets /\ conn[h] = "waited" THEN regs \cup {h} ELSE regs
    /\ sel' = [sel EXCEPT !.todo = @ \ {h}]
    /\ UNCHANGED <<conn, queued, peeked, arrivals, ch, last>>

\* Mutant: the first pass probes before the register loop has finished.
FirstPassEarly ==
    /\ sel.pc = "check"
    /\ LET ready == ReadySet(sel.op, sel.fds) IN
       \/ /\ ready # {} \/ sel.to = "zero"
          /\ Return(Cardinality(ready))
       \/ /\ ready = {} /\ sel.to # "zero"
          /\ sel' = [sel EXCEPT !.pc = "wait"]
          /\ UNCHANGED <<regs, last>>
    /\ UNCHANGED <<conn, queued, peeked, arrivals, ch>>

\* The first pass: return if anything is ready or the timeout is zero;
\* otherwise wait.
FirstPass ==
    /\ sel.pc = "check" /\ sel.todo = {}
    /\ LET ready == ReadySet(sel.op, sel.fds) IN
       \/ /\ ready # {} \/ sel.to = "zero"
          /\ Return(Cardinality(ready))
       \/ /\ ready = {} /\ sel.to # "zero"
          /\ sel' = [sel EXCEPT !.pc = "wait"]
          /\ UNCHANGED <<regs, last>>
    /\ UNCHANGED <<conn, queued, peeked, arrivals, ch>>

\* <-ch: a callback left a token.
Wake ==
    /\ sel.pc = "wait" /\ ch
    /\ ch' = FALSE
    /\ sel' = [sel EXCEPT !.pc = "recheck"]
    /\ UNCHANGED <<conn, queued, peeked, arrivals, regs, last>>

\* <-time.After(waitTime) of a finite wait.
TimerFires ==
    /\ sel.pc = "wait" /\ sel.to = "finite"
    /\ sel' = [sel EXCEPT !.pc = "recheck"]
    /\ UNCHANGED <<conn, queued, peeked, arrivals, regs, ch, last>>

\* The final pass: its count is the result, whatever it is.
FinalPass ==
    /\ sel.pc = "recheck"
    /\ LET ready == ReadySet(sel.op, sel.fds) IN Return(Cardinality(ready))
    /\ UNCHANGED <<conn, queued, peeked, arrivals, ch>>

Next ==
    \/ \E s \in Sockets : Connect(s) \/ Sendto(s) \/ RecvPeek(s) \/ Recv(s) \/ Arrive(s)
    \/ \E fds \in SUBSET Handles, to \in Timeouts : Select(fds, to) \/ WSAPoll(fds, to)
    \/ \E h \in Handles : Register(h)
    \/ FirstPass \/ Wake \/ TimerFires \/ FinalPass

Spec == Init /\ [][Next]_vars

-----------------------------------------------------------------------------
TypeOK ==
    /\ conn \in [Sockets -> ConnKinds]
    /\ queued \in [Sockets -> 0..MaxArrivals]
    /\ peeked \in [Sockets -> 0..1]
    /\ arrivals \in [Sockets -> 0..MaxArrivals]
    /\ regs \subseteq Sockets
    /\ ch \in BOOLEAN
    /\ sel \in SelStates
    /\ last \subseteq Results /\ Cardinality(last) <= 1

\* No lost wake-up: while select or WSAPoll waits on its channel, every
\* socket it registered on that has a datagram ready has left a token.  It
\* rests on the register loop finishing before the first pass and on
\* NotifyEvent's non-blocking send keeping one token.
NoLostWakeup ==
    sel.pc = "wait" /\ (\E s \in regs : CheckReadReady(s)) => ch

\* An INFINITE select or WSAPoll returns only when something is ready, as
\* Winsock's does: it never returns 0 (GoSelect and GoWSAPoll return the
\* final pass's count after one wake-up, whatever it is).
InfiniteWaitNeverZero ==
    \A r \in last : r.to = "infinite" => r.ret # 0

====

----------------------------- MODULE EventSelect -----------------------------
(***************************************************************************)
(* Event-driven notification of src/winsock: the per-socket event record   *)
(* of SocketState (NetworkEvents, EventHandle, FiredEvents and the waiter  *)
(* entry), the waiter callback SocketState.NotifyEvent run by the          *)
(* transport's goroutine, WSAEventSelect, WSAEnumNetworkEvents, the event  *)
(* objects (1-slot channels kept in registry.events) and                   *)
(* WSAWaitForMultipleEvents.                                               *)
(*                                                                         *)
(* Two threads interleave: the application thread, which calls the API,    *)
(* and per socket the transport goroutine that enqueues an arriving packet *)
(* and runs NotifyEvent.  NotifyEvent is two steps (the atomic add to      *)
(* FiredEvents, then the non-blocking send on the event channel) and       *)
(* WSAEnumNetworkEvents is two steps (the atomic swap, then the drain), as *)
(* in the code, where nothing holds a lock across them.                    *)
(***************************************************************************)
EXTENDS Integers, Sequences, SequencesExt, FiniteSets, Bitwise

CONSTANTS
    Sockets,        \* socket handles, each with a connected datagram endpoint
    Events,         \* event handles WSACreateEvent may hand out
    NoEvent,        \* the null event handle (hEventObject == nil)
    SelectMasks,    \* lNetworkEvents values the application passes
    MaxArrivals,    \* bound on packets arriving per socket
    MaxSelects,     \* bound on WSAEventSelect calls per socket
    MaxWaitLen      \* bound on cEvents passed to WSAWaitForMultipleEvents

ASSUME NoEvent \notin Events
ASSUME SelectMasks \subseteq Nat /\ MaxArrivals \in Nat /\ MaxSelects \in Nat
ASSUME MaxWaitLen \in Nat \ {0}

\* winsock2.h FD_* bits (io_multplx.go)
FD_READ   == 1
FD_WRITE  == 2
FD_ACCEPT == 8
FD_CLOSE  == 32

\* gvisor waiter.EventMask bits, as a set
EventMaskBits == {"In", "Out", "Err", "HUp"}

VARIABLES
    data,         \* packets queued at each socket's endpoint
    arrivals,     \* packets that have arrived per socket (bounded)
    selects,      \* WSAEventSelect calls per socket (bounded)
    netEvents,    \* SocketState.NetworkEvents
    evHandle,     \* SocketState.EventHandle
    fired,        \* SocketState.FiredEvents (int32 word)
    waiterMask,   \* mask of the registered SocketState.WaiterEntry ({} = none)
    evCreated,    \* event handles ever returned by RegisterEvent
    evLive,       \* handles present in registry.events
    evSlot,       \* whether each event's 1-slot channel holds a token
    ntf,          \* transport goroutine: "idle" or "signal" (between add and send)
    app,          \* application thread
    consumed      \* history: the application took or reset the signal of the
                  \* socket's event itself since the socket's last enumeration

vars == <<data, arrivals, selects, netEvents, evHandle, fired, waiterMask, evCreated,
          evLive, evSlot, ntf, app, consumed>>

AppStates == [pc : {"ready", "enum", "waiting"}, ev : Events \cup {NoEvent},
              handles : Seq(Events), cases : Seq(Events), infinite : BOOLEAN]

-----------------------------------------------------------------------------
(* Helpers translated from the code.                                       *)

\* Readiness of a connected datagram endpoint: readable when a packet is queued.
Readiness(s) == IF data[s] > 0 THEN {"In"} ELSE {}

\* The waiter mask WSAEventSelect registers for lNetworkEvents.
WaiterMaskOf(m) ==
    (IF m & (FD_READ | FD_ACCEPT) # 0 THEN {"In"} ELSE {})
    \cup (IF m & FD_WRITE # 0 THEN {"Out"} ELSE {})
    \cup (IF m & FD_CLOSE # 0 THEN {"Err", "HUp"} ELSE {})

\* NotifyEvent's translation of a waiter mask into FD bits, restricted to
\* NetworkEvents (the socket is not a listener, so In means FD_READ).
FiredOf(mask, ne) ==
    LET f == (IF "In" \in mask THEN FD_READ ELSE 0)
             | (IF "Out" \in mask THEN FD_WRITE ELSE 0)
             | (IF mask \cap {"Err", "HUp"} # {} THEN FD_CLOSE ELSE 0)
    IN f & ne

\* Non-blocking send on an event channel found in the registry.
Signal(e) ==
    IF e # NoEvent /\ e \in evLive
    THEN evSlot' = [evSlot EXCEPT ![e] = TRUE]
    ELSE UNCHANGED evSlot

\* atomic.AddInt32(&st.FiredEvents, f).
AddFired(s, f) == fired' = [fired EXCEPT ![s] = @ + f]

-----------------------------------------------------------------------------
Init ==
    /\ data = [s \in Sockets |-> 0]
    /\ arrivals = [s \in Sockets |-> 0]
    /\ selects = [s \in Sockets |-> 0]
    /\ netEvents = [s \in Sockets |-> 0]
    /\ evHandle = [s \in Sockets |-> NoEvent]
    /\ fired = [s \in Sockets |-> 0]
    /\ waiterMask = [s \in Sockets |-> {}]
    /\ evCreated = {}
    /\ evLive = {}
    /\ evSlot = [e \in Events |-> FALSE]
    /\ ntf = [s \in Sockets |-> "idle"]
    /\ app = [pc |-> "ready", ev |-> NoEvent, handles |-> <<>>,
              cases |-> <<>>, infinite |-> FALSE]
    /\ consumed = [s \in Sockets |-> FALSE]

-----------------------------------------------------------------------------
(* Transport goroutine: a packet is queued and the waiter queue notifies   *)
(* the entry with EventIn; NotifyEvent adds the fired bits (first step).   *)
DataArrives(s) ==
    /\ ntf[s] = "idle"
    /\ arrivals[s] < MaxArrivals
    /\ arrivals' = [arrivals EXCEPT ![s] = @ + 1]
    /\ data' = [data EXCEPT ![s] = @ + 1]
    /\ LET m == {"In"} \cap waiterMask[s]
           f == FiredOf(m, netEvents[s])
       IN IF m # {} /\ f # 0
          THEN /\ AddFired(s, f)
               /\ ntf' = [ntf EXCEPT ![s] = "signal"]
          ELSE UNCHANGED <<fired, ntf>>
    /\ UNCHANGED <<selects, netEvents, evHandle, waiterMask, evCreated,
                   evLive, evSlot, app, consumed>>

\* Second step of NotifyEvent: re-read st.EventHandle, signal its channel.
NotifySignal(s) ==
    /\ ntf[s] = "signal"
    /\ ntf' = [ntf EXCEPT ![s] = "idle"]
    /\ Signal(evHandle[s])
    /\ UNCHANGED <<data, arrivals, selects, netEvents, evHandle, fired, waiterMask,
                   evCreated, evLive, app, consumed>>

-----------------------------------------------------------------------------
(* Application thread.                                                     *)
AppReady == app.pc = "ready"

\* WSACreateEvent: RegisterEvent hands out a fresh handle with an empty slot.
WSACreateEvent(e) ==
    /\ AppReady
    /\ e \notin evCreated
    /\ evCreated' = evCreated \cup {e}
    /\ evLive' = evLive \cup {e}
    /\ evSlot' = [evSlot EXCEPT ![e] = FALSE]
    /\ UNCHANGED <<data, arrivals, selects, netEvents, evHandle, fired, waiterMask,
                   ntf, app, consumed>>

\* WSACloseEvent: UnregisterEvent deletes the map entry (returns TRUE always).
WSACloseEvent(e) ==
    /\ AppReady
    /\ evLive' = evLive \ {e}
    /\ UNCHANGED <<data, arrivals, selects, netEvents, evHandle, fired, waiterMask,
                   evCreated, evSlot, ntf, app, consumed>>

\* WSASetEvent: fill the slot if the handle is registered.
WSASetEvent(e) ==
    /\ AppReady
    /\ Signal(e)
    /\ UNCHANGED <<data, arrivals, selects, netEvents, evHandle, fired, waiterMask,
                   evCreated, evLive, ntf, app, consumed>>

\* WSAResetEvent: drain the slot if the handle is registered.
WSAResetEvent(e) ==
    /\ AppReady
    /\ evSlot' = IF e \in evLive THEN [evSlot EXCEPT ![e] = FALSE] ELSE evSlot
    /\ consumed' = [s \in Sockets |-> consumed[s] \/ (e \in evLive /\ evHandle[s] = e)]
    /\ UNCHANGED <<data, arrivals, selects, netEvents, evHandle, fired, waiterMask,
                   evCreated, evLive, ntf, app>>

\* Mutant of Recv: the WSAEWOULDBLOCK check on an empty queue is dropped.
RecvNoGuard(s) ==
    /\ AppReady
    /\ data' = [data EXCEPT ![s] = @ - 1]
    /\ UNCHANGED <<arrivals, selects, netEvents, evHandle, fired, waiterMask,
                   evCreated, evLive, evSlot, ntf, app,
                   consumed>>

\* recv on the non-blocking socket takes one queued packet (WSAEWOULDBLOCK
\* and no change when none is queued).
Recv(s) ==
    /\ AppReady
    /\ data[s] > 0
    /\ data' = [data EXCEPT ![s] = @ - 1]
    /\ UNCHANGED <<arrivals, selects, netEvents, evHandle, fired, waiterMask,
                   evCreated, evLive, evSlot, ntf, app,
                   consumed>>

\* WSAEventSelect(s, e, m).  An unregistered non-null e fails with WSAEINVAL
\* and changes nothing, so only e \in evLive \cup {NoEvent} is a step.  The old
\* waiter is unregistered (FiredEvents is left as it is), the new handle and
\* mask are stored, and when both are non-zero a waiter is registered and
\* NotifyEvent is called at once for the readiness already present.
WSAEventSelect(s, e, m) ==
    /\ AppReady
    /\ e \in evLive \cup {NoEvent}
    /\ selects[s] < MaxSelects
    /\ selects' = [selects EXCEPT ![s] = @ + 1]
    /\ LET wm    == IF m # 0 /\ e # NoEvent THEN WaiterMaskOf(m) ELSE {}
           ready == Readiness(s) \cap wm
           f     == FiredOf(ready, m)
       IN /\ waiterMask' = [waiterMask EXCEPT ![s] = wm]
          /\ IF ready # {} /\ f # 0
             THEN AddFired(s, f) /\ Signal(e)
             ELSE UNCHANGED <<fired, evSlot>>
    /\ evHandle' = [evHandle EXCEPT ![s] = e]
    /\ netEvents' = [netEvents EXCEPT ![s] = m]
    /\ UNCHANGED <<data, arrivals, evCreated, evLive, ntf, app, consumed>>

\* WSAEnumNetworkEvents(s, e), first step: atomic.SwapInt32(&FiredEvents, 0).
WSAEnumNetworkEvents(s, e) ==
    /\ AppReady
    /\ fired' = [fired EXCEPT ![s] = 0]
    /\ consumed' = [consumed EXCEPT ![s] = FALSE]
    /\ app' = [app EXCEPT !.pc = "enum", !.ev = e]
    /\ UNCHANGED <<data, arrivals, selects, netEvents, evHandle, waiterMask, evCreated,
                   evLive, evSlot, ntf>>

\* Second step: drain hEventObject's channel if it is registered.
EnumDrain ==
    /\ app.pc = "enum"
    /\ evSlot' = IF app.ev \in evLive
                 THEN [evSlot EXCEPT ![app.ev] = FALSE] ELSE evSlot
    /\ app' = [app EXCEPT !.pc = "ready", !.ev = NoEvent]
    /\ UNCHANGED <<data, arrivals, selects, netEvents, evHandle, fired, waiterMask,
                   evCreated, evLive, ntf, consumed>>

\* WSAWaitForMultipleEvents(hs, infinite): the select cases are built from
\* the handles GetEvent still finds, in order; fWaitAll is ignored.
WSAWaitForMultipleEvents(hs, inf) ==
    /\ AppReady
    /\ app' = [app EXCEPT !.pc = "waiting", !.handles = hs,
                          !.cases = SelectSeq(hs, LAMBDA h : h \in evLive),
                          !.infinite = inf]
    /\ UNCHANGED <<data, arrivals, selects, netEvents, evHandle, fired, waiterMask,
                   evCreated, evLive, evSlot, ntf,
                   consumed>>

\* reflect.Select receives from the i-th case, one that is ready, and the
\* call returns i - 1, its position among the cases.
WaitWake(i) ==
    /\ app.pc = "waiting"
    /\ i \in 1..Len(app.cases)
    /\ evSlot[app.cases[i]]
    /\ evSlot' = [evSlot EXCEPT ![app.cases[i]] = FALSE]
    /\ consumed' = [s \in Sockets |-> consumed[s] \/ evHandle[s] = app.cases[i]]
    /\ app' = [pc |-> "ready", ev |-> NoEvent, handles |-> <<>>,
               cases |-> <<>>, infinite |-> FALSE]
    /\ UNCHANGED <<data, arrivals, selects, netEvents, evHandle, fired, waiterMask,
                   evCreated, evLive, ntf>>

\* The timer case fires (only when dwTimeout is not INFINITE).
WaitTimeout ==
    /\ app.pc = "waiting"
    /\ ~app.infinite
    /\ app' = [pc |-> "ready", ev |-> NoEvent, handles |-> <<>>,
               cases |-> <<>>, infinite |-> FALSE]
    /\ UNCHANGED <<data, arrivals, selects, netEvents, evHandle, fired, waiterMask,
                   evCreated, evLive, evSlot, ntf,
                   consumed>>

-----------------------------------------------------------------------------
Next ==
    \/ \E s \in Sockets : DataArrives(s) \/ NotifySignal(s) \/ Recv(s)
    \/ \E e \in Events : WSACreateEvent(e) \/ WSACloseEvent(e)
                         \/ WSASetEvent(e) \/ WSAResetEvent(e)
    \/ \E s \in Sockets, e \in Events \cup {NoEvent}, m \in SelectMasks :
          WSAEventSelect(s, e, m)
    \/ \E s \in Sockets, e \in Events \cup {NoEvent} : WSAEnumNetworkEvents(s, e)
    \/ EnumDrain
    \/ \E hs \in BoundedSeq(Events, MaxWaitLen), inf \in BOOLEAN :
          hs # <<>> /\ WSAWaitForMultipleEvents(hs, inf)
    \/ \E i \in 1..MaxWaitLen : WaitWake(i)
    \/ WaitTimeout

Spec == Init /\ [][Next]_vars

-----------------------------------------------------------------------------
(* Properties.                                                             *)

\* Every variable keeps its type, and a socket never has a negative number
\* of queued packets (recv only takes a packet that is there).
TypeOK ==
    /\ data \in [Sockets -> 0..MaxArrivals]
    /\ arrivals \in [Sockets -> 0..MaxArrivals]
    /\ selects \in [Sockets -> 0..MaxSelects]
    /\ netEvents \in [Sockets -> SelectMasks \cup {0}]
    /\ evHandle \in [Sockets -> Events \cup {NoEvent}]
    /\ fired \in [Sockets -> Nat]
    /\ waiterMask \in [Sockets -> SUBSET EventMaskBits]
    /\ evLive \subseteq evCreated /\ evCreated \subseteq Events
    /\ evSlot \in [Events -> BOOLEAN]
    /\ ntf \in [Sockets -> {"idle", "signal"}]
    /\ app \in AppStates
    /\ consumed \in [Sockets -> BOOLEAN]

\* No lost wake-up: while the application is blocked in an INFINITE
\* WSAWaitForMultipleEvents on the event a socket signals, and that socket
\* selected FD_READ and has a packet queued whose FD_READ is recorded but
\* not yet enumerated, the event is signalled or the transport goroutine is
\* about to signal it -- unless the application itself took or reset that signal since its last
\* WSAEnumNetworkEvents of the socket.  The drain in WSAEnumNetworkEvents is
\* meant to discard only the signal of the events its swap returned.
NoLostWakeup ==
    \A s \in Sockets :
        ( /\ app.pc = "waiting" /\ app.infinite /\ ~consumed[s]
          /\ evHandle[s] \in evLive
          /\ \E i \in 1..Len(app.cases) : app.cases[i] = evHandle[s]
          /\ data[s] > 0
          /\ netEvents[s] & FD_READ # 0
          /\ fired[s] & FD_READ # 0 )
        => (evSlot[evHandle[s]] \/ ntf[s] = "signal")

=============================================================================

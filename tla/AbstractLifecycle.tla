-------------------------- MODULE AbstractLifecycle --------------------------
(***************************************************************************)
(* What the lifecycle of src/winsock promises, with every call atomic:     *)
(* WSAStartup and WSACleanup bracket sessions and are counted; the last    *)
(* WSACleanup purges the socket map and takes the transport stack down in  *)
(* one step; the stack comes up lazily inside a session; GetStack returns  *)
(* the stack when it is up and an error otherwise, never nothing; socket   *)
(* and event handles come from one pool and are never handed out twice.    *)
(***************************************************************************)
EXTENDS Integers

CONSTANTS
    Threads,    \* application threads
    Handles     \* the handles the registry may hand out

VARIABLES
    count,      \* sessions open, over all threads
    up,         \* the transport stack is available
    sockets,    \* live socket handles
    events,     \* live event handles
    started,    \* per thread: its open sessions
    ret,        \* per thread: what its last GetStack returned
    issued      \* every handle ever handed out

avars == <<count, up, sockets, events, started, ret, issued>>

InSession(t) == started[t] > 0

Init ==
    /\ count = 0
    /\ up = FALSE
    /\ sockets = {}
    /\ events = {}
    /\ started = [t \in Threads |-> 0]
    /\ ret = [t \in Threads |-> "none"]
    /\ issued = {}

\* A session opens; the stack may come up with it.
Startup(t) ==
    /\ count' = count + 1
    /\ started' = [started EXCEPT ![t] = @ + 1]
    /\ up' \in {up, TRUE}
    /\ UNCHANGED <<sockets, events, ret, issued>>

\* A session closes; the last one purges the sockets and takes the stack down.
Cleanup(t) ==
    /\ InSession(t)
    /\ count' = count - 1
    /\ started' = [started EXCEPT ![t] = @ - 1]
    /\ IF count = 1 THEN sockets' = {} /\ up' = FALSE
                    ELSE UNCHANGED <<sockets, up>>
    /\ UNCHANGED <<events, ret, issued>>

\* Inside a session, a call brings the stack up.
BringUp(t) ==
    /\ InSession(t)
    /\ up' = TRUE
    /\ UNCHANGED <<count, sockets, events, started, ret, issued>>

\* GetStack answers from the stack's state.
GetStack(t) ==
    /\ InSession(t)
    /\ ret' = [ret EXCEPT ![t] = IF up THEN "stack" ELSE "error"]
    /\ UNCHANGED <<count, up, sockets, events, started, issued>>

\* A new socket or event takes a handle never handed out before.
NewSocket(t) ==
    /\ InSession(t)
    /\ \E h \in Handles \ issued : sockets' = sockets \cup {h} /\ issued' = issued \cup {h}
    /\ UNCHANGED <<count, up, events, started, ret>>

NewEvent(t) ==
    /\ InSession(t)
    /\ \E h \in Handles \ issued : events' = events \cup {h} /\ issued' = issued \cup {h}
    /\ UNCHANGED <<count, up, sockets, started, ret>>

CloseSocket(t, h) ==
    /\ InSession(t)
    /\ sockets' = sockets \ {h}
    /\ UNCHANGED <<count, up, events, started, ret, issued>>

CloseEvent(t, h) ==
    /\ InSession(t)
    /\ events' = events \ {h}
    /\ UNCHANGED <<count, up, sockets, started, ret, issued>>

Next ==
    \E t \in Threads :
        \/ Startup(t) \/ Cleanup(t) \/ BringUp(t) \/ GetStack(t)
        \/ NewSocket(t) \/ NewEvent(t)
        \/ \E h \in Handles : CloseSocket(t, h) \/ CloseEvent(t, h)

Spec == Init /\ [][Next]_avars

=============================================================================

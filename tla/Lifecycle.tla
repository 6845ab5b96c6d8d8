------------------------------ MODULE Lifecycle ------------------------------
(***************************************************************************)
(* Process-wide lifecycle of src/winsock: the reference count of           *)
(* WSAStartup / WSACleanup under wsaMu, the transport stack's              *)
(* InitializeStack / GetStack / CloseStack under stackMu, and the handle   *)
(* registry's socket and event maps with the shared NextHandle counter.    *)
(*                                                                         *)
(* Application threads call the API concurrently.  Each thread keeps its   *)
(* own WSAStartup / WSACleanup calls balanced and makes other calls only   *)
(* between them, as a Winsock application must.  Operations that take and  *)
(* release a lock more than once are split at the release: WSACleanup     *)
(* (PurgeAll, then CloseStack), GetStack (the RLock check, then            *)
(* InitializeStack, then a second RLock) and closesocket (Get, then        *)
(* Unregister).                                                            *)
(***************************************************************************)
EXTENDS Integers, FiniteSets

CONSTANTS
    Threads,      \* application threads
    None,         \* no thread holds wsaMu
    MaxStarts,    \* bound on WSAStartup calls per thread
    MaxHandles    \* bound on handles the registry hands out

ASSUME None \notin Threads /\ MaxStarts \in Nat /\ MaxHandles \in Nat

FirstHandle == 1000          \* registry.NextHandle's initial value
HandleRange == FirstHandle + 1 .. FirstHandle + MaxHandles

VARIABLES
    refCount,     \* wsaRefCount
    wsaOwner,     \* thread holding wsaMu across WSACleanup's two steps, or None
    stackInit,    \* stackInitialized (globalStack is non-nil exactly then)
    nextHandle,   \* registry.NextHandle
    sockets,      \* handles in registry.sockets
    events,       \* handles in registry.events
    pc,           \* per thread: where it is inside a multi-step call
    arg,          \* per thread: the handle closesocket is closing
    started,      \* per thread: its WSAStartup calls minus its WSACleanup calls
    starts,       \* per thread: WSAStartup calls made (bounded)
    ret,          \* per thread: what its last GetStack returned
    issued        \* history: every handle the registry has handed out

vars == <<refCount, wsaOwner, stackInit, nextHandle, sockets, events, pc, arg,
          started, starts, ret, issued>>

-----------------------------------------------------------------------------
Init ==
    /\ refCount = 0
    /\ wsaOwner = None
    /\ stackInit = FALSE
    /\ nextHandle = FirstHandle
    /\ sockets = {}
    /\ events = {}
    /\ pc = [t \in Threads |-> "idle"]
    /\ arg = [t \in Threads |-> 0]
    /\ started = [t \in Threads |-> 0]
    /\ starts = [t \in Threads |-> 0]
    /\ ret = [t \in Threads |-> "none"]
    /\ issued = {}

Idle(t) == pc[t] = "idle"
InSession(t) == Idle(t) /\ started[t] > 0

\* InitializeStack under stackMu: a no-op when already initialised,
\* otherwise loads wg.conf and brings the device up, which succeeds (ok) or
\* fails with stackInitialized left FALSE.
InitializeStack(ok) == stackInit' = (stackInit \/ ok)

\* registry.PurgeAll: every socket's waiter is unregistered, its Conn or
\* Listener closed and its entry deleted; events and overlapped entries stay.
PurgeAll == sockets' = {}

\* atomic.AddUint64(&r.NextHandle, 1) under r.mu, in Register / RegisterEvent.
NewHandle == nextHandle + 1

-----------------------------------------------------------------------------
(* lifecycle.go                                                            *)

\* WSAStartup: under wsaMu, wsaRefCount++, then InitializeStack("wg.conf")
\* whose error is ignored.
WSAStartup(t, ok) ==
    /\ Idle(t) /\ wsaOwner = None
    /\ starts[t] < MaxStarts
    /\ refCount' = refCount + 1
    /\ started' = [started EXCEPT ![t] = @ + 1]
    /\ starts' = [starts EXCEPT ![t] = @ + 1]
    /\ InitializeStack(ok)
    /\ UNCHANGED <<wsaOwner, nextHandle, sockets, events, pc, arg, ret, issued>>

\* Mutants of WSACleanup: the teardown skips PurgeAll; wsaMu is released
\* before CloseStack.
WSACleanupNoPurge(t) ==
    /\ InSession(t) /\ wsaOwner = None
    /\ started' = [started EXCEPT ![t] = @ - 1]
    /\ refCount' = IF refCount > 0 THEN refCount - 1 ELSE refCount
    /\ IF refCount = 1
       THEN /\ wsaOwner' = t
            /\ pc' = [pc EXCEPT ![t] = "closeStack"]
       ELSE UNCHANGED <<wsaOwner, pc>>
    /\ UNCHANGED <<stackInit, nextHandle, sockets, events, arg, starts, ret, issued>>

WSACleanupEarlyUnlock(t) ==
    /\ InSession(t) /\ wsaOwner = None
    /\ started' = [started EXCEPT ![t] = @ - 1]
    /\ refCount' = IF refCount > 0 THEN refCount - 1 ELSE refCount
    /\ IF refCount = 1
       THEN /\ PurgeAll
            /\ pc' = [pc EXCEPT ![t] = "closeStack"]
       ELSE UNCHANGED <<sockets, pc>>
    /\ UNCHANGED <<wsaOwner, stackInit, nextHandle, events, arg, starts, ret, issued>>

\* WSACleanup, first step: under wsaMu, a positive count is decremented;
\* when it reaches 0, registry.PurgeAll empties the socket map and the
\* thread goes on to CloseStack still holding wsaMu.
WSACleanup(t) ==
    /\ InSession(t) /\ wsaOwner = None
    /\ started' = [started EXCEPT ![t] = @ - 1]
    /\ refCount' = IF refCount > 0 THEN refCount - 1 ELSE refCount
    /\ IF refCount = 1
       THEN /\ PurgeAll
            /\ wsaOwner' = t
            /\ pc' = [pc EXCEPT ![t] = "closeStack"]
       ELSE UNCHANGED <<sockets, wsaOwner, pc>>
    /\ UNCHANGED <<stackInit, nextHandle, events, arg, starts, ret, issued>>

\* Mutant of CleanupCloseStack: stackInitialized is not reset.
CleanupKeepStack(t) ==
    /\ pc[t] = "closeStack"
    /\ wsaOwner' = None
    /\ pc' = [pc EXCEPT ![t] = "idle"]
    /\ UNCHANGED <<refCount, stackInit, nextHandle, sockets, events, arg, started,
                   starts, ret, issued>>

\* CloseStack under stackMu, then wsaMu is released.
CleanupCloseStack(t) ==
    /\ pc[t] = "closeStack"
    /\ stackInit' = FALSE
    /\ wsaOwner' = None
    /\ pc' = [pc EXCEPT ![t] = "idle"]
    /\ UNCHANGED <<refCount, nextHandle, sockets, events, arg, started, starts,
                   ret, issued>>

-----------------------------------------------------------------------------
(* sock_mgmt.go, event_objects.go (registry.go underneath)                 *)

\* socket / WSASocketA / WSASocketW: registry.Register of a new SocketState.
Socket(t) ==
    /\ InSession(t)
    /\ nextHandle < FirstHandle + MaxHandles
    /\ nextHandle' = NewHandle
    /\ sockets' = sockets \cup {NewHandle}
    /\ issued' = issued \cup {NewHandle}
    /\ UNCHANGED <<refCount, wsaOwner, stackInit, events, pc, arg, started,
                   starts, ret>>

\* closesocket, first step: registry.Get (WSAENOTSOCK when absent), then
\* Conn/Listener Close outside the lock.
Closesocket(t, h) ==
    /\ InSession(t)
    /\ h \in sockets
    /\ pc' = [pc EXCEPT ![t] = "unregister"]
    /\ arg' = [arg EXCEPT ![t] = h]
    /\ UNCHANGED <<refCount, wsaOwner, stackInit, nextHandle, sockets, events,
                   started, starts, ret, issued>>

\* Second step: registry.Unregister deletes the entry if it is still there.
CloseUnregister(t) ==
    /\ pc[t] = "unregister"
    /\ sockets' = sockets \ {arg[t]}
    /\ pc' = [pc EXCEPT ![t] = "idle"]
    /\ arg' = [arg EXCEPT ![t] = 0]
    /\ UNCHANGED <<refCount, wsaOwner, stackInit, nextHandle, events, started,
                   starts, ret, issued>>

\* WSACreateEvent: registry.RegisterEvent takes the next handle too.
WSACreateEvent(t) ==
    /\ InSession(t)
    /\ nextHandle < FirstHandle + MaxHandles
    /\ nextHandle' = NewHandle
    /\ events' = events \cup {NewHandle}
    /\ issued' = issued \cup {NewHandle}
    /\ UNCHANGED <<refCount, wsaOwner, stackInit, sockets, pc, arg, started,
                   starts, ret>>

\* WSACloseEvent: registry.UnregisterEvent.
WSACloseEvent(t, h) ==
    /\ InSession(t)
    /\ h \in events
    /\ events' = events \ {h}
    /\ UNCHANGED <<refCount, wsaOwner, stackInit, nextHandle, sockets, pc, arg,
                   started, starts, ret, issued>>

-----------------------------------------------------------------------------
(* stack.go: GetStack, called by bind, connect, listen, sendto, the        *)
(* resolver and the rest of the I/O paths.                                 *)

\* Under RLock: an initialised stack is returned; otherwise RUnlock.
GetStack(t) ==
    /\ InSession(t)
    /\ IF stackInit
       THEN /\ ret' = [ret EXCEPT ![t] = "stack"]
            /\ UNCHANGED pc
       ELSE /\ pc' = [pc EXCEPT ![t] = "initStack"]
            /\ UNCHANGED ret
    /\ UNCHANGED <<refCount, wsaOwner, stackInit, nextHandle, sockets, events,
                   arg, started, starts, issued>>

\* os.Stat("wg.conf") and InitializeStack (its own write lock); either
\* failure returns (nil, err).
GetStackInit(t, ok) ==
    /\ pc[t] = "initStack"
    /\ InitializeStack(ok)
    /\ IF stackInit \/ ok
       THEN /\ pc' = [pc EXCEPT ![t] = "reread"]
            /\ UNCHANGED ret
       ELSE /\ pc' = [pc EXCEPT ![t] = "idle"]
            /\ ret' = [ret EXCEPT ![t] = "error"]
    /\ UNCHANGED <<refCount, wsaOwner, nextHandle, sockets, events, arg,
                   started, starts, issued>>

\* RLock again and return globalStack, nil: nil if it was closed meanwhile.
GetStackReread(t) ==
    /\ pc[t] = "reread"
    /\ ret' = [ret EXCEPT ![t] = IF stackInit THEN "stack" ELSE "nil"]
    /\ pc' = [pc EXCEPT ![t] = "idle"]
    /\ UNCHANGED <<refCount, wsaOwner, stackInit, nextHandle, sockets, events,
                   arg, started, starts, issued>>

-----------------------------------------------------------------------------
Next ==
    \E t \in Threads :
        \/ \E ok \in BOOLEAN : WSAStartup(t, ok) \/ GetStackInit(t, ok)
        \/ WSACleanup(t) \/ CleanupCloseStack(t)
        \/ Socket(t) \/ CloseUnregister(t) \/ WSACreateEvent(t)
        \/ \E h \in sockets : Closesocket(t, h)
        \/ \E h \in events : WSACloseEvent(t, h)
        \/ GetStack(t) \/ GetStackReread(t)

Spec == Init /\ [][Next]_vars

-----------------------------------------------------------------------------
(* Properties.                                                             *)

TypeOK ==
    /\ refCount \in 0..MaxStarts * Cardinality(Threads)
    /\ wsaOwner \in Threads \cup {None}
    /\ \A t \in Threads : pc[t] = "closeStack" <=> wsaOwner = t
    /\ stackInit \in BOOLEAN
    /\ nextHandle \in FirstHandle .. FirstHandle + MaxHandles
    /\ sockets \subseteq HandleRange /\ events \subseteq HandleRange
    /\ pc \in [Threads -> {"idle", "closeStack", "unregister", "initStack", "reread"}]
    /\ arg \in [Threads -> {0} \cup HandleRange]
    /\ started \in [Threads -> 0..MaxStarts] /\ starts \in [Threads -> 0..MaxStarts]
    /\ ret \in [Threads -> {"none", "stack", "nil", "error"}]
    /\ issued \subseteq HandleRange

\* After the last WSACleanup has finished, the socket map is empty (no
\* socket registered in a session survives its end).
SocketsPurgedAtCleanup ==
    (refCount = 0 /\ wsaOwner = None) => sockets = {}

-----------------------------------------------------------------------------
(* Refinement.                                                             *)

\* The abstract stack is up when stackInitialized is set and no WSACleanup
\* is between its PurgeAll and its CloseStack: the last cleanup takes the
\* stack down, for everyone else, at its first step.
Abs == INSTANCE AbstractLifecycle
           WITH Handles <- HandleRange, count <- refCount,
                up <- stackInit /\ wsaOwner = None,
                sockets <- sockets, events <- events, started <- started,
                ret <- ret, issued <- issued

\* Lifecycle implements AbstractLifecycle: WSACleanup's two steps, GetStack's
\* three lock sections and closesocket's Get/Unregister behave as the atomic
\* calls of the abstract specification, whatever the interleaving of threads.
RefinesAbstractLifecycle == Abs!Spec

=============================================================================

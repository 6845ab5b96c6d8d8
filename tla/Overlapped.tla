------------------------------ MODULE Overlapped ------------------------------
(***************************************************************************)
(* Overlapped I/O of src/winsock: WSASend and WSARecv with an OVERLAPPED,  *)
(* which store a pending OverlappedResult under the OVERLAPPED's address   *)
(* and start a goroutine that does the I/O, publishes the completed result *)
(* with SetOverlappedResult and then signals ov.HEvent; WSASendTo and      *)
(* WSARecvFrom, which accept an OVERLAPPED but run synchronously; and      *)
(* WSAGetOverlappedResult, which may block on the event and then takes     *)
(* (and deletes) the entry under the registry lock.                        *)
(*                                                                         *)
(* Actors: the application thread and one goroutine per asynchronous       *)
(* operation.  An operation is named by its OVERLAPPED and a generation    *)
(* number (the how-many-th operation on that OVERLAPPED), so a late        *)
(* goroutine of an earlier operation is told apart from the current one.   *)
(***************************************************************************)
EXTENDS Integers, FiniteSets, Functions, TLC

CONSTANTS
    Ovs,          \* OVERLAPPED structures (the overlapped map's keys)
    Events,       \* event handles (live for the whole run)
    NoEvent,      \* ov.HEvent == nil
    Bytes,        \* byte counts an I/O may transfer
    ErrCodes,     \* Winsock error codes an I/O may map to (0 = none)
    WaitModes,    \* fWait values the application passes
    MaxGen        \* bound on operations issued per OVERLAPPED

ASSUME NoEvent \notin Events /\ 0 \in ErrCodes /\ WaitModes \subseteq BOOLEAN
ASSUME MaxGen \in Nat \ {0}

WSA_IO_INCOMPLETE == 996
Unknown == -1                    \* the operation has not completed yet

\* OverlappedResult values: {Complete: false} and completed results.
Pending == [complete |-> FALSE, bytes |-> 0, err |-> 0]
Results == {Pending} \cup [complete : {TRUE}, bytes : Bytes, err : ErrCodes]

\* An operation, as the goroutine that carries it out knows it.
Ops == [o : Ovs, g : 1..MaxGen]

VARIABLES
    ovmap,     \* registry.overlapped: a function on the keys present
    hEvent,    \* ov.HEvent of each OVERLAPPED, written by the application
    evSlot,    \* each event channel's slot: {} or {the operation that filled it}
    gen,       \* operations issued per OVERLAPPED
    workers,   \* goroutines of asynchronous operations: op and pc
    view,      \* what the application knows of the operation on each OVERLAPPED
    kind,      \* "async" or "sync": how the current operation was carried out
    truth,     \* history: bytes the current operation transferred, or Unknown
    app,       \* the application thread
    last       \* history: what the last WSAGetOverlappedResult returned ({} or {outcome})

vars == <<ovmap, hEvent, evSlot, gen, workers, view, kind, truth, app, last>>

Outcomes == [o : Ovs, ret : BOOLEAN, bytes : Bytes \cup {0},
             err : ErrCodes \cup {WSA_IO_INCOMPLETE}, truth : Bytes \cup {Unknown},
             kind : {"async", "sync"}, waited : BOOLEAN]

AppIdle == [pc |-> "ready", o |-> NoEvent, wait |-> FALSE, tok |-> {}]

-----------------------------------------------------------------------------
(* Registry helpers (registry.go), each under r.mu.                        *)

\* SetOverlappedResult: r.overlapped[key] = result (insert or overwrite).
SetOverlappedResult(o, r) == ovmap' = (o :> r) @@ ovmap

\* Mutant of SetEvent: the event channel buffers every signal (a capacity
\* above one), so a second SetEvent is not dropped.
SetEventBuffered(e, op) ==
    evSlot' = IF e # NoEvent THEN [evSlot EXCEPT ![e] = @ \cup {op}] ELSE evSlot

\* Non-blocking send on the event's channel (GoWSASetEvent on a live event).
SetEvent(e, op) ==
    evSlot' = IF e # NoEvent /\ evSlot[e] = {}
              THEN [evSlot EXCEPT ![e] = {op}] ELSE evSlot

-----------------------------------------------------------------------------
Init ==
    /\ ovmap = <<>>
    /\ hEvent = [o \in Ovs |-> NoEvent]
    /\ evSlot = [e \in Events |-> {}]
    /\ gen = [o \in Ovs |-> 0]
    /\ workers = {}
    /\ view = [o \in Ovs |-> "none"]
    /\ kind = [o \in Ovs |-> "async"]
    /\ truth = [o \in Ovs |-> Unknown]
    /\ app = AppIdle
    /\ last = {}

\* The application issues an operation on o only when it has none
\* outstanding there (a reused OVERLAPPED is one whose completion it saw).
CanIssue(o) ==
    /\ app.pc = "ready"
    /\ view[o] # "pending"
    /\ gen[o] < MaxGen

\* WSASend / WSARecv with lpOverlapped: the pending entry is stored, the
\* goroutine is started, and the call returns WSA_IO_PENDING.
StartAsync(o, e) ==
    /\ SetOverlappedResult(o, Pending)
    /\ gen' = [gen EXCEPT ![o] = @ + 1]
    /\ workers' = workers \cup {[op |-> [o |-> o, g |-> gen[o] + 1], pc |-> "io"]}
    /\ hEvent' = [hEvent EXCEPT ![o] = e]
    /\ view' = [view EXCEPT ![o] = "pending"]
    /\ kind' = [kind EXCEPT ![o] = "async"]
    /\ truth' = [truth EXCEPT ![o] = Unknown]
    /\ UNCHANGED <<evSlot, app, last>>

WSASend(o, e) == CanIssue(o) /\ StartAsync(o, e)
WSARecv(o, e) == CanIssue(o) /\ StartAsync(o, e)

\* WSASendTo / WSARecvFrom with lpOverlapped: logged, then done at once
\* through sendto / recvfrom; the n bytes go to lpNumberOfBytes* and
\* neither the overlapped map nor ov.HEvent's channel is touched.
RunSync(o, e, n) ==
    /\ gen' = [gen EXCEPT ![o] = @ + 1]
    /\ hEvent' = [hEvent EXCEPT ![o] = e]
    /\ view' = [view EXCEPT ![o] = "done"]
    /\ kind' = [kind EXCEPT ![o] = "sync"]
    /\ truth' = [truth EXCEPT ![o] = n]
    /\ UNCHANGED <<ovmap, evSlot, workers, app, last>>

WSASendTo(o, e, n)   == CanIssue(o) /\ RunSync(o, e, n)
WSARecvFrom(o, e, n) == CanIssue(o) /\ RunSync(o, e, n)

-----------------------------------------------------------------------------
(* The goroutine of an asynchronous operation.                             *)

\* Conn.Write / Conn.Read returns (n, err); the completed result is
\* published with SetOverlappedResult (overwriting whatever is stored
\* under the key).
WorkerComplete(w, n, err) ==
    /\ w \in workers
    /\ w.pc = "io"
    /\ SetOverlappedResult(w.op.o, [complete |-> TRUE, bytes |-> n, err |-> err])
    /\ workers' = (workers \ {w}) \cup {[w EXCEPT !.pc = "signal"]}
    /\ truth' = IF w.op.g = gen[w.op.o]
                THEN [truth EXCEPT ![w.op.o] = n] ELSE truth
    /\ UNCHANGED <<hEvent, evSlot, gen, view, kind, app, last>>

\* Mutant of WorkerSignal: the signal may be sent before the result is
\* published (SetEvent and SetOverlappedResult in the other order).
WorkerSignalEarly(w) ==
    /\ w \in workers
    /\ SetEvent(hEvent[w.op.o], w.op)
    /\ workers' = IF w.pc = "io" THEN workers ELSE workers \ {w}
    /\ UNCHANGED <<ovmap, hEvent, gen, view, kind, truth, app, last>>

\* if ov.HEvent != nil { GoWSASetEvent(ov.HEvent) }: ov.HEvent is read
\* from the application's OVERLAPPED now, after the result is published.
WorkerSignal(w) ==
    /\ w \in workers
    /\ w.pc = "signal"
    /\ SetEvent(hEvent[w.op.o], w.op)
    /\ workers' = workers \ {w}
    /\ UNCHANGED <<ovmap, hEvent, gen, view, kind, truth, app, last>>

-----------------------------------------------------------------------------
(* WSAGetOverlappedResult(s, o, ..., fWait, ...).                          *)

\* Entry: ov.HEvent is read; with fWait and an event found in the
\* registry the thread blocks on the channel, otherwise it goes on to the
\* lookup at once.
WSAGetOverlappedResult(o, fWait) ==
    /\ app.pc = "ready"
    /\ gen[o] > 0
    /\ app' = [pc |-> IF fWait /\ hEvent[o] # NoEvent THEN "wait" ELSE "lookup",
               o |-> o, wait |-> fWait, tok |-> {}]
    /\ UNCHANGED <<ovmap, hEvent, evSlot, gen, workers, view, kind, truth, last>>

\* <-c: the receive takes the token in the event's slot.
WaitEvent ==
    /\ app.pc = "wait"
    /\ evSlot[hEvent[app.o]] # {}
    /\ evSlot' = [evSlot EXCEPT ![hEvent[app.o]] = {}]
    /\ app' = [app EXCEPT !.pc = "lookup", !.tok = evSlot[hEvent[app.o]]]
    /\ UNCHANGED <<ovmap, hEvent, gen, workers, view, kind, truth, last>>

\* GetOverlappedResult takes and deletes the entry; a missing entry is
\* TRUE with 0 bytes, an incomplete one FALSE with WSA_IO_INCOMPLETE, a
\* completed one FALSE with its error or TRUE with its byte count.
Outcome(o) ==
    IF o \notin DOMAIN ovmap THEN [ret |-> TRUE, bytes |-> 0, err |-> 0]
    ELSE IF ~ovmap[o].complete
         THEN [ret |-> FALSE, bytes |-> 0, err |-> WSA_IO_INCOMPLETE]
         ELSE [ret |-> ovmap[o].err = 0, bytes |-> ovmap[o].bytes, err |-> ovmap[o].err]

Lookup ==
    /\ app.pc = "lookup"
    /\ LET o == app.o
           r == Outcome(o)
       IN /\ ovmap' = Restrict(ovmap, DOMAIN ovmap \ {o})
          /\ view' = [view EXCEPT ![o] = IF r.err = WSA_IO_INCOMPLETE THEN "pending" ELSE "done"]
          /\ last' = {[o |-> o, ret |-> r.ret, bytes |-> r.bytes, err |-> r.err,
                       truth |-> truth[o], kind |-> kind[o], waited |-> app.wait]}
    /\ app' = AppIdle
    /\ UNCHANGED <<hEvent, evSlot, gen, workers, kind, truth>>

-----------------------------------------------------------------------------
Next ==
    \/ \E o \in Ovs, e \in Events \cup {NoEvent} : WSASend(o, e) \/ WSARecv(o, e)
    \/ \E o \in Ovs, e \in Events \cup {NoEvent}, n \in Bytes :
          WSASendTo(o, e, n) \/ WSARecvFrom(o, e, n)
    \/ \E w \in workers, n \in Bytes, err \in ErrCodes : WorkerComplete(w, n, err)
    \/ \E w \in workers : WorkerSignal(w)
    \/ \E o \in Ovs, fWait \in WaitModes : WSAGetOverlappedResult(o, fWait)
    \/ WaitEvent
    \/ Lookup

Spec == Init /\ [][Next]_vars

\* Fairness the code justifies: the Go scheduler runs every runnable
\* goroutine, so an operation's goroutine finishes its I/O and its signal;
\* a thread blocked in <-c receives a token that sits in the channel; a
\* thread inside WSAGetOverlappedResult goes on to its lookup.  The
\* application is never forced to make a call.
Fairness ==
    /\ \A op \in Ops :
          /\ WF_vars(\E w \in workers, n \in Bytes, err \in ErrCodes :
                        w.op = op /\ WorkerComplete(w, n, err))
          /\ WF_vars(\E w \in workers : w.op = op /\ WorkerSignal(w))
    /\ WF_vars(WaitEvent)
    /\ WF_vars(Lookup)

FairSpec == Spec /\ Fairness

-----------------------------------------------------------------------------
(* Properties.                                                             *)

TypeOK ==
    /\ DOMAIN ovmap \subseteq Ovs /\ \A o \in DOMAIN ovmap : ovmap[o] \in Results
    /\ hEvent \in [Ovs -> Events \cup {NoEvent}]
    /\ evSlot \in [Events -> {{}} \cup {{op} : op \in Ops}]
    /\ gen \in [Ovs -> 0..MaxGen]
    /\ workers \subseteq [op : Ops, pc : {"io", "signal"}]
    /\ view \in [Ovs -> {"none", "pending", "done"}]
    /\ kind \in [Ovs -> {"async", "sync"}]
    /\ truth \in [Ovs -> Bytes \cup {Unknown}]
    /\ app.pc \in {"ready", "wait", "lookup"} /\ app.wait \in BOOLEAN
    /\ last \subseteq Outcomes /\ Cardinality(last) <= 1

\* Publication happens-before the signal: when WSAGetOverlappedResult
\* wakes on the signal sent by the goroutine of the very operation it asks
\* about, that operation's entry is no longer {Complete: false} -- the
\* goroutine's SetOverlappedResult precedes its GoWSASetEvent.
OwnSignalNotIncomplete ==
    (app.pc = "lookup" /\ app.tok = {[o |-> app.o, g |-> gen[app.o]]})
        => ~(app.o \in DOMAIN ovmap /\ ~ovmap[app.o].complete)

\* Every WSAGetOverlappedResult call with fWait = TRUE returns: a thread
\* that blocks on ov.HEvent's channel is eventually woken, whatever the
\* operation on that OVERLAPPED was and however it completed.
FWaitReturns ==
    app.pc = "wait" ~> app.pc = "ready"

=============================================================================

# TLA+ models of the KLINIKAL Winsock emulation

KLINIKAL is a Winsock2 implementation in Go (`src/winsock`) that runs on a userspace
WireGuard tunnel and gvisor's netstack. A C shim (`src/exports.go`) forwards every
ws2_32 export to a `Go*` function. This directory holds TLA+ models of the parts of
that library where concurrency, ordering and protocol sequences decide correctness.
It also holds TLC configurations that check them, and `PROJECT.json`, which records:
- every component, and whether it is modelled;
- every run and what it shows;
- a mutant for each checked property;
- the source lines each definition translates;
- the findings;
- the hazards.

## 1. The system

### Parts and their state

| Part | Source | State |
|---|---|---|
| Handle registry | `registry.go` | `sockets` map, `events` map (handle → 1-slot channel), `overlapped` map (OVERLAPPED address → `OverlappedResult`), `NextHandle` counter (starts at 1000, shared by sockets and events, advanced with `atomic.AddUint64`), one `RWMutex` |
| Socket state | `registry.go` `SocketState` | connection/listener, bound address, non-blocking flag, options, `PeekBuf`, `EventHandle`, `NetworkEvents`, `FiredEvents` (an `int32` updated atomically, outside any lock), `WaiterEntry`/`WaiterQueue`/`Endpoint` |
| Waiter bridge | `registry.go` `NotifyEvent`, `waiter.go` | runs on the transport's goroutine when readiness changes. It turns EventIn/Out/Err/HUp into FD bits, masks them with `NetworkEvents`, adds them to `FiredEvents`, then signals the event object |
| Event objects | `event_objects.go` | `WSACreateEvent` / `WSACloseEvent` / `WSASetEvent` / `WSAResetEvent` on the 1-slot channels. `WSAWaitForMultipleEvents` runs `reflect.Select` over the handles it finds |
| Event select | `io_multplx.go` | `WSAEventSelect` registers the waiter and fires an initial notification. `WSAEnumNetworkEvents` swaps `FiredEvents` to 0, then drains the event |
| select / WSAPoll | `io_multplx.go` | register a waiter per fd on one notifier channel, check readiness, block, then check again |
| Overlapped I/O | `tx_extd.go`, `status_error.go` | `WSASend`/`WSARecv` store a pending entry, then a goroutine does the I/O, publishes the result and signals `ov.HEvent`. `WSASendTo`/`WSARecvFrom` run synchronously. `WSAGetOverlappedResult` may wait on the event, then takes and deletes the entry |
| Lifecycle | `lifecycle.go`, `stack.go` | `wsaRefCount` under `wsaMu`. The stack globals under `stackMu`. `GetStack` locks, unlocks, initialises and locks again |
| BSD calls | `sock_mgmt.go`, `conn_basic.go`, `conn_extd.go`, `tx_std.go`, `conf_ctl.go` | `socket`, `closesocket`, `bind`, `listen`, `accept`, `connect`, `shutdown`, `send`/`recv` with the peek buffer, `sendto` with its implicit bind, `recvfrom`, options, `ioctlsocket` |
| Resolver | `name_res.go` | `aiAllocs` (first-node address → bundle of nodes, sockaddr arrays and name buffers) under `aiMu` |
| Static databases | `name_res.go`, `proto_svc.go` | the process-wide `hostent` (`staticHostName`, `staticHostAddrs [16][4]byte`, the pointer arrays), `servent` and `protoent` buffers, rewritten by every call |
| Conversions | `addr_res.go`, `byte_order.go` | functions of their arguments, except `inet_ntoa`'s static buffer and `isLittleEndian`, fixed at start-up |

### How the parts interact

An application thread calls the API. I/O calls look up the `SocketState` and work on
the netstack connection. Meanwhile the netstack's goroutines deliver readiness
through the waiter bridge into `FiredEvents` and the event channels. Overlapped calls
start their own goroutines. These publish through the registry and signal event
channels, which `WSAGetOverlappedResult` and `WSAWaitForMultipleEvents` block on.

`WSAStartup` and `WSACleanup` bracket everything. The last cleanup purges the
registry and closes the stack, which every socket operation reaches through `GetStack`.

### What makes it hard

Several steps that belong together are split by a lock release, or run without a lock:
- `NotifyEvent`'s add and its signal;
- `WSAEnumNetworkEvents`' swap and its drain;
- `GetStack`'s first and second read lock;
- `closesocket`'s lookup and its unregister;
- `WSACleanup`'s purge and its stack close.

The overlapped path also races a goroutine's publish and signal against the
application's wait and lookup.

## 2. Modules

| Module | Models | Actors |
|---|---|---|
| `EventSelect` | `NotifyEvent`, `WSAEventSelect`, `WSAEnumNetworkEvents`, the event objects, `WSAWaitForMultipleEvents`, non-blocking `recv` | application thread; per socket, the transport goroutine |
| `Overlapped` | overlapped `WSASend`/`WSARecv` and their goroutines, overlapped `WSASendTo`/`WSARecvFrom`, `WSAGetOverlappedResult`, `SetOverlappedResult`/`GetOverlappedResult` | application thread; one goroutine per operation |
| `Lifecycle` | `WSAStartup`, `WSACleanup`, `PurgeAll`, `InitializeStack`, `GetStack`, `CloseStack`, `socket`, `closesocket`, `RegisterEvent`/`UnregisterEvent`, the handle counter | several application threads |
| `SyncIO` | `recv` (with and without `MSG_PEEK`, the peek buffer), `recvfrom`, synchronous `WSARecv`, `send` and gonet's `Conn.Write` loop, `ioctlsocket`, `WSAIoctl`, `setsockopt(SO_RCVTIMEO/SO_SNDTIMEO)` as applied, `mapError` for I/O errors | application thread; the peer (sends, reads, closes); time |
| `Connections` | `socket` state, `bind`, `listen`, `accept`, `connect`, `WSAConnectByName`/`WSAConnectByList`, `setsockopt`, `closesocket` (two steps), `Unregister` | two application threads |
| `Multiplex` | `select` and `WSAPoll` (register loop, first pass, wait, final pass), `UpdateWaiterQueue`, `connect`, `sendto`'s implicit bind, `recv` with `MSG_PEEK`, the notifier channel | the selecting thread; another application thread; the transport |
| `AbstractLifecycle` | what the lifecycle promises, every call atomic (no code of its own) | threads |
| `Resolver` | `getaddrinfo`, `GetAddrInfoW`, `freeaddrinfo`/`FreeAddrInfoW`, `getnameinfo`, `GetNameInfoW` | application threads (calls are atomic under `aiMu`) |
| `Inet` | data shared by `Resolver` and `Netdb`: address tokens and their text, Go's `net.ParseIP`/`To4`/`String` over them, `htons16`, `protoTable`, `servTable` (no variables) | none |
| `Netdb` | `gethostbyname`/`gethostbyaddr` and the static `hostent`, `getservbyname`/`getservbyport`, `getprotobyname`/`getprotobynumber`, `inet_addr`, `inet_ntoa`, `inet_pton`/`inet_ntop` and `InetPtonW`/`InetNtopW`, `WSAAddressToString`/`WSAStringToAddress` (A and W), `gethostname`/`GetHostNameW`, the byte-order calls and `WSAHton*`/`WSANtoh*`, `WSAGetLastError`/`WSASetLastError`, `getsockname`/`getpeername`, the `st.Options` store of `setsockopt` and `getsockopt` | application thread |

`MC_<Module>.tla` fixes the model values and symmetry sets for TLC. `MC_<Module>.cfg`
is the passing run. `MC_<Module>_<Property>.cfg` checks one property that the code
violates. Definitions named `<Action><Bug>` (for example `ConnectNoReplay`) are the
mutants listed in `PROJECT.json`: each is a plausible bug in the action it is named
after, and TLC catches it with the passing run's own configuration.

### EventSelect

**Variables.** Each variable stands for a field of the code:
- `fired`, `netEvents`, `evHandle` and `waiterMask` are the `SocketState` fields.
- `evLive` is the keys of `registry.events`.
- `evSlot` is whether each channel holds its token.
- `data` is the packets queued at the endpoint.
- `ntf` marks the transport goroutine between `NotifyEvent`'s `AddInt32` and its signal.
- `app` is the application thread's program counter. While it is in
  `WSAEnumNetworkEvents` between swap and drain, `app` holds the event. While it is
  in `WSAWaitForMultipleEvents`, `app` holds the caller's array and the select cases
  built from it.

**History variables.** `consumed` records that the application itself took or reset the
socket's signal.

**Actions.** There is one action per API call or goroutine step:
- `DataArrives` and `NotifySignal` are `NotifyEvent`'s two steps.
- `WSAEventSelect` includes the waiter re-registration and the initial notification.
- `WSAEnumNetworkEvents` and `EnumDrain` are its swap and its drain.
- `WSAWaitForMultipleEvents`, `WaitWake` and `WaitTimeout` are the call and the
  two ways `reflect.Select` returns.
- `WSACreateEvent`, `WSACloseEvent`, `WSASetEvent`, `WSAResetEvent` and `Recv` are
  the remaining calls.

The socket is a connected datagram socket, whose only readiness is EventIn.

### Overlapped

**Variables.** `ovmap` is `registry.overlapped`; `hEvent` is each OVERLAPPED's
`HEvent`; `evSlot` holds, for each event, the operation whose goroutine filled it;
`workers` is the set of goroutines with their step; `gen` counts operations per
OVERLAPPED, so a late goroutine is told apart from the current one; `view` is what
the application knows of its operation; `kind` records whether it ran
asynchronously; `truth` and `last` are history (bytes really moved, last result).
`FairSpec` is `Spec` with the fairness described in section 3.

**Actions.** `WSASend` and `WSARecv` store the pending entry and start the
goroutine; `WorkerComplete` is the I/O followed by `SetOverlappedResult`;
`WorkerSignal` is `GoWSASetEvent(ov.HEvent)`; `WSASendTo` and `WSARecvFrom`
complete at once; `WSAGetOverlappedResult` may go to `WaitEvent` (the `<-c`)
before `Lookup`, which takes and deletes the entry. The application reuses an
OVERLAPPED only after it has seen the previous operation complete, as Winsock
requires.

### Lifecycle

**Variables.** `refCount` is `wsaRefCount`; `wsaOwner` is the thread holding
`wsaMu` across `WSACleanup`'s two steps; `stackInit` is `stackInitialized`;
`nextHandle` is `NextHandle`; `sockets` and `events` are the registry's keys; `pc`
and `arg` locate each thread inside its multi-step calls; `started` and `starts`
count sessions; `ret` is the last `GetStack` result; `issued` is every handle ever
handed out.

**Actions.** `WSACleanup` (decrement, and at zero `PurgeAll`) is followed by
`CleanupCloseStack`; `GetStack`, `GetStackInit` and `GetStackReread` are the three
lock sections of `GetStack`; `Closesocket` and `CloseUnregister` are `Get`, then
`Unregister`. Each thread keeps its own sessions balanced and calls the API only
inside one. `InitializeStack` is one step that succeeds or fails.

**Refinement.** `AbstractLifecycle` states the lifecycle with every call atomic:
the last `WSACleanup` purges the sockets and takes the stack down in one step,
`GetStack` answers "stack" or "error" from the stack's state, handles come from one
pool and are never reissued. `Lifecycle` is shown to implement it by
`RefinesAbstractLifecycle == Abs!Spec`, where `Abs` instantiates it with
`count <- refCount`, `Handles <- HandleRange` and
`up <- stackInit /\ wsaOwner = None`: the stack counts as down from the moment a
last cleanup takes `wsaMu` until `CloseStack` has run, so the purge and the
stack's close are one abstract `Cleanup`. The other variables map to themselves;
the intermediate steps of `GetStack` and `closesocket` are stuttering steps.

### SyncIO

**Variables.** `kind` is `SocketState.Type`; `rx` is what the endpoint holds
(datagrams, or stream segments); `peekBuf` and `nonBlocking` are `PeekBuf` and
`IsNonBlocking`; `deadline` and `wdeadline` are the read and write deadlines
installed on `st.Conn` (none, an `SO_RCVTIMEO`/`SO_SNDTIMEO` timer, 1 ns, or one
whose time has come); `eof` is the peer's close; `out` is what the transport
holds for the peer (one-byte segments of a stream, or whole datagrams) and
`peerGot` what the peer has read; `app` is the thread inside a read or a write,
with the bytes it has taken so far; `lastError` is the last-error cell (set
only on failure, as `setLastError` is). A byte is identified by its sequence
number: the peer's k-th byte, or the k-th byte of the application's outgoing
stream. `sent`, `segs`, `got`, `dropped` and `handed` (bytes `send` reported)
are history.

**Actions.** `Recv`, `WSARecv` and `Recvfrom` are the calls up to the
`conn.Read`; `RecvRead`, `WSARecvRead` and `RecvfromRead` are the read's return
and everything after it (copy, `PeekBuf` update, `mapError`). A read blocks until
the peer sends or closes, or `DeadlinePasses`. `Send` is `GoSend` up to
`Conn.Write`, with the write deadline it installs (`SendDeadline`); `ConnWrite`
is one pass of gonet's write loop, which hands the transport what fits (at most
`SndCap` unread stream bytes) and returns when the buffer is written;
`ConnWriteTimeout` is the loop giving up on its deadline, before its first write
or while it waits for room, and `GoSend`'s error path after it. `Setsockopt`
applies `SO_RCVTIMEO`/`SO_SNDTIMEO` of 4 bytes or more; `Ioctlsocket` and
`WSAIoctl` set `IsNonBlocking` or answer without changing state. `PeerSend`,
`PeerClose`, `PeerRecv` and `WriteDeadlinePasses` complete the environment. The
gonet connection is assumed to return queued data before it checks the
deadline, and to check the write deadline once before its first write and
again only while it waits for room.

### Connections

**Variables.** `reg` and `everReg` are the registry's keys (now and ever); `typ`,
`bound`, `conn`, `lst` and `opts` are `SocketState.Type`, `BoundAddr`, `Conn`,
`Listener` and `Options`; a transport object is a number in `1..MaxObjs`, `open`
is the set not yet closed and `nobj` the last one created. `applied` is the set of
options replayed onto the current connection and `origin` the call that created it
(history). `closer` is each thread's position inside `closesocket`; `closed` counts
the calls that returned 0 per handle.

**Actions.** `Bind` (TCP records the address; UDP may fail before or after closing
the old connection, or opens a new one), `Listen`, `Accept` (registers a new
handle), `Connect` (UDP closes the old connection; the options are replayed),
`ConnectByName`/`ConnectByList` (dial and store, no replay, no close), `Setsockopt`,
`Closesocket` (look up, close connection and listener) and `CloseUnregister`.
Every transport failure is a disjunct of its action.

### Multiplex

**Variables.** `conn` is how each socket got its connection (none, through
`UpdateWaiterQueue`, or by `sendto`'s implicit bind); `queued` and `peeked` are
datagrams at the endpoint and in `PeekBuf`; `regs` is the sockets whose waiter
entry points at the running call's channel; `ch` is that 1-slot channel; `sel` is
the selecting thread (operation, fds, the handles still to register, timeout and
position); `last` records returns (history).

**Actions.** `Select` and `WSAPoll` start a call; `Register` is one iteration of
the register loop; `FirstPass`, `Wake`, `TimerFires` and `FinalPass` are the rest
of the call. `Arrive` is the transport's `NotifyEvent` on `channelNotifier`.
`Connect`, `Sendto`, `Recv` and `RecvPeek` are another thread's calls.

### Resolver

**Variables.** `aiAllocs` is the map of the same name: key (address of the first
node, a model value) → bundle of `nodes`, `addrs4`, `addrs6`, `bufs`, `wbufs`, with
the request that built it kept as history. `gaiRet` and `ni` are the last results.

**Operators and actions.** `getaddrinfo` is split along the code: `ServicePort`,
`ResolveIPs`, `FilterFamily`, `Pairs`, the RECURSIVE `Fill` (the nested
address/pair loop with its `i4`/`i6` counters and `Next` links) and `BuildAlloc`
(allocation and canonical name). `GoGetaddrinfo` publishes the bundle under a free
key; `GoGetAddrInfoW` also re-encodes the canonical name and keeps its buffer;
`GoFreeaddrinfo(k, i)` frees a pointer to node `i` of bundle `k`, which deletes a
key only when `i = 1`. `NameInfo`/`NameInfoW` are `getnameinfo` and its wide
variant with their buffer-length checks; `GoGetnameinfo` calls either on a NULL
sockaddr, an unknown family, or any sockaddr of a live bundle. Strings are kept
only where their length matters; the tunnel's DNS and PTR answers are inputs.

### Netdb

**Variables.** `hostSlots` is `staticHostAddrs`: 16 slots of one 4-byte word
each, a V4 token, the j-th word `u#j` of an IPv6 token `u`, or `"0"`. It is state of
its own because a fill rewrites only the slots it copies into. `last` is what the
last call handed its caller: its return value and the contents of the static
`servent`/`protoent`/`inet_ntoa` buffer, which every fill rewrites whole.
`lastError` is the process-wide last-error cell. `littleEndian` is
`isLittleEndian`, chosen once by `init()`, so both builds are checked.

**Actions.** One per exported call, quantified over small input sets that reach
every branch: NULL arguments, literals of either family, a name the tunnel
answers (`HostAnswer` holds an IPv6 answer, an unparsable one and two IPv4 ones,
which `gethostbyname` filters), a PTR answer that fails, is empty or is a name,
table and alias names of either case, the `net.LookupPort` fallback ("80"), a
port with bits above the low 16, an unknown family, buffers too short by the NUL.
The A and W forms differ only in the string encoding, one UTF-16 unit per ASCII
byte here, so `InetPtonW`/`InetNtopW` are the narrow operators and the actions
take a `wide` flag. Integers passed to the byte-order calls are their byte
sequences, most significant first; a swap is `Reverse`.
`getsockname`/`getpeername` take the socket's address source as an input
(`SockIn`): a TCP connection, an unconnected IPv6 UDP conn (no remote
address), a raw ICMP conn (whose `PingAddr` text has no port), a listener, a
socket only bound (`BoundAddr` with and without a port), a fresh socket and a
closed handle. The result records, field by field, what the call writes into
the caller's `sockaddr_in`; a field it leaves alone is `Old`.
`options` is `st.Options` of one socket whose type is the constant `SockType`:
`GoSetsockopt` stores the raw bytes of `SO_RCVTIMEO` (a byte is a token naming
the value), `GoGetsockopt` reads any of `SO_RCVTIMEO`, `SO_KEEPALIVE` (never
stored, so zero-filled), `SO_ERROR` and `SO_TYPE` (computed) through buffers of
2, 4 and 8 bytes or a NULL length.

## 3. Runs

| Run | Checks | Result |
|---|---|---|
| `event_select` | `TypeOK` | pass, about 249k distinct states; fires every EventSelect action for the coverage of `NoLostWakeup`'s violation run |
| `event_select_lost_wakeup` | `NoLostWakeup` | violation, in 7 steps: enumeration swap → packet → add → signal → drain → INFINITE wait that never wakes |
| `overlapped` | `TypeOK`, `OwnSignalNotIncomplete` | pass, about 1.6M distinct states |
| `overlapped_fwait_hang` | `FWaitReturns` (liveness, `FairSpec`) | violation: a second fWait call on a completed operation (or one after `WSASendTo`) blocks for ever on an empty channel |
| `lifecycle` | `TypeOK`, `SocketsPurgedAtCleanup`, `RefinesAbstractLifecycle` | pass, about 212k distinct states |
| `sync_io` | `TypeOK`, `ByteConservation`, `NonBlockingReadReturns`, `NonBlockingSendReturns` (`FairSpec`) | pass, about 423k distinct states |
| `sync_io_stream_fifo` | `StreamFifo` | violation: `recv(MSG_PEEK)` parks byte 1, then `WSARecv` delivers byte 2 |
| `connections` | `TypeOK`, `ConnectAppliesStoredOptions` | pass, about 3.6M distinct states |
| `multiplex` | `TypeOK`, `NoLostWakeup` | pass, about 1.3M distinct states |
| `resolver` | `TypeOK`, `ChainWellFormed`, `ResultMatchesRequest`, `PortRoundTrip` | pass, about 6k distinct states (15M generated: every state tries every input) |
| `netdb` | `TypeOK`, `ServiceDbRoundTrip`, `SizeHintSuffices`, `NtopPtonRoundTrip`, `GetsockoptReadsBack` | pass, about 63k distinct states |
| `netdb_hostent_v6` | `HostentReadsBack` | violation, in one step: `gethostbyaddr(AF_INET6)` hands back h_length 16 over a 4-byte slot |

### What the passing properties say

- **`OwnSignalNotIncomplete`**: a waiter woken by its own operation's signal always
  finds the result published ("publication happens-before the signal"); it depends
  on the goroutine's order of `SetOverlappedResult` and `GoWSASetEvent`.
- **`SocketsPurgedAtCleanup`**: no socket survives the last cleanup.
- **`RefinesAbstractLifecycle`**: every behaviour of the multi-step code is a
  behaviour of the atomic lifecycle, whose `Cleanup` tears down exactly when the
  count of open sessions (P10) reaches zero; a `CloseStack` that leaves
  `stackInitialized` set (the mutant `CleanupKeepStack`) is caught as a step the
  abstract `Cleanup` does not allow.
- **`ByteConservation`**: every byte the peer sent is in exactly one place
  (delivered, in `PeekBuf`, held by a running read, queued, or a dropped datagram
  tail), whatever the mix of reads, peeks, option changes and peer sends.
- **`NonBlockingReadReturns`**: a `recv` or `recvfrom` called in non-blocking mode
  returns even if the peer never sends, because both install the 1 ns deadline
  before `Conn.Read`; dropping that deadline (the mutant `ModeDeadlineBlocking`)
  leaves the caller blocked. Synchronous `WSARecv` installs no deadline and is
  left out of the property (see Findings met while modelling).
- **`ConnectAppliesStoredOptions`**: a connection created by `connect` carries every
  option stored on the socket, whatever the order of calls of two threads.
- **`NoLostWakeup`** (Multiplex): while a `select`/`WSAPoll` waits, every
  registered socket with data ready has left a token in the call's channel; it
  depends on the register loop finishing before the first pass.
- **`ChainWellFormed`**: every live `getaddrinfo` bundle is a chain from its first
  node to NULL that points at each companion sockaddr exactly once, with matching
  family and length, and keeps every canonical-name buffer it points at alive.
- **`ResultMatchesRequest`**: the bundle lists exactly the reference layout of the
  resolver's description (addresses × socktype/protocol pairs, address-major, the
  protocol defaulted from the socktype).
- **`PortRoundTrip`**: `getnameinfo` on any sockaddr of a bundle reports the port
  the service named (decimal or `servTable` name), composing both byte swaps.
- **`ServiceDbRoundTrip`**: P5, `getservbyname` and `getservbyport` agree with
  `servTable` through `fillServent`'s swap and `getservbyport`'s truncation.
- **`SizeHintSuffices`**: the length `WSAAddressToString`/`WSAStringToAddress`
  write back on a short buffer is enough for the retry.
- **`NtopPtonRoundTrip`**: P3 read from the binary side: `inet_pton` of the
  family accepts the text `inet_ntop` wrote and gives back the same address,
  including an IPv4-mapped IPv6 address, which `inet_ntop` writes dotted.

Each property has a mutant in `PROJECT.json`.

Some facts are not stated as properties because the model makes them hold by
its shape: the atomic `FiredEvents` add and swap cannot lose a value they move
(a property over the reported bits would instead be broken by the carry of
`registry.go:76`); the handle counter only grows; the start count is a plain
increment and decrement; `hton*` swaps exactly on a little-endian build. The
`GetStack` race with the last `WSACleanup` is out of the model's reach because
threads call the API only inside their own sessions (see the hazards in
`PROJECT.json`).

### Bounds, and why they are enough

- **EventSelect**: 1 socket and 2 events (one can be closed while the other is
  live); up to 3 arrivals, so two can land before one enumeration and one between
  its swap and drain; 2 `WSAEventSelect` calls; wait arrays of length ≤ 2; masks 0,
  FD_READ and FD_READ|FD_CLOSE.
- **Overlapped**: 2 OVERLAPPEDs and 2 events, so events can be shared and an
  OVERLAPPED reused while an old goroutine runs; 2 operations per OVERLAPPED; one
  byte count; success or WSAECONNRESET.
- **Lifecycle**: 2 threads (a cleanup races the other's `GetStack`); 2 sessions
  per thread; 4 handles.
- **SyncIO**: stream and datagram sockets; buffers of 1 and 2 bytes and segments
  of 1 and 2 bytes, so a read can be short, a datagram truncated and a peek partly
  consumed; `SndCap = 1`, so a 2-byte stream send is written in two passes and
  can time out between them; `MaxBytes = 2` bounds the bytes sent by the peer
  plus those handed to the transport, enough for one 2-byte transfer either way
  or one byte each; `SO_RCVTIMEO` 0 or 500.
- **Connections**: 2 sockets and 1 spare handle for `accept`; 2 threads, so a
  `closesocket` can interleave with another call on the same handle; 1 option;
  3 transport objects, enough for a socket to replace an object and keep the old
  one open.
- **Multiplex**: 2 sockets and 1 unknown handle; 2 arrivals, so one can land
  during registration and one during the wait; timeouts zero, finite, INFINITE.
- **Resolver**: one key, so a bundle must be freed before the next is published
  and its address is reused; six hint shapes that reach every branch (none,
  PASSIVE, CANONNAME on an IPv4 stream request, NUMERICHOST|NUMERICSERV, an IPv6
  datagram request, a raw socktype); services NULL, "80", "65536", "http" and an
  unknown name; a DNS answer with an IPv6 address, an unparsable entry and an IPv4
  address, so the `i4`/`i6` counters diverge from `idx`.
- **Netdb**: every call is one step and its result is a function of its inputs
  and `hostSlots`, so what matters is that each input set reaches every branch
  (listed under Netdb above) and that two fills can follow each other, which the
  unbounded sequence of calls gives (the state space closes at depth 5). Two IPv4
  answers for "host" fill two slots; a later `gethostbyaddr(AF_INET6)` then
  reads them. Addresses are 7 tokens; their text is kept because buffer lengths
  depend on it. Options: one stored option with two values and lengths 2 and
  4, read through buffers shorter, equal and longer than what was stored.

Symmetry is over events and sockets (EventSelect), OVERLAPPEDs and events
(Overlapped), threads (Lifecycle), sockets and threads (Connections) and sockets
(Multiplex); each set's model values play interchangeable roles.

### Deadlock checking

Turned off where the system may really stop: EventSelect (an INFINITE wait may
never be woken), Overlapped (an fWait call after an overlapped `WSASendTo`),
Lifecycle (threads stop after their bounded sessions), SyncIO (a blocking read
on a silent peer) and Connections (once every socket is closed, no call has a handle to work on). Multiplex,
Resolver and Netdb check it.

### Fairness

`Overlapped`'s `FairSpec` adds weak fairness, and only where the code guarantees
progress: each operation's goroutine (`WorkerComplete`, `WorkerSignal`), because the
Go scheduler runs every runnable goroutine; the receive `<-c` (`WaitEvent`) once a
token sits in the channel; and the lookup of a thread already inside
`WSAGetOverlappedResult`. The application thread is never forced to make a call.
`SyncIO`'s `FairSpec` adds weak fairness of the three reads' returns
(`RecvRead`, `WSARecvRead`, `RecvfromRead`: the calling goroutine runs once
`Conn.Read` can return), of the write loop's steps (`ConnWrite`,
`ConnWriteTimeout`), and of `DeadlinePasses` and `WriteDeadlinePasses` (time
passes). The application's calls and the peer's sends, reads and close are not
forced: `NonBlockingSendReturns` holds although the peer may never read.

Under `Overlapped`'s fairness `FWaitReturns` (every fWait call returns) is violated, so the
hang is not an artefact of an unfair schedule. The liveness run uses one OVERLAPPED
and one event and no symmetry.

## 4. Findings

The four violation runs correspond to the findings in `PROJECT.json`:
- `WSAEnumNetworkEvents` can drain a wake-up it did not report.
- `WSAGetOverlappedResult` with fWait = TRUE waits on the event before it looks at
  the entry, so once the channel's one token has been taken (by an earlier fWait
  call, by `WSAWaitForMultipleEvents`, or by a wait on another OVERLAPPED sharing
  the event) it blocks for ever on a completed operation.
- Synchronous `WSARecv` ignores `PeekBuf` and breaks stream order.
- `gethostbyaddr(AF_INET6)` reports a 16-byte address in a 4-byte slot, so the
  caller reads 12 bytes left by an earlier `gethostbyname` (`name_res.go:637`).

### Findings met while modelling

These behaviours are reached by the models but no run is spent on them. Two of
them have a property in their module that TLC finds violated with the module's
passing configuration and that property as the only `INVARIANT`:
- `listen` (and TCP `connect`, `WSAConnectByName/List`) replace an endpoint
  without closing the old one (`NoOrphanEndpoint` in `Connections`,
  `conn_basic.go:150`).
- An INFINITE `select`/`WSAPoll` woken by a datagram that another thread
  receives first returns 0 (`InfiniteWaitNeverZero` in `Multiplex`,
  `io_multplx.go:225`).
- `inet_addr` returns `binary.BigEndian.Uint32` of the address, a number which a
  little-endian host stores byte-reversed, so `sin_addr.s_addr = inet_addr(...)`
  holds the octets in the wrong order; `inet_ntoa` reverses it back with
  `PutUint32`, so the pair round-trips while a real `in_addr` prints reversed
  (`addr_res.go:84`). Netdb's address tokens do not model the stored bytes.
- `fillServent` and `getservbyport` swap the port unconditionally, which is
  network order only on little-endian builds (`proto_svc.go:155`).
- `WSAAddressToString`/`WSAStringToAddress` fail without setting the last error.
- `getsockname` on an IPv6 local address (or a raw ICMP one) returns 0 with
  `sin_family = AF_INET`, `*namelen = 16` and the caller's old `sin_addr`; on a
  socket neither bound nor connected it returns 0 and writes nothing, where
  Winsock fails with WSAEINVAL; `getpeername` on a listener or an unconnected
  socket answers WSAENOTSOCK, not WSAENOTCONN (`status_error.go:162`, `:176`,
  `:207`). Netdb reaches each of these in the `netdb` run's state space.
- A pending overlapped entry is deleted by a poll, so the next poll reports TRUE
  with 0 bytes while the I/O runs (the spec's open question (c),
  `status_error.go:292`).
- `FiredEvents` is accumulated by addition, so two FD_READ notifications add up to
  FD_WRITE (`registry.go:76`).
- `WSAWaitForMultipleEvents` returns an index into its filtered list, so a closed
  handle earlier in the array shifts it (`event_objects.go:106`).
- Overlapped `WSASendTo`/`WSARecvFrom` leave nothing for `WSAGetOverlappedResult`,
  which reports 0 bytes, and fWait = TRUE without an event does not wait.
- Event objects survive the last `WSACleanup`.
- A `recv` that drains a partial `PeekBuf` goes on to read the connection: a
  datagram read joins two datagrams, and a blocking read may block holding bytes.
- `SO_RCVTIMEO` is overwritten by every `recv`'s own deadline, and synchronous
  `WSARecv` reads under whatever deadline the last call left.
- `PeekBuf` is invisible to `select` and `WSAPoll`.
- `send` whose `Conn.Write` times out after a partial write returns -1
  (WSAEWOULDBLOCK when non-blocking) and drops the count, so resending the
  buffer sends its first bytes twice (`tx_std.go:77`). `SendReportsWritten` in
  `SyncIO` states the contract; with it as the only `INVARIANT` of
  `MC_SyncIO_StreamFifo.cfg` TLC finds it violated in five steps.
- `send` always installs its own write deadline (none when blocking), so
  `SO_SNDTIMEO` never bounds a `send` (`tx_std.go:70`).
- `ioctlsocket(FIONREAD)` writes 0 whatever is queued, and `getsockopt(SO_ERROR)`
  always returns 0: nothing sets `st.LastErrorCode` (`conf_ctl.go:297`, `:121`).
- `sendto`'s implicit bind creates a connection without `UpdateWaiterQueue`, so
  `select` on that socket blocks with a datagram queued (`tx_std.go:241`).
- `getaddrinfo` truncates a numeric service with `uint16`, so "65536" yields port 0
  instead of `EAI_SERVICE`; `freeaddrinfo` of an interior node is a silent leak;
  `getnameinfo` writes the host buffer before failing on a short service buffer.

## 5. Plan for the rest

1. **Liveness** in the passing runs: every finite `select`/`WSAPoll` and
   `WSAWaitForMultipleEvents` returns, under weak fairness of the timer.
2. **Abstract specification** (done for `Lifecycle`): a per-socket event record
   (Windows semantics), with `EventSelect` shown to refine it where it does; an atomic
   `getaddrinfo`/`freeaddrinfo` bundle store refined by `Resolver`.
3. **Static buffers from two threads**: `Netdb` is single-threaded; two threads
   interleaving fills of the shared `hostent` would show the torn reads the spec
   accepts as documented behaviour.
4. **Options**: `applyIPOpt`/`applyTCPOpt` on the live endpoint; `shutdown`;
   `sendto` and `WSASend`'s synchronous write, which repeat `send`'s shape.

## 6. Not modelled

- The content of `wg.conf` and the WireGuard device: configuration parsing and I/O.
- `mapError`'s string matching beyond read errors: data conversion with no state.
- DNS and PTR queries over the tunnel (their answers are model inputs).
- Host and PTR names longer than the 256-byte `staticHostName` (names are model
  values), and the bytes of float values (a float is its bit pattern).
- `WSAEnumProtocolsA/W`, namespace and service-discovery stubs, legacy stubs, and
  logging: fixed results, no state.
- The C export shim and the demo server.

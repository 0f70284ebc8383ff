# Verification of Cpp-SocketLibrary

TLA+ models of the library's sockets, TLC configurations that check them on small
instances, and proofs that TLAPS checks for every value of the constants. Source paths
below are relative to `src/src/`, the library's own `src` directory.

## 1. The system

The library (`namespace kt`) wraps POSIX sockets in a few value classes. There is no
event loop, thread or lock in it: every method runs in its caller's thread and is a
short sequence of system calls. What makes it hard is that

- objects are *copied by descriptor number* and have no destructor, so several objects
  and threads use, and close, the same descriptor, and a closed number is given out again;
- a method makes several system calls, and other threads, the peer, a `close()` or the
  end of the process come between any two of them;
- constructors and `bind()` fail halfway and have to undo what they did;
- the receive methods are loops over `select()` and `recv()` that have to end, and to
  put together a message the network cut anywhere.

| Part | State | Operations | Talks to | Correct when |
|---|---|---|---|---|
| `Socket` (`socket/Socket.cpp`) | none | `pollSocket`, `close` | kernel | the timeout given is the timeout waited for |
| `ConnectionOrientedSocket` | none of its own; the descriptor of its subclass | `ready`, `connected`, `send`, `get`, `receiveAmount`, `receiveToDelimiter`, `receiveAll` | the peer over a byte stream; other readers through copies | no byte lost, repeated or out of order; no buffer overrun; calls end; a short result only when nothing is left |
| `TCPSocket` | descriptor, hostname, port, version, address | constructors (by name, by address, around an accepted descriptor), `close`, copies | servers, the resolver | connected where its members say; its descriptor is its own; failures leak nothing |
| `TCPServerSocket` (`ServerSocket`) | descriptor, port, version, address | constructor (resolve, bind, listen), `accept`, `close`, copies | clients, the resolver, the port space | listens where it says; `accept` obeys its timeout |
| `UDPSocket` (`ConnectionLessSocket`) | bound, descriptor, version, port | `bind`, `ready`, `sendTo`, `receiveFrom`, `close`, copies | the network, the resolver | members describe one socket; receives what is sent to its address |
| `IPCServerSocket` | descriptor, path | constructor (with `override`), `accept`, `close`, copies | the file system, clients | reached through its path; leaves no file behind |
| `StreamIPCSocket` | descriptor, path | constructors, `close`, copies | IPC servers | as `TCPSocket` |
| `DatagramIPCSocket` (`IPCSocket`) | bound, descriptor, path | `bind` (with `override`), `ready`, `sendTo`, `receiveFrom`, `close`, copies | the file system, other datagram sockets | as `UDPSocket` and `IPCServerSocket` |
| `SocketAddress`, `InternetProtocolVersion` | none | conversions around `getaddrinfo`, `getsockname`, `inet_ntop` | resolver | what is written into an address is what is read from it; lengths fit families |
| `SocketError`, exceptions | none | `getInvalidSocketValue`, `isInvalidSocket`, formatting | - | - |

The hazards this leads to are listed, each at its line and with the properties that
cover it, in `PROJECT.json` under `hazards`.

## 2. The modules

| Module | Models | Steps |
|---|---|---|
| `ByteStream` | abstract: what one reader of a connection is promised | `Write`, `HandOver` |
| `ConnectionOrientedSocket` | `socket/ConnectionOrientedSocket.cpp` over one connection: the peer, the readers, `close()` | one per `select()` / `recv()` / `send()` |
| `ConnectionOrientedSocketProofs` | theorems about its types and its buffer | |
| `ConnectionOrientedSocketStreamProofs` | theorems about the bytes it hands over, and that it implements `ByteStream` | |
| `DescriptorTable` | abstract: what the objects of a process promise about descriptors | `Acquire`, `Release`, `Exit` |
| `DescriptorTableProofs` | theorem about it | |
| `SocketAddress` | `address/SocketAddress.cpp`: operators on addresses; the resolver is a parameter | - |
| `SocketAddressProofs` | theorem and lemmas about it | |
| `UDPSocket` | `socket/UDPSocket.cpp` over `SocketAddress`, a descriptor table and a lossy network | one per system call |
| `UDPSocketProofs` | theorems about it | |
| `TCPServerSocket` | `serversocket/TCPServerSocket.cpp` and the construction and closing of `socket/TCPSocket.cpp` over `SocketAddress` and a descriptor table | one per system call |
| `TCPServerSocketProofs` | theorems about it | |
| `IPCServerSocket` | `ipc/IPCServerSocket.cpp`, `ipc/StreamIPCSocket.cpp` and `IPCSocket::removeSocketPath` over a descriptor table and a name space; crashes | one per system call |
| `IPCServerSocketProofs` | theorems about it | |
| `DatagramIPCSocket` | `ipc/DatagramIPCSocket.cpp` over the same | one per system call |
| `DatagramIPCSocketProofs` | theorems about it | |
| `MC*` | instances, symmetry and (`MCSocketAddress`) a resolver for TLC | |

### ConnectionOrientedSocket

A byte is its position in `sent`, everything the peer's `send()` put on the stream; the
kernel's receive buffer is what lies beyond `rcvd`. A reader's `frame` is the receive call
its thread is in: the method, the system call it is at (`pc`), the arguments and the
locals of the two nested loops - `want` and `buf` are `amountToReceive` and the first
`counter` bytes of the buffer, `data` is the string `receiveToDelimiter()` or
`receiveAll()` accumulates. Entering a call (`ReceiveAmount`, `Get`, `ReceiveToDelimiter`,
`ReceiveAll`), each `recv()` (`RecvData`, `RecvNothing`) and each `select()`
(`ReadyForMore`, `ReadyForCharacter`, `ReadyForAll`, `PollForAmount`) are steps; what the
code does between two system calls is part of the step of the first. `recv()` returns any
prefix of what is there, `send()` accepts any prefix of the message. `delivered` and
`dropped` are history: what calls have returned, and the terminators they have swallowed.
`pollSocket()`'s `int` becomes an `unsigned int` modulo `UIntMax + 1`, as in `receiveAll()`.

`ByteStream` knows finished calls only. `Settled` maps to it how far the calls of the only
reader have got: what was taken, less what the call in progress holds and the `'\0'` that has
told a `receiveAll()` to stop. A call is one `HandOver`, at the step in which it returns.

### SocketAddress

An address is a family, a port *in network byte order* and a host, the text of its IP
address. `GetPortNumber`, `GetInternetProtocolVersion`, `GetAddress`, `GetAddressLength` and
`ResolveToAddresses` are the functions of the same names; `WithPort` is the assignment to
`ipv4.sin_port`, which the union puts at the same place for IPv6. `getaddrinfo()` is the
parameter `GetAddrInfo`, of which `ResolverAssumption` says that it respects the family in
the hints and gives addresses of single hosts (`Hosts`, their texts) with the port asked for.
`TCPServerSocket`, where an object reports a host name, adds `AddressesAssumption`: a name has
for one family the addresses of that family that it has for any, and the text of an address,
those of the local host included, resolves to that address. `ResolveLocal` is how `bind()` and the server's constructor turn an optional host
name, a port and a version into addresses. `socketToAddress()` is what reads the kernel's
name of a socket, in `InitialiseListeningPort` and `InitialisePortNumber` of the two modules
below.

### DescriptorTable

The four socket models below have one thing in common that no object can ensure alone: a
descriptor number belongs to whoever opened it until they close it, although every number is
given out again. `DescriptorTable` says so with three actions and two variables, the open
descriptors and the pairs of who holds which. Each model instantiates it with a mapping
from members, locals of calls and the kernel's table (`Holds`, `Holders`), and its property
`ImplementsDescriptorTable` says that its steps are `DescriptorTable` steps or stutter - for
as long as nobody copies an object, and, for the datagram sockets, nobody binds one that has
a socket. Both restrictions are of the code: a copy holds the same number, and `bind()` on
a bound object loses the old one (`UDPSocket_bind`). A socket that a constructor or an
`accept()` leaves open when it throws counts as released when it throws.

### UDPSocket

`bound`, `receiveSocket`, `protocolVersion` and `listeningPort` are the members. `kernel`
is the socket behind each descriptor: its name (what `getsockname()` gives) and its receive
buffer. `bind()` by host name (`Bind`) takes the first address of `ResolveLocal` and goes on
as `bind()` of an address: `BindAddress` (everything up to `::bind()`; its early `close()`
closes a descriptor this thread has just been given, which no other thread can tell from
having failed to get it), `BindReceiveSocket` (`::bind()`) and `InitialiseListeningPort`
(`getsockname()`, `listeningPort` and the address returned). Between the last two a copy may
close the descriptor and another thread get its number: `getsockname()` then gives the name
that the number has by now, or fails, and `AbandonBind` is the `close()` and the exception
that follow. `sendTo()` is `SendToHostname` or `SendTo`, up to the temporary socket, and `SendDatagram`; `ready()`
and `receiveFrom()` begin with the test of `isBound()` and end with their system call.
`PollSocket` does not wait, since `UDPSocket::pollSocket()` passes on a zeroed `timeval`.
`result` is what the last step returned, if it ended a call other than `ready()`;
`sawReady` is the last answer of `ready()`. `copied` and `replaced` are history: whether
an object was ever assigned to another, and whether a caller ever let `bind()` or an
assignment take the place of a socket it had not closed. Properties that hold for some
callers only are conditional on them.

### TCPServerSocket

`object` is the record of an object's members, `accepted` the records of the `TCPSocket`s
that `accept()` returned; `own` and `kernel[fd].owner` are history that tells a socket from a
later one with the same number. A server's constructor is `ConstructServer` (resolution and
`socket()`, with the exit for a `setsockopt()` that fails, which does not close),
`BindServer` (`::bind()`), for port 0 `InitialisePortNumber` (`getsockname()`: the port the
system chose, put into `port` and `serverAddress`) and `ListenServer`; when one of the three
fails, `AbandonServer` is the `close()` and the exception, and what that closes is whatever
has the number by then. `accept()` is `Accept`, `PollForAccept` and `AcceptConnection` or
`AcceptFails`; when `::accept()` reports no address, as some systems do of a connection that
was reset (`Reported`), `AcceptConnection` is the exit for want of a host name, which does not
close either. A socket that one of the three exits has left open has the owner "nobody".
`Timeval` is what `pollSocket()` makes of a timeout and `Duration` how long `select()` waits for
it; `Tick` is the time that passes, in steps of `ClockTick`. A client's constructor from a name goes through the
resolved addresses (`TryNextAddress`, `Connect`, `ConnectRefused`), so that a name with an
address of either family reaches a server of either; the one from a `SocketAddress` has one
address and does not close. `SO_REUSEADDR` lets two sockets bind an address as long as none
listens (`BindableNames`). `copies` counts assignments, for properties that hold until there
is one.

### IPCServerSocket and DatagramIPCSocket

`file` is what each path leads to: an open socket, nothing, or a file whose socket is gone
(`Stale`). `::close()` never removes a file, `IPCSocket::removeSocketPath()` does, whoever
the file belongs to; between the two other threads see a stale name. A constructor that
cannot bind goes through the same `CloseServerSocket` and `Unlink` as the owner's `close()`,
because the code calls the same `close()`. `Crash` is the end of the process and the start
of the next: descriptors go, files stay. `copied`, `replaced`, `contended` (two servers were
made for one path), `overridden` (a `bind()` removed what was at its path) and `crashed` are
history, for properties that hold until such a thing happens.

## 3. What the runs check

Runs that are expected to pass:

| Run | Shows |
|---|---|
| `ConnectionOrientedSocket_one` | one fairly scheduled reader with any mix of receive methods: `InOrder`, `NeverOverruns`, `ImplementsByteStream` (it implements `ByteStream`), and which calls must end: `DelimiterReturns` and `AllReturnsWhileOpen`, unless the peer goes on writing and never writes the delimiter or `'\0'`, and `AmountReturnsOnceStarted` |
| `ConnectionOrientedSocket_two` | `TypeOK`, `ExactlyOnce`, `NoTerminatorInside`, `ReturnsEarlyOnlyWhenDrained` with two readers of one descriptor |
| `UDPSocket_calls` | `TypeOK`, `BoundAsReported`, `ReturnsBoundAddress`, `FreshBindBinds`, `ReceivesOwnAddress` and `ReadyMeansReceives` through any sequence of binds, failures and closes, with both versions and ports the system chooses; `NoLeak`, with copies, for callers that close first; `ImplementsDescriptorTable` |
| `TCPServerSocket_calls` | `TypeOK`, `ListensAsReported`, `ConnectedAsReported`, `NoOtherLeak`, `TimeoutIsWaited`, `TimedAcceptDoesNotBlock`, `ImplementsDescriptorTable` at the limit of the descriptor table, with both versions and ports the system chooses |
| `IPCServerSocket_calls` | `TypeOK`; `ReachableAtPath` and `OverrideRecovers`, across crashes, for servers with paths of their own; `NoStaleFile` when they contend for a path; `NoServerLeak` with copies and stale closes; `ImplementsDescriptorTable`, crashes included |
| `DatagramIPCSocket_calls` | `TypeOK`; `BoundIsReachable` when objects contend for paths without override; `NoStaleFile` and `ReportsPathSentTo` when they take paths from each other; `ReadyMeansReceives` without copies; `NoLeak`, with copies, for callers that close first; `ImplementsDescriptorTable` |

Runs whose property is stated by a doc, a comment or a test, and which the code violates
(`findings` in `PROJECT.json` quotes each):

| Run | The code |
|---|---|
| `ConnectionOrientedSocket_all` | `receiveAll()` loops for ever once the peer has closed |
| `UDPSocket_bind` | `bind()` on a bound object closes the socket it has just made, and fails |
| `UDPSocket_name` | `sendTo(hostname)` without a version sends to the first address of the name: with `localhost` at `::1` first, as on most systems, it misses the IPv4 receiver of the README's own example |
| `TCPServerSocket_copies` | two copies accept with a timeout and see the same connection: the one that does not get it blocks past its timeout |
| `TCPServerSocket_close` | `close()` of a stale copy closes another object's socket |
| `IPCServerSocket_busy` | a constructor that finds its path taken removes the running server's file |

Disagreements met on the way that have no run: `UDPSocket::ready()` ignores its timeout,
because `UDPSocket::pollSocket()` passes a zeroed `timeval` that `Socket::pollSocket()` uses in
its place; `send()` to a peer that has closed returns
-1, where the example in the library's README tests for 0; `receiveToDelimiter()` returns a
partial string when `ready()` times out before the delimiter; with `MSG_PEEK` the loop of
`receiveAmount()` fills the buffer with the same bytes again; a failing `receiveFrom()` into
a string leaves the null bytes it was resized with; a datagram IPC object whose descriptor
was closed through a copy and reused reports its own path for what was sent to another; the
constructor of `TCPSocket` from a `SocketAddress` whose `connect()` fails, that of
`TCPServerSocket` whose `setsockopt()` fails and an `accept()` without a host name leave their
descriptor open, which `NoOtherLeak` names; `close()` of an IPC object removes the file at its
path, which another server may have put there since. The models follow the code in all of them.

Every property of a passing run has a mutant: an operator of the module, marked `mutant`,
that changes one mapped definition the way a plausible bug would and makes TLC find the
property violated.

### Bounds

- Stream: 3 bytes sent in messages of up to 2, amounts up to 3, an `unsigned int` of
  3 bits. A loop of `receiveAmount()` thus goes round three times, with a message boundary
  inside and an early return at every place; two readers and three bytes are enough for one
  reader to take a byte between the other's `select()` and `recv()` and for both to have
  something to lose. The delimiter and `'\0'` are two of the byte values.
- Descriptor tables of 2 (servers) or 3 (datagram sockets) numbers, which are symmetric
  because the models let the kernel hand out any free one, and two or three objects: the
  table runs full, and
  closed numbers are reused while another object still holds them. A connection waits in
  the backlog after its client has closed, so two numbers suffice for `accept()` too.
- `UDPSocket` and `TCPServerSocket`: one port besides port 0 ("any"), and two versions, so
  that a host name, a port and a version lead to two addresses: objects contend for one and
  are told apart by the other. Three names: `localhost` (both families, IPv6 first, the order
  most systems give), the default, and one that does not resolve. `EphemeralPort` is the port
  of sockets that were not bound.
- Paths: two, for the same reason.
- `MaxQueue` 1: a second datagram is lost (UDP) or makes its sender wait (IPC). One is enough
  for all that a buffer left over from an earlier bind could give away; reordering by the
  network needs a bound of 2 and is not told apart by the properties.
- `MaxCopies` 1: one assignment is enough for two objects to hold one number, and the
  properties of the passing run are about what holds before it or in spite of it.
- `Backlog` 1 for TCP, so that a second client waits; 0 for IPC, the constructor's default.
- `MaxSent` ends what the peer writes in a behaviour. The liveness properties are stated so
  that it does not decide them: for every length `n` of the stream so far they say that the
  call returns or the peer writes more than `n` bytes without the byte that would end the call
  (`FedOn`). A peer that does so for ever keeps `receiveToDelimiter()` and `receiveAll()`
  going for ever, and they do not say otherwise. `AmountReturnsOnceStarted` needs no such
  condition, as the amount bounds the loop.
- Timeouts of 0 or of a second and a microsecond, and a `ClockTick` of a second: the seconds
  and the microseconds of the timeout both matter, for whoever loses one of them would stop a
  tick too early. In the runs about copies, where `select()` need only be passed, the timeout
  is 0 or 1.
- Receive lengths of `UDPSocket`: one. That a datagram is cut to the buffer is not told apart
  by the properties, except that the length of a string stays one (`TypeOK`).

Deadlock is not checked in the runs of the descriptor-table models: all threads may
legitimately block in `recvfrom()`, `accept()` or `connect()`.

### Fairness

Only `ConnectionOrientedSocket` has liveness properties. Its `FairSpec` assumes weak fairness
of the steps of a thread that is inside a call: the operating system schedules a runnable
thread, and a blocked system call is not enabled in the model. Nobody has to call, send or
close: no liveness property holds because an environment is forced to help. Of the peer one
thing is assumed, and stated in the properties (`FedOn`): that it pauses for good at some
point, or writes the byte the call waits for. That `accept()`
and `receiveFrom()` do not block where they should not is stated as an invariant about the
states their system calls can be in.

## 4. What is proved

`ConnectionOrientedSocketProofs`, for any number of readers, any bytes, amounts, flags and
bounds, from `ConstantsAssumption` alone:

- `TypeCorrect`: `Spec => []TypeOK`. Besides types this says that `recv()` never takes more
  than was sent and that every amount, the converted `-1` of `pollSocket()` included, is an
  `unsigned int`.
- `BufferAlwaysFits`: `Spec => []BufferFits`. `NeverOverruns` is about the step that returns
  and is not inductive: it needs to know, in the states before, that the buffer holds at
  most `want` bytes, and fewer wherever another `recv()` can come. `BufferFits` says that for
  every method and every place in it.
- `NeverOverrunsHolds`: `Spec => NeverOverruns`, from the two.

Each preservation proof has one step per action; lemmas give the types of the operators
the actions are built from.

`ConnectionOrientedSocketStreamProofs`, under the same assumption: what becomes of the bytes.
Two theorems hold for callers with any flags:

- `FramesAlwaysShaped`: `Spec => []FramesShaped`. At each system call the locals have the
  shape their method gives them there; above all, wherever `receiveToDelimiter()` or
  `receiveAll()` waits for a character, `recv()` runs with an empty buffer and, on an open
  socket, for one byte.
- `NoTerminatorEverInside`: `Spec => []NoTerminatorInside`. The inductive invariant,
  `StringsClean`, adds that the string's bytes are below what was sent, so that a later
  `send()` cannot change what they are.

The others are about callers that do not pass `MSG_PEEK` (`NoPeek`, which says that it is not
among `Flags`): a peeked byte is read again, by design.

- `AlwaysExactlyOnce`: `Spec => []ExactlyOnce`, which is inductive with `FramesShaped`, for any
  number of readers that interleave between any two system calls.
- `AlwaysInOrder`: `Spec => []InOrder`. Inductive is `TakenAscending`: what a reader has, with
  what its call holds, increases *and ends at or below `rcvd`*, so that the bytes taken next
  belong behind it.
- `ReturnsEarlyOnlyWhenDrainedHolds`: `Spec => ReturnsEarlyOnlyWhenDrained`, the sentence of
  the header comment and its converse, for all the methods.
- `SocketImplementsByteStream`: `Spec => ImplementsByteStream` when there is one reader
  (`OneReader`). The invariant of the mapping is `Contiguous`: the call in progress holds the
  bytes right behind the settled ones, and nothing behind those is dropped but the `'\0'` that
  ends a `receiveAll()`. With two readers the bytes of either have gaps, and it is false.

The argument is in two stages. `StepHasEffect`: a system call of any method has one of seven
effects on the stream - it moves on with what it has (`Keeps`), takes bytes (`Fills`, `Joins`),
returns (`HandsOver`, `ReturnsString`) or meets a terminator (`MeetsDelimiter`, `MeetsNul`).
The properties are then proved of the effects and never look at the methods again; for most
of them the effects have one thing in common (`EffectTakes`): a step takes the next `k` bytes
behind what its reader has, and drops at most the one after.

`SocketAddressProofs`:

- `PortRoundTrip`, from no assumption on the constants: for every address and every port, `GetPortNumber(WithPort(address, port))`
  is `port`, and version and host are unchanged. It rests on `HtonsInvolution`: swapping the
  bytes of a 16-bit number twice gives it back. This is why the ports `ReturnsBoundAddress`
  and `ListensAsReported` are about survive the change of byte order for all 65536 values, of
  which the runs use two.
- What `ResolveToAddresses` returns for any name, port and version, from `ResolverAssumption`,
  and other lemmas that the proofs about UDP and TCP share.

`DescriptorTableProofs`, from no assumption on the constants:

- `DescriptorsHeldByOne`: `Spec => [](TypeOK /\ HeldByOne)`: what a model gains by
  implementing `DescriptorTable` - the open descriptors are the held ones, and no two owners
  hold the same. The invariant is inductive as it stands: that an open number is held is
  what makes `Acquire` of a number that is not open safe, and that it is held once is what
  makes `Release` safe.

The modules of the socket models have one shape. An inductive invariant `Safe` is a
conjunction of named parts; `SafetyInvariant` proves it of every behaviour, and each property
of the runs follows from it by a theorem of its own. The copies are the difficulty: most
properties hold only while there are none, but types, the order of system calls inside a call
and the absence of leaks hold with them and are what the rest is built on. `Safe` therefore
says of each part what it needs (`~copied`, `~replaced`, `~contended`, `~overridden`).
Without copies a descriptor is held by one object or call; a step of one object changes the
socket behind its own descriptor only, so that what `Safe` says of all other objects is not
disturbed (`OnlyBy` and `OthersSafe` in the datagram and TCP modules, `Calling` and `OthersKept` in
`IPCServerSocketProofs`). Lemmas say once what each operator does to the members, to the
descriptor table and to the files; a step then has to show what `Safe` says of its own object.

`UDPSocketProofs`, from `ConstantsAssumption` and `ResolverAssumption`: `TypeCorrect`,
`BoundIsReported`, `NoDescriptorLeak`, `ReadyIsKept`, `FreshBindSucceeds`,
`BoundAddressReturned`, `OwnAddressReceived`, `DescriptorsAsInTable` - all the properties of
`UDPSocket_calls`. Beyond them `Safe` needs

- `CallInOrder`: what the locals of a call are at its system call; that a bind's address has
  the family of the member `protocolVersion`, set two steps earlier, is what makes the member
  right when it reports;
- `HolderNamed`: the name the kernel has for the object's descriptor *during* `bind()`, while
  its thread has yet to ask for it with `getsockname()`, and after it, where `BoundAsReported`
  speaks of the end only; with `PortRoundTrip` the port that was changed to network order
  comes back;
- `HeldOnce`: nobody else's `close()` or `bind()` touches that descriptor;
- `SocketNamed`: a socket's port is one of those that can be given, and what waits at a
  descriptor was sent to its name, wherever the network inserts a datagram (`Inserted`); `ReceivesOwnAddress` is about the one that is taken;
- `DataWaits`: a datagram that `ready()` saw stays until the object's own next call.

`DatagramIPCSocketProofs`, from `ConstantsAssumption`: `TypeCorrect`, `BoundObjectsReachable`,
`NoFileLeftBehind`, `NoDescriptorLeak`, `ReportsRightPath`, `ReadyIsKept`,
`DescriptorsAsInTable` - all the properties of `DatagramIPCSocket_calls`. Here a name is a file as
well, and `FileLeads` (a file leads to a descriptor bound to its path), `FileIsOwn` and
`PathsAreOwn` (until a `bind()` overrides, bound objects have different paths and the file of
each is its own) hold together or not at all: a `close()` that unlinks the wrong file would break
one through another.

`IPCServerSocketProofs`, from `ConstantsAssumption`: `TypeCorrect`, `ServersReachable`,
`NoFileLeftBehind`, `NoDescriptorLeak`, `OverrideAlwaysRecovers`, `DescriptorsAsInTable` - all
the properties of `IPCServerSocket_calls`. `ServerProgress` and `FileIsOwn` say what state the
socket and the file are in at each step of a constructor, crashes in between included;
`HoldersOwn` and `OwnersHold` tie the members to the history of who opened a descriptor, both
ways, which is what lets `NoServerLeak` survive a `close()` of a stale number.

`TCPServerSocketProofs`, from `ConstantsAssumption`, `ResolverAssumption` and
`AddressesAssumption`: `TypeCorrect`, `ServersListen`, `ClientsConnected`, `NoDescriptorLeak`,
`TimedAcceptNeverBlocks`, `TimeoutWaited`, `DescriptorsAsInTable` - all the properties of
`TCPServerSocket_calls`. Beyond them `Safe` needs

- `ServerInOrder`, `ClientInOrder`: the members of an object and the locals of its call at each
  system call. A client has a version and an address that it is told of (`Told`) and that its
  name resolves to (`Found`) when its constructor returns; while the constructor goes on, each
  address *that remains to be tried* is of that name and has that port (`MayConnect`), which
  `Tail` keeps and whichever address connects makes true of the object. These parts hold with
  copies too;
- `SocketReady`: the socket behind the descriptor of an object was made for it (the history
  `owner`) and is where the object's call has brought it: named from `::bind()` on, listening
  once the constructor returned, with a peer once it connected, and with somebody waiting
  after a `select()` that said yes. A step is then one of three kinds (`KeepSafe`,
  `ReleaseSafe`, `OpenSafe`), by what it does to its object's descriptor, or leaves a new one to
  nobody (`LeaveSafe`). Between `::bind()` and `getsockname()` the object does not know its port
  yet: what holds there is that its `serverAddress` with the port of the socket is the name of
  the socket;
- `PeersLocal`: a connection waits at a listener under a local address of the listener's
  family, so that the `TCPSocket` that `accept()` builds from the listener's version and the
  peer's address reports one it is connected to (`AcceptedReady`);
- `Owned`: the number of an open socket is in the object that the socket was made for, with
  copies as well. `NoDescriptorLeak` follows: a socket without an object is one of those that
  the three exits have left to nobody;
- `InTime`: a call in `select()` has waited for less than its timeout and a tick. For
  `TimeoutWaited` it takes `SecondsAndRest` as well: for every timeout, the quotient and the
  remainder of the division by 1000000, put together, give the timeout.

Only model-checked: the liveness properties of `ConnectionOrientedSocket_one`
(`DelimiterReturns`, `AllReturnsWhileOpen`, `AmountReturnsOnceStarted`), since liveness under
fairness is beyond the prover. Every invariant, action property and refinement that a passing
run checks is also proved; the runs that find a violation have nothing to prove.

## 5. What is abstracted or left out

- The wildcard addresses `0.0.0.0` and `::`, dual-stack sockets and the IPv4-mapped peers
  they would see: a name stands for single addresses (`ResolverAssumption`). With that,
  `accept()` finds a host name whenever `::accept()` reports the peer's address, and its
  reading of the port by the server's version is the reading by the peer's. An address is not resolved again while a
  call is running.
- The sender's address that `UDPSocket::receiveFrom()` returns; the lengths of local
  datagrams. The members of a closed `TCPSocket` or `TCPServerSocket` other than its
  descriptor: only the getters and copies still see them.
- User callbacks (`preBindSocketOperation`, `preSendSocketOperation`), formatting of
  exceptions, Windows.
- A thread that is blocked in `recv()`, `recvfrom()` or `accept()` at the moment a copy
  closes the descriptor is taken to get an error. Signals: `send()` after a reset returns -1
  (`SIGPIPE` is ignored or `MSG_NOSIGNAL` is given, as the README asks).
- `FD_SET` beyond `FD_SETSIZE`, the memory of a 4 GB string.
- An object has no destructor; a model object is made again only after it was closed or its
  constructor threw, so that leaks by callers who forget `close()` do not hide the library's.
- The IPC models begin with paths as truncated to `sun_path`.

## 6. Plan

Done: the core (`ConnectionOrientedSocket` and its abstract specification), one module per
kind of socket, the addresses they use, and the abstract descriptor table that all of them
implement; proofs of every checked safety property and refinement. What could come next:

1. A composition of `TCPServerSocket` and `ConnectionOrientedSocket`: an echo server as in
   the README's example, with its end-to-end property.
2. `ByteStream` for several readers, whose shares interleave: `ExactlyOnce` and `InOrder`
   as one abstract specification.

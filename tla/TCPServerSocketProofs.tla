---------------------- MODULE TCPServerSocketProofs -----------------------
(***************************************************************************)
(* What the prover establishes about TCPServerSocket for any servers,      *)
(* clients, ports, names, timeouts and backlog, and any number of          *)
(* descriptors.                                                            *)
(***************************************************************************)
EXTENDS TCPServerSocket, SocketAddressProofs

\* The version and port of an object are those of its serverAddress, ...
Told(m) ==
  /\ m.protocolVersion \in {IPV4, IPV6} /\ m.serverAddress.family = m.protocolVersion
  /\ m.port = GetPortNumber(m.serverAddress)

\* ... and a TCPSocket's hostname resolves to it.
Found(m) == ResolvesTo(m.hostname, m.protocolVersion, m.serverAddress.host)

\* A client connects to addresses of its hostname, with its port.
MayConnect(m, address) ==
  /\ address.family \in {IPV4, IPV6} /\ GetPortNumber(address) = m.port
  /\ ResolvesTo(m.hostname, address.family, address.host)

\* A call in select() has waited for less than its timeout and a tick.
InTime(c) == c.at = "select" => c.elapsed < c.timeout + ClockTick

\* Which system calls each call goes through, and what the object has at each.
ServerInOrder(h) ==
  /\ call[h].op = "none" <=> call[h].at = "none"
  /\ call[h].op = "construct" <=> call[h].at \in {"bind", "getsockname", "listen", "close"}
  /\ call[h].op = "accept" <=> call[h].at \in {"select", "accept"}
  /\ call[h].op # "address"
  /\ call[h].op = "construct" => object[h].descriptor # Invalid
  /\ object[h].descriptor # Invalid => Told(object[h])
  /\ InTime(call[h])

ClientInOrder(c) ==
  /\ call[c].op = "none" <=> call[c].at = "none"
  /\ call[c].at \in {"none", "socket", "connect"} /\ call[c].op # "accept"
  /\ call[c].op = "address" => call[c].at = "connect"
  /\ call[c].at = "socket" => object[c].descriptor = Invalid
  /\ call[c].at = "connect" => object[c].descriptor # Invalid /\ call[c].addresses # << >>
  /\ call[c].at # "none" =>
       \A i \in 1..Len(call[c].addresses) : MayConnect(object[c], call[c].addresses[i])
  /\ call[c].at = "none" /\ object[c].descriptor # Invalid => Told(object[c]) /\ Found(object[c])

CallInOrder(o) == (o \in Servers => ServerInOrder(o)) /\ (o \in Clients => ClientInOrder(o))

\* Without copies, the socket behind the descriptor of an object is the one that
\* was made for it, in the state its call has brought it to.
ServerReady(h, socket) ==
  /\ call[h].at = "getsockname" =>
       /\ socket.name.port # 0
       /\ WithPort(object[h].serverAddress, GetPortNumber(socket.name)) = socket.name
  /\ call[h].at \notin {"bind", "getsockname", "close"} =>
       socket.name = object[h].serverAddress /\ socket.name.port # 0
  /\ call[h].op # "construct" => socket.listening
  /\ call[h].at = "accept" /\ call[h].timeout > 0 => socket.waiting # << >>

ClientReady(c, socket) ==
  /\ call[c].at = "connect" => socket.name.port = 0
  /\ call[c].at = "none" => socket.peer = object[c].serverAddress

SocketReady(o) ==
  object[o].descriptor # Invalid =>
    LET socket == kernel[object[o].descriptor]
    IN  /\ socket.owner = o
        /\ o \in Servers => ServerReady(o, socket)
        /\ o \in Clients => ClientReady(o, socket)

ObjectSafe(o) == CallInOrder(o) /\ (copies = 0 => SocketReady(o))

\* The same of a TCPSocket that accept() returned.
AcceptedReady(m) ==
  /\ m.descriptor \in Fds
  /\ kernel[m.descriptor].owner = "accept" /\ kernel[m.descriptor].peer = m.serverAddress
  /\ Told(m) /\ Found(m)

AcceptedSafe ==
  copies = 0 =>
    /\ \A m \in accepted : AcceptedReady(m)
    /\ \A m, n \in accepted : m.descriptor = n.descriptor => m = n

\* An open socket has its number in the object it was made for, with copies as well.
Owned(fd) ==
  /\ kernel[fd].owner \in Objects => object[kernel[fd].owner].descriptor = fd
  /\ kernel[fd].owner = "accept" => \E m \in accepted : m.descriptor = fd

\* Without them, the peers that wait at a listener are local, of its family.
IsLocal(a, family) ==
  family \in {IPV4, IPV6} /\ a.family = family /\ a.host = GetLocalAddress(family)

PeersLocal(fd) ==
  \A i \in 1..Len(kernel[fd].waiting) : IsLocal(kernel[fd].waiting[i], kernel[fd].name.family)

SocketSafe(fd) ==
  /\ kernel[fd].owner # "closed" => kernel[fd].name.family \in {IPV4, IPV6}
  /\ Owned(fd)
  /\ copies = 0 => PeersLocal(fd)

Safe ==
  /\ TypeOK
  /\ \A o \in Objects : ObjectSafe(o)
  /\ AcceptedSafe
  /\ \A fd \in Fds : SocketSafe(fd)

\* What the constants are to each other.
LEMMA Constants ==
  /\ Invalid \notin Fds
  /\ "closed" \notin Objects /\ "accept" \notin Objects /\ "nobody" \notin Objects
  /\ \A o \in Servers : o \notin Clients
  /\ \A o \in Clients : o \notin Servers
  /\ \A p \in Ports : p \in PortNumbers /\ p # 0
  /\ EphemeralPort \in PortNumbers /\ EphemeralPort # 0
  /\ Ports \cup {0, EphemeralPort} \subseteq KnownPorts /\ KnownPorts \subseteq PortNumbers
  BY ZeroPort, ConstantsAssumption DEF ConstantsAssumption, Objects, Invalid, KnownPorts

\* The seconds and the rest of a timeout are together the timeout.
LEMMA SecondsAndRest ==
  ASSUME NEW timeout \in Nat
  PROVE  Duration(Timeval(timeout)) = timeout
<1>1. Timeval(timeout).tv_sec = timeout \div 1000000 /\ Timeval(timeout).tv_usec = timeout % 1000000
  BY DEF Timeval
<1>2. (timeout \div 1000000) * 1000000 + (timeout % 1000000) = timeout
  OBVIOUS
<1> QED BY <1>1, <1>2 DEF Duration

\* A call that has not timed out is in time for another tick.
LEMMA OneMoreTick ==
  ASSUME NEW c \in Calls, ~TimedOut(c), NEW d \in Calls,
         d.timeout = c.timeout, d.elapsed = c.elapsed + ClockTick
  PROVE  InTime(d)
<1>1. c.timeout \in Nat /\ c.elapsed \in Nat /\ ClockTick \in Nat
  BY ConstantsAssumption DEF ConstantsAssumption, Calls
<1>2. c.elapsed < c.timeout
  BY <1>1, SecondsAndRest DEF TimedOut
<1>3. c.elapsed + ClockTick < c.timeout + ClockTick
  BY <1>1, <1>2
<1> QED BY <1>3 DEF InTime

\* An address that is given a known port has one, ...
LEMMA WithKnownPort ==
  ASSUME NEW a \in SocketAddresses, NEW p \in KnownPorts
  PROVE  WithPort(a, p) \in Addresses
<1>1. p \in PortNumbers
  BY Constants
<1>2. WithPort(a, p) \in SocketAddresses /\ GetPortNumber(WithPort(a, p)) = p
  BY <1>1, WithPortFields, SamePort
<1> QED BY <1>2 DEF Addresses

\* ... and another address with the same port has it too.
LEMMA KeepsKnownPort ==
  ASSUME NEW a \in Addresses, NEW b \in SocketAddresses, b.port = a.port
  PROVE  b \in Addresses
  BY DEF Addresses, GetPortNumber

\* An address in the model is one with a known port.
LEMMA AddressFields ==
  ASSUME NEW a \in Addresses
  PROVE  /\ a \in SocketAddresses /\ GetPortNumber(a) \in KnownPorts
         /\ a.port \in PortNumbers /\ a.family \in Versions
  BY DEF Addresses, SocketAddresses

\* What a thread that is in no call, a number that is free and an object that
\* is none have.
LEMMA Records ==
  /\ ZeroAddress \in Addresses /\ ZeroAddress.family = AnyVersion /\ ZeroAddress.port = 0
  /\ NoCall \in Calls /\ NoCall.op = "none" /\ NoCall.at = "none" /\ NoCall.addresses = << >>
  /\ NoSocket \in KernelSockets
  /\ NoSocket.owner = "closed" /\ NoSocket.waiting = << >> /\ ~NoSocket.listening
  /\ NoObject \in SocketObjects /\ NoObject.descriptor = Invalid
<1>1. ZeroAddress \in Addresses /\ ZeroAddress.family = AnyVersion /\ ZeroAddress.port = 0
  <2>1. ZeroAddress \in SocketAddresses
    BY ZeroPort DEF ZeroAddress, SocketAddresses, Versions
  <2>2. GetPortNumber(ZeroAddress) = 0
    BY ZeroPort, HtonsPort DEF ZeroAddress, GetPortNumber
  <2> QED BY <2>1, <2>2 DEF ZeroAddress, Addresses, KnownPorts
<1>2. << >> \in Seq(Addresses)
  OBVIOUS
<1>3. NoCall \in Calls /\ NoCall.op = "none" /\ NoCall.at = "none" /\ NoCall.addresses = << >>
  BY <1>2 DEF NoCall, Calls
<1>4. /\ NoSocket \in KernelSockets
      /\ NoSocket.owner = "closed" /\ NoSocket.waiting = << >> /\ ~NoSocket.listening
  BY <1>1, <1>2 DEF NoSocket, KernelSockets
<1>5. NoObject \in SocketObjects /\ NoObject.descriptor = Invalid
  BY <1>1 DEF NoObject, SocketObjects, KnownPorts, Versions
<1> QED BY <1>1, <1>3, <1>4, <1>5

\* What a socket is that socket() has just made.
LEMMA NewSocketFields ==
  ASSUME NEW o \in Objects \cup {"nobody"}, NEW family \in Versions
  PROVE  /\ NewSocket(o, family) \in KernelSockets
         /\ NewSocket(o, family).owner = o /\ NewSocket(o, family).waiting = << >>
         /\ NewSocket(o, family).name.port = 0 /\ NewSocket(o, family).name.family = family
         /\ ~NewSocket(o, family).listening
<1>1. [ZeroAddress EXCEPT !.family = family] \in Addresses
  <2>1. ZeroAddress \in SocketAddresses
    BY Records DEF Addresses
  <2>2. /\ [ZeroAddress EXCEPT !.family = family] \in SocketAddresses
        /\ [ZeroAddress EXCEPT !.family = family].port = ZeroAddress.port
    BY <2>1 DEF SocketAddresses
  <2> QED BY <2>2, Records, KeepsKnownPort
<1> QED BY <1>1, Records DEF NewSocket, NoSocket, KernelSockets, ZeroAddress

\* What steps do to the call of one thread, to the members of one object ...
Calling(o) == call' \in [Objects -> Calls] /\ \A p \in Objects : p # o => call'[p] = call[p]
Changing(o) == object' \in [Objects -> SocketObjects] /\ \A p \in Objects : p # o => object'[p] = object[p]

\* ... and to the socket behind one descriptor.
OthersKept(fd) ==
  kernel' \in [Fds -> KernelSockets] /\ \A f \in Fds : f # fd => kernel'[f] = kernel[f]

\* A thread goes on with its call, ...
LEMMA GotoEffect ==
  ASSUME TypeOK, NEW o \in Objects, NEW c \in Calls, Goto(o, c)
  PROVE  Calling(o) /\ call'[o] = c
  BY DEF TypeOK, Goto, Calling

\* ... or returns from it.
LEMMA ReturnEffect ==
  ASSUME TypeOK, NEW o \in Objects, Return(o)
  PROVE  Calling(o) /\ call'[o] = NoCall
  BY Records DEF TypeOK, Return, Calling

\* A constructor that throws leaves no object.
LEMMA ThrowEffect ==
  ASSUME TypeOK, NEW o \in Objects, Throw(o)
  PROVE  Calling(o) /\ call'[o] = NoCall /\ Changing(o) /\ object'[o] = NoObject
  BY Records DEF TypeOK, Throw, Return, Calling, Changing

\* close() frees the number, if it is one.
LEMMA CloseFdEffect ==
  ASSUME TypeOK, NEW fd, CloseFd(fd)
  PROVE  OthersKept(fd) /\ (fd \in Fds => kernel'[fd] = NoSocket)
  BY Records DEF TypeOK, CloseFd, OthersKept

\* What a step of o does to other objects, what accept() returned and the
\* sockets of both: nothing that concerns them, but that connections may join
\* those that wait.
OnlyBy(o) ==
  /\ \A p \in Objects : p # o => object'[p] = object[p] /\ call'[p] = call[p]
  /\ \A fd \in Fds : kernel[fd].owner # "closed" /\ fd # object[o].descriptor =>
       /\ kernel'[fd].owner = kernel[fd].owner /\ kernel'[fd].name = kernel[fd].name
       /\ kernel'[fd].peer = kernel[fd].peer /\ kernel'[fd].listening = kernel[fd].listening
       /\ kernel[fd].waiting # << >> => kernel'[fd].waiting # << >>
  /\ \A m \in accepted : m \in accepted'
  /\ copies' = copies

\* Such a step keeps what is said of the others.
LEMMA OthersSafe ==
  ASSUME Safe, NEW o \in Objects, OnlyBy(o), ObjectSafe(o)'
  PROVE  /\ \A p \in Objects : ObjectSafe(p)'
         /\ copies' = 0 => \A m \in accepted : AcceptedReady(m)'
<1>1. ASSUME copies = 0, NEW p \in Objects, p # o, object[p].descriptor # Invalid
      PROVE  /\ object[p].descriptor \in Fds /\ kernel[object[p].descriptor].owner = p
             /\ object[p].descriptor # object[o].descriptor
  <2>1. SocketReady(p) /\ SocketReady(o)
    BY <1>1 DEF Safe, ObjectSafe
  <2>2. kernel[object[p].descriptor].owner = p
    BY <1>1, <2>1 DEF SocketReady
  <2>3. object[p].descriptor # object[o].descriptor
    BY <1>1, <2>1, <2>2 DEF SocketReady
  <2> QED BY <1>1, <2>2, <2>3 DEF Safe, TypeOK, SocketObjects
<1>2. ASSUME NEW p \in Objects, p # o
      PROVE  ObjectSafe(p)'
  <2>1. object'[p] = object[p] /\ call'[p] = call[p] /\ copies' = copies
    BY <1>2 DEF OnlyBy
  <2>2. CallInOrder(p)'
    BY <2>1 DEF Safe, ObjectSafe, CallInOrder, ServerInOrder, ClientInOrder
  <2>3. ASSUME copies' = 0, object[p].descriptor # Invalid
        PROVE  SocketReady(p)'
    <3> DEFINE fd == object[p].descriptor
    <3>1. /\ fd \in Fds /\ kernel[fd].owner = p /\ fd # object[o].descriptor
      BY <1>1, <1>2, <2>1, <2>3
    <3>2. kernel[fd].owner # "closed"
      BY <3>1, Constants
    <3>3. /\ kernel'[fd].owner = kernel[fd].owner /\ kernel'[fd].name = kernel[fd].name
          /\ kernel'[fd].peer = kernel[fd].peer /\ kernel'[fd].listening = kernel[fd].listening
          /\ kernel[fd].waiting # << >> => kernel'[fd].waiting # << >>
      BY <3>1, <3>2 DEF OnlyBy
    <3>4. SocketReady(p)
      BY <2>1, <2>3 DEF Safe, ObjectSafe
    <3> QED BY <2>1, <2>3, <3>3, <3>4 DEF SocketReady, ServerReady, ClientReady
  <2>4. object[p].descriptor = Invalid => SocketReady(p)'
    BY <2>1 DEF SocketReady
  <2> QED BY <2>2, <2>3, <2>4 DEF ObjectSafe
<1>3. ASSUME copies' = 0, NEW m \in accepted
      PROVE  AcceptedReady(m)'
  <2>1. copies = 0 /\ AcceptedReady(m)
    BY <1>3 DEF OnlyBy, Safe, AcceptedSafe
  <2>2. m.descriptor \in Fds /\ kernel[m.descriptor].owner = "accept"
    BY <2>1 DEF AcceptedReady
  <2>3. m.descriptor # object[o].descriptor
    BY <2>1, <2>2, Constants DEF Safe, ObjectSafe, SocketReady
  <2>4. kernel'[m.descriptor].owner = "accept" /\ kernel'[m.descriptor].peer = kernel[m.descriptor].peer
    BY <2>2, <2>3 DEF OnlyBy
  <2> QED BY <2>1, <2>4 DEF AcceptedReady
<1> QED BY <1>2, <1>3

\* It loses no socket if o still holds what it did not close.
LEMMA StillOwned ==
  ASSUME Safe, NEW o \in Objects, OnlyBy(o),
         \A fd \in Fds :
           \/ kernel[fd].owner # "closed" /\ fd # object[o].descriptor
           \/ kernel'[fd].owner \in {"closed", "nobody"}
           \/ object'[o].descriptor = fd /\ kernel'[fd].owner = o
           \/ /\ object'[o].descriptor = fd /\ object[o].descriptor = fd
              /\ kernel'[fd].owner = kernel[fd].owner
           \/ kernel'[fd].owner = "accept" /\ \E m \in accepted' : m.descriptor = fd
  PROVE  \A fd \in Fds : Owned(fd)'
<1> SUFFICES ASSUME NEW fd \in Fds PROVE Owned(fd)'
  OBVIOUS
<1>1. Owned(fd)
  BY DEF Safe, SocketSafe
<1>2. CASE kernel[fd].owner # "closed" /\ fd # object[o].descriptor
  <2>1. kernel'[fd].owner = kernel[fd].owner
    BY <1>2 DEF OnlyBy
  <2>2. kernel[fd].owner \in Objects => kernel[fd].owner # o
    BY <1>1, <1>2 DEF Owned
  <2> QED BY <1>1, <2>1, <2>2 DEF OnlyBy, Owned
<1>3. CASE kernel'[fd].owner \in {"closed", "nobody"}
  BY <1>3, Constants DEF Owned
<1>4. CASE object'[o].descriptor = fd /\ kernel'[fd].owner = o
  BY <1>4, Constants DEF Owned
<1>5. CASE /\ object'[o].descriptor = fd /\ object[o].descriptor = fd
           /\ kernel'[fd].owner = kernel[fd].owner
  BY <1>1, <1>5 DEF OnlyBy, Owned
<1>6. CASE kernel'[fd].owner = "accept" /\ \E m \in accepted' : m.descriptor = fd
  BY <1>6, Constants DEF Owned
<1> QED BY <1>2, <1>3, <1>4, <1>5, <1>6

\* The addresses of a name are such addresses.
LEMMA ResolvedAddresses ==
  ASSUME NEW name \in Names, NEW p \in KnownPorts, NEW version \in Versions, NEW addresses,
         addresses = ResolveToAddresses(name, p, CreateHints(version))
  PROVE  /\ addresses \in Seq(Addresses)
         /\ addresses # << >> => addresses[1] \in Addresses
<1>1. p \in PortNumbers
  BY Constants
<1>2. ASSUME NEW a \in SocketAddresses, a.port = Htons(p) PROVE a \in Addresses
  BY <1>1, <1>2, HtonsInvolution DEF Addresses, GetPortNumber
<1>3. addresses \in Seq(SocketAddresses)
  BY <1>1, Resolved
<1>4. \A i \in DOMAIN addresses : addresses[i] \in Addresses
  <2>1. \A i \in DOMAIN addresses : addresses[i] \in SocketAddresses /\ addresses[i].port = Htons(p)
    BY <1>1, <1>3, Resolved
  <2> QED BY <1>2, <2>1
<1>5. addresses \in Seq(Addresses)
  BY <1>3, <1>4
<1>6. addresses # << >> => 1 \in DOMAIN addresses
  BY <1>3
<1> QED BY <1>4, <1>5, <1>6

\* What a step does to the table of descriptors.
TableStep == copies' = 0 => Table!Next \/ UNCHANGED Table!vars

InUse(fd) == kernel[fd].owner \notin {"closed", "nobody"}

\* Steps that neither give a number out nor take one back.
LEMMA TableStutter ==
  ASSUME \A o \in Holders, fd \in Fds : Holds(o, fd)' <=> Holds(o, fd),
         \A fd \in Fds : InUse(fd)' <=> InUse(fd)
  PROVE  UNCHANGED Table!vars
  BY DEF Table!vars, InUse

\* A number that was free goes to one holder.
LEMMA TableAcquire ==
  ASSUME NEW o \in Holders, NEW fd \in Fds, ~InUse(fd), InUse(fd)',
         \A f \in Fds : f # fd => (InUse(f)' <=> InUse(f)),
         \A p \in Holders, f \in Fds : Holds(p, f)' <=> Holds(p, f) \/ <<p, f>> = <<o, fd>>
  PROVE  Table!Next
<1>1. Table!Acquire(o, fd)
  BY DEF Table!Acquire, InUse
<1> QED BY <1>1 DEF Table!Next

\* The holder of a number gives it back.
LEMMA TableRelease ==
  ASSUME NEW o \in Holders, NEW fd \in Fds, Holds(o, fd), ~InUse(fd)',
         \A f \in Fds : f # fd => (InUse(f)' <=> InUse(f)),
         \A p \in Holders, f \in Fds : Holds(p, f)' <=> Holds(p, f) /\ <<p, f>> # <<o, fd>>
  PROVE  Table!Next
<1>1. Table!Release(o, fd)
  BY DEF Table!Release, InUse
<1> QED BY <1>1 DEF Table!Next

\* Steps that leave descriptors and what accept() returned as they are leave
\* the holders as they are.
LEMMA SameHolders ==
  ASSUME UNCHANGED accepted, \A o \in Objects : object'[o].descriptor = object[o].descriptor
  PROVE  \A o \in Holders, fd \in Fds : Holds(o, fd)' <=> Holds(o, fd)
  BY DEF Holders, Holds

\* Steps of a server's thread that touch neither objects nor sockets.
LEMMA CallMoves ==
  ASSUME Safe, NEW h \in Servers, UNCHANGED <<object, accepted, kernel, copies>>,
         Calling(h), ServerInOrder(h)', copies = 0 => SocketReady(h)'
  PROVE  Safe' /\ TableStep
<1>1. h \in Objects /\ h \notin Clients
  BY Constants DEF Objects
<1>2. OnlyBy(h)
  BY <1>1 DEF OnlyBy, Calling
<1>3. ObjectSafe(h)'
  BY <1>1 DEF ObjectSafe, CallInOrder
<1>4. TypeOK'
  BY <1>1 DEF Calling, Safe, TypeOK
<1>5. (\A fd \in Fds : SocketSafe(fd)') /\ AcceptedSafe'
  BY DEF Safe, SocketSafe, Owned, PeersLocal, AcceptedSafe, AcceptedReady
<1>6. TableStep
  BY SameHolders, TableStutter DEF TableStep, InUse
<1> QED BY <1>1, <1>2, <1>3, <1>4, <1>5, <1>6, OthersSafe DEF Safe

\* close() of an object and a constructor that throws, or has yet to begin: the
\* object has no socket afterwards.
LEMMA ReleaseSafe ==
  ASSUME Safe, NEW o \in Objects, NEW fd, fd = object[o].descriptor,
         OthersKept(fd), fd \in Fds => kernel'[fd] = NoSocket,
         Changing(o), object'[o].descriptor = Invalid, Calling(o), CallInOrder(o)',
         UNCHANGED <<accepted, copies>>
  PROVE  Safe' /\ TableStep
<1>1. OnlyBy(o)
  BY DEF OnlyBy, Changing, Calling, OthersKept
<1>2. ObjectSafe(o)'
  BY DEF ObjectSafe, SocketReady
<1>3. (\A p \in Objects : ObjectSafe(p)') /\ AcceptedSafe'
  BY <1>1, <1>2, OthersSafe DEF Safe, AcceptedSafe
<1>4. TypeOK'
  BY DEF Safe, TypeOK, Changing, Calling, OthersKept
<1>5. fd # Invalid => fd \in Fds
  BY DEF Safe, TypeOK, SocketObjects
<1>6. \A f \in Fds :
        \/ kernel[f].owner # "closed" /\ f # object[o].descriptor
        \/ kernel'[f].owner \in {"closed", "nobody"}
  BY Records DEF OthersKept
<1>7. \A f \in Fds : Owned(f)'
  BY <1>1, <1>6, StillOwned
<1>8. ASSUME NEW f \in Fds PROVE SocketSafe(f)'
  <2>1. CASE f = fd
    BY <1>7, <2>1, Records DEF SocketSafe, PeersLocal
  <2>2. CASE f # fd
    BY <1>7, <2>2 DEF OthersKept, Safe, SocketSafe, PeersLocal
  <2> QED BY <2>1, <2>2
<1>9. TableStep
  <2> SUFFICES ASSUME copies' = 0 PROVE Table!Next \/ UNCHANGED Table!vars
    BY DEF TableStep
  <2>1. CASE fd \in Fds
    <3>1. kernel[fd].owner = o
      BY <1>5, <2>1, Constants DEF Safe, ObjectSafe, SocketReady
    <3>2. \A p \in Objects : p # o => object[p].descriptor # fd
      BY <2>1, <3>1, Constants DEF Safe, ObjectSafe, SocketReady
    <3>3. \A p \in Holders, f \in Fds : Holds(p, f)' <=> Holds(p, f) /\ <<p, f>> # <<o, fd>>
      BY <2>1, <3>2, Constants DEF Holders, Holds, Changing
    <3>4. o \in Holders /\ Holds(o, fd)
      BY Constants DEF Holders, Holds
    <3>5. ~InUse(fd)' /\ \A f \in Fds : f # fd => (InUse(f)' <=> InUse(f))
      BY <2>1, Records DEF InUse, OthersKept
    <3> QED BY <2>1, <3>3, <3>4, <3>5, TableRelease
  <2>2. CASE fd \notin Fds
    <3>1. \A p \in Objects : object'[p].descriptor = object[p].descriptor
      BY <1>5, <2>2 DEF Changing
    <3>2. \A f \in Fds : InUse(f)' <=> InUse(f)
      BY <2>2 DEF InUse, OthersKept
    <3> QED BY <3>1, <3>2, SameHolders, TableStutter
  <2> QED BY <2>1, <2>2
<1> QED BY <1>3, <1>4, <1>8, <1>9 DEF Safe

\* socket() gives an object a number that was free.
LEMMA OpenSafe ==
  ASSUME Safe, NEW o \in Objects, NEW members \in SocketObjects, NEW family \in Versions,
         NEW c \in Calls, OpenSocket(o, members, family, c),
         object[o].descriptor = Invalid,
         ASSUME object'[o].descriptor # Invalid, call'[o] = c,
                object'[o].hostname = members.hostname, object'[o].port = members.port,
                object'[o].protocolVersion = members.protocolVersion,
                object'[o].serverAddress = members.serverAddress
         PROVE  CallInOrder(o)',
         o \in Servers => c.op = "construct" /\ c.at = "bind",
         o \in Clients => c.at = "connect",
         UNCHANGED <<accepted, copies>>
  PROVE  Safe' /\ TableStep
<1>1. PICK fd \in FreeFds :
        /\ kernel' = [kernel EXCEPT ![fd] = NewSocket(o, family)]
        /\ object' = [object EXCEPT ![o] = [members EXCEPT !.descriptor = fd, !.own = o]]
        /\ Goto(o, c)
  BY DEF OpenSocket
<1>2. fd \in Fds /\ kernel[fd].owner = "closed" /\ fd # Invalid
  BY Constants DEF FreeFds
<1>3. /\ OthersKept(fd)
      /\ kernel'[fd].owner = o /\ kernel'[fd].waiting = << >>
      /\ kernel'[fd].name.port = 0 /\ kernel'[fd].name.family = family
  BY <1>1, <1>2, NewSocketFields DEF OthersKept, Safe, TypeOK
<1>4. /\ Changing(o) /\ object'[o].descriptor = fd
      /\ object'[o].hostname = members.hostname /\ object'[o].port = members.port
      /\ object'[o].protocolVersion = members.protocolVersion
      /\ object'[o].serverAddress = members.serverAddress
  BY <1>1, <1>2 DEF Changing, Safe, TypeOK, SocketObjects
<1>5. Calling(o) /\ call'[o] = c
  BY <1>1, GotoEffect DEF Safe
<1>6. OnlyBy(o)
  BY <1>2, <1>3, <1>4, <1>5 DEF OnlyBy, OthersKept, Changing, Calling
<1>7. CallInOrder(o)'
  BY <1>2, <1>4, <1>5
<1>8. SocketReady(o)'
  BY <1>3, <1>4, <1>5 DEF SocketReady, ServerReady, ClientReady
<1>9. (\A p \in Objects : ObjectSafe(p)') /\ AcceptedSafe'
  BY <1>6, <1>7, <1>8, OthersSafe DEF ObjectSafe, Safe, AcceptedSafe
<1>10. TypeOK'
  BY <1>3, <1>4, <1>5 DEF Safe, TypeOK, Changing, Calling, OthersKept
<1>11. \A f \in Fds :
        \/ kernel[f].owner # "closed" /\ f # object[o].descriptor
        \/ kernel'[f].owner \in {"closed", "nobody"}
        \/ object'[o].descriptor = f /\ kernel'[f].owner = o
  BY <1>3, <1>4, Constants DEF OthersKept
<1>12. \A f \in Fds : Owned(f)'
  BY <1>4, <1>6, <1>11, StillOwned
<1>13. ASSUME NEW f \in Fds PROVE SocketSafe(f)'
  <2>1. CASE f = fd
    <3>1. family \in {IPV4, IPV6}
      BY DEF OpenSocket, Versions
    <3> QED BY <1>3, <1>12, <2>1, <3>1 DEF SocketSafe, PeersLocal
  <2>2. CASE f # fd
    BY <1>3, <1>12, <2>2 DEF OthersKept, Safe, SocketSafe, PeersLocal
  <2> QED BY <2>1, <2>2
<1>14. Table!Next
  <2>1. \A p \in Holders, f \in Fds : Holds(p, f)' <=> Holds(p, f) \/ <<p, f>> = <<o, fd>>
    BY <1>4, Constants DEF Holders, Holds, Changing
  <2>2. o \in Holders
    BY DEF Holders
  <2>3. ~InUse(fd) /\ InUse(fd)' /\ \A f \in Fds : f # fd => (InUse(f)' <=> InUse(f))
    BY <1>2, <1>3, Constants DEF InUse, OthersKept
  <2> QED BY <1>2, <2>1, <2>2, <2>3, TableAcquire
<1> QED BY <1>9, <1>10, <1>13, <1>14 DEF Safe, TableStep

\* An object that has no socket leaves a new one to nobody.
LEMMA LeaveSafe ==
  ASSUME Safe, NEW o \in Objects, object[o].descriptor = Invalid, NEW fd \in FreeFds,
         NEW family \in {IPV4, IPV6}, family \in Versions,
         kernel' = [kernel EXCEPT ![fd] = NewSocket("nobody", family)],
         Changing(o), object'[o].descriptor = Invalid, Calling(o), CallInOrder(o)',
         UNCHANGED <<accepted, copies>>
  PROVE  Safe' /\ TableStep
<1>1. fd \in Fds /\ kernel[fd].owner = "closed" /\ Invalid \notin Fds
  BY Constants DEF FreeFds
<1>2. /\ OthersKept(fd)
      /\ kernel'[fd].owner = "nobody" /\ kernel'[fd].waiting = << >>
      /\ kernel'[fd].name.family = family
  <2>1. /\ NewSocket("nobody", family) \in KernelSockets
        /\ NewSocket("nobody", family).owner = "nobody"
        /\ NewSocket("nobody", family).waiting = << >>
        /\ NewSocket("nobody", family).name.family = family
    BY NewSocketFields
  <2> QED BY <1>1, <2>1 DEF OthersKept, Safe, TypeOK
<1>3. OnlyBy(o)
  BY <1>1, <1>2 DEF OnlyBy, OthersKept, Changing, Calling
<1>4. ObjectSafe(o)'
  BY DEF ObjectSafe, SocketReady
<1>5. (\A p \in Objects : ObjectSafe(p)') /\ AcceptedSafe'
  BY <1>3, <1>4, OthersSafe DEF Safe, AcceptedSafe
<1>6. TypeOK'
  BY <1>2 DEF Safe, TypeOK, Changing, Calling, OthersKept
<1>7. \A f \in Fds :
        \/ kernel[f].owner # "closed" /\ f # object[o].descriptor
        \/ kernel'[f].owner \in {"closed", "nobody"}
  BY <1>1, <1>2 DEF OthersKept
<1>8. \A f \in Fds : Owned(f)'
  BY <1>3, <1>7, StillOwned
<1>9. ASSUME NEW f \in Fds PROVE SocketSafe(f)'
  <2>1. CASE f = fd
    BY <1>2, <1>8, <2>1 DEF SocketSafe, PeersLocal
  <2>2. CASE f # fd
    BY <1>2, <1>8, <2>2 DEF OthersKept, Safe, SocketSafe, PeersLocal
  <2> QED BY <2>1, <2>2
<1>10. TableStep
  <2>1. \A p \in Objects : object'[p].descriptor = object[p].descriptor
    BY DEF Changing
  <2>2. \A f \in Fds : InUse(f)' <=> InUse(f)
    BY <1>1, <1>2 DEF InUse, OthersKept
  <2> QED BY <2>1, <2>2, SameHolders, TableStutter DEF TableStep
<1> QED BY <1>5, <1>6, <1>9, <1>10 DEF Safe

\* A server's constructor opens a socket for the first address, or throws; when
\* setsockopt() fails it leaves the socket to nobody.
LEMMA ConstructServerSafe ==
  ASSUME Safe, NEW h \in Servers, NEW name \in Hostnames \cup {NullOpt}, NEW p \in Ports \cup {0},
         NEW version \in Versions, ConstructServer(h, name, p, version)
  PROVE  Safe' /\ TableStep
<1> DEFINE hostname == IF name = NullOpt THEN GetLocalAddress(version) ELSE name
           addresses == ResolveLocal(name, p, version)
           first == addresses[1]
           members == [NoObject EXCEPT !.port = p, !.protocolVersion = first.family,
                                       !.serverAddress = first]
           next == [NoCall EXCEPT !.op = "construct", !.at = "bind"]
<1>1. h \in Objects /\ h \notin Clients /\ object[h].descriptor = Invalid /\ call[h].op = "none"
  BY Constants DEF Objects, ConstructServer, CanConstruct
<1>2. hostname \in Names /\ p \in PortNumbers /\ p \in KnownPorts
  BY Constants, ZeroPort DEF Names
<1>3. addresses = ResolveToAddresses(hostname, p, CreateHints(version))
  BY DEF ResolveLocal
<1> HIDE DEF hostname
<1>4. addresses # << >> =>
        first \in Addresses /\ first.port = Htons(p) /\ first.family \in {IPV4, IPV6}
  BY <1>2, <1>3, Resolved, ResolvedAddresses
<1>5. next \in Calls /\ next.op = "construct" /\ next.at = "bind"
  BY Records DEF NoCall, Calls
<1> HIDE DEF addresses, next
<1>6. CASE /\ addresses # << >>
           /\ OpenSocket(h, members, first.family, next) /\ UNCHANGED <<accepted, copies>>
  <2>1. /\ members \in SocketObjects /\ members.port = p
        /\ members.protocolVersion = first.family /\ members.serverAddress = first
    <3>1. first.family \in Versions
      BY <1>4, <1>6 DEF Versions
    <3> HIDE DEF first
    <3> QED BY <1>2, <1>4, <1>6, <3>1, Records DEF SocketObjects
  <2>2. GetPortNumber(first) = p
    BY <1>2, <1>4, <1>6, HtonsInvolution DEF GetPortNumber
  <2> HIDE DEF members
  <2>3. ASSUME object'[h].descriptor # Invalid, call'[h] = next, object'[h].port = members.port,
               object'[h].protocolVersion = members.protocolVersion,
               object'[h].serverAddress = members.serverAddress
        PROVE  CallInOrder(h)'
    BY <1>1, <1>4, <1>5, <1>6, <2>1, <2>2, <2>3 DEF CallInOrder, ServerInOrder, Told, InTime
  <2>4. first.family \in Versions
    BY <1>4, <1>6 DEF Versions
  <2> QED BY <1>1, <1>5, <1>6, <2>1, <2>3, <2>4, OpenSafe
<1>7. CASE Throw(h) /\ UNCHANGED <<kernel, accepted, copies>>
  <2>1. Calling(h) /\ call'[h] = NoCall /\ Changing(h) /\ object'[h] = NoObject
    BY <1>1, <1>7, ThrowEffect DEF Safe
  <2>2. CallInOrder(h)'
    BY <1>1, <2>1, Records DEF CallInOrder, ServerInOrder, InTime
  <2> QED BY <1>1, <1>7, <2>1, <2>2, Records, Constants, ReleaseSafe DEF OthersKept, Safe, TypeOK
<1>8. ASSUME addresses # << >>, NEW fd \in FreeFds,
             kernel' = [kernel EXCEPT ![fd] = NewSocket("nobody", first.family)],
             Throw(h), UNCHANGED <<accepted, copies>>
      PROVE  Safe' /\ TableStep
  <2>1. first.family \in {IPV4, IPV6} /\ first.family \in Versions
    BY <1>4, <1>8 DEF Versions
  <2>2. Calling(h) /\ call'[h] = NoCall /\ Changing(h) /\ object'[h] = NoObject
    BY <1>1, <1>8, ThrowEffect DEF Safe
  <2> HIDE DEF first
  <2>3. CallInOrder(h)'
    BY <1>1, <2>2, Records DEF CallInOrder, ServerInOrder, InTime
  <2> QED BY <1>1, <1>8, <2>1, <2>2, <2>3, Records, LeaveSafe
<1> QED BY <1>6, <1>7, <1>8 DEF ConstructServer, addresses, next

\* accept() begins with select() or with ::accept(), on a server that listens.
LEMMA AcceptSafe ==
  ASSUME Safe, NEW h \in Servers, NEW timeout \in Timeouts, Accept(h, timeout)
  PROVE  Safe' /\ TableStep
<1> DEFINE next == [NoCall EXCEPT !.op = "accept", !.at = FirstAt(timeout), !.timeout = timeout]
<1>1. h \in Objects /\ call[h].op = "none" /\ UNCHANGED <<object, accepted, kernel, copies>>
  BY DEF Objects, Accept
<1>2. timeout \in Nat
  BY ConstantsAssumption DEF ConstantsAssumption
<1>3. FirstAt(timeout) \in {"select", "accept"} /\ (FirstAt(timeout) = "accept" => ~(timeout > 0))
  BY <1>2 DEF FirstAt
<1>4. /\ next \in Calls /\ next.op = "accept" /\ next.at = FirstAt(timeout)
      /\ next.timeout = timeout /\ next.elapsed = 0
  BY <1>2, <1>3, Records DEF NoCall, Calls
<1> HIDE DEF next
<1>5. InTime(next)
  BY <1>2, <1>4, ConstantsAssumption DEF ConstantsAssumption, InTime
<1>6. Calling(h) /\ call'[h] = next
  BY <1>1, <1>4, GotoEffect DEF Accept, Safe, next
<1>7. ServerInOrder(h)'
  BY <1>1, <1>3, <1>4, <1>5, <1>6 DEF Safe, ObjectSafe, CallInOrder, ServerInOrder
<1>8. ASSUME copies = 0 PROVE SocketReady(h)'
  <2>1. SocketReady(h) /\ h \notin Clients /\ call[h].at = "none"
    BY <1>1, <1>8, Constants DEF Safe, ObjectSafe, CallInOrder, ServerInOrder
  <2> QED BY <1>1, <1>3, <1>4, <1>6, <2>1 DEF SocketReady, ServerReady
<1> QED BY <1>1, <1>6, <1>7, <1>8, CallMoves

\* select() lets ::accept() be called only when a connection waits.
LEMMA PollForAcceptSafe ==
  ASSUME Safe, NEW h \in Servers, PollForAccept(h)
  PROVE  Safe' /\ TableStep
<1> DEFINE next == [call[h] EXCEPT !.at = "accept", !.elapsed = 0]
           fd == object[h].descriptor
<1>1. /\ h \in Objects /\ h \notin Clients /\ call[h].op = "accept" /\ call[h].at = "select"
      /\ UNCHANGED <<object, accepted, kernel, copies>>
  BY Constants DEF Objects, PollForAccept, Safe, ObjectSafe, CallInOrder, ServerInOrder
<1>2. CASE 1 \in Select(h) /\ Goto(h, next)
  <2>1. next \in Calls /\ next.op = "accept" /\ next.at = "accept" /\ next.timeout = call[h].timeout
    BY <1>1 DEF Safe, TypeOK, Calls
  <2> HIDE DEF next
  <2>2. Calling(h) /\ call'[h] = next
    BY <1>1, <1>2, <2>1, GotoEffect DEF Safe
  <2>3. ServerInOrder(h)'
    BY <1>1, <2>1, <2>2 DEF Safe, ObjectSafe, CallInOrder, ServerInOrder, InTime
  <2>4. ASSUME copies = 0 PROVE SocketReady(h)'
    <3>1. SocketReady(h)
      BY <1>1, <2>4 DEF Safe, ObjectSafe
    <3>2. fd # Invalid => kernel[fd].listening /\ kernel[fd].waiting # << >>
      <4>1. ASSUME fd # Invalid PROVE IsOpen(fd) /\ kernel[fd].listening
        BY <1>1, <3>1, <4>1, Constants DEF SocketReady, ServerReady, IsOpen, Safe, TypeOK, SocketObjects
      <4>2. ASSUME fd # Invalid, kernel[fd].waiting = << >> PROVE FALSE
        BY <1>2, <4>1, <4>2 DEF Select
      <4> QED BY <4>1, <4>2
    <3> QED BY <1>1, <2>1, <2>2, <3>1, <3>2 DEF SocketReady, ServerReady
  <2> QED BY <1>1, <2>2, <2>3, <2>4, CallMoves
<1>3. CASE Return(h)
  <2>1. Calling(h) /\ call'[h] = NoCall
    BY <1>1, <1>3, ReturnEffect DEF Safe
  <2>2. ServerInOrder(h)'
    BY <1>1, <2>1, Records DEF Safe, ObjectSafe, CallInOrder, ServerInOrder, InTime
  <2>3. ASSUME copies = 0 PROVE SocketReady(h)'
    BY <1>1, <2>1, <2>3, Records DEF Safe, ObjectSafe, SocketReady, ServerReady
  <2> QED BY <1>1, <2>1, <2>2, <2>3, CallMoves
<1> QED BY <1>2, <1>3 DEF PollForAccept

\* accept() that fails leaves the server as it was.
LEMMA AcceptFailsSafe ==
  ASSUME Safe, NEW h \in Servers, AcceptFails(h)
  PROVE  Safe' /\ TableStep
<1>1. /\ h \in Objects /\ h \notin Clients /\ call[h].op = "accept"
      /\ call[h].at = "accept" /\ UNCHANGED <<object, accepted, kernel, copies>>
  BY Constants DEF Objects, AcceptFails, Safe, ObjectSafe, CallInOrder, ServerInOrder
<1>2. Calling(h) /\ call'[h] = NoCall
  BY <1>1, ReturnEffect DEF AcceptFails, Safe
<1>3. ServerInOrder(h)'
  BY <1>1, <1>2, Records DEF Safe, ObjectSafe, CallInOrder, ServerInOrder, InTime
<1>4. ASSUME copies = 0 PROVE SocketReady(h)'
  BY <1>1, <1>2, <1>4, Records DEF Safe, ObjectSafe, SocketReady, ServerReady
<1> QED BY <1>1, <1>2, <1>3, <1>4, CallMoves

\* Time passes for the threads that wait in select().
LEMMA TickSafe ==
  ASSUME Safe, Tick
  PROVE  Safe' /\ TableStep
<1>1. UNCHANGED <<object, accepted, kernel, copies>>
  BY DEF Tick
<1> DEFINE later(c) == [c EXCEPT !.elapsed = @ + ClockTick]
<1>2. \A c \in Calls : /\ later(c) \in Calls /\ later(c).op = c.op /\ later(c).at = c.at
                      /\ later(c).addresses = c.addresses /\ later(c).timeout = c.timeout
                      /\ later(c).elapsed = c.elapsed + ClockTick
  <2> SUFFICES ASSUME NEW c \in Calls
               PROVE  /\ later(c) \in Calls /\ later(c).op = c.op /\ later(c).at = c.at
                      /\ later(c).addresses = c.addresses /\ later(c).timeout = c.timeout
                      /\ later(c).elapsed = c.elapsed + ClockTick
    OBVIOUS
  <2> QED BY ConstantsAssumption DEF ConstantsAssumption, Calls
<1>3. /\ call' \in [Objects -> Calls]
      /\ \A o \in Objects : /\ call'[o].op = call[o].op /\ call'[o].at = call[o].at
                            /\ call'[o].addresses = call[o].addresses
                            /\ call'[o].timeout = call[o].timeout
                            /\ InTime(call[o]) => InTime(call'[o])
  <2>1. DOMAIN call' = Objects /\ \A o \in Objects :
          call'[o] = call[o] \/ (call'[o] = later(call[o]) /\ ~TimedOut(call[o]))
    BY DEF Tick
  <2>2. call' = [o \in Objects |-> call'[o]]
    BY DEF Tick
  <2> HIDE DEF later
  <2>3. \A c \in Calls : ~TimedOut(c) => InTime(later(c))
    BY <1>2, OneMoreTick
  <2> QED BY <1>2, <2>1, <2>2, <2>3 DEF Safe, TypeOK
<1> HIDE DEF later
<1>4. \A o \in Objects : ObjectSafe(o)'
  BY <1>1, <1>3
  DEF Safe, ObjectSafe, CallInOrder, ServerInOrder, ClientInOrder, SocketReady, ServerReady, ClientReady
<1>5. TypeOK'
  BY <1>1, <1>3 DEF Safe, TypeOK
<1>6. (\A fd \in Fds : SocketSafe(fd)') /\ AcceptedSafe'
  BY <1>1 DEF Safe, SocketSafe, Owned, PeersLocal, AcceptedSafe, AcceptedReady
<1>7. TableStep
  BY <1>1, SameHolders, TableStutter DEF TableStep, InUse
<1> QED BY <1>4, <1>5, <1>6, <1>7 DEF Safe

\* close() gives back what the object holds.
LEMMA CloseSafe ==
  ASSUME Safe, NEW o \in Objects, Close(o)
  PROVE  Safe' /\ TableStep
<1>1. call[o].op = "none" /\ UNCHANGED <<accepted, call, copies>>
  BY DEF Close
<1>2. /\ OthersKept(object[o].descriptor)
      /\ object[o].descriptor \in Fds => kernel'[object[o].descriptor] = NoSocket
  BY CloseFdEffect DEF Close, ToClose, Safe
<1>3. Changing(o) /\ object'[o] = NoObject
  BY <1>1, Records DEF Close, Closed, Changing, Safe, TypeOK
<1>4. Calling(o)
  BY <1>1 DEF Calling, Safe, TypeOK
<1>5. CallInOrder(o)'
  BY <1>1, <1>3, Records DEF Safe, ObjectSafe, CallInOrder, ServerInOrder, ClientInOrder
<1> QED BY <1>1, <1>2, <1>3, <1>4, <1>5, Records, ReleaseSafe

\* A socket that its object keeps stays the object's, whatever becomes of its name.
LEMMA KeepSafe ==
  ASSUME Safe, NEW o \in Objects, NEW fd \in Fds, fd = object[o].descriptor, OnlyBy(o),
         Changing(o), object'[o].descriptor = fd, Calling(o), ObjectSafe(o)',
         kernel' \in [Fds -> KernelSockets],
         \A f \in Fds : /\ kernel'[f].owner = kernel[f].owner
                        /\ kernel'[f].name.family = kernel[f].name.family
                        /\ copies = 0 => PeersLocal(f)',
         UNCHANGED accepted
  PROVE  Safe' /\ TableStep
<1>1. copies' = copies
  BY DEF OnlyBy
<1>2. (\A p \in Objects : ObjectSafe(p)') /\ AcceptedSafe'
  BY <1>1, OthersSafe DEF Safe, AcceptedSafe
<1>3. TypeOK'
  BY <1>1 DEF Safe, TypeOK, Changing, Calling
<1>4. \A f \in Fds :
        \/ kernel[f].owner # "closed" /\ f # object[o].descriptor
        \/ kernel'[f].owner \in {"closed", "nobody"}
        \/ /\ object'[o].descriptor = f /\ object[o].descriptor = f
           /\ kernel'[f].owner = kernel[f].owner
  OBVIOUS
<1>5. \A f \in Fds : Owned(f)'
  BY <1>4, StillOwned
<1>6. \A f \in Fds : SocketSafe(f)'
  BY <1>1, <1>5 DEF Safe, SocketSafe
<1>7. TableStep
  <2>1. \A p \in Objects : object'[p].descriptor = object[p].descriptor
    BY DEF Changing
  <2> QED BY <2>1, SameHolders, TableStutter DEF TableStep, InUse
<1> QED BY <1>2, <1>3, <1>6, <1>7 DEF Safe

\* What ::bind() makes of a name: the address, with a port if it has none.
LEMMA BindableName ==
  ASSUME TypeOK, NEW fd, NEW address \in Addresses, NEW name \in BindableNames(fd, address)
  PROVE  /\ fd \in Fds /\ kernel[fd].owner # "closed"
         /\ name \in Addresses /\ name.port # 0
         /\ name.family = address.family /\ name.family = kernel[fd].name.family
         /\ address.port # 0 => name = address
         /\ WithPort(address, GetPortNumber(name)) = name
<1>1. fd \in Fds /\ kernel[fd].owner # "closed" /\ kernel[fd].name.family = address.family
  BY DEF BindableNames, IsOpen
<1>2. CASE address.port = 0
  <2>1. PICK p \in Ports : name = WithPort(address, p)
    BY <1>2 DEF BindableNames
  <2>2. p \in PortNumbers /\ p # 0 /\ p \in KnownPorts
    BY Constants
  <2> QED BY <1>1, <1>2, <2>1, <2>2, AddressFields, WithKnownPort, WithPortFields, SamePort, HtonsPort
<1>3. CASE address.port # 0
  <2>1. name = address
    BY <1>3 DEF BindableNames
  <2>2. address.port \in PortNumbers /\ address \in SocketAddresses
    BY AddressFields
  <2>3. WithPort(address, GetPortNumber(address)) = address
    BY <2>2, HtonsInvolution, HtonsPort, WithPortFields DEF GetPortNumber
  <2> QED BY <1>1, <1>3, <2>1, <2>3
<1> QED BY <1>2, <1>3

\* A constructor that has failed comes to its close().
LEMMA FailsSafe ==
  ASSUME Safe, NEW h \in Servers, call[h].op = "construct", Goto(h, [call[h] EXCEPT !.at = "close"]),
         UNCHANGED <<object, accepted, kernel, copies>>
  PROVE  Safe' /\ TableStep
<1> DEFINE next == [call[h] EXCEPT !.at = "close"]
<1>1. h \in Objects /\ h \notin Clients /\ call[h] \in Calls
  BY Constants DEF Objects, Safe, TypeOK
<1>2. next \in Calls /\ next.op = "construct" /\ next.at = "close"
  BY <1>1 DEF Calls
<1> HIDE DEF next
<1>3. Calling(h) /\ call'[h] = next
  BY <1>1, <1>2, GotoEffect DEF Safe, next
<1>4. ServerInOrder(h)'
  BY <1>1, <1>2, <1>3 DEF Safe, ObjectSafe, CallInOrder, ServerInOrder, InTime
<1>5. ASSUME copies = 0 PROVE SocketReady(h)'
  BY <1>1, <1>2, <1>3, <1>5 DEF Safe, ObjectSafe, SocketReady, ServerReady
<1> QED BY <1>3, <1>4, <1>5, CallMoves

\* ::bind() gives the socket the name that the members ask for.
LEMMA BindServerSafe ==
  ASSUME Safe, NEW h \in Servers, BindServer(h)
  PROVE  Safe' /\ TableStep
<1> DEFINE fd == object[h].descriptor
           address == object[h].serverAddress
           next == [call[h] EXCEPT !.at = IF object[h].port = 0 THEN "getsockname" ELSE "listen"]
<1>1. /\ h \in Objects /\ h \notin Clients /\ call[h].op = "construct" /\ call[h].at = "bind"
      /\ fd # Invalid /\ Told(object[h]) /\ object[h] \in SocketObjects
      /\ UNCHANGED <<object, accepted, copies>>
  BY Constants DEF Objects, BindServer, Safe, TypeOK, ObjectSafe, CallInOrder, ServerInOrder
<1>2. address \in Addresses /\ address.port \in PortNumbers
  BY <1>1, AddressFields DEF SocketObjects
<1>3. ASSUME NEW name \in BindableNames(fd, address),
             kernel' = [kernel EXCEPT ![fd].name = name],
             Goto(h, next)
      PROVE  Safe' /\ TableStep
  <2>1. /\ fd \in Fds /\ kernel[fd].owner # "closed"
        /\ name \in Addresses /\ name.port # 0
        /\ name.family = address.family /\ name.family = kernel[fd].name.family
        /\ address.port # 0 => name = address
        /\ WithPort(address, GetPortNumber(name)) = name
    BY <1>2, <1>3, BindableName DEF Safe
  <2>2. address.port = 0 <=> object[h].port = 0
    BY <1>1, <1>2, HtonsPort DEF Told, GetPortNumber
  <2>3. Changing(h)
    BY <1>1 DEF Changing, Safe, TypeOK
  <2>4. /\ OthersKept(fd)
        /\ kernel'[fd].owner = kernel[fd].owner /\ kernel'[fd].name = name
        /\ kernel'[fd].waiting = kernel[fd].waiting
    BY <1>3, <2>1 DEF OthersKept, Safe, TypeOK, KernelSockets
  <2>5. /\ next \in Calls /\ next.op = "construct" /\ next.at \in {"getsockname", "listen"}
        /\ next.at = "listen" => object[h].port # 0
    BY <1>1 DEF Safe, TypeOK, Calls
  <2> HIDE DEF next
  <2>6. Calling(h) /\ call'[h] = next
    BY <1>1, <1>3, <2>5, GotoEffect DEF Safe
  <2>7. OnlyBy(h)
    BY <1>1, <2>3, <2>4, <2>6 DEF OnlyBy, OthersKept, Changing, Calling
  <2>8. CallInOrder(h)'
    BY <1>1, <2>5, <2>6 DEF CallInOrder, ServerInOrder, InTime
  <2>9. copies' = 0 => SocketReady(h)'
    BY <1>1, <2>1, <2>2, <2>4, <2>5, <2>6 DEF Safe, ObjectSafe, SocketReady, ServerReady
  <2>10. ASSUME NEW f \in Fds, copies = 0 PROVE PeersLocal(f)'
    BY <2>1, <2>4, <2>10 DEF OthersKept, Safe, SocketSafe, PeersLocal
  <2>11. \A f \in Fds : kernel'[f].owner = kernel[f].owner /\ kernel'[f].name.family = kernel[f].name.family
    BY <2>1, <2>4 DEF OthersKept
  <2> QED BY <1>1, <2>1, <2>3, <2>4, <2>6, <2>7, <2>8, <2>9, <2>10, <2>11, KeepSafe
          DEF ObjectSafe, OthersKept
<1>4. CASE Goto(h, [call[h] EXCEPT !.at = "close"]) /\ UNCHANGED kernel
  BY <1>1, <1>4, FailsSafe
<1> QED BY <1>3, <1>4 DEF BindServer

\* Whatever name the descriptor has by now, the members agree on its port.
LEMMA BoundFields ==
  ASSUME NEW m \in SocketObjects, Told(m), NEW name \in Addresses
  PROVE  /\ Bound(m, name) \in SocketObjects /\ Told(Bound(m, name))
         /\ Bound(m, name).descriptor = m.descriptor
         /\ Bound(m, name).serverAddress = WithPort(m.serverAddress, GetPortNumber(name))
<1> DEFINE p == GetPortNumber(name)
           address == WithPort(m.serverAddress, p)
<1>1. m.serverAddress \in Addresses /\ p \in KnownPorts /\ p \in PortNumbers
  BY AddressFields, Constants DEF SocketObjects
<1>2. m.serverAddress \in SocketAddresses
  BY <1>1, AddressFields
<1>3. address \in Addresses /\ address.family = m.serverAddress.family /\ GetPortNumber(address) = p
  BY <1>1, <1>2, WithKnownPort, WithPortFields, SamePort
<1>4. Bound(m, name) = [m EXCEPT !.port = p, !.serverAddress = address]
  BY DEF Bound, SocketObjects
<1> HIDE DEF p, address
<1>5. /\ Bound(m, name) \in SocketObjects
      /\ Bound(m, name).descriptor = m.descriptor
      /\ Bound(m, name).protocolVersion = m.protocolVersion
      /\ Bound(m, name).port = p /\ Bound(m, name).serverAddress = address
  BY <1>1, <1>3, <1>4 DEF SocketObjects
<1> QED BY <1>3, <1>5 DEF Told, p, address

\* The members come to tell of the name that ::bind() gave.
LEMMA InitialisePortNumberSafe ==
  ASSUME Safe, NEW h \in Servers, InitialisePortNumber(h)
  PROVE  Safe' /\ TableStep
<1> DEFINE fd == object[h].descriptor
           name == kernel[fd].name
           next == [call[h] EXCEPT !.at = "listen"]
<1>1. /\ h \in Objects /\ h \notin Clients /\ call[h].op = "construct" /\ call[h].at = "getsockname"
      /\ fd # Invalid /\ Told(object[h]) /\ object[h] \in SocketObjects
      /\ UNCHANGED <<accepted, kernel, copies>>
  BY Constants
     DEF Objects, InitialisePortNumber, Safe, TypeOK, ObjectSafe, CallInOrder, ServerInOrder
<1>2. ASSUME IsOpen(fd), object' = [object EXCEPT ![h] = Bound(@, name)], Goto(h, next)
      PROVE  Safe' /\ TableStep
  <2>1. fd \in Fds /\ name \in Addresses
    BY <1>2 DEF IsOpen, Safe, TypeOK, KernelSockets
  <2>2. /\ Bound(object[h], name) \in SocketObjects /\ Told(Bound(object[h], name))
        /\ Bound(object[h], name).descriptor = fd
        /\ Bound(object[h], name).serverAddress = WithPort(object[h].serverAddress, GetPortNumber(name))
    BY <1>1, <2>1, BoundFields
  <2>3. /\ Changing(h) /\ object'[h].descriptor = fd /\ Told(object'[h])
        /\ object'[h].serverAddress = WithPort(object[h].serverAddress, GetPortNumber(name))
    BY <1>1, <1>2, <2>2 DEF Changing, Safe, TypeOK
  <2>4. next \in Calls /\ next.op = "construct" /\ next.at = "listen"
    BY <1>1 DEF Safe, TypeOK, Calls
  <2> HIDE DEF next
  <2>5. Calling(h) /\ call'[h] = next
    BY <1>1, <1>2, <2>4, GotoEffect DEF Safe
  <2>6. OnlyBy(h)
    BY <1>1, <2>3, <2>5 DEF OnlyBy, Changing, Calling
  <2>7. CallInOrder(h)'
    BY <1>1, <2>3, <2>4, <2>5 DEF CallInOrder, ServerInOrder, InTime
  <2>8. copies' = 0 => SocketReady(h)'
    BY <1>1, <2>3, <2>4, <2>5 DEF Safe, ObjectSafe, SocketReady, ServerReady
  <2>9. kernel' \in [Fds -> KernelSockets] /\ \A f \in Fds : copies = 0 => PeersLocal(f)'
    BY <1>1 DEF Safe, TypeOK, SocketSafe, PeersLocal
  <2> QED BY <1>1, <2>1, <2>3, <2>5, <2>6, <2>7, <2>8, <2>9, KeepSafe DEF ObjectSafe
<1>3. CASE Goto(h, [call[h] EXCEPT !.at = "close"]) /\ UNCHANGED object
  BY <1>1, <1>3, FailsSafe
<1> QED BY <1>2, <1>3 DEF InitialisePortNumber

\* A constructor that failed closes what its number stands for, and throws.
LEMMA AbandonServerSafe ==
  ASSUME Safe, NEW h \in Servers, AbandonServer(h)
  PROVE  Safe' /\ TableStep
<1> DEFINE fd == object[h].descriptor
<1>1. h \in Objects /\ h \notin Clients /\ UNCHANGED <<accepted, copies>>
  BY Constants DEF Objects, AbandonServer
<1>2. Calling(h) /\ call'[h] = NoCall /\ Changing(h) /\ object'[h] = NoObject
  BY <1>1, ThrowEffect DEF AbandonServer, Safe
<1>3. OthersKept(fd) /\ (fd \in Fds => kernel'[fd] = NoSocket)
  BY CloseFdEffect DEF AbandonServer, ToClose, Safe
<1>4. CallInOrder(h)'
  BY <1>1, <1>2, Records DEF CallInOrder, ServerInOrder, InTime
<1> QED BY <1>1, <1>2, <1>3, <1>4, Records, ReleaseSafe

\* The name of a socket that needs one has its family.
LEMMA NameOfFields ==
  ASSUME Safe, NEW fd \in Fds, kernel[fd].owner # "closed"
  PROVE  /\ NameOf(fd) \in Addresses /\ NameOf(fd).port # 0
         /\ NameOf(fd).family = kernel[fd].name.family /\ NameOf(fd).family \in {IPV4, IPV6}
         /\ kernel[fd].name.port # 0 => NameOf(fd) = kernel[fd].name
         /\ kernel[fd].name.port = 0 => NameOf(fd).host = GetLocalAddress(NameOf(fd).family)
<1> DEFINE name == kernel[fd].name
           local == [name EXCEPT !.host = GetLocalAddress(name.family)]
<1>1. name \in Addresses /\ name.family \in {IPV4, IPV6}
  BY DEF Safe, TypeOK, KernelSockets, SocketSafe
<1>2. CASE name.port # 0
  BY <1>1, <1>2 DEF NameOf, HasName
<1>3. CASE name.port = 0
  <2>1. GetLocalAddress(name.family) \in Hosts
    BY <1>1, AddressesAssumption
  <2>2. local \in Addresses /\ local.family = name.family /\ local.host = GetLocalAddress(name.family)
    <3>1. name \in SocketAddresses
      BY <1>1, AddressFields
    <3>2. /\ local \in SocketAddresses /\ local.port = name.port
          /\ local.family = name.family /\ local.host = GetLocalAddress(name.family)
      BY <2>1, <3>1 DEF SocketAddresses
    <3> QED BY <1>1, <3>2, KeepsKnownPort
  <2>3. NameOf(fd) = WithPort(local, EphemeralPort)
    BY <1>3 DEF NameOf, HasName
  <2> HIDE DEF local
  <2>4. WithPort(local, EphemeralPort).host = local.host
    BY DEF WithPort
  <2>5. Htons(EphemeralPort) # 0
    BY Constants, HtonsPort
  <2>6. /\ WithPort(local, EphemeralPort) \in Addresses
        /\ WithPort(local, EphemeralPort).port # 0
        /\ WithPort(local, EphemeralPort).family = local.family
    BY <2>2, <2>5, Constants, AddressFields, WithKnownPort, WithPortFields
  <2> QED BY <1>1, <1>3, <2>2, <2>3, <2>4, <2>6
<1> QED BY <1>2, <1>3

\* ::listen() changes no name that ::bind() gave.
LEMMA ListenServerSafe ==
  ASSUME Safe, NEW h \in Servers, ListenServer(h)
  PROVE  Safe' /\ TableStep
<1> DEFINE fd == object[h].descriptor
<1>1. /\ h \in Objects /\ h \notin Clients /\ call[h].op = "construct" /\ call[h].at = "listen"
      /\ fd # Invalid /\ Told(object[h]) /\ UNCHANGED <<accepted, copies>>
  BY Constants DEF Objects, ListenServer, Safe, ObjectSafe, CallInOrder, ServerInOrder
<1>2. ASSUME CanListen(fd), kernel' = [kernel EXCEPT ![fd].listening = TRUE, ![fd].name = NameOf(fd)],
             Return(h), UNCHANGED object
      PROVE  Safe' /\ TableStep
  <2>1. fd \in Fds /\ kernel[fd].owner # "closed"
    BY <1>2 DEF CanListen, IsOpen
  <2>2. /\ NameOf(fd) \in Addresses /\ NameOf(fd).port # 0
        /\ NameOf(fd).family = kernel[fd].name.family
        /\ kernel[fd].name.port # 0 => NameOf(fd) = kernel[fd].name
    BY <2>1, NameOfFields
  <2>3. /\ OthersKept(fd)
        /\ kernel'[fd].owner = kernel[fd].owner /\ kernel'[fd].name = NameOf(fd)
        /\ kernel'[fd].waiting = kernel[fd].waiting /\ kernel'[fd].listening
    BY <1>2, <2>1, <2>2 DEF OthersKept, Safe, TypeOK, KernelSockets
  <2>4. Calling(h) /\ call'[h] = NoCall
    BY <1>1, <1>2, ReturnEffect DEF Safe
  <2>5. Changing(h)
    BY <1>2 DEF Changing, Safe, TypeOK
  <2>6. OnlyBy(h)
    BY <1>1, <2>3, <2>4, <2>5 DEF OnlyBy, OthersKept, Changing, Calling
  <2>7. CallInOrder(h)'
    BY <1>1, <1>2, <2>4, Records DEF CallInOrder, ServerInOrder, InTime
  <2>8. copies' = 0 => SocketReady(h)'
    BY <1>1, <1>2, <2>1, <2>2, <2>3, <2>4, Records DEF Safe, ObjectSafe, SocketReady, ServerReady
  <2>9. ASSUME NEW f \in Fds, copies = 0 PROVE PeersLocal(f)'
    BY <2>1, <2>2, <2>3, <2>9 DEF OthersKept, Safe, SocketSafe, PeersLocal
  <2>10. \A f \in Fds : kernel'[f].owner = kernel[f].owner /\ kernel'[f].name.family = kernel[f].name.family
    BY <2>1, <2>2, <2>3 DEF OthersKept
  <2> QED BY <1>1, <1>2, <2>1, <2>3, <2>4, <2>5, <2>6, <2>7, <2>8, <2>9, <2>10, KeepSafe
          DEF ObjectSafe, OthersKept
<1>3. CASE Goto(h, [call[h] EXCEPT !.at = "close"]) /\ UNCHANGED <<object, kernel>>
  BY <1>1, <1>3, FailsSafe
<1> QED BY <1>2, <1>3 DEF ListenServer

\* The addresses of a name have the port, and the name resolves to each.
LEMMA ResolvedMayConnect ==
  ASSUME NEW name \in Names, NEW p \in PortNumbers, NEW version \in Versions, NEW addresses,
         addresses = ResolveToAddresses(name, p, CreateHints(version)),
         NEW i \in DOMAIN addresses
  PROVE  /\ addresses[i].family \in {IPV4, IPV6} /\ GetPortNumber(addresses[i]) = p
         /\ addresses[i].host \in Hosts
         /\ ResolvesTo(name, addresses[i].family, addresses[i].host)
         /\ ResolvesTo(addresses[i].host, addresses[i].family, addresses[i].host)
<1> DEFINE host == GetAddrInfo(name, version)[i]
<1>1. /\ i \in DOMAIN GetAddrInfo(name, version) /\ addresses[i].port = Htons(p)
      /\ addresses[i].family = host.family /\ addresses[i].family \in {IPV4, IPV6}
      /\ addresses[i].host = host.host /\ addresses[i].host \in Hosts
  BY Resolved
<1>2. ResolvesTo(name, host.family, host.host) /\ ResolvesTo(host.host, host.family, host.host)
  BY <1>1, AddressesAssumption
<1>3. GetPortNumber(addresses[i]) = p
  BY <1>1, HtonsInvolution DEF GetPortNumber
<1> HIDE DEF host
<1> QED BY <1>1, <1>2, <1>3

\* A client's constructor sets out with the addresses of its hostname.
LEMMA ConstructClientSafe ==
  ASSUME Safe, NEW c \in Clients, NEW hostname \in Hostnames, NEW p \in Ports,
         NEW version \in Versions, ConstructClient(c, hostname, p, version)
  PROVE  Safe' /\ TableStep
<1> DEFINE members == [NoObject EXCEPT !.hostname = hostname, !.port = p, !.protocolVersion = version]
           addresses == ResolveToAddresses(hostname, p, CreateHints(version))
           next == [NoCall EXCEPT !.op = "construct", !.at = "socket", !.addresses = addresses]
<1>1. /\ c \in Objects /\ c \notin Servers /\ object[c].descriptor = Invalid
      /\ object' = [object EXCEPT ![c] = members] /\ Goto(c, next)
      /\ UNCHANGED <<accepted, kernel, copies>>
  BY Constants DEF Objects, ConstructClient, CanConstruct
<1>2. hostname \in Names /\ p \in PortNumbers /\ p \in KnownPorts
  BY Constants DEF Names
<1>3. addresses \in Seq(Addresses)
  BY <1>2, ResolvedAddresses
<1>4. /\ members \in SocketObjects /\ members.descriptor = Invalid
      /\ members.hostname = hostname /\ members.port = p
  BY <1>2, Records DEF NoObject, SocketObjects
<1>5. ASSUME NEW i \in 1..Len(addresses) PROVE MayConnect(members, addresses[i])
  <2>1. i \in DOMAIN addresses
    BY <1>3
  <2> QED BY <1>2, <1>4, <2>1, ResolvedMayConnect DEF MayConnect
<1> HIDE DEF members, addresses
<1>6. next \in Calls /\ next.op = "construct" /\ next.at = "socket" /\ next.addresses = addresses
  BY <1>3, Records DEF NoCall, Calls
<1> HIDE DEF next
<1>7. Changing(c) /\ object'[c] = members
  BY <1>1, <1>4 DEF Changing, Safe, TypeOK
<1>8. Calling(c) /\ call'[c] = next
  BY <1>1, <1>6, GotoEffect DEF Safe
<1>9. CallInOrder(c)'
  BY <1>1, <1>4, <1>5, <1>6, <1>7, <1>8 DEF CallInOrder, ClientInOrder
<1>10. OthersKept(Invalid) /\ Invalid \notin Fds
  BY <1>1, Constants DEF OthersKept, Safe, TypeOK
<1> QED BY <1>1, <1>4, <1>7, <1>8, <1>9, <1>10, ReleaseSafe

\* What is left of a sequence without its first element.
LEMMA TailElements ==
  ASSUME NEW S, NEW q \in Seq(S), q # << >>
  PROVE  /\ Head(q) \in S /\ Head(q) = q[1] /\ 1 \in 1..Len(q)
         /\ Tail(q) \in Seq(S)
         /\ \A i \in 1..Len(Tail(q)) : Tail(q)[i] = q[i + 1] /\ i + 1 \in 1..Len(q)
  OBVIOUS

\* A client that goes on to its next address.
LEMMA NextAddressFields ==
  ASSUME Safe, NEW c \in Clients, call[c].at \in {"socket", "connect"}, call[c].op = "construct",
         call[c].addresses # << >>
  PROVE  /\ NextAddress(c) \in Calls
         /\ NextAddress(c).op = "construct" /\ NextAddress(c).at = "socket"
         /\ \A m : m.port = object[c].port /\ m.hostname = object[c].hostname =>
              \A i \in 1..Len(NextAddress(c).addresses) : MayConnect(m, NextAddress(c).addresses[i])
<1> DEFINE addresses == call[c].addresses
<1>1. c \in Objects /\ call[c] \in Calls
  BY DEF Objects, Safe, TypeOK
<1>2. addresses \in Seq(Addresses)
  BY <1>1 DEF Calls
<1>3. \A i \in 1..Len(addresses) : MayConnect(object[c], addresses[i])
  BY <1>1 DEF Safe, ObjectSafe, CallInOrder, ClientInOrder
<1> HIDE DEF addresses
<1>4. NextAddress(c) = [call[c] EXCEPT !.at = "socket", !.addresses = Tail(addresses)]
  BY <1>1 DEF NextAddress, Calls, addresses
<1>5. addresses # << >>
  BY DEF addresses
<1>6. /\ Tail(addresses) \in Seq(Addresses)
      /\ \A i \in 1..Len(Tail(addresses)) : MayConnect(object[c], Tail(addresses)[i])
  BY <1>2, <1>3, <1>5, TailElements
<1> QED BY <1>1, <1>4, <1>6 DEF MayConnect, Calls

\* A client opens a socket for its next address, passes it over or gives up.
LEMMA TryNextAddressSafe ==
  ASSUME Safe, NEW c \in Clients, TryNextAddress(c)
  PROVE  Safe' /\ TableStep
<1> DEFINE addresses == call[c].addresses
           next == [call[c] EXCEPT !.at = "connect"]
<1>1. /\ c \in Objects /\ c \notin Servers /\ call[c].at = "socket" /\ call[c].op = "construct"
      /\ object[c].descriptor = Invalid /\ object[c] \in SocketObjects /\ call[c] \in Calls
      /\ UNCHANGED <<accepted, copies>>
  BY Constants DEF Objects, TryNextAddress, Safe, TypeOK, ObjectSafe, CallInOrder, ClientInOrder, Calls
<1>2. Invalid \notin Fds /\ (UNCHANGED kernel => OthersKept(Invalid))
  BY Constants DEF OthersKept, Safe, TypeOK
<1>3. CASE Throw(c) /\ UNCHANGED kernel
  <2>1. Calling(c) /\ call'[c] = NoCall /\ Changing(c) /\ object'[c] = NoObject
    BY <1>1, <1>3, ThrowEffect DEF Safe
  <2>2. CallInOrder(c)'
    BY <1>1, <2>1, Records DEF CallInOrder, ClientInOrder
  <2> QED BY <1>1, <1>2, <1>3, <2>1, <2>2, Records, ReleaseSafe
<1>4. CASE addresses # << >> /\ OpenSocket(c, object[c], Head(addresses).family, next)
  <2>1. next \in Calls /\ next.op = "construct" /\ next.at = "connect" /\ next.addresses = addresses
    BY <1>1 DEF Calls
  <2>2. \A i \in 1..Len(addresses) : MayConnect(object[c], addresses[i])
    BY <1>1 DEF Safe, ObjectSafe, CallInOrder, ClientInOrder
  <2>3. Head(addresses).family \in Versions
    <3>1. addresses \in Seq(Addresses)
      BY <1>1 DEF Calls
    <3>2. Head(addresses) = addresses[1] /\ 1 \in 1..Len(addresses)
      BY <1>4, <3>1
    <3> QED BY <2>2, <3>2 DEF MayConnect, Versions
  <2> HIDE DEF next
  <2>4. ASSUME object'[c].descriptor # Invalid, call'[c] = next,
               object'[c].hostname = object[c].hostname, object'[c].port = object[c].port
        PROVE  CallInOrder(c)'
    BY <1>1, <1>4, <2>1, <2>2, <2>4 DEF CallInOrder, ClientInOrder, MayConnect
  <2> QED BY <1>1, <1>4, <2>1, <2>3, <2>4, OpenSafe
<1>5. CASE addresses # << >> /\ Goto(c, NextAddress(c)) /\ UNCHANGED <<object, kernel>>
  <2>1. /\ NextAddress(c) \in Calls
        /\ NextAddress(c).op = "construct" /\ NextAddress(c).at = "socket"
        /\ \A i \in 1..Len(NextAddress(c).addresses) : MayConnect(object[c], NextAddress(c).addresses[i])
    BY <1>1, <1>5, NextAddressFields
  <2>2. Calling(c) /\ call'[c] = NextAddress(c)
    BY <1>1, <1>5, <2>1, GotoEffect DEF Safe
  <2>3. Changing(c)
    BY <1>5 DEF Changing, Safe, TypeOK
  <2>4. CallInOrder(c)'
    BY <1>1, <1>5, <2>1, <2>2 DEF CallInOrder, ClientInOrder
  <2> QED BY <1>1, <1>2, <1>5, <2>2, <2>3, <2>4, ReleaseSafe
<1> QED BY <1>3, <1>4, <1>5 DEF TryNextAddress

\* The text of an address that a name may resolve to is that of its host.
LEMMA TextOfAddress ==
  ASSUME NEW a, a.family \in {IPV4, IPV6}, a.host \in Hosts
  PROVE  GetAddress(a) = a.host
<1>1. GetEmptyAddress(IPV4) = "0.0.0.0"
  BY SMT DEF GetEmptyAddress, IPV4, IPV6
<1>2. GetEmptyAddress(IPV6) = "::"
  BY SMT DEF GetEmptyAddress, IPV4, IPV6
<1>3. GetInternetProtocolVersion(a) = a.family
  BY DEF GetInternetProtocolVersion
<1>4. a.family # AnyVersion
  BY DEF AnyVersion, IPV4, IPV6
<1>5. a.host \notin {"", GetEmptyAddress(a.family)}
  BY <1>1, <1>2, ResolverAssumption, Zenon
<1> QED BY <1>3, <1>4, <1>5, Zenon DEF GetAddress

\* The addresses that callers have.
LEMMA CallersAddresses ==
  ASSUME NEW address \in RemoteAddresses, address.family # AnyVersion
  PROVE  /\ address \in Addresses /\ address.family \in {IPV4, IPV6}
         /\ GetPortNumber(address) \in KnownPorts
         /\ GetAddress(address) = address.host /\ address.host \in Hosts
         /\ ResolvesTo(address.host, address.family, address.host)
<1>1. address # ZeroAddress
  BY Records
<1>2. PICK name \in Hostnames, p \in Ports :
        address \in ToSet(ResolveToAddresses(name, p, CreateHints(AnyVersion)))
  BY <1>1 DEF RemoteAddresses
<1> DEFINE addresses == ResolveToAddresses(name, p, CreateHints(AnyVersion))
<1>3. PICK i \in DOMAIN addresses : address = addresses[i]
  BY <1>2 DEF ToSet
<1>4. name \in Names /\ p \in PortNumbers /\ AnyVersion \in Versions
  BY Constants DEF Names, Versions
<1>5. addresses \in Seq(Addresses)
  BY <1>4, Constants, ResolvedAddresses
<1>6. /\ address.family \in {IPV4, IPV6} /\ GetPortNumber(address) = p
      /\ address.host \in Hosts /\ ResolvesTo(address.host, address.family, address.host)
  BY <1>3, <1>4, ResolvedMayConnect
<1> HIDE DEF addresses
<1>7. address \in Addresses
  BY <1>3, <1>5
<1>8. GetAddress(address) = address.host
  BY <1>6, TextOfAddress
<1> QED BY <1>6, <1>7, <1>8, AddressFields

\* The constructor from an address opens one socket, or throws.
LEMMA ConstructFromAddressSafe ==
  ASSUME Safe, NEW c \in Clients, NEW address \in RemoteAddresses, ConstructFromAddress(c, address)
  PROVE  Safe' /\ TableStep
<1> DEFINE hostname == IF GetAddress(address) = NullOpt THEN "" ELSE GetAddress(address)
           members == [NoObject EXCEPT !.hostname = hostname, !.port = GetPortNumber(address),
                         !.protocolVersion = GetInternetProtocolVersion(address)]
           next == [NoCall EXCEPT !.op = "address", !.at = "connect", !.addresses = <<address>>]
<1>1. c \in Objects /\ c \notin Servers /\ object[c].descriptor = Invalid /\ UNCHANGED <<accepted, copies>>
  BY Constants DEF Objects, ConstructFromAddress, CanConstruct
<1>2. CASE OpenSocket(c, members, address.family, next)
  <2>1. address.family # AnyVersion
    BY <1>2 DEF OpenSocket
  <2>2. /\ address \in Addresses /\ address.family \in {IPV4, IPV6}
        /\ GetPortNumber(address) \in KnownPorts
        /\ GetAddress(address) = address.host /\ address.host \in Hosts
        /\ ResolvesTo(address.host, address.family, address.host)
    BY <2>1, CallersAddresses
  <2>3. hostname \in Hosts \cup {""}
    BY <2>2
  <2>4. GetInternetProtocolVersion(address) \in Versions
    BY <2>2 DEF GetInternetProtocolVersion, Versions
  <2>5. GetAddress(address) # NullOpt
    BY <2>2, ResolverAssumption
  <2>6. /\ members \in SocketObjects /\ members.port = GetPortNumber(address)
        /\ members.hostname = address.host
    <3>1. hostname = address.host
      BY <2>2, <2>5
    <3> HIDE DEF hostname
    <3> QED BY <2>2, <2>3, <2>4, <3>1, Records DEF SocketObjects, NoObject
  <2>7. /\ next \in Calls /\ next.op = "address" /\ next.at = "connect"
        /\ next.addresses = <<address>>
    <3>1. <<address>> \in Seq(Addresses)
      BY <2>2
    <3> QED BY <3>1, Records DEF NoCall, Calls
  <2> HIDE DEF members, next
  <2>8. MayConnect(members, address)
    BY <2>2, <2>6 DEF MayConnect
  <2>9. ASSUME object'[c].descriptor # Invalid, call'[c] = next,
               object'[c].hostname = members.hostname, object'[c].port = members.port
        PROVE  CallInOrder(c)'
    <3>1. \A i \in 1..Len(<<address>>) : <<address>>[i] = address
      OBVIOUS
    <3>2. MayConnect(object'[c], address)
      BY <2>8, <2>9 DEF MayConnect
    <3>3. <<address>> # << >>
      OBVIOUS
    <3> QED BY <1>1, <2>7, <2>9, <3>1, <3>2, <3>3 DEF CallInOrder, ClientInOrder
  <2>10. address.family \in Versions
    BY <2>2 DEF Versions
  <2> QED BY <1>1, <1>2, <2>6, <2>7, <2>9, <2>10, OpenSafe
<1>3. CASE Throw(c) /\ UNCHANGED kernel
  <2>1. Calling(c) /\ call'[c] = NoCall /\ Changing(c) /\ object'[c] = NoObject
    BY <1>1, <1>3, ThrowEffect DEF Safe
  <2>2. CallInOrder(c)'
    BY <1>1, <2>1, Records DEF CallInOrder, ClientInOrder
  <2>3. OthersKept(Invalid) /\ Invalid \notin Fds
    BY <1>3, Constants DEF OthersKept, Safe, TypeOK
  <2> QED BY <1>1, <1>3, <2>1, <2>2, <2>3, Records, ReleaseSafe
<1> QED BY <1>2, <1>3 DEF ConstructFromAddress

\* A client that connects joins those that wait at a listener of its family.
LEMMA ConnectSafe ==
  ASSUME Safe, NEW c \in Clients, Connect(c)
  PROVE  Safe' /\ TableStep
<1> DEFINE fd == object[c].descriptor
           addresses == call[c].addresses
           address == Head(addresses)
<1>1. /\ c \in Objects /\ c \notin Servers /\ call[c].at = "connect" /\ call[c] \in Calls
      /\ fd # Invalid /\ addresses # << >> /\ object[c] \in SocketObjects
      /\ fd \in Fds /\ kernel[fd].owner # "closed" /\ ~kernel[fd].listening
      /\ kernel[fd].name.family = address.family /\ kernel[fd] \in KernelSockets
      /\ UNCHANGED <<accepted, copies>>
  BY Constants DEF Objects, Connect, Connectable, IsOpen, Safe, TypeOK, ObjectSafe, CallInOrder, ClientInOrder
<1>2. address \in Addresses /\ MayConnect(object[c], address)
  <2>1. addresses \in Seq(Addresses)
    BY <1>1 DEF Calls
  <2>2. address \in Addresses /\ address = addresses[1] /\ 1 \in 1..Len(addresses)
    BY <1>1, <2>1, TailElements
  <2> QED BY <1>1, <2>2 DEF Safe, ObjectSafe, CallInOrder, ClientInOrder
<1>3. PICK listener \in Listeners(address) :
        kernel' = [kernel EXCEPT
                     ![listener].waiting = Append(@, NameOf(fd)),
                     ![fd].name = NameOf(fd), ![fd].peer = address]
  BY DEF Connect
<1>4. object' = [object EXCEPT ![c] = Connected(@, address)]
  BY DEF Connect
<1>5. /\ listener \in Fds /\ listener # fd /\ kernel[listener] \in KernelSockets
      /\ kernel[listener].name = address
  BY <1>1, <1>3 DEF Listeners, Safe, TypeOK
<1>6. /\ NameOf(fd) \in Addresses /\ NameOf(fd).port # 0
      /\ NameOf(fd).family = address.family /\ NameOf(fd).family \in {IPV4, IPV6}
      /\ kernel[fd].name.port = 0 => NameOf(fd).host = GetLocalAddress(NameOf(fd).family)
  BY <1>1, NameOfFields
<1> DEFINE q == kernel[listener].waiting
           name == NameOf(fd)
           r == Append(q, name)
<1>7. /\ q \in Seq(Addresses) /\ r \in Seq(Addresses) /\ r # << >>
      /\ \A i \in 1..Len(r) : r[i] = name \/ \E k \in 1..Len(q) : r[i] = q[k]
  <2>1. q \in Seq(Addresses)
    BY <1>5 DEF KernelSockets
  <2>2. name \in Addresses
    BY <1>6
  <2> HIDE DEF q, name
  <2>3. r \in Seq(Addresses) /\ Len(r) = Len(q) + 1
    BY <2>1, <2>2
  <2>4. \A i \in 1..Len(r) : r[i] = name \/ \E k \in 1..Len(q) : r[i] = q[k]
    BY <2>1, <2>2
  <2> HIDE DEF r
  <2>5. r # << >>
    BY <2>1, <2>3
  <2> QED BY <2>1, <2>3, <2>4, <2>5
<1>8. /\ kernel' \in [Fds -> KernelSockets]
      /\ kernel'[listener].waiting = r
      /\ kernel'[listener].owner = kernel[listener].owner
      /\ kernel'[listener].name = kernel[listener].name
      /\ kernel'[listener].peer = kernel[listener].peer
      /\ kernel'[listener].listening = kernel[listener].listening
      /\ kernel'[fd].name = name /\ kernel'[fd].peer = address
      /\ kernel'[fd].owner = kernel[fd].owner
      /\ kernel'[fd].waiting = kernel[fd].waiting
      /\ \A f \in Fds : f # fd /\ f # listener => kernel'[f] = kernel[f]
  <2>1. kernel' = [kernel EXCEPT ![listener].waiting = r, ![fd].name = name, ![fd].peer = address]
    BY <1>3
  <2>2. name \in Addresses
    BY <1>6
  <2> HIDE DEF r, name
  <2> QED BY <1>1, <1>2, <1>5, <1>7, <2>1, <2>2 DEF Safe, TypeOK, KernelSockets
<1> HIDE DEF q, name, r
<1>9. /\ Changing(c) /\ object'[c].descriptor = fd
      /\ object'[c].serverAddress = address /\ object'[c].protocolVersion = address.family
      /\ object'[c].port = object[c].port /\ object'[c].hostname = object[c].hostname
  <2>1. address.family \in Versions
    BY <1>2, AddressFields
  <2> HIDE DEF address
  <2>2. /\ Connected(object[c], address) \in SocketObjects
        /\ Connected(object[c], address).descriptor = fd
        /\ Connected(object[c], address).serverAddress = address
        /\ Connected(object[c], address).protocolVersion = address.family
        /\ Connected(object[c], address).port = object[c].port
        /\ Connected(object[c], address).hostname = object[c].hostname
    BY <1>1, <1>2, <2>1 DEF Connected, SocketObjects
  <2> QED BY <1>1, <1>4, <2>2 DEF Changing, Safe, TypeOK
<1>10. Told(object'[c]) /\ Found(object'[c])
  BY <1>2, <1>9 DEF MayConnect, Told, Found
<1>11. Calling(c) /\ call'[c] = NoCall
  BY <1>1, ReturnEffect DEF Connect, Safe
<1> HIDE DEF fd, address, addresses
<1>12. object[c].descriptor = fd
  BY DEF fd
<1>13. OnlyBy(c)
  BY <1>1, <1>5, <1>7, <1>8, <1>9, <1>11, <1>12 DEF OnlyBy, Changing, Calling
<1>14. CallInOrder(c)'
  BY <1>1, <1>10, <1>11, Records DEF CallInOrder, ClientInOrder
<1>15. ASSUME copies = 0 PROVE SocketReady(c) /\ SocketReady(c)'
  <2>1. SocketReady(c)
    BY <1>1, <1>15 DEF Safe, ObjectSafe
  <2> QED BY <1>1, <1>8, <1>9, <1>11, <1>12, <2>1, Records DEF SocketReady, ClientReady
<1>16. ASSUME NEW f \in Fds, copies = 0 PROVE PeersLocal(f)'
  <2>1. PeersLocal(f) /\ PeersLocal(listener)
    BY <1>5, <1>16 DEF Safe, SocketSafe
  <2>2. CASE f = listener
    <3>1. kernel[fd].name.port = 0
      BY <1>1, <1>12, <1>15, <1>16 DEF SocketReady, ClientReady
    <3>2. IsLocal(name, kernel[listener].name.family)
      BY <1>5, <1>6, <3>1 DEF IsLocal, name
    <3> QED BY <1>7, <1>8, <2>1, <2>2, <3>2 DEF PeersLocal, q
  <2>3. CASE f = fd
    BY <1>1, <1>6, <1>8, <2>1, <2>3 DEF PeersLocal, name
  <2>4. CASE f # listener /\ f # fd
    BY <1>8, <2>1, <2>4 DEF PeersLocal
  <2> QED BY <2>2, <2>3, <2>4
<1>17. \A f \in Fds : kernel'[f].owner = kernel[f].owner /\ kernel'[f].name.family = kernel[f].name.family
  BY <1>1, <1>5, <1>6, <1>8 DEF name
<1> QED BY <1>1, <1>8, <1>9, <1>11, <1>12, <1>13, <1>14, <1>15, <1>16, <1>17, KeepSafe DEF ObjectSafe

\* A refused client closes its socket and goes on; the one that was made from an
\* address leaves it, if it is still its own, to nobody.
LEMMA ConnectRefusedSafe ==
  ASSUME Safe, NEW c \in Clients, ConnectRefused(c)
  PROVE  Safe' /\ TableStep
<1> DEFINE fd == object[c].descriptor
<1>1. /\ c \in Objects /\ c \notin Servers /\ call[c].at = "connect" /\ fd # Invalid
      /\ call[c].addresses # << >> /\ object[c] \in SocketObjects
      /\ fd \in Fds /\ UNCHANGED <<accepted, copies>>
  BY Constants DEF Objects, ConnectRefused, Safe, TypeOK, SocketObjects, ObjectSafe, CallInOrder, ClientInOrder
<1>2. CASE /\ call[c].op = "construct" /\ CloseFd(ToClose(c))
           /\ object' = [object EXCEPT ![c] = Closed(c)]
           /\ Goto(c, NextAddress(c))
  <2>1. OthersKept(fd) /\ kernel'[fd] = NoSocket
    BY <1>1, <1>2, CloseFdEffect DEF ToClose, Safe
  <2>2. /\ NextAddress(c) \in Calls
        /\ NextAddress(c).op = "construct" /\ NextAddress(c).at = "socket"
        /\ \A m : m.port = object[c].port /\ m.hostname = object[c].hostname =>
             \A i \in 1..Len(NextAddress(c).addresses) : MayConnect(m, NextAddress(c).addresses[i])
    BY <1>1, <1>2, NextAddressFields
  <2>3. Calling(c) /\ call'[c] = NextAddress(c)
    BY <1>1, <1>2, <2>2, GotoEffect DEF Safe
  <2>4. /\ Closed(c) \in SocketObjects /\ Closed(c).descriptor = Invalid
        /\ Closed(c).port = object[c].port /\ Closed(c).hostname = object[c].hostname
    BY <1>1, <1>2 DEF Closed, SocketObjects
  <2>5. Changing(c) /\ object'[c] = Closed(c)
    BY <1>1, <1>2, <2>4 DEF Changing, Safe, TypeOK
  <2>6. CallInOrder(c)'
    BY <1>1, <2>2, <2>3, <2>4, <2>5 DEF CallInOrder, ClientInOrder
  <2> QED BY <1>1, <2>1, <2>3, <2>4, <2>5, <2>6, ReleaseSafe
<1>3. CASE /\ kernel' = [f \in Fds |-> IF f = fd /\ kernel[f].owner = c
                                       THEN [kernel[f] EXCEPT !.owner = "nobody"] ELSE kernel[f]]
           /\ Throw(c)
  <2>1. Calling(c) /\ call'[c] = NoCall /\ Changing(c) /\ object'[c] = NoObject
    BY <1>1, <1>3, ThrowEffect DEF Safe
  <2>2. /\ kernel[fd] \in KernelSockets /\ [kernel[fd] EXCEPT !.owner = "nobody"] \in KernelSockets
        /\ [kernel[fd] EXCEPT !.owner = "nobody"].owner = "nobody"
        /\ [kernel[fd] EXCEPT !.owner = "nobody"].name = kernel[fd].name
        /\ [kernel[fd] EXCEPT !.owner = "nobody"].waiting = kernel[fd].waiting
    BY <1>1 DEF Safe, TypeOK, KernelSockets
  <2>3. /\ OthersKept(fd)
        /\ kernel'[fd].owner = IF kernel[fd].owner = c THEN "nobody" ELSE kernel[fd].owner
        /\ kernel'[fd].name = kernel[fd].name /\ kernel'[fd].waiting = kernel[fd].waiting
    <3>1. kernel'[fd] = IF kernel[fd].owner = c THEN [kernel[fd] EXCEPT !.owner = "nobody"]
                        ELSE kernel[fd]
      BY <1>1, <1>3
    <3>2. \A f \in Fds : f # fd => kernel'[f] = kernel[f]
      BY <1>3
    <3>3. kernel' = [f \in Fds |-> kernel'[f]]
      BY <1>3
    <3>4. \A f \in Fds : kernel'[f] \in KernelSockets
      BY <2>2, <3>1, <3>2 DEF Safe, TypeOK
    <3>5. kernel' \in [Fds -> KernelSockets]
      BY <3>3, <3>4
    <3> QED BY <2>2, <3>1, <3>2, <3>5 DEF OthersKept
  <2>4. OnlyBy(c)
    BY <1>1, <2>1, <2>3 DEF OnlyBy, OthersKept, Changing, Calling
  <2>5. ObjectSafe(c)'
    BY <1>1, <2>1, Records DEF ObjectSafe, CallInOrder, ClientInOrder, SocketReady
  <2>6. (\A p \in Objects : ObjectSafe(p)') /\ AcceptedSafe'
    BY <1>1, <2>4, <2>5, OthersSafe DEF Safe, AcceptedSafe
  <2>7. TypeOK'
    BY <1>1, <2>1, <2>3 DEF Safe, TypeOK, Changing, Calling, OthersKept
  <2>8. ASSUME NEW f \in Fds PROVE Owned(f)'
    <3>1. Owned(f)
      BY DEF Safe, SocketSafe
    <3>2. CASE kernel'[f].owner = "nobody"
      BY <3>2, Constants DEF Owned
    <3>3. CASE kernel'[f].owner # "nobody"
      <4>1. kernel'[f].owner = kernel[f].owner
        BY <2>3, <3>3 DEF OthersKept
      <4>2. kernel[f].owner = c => object[c].descriptor = f
        BY <1>1, <3>1 DEF Owned
      <4>3. kernel[f].owner # c
        BY <2>3, <3>3, <4>1, <4>2, Constants
      <4> QED BY <1>1, <2>1, <3>1, <4>1, <4>3 DEF Owned, Changing
    <3> QED BY <3>2, <3>3
  <2>9. ASSUME NEW f \in Fds PROVE SocketSafe(f)'
    <3>1. SocketSafe(f)
      BY DEF Safe
    <3>2. CASE f = fd
      <4>1. kernel'[fd].owner # "closed" => kernel[fd].owner # "closed"
        BY <1>1, <2>3, Constants
      <4> QED BY <1>1, <2>3, <2>8, <3>1, <3>2, <4>1 DEF SocketSafe, PeersLocal
    <3>3. CASE f # fd
      BY <1>1, <2>3, <2>8, <3>1, <3>3 DEF OthersKept, SocketSafe, PeersLocal
    <3> QED BY <3>2, <3>3
  <2>10. ASSUME copies' = 0, NEW own \in Fds, own = fd PROVE Table!Next
    <3>1. kernel[own].owner = c
      BY <1>1, <2>10 DEF Safe, ObjectSafe, SocketReady
    <3>2. \A p \in Objects : p # c => object[p].descriptor # own
      BY <1>1, <2>10, <3>1 DEF Safe, ObjectSafe, SocketReady
    <3>3. \A p \in Holders, f \in Fds : Holds(p, f)' <=> Holds(p, f) /\ <<p, f>> # <<c, own>>
      BY <1>1, <2>1, <2>10, <3>2, Records, Constants DEF Holders, Holds, Changing
    <3>4. c \in Holders /\ Holds(c, own)
      BY <1>1, <2>10, Constants DEF Holders, Holds
    <3>5. ~InUse(own)' /\ \A f \in Fds : f # own => (InUse(f)' <=> InUse(f))
      BY <2>3, <2>10, <3>1 DEF InUse, OthersKept
    <3> QED BY <3>3, <3>4, <3>5, TableRelease
  <2> QED BY <1>1, <2>6, <2>7, <2>9, <2>10 DEF Safe, TableStep
<1> QED BY <1>1, <1>2, <1>3 DEF ConnectRefused

\* accept() gives the first connection that waits a number that was free, and
\* leaves it to nobody when its peer has no host name.
LEMMA AcceptConnectionSafe ==
  ASSUME Safe, NEW h \in Servers, AcceptConnection(h)
  PROVE  Safe' /\ TableStep
<1> DEFINE fd == object[h].descriptor
           q == kernel[fd].waiting
           peer == Head(q)
<1>1. /\ h \in Objects /\ h \notin Clients /\ call[h].op = "accept" /\ call[h].at = "accept"
      /\ fd \in Fds /\ fd # Invalid /\ kernel[fd].owner # "closed" /\ q # << >>
      /\ kernel[fd] \in KernelSockets /\ object[h] \in SocketObjects /\ Return(h)
      /\ UNCHANGED <<object, copies>>
  BY Constants DEF Objects, AcceptConnection, IsOpen, Safe, TypeOK, ObjectSafe, CallInOrder, ServerInOrder
<1>2. PICK new \in FreeFds, owner \in {"accept", "nobody"} :
        /\ kernel' = [kernel EXCEPT
             ![fd].waiting = Tail(@),
             ![new] = [NoSocket EXCEPT !.owner = owner, !.name = kernel[fd].name, !.peer = peer]]
        /\ owner = "accept" => accepted' = accepted \cup {AcceptedSocket(h, new, peer)}
        /\ owner = "nobody" => UNCHANGED accepted
  <2>1. ASSUME NEW address \in Reported(peer), GetAddress(address) # NullOpt PROVE address = peer
    <3>1. GetAddress(ZeroAddress) = NullOpt
      BY Records, Zenon DEF GetAddress, GetInternetProtocolVersion
    <3> QED BY <2>1, <3>1 DEF Reported
  <2> QED BY <2>1 DEF AcceptConnection
<1>3. new \in Fds /\ kernel[new].owner = "closed" /\ new # fd
  BY <1>1 DEF FreeFds
<1>4. /\ q \in Seq(Addresses) /\ peer \in Addresses /\ peer = q[1] /\ 1 \in 1..Len(q)
      /\ Tail(q) \in Seq(Addresses)
      /\ \A i \in 1..Len(Tail(q)) : Tail(q)[i] = q[i + 1] /\ i + 1 \in 1..Len(q)
  <2>1. q \in Seq(Addresses)
    BY <1>1 DEF KernelSockets
  <2> HIDE DEF q
  <2> QED BY <1>1, <2>1, TailElements DEF q
<1> DEFINE made == [NoSocket EXCEPT !.owner = owner, !.name = kernel[fd].name, !.peer = peer]
           members == AcceptedSocket(h, new, peer)
<1>5. /\ made \in KernelSockets /\ made.owner = owner /\ made.peer = peer
      /\ made.name = kernel[fd].name /\ made.waiting = << >>
  BY <1>1, <1>4, Records DEF KernelSockets, NoSocket
<1>6. /\ kernel' \in [Fds -> KernelSockets] /\ kernel'[new] = made
      /\ kernel'[fd].waiting = Tail(q) /\ kernel'[fd].owner = kernel[fd].owner
      /\ kernel'[fd].name = kernel[fd].name /\ kernel'[fd].listening = kernel[fd].listening
      /\ kernel'[fd].peer = kernel[fd].peer
      /\ \A f \in Fds : f # fd /\ f # new => kernel'[f] = kernel[f]
  <2>1. kernel' = [kernel EXCEPT ![fd].waiting = Tail(q), ![new] = made]
    BY <1>2
  <2> HIDE DEF made, q
  <2> QED BY <1>1, <1>3, <1>4, <1>5, <2>1 DEF Safe, TypeOK, KernelSockets
<1>7. /\ members \in SocketObjects /\ members.descriptor = new /\ members.serverAddress = peer
      /\ members.hostname = GetAddress(peer) /\ members.port = GetPortNumber(peer)
      /\ members.protocolVersion = object[h].protocolVersion
  <2>1. GetAddress(peer) \in Hosts \cup {"", NullOpt}
    BY <1>4 DEF GetAddress, Addresses, SocketAddresses
  <2>2. GetPortNumber(peer) \in KnownPorts
    BY <1>4, AddressFields
  <2>3. object[h].protocolVersion \in Versions
    BY <1>1 DEF SocketObjects
  <2> HIDE DEF peer
  <2> QED BY <1>3, <1>4, <2>1, <2>2, <2>3, Records DEF AcceptedSocket, NoObject, SocketObjects
<1>8. Calling(h) /\ call'[h] = NoCall
  BY <1>1, ReturnEffect DEF Safe
<1>9. ASSUME copies = 0 PROVE Told(members) /\ Found(members)
  <2>1. SocketReady(h) /\ Told(object[h]) /\ PeersLocal(fd)
    BY <1>1, <1>9 DEF Safe, ObjectSafe, CallInOrder, ServerInOrder, SocketSafe
  <2>2. IsLocal(peer, kernel[fd].name.family)
    BY <1>4, <2>1 DEF PeersLocal
  <2>3. kernel[fd].name.family = object[h].protocolVersion
    BY <1>1, <2>1 DEF SocketReady, ServerReady, Told
  <2>4. /\ peer.family \in {IPV4, IPV6} /\ peer.family = object[h].protocolVersion
        /\ peer.host = GetLocalAddress(peer.family)
    BY <2>2, <2>3 DEF IsLocal
  <2>5. peer.host \in Hosts /\ ResolvesTo(peer.host, peer.family, peer.host)
    BY <2>4, AddressesAssumption
  <2> HIDE DEF members, peer
  <2>6. GetAddress(peer) = peer.host
    BY <2>4, <2>5, TextOfAddress
  <2> QED BY <1>7, <2>4, <2>5, <2>6 DEF Told, Found
<1> HIDE DEF members, made, peer, q, fd
<1>10. object[h].descriptor = fd /\ object'[h].descriptor = fd
  BY <1>1 DEF fd
<1>11. /\ owner = "accept" => accepted' = accepted \cup {members}
       /\ owner = "nobody" => accepted' = accepted
  BY <1>2 DEF members, peer, q, fd
<1>12. OnlyBy(h)
  BY <1>1, <1>2, <1>3, <1>6, <1>8, <1>10, <1>11 DEF OnlyBy, Calling
<1>13. CallInOrder(h)'
  BY <1>1, <1>8, Records DEF Safe, ObjectSafe, CallInOrder, ServerInOrder, InTime
<1>14. ASSUME copies = 0 PROVE SocketReady(h) /\ SocketReady(h)'
  <2>1. SocketReady(h)
    BY <1>1, <1>14 DEF Safe, ObjectSafe
  <2> QED BY <1>1, <1>6, <1>8, <1>10, <2>1, Records DEF SocketReady, ServerReady
<1>15. ObjectSafe(h)'
  BY <1>1, <1>13, <1>14 DEF ObjectSafe
<1>16. AcceptedSafe'
  <2> SUFFICES ASSUME copies' = 0
               PROVE  /\ \A m \in accepted' : AcceptedReady(m)'
                      /\ \A m, n \in accepted' : m.descriptor = n.descriptor => m = n
    BY DEF AcceptedSafe
  <2>1. ASSUME NEW m, m = members, owner = "accept" PROVE AcceptedReady(m)'
    BY <1>1, <1>3, <1>5, <1>6, <1>7, <1>9, <2>1 DEF AcceptedReady
  <2>2. \A m \in accepted : AcceptedReady(m)'
    BY <1>1, <1>12, <1>15, OthersSafe
  <2>3. \A m \in accepted : m.descriptor # new
    BY <1>1, <1>3 DEF Safe, AcceptedSafe, AcceptedReady
  <2>4. \A m \in accepted' :
          m \in accepted \/ (m = members /\ m.descriptor = new /\ owner = "accept")
    BY <1>2, <1>7, <1>11
  <2>5. \A m, n \in accepted : m.descriptor = n.descriptor => m = n
    BY <1>1 DEF Safe, AcceptedSafe
  <2> QED BY <2>1, <2>2, <2>3, <2>4, <2>5
<1>17. TypeOK'
  BY <1>1, <1>2, <1>6, <1>7, <1>8, <1>11 DEF Safe, TypeOK, Calling
<1>18. \A f \in Fds :
        \/ kernel[f].owner # "closed" /\ f # object[h].descriptor
        \/ kernel'[f].owner \in {"closed", "nobody"}
        \/ /\ object'[h].descriptor = f /\ object[h].descriptor = f
           /\ kernel'[f].owner = kernel[f].owner
        \/ kernel'[f].owner = "accept" /\ \E m \in accepted' : m.descriptor = f
  BY <1>1, <1>2, <1>5, <1>6, <1>7, <1>10, <1>11
<1>19. \A f \in Fds : Owned(f)'
  BY <1>1, <1>12, <1>18, StillOwned
<1>20. ASSUME NEW f \in Fds PROVE SocketSafe(f)'
  <2>1. SocketSafe(f) /\ SocketSafe(fd)
    BY <1>1 DEF Safe
  <2>2. CASE f = new
    BY <1>1, <1>5, <1>6, <1>19, <2>1, <2>2 DEF SocketSafe, PeersLocal
  <2>3. CASE f = fd
    BY <1>1, <1>4, <1>6, <1>19, <2>1, <2>3 DEF SocketSafe, PeersLocal, q
  <2>4. CASE f # fd /\ f # new
    BY <1>1, <1>6, <1>19, <2>1, <2>4 DEF SocketSafe, PeersLocal
  <2> QED BY <2>2, <2>3, <2>4
<1>21. ASSUME owner = "accept" PROVE TableStep
  <2>1. \A p \in Holders, f \in Fds : Holds(p, f)' <=> Holds(p, f) \/ <<p, f>> = <<"accept", new>>
    <3> SUFFICES ASSUME NEW p \in Holders, NEW f \in Fds
                 PROVE  Holds(p, f)' <=> Holds(p, f) \/ <<p, f>> = <<"accept", new>>
      OBVIOUS
    <3>1. CASE p = "accept"
      BY <1>7, <1>11, <1>21, <3>1 DEF Holds
    <3>2. CASE p # "accept"
      BY <1>1, <3>2 DEF Holds
    <3> QED BY <3>1, <3>2
  <2>2. "accept" \in Holders
    BY DEF Holders
  <2>3. ~InUse(new) /\ InUse(new)' /\ \A f \in Fds : f # new => (InUse(f)' <=> InUse(f))
    BY <1>1, <1>3, <1>5, <1>6, <1>21 DEF InUse
  <2> QED BY <1>3, <2>1, <2>2, <2>3, TableAcquire DEF TableStep
<1>22. ASSUME owner = "nobody" PROVE TableStep
  <2>1. UNCHANGED accepted /\ \A o \in Objects : object'[o].descriptor = object[o].descriptor
    BY <1>1, <1>11, <1>22
  <2>2. \A f \in Fds : InUse(f)' <=> InUse(f)
    BY <1>3, <1>5, <1>6, <1>22 DEF InUse
  <2> QED BY <2>1, <2>2, SameHolders, TableStutter DEF TableStep
<1>23. TableStep
  BY <1>2, <1>21, <1>22
<1> QED BY <1>1, <1>12, <1>15, <1>16, <1>17, <1>20, <1>23, OthersSafe DEF Safe

\* close() of a TCPSocket that accept() returned.
LEMMA CloseAcceptedSafe ==
  ASSUME Safe, NEW socket \in accepted, CloseAccepted(socket)
  PROVE  Safe' /\ TableStep
<1> DEFINE fd == socket.descriptor
<1>1. UNCHANGED <<object, call, copies>> /\ accepted' = accepted \ {socket}
  BY DEF CloseAccepted
<1>2. OthersKept(fd) /\ (fd \in Fds => kernel'[fd] = NoSocket)
  BY CloseFdEffect DEF CloseAccepted, Safe
<1>3. ASSUME copies = 0
      PROVE  /\ fd \in Fds /\ kernel[fd].owner = "accept"
             /\ \A o \in Objects : object[o].descriptor # fd
             /\ \A m \in accepted : m # socket => m.descriptor # fd
  <2>1. AcceptedReady(socket) /\ \A m \in accepted : m # socket => m.descriptor # fd
    BY <1>3 DEF Safe, AcceptedSafe
  <2>2. fd \in Fds /\ kernel[fd].owner = "accept"
    BY <2>1 DEF AcceptedReady
  <2>3. \A o \in Objects : object[o].descriptor # fd
    BY <1>3, <2>2, Constants DEF Safe, ObjectSafe, SocketReady
  <2> QED BY <2>1, <2>2, <2>3
<1> HIDE DEF fd
<1>4. ASSUME NEW o \in Objects PROVE ObjectSafe(o)'
  <2>1. CallInOrder(o)'
    BY <1>1 DEF Safe, ObjectSafe, CallInOrder, ServerInOrder, ClientInOrder
  <2>2. ASSUME copies' = 0 PROVE SocketReady(o)'
    <3>1. SocketReady(o) /\ object[o].descriptor # fd
      BY <1>1, <1>3, <2>2 DEF Safe, ObjectSafe
    <3>2. object[o].descriptor # Invalid => object[o].descriptor \in Fds
      BY DEF Safe, TypeOK, SocketObjects
    <3>3. object[o].descriptor # Invalid => kernel'[object[o].descriptor] = kernel[object[o].descriptor]
      BY <1>2, <3>1, <3>2 DEF OthersKept
    <3> QED BY <1>1, <3>1, <3>3 DEF SocketReady, ServerReady, ClientReady
  <2> QED BY <2>1, <2>2 DEF ObjectSafe
<1>5. AcceptedSafe'
  <2> SUFFICES ASSUME copies' = 0
               PROVE  /\ \A m \in accepted' : AcceptedReady(m)'
                      /\ \A m, n \in accepted' : m.descriptor = n.descriptor => m = n
    BY DEF AcceptedSafe
  <2>1. ASSUME NEW m \in accepted' PROVE AcceptedReady(m)'
    <3>1. AcceptedReady(m) /\ m.descriptor # fd
      BY <1>1, <1>3, <2>1 DEF Safe, AcceptedSafe
    <3> QED BY <1>2, <3>1 DEF OthersKept, AcceptedReady
  <2> QED BY <1>1, <2>1 DEF Safe, AcceptedSafe
<1>6. TypeOK'
  BY <1>1, <1>2 DEF Safe, TypeOK, OthersKept
<1>7. ASSUME NEW f \in Fds PROVE SocketSafe(f)'
  <2>1. SocketSafe(f)
    BY DEF Safe
  <2>2. CASE f = fd
    BY <1>2, <2>2, Records, Constants DEF SocketSafe, Owned, PeersLocal
  <2>3. CASE f # fd
    <3>1. kernel'[f] = kernel[f]
      BY <1>2, <2>3 DEF OthersKept
    <3>2. Owned(f)'
      BY <1>1, <2>1, <2>3, <3>1 DEF SocketSafe, Owned, fd
    <3> QED BY <1>1, <2>1, <3>1, <3>2 DEF SocketSafe, PeersLocal
  <2> QED BY <2>2, <2>3
<1>8. ASSUME copies' = 0 PROVE Table!Next
  <2>1. fd \in Fds /\ \A m \in accepted : m # socket => m.descriptor # fd
    BY <1>1, <1>3, <1>8
  <2>2. \A p \in Holders, f \in Fds : Holds(p, f)' <=> Holds(p, f) /\ <<p, f>> # <<"accept", fd>>
    <3> SUFFICES ASSUME NEW p \in Holders, NEW f \in Fds
                 PROVE  Holds(p, f)' <=> Holds(p, f) /\ <<p, f>> # <<"accept", fd>>
      OBVIOUS
    <3>1. CASE p = "accept"
      BY <1>1, <2>1, <3>1 DEF Holds, fd
    <3>2. CASE p # "accept"
      BY <1>1, <3>2 DEF Holds
    <3> QED BY <3>1, <3>2
  <2>3. "accept" \in Holders /\ Holds("accept", fd)
    BY DEF Holders, Holds, fd
  <2>4. ~InUse(fd)' /\ \A f \in Fds : f # fd => (InUse(f)' <=> InUse(f))
    BY <1>2, <2>1, Records DEF InUse, OthersKept, fd
  <2> QED BY <2>1, <2>2, <2>3, <2>4, TableRelease DEF fd
<1> QED BY <1>4, <1>5, <1>6, <1>7, <1>8 DEF Safe, TableStep

\* After a copy the invariant says only what each object has by itself.
LEMMA AssignSafe ==
  ASSUME Safe, NEW o \in Objects, NEW p \in Objects, o \in Servers <=> p \in Servers, Assign(o, p)
  PROVE  Safe' /\ TableStep
<1>1. /\ call[o].op = "none" /\ call[p].op = "none" /\ object[o].descriptor = Invalid
      /\ object' = [object EXCEPT ![o] = object[p]]
      /\ copies' = copies + 1 /\ copies < MaxCopies /\ UNCHANGED <<accepted, kernel, call>>
  BY DEF Assign
<1>2. object' \in [Objects -> SocketObjects] /\ object'[o] = object[p]
      /\ \A r \in Objects : r # o => object'[r] = object[r]
  BY <1>1 DEF Safe, TypeOK
<1>3. copies' \in 0..MaxCopies /\ copies' # 0
  BY <1>1, ConstantsAssumption DEF ConstantsAssumption, Safe, TypeOK
<1>4. ASSUME NEW r \in Objects PROVE ObjectSafe(r)'
  <2>1. CallInOrder(r) /\ CallInOrder(p) /\ CallInOrder(o)
    BY DEF Safe, ObjectSafe
  <2>2. CASE r = o
    BY <1>1, <1>2, <1>3, <2>1, <2>2, Constants DEF ObjectSafe, CallInOrder, ServerInOrder, ClientInOrder, Objects
  <2>3. CASE r # o
    BY <1>1, <1>2, <1>3, <2>1, <2>3 DEF ObjectSafe, CallInOrder, ServerInOrder, ClientInOrder
  <2> QED BY <2>2, <2>3
<1>5. TypeOK' /\ AcceptedSafe'
  BY <1>1, <1>2, <1>3 DEF Safe, TypeOK, AcceptedSafe
<1>6. ASSUME NEW fd \in Fds PROVE SocketSafe(fd)'
  <2>1. SocketSafe(fd) /\ fd # Invalid
    BY Constants DEF Safe
  <2>2. kernel[fd].owner # o
    BY <1>1, <2>1 DEF SocketSafe, Owned
  <2> QED BY <1>1, <1>2, <1>3, <2>1, <2>2 DEF SocketSafe, Owned
<1> QED BY <1>3, <1>4, <1>5, <1>6 DEF Safe, TableStep

\* No object has a socket before the first call.
LEMMA InitSafe == Init => Safe
<1> SUFFICES ASSUME Init PROVE Safe
  OBVIOUS
<1>1. TypeOK
  BY Records, ConstantsAssumption DEF ConstantsAssumption, Init, TypeOK
<1>2. ASSUME NEW o \in Objects PROVE ObjectSafe(o)
  <2>1. object[o] = NoObject /\ call[o] = NoCall
    BY DEF Init
  <2> QED BY <2>1, Records DEF ObjectSafe, CallInOrder, ServerInOrder, ClientInOrder, SocketReady, InTime
<1>3. AcceptedSafe
  BY DEF Init, AcceptedSafe
<1>4. ASSUME NEW fd \in Fds PROVE SocketSafe(fd)
  <2>1. kernel[fd] = NoSocket
    BY DEF Init
  <2> QED BY <2>1, Records, Constants DEF SocketSafe, Owned, PeersLocal
<1> QED BY <1>1, <1>2, <1>3, <1>4 DEF Safe

\* Every step keeps the invariant and is one of DescriptorTable or none.
LEMMA NextSafe ==
  ASSUME Safe, [Next]_vars
  PROVE  Safe' /\ TableStep
<1>1. ASSUME NEW h \in Servers, ServerStep(h) PROVE Safe' /\ TableStep
  BY <1>1, BindServerSafe, InitialisePortNumberSafe, ListenServerSafe, AbandonServerSafe,
     PollForAcceptSafe, AcceptConnectionSafe, AcceptFailsSafe
     DEF ServerStep
<1>2. ASSUME NEW c \in Clients, ClientStep(c) PROVE Safe' /\ TableStep
  BY <1>2, TryNextAddressSafe, ConnectSafe, ConnectRefusedSafe DEF ClientStep
<1>3. ASSUME NEW pair \in (Servers \X Servers) \cup (Clients \X Clients), Assign(pair[1], pair[2])
      PROVE  Safe' /\ TableStep
  <2>1. /\ pair[1] \in Objects /\ pair[2] \in Objects
        /\ pair[1] \in Servers <=> pair[2] \in Servers
    BY Constants DEF Objects
  <2> QED BY <1>3, <2>1, AssignSafe
<1>4. CASE UNCHANGED vars
  <2>1. UNCHANGED <<object, accepted, kernel, call, copies>>
    BY <1>4 DEF vars
  <2>2. \A o \in Objects : ObjectSafe(o)'
    BY <2>1 DEF Safe, ObjectSafe, CallInOrder, ServerInOrder, ClientInOrder, SocketReady, ServerReady, ClientReady
  <2>3. AcceptedSafe'
    BY <2>1 DEF Safe, AcceptedSafe, AcceptedReady
  <2>4. \A fd \in Fds : SocketSafe(fd)'
    BY <2>1 DEF Safe, SocketSafe, Owned, PeersLocal
  <2>5. TypeOK'
    BY <2>1 DEF Safe, TypeOK
  <2>6. UNCHANGED Table!vars
    BY <2>1, SameHolders, TableStutter DEF InUse
  <2> QED BY <2>2, <2>3, <2>4, <2>5, <2>6 DEF Safe, TableStep
<1>5. \A o \in Objects : Close(o) => Safe' /\ TableStep
  BY CloseSafe
<1>6. \A socket \in accepted : CloseAccepted(socket) => Safe' /\ TableStep
  BY CloseAcceptedSafe
<1>7. ASSUME NEW h \in Servers, NEW name \in Hostnames \cup {NullOpt}, NEW p \in Ports \cup {0},
             NEW version \in Versions, ConstructServer(h, name, p, version)
      PROVE  Safe' /\ TableStep
  BY <1>7, ConstructServerSafe
<1>8. ASSUME NEW c \in Clients, NEW name \in Hostnames, NEW p \in Ports, NEW version \in Versions,
             ConstructClient(c, name, p, version)
      PROVE  Safe' /\ TableStep
  BY <1>8, ConstructClientSafe
<1>9. \A h \in Servers, timeout \in Timeouts : Accept(h, timeout) => Safe' /\ TableStep
  BY AcceptSafe
<1>10. \A c \in Clients, address \in RemoteAddresses :
         ConstructFromAddress(c, address) => Safe' /\ TableStep
  BY ConstructFromAddressSafe
<1> QED BY <1>1, <1>2, <1>3, <1>4, <1>5, <1>6, <1>7, <1>8, <1>9, <1>10, TickSafe DEF Next

\* A call that is in select() is ended by its own thread, when that polls.
LEMMA OwnSteps ==
  ASSUME Safe, [Next]_vars, NEW h \in Servers, call[h].at = "select", call'[h].op = "none"
  PROVE  PollForAccept(h)
<1>1. /\ h \in Objects /\ h \notin Clients /\ call[h].op = "accept"
  BY Constants DEF Objects, Safe, ObjectSafe, CallInOrder, ServerInOrder
<1>2. call'[h] # call[h]
  BY <1>1
<1>3. \A o \in Objects : \A c : Goto(o, c) => o = h
  BY <1>1, <1>2 DEF Safe, TypeOK, Goto
<1>4. \A o \in Objects : Return(o) => o = h
  BY <1>1, <1>2 DEF Safe, TypeOK, Return
<1>5. \A o \in Objects : Throw(o) => o = h
  BY <1>4 DEF Throw
<1>6. ASSUME NEW g \in Servers, ServerStep(g) PROVE g = h /\ PollForAccept(h)
  <2>1. g \in Objects
    BY DEF Objects
  <2>2. g = h
    BY <1>3, <1>4, <1>5, <1>6, <2>1
       DEF ServerStep, BindServer, InitialisePortNumber, ListenServer, AbandonServer,
           PollForAccept, AcceptConnection, AcceptFails
  <2> QED BY <1>6, <2>2
          DEF ServerStep, BindServer, InitialisePortNumber, ListenServer, AbandonServer,
              AcceptConnection, AcceptFails
<1>7. ASSUME NEW g \in Servers, NEW name, NEW p, NEW version PROVE ~ConstructServer(g, name, p, version)
  BY <1>1, <1>3, <1>5 DEF ConstructServer, CanConstruct, OpenSocket, Objects
<1>8. ASSUME NEW g \in Servers, NEW timeout PROVE ~Accept(g, timeout)
  BY <1>1, <1>3 DEF Accept, Objects
<1>9. ASSUME NEW c \in Clients, NEW name, NEW p, NEW version PROVE ~ConstructClient(c, name, p, version)
  BY <1>1, <1>3 DEF ConstructClient, Objects
<1>10. ASSUME NEW c \in Clients, NEW address PROVE ~ConstructFromAddress(c, address)
  BY <1>1, <1>3, <1>5 DEF ConstructFromAddress, OpenSocket, Objects
<1>11. ASSUME NEW c \in Clients PROVE ~ClientStep(c)
  BY <1>1, <1>3, <1>4, <1>5
     DEF ClientStep, TryNextAddress, OpenSocket, Connect, ConnectRefused, Objects
<1>12. ~Tick
  <2>1. ASSUME Tick PROVE call'[h].op = call[h].op
    BY <1>1, <2>1 DEF Tick
  <2> QED BY <1>1, <2>1
<1>13. /\ \A o : ~Close(o)
       /\ \A socket : ~CloseAccepted(socket)
       /\ \A o, p : ~Assign(o, p)
       /\ ~UNCHANGED vars
  BY <1>2 DEF Close, CloseAccepted, Assign, vars
<1> QED BY <1>6, <1>7, <1>8, <1>9, <1>10, <1>11, <1>12, <1>13 DEF Next

\* The invariant holds in every behaviour.
THEOREM SafetyInvariant == Spec => []Safe
<1>1. Safe /\ [Next]_vars => Safe'
  BY NextSafe
<1> QED BY InitSafe, <1>1, PTL DEF Spec

\* The variables keep their types.
THEOREM TypeCorrect == Spec => []TypeOK
<1>1. Safe => TypeOK
  BY DEF Safe
<1> QED BY SafetyInvariant, <1>1, PTL

\* What an object reports is true of the address it is told of.
LEMMA ToldIsReported ==
  ASSUME NEW m, Told(m)
  PROVE  Reports(m, m.serverAddress)
  BY DEF Told, Reports, GetInternetProtocolVersion

\* A server whose constructor returned listens on the address, version and port
\* it reports, those the system chose included, until it is closed.
THEOREM ServersListen == Spec => []ListensAsReported
<1>1. ASSUME Safe, copies = 0, NEW h \in Servers, IsConstructed(h)
      PROVE  /\ kernel[object[h].descriptor].listening
             /\ Reports(object[h], kernel[object[h].descriptor].name)
  <2>1. h \in Objects /\ object[h].descriptor # Invalid /\ call[h].op # "construct"
    BY <1>1 DEF Objects, IsConstructed
  <2>2. ServerInOrder(h) /\ SocketReady(h)
    BY <1>1, <2>1 DEF Safe, ObjectSafe, CallInOrder
  <2>3. ServerReady(h, kernel[object[h].descriptor]) /\ Told(object[h])
    BY <1>1, <2>1, <2>2 DEF SocketReady, ServerInOrder
  <2>4. call[h].at \notin {"bind", "getsockname", "close"}
    BY <2>1, <2>2 DEF ServerInOrder
  <2> QED BY <2>1, <2>3, <2>4, ToldIsReported DEF ServerReady
<1>2. Safe => ListensAsReported
  BY <1>1 DEF ListensAsReported
<1> QED BY SafetyInvariant, <1>2, PTL

\* A TCPSocket, however it was made, stays connected to the address, version and
\* port it reports, one that its hostname resolves to.
THEOREM ClientsConnected == Spec => []ConnectedAsReported
<1>1. ASSUME Safe, copies = 0, NEW c \in Clients, IsConstructed(c)
      PROVE  /\ kernel[object[c].descriptor].peer = object[c].serverAddress
             /\ Told(object[c]) /\ Found(object[c])
  <2>1. /\ c \in Objects /\ object[c].descriptor # Invalid
        /\ call[c].op # "construct" /\ call[c].op # "address"
    BY <1>1 DEF Objects, IsConstructed
  <2>2. ClientInOrder(c) /\ SocketReady(c)
    BY <1>1, <2>1 DEF Safe, ObjectSafe, CallInOrder
  <2>3. call[c].op \in {"none", "construct", "address", "accept"}
    BY <1>1, <2>1 DEF Safe, TypeOK, Calls
  <2>4. call[c].at = "none"
    BY <2>1, <2>2, <2>3 DEF ClientInOrder
  <2> QED BY <1>1, <2>1, <2>2, <2>4 DEF ClientInOrder, SocketReady, ClientReady
<1>2. ASSUME Safe, copies = 0, NEW m \in accepted
      PROVE  kernel[m.descriptor].peer = m.serverAddress /\ Told(m) /\ Found(m)
  BY <1>2 DEF Safe, AcceptedSafe, AcceptedReady
<1>3. ASSUME NEW m, NEW peer, peer = m.serverAddress, Told(m), Found(m)
      PROVE  Reports(m, peer) /\ ResolvesTo(m.hostname, m.protocolVersion, peer.host)
  BY <1>3, ToldIsReported DEF Found
<1>4. ASSUME Safe, copies = 0,
             NEW m \in {object[c] : c \in {d \in Clients : IsConstructed(d)}} \cup accepted
      PROVE  /\ Reports(m, kernel[m.descriptor].peer)
             /\ ResolvesTo(m.hostname, m.protocolVersion, kernel[m.descriptor].peer.host)
  BY <1>1, <1>2, <1>3, <1>4
<1>5. Safe => ConnectedAsReported
  BY <1>4 DEF ConnectedAsReported
<1> QED BY SafetyInvariant, <1>5, PTL

\* Whatever fails, but for connect() in the constructor from a SocketAddress,
\* setsockopt() in the server's and the host name of a peer in accept(), and
\* whatever is copied, a descriptor that is open is that of an object.
THEOREM NoDescriptorLeak == Spec => []NoOtherLeak
<1>1. ASSUME Safe, NEW fd \in Fds, IsOpen(fd)
      PROVE  \/ \E members \in Range(object) \cup accepted : members.descriptor = fd
             \/ kernel[fd].owner = "nobody"
  <2>1. Owned(fd) /\ kernel[fd].owner \in Objects \cup {"accept", "nobody"}
    BY <1>1 DEF Safe, SocketSafe, IsOpen, TypeOK, KernelSockets
  <2>2. \A o \in Objects : object[o] \in Range(object)
    BY <1>1 DEF Safe, TypeOK, Range
  <2> QED BY <2>1, <2>2 DEF Owned
<1>2. Safe => NoOtherLeak
  BY <1>1 DEF NoOtherLeak
<1> QED BY SafetyInvariant, <1>2, PTL

\* Without copies, the connection that the select() of a timed accept() saw is
\* there when its ::accept() is called.
THEOREM TimedAcceptNeverBlocks == Spec => []TimedAcceptDoesNotBlock
<1>1. ASSUME Safe, copies = 0, NEW h \in Servers, WaitsPastTimeout(h)
      PROVE  FALSE
  <2>1. h \in Objects /\ object[h].descriptor # Invalid
    BY <1>1, Constants DEF Objects, WaitsPastTimeout, IsOpen
  <2>2. ServerReady(h, kernel[object[h].descriptor])
    BY <1>1, <2>1 DEF Safe, ObjectSafe, SocketReady
  <2> QED BY <1>1, <2>2 DEF ServerReady, WaitsPastTimeout
<1>2. Safe => TimedAcceptDoesNotBlock
  BY <1>1 DEF TimedAcceptDoesNotBlock
<1> QED BY SafetyInvariant, <1>2, PTL

\* accept() throws a TimeoutException no sooner than its timeout, and less than a
\* tick after it, on a copy as well: the seconds and the rest that select() is
\* given are together the timeout, whatever that is.
THEOREM TimeoutWaited == Spec => TimeoutIsWaited
<1>1. ASSUME Safe, [Next]_vars, NEW h \in Servers, Returns(h), call[h].at = "select",
             IsOpen(object[h].descriptor)
      PROVE  /\ call[h].elapsed >= call[h].timeout
             /\ call[h].elapsed < call[h].timeout + ClockTick
  <2>1. PollForAccept(h)
    BY <1>1, OwnSteps DEF Returns
  <2>2. h \in Objects
    BY DEF Objects
  <2>3. ~Goto(h, [call[h] EXCEPT !.at = "accept", !.elapsed = 0])
    <3> DEFINE next == [call[h] EXCEPT !.at = "accept", !.elapsed = 0]
    <3>1. call \in [Objects -> Calls]
      BY <1>1 DEF Safe, TypeOK
    <3>2. next.op = call[h].op
      BY <2>2, <3>1 DEF Calls
    <3> HIDE DEF next
    <3>3. Goto(h, next) => call'[h] = next
      BY <2>2, <3>1 DEF Goto
    <3> QED BY <1>1, <3>2, <3>3 DEF Returns, next
  <2>4. \E res \in Select(h) : res < 1
    BY <2>1, <2>3 DEF PollForAccept
  <2>5. TimedOut(call[h])
    BY <1>1, <2>4 DEF Select
  <2>6. call[h].timeout \in Nat /\ InTime(call[h])
    BY <1>1, <2>2 DEF Safe, TypeOK, Calls, ObjectSafe, CallInOrder, ServerInOrder
  <2> QED BY <1>1, <2>5, <2>6, SecondsAndRest DEF TimedOut, InTime
<1>2. Safe /\ [Next]_vars =>
        [\A h \in Servers :
           Returns(h) /\ call[h].at = "select" /\ IsOpen(object[h].descriptor)
             => /\ call[h].elapsed >= call[h].timeout
                /\ call[h].elapsed < call[h].timeout + ClockTick]_vars
  BY <1>1
<1> QED BY SafetyInvariant, <1>2, PTL DEF Spec, TimeoutIsWaited

\* Servers, clients and what accept() returned use descriptors as
\* DescriptorTable says: the first states are its first states, and every step is
\* one of its or none.
THEOREM DescriptorsAsInTable == Spec => ImplementsDescriptorTable
<1>1. ASSUME Init PROVE Table!Init
  <2>1. \A fd \in Fds : kernel[fd].owner = "closed" /\ fd # Invalid
    BY <1>1, Records, Constants DEF Init
  <2>2. \A o \in Holders, fd \in Fds : ~Holds(o, fd)
    BY <1>1, <2>1, Records DEF Init, Holders, Holds
  <2> QED BY <2>1, <2>2 DEF Table!Init
<1>2. Safe /\ [Next]_vars => [copies' = 0 => Table!Next]_(Table!vars)
  BY NextSafe DEF TableStep
<1> QED BY SafetyInvariant, <1>1, <1>2, PTL DEF Spec, ImplementsDescriptorTable
=============================================================================

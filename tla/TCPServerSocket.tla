--------------------------- MODULE TCPServerSocket --------------------------
(***************************************************************************)
(* kt::TCPServerSocket and the way kt::TCPSocket comes to be: constructors *)
(* that bind, listen and connect, accept() with and without a timeout,     *)
(* close(), and copies, over one process's descriptor table.  Each system  *)
(* call is a step.  What is then sent over a connection is                 *)
(* ConnectionOrientedSocket.                                               *)
(*                                                                         *)
(* A descriptor number that is closed is free to be given out again, so    *)
(* every open socket carries, as history, the object it was made for, and  *)
(* an object the one whose socket it stands for.                           *)
(***************************************************************************)
EXTENDS SocketAddress, SequencesExt, FiniteSets

CONSTANTS
  Servers,        \* the TCPServerSocket objects, each with its thread
  Clients,        \* the TCPSocket objects that connect, each with its thread
  Fds,            \* the descriptor numbers the process has left
  Ports,          \* the ports of the host that servers may have
  EphemeralPort,  \* the port the system gives the other sockets
  Timeouts,       \* the timeouts accept() is given, in microseconds, 0 for none
  ClockTick,      \* bound: the microseconds between two times that are told apart
  Backlog,        \* connectionBacklogSize
  MaxCopies       \* bound: the assignments of one object to another

ASSUME ConstantsAssumption ==
  /\ -1 \notin Fds
  /\ Ports \cup {EphemeralPort} \subseteq PortNumbers \ {0}
  /\ EphemeralPort \notin Ports
  /\ Timeouts \subseteq Nat
  /\ ClockTick \in Nat \ {0}
  /\ Backlog \in Nat /\ MaxCopies \in Nat
  /\ Servers \cap Clients = {}
  /\ (Servers \cup Clients) \cap {"closed", "accept", "nobody"} = {}

\* A name resolves to a host of some version or does not.
ResolvesTo(name, version, host) ==
  \E i \in DOMAIN GetAddrInfo(name, version) : GetAddrInfo(name, version)[i].host = host

\* getaddrinfo() gives for one version what it gives of it for any, and for the
\* text of an address that address, as it does for the local ones.
ASSUME AddressesAssumption ==
  /\ \A name \in Names, version \in Versions :
       \A i \in DOMAIN GetAddrInfo(name, version) :
         LET address == GetAddrInfo(name, version)[i]
         IN  /\ ResolvesTo(name, address.family, address.host)
             /\ ResolvesTo(address.host, address.family, address.host)
  /\ \A version \in {IPV4, IPV6} :
       LET host == GetLocalAddress(version)
       IN  host \in Hosts /\ ResolvesTo(host, version, host)

Objects == Servers \cup Clients

VARIABLES
  object,    \* the members of each object
  accepted,  \* those of the TCPSockets that accept() returned
  kernel,    \* the socket behind each descriptor
  call,      \* the call each thread is in
  copies     \* history: how often an object has been assigned to another

vars == <<object, accepted, kernel, call, copies>>

Invalid == -1   \* getInvalidSocketValue()

\* own (history) is the object whose socket this one stands for.  What a
\* constructor that throws leaves is no object.
NoObject == [descriptor |-> Invalid, hostname |-> "", port |-> 0, protocolVersion |-> AnyVersion,
             serverAddress |-> ZeroAddress, own |-> "nobody"]

\* owner (history) is the object the socket was made for, "accept" for a TCPSocket
\* that accept() returned, "nobody" once the constructor or the accept() that made
\* it has thrown and left it open.  name has no port until the socket has an address, peer none until it is
\* connected; waiting are the peers of the connections in the backlog.
NoSocket == [owner |-> "closed", name |-> ZeroAddress, peer |-> ZeroAddress,
             listening |-> FALSE, waiting |-> << >>]
NewSocket(o, family) ==
  [NoSocket EXCEPT !.owner = o, !.name = [ZeroAddress EXCEPT !.family = family]]
IsOpen(fd) == fd \in Fds /\ kernel[fd].owner # "closed"
FreeFds == {fd \in Fds : kernel[fd].owner = "closed"}
HasName(fd) == kernel[fd].name.port # 0
IsConnected(fd) == kernel[fd].peer # ZeroAddress
Listeners(address) == {fd \in Fds : kernel[fd].listening /\ kernel[fd].name = address}

\* The name of a socket that needs one by now.
NameOf(fd) ==
  LET name == kernel[fd].name
  IN  IF HasName(fd) THEN name
      ELSE WithPort([name EXCEPT !.host = GetLocalAddress(name.family)], EphemeralPort)

\* at is the system call the thread is at, addresses those left to connect to.
NoCall == [op |-> "none", at |-> "none", addresses |-> << >>, timeout |-> 0, elapsed |-> 0]

Goto(o, c) == call' = [call EXCEPT ![o] = c]

\* The call ends, with a result or an exception.
Return(o) == call' = [call EXCEPT ![o] = NoCall]

\* A constructor throws: there is no object.
Throw(o) == object' = [object EXCEPT ![o] = NoObject] /\ Return(o)

CloseFd(fd) == kernel' = [f \in Fds |-> IF f = fd THEN NoSocket ELSE kernel[f]]

\* What the close() of TCPServerSocket and of TCPSocket closes, and what it leaves.
\* The other members of a closed object are its old ones; as only its getters read
\* them, those of an object are kept only while it is being constructed.
ResetBefore(o) == Invalid   \* mutant: the member is reset first
ToClose(o) == object[o].descriptor
StillOpen(o) == object[o]   \* mutant: the member is not reset
Closed(o) ==
  IF call[o].op = "none" THEN NoObject
  ELSE [object[o] EXCEPT !.descriptor = Invalid, !.own = "nobody"]

\* ::socket(), which knows two families; no object is constructed over another.
OpenSocket(o, members, family, next) ==
  /\ family # AnyVersion
  /\ \E fd \in FreeFds :
       /\ kernel' = [kernel EXCEPT ![fd] = NewSocket(o, family)]
       /\ object' = [object EXCEPT ![o] = [members EXCEPT !.descriptor = fd, !.own = o]]
       /\ Goto(o, next)

CannotOpen(family) == family = AnyVersion \/ FreeFds = {}

CanConstruct(o) == call[o].op = "none" /\ object[o].descriptor = Invalid

-----------------------------------------------------------------------------
(* TCPServerSocket::constructSocket().                                     *)

ConstructServer(h, localHostname, port, version) ==
  LET addresses == ResolveLocal(localHostname, port, version)
      first == addresses[1]
      members == [NoObject EXCEPT !.port = port, !.protocolVersion = first.family,
                                  !.serverAddress = first]
  IN  /\ CanConstruct(h)
      /\ \/ /\ addresses # << >>
            /\ OpenSocket(h, members, first.family, [NoCall EXCEPT !.op = "construct", !.at = "bind"])
         \* setsockopt() fails: no close()
         \/ /\ addresses # << >> /\ ~CannotOpen(first.family)
            /\ \E fd \in FreeFds : kernel' = [kernel EXCEPT ![fd] = NewSocket("nobody", first.family)]
            /\ Throw(h)
         \/ /\ addresses # << >> => CannotOpen(first.family)
            /\ Throw(h)
            /\ UNCHANGED kernel
      /\ UNCHANGED <<accepted, copies>>

\* What ::bind() may make of the name of a descriptor; it fails on none.  With
\* SO_REUSEADDR only a listening socket keeps others from binding its address,
\* but the system chooses a port that no socket has.
BindableNames(fd, address) ==
  IF ~IsOpen(fd) \/ HasName(fd) \/ kernel[fd].name.family # address.family THEN {}
  ELSE IF address.port = 0
       THEN {a \in {WithPort(address, p) : p \in Ports} :
               \A f \in Fds : kernel[f].name # a}
       ELSE {a \in {address} : Listeners(a) = {}}

BindServer(h) ==
  LET fd == object[h].descriptor
      names == BindableNames(fd, object[h].serverAddress)
  IN  /\ call[h].at = "bind"
      /\ \/ \E name \in names :
              /\ kernel' = [kernel EXCEPT ![fd].name = name]
              /\ Goto(h, [call[h] EXCEPT !.at = IF object[h].port = 0 THEN "getsockname" ELSE "listen"])
         \/ names = {} /\ Goto(h, [call[h] EXCEPT !.at = "close"]) /\ UNCHANGED kernel
      /\ UNCHANGED <<object, accepted, copies>>

\* The port of the socket, as the object's own and in its serverAddress.
BoundAsAsked(members, name) == members   \* mutant: neither is done
Bound(members, name) ==
  [members EXCEPT !.port = GetPortNumber(name), !.serverAddress = WithPort(@, GetPortNumber(name))]

\* initialisePortNumber(), for port 0: getsockname() gives the name the descriptor
\* has by now, or fails on one that a copy has closed.
InitialisePortNumber(h) ==
  LET fd == object[h].descriptor
  IN  /\ call[h].at = "getsockname"
      /\ \/ /\ IsOpen(fd)
            /\ object' = [object EXCEPT ![h] = Bound(@, kernel[fd].name)]
            /\ Goto(h, [call[h] EXCEPT !.at = "listen"])
         \/ ~IsOpen(fd) /\ Goto(h, [call[h] EXCEPT !.at = "close"]) /\ UNCHANGED object
      /\ UNCHANGED <<accepted, kernel, copies>>

\* ::listen() fails when a socket bound at the same time listens already.
CanListen(fd) == IsOpen(fd) /\ ~IsConnected(fd) /\ Listeners(NameOf(fd)) \subseteq {fd}

ListenServer(h) ==
  LET fd == object[h].descriptor
  IN  /\ call[h].at = "listen"
      /\ \/ /\ CanListen(fd)
            /\ kernel' = [kernel EXCEPT ![fd].listening = TRUE, ![fd].name = NameOf(fd)]
            /\ Return(h)
         \/ ~CanListen(fd) /\ Goto(h, [call[h] EXCEPT !.at = "close"]) /\ UNCHANGED kernel
      /\ UNCHANGED <<object, accepted, copies>>

\* A constructor that failed in one of the three: close(), whose number may be
\* another's by now, and an exception.
AbandonServer(h) ==
  /\ call[h].at = "close"
  /\ CloseFd(ToClose(h))
  /\ Throw(h)
  /\ UNCHANGED <<accepted, copies>>

-----------------------------------------------------------------------------
(* accept().                                                               *)

AcceptFirst(timeout) == "accept"   \* mutant: the timeout is not used to poll
FirstAt(timeout) == IF timeout > 0 THEN "select" ELSE "accept"

Accept(h, timeout) ==
  /\ call[h].op = "none"
  /\ Goto(h, [NoCall EXCEPT !.op = "accept", !.at = FirstAt(timeout), !.timeout = timeout])
  /\ UNCHANGED <<object, accepted, kernel, copies>>

\* What pollSocket() makes of microseconds, ...
WholeSeconds(timeout) ==   \* mutant: the rest is lost
  [tv_sec |-> timeout \div 1000000, tv_usec |-> 0]
Timeval(timeout) == [tv_sec |-> timeout \div 1000000, tv_usec |-> timeout % 1000000]

\* ... and how long select() waits for it.
Duration(timeval) == timeval.tv_sec * 1000000 + timeval.tv_usec
TimedOut(c) == c.elapsed >= Duration(Timeval(c.timeout))

\* select() on the socket: readable when a connection waits; a socket that
\* does not listen may be readable or not.
Select(h) ==
  LET fd == object[h].descriptor
      zero == IF TimedOut(call[h]) THEN {0} ELSE {}
  IN  IF ~IsOpen(fd) THEN {-1}
      ELSE IF ~kernel[fd].listening THEN {1} \cup zero
      ELSE IF kernel[fd].waiting = << >> THEN zero ELSE {1}

PollForAccept(h) ==
  /\ call[h].at = "select"
  /\ \E res \in Select(h) :
       \/ res = 1 /\ Goto(h, [call[h] EXCEPT !.at = "accept", !.elapsed = 0])
       \/ res < 1 /\ Return(h)
  /\ UNCHANGED <<object, accepted, kernel, copies>>

Tick ==
  LET waiting == {h \in Servers : call[h].at = "select" /\ ~TimedOut(call[h])}
  IN  /\ waiting # {}
      /\ call' = [o \in Objects |->
                    IF o \in waiting THEN [call[o] EXCEPT !.elapsed = @ + ClockTick] ELSE call[o]]
      /\ UNCHANGED <<object, accepted, kernel, copies>>

\* The TCPSocket of a connection.
AcceptedSocket(h, fd, peer) ==
  [NoObject EXCEPT !.descriptor = fd, !.hostname = GetAddress(peer), !.port = GetPortNumber(peer),
     !.protocolVersion = object[h].protocolVersion, !.serverAddress = peer, !.own = "accept"]

\* ::accept() blocks until a connection waits.  Of one that was reset meanwhile
\* some systems report no address.
Reported(peer) == {peer, ZeroAddress}

AcceptConnection(h) ==
  LET fd == object[h].descriptor
      peer == Head(kernel[fd].waiting)
      Accepts(new, owner) ==
        kernel' = [kernel EXCEPT
          ![fd].waiting = Tail(@),
          ![new] = [NoSocket EXCEPT !.owner = owner, !.name = kernel[fd].name, !.peer = peer]]
  IN  /\ call[h].at = "accept"
      /\ IsOpen(fd) /\ kernel[fd].listening /\ kernel[fd].waiting # << >>
      /\ \E new \in FreeFds, address \in Reported(peer) :
           \/ /\ GetAddress(address) # NullOpt
              /\ Accepts(new, "accept")
              /\ accepted' = accepted \cup {AcceptedSocket(h, new, address)}
           \* no host name: an exception, and no close()
           \/ /\ GetAddress(address) = NullOpt
              /\ Accepts(new, "nobody")
              /\ UNCHANGED accepted
      /\ Return(h)
      /\ UNCHANGED <<object, copies>>

AcceptFails(h) ==
  LET fd == object[h].descriptor
  IN  /\ call[h].at = "accept"
      /\ IsOpen(fd) /\ kernel[fd].listening => FreeFds = {}
      /\ Return(h)
      /\ UNCHANGED <<object, accepted, kernel, copies>>

-----------------------------------------------------------------------------
(* The constructors of TCPSocket.                                          *)

\* By hostname: constructSocket() goes through the resolved addresses.
ConstructClient(c, hostname, port, version) ==
  /\ CanConstruct(c)
  /\ object' = [object EXCEPT ![c] = [NoObject EXCEPT !.hostname = hostname, !.port = port,
                                        !.protocolVersion = version]]
  /\ Goto(c, [NoCall EXCEPT !.op = "construct", !.at = "socket",
                !.addresses = ResolveToAddresses(hostname, port, CreateHints(version))])
  /\ UNCHANGED <<accepted, kernel, copies>>

NextAddress(c) == [call[c] EXCEPT !.at = "socket", !.addresses = Tail(@)]

TryNextAddress(c) ==
  LET addresses == call[c].addresses
      family == Head(addresses).family
  IN  /\ call[c].at = "socket"
      /\ \/ addresses = << >> /\ Throw(c) /\ UNCHANGED kernel
         \/ /\ addresses # << >>
            /\ \/ OpenSocket(c, object[c], family, [call[c] EXCEPT !.at = "connect"])
               \/ CannotOpen(family) /\ Goto(c, NextAddress(c)) /\ UNCHANGED <<object, kernel>>
      /\ UNCHANGED <<accepted, copies>>

\* By SocketAddress: one address, and no close() when it is refused.
ConstructFromAddress(c, address) ==
  LET hostname == IF GetAddress(address) = NullOpt THEN "" ELSE GetAddress(address)
      members == [NoObject EXCEPT !.hostname = hostname, !.port = GetPortNumber(address),
                                  !.protocolVersion = GetInternetProtocolVersion(address)]
  IN  /\ CanConstruct(c)
      /\ \/ OpenSocket(c, members, address.family,
              [NoCall EXCEPT !.op = "address", !.at = "connect", !.addresses = <<address>>])
         \/ CannotOpen(address.family) /\ Throw(c) /\ UNCHANGED kernel
      /\ UNCHANGED <<accepted, copies>>

\* What connect() needs of the descriptor.
Connectable(c) ==
  LET fd == object[c].descriptor
  IN  /\ IsOpen(fd) /\ ~IsConnected(fd) /\ ~kernel[fd].listening
      /\ kernel[fd].name.family = Head(call[c].addresses).family

ConnectedAsAsked(members, address) == [members EXCEPT !.serverAddress = address]   \* mutant
Connected(members, address) ==
  [members EXCEPT !.serverAddress = address, !.protocolVersion = address.family]

\* ::connect(): the connection joins the listener's backlog, waiting while
\* that is full.
Connect(c) ==
  LET fd == object[c].descriptor
      address == Head(call[c].addresses)
  IN  /\ call[c].at = "connect"
      /\ Connectable(c)
      /\ \E listener \in Listeners(address) :
           /\ Len(kernel[listener].waiting) < Backlog
           /\ kernel' = [kernel EXCEPT
                ![listener].waiting = Append(@, NameOf(fd)),
                ![fd].name = NameOf(fd), ![fd].peer = address]
      /\ object' = [object EXCEPT ![c] = Connected(@, address)]
      /\ Return(c)
      /\ UNCHANGED <<accepted, copies>>

ConnectRefused(c) ==
  LET fd == object[c].descriptor
  IN  /\ call[c].at = "connect"
      /\ Connectable(c) => Listeners(Head(call[c].addresses)) = {}
      /\ \/ /\ call[c].op = "construct"
            /\ CloseFd(ToClose(c))
            /\ object' = [object EXCEPT ![c] = Closed(c)]
            /\ Goto(c, NextAddress(c))
         \/ /\ call[c].op = "address"
            /\ kernel' = [f \in Fds |-> IF f = fd /\ kernel[f].owner = c
                                       THEN [kernel[f] EXCEPT !.owner = "nobody"] ELSE kernel[f]]
            /\ Throw(c)
      /\ UNCHANGED <<accepted, copies>>

-----------------------------------------------------------------------------
(* close() and copies.                                                     *)

Close(o) ==
  /\ call[o].op = "none"
  /\ CloseFd(ToClose(o))
  /\ object' = [object EXCEPT ![o] = Closed(o)]
  /\ UNCHANGED <<accepted, call, copies>>

CloseAccepted(socket) ==
  /\ CloseFd(socket.descriptor)
  /\ accepted' = accepted \ {socket}
  /\ UNCHANGED <<object, call, copies>>

\* Copy constructor and operator=, onto an object that has no socket.
Assign(o, p) ==
  /\ o # p /\ call[o].op = "none" /\ call[p].op = "none" /\ object[o].descriptor = Invalid
  /\ object' = [object EXCEPT ![o] = object[p]]
  /\ copies < MaxCopies
  /\ copies' = copies + 1
  /\ UNCHANGED <<accepted, kernel, call>>

-----------------------------------------------------------------------------
ServerStep(h) ==
  \/ BindServer(h) \/ InitialisePortNumber(h) \/ ListenServer(h) \/ AbandonServer(h)
  \/ PollForAccept(h) \/ AcceptConnection(h) \/ AcceptFails(h)

ClientStep(c) == TryNextAddress(c) \/ Connect(c) \/ ConnectRefused(c)

\* The addresses a caller may have: those names resolve to.
RemoteAddresses ==
  {ZeroAddress} \cup
  UNION {ToSet(ResolveToAddresses(name, p, CreateHints(AnyVersion))) : name \in Hostnames, p \in Ports}

Init ==
  /\ object = [o \in Objects |-> NoObject]
  /\ accepted = {}
  /\ kernel = [fd \in Fds |-> NoSocket]
  /\ call = [o \in Objects |-> NoCall]
  /\ copies = 0

Next ==
  \/ \E h \in Servers :
       \/ \E name \in Hostnames \cup {NullOpt}, p \in Ports \cup {0}, version \in Versions :
            ConstructServer(h, name, p, version)
       \/ \E timeout \in Timeouts : Accept(h, timeout)
       \/ ServerStep(h)
  \/ \E c \in Clients :
       \/ \E name \in Hostnames, p \in Ports, version \in Versions :
            ConstructClient(c, name, p, version)
       \/ \E address \in RemoteAddresses : ConstructFromAddress(c, address)
       \/ ClientStep(c)
  \/ \E o \in Objects : Close(o)
  \/ \E socket \in accepted : CloseAccepted(socket)
  \/ \E pair \in (Servers \X Servers) \cup (Clients \X Clients) : Assign(pair[1], pair[2])
  \/ Tick

Spec == Init /\ [][Next]_vars
-----------------------------------------------------------------------------
(* Properties.                                                             *)

\* Sockets and objects have ports that somebody asked for or that the system gave.
KnownPorts == Ports \cup {0, EphemeralPort}
Addresses == {a \in SocketAddresses : GetPortNumber(a) \in KnownPorts}

SocketObjects ==
  [descriptor: Fds \cup {Invalid}, hostname: Hostnames \cup Hosts \cup {"", NullOpt},
   port: KnownPorts, protocolVersion: Versions, serverAddress: Addresses,
   own: Objects \cup {"accept", "nobody"}]

KernelSockets ==
  [owner: Objects \cup {"closed", "accept", "nobody"}, name: Addresses,
   peer: Addresses, listening: BOOLEAN, waiting: Seq(Addresses)]

Calls ==
  [op: {"none", "construct", "address", "accept"},
   at: {"none", "socket", "bind", "getsockname", "listen", "close", "select", "accept", "connect"},
   addresses: Seq(Addresses), timeout: Nat, elapsed: Nat]

TypeOK ==
  /\ object \in [Objects -> SocketObjects]
  /\ accepted \subseteq SocketObjects
  /\ kernel \in [Fds -> KernelSockets]
  /\ call \in [Objects -> Calls]
  /\ copies \in 0..MaxCopies

IsConstructed(o) == object[o].descriptor # Invalid /\ call[o].op \notin {"construct", "address"}

\* The version, port and address that an object reports are those of an address.
Reports(members, address) ==
  /\ members.serverAddress = address
  /\ members.protocolVersion = GetInternetProtocolVersion(address)
  /\ members.port = GetPortNumber(address)

\* Without copies, a server whose constructor returned listens on the address,
\* version and port it reports, those the system chose included, until it is
\* closed: no other object's close() or constructor comes in between.
ListensAsReported ==
  copies = 0 => \A h \in Servers :
    IsConstructed(h) => LET socket == kernel[object[h].descriptor]
                        IN  socket.listening /\ Reports(object[h], socket.name)

\* Without copies, a TCPSocket, made by any of its constructors or by accept(),
\* stays connected to the address, version and port it reports, which is one that
\* its hostname resolves to.
ConnectedAsReported ==
  copies = 0 => \A members \in {object[c] : c \in {d \in Clients : IsConstructed(d)}} \cup accepted :
    LET peer == kernel[members.descriptor].peer
    IN  /\ Reports(members, peer)
        /\ ResolvesTo(members.hostname, members.protocolVersion, peer.host)

\* Three exits leave a descriptor open that no object has: of the constructor of
\* TCPSocket from a SocketAddress when connect() fails, of the server's constructor
\* when setsockopt() fails, and of accept() when the peer has no host name.  No
\* other failure of a constructor, of accept() or of a copy's close() leaks one.
NoOtherLeak ==
  \A fd \in Fds :
    IsOpen(fd) => \/ \E members \in Range(object) \cup accepted : members.descriptor = fd
                  \/ kernel[fd].owner = "nobody"

Holders == Objects \cup {"accept"}
Holds(o, fd) ==
  IF o = "accept" THEN \E socket \in accepted : socket.descriptor = fd
  ELSE object[o].descriptor = fd

Table == INSTANCE DescriptorTable WITH
  Owners <- Holders,
  open <- {fd \in Fds : kernel[fd].owner \notin {"closed", "nobody"}},
  handles <- {h \in Holders \X Fds : Holds(h[1], h[2])}

\* Without copies, descriptors are used as DescriptorTable says: each is held by
\* the object it was made for, until that object closes it, although numbers are
\* given out again after a close(), a constructor that threw or another thread's
\* accept().  A socket that a call leaves open when it throws counts as given back.
ImplementsDescriptorTable ==
  Table!Init /\ [][copies' = 0 => Table!Next]_(Table!vars)

Returns(o) == call[o].op # "none" /\ call'[o].op = "none"

\* accept() waits for its timeout, to the microsecond, before it throws a
\* TimeoutException, and no longer than the clock's tick above it: the seconds and
\* the rest that it is split into for select() are together what the caller gave.
TimeoutIsWaited ==
  [][\A h \in Servers :
       Returns(h) /\ call[h].at = "select" /\ IsOpen(object[h].descriptor)
         => /\ call[h].elapsed >= call[h].timeout
            /\ call[h].elapsed < call[h].timeout + ClockTick]_vars

\* A thread whose accept() was given a timeout and has been through its
\* select() waits in ::accept() for a connection, for as long as it takes.
WaitsPastTimeout(h) ==
  LET fd == object[h].descriptor
  IN  /\ call[h].at = "accept" /\ call[h].timeout > 0
      /\ IsOpen(fd) /\ kernel[fd].listening /\ kernel[fd].waiting = << >> /\ FreeFds # {}

\* accept() with a timeout never blocks in its ::accept(): as long as no object
\* was copied, the connection its select() saw is still there.
TimedAcceptDoesNotBlock == copies = 0 => \A h \in Servers : ~WaitsPastTimeout(h)

\* accept() with a timeout throws a TimeoutException when "no applicable
\* connections could be accepted during the time period", on a copy as well:
\* it does not wait on for a connection that another thread has taken.
AcceptTimesOut == accepted # {} => \A h \in Servers : ~WaitsPastTimeout(h)

\* close() closes the object's own connection; "if no connection is open, then
\* it will do nothing" to the sockets of other objects.
ClosesOnlyItsOwn ==
  [][\A o \in Objects :
       call[o].op = "none" /\ object[o].descriptor # Invalid /\ object'[o].descriptor = Invalid
         => \A fd \in Fds : kernel'[fd] # kernel[fd] => kernel[fd].owner = object[o].own]_vars
=============================================================================

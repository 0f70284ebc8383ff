----------------------------- MODULE UDPSocket ------------------------------
(***************************************************************************)
(* kt::UDPSocket: objects of one process, each used by one thread, over    *)
(* the process's descriptor table.  bind(), sendTo() and receiveFrom() are *)
(* made of several system calls; each is a step here, so the calls of      *)
(* other threads come in between.  A descriptor number that is closed is   *)
(* free to be given to any later socket().                                 *)
(*                                                                         *)
(* The network may lose and reorder datagrams.  A datagram is the address  *)
(* it was sent to and its length.                                          *)
(***************************************************************************)
EXTENDS SocketAddress, SequencesExt, FiniteSets

CONSTANTS
  Sockets,         \* the UDPSocket objects
  Fds,             \* the descriptor numbers the process has left
  Ports,           \* the ports of the host
  Lengths,         \* the lengths of the messages sent
  ReceiveLengths,  \* the lengths receiveFrom() is asked for
  MaxQueue         \* bound: the datagrams one receive buffer holds

ASSUME ConstantsAssumption ==
  /\ -1 \notin Fds
  /\ Ports \subseteq PortNumbers \ {0}
  /\ Lengths \cup ReceiveLengths \subseteq Nat
  /\ MaxQueue \in Nat
  /\ "temporary" \notin Sockets

VARIABLES
  bound, receiveSocket, protocolVersion, listeningPort,  \* the members of each object
  kernel,   \* the socket behind each descriptor
  call,     \* the call each object's thread is in
  result,   \* what a call returned, if the last step ended one that is not ready()
  sawReady, \* history: the object's last call was a ready() that said yes
  copied,   \* history: an object has been assigned to another
  replaced  \* history: an object was bound or assigned before it was closed

objects == <<bound, receiveSocket, protocolVersion, listeningPort>>
history == <<copied, replaced>>
vars == <<objects, kernel, call, result, sawReady, history>>

Invalid == -1   \* getInvalidSocketValue()
NoPort == 0     \* std::nullopt, or the 0 of a socket without a port; for bind(), "any port"

\* name is what getsockname() gives: without a port until the socket is bound.
NoSocket == [open |-> FALSE, name |-> ZeroAddress, queue |-> << >>]
FreeFds == {fd \in Fds : ~kernel[fd].open}
IsOpen(fd) == fd \in Fds /\ kernel[fd].open
IsBound(fd) == IsOpen(fd) /\ kernel[fd].name.port # 0

\* ::socket(), which knows two families: the descriptors it may return.
SocketFds(family) == IF family \in {IPV4, IPV6} THEN FreeFds ELSE {}
NewSocket(family) ==
  [NoSocket EXCEPT !.open = TRUE, !.name = [ZeroAddress EXCEPT !.family = family]]

\* ::close() frees the number, whoever opened it.
CloseFd(fd) == kernel' = [f \in Fds |-> IF f = fd THEN NoSocket ELSE kernel[f]]

\* at is the system call a bind() is at.
NoCall == [op |-> "none", at |-> "none", address |-> ZeroAddress, byDefault |-> FALSE,
           fd |-> Invalid, length |-> 0]

\* flag is the int a call returns, length that of receiveFrom()'s string.
\* address is what bind() returns with it; for receiveFrom(), whose sender is
\* left out, it is where the datagram was sent to.
Result(op, flag, length, address) ==
  [op |-> op, flag |-> flag, length |-> length, address |-> address]
NoResult == Result("none", 0, 0, ZeroAddress)

Begin(s, c) ==
  /\ call' = [call EXCEPT ![s] = c]
  /\ result' = NoResult
  /\ sawReady' = [sawReady EXCEPT ![s] = @ /\ c.op = "receive"]

End(s, res) ==
  /\ call' = [call EXCEPT ![s] = NoCall]
  /\ result' = res
  /\ sawReady' = [sawReady EXCEPT ![s] = FALSE]

ResetMembersKeepsSocket(s) ==   \* mutant: receiveSocket keeps its number
  /\ bound' = [bound EXCEPT ![s] = FALSE]
  /\ listeningPort' = [listeningPort EXCEPT ![s] = NoPort]
  /\ UNCHANGED receiveSocket
ResetMembers(s) ==
  /\ receiveSocket' = [receiveSocket EXCEPT ![s] = Invalid]
  /\ bound' = [bound EXCEPT ![s] = FALSE]
  /\ listeningPort' = [listeningPort EXCEPT ![s] = NoPort]

-----------------------------------------------------------------------------
(* bind(), close() and the copies.                                         *)

Replace(s) == replaced' = (replaced \/ receiveSocket[s] # Invalid)

\* bind() of an address.  It makes its socket first and only then closes "the"
\* receive socket, which by now is the one just made.
BindAddress(s, address) ==
  LET next == [NoCall EXCEPT !.op = "bind", !.at = "bind", !.address = address]
      free == SocketFds(address.family)
  IN  /\ call[s].op = "none"
      /\ Replace(s)
      /\ protocolVersion' = [protocolVersion EXCEPT ![s] = address.family]
      /\ \/ /\ free # {} /\ bound[s]
            /\ ResetMembers(s)
            /\ Begin(s, next)
            /\ UNCHANGED kernel
         \/ /\ ~bound[s]
            /\ \E fd \in free :
                 /\ receiveSocket' = [receiveSocket EXCEPT ![s] = fd]
                 /\ kernel' = [kernel EXCEPT ![fd] = NewSocket(address.family)]
            /\ Begin(s, next)
            /\ UNCHANGED <<bound, listeningPort>>
         \* socket() fails: SocketException
         \/ /\ free = {}
            /\ receiveSocket' = [receiveSocket EXCEPT ![s] = Invalid]
            /\ End(s, NoResult)
            /\ UNCHANGED <<bound, listeningPort, kernel>>
      /\ UNCHANGED copied

\* bind() of a host name and a port: the first address they resolve to, if any.
Bind(s, addresses) ==
  \/ addresses # << >> /\ BindAddress(s, addresses[1])
  \/ /\ addresses = << >> /\ call[s].op = "none"
     /\ End(s, NoResult)
     /\ UNCHANGED <<objects, kernel, history>>

\* What ::bind() may make of the name of a descriptor; it fails on none.
Bindable(fd, address) ==
  IF \/ ~IsOpen(fd) \/ IsBound(fd)
     \/ kernel[fd].name.family # address.family
     \/ GetAddressLength(address) < SizeOf(address.family)
  THEN {}
  ELSE {a \in IF address.port = 0 THEN {WithPort(address, p) : p \in Ports} ELSE {address} :
          \A f \in Fds : kernel[f].name # a}

BindFailsNever(names) == FALSE   \* mutant: the outcome of ::bind() is not looked at
BindFails(names) == names = {}

BindReceiveSocket(s) ==
  LET fd == receiveSocket[s]
      names == Bindable(fd, call[s].address)
  IN  /\ call[s].at = "bind"
      /\ bound' = [bound EXCEPT ![s] = ~BindFails(names)]
      /\ \/ /\ names = {}
            /\ End(s, Result("bind", -1, 0, ZeroAddress))
            /\ UNCHANGED kernel
         \/ \E name \in names :
              /\ kernel' = [kernel EXCEPT ![fd].name = name]
              /\ Begin(s, [call[s] EXCEPT !.at = "getsockname"])
      /\ UNCHANGED <<receiveSocket, protocolVersion, listeningPort, history>>

PortAsked(address, name) == GetPortNumber(address)   \* mutant: the kernel is not asked
ListeningPort(address, name) == GetPortNumber(name)

\* initialiseListeningPortNumber(): getsockname() gives the name the descriptor
\* has by now, or fails on one that a copy has closed: close() comes next.
InitialiseListeningPort(s) ==
  LET fd == receiveSocket[s]
      address == call[s].address
  IN  /\ call[s].at = "getsockname"
      /\ \/ /\ IsOpen(fd)
            /\ listeningPort' =
                 [listeningPort EXCEPT ![s] = ListeningPort(address, kernel[fd].name)]
            /\ End(s, Result("bind", 0, 0, WithPort(address, listeningPort'[s])))
         \/ /\ ~IsOpen(fd)
            /\ Begin(s, [call[s] EXCEPT !.at = "close"])
            /\ UNCHANGED listeningPort
      /\ UNCHANGED <<bound, receiveSocket, protocolVersion, kernel, history>>

\* What close() closes; it leaves protocolVersion as it is.
ResetBefore(s) == Invalid   \* mutant: the members are reset first
ToClose(s) == receiveSocket[s]

\* close(), whose number may be another's by now, and a BindingException.
AbandonBind(s) ==
  /\ call[s].at = "close"
  /\ CloseFd(ToClose(s))
  /\ ResetMembers(s)
  /\ End(s, NoResult)
  /\ UNCHANGED <<protocolVersion, history>>

Close(s) ==
  /\ call[s].op = "none"
  /\ CloseFd(ToClose(s))
  /\ ResetMembers(s)
  /\ End(s, NoResult)
  /\ UNCHANGED <<protocolVersion, history>>

\* The copy constructor and operator=: the members, so the same descriptor.
Assign(s, t) ==
  /\ s # t /\ call[s].op = "none" /\ call[t].op = "none"
  /\ Replace(s)
  /\ copied' = TRUE
  /\ bound' = [bound EXCEPT ![s] = bound[t]]
  /\ receiveSocket' = [receiveSocket EXCEPT ![s] = receiveSocket[t]]
  /\ protocolVersion' = [protocolVersion EXCEPT ![s] = protocolVersion[t]]
  /\ listeningPort' = [listeningPort EXCEPT ![s] = listeningPort[t]]
  /\ End(s, NoResult)
  /\ UNCHANGED kernel

-----------------------------------------------------------------------------
(* ready().                                                                *)

Ready(s) ==
  /\ call[s].op = "none"
  /\ \/ bound[s] /\ Begin(s, [NoCall EXCEPT !.op = "ready"])
     \/ ~bound[s] /\ End(s, NoResult)
  /\ UNCHANGED <<objects, kernel, history>>

\* pollSocket(): whatever the timeout, select() is given a zeroed timeval and
\* does not wait.
PollSocket(fd) == IF ~IsOpen(fd) THEN -1 ELSE IF kernel[fd].queue = << >> THEN 0 ELSE 1

\* What ready() makes of it.
NotAnError(res) == res >= 0   \* mutant: the test of connected()
HasData(res) == res > 0

PollForReady(s) ==
  /\ call[s].op = "ready"
  /\ sawReady' = [sawReady EXCEPT ![s] = HasData(PollSocket(receiveSocket[s]))]
  /\ call' = [call EXCEPT ![s] = NoCall]
  /\ result' = NoResult
  /\ UNCHANGED <<objects, kernel, history>>

-----------------------------------------------------------------------------
(* sendTo() and receiveFrom().                                             *)

\* sendTo() an address, for the caller or for sendTo() a hostname, uses a
\* temporary socket of its own.  byDefault (history): it is for the latter, and
\* the caller gave no protocol version.
SendTo(s, address, byDefault, length) ==
  LET free == SocketFds(address.family)
  IN  /\ call[s].op = "none"
      /\ \/ /\ free = {}
            /\ End(s, Result("send", -2, 0, ZeroAddress))
            /\ UNCHANGED kernel
         \/ \E fd \in free :
              /\ kernel' = [kernel EXCEPT ![fd] = NewSocket(address.family)]
              /\ Begin(s, [NoCall EXCEPT !.op = "send", !.address = address,
                             !.byDefault = byDefault, !.fd = fd, !.length = length])
      /\ UNCHANGED <<objects, history>>

SendToHostname(s, addresses, byDefault, length) ==
  \/ addresses # << >> /\ SendTo(s, addresses[1], byDefault, length)
  \/ /\ addresses = << >> /\ call[s].op = "none"
     /\ End(s, Result("send", 0, 0, ZeroAddress))
     /\ UNCHANGED <<objects, kernel, history>>

\* ::sendto() on the temporary socket, then its close().  The datagram is lost
\* or joins the buffer of a descriptor bound to its address.
SendDatagram(s) ==
  LET c == call[s]
      rest == [kernel EXCEPT ![c.fd] = NoSocket]
  IN  /\ c.op = "send"
      /\ \/ /\ ~IsOpen(c.fd)
            /\ kernel' = rest
            /\ End(s, Result("send", -1, 0, ZeroAddress))
         \/ /\ IsOpen(c.fd)
            /\ End(s, Result("send", c.length, 0, ZeroAddress))
            /\ \/ kernel' = rest
               \/ \E fd \in Fds \ {c.fd} :
                    /\ kernel[fd].name = c.address
                    /\ Len(kernel[fd].queue) < MaxQueue
                    /\ \E i \in 1..Len(kernel[fd].queue) + 1 :
                         kernel' = [rest EXCEPT ![fd].queue =
                           InsertAt(@, i, [to |-> c.address, length |-> c.length])]
      /\ UNCHANGED <<objects, history>>

\* The string of length n that was resized for the datagram, cut to the bytes
\* read when the call says how many those are.
StringLengthUnchecked(flag, n) == IF flag < n THEN flag ELSE n   \* mutant
StringLength(flag, n) == IF flag >= 0 /\ flag < n THEN flag ELSE n

ReceiveFails(s, n) == End(s, Result("receive", -1, StringLength(-1, n), ZeroAddress))

ReceiveFrom(s, n) ==
  /\ call[s].op = "none"
  /\ \/ /\ bound[s] /\ n # 0
        /\ Begin(s, [NoCall EXCEPT !.op = "receive", !.length = n])
     \/ /\ ~bound[s] \/ n = 0
        /\ ReceiveFails(s, n)
  /\ UNCHANGED <<objects, kernel, history>>

\* ::recvfrom() blocks until there is a datagram; what does not fit is lost.
ReceiveDatagram(s) ==
  LET fd == receiveSocket[s]
      n == call[s].length
  IN  /\ call[s].op = "receive"
      /\ \/ /\ IsOpen(fd) /\ kernel[fd].queue # << >>
            /\ LET datagram == Head(kernel[fd].queue)
                   flag == IF n < datagram.length THEN n ELSE datagram.length
               IN  End(s, Result("receive", flag, StringLength(flag, n), datagram.to))
            /\ kernel' = [kernel EXCEPT ![fd].queue = Tail(@)]
         \/ /\ ~IsOpen(fd)
            /\ ReceiveFails(s, n)
            /\ UNCHANGED kernel
      /\ UNCHANGED <<objects, history>>

-----------------------------------------------------------------------------
\* What the host names of a caller resolve to.
Local(version) ==
  {ResolveLocal(name, p, version) : name \in Hostnames \cup {NullOpt}, p \in Ports \cup {NoPort}}
Remote(version) ==
  {ResolveToAddresses(name, p, CreateHints(version)) : name \in Hostnames, p \in Ports}

\* The address of a call that comes by one is the only one to choose from.
Call(s) ==
  \/ \E addresses \in {<<ZeroAddress>>} \cup UNION {Local(version) : version \in Versions} :
       Bind(s, addresses)
  \/ Ready(s)
  \/ \E length \in Lengths :
       \/ \E addresses \in {<<ZeroAddress>>} \cup Remote(IPV4) \cup Remote(IPV6) :
            SendToHostname(s, addresses, FALSE, length)
       \/ \E addresses \in Remote(AnyVersion) : SendToHostname(s, addresses, TRUE, length)
  \/ \E n \in ReceiveLengths : ReceiveFrom(s, n)
  \/ Close(s)

Step(s) ==
  \/ BindReceiveSocket(s)
  \/ InitialiseListeningPort(s)
  \/ AbandonBind(s)
  \/ PollForReady(s)
  \/ SendDatagram(s)
  \/ ReceiveDatagram(s)

Init ==
  /\ bound = [s \in Sockets |-> FALSE]
  /\ receiveSocket = [s \in Sockets |-> Invalid]
  /\ protocolVersion = [s \in Sockets |-> AnyVersion]
  /\ listeningPort = [s \in Sockets |-> NoPort]
  /\ kernel = [fd \in Fds |-> NoSocket]
  /\ call = [s \in Sockets |-> NoCall]
  /\ result = NoResult
  /\ sawReady = [s \in Sockets |-> FALSE]
  /\ copied = FALSE
  /\ replaced = FALSE

Next ==
  \/ \E s \in Sockets : Call(s) \/ Step(s)
  \/ \E s, t \in Sockets : Assign(s, t)

Spec == Init /\ [][Next]_vars
-----------------------------------------------------------------------------
(* Properties.                                                             *)

Datagrams == [to: SocketAddresses, length: Lengths]
KernelSockets == [open: BOOLEAN, name: SocketAddresses, queue: Seq(Datagrams)]

Calls ==
  [op: {"none", "bind", "ready", "send", "receive"},
   at: {"none", "bind", "getsockname", "close"}, address: SocketAddresses,
   byDefault: BOOLEAN, fd: Fds \cup {Invalid}, length: Lengths \cup ReceiveLengths \cup {0}]

Results ==
  [op: {"none", "bind", "send", "receive"}, flag: Int, length: Nat, address: SocketAddresses]

TypeOK ==
  /\ bound \in [Sockets -> BOOLEAN]
  /\ receiveSocket \in [Sockets -> Fds \cup {Invalid}]
  /\ protocolVersion \in [Sockets -> Versions]
  /\ listeningPort \in [Sockets -> Ports \cup {NoPort}]
  /\ kernel \in [Fds -> KernelSockets]
  /\ call \in [Sockets -> Calls]
  /\ result \in Results
  /\ sawReady \in [Sockets -> BOOLEAN]
  /\ copied \in BOOLEAN /\ replaced \in BOOLEAN

Returns(s) == call[s].op # "none" /\ call'[s].op = "none"

\* Whatever sequence of bind()s, failed ones included, an object goes through,
\* as long as none was copied: one that says it is bound, and is not in the
\* middle of a bind(), has lost its descriptor or has one that is open and has
\* the version and the port it reports.
BoundAsReported ==
  ~copied => \A s \in Sockets :
    bound[s] /\ call[s].op # "bind" /\ receiveSocket[s] # Invalid
      => LET name == kernel[receiveSocket[s]].name
         IN  /\ IsBound(receiveSocket[s])
             /\ GetInternetProtocolVersion(name) = protocolVersion[s]
             /\ GetPortNumber(name) = listeningPort[s]

\* bind() "ensures the socket is bound to the port": on an object that has no
\* socket it succeeds whenever the address is free, of either version, whatever
\* the threads of other objects do between its system calls.
FreshBindBinds ==
  [][\A s \in Sockets :
       ~copied /\ ~replaced /\ call[s].op = "bind" /\ call'[s].op = "none"
         => \/ bound'[s]
            \/ \A p \in Ports : \E fd \in Fds :
                 /\ call[s].address.port \in {0, Htons(p)}
                      => kernel[fd].name = WithPort(call[s].address, p)]_vars

\* As long as no object was copied, the address bind() returns is the one the
\* object is bound to, with the port the system chose in it, although other
\* threads close and open sockets between its ::bind() and its getsockname():
\* who is told of it can send to it.
ReturnsBoundAddress ==
  [][\A s \in Sockets :
       ~copied /\ Returns(s) /\ result'.op = "bind" /\ result'.flag = 0
         => result'.address = kernel'[receiveSocket[s]].name]_vars

\* Without copies, receiveFrom() hands an object only what was sent to the
\* address it is bound to now, never what a descriptor left over from an earlier
\* bind() still holds.
ReceivesOwnAddress ==
  [][\A s \in Sockets :
       ~copied /\ Returns(s) /\ call[s].op = "receive" /\ result'.flag >= 0
         => /\ bound[s]
            /\ GetInternetProtocolVersion(result'.address) = protocolVersion[s]
            /\ GetPortNumber(result'.address) = listeningPort[s]]_vars

\* After a ready() that said yes, receiveFrom() does not block: nothing takes
\* the datagram of an object that has no copy between the two calls.
ReadyMeansReceives ==
  ~copied => \A s \in Sockets :
    call[s].op = "receive" /\ sawReady[s]
      => IsOpen(receiveSocket[s]) /\ kernel[receiveSocket[s]].queue # << >>

\* With callers that close before they bind again, every open descriptor is
\* some object's receive socket or the temporary socket of a sendTo(): no
\* sequence of calls, failed bind()s and copies included, leaks one.
NoLeak ==
  ~replaced => \A fd \in Fds :
    IsOpen(fd) => \E s \in Sockets : receiveSocket[s] = fd \/ call[s].fd = fd

\* A descriptor is held by an object or, for the time of a sendTo(), by none.
Holders == Sockets \cup {"temporary"}
Holds(o, fd) ==
  IF o = "temporary" THEN \E s \in Sockets : call[s].fd = fd ELSE receiveSocket[o] = fd

Table == INSTANCE DescriptorTable WITH
  Owners <- Holders,
  open <- {fd \in Fds : IsOpen(fd)},
  handles <- {h \in Holders \X Fds : Holds(h[1], h[2])}

\* With callers that neither copy an object nor bind one they have not closed,
\* descriptors are used as DescriptorTable says: each is held by one object or
\* one sendTo(), which closes it, although numbers are given out again.
ImplementsDescriptorTable ==
  Table!Init /\ [][~copied' /\ ~replaced' => Table!Next]_(Table!vars)

\* bind() "ensures the socket is bound to the port": it succeeds on an address
\* that is free, whether or not the object was bound before.
RebindBinds ==
  [][\A s \in Sockets :
       Returns(s) /\ call[s].op = "bind"
         => \/ bound'[s]
            \/ \E fd \in Fds : kernel[fd].name = call[s].address]_vars

\* "The default protocol version" is IPV4, and "protocol related arguments are
\* omitted" where that is meant: a sendTo(hostname) with the default version,
\* while a socket is bound to an IPV4 address of that host and port, sends to it.
DefaultReachesIPV4 ==
  [][\A s \in Sockets :
       Returns(s) /\ call[s].op = "send" /\ call[s].byDefault /\ result'.flag > 0
         => \A addresses \in Remote(AnyVersion) :
              addresses # << >> /\ addresses[1] = call[s].address
                => LET ipv4 == {a \in ToSet(addresses) : a.family = IPV4}
                   IN  (\E fd \in Fds : kernel[fd].name \in ipv4) => call[s].address \in ipv4]_vars
=============================================================================

-------------------------- MODULE UDPSocketProofs ---------------------------
(***************************************************************************)
(* What the prover establishes about UDPSocket for any objects, ports,     *)
(* names and lengths, and any number of descriptors.                       *)
(***************************************************************************)
EXTENDS UDPSocket, SocketAddressProofs

\* What an object has during each of its calls.
CallInOrder(s) ==
  /\ call[s].op = "send" <=> call[s].fd # Invalid
  /\ call[s].op = "bind" <=> call[s].at # "none"
  /\ call[s].at = "bind" => ~bound[s]
  /\ call[s].at = "getsockname" => bound[s]
  /\ call[s].op = "bind" => /\ call[s].address.family = protocolVersion[s]
                            /\ protocolVersion[s] \in {IPV4, IPV6}
                            /\ call[s].address.port \in {0} \cup {Htons(p) : p \in Ports}
  /\ call[s].op = "send" => call[s].address.port # 0 /\ call[s].length \in Lengths
  /\ call[s].op = "receive" => bound[s]

\* bind() has a descriptor, and keeps it, when its caller closed the one before.
BindsAfresh(s) == ~replaced => (bound[s] \/ call[s].op = "bind" => receiveSocket[s] # Invalid)

\* Without copies, the descriptors of an object are open, and the receive socket
\* has the name that the members tell of, or will when bind() has asked for it.
HolderNamed(s) ==
  /\ receiveSocket[s] # Invalid =>
       /\ IsOpen(receiveSocket[s])
       /\ bound[s] <=> kernel[receiveSocket[s]].name.port # 0
       /\ bound[s] \/ call[s].op = "bind" =>
            kernel[receiveSocket[s]].name.family = protocolVersion[s]
       /\ bound[s] /\ call[s].op # "bind" =>
            GetPortNumber(kernel[receiveSocket[s]].name) = listeningPort[s]
  /\ call[s].at = "getsockname" =>
       /\ receiveSocket[s] # Invalid
       /\ \E p \in Ports : kernel[receiveSocket[s]].name = WithPort(call[s].address, p)
  /\ call[s].at # "close"
  /\ call[s].fd # Invalid => IsOpen(call[s].fd)

\* A datagram that ready() saw is there until receiveFrom() takes it.
DataWaits(s) ==
  sawReady[s] =>
    /\ call[s].op \in {"none", "receive"}
    /\ IsOpen(receiveSocket[s]) /\ kernel[receiveSocket[s]].queue # << >>

ObjectSafe(s) ==
  /\ CallInOrder(s) /\ BindsAfresh(s)
  /\ ~copied => HolderNamed(s) /\ DataWaits(s)

\* Without copies a descriptor is held once.
Apart(s, t) ==
  /\ receiveSocket[s] # Invalid => receiveSocket[s] # call[t].fd
  /\ s # t /\ receiveSocket[s] # Invalid => receiveSocket[s] # receiveSocket[t]
  /\ s # t /\ call[s].fd # Invalid => call[s].fd # call[t].fd
HeldOnce == ~copied => \A s, t \in Sockets : Apart(s, t)

\* A socket has one of the host's ports or none, and what waits at it was sent to
\* its name, which never changes.
SocketNamed(fd) ==
  /\ kernel[fd].name.port \in {0} \cup {Htons(p) : p \in Ports}
  /\ kernel[fd].queue # << >> =>
       /\ kernel[fd].name.port # 0
       /\ \A i \in 1..Len(kernel[fd].queue) : kernel[fd].queue[i].to = kernel[fd].name

Safe ==
  /\ TypeOK
  /\ \A s \in Sockets : ObjectSafe(s)
  /\ HeldOnce
  /\ \A fd \in Fds : SocketNamed(fd)
  /\ NoLeak

\* The queue r holds nothing but d and what is in q.
HoldsOnly(r, q, d) == \A j \in 1..Len(r) : r[j] = d \/ \E k \in 1..Len(q) : r[j] = q[k]

\* The network puts a datagram anywhere into a queue.
LEMMA Inserted ==
  ASSUME NEW S, NEW q \in Seq(S), NEW i \in 1..Len(q) + 1, NEW d \in S
  PROVE  /\ InsertAt(q, i, d) \in Seq(S) /\ InsertAt(q, i, d) # << >>
         /\ HoldsOnly(InsertAt(q, i, d), q, d)
<1> DEFINE a == SubSeq(q, 1, i - 1)
           b == SubSeq(q, i, Len(q))
<1>1. a \in Seq(S) /\ Len(a) = i - 1 /\ \A j \in 1..i - 1 : a[j] = q[j]
  OBVIOUS
<1>2. b \in Seq(S) /\ Len(b) = Len(q) - i + 1 /\ \A j \in 1..(Len(q) - i + 1) : b[j] = q[j + i - 1]
  OBVIOUS
<1>3. InsertAt(q, i, d) = a \o <<d>> \o b
  BY DEF InsertAt
<1> HIDE DEF a, b
<1>4. /\ a \o <<d>> \in Seq(S) /\ Len(a \o <<d>>) = i /\ (a \o <<d>>)[i] = d
      /\ \A j \in 1..i - 1 : (a \o <<d>>)[j] = q[j]
  BY <1>1
<1> DEFINE c == a \o <<d>>
<1> HIDE DEF c
<1>5. c \in Seq(S) /\ Len(c) = i /\ c[i] = d /\ \A j \in 1..i - 1 : c[j] = q[j]
  BY <1>4 DEF c
<1>6. /\ c \o b \in Seq(S) /\ Len(c \o b) = Len(q) + 1
      /\ \A j \in 1..i : (c \o b)[j] = c[j]
      /\ \A j \in i + 1..Len(q) + 1 : (c \o b)[j] = b[j - i]
  BY <1>2, <1>5
<1>7. InsertAt(q, i, d) = c \o b
  BY <1>3 DEF c
<1> HIDE DEF a, b, c
<1> DEFINE e == c \o b
<1>8. e \in Seq(S) /\ e # << >> /\ Len(e) = Len(q) + 1
  BY <1>6
<1>9. ASSUME NEW j \in 1..Len(q) + 1
      PROVE  e[j] = d \/ \E k \in 1..Len(q) : e[j] = q[k]
  <2>1. CASE j < i
    <3>1. j \in 1..Len(q) /\ j \in 1..i - 1 /\ j \in 1..i
      BY <2>1
    <3>2. e[j] = q[j]
      BY <1>5, <1>6, <3>1
    <3> QED BY <3>1, <3>2
  <2>2. CASE j = i
    BY <1>5, <1>6, <2>2
  <2>3. CASE ~(j < i) /\ j # i
    <3>1. e[j] = b[j - i] /\ j - i \in 1..(Len(q) - i + 1)
      BY <1>6, <2>3
    <3>2. b[j - i] = q[(j - i) + i - 1]
      BY <1>2, <3>1
    <3>3. (j - i) + i - 1 = j - 1 /\ j - 1 \in 1..Len(q)
      BY <2>3
    <3> QED BY <3>1, <3>2, <3>3
  <2> QED BY <2>1, <2>2, <2>3
<1>10. HoldsOnly(e, q, d)
  BY <1>8, <1>9 DEF HoldsOnly
<1> QED BY <1>7, <1>8, <1>10

\* What a thread that is in no call, a step that answers nothing and a number
\* that is free have.
LEMMA Records ==
  /\ ZeroAddress \in SocketAddresses /\ ZeroAddress.family = AnyVersion /\ ZeroAddress.port = 0
  /\ NoCall \in Calls /\ NoCall.op = "none" /\ NoCall.at = "none" /\ NoCall.fd = Invalid
  /\ NoResult \in Results
  /\ NoSocket \in KernelSockets
  /\ ~NoSocket.open /\ NoSocket.name = ZeroAddress /\ NoSocket.queue = << >>
<1>1. ZeroAddress \in SocketAddresses /\ ZeroAddress.family = AnyVersion /\ ZeroAddress.port = 0
  BY ZeroPort DEF ZeroAddress, SocketAddresses, Versions
<1>2. NoCall \in Calls /\ NoCall.op = "none" /\ NoCall.at = "none" /\ NoCall.fd = Invalid
  BY <1>1 DEF NoCall, Calls
<1>3. NoResult \in Results
  BY <1>1 DEF NoResult, Result, Results
<1>4. << >> \in Seq(Datagrams)
  OBVIOUS
<1>5. /\ NoSocket \in KernelSockets
      /\ ~NoSocket.open /\ NoSocket.name = ZeroAddress /\ NoSocket.queue = << >>
  BY <1>1, <1>4 DEF NoSocket, KernelSockets
<1> QED BY <1>1, <1>2, <1>3, <1>5

\* What a socket is that socket() has just made.
LEMMA NewSocketFields ==
  ASSUME NEW family \in Versions
  PROVE  /\ NewSocket(family) \in KernelSockets
         /\ NewSocket(family).open /\ NewSocket(family).queue = << >>
         /\ NewSocket(family).name.port = 0 /\ NewSocket(family).name.family = family
<1>1. [ZeroAddress EXCEPT !.family = family] \in SocketAddresses
  BY Records DEF SocketAddresses
<1> QED BY <1>1, Records DEF NewSocket, NoSocket, KernelSockets, ZeroAddress

\* What steps do to the call of one thread, ...
Calling(s) == call' \in [Sockets -> Calls] /\ \A t \in Sockets : t # s => call'[t] = call[t]

Begins(s, c) ==
  /\ Calling(s) /\ call'[s] = c /\ result' = NoResult
  /\ sawReady' \in [Sockets -> BOOLEAN]
  /\ \A t \in Sockets : sawReady'[t] <=> sawReady[t] /\ (t = s => c.op = "receive")

Ends(s, res) ==
  /\ Calling(s) /\ call'[s] = NoCall /\ result' = res
  /\ sawReady' \in [Sockets -> BOOLEAN]
  /\ \A t \in Sockets : sawReady'[t] <=> sawReady[t] /\ t # s

\* ... and to the socket behind one descriptor.
OthersKept(fd) ==
  kernel' \in [Fds -> KernelSockets] /\ \A f \in Fds : f # fd => kernel'[f] = kernel[f]

\* A call begins, ...
LEMMA BeginEffect ==
  ASSUME TypeOK, NEW s \in Sockets, NEW c \in Calls, Begin(s, c)
  PROVE  Begins(s, c)
  BY DEF TypeOK, Begin, Begins, Calling

\* ... and ends, and what ready() said is forgotten.
LEMMA EndEffect ==
  ASSUME TypeOK, NEW s \in Sockets, NEW res, End(s, res)
  PROVE  Ends(s, res)
  BY Records DEF TypeOK, End, Ends, Calling

\* socket() gives a free number, and changes no other.
LEMMA OpenEffect ==
  ASSUME TypeOK, NEW family \in Versions, NEW fd \in SocketFds(family),
         kernel' = [kernel EXCEPT ![fd] = NewSocket(family)]
  PROVE  /\ family \in {IPV4, IPV6} /\ fd \in Fds /\ ~IsOpen(fd)
         /\ OthersKept(fd) /\ kernel'[fd] = NewSocket(family)
  BY NewSocketFields DEF TypeOK, SocketFds, FreeFds, IsOpen, OthersKept

\* close() frees the number, if it is one.
LEMMA CloseFdEffect ==
  ASSUME TypeOK, NEW fd, CloseFd(fd)
  PROVE  OthersKept(fd) /\ (fd \in Fds => kernel'[fd] = NoSocket)
  BY Records DEF TypeOK, CloseFd, OthersKept

\* What a step of s does to other objects and their descriptors: nothing that
\* concerns them.  It gives back numbers of s and takes ones that were free.
OnlyBy(s) ==
  /\ \A t \in Sockets : t # s =>
       /\ bound'[t] = bound[t] /\ receiveSocket'[t] = receiveSocket[t]
       /\ protocolVersion'[t] = protocolVersion[t] /\ listeningPort'[t] = listeningPort[t]
       /\ call'[t] = call[t] /\ (sawReady'[t] => sawReady[t])
  /\ \A fd \in Fds : IsOpen(fd) /\ fd # receiveSocket[s] /\ fd # call[s].fd =>
       /\ kernel'[fd].open /\ kernel'[fd].name = kernel[fd].name
       /\ kernel[fd].queue # << >> => kernel'[fd].queue # << >>
  /\ receiveSocket'[s] \in {receiveSocket[s], Invalid} \cup FreeFds
  /\ call'[s].fd \in {call[s].fd, Invalid} \cup FreeFds
  /\ receiveSocket'[s] # Invalid => receiveSocket'[s] # call'[s].fd
  /\ replaced => replaced'
  /\ copied' = copied

\* Such a step keeps the invariant if it does so for its own object.
LEMMA OthersSafe ==
  ASSUME Safe, NEW s \in Sockets, OnlyBy(s), ObjectSafe(s)'
  PROVE  (\A t \in Sockets : ObjectSafe(t)') /\ HeldOnce'
<1>1. ASSUME NEW t \in Sockets, t # s, ~copied
      PROVE  /\ Apart(t, s) /\ Apart(s, t)
             /\ HolderNamed(t) /\ DataWaits(t) /\ HolderNamed(s)
  BY <1>1 DEF Safe, HeldOnce, ObjectSafe
<1>2. ASSUME NEW t \in Sockets, t # s
      PROVE  ObjectSafe(t)'
  <2>1. CallInOrder(t)' /\ BindsAfresh(t)'
    BY <1>2 DEF Safe, ObjectSafe, OnlyBy, CallInOrder, BindsAfresh
  <2>2. ASSUME ~copied'
        PROVE  HolderNamed(t)'
    BY <1>1, <1>2, <2>2 DEF OnlyBy, Apart, HolderNamed, IsOpen
  <2>3. ASSUME ~copied'
        PROVE  DataWaits(t)'
    <3>1. sawReady[t] => receiveSocket[t] \in Fds /\ receiveSocket[t] # Invalid
      BY <1>1, <1>2, <2>3, ConstantsAssumption DEF OnlyBy, DataWaits, IsOpen, ConstantsAssumption, Invalid
    <3> QED BY <1>1, <1>2, <2>3, <3>1 DEF OnlyBy, Apart, DataWaits, IsOpen
  <2> QED BY <2>1, <2>2, <2>3 DEF ObjectSafe
<1>3. ASSUME ~copied', NEW t \in Sockets, NEW u \in Sockets
      PROVE  Apart(t, u)'
  <2>1. Apart(t, u) /\ Apart(s, t) /\ Apart(s, u) /\ Apart(t, s)
    BY <1>3 DEF Safe, HeldOnce, OnlyBy
  <2>2. HolderNamed(t) /\ HolderNamed(u)
    BY <1>3 DEF Safe, ObjectSafe, OnlyBy
  <2>3. /\ receiveSocket[t] # Invalid => receiveSocket[t] \notin FreeFds
        /\ receiveSocket[u] # Invalid => receiveSocket[u] \notin FreeFds
        /\ call[t].fd # Invalid => call[t].fd \notin FreeFds
        /\ call[u].fd # Invalid => call[u].fd \notin FreeFds
    BY <2>2 DEF HolderNamed, IsOpen, FreeFds
  <2>4. CASE t = s /\ u = s
    BY <2>1, <2>4 DEF OnlyBy, Apart
  <2>5. CASE t = s /\ u # s
    BY <2>1, <2>3, <2>5 DEF OnlyBy, Apart
  <2>6. CASE t # s /\ u = s
    BY <2>1, <2>3, <2>6 DEF OnlyBy, Apart
  <2>7. CASE t # s /\ u # s
    BY <2>1, <2>7 DEF OnlyBy, Apart
  <2> QED BY <2>4, <2>5, <2>6, <2>7
<1> QED BY <1>2, <1>3 DEF HeldOnce

\* It loses no descriptor if s still holds what it did not close.
LEMMA StillNoLeak ==
  ASSUME Safe, NEW s \in Sockets, OnlyBy(s),
         \A fd \in Fds : ~replaced' /\ kernel'[fd].open =>
           \/ IsOpen(fd) /\ fd # receiveSocket[s] /\ fd # call[s].fd
           \/ fd = receiveSocket'[s] \/ fd = call'[s].fd
  PROVE  NoLeak'
<1> SUFFICES ASSUME ~replaced', NEW fd \in Fds, IsOpen(fd)'
             PROVE  \E t \in Sockets : receiveSocket'[t] = fd \/ call'[t].fd = fd
  BY DEF NoLeak
<1>1. CASE fd = receiveSocket'[s] \/ fd = call'[s].fd
  BY <1>1
<1>2. CASE IsOpen(fd) /\ fd # receiveSocket[s] /\ fd # call[s].fd
  <2>1. PICK t \in Sockets : receiveSocket[t] = fd \/ call[t].fd = fd
    BY <1>2 DEF Safe, NoLeak, OnlyBy
  <2> QED BY <1>2, <2>1 DEF OnlyBy
<1> QED BY <1>1, <1>2 DEF IsOpen

\* What a step does to the table of descriptors.
TableStep == ~copied' /\ ~replaced' => Table!Next \/ UNCHANGED Table!vars

\* Steps that neither give a number out nor take one back.
LEMMA TableStutter ==
  ASSUME UNCHANGED receiveSocket,
         \A r \in Sockets : call'[r].fd = call[r].fd,
         \A fd \in Fds : kernel'[fd].open = kernel[fd].open
  PROVE  UNCHANGED Table!vars
<1>1. \A o \in Holders, fd \in Fds : Holds(o, fd)' <=> Holds(o, fd)
  BY DEF Holds, Holders
<1>2. \A fd \in Fds : IsOpen(fd)' <=> IsOpen(fd)
  BY DEF IsOpen
<1> QED BY <1>1, <1>2 DEF Table!vars

\* A number that was free goes to one holder.
LEMMA TableAcquire ==
  ASSUME NEW o \in Holders, NEW fd \in Fds, ~kernel[fd].open, kernel'[fd].open,
         \A f \in Fds : f # fd => kernel'[f].open = kernel[f].open,
         \A p \in Holders, f \in Fds : Holds(p, f)' <=> Holds(p, f) \/ <<p, f>> = <<o, fd>>
  PROVE  Table!Next
<1>1. Table!Acquire(o, fd)
  BY DEF Table!Acquire, IsOpen
<1> QED BY <1>1 DEF Table!Next

\* The holder of a number gives it back.
LEMMA TableRelease ==
  ASSUME NEW o \in Holders, NEW fd \in Fds, Holds(o, fd), ~kernel'[fd].open,
         \A f \in Fds : f # fd => kernel'[f].open = kernel[f].open,
         \A p \in Holders, f \in Fds : Holds(p, f)' <=> Holds(p, f) /\ <<p, f>> # <<o, fd>>
  PROVE  Table!Next
<1>1. Table!Release(o, fd)
  BY DEF Table!Release, IsOpen
<1> QED BY <1>1 DEF Table!Next

\* A call that begins or ends without touching an object or a descriptor.
LEMMA CallMoves ==
  ASSUME Safe, NEW s \in Sockets, UNCHANGED <<objects, kernel, history>>, Calling(s),
         call[s].op \notin {"send", "bind"},
         call'[s].op \in {"none", "ready", "receive"}, call'[s].at = "none", call'[s].fd = Invalid,
         call'[s].op = "receive" => bound[s],
         result' \in Results, sawReady' \in [Sockets -> BOOLEAN],
         \A t \in Sockets : t # s => (sawReady'[t] => sawReady[t]),
         ~copied /\ sawReady'[s] =>
           /\ call'[s].op \in {"none", "receive"}
           /\ IsOpen(receiveSocket[s]) /\ kernel[receiveSocket[s]].queue # << >>
  PROVE  Safe' /\ TableStep
<1> USE DEF Calling, objects, history
<1>1. call[s].fd = Invalid
  BY DEF Safe, ObjectSafe, CallInOrder
<1>2. OnlyBy(s)
  BY <1>1 DEF OnlyBy, IsOpen
<1>3. ObjectSafe(s)'
  BY DEF Safe, ObjectSafe, CallInOrder, BindsAfresh, HolderNamed, DataWaits, IsOpen
<1>4. NoLeak'
  BY <1>1, <1>2, ConstantsAssumption, StillNoLeak DEF ConstantsAssumption, IsOpen, Invalid
<1>5. TypeOK'
  BY DEF Safe, TypeOK
<1>6. \A fd \in Fds : SocketNamed(fd)'
  BY DEF Safe, SocketNamed
<1>7. TableStep
  BY <1>1, TableStutter DEF TableStep
<1> QED BY <1>2, <1>3, <1>4, <1>5, <1>6, <1>7, OthersSafe DEF Safe

MayBind(address) == address \in SocketAddresses /\ address.port \in {0} \cup {Htons(p) : p \in Ports}

\* bind() overwrites the descriptor it finds, or closes the one it has just made.
LEMMA BindAddressSafe ==
  ASSUME Safe, NEW s \in Sockets, NEW address, MayBind(address), BindAddress(s, address)
  PROVE  Safe' /\ TableStep
<1> USE DEF Calling, history
<1> DEFINE next == [NoCall EXCEPT !.op = "bind", !.at = "bind", !.address = address]
<1>1. /\ address \in SocketAddresses /\ address.family \in Versions
      /\ address.port \in {0} \cup {Htons(p) : p \in Ports}
  BY DEF MayBind, SocketAddresses
<1>2. /\ call[s].op = "none" /\ call[s].fd = Invalid
      /\ replaced' = (replaced \/ receiveSocket[s] # Invalid)
      /\ protocolVersion' \in [Sockets -> Versions]
      /\ protocolVersion'[s] = address.family
      /\ \A t \in Sockets : t # s => protocolVersion'[t] = protocolVersion[t]
      /\ UNCHANGED copied
  BY <1>1 DEF BindAddress, Replace, Safe, TypeOK, ObjectSafe, CallInOrder
<1>3. /\ next \in Calls /\ next.op = "bind" /\ next.at = "bind"
      /\ next.address = address /\ next.fd = Invalid
  BY <1>1, Records DEF NoCall, Calls
<1> HIDE DEF next
<1>4. CASE /\ SocketFds(address.family) # {} /\ bound[s]
           /\ ResetMembers(s) /\ Begin(s, next) /\ UNCHANGED kernel
  <2>1. Begins(s, next)
    BY <1>3, <1>4, BeginEffect DEF Safe
  <2>2. /\ bound' \in [Sockets -> BOOLEAN] /\ receiveSocket' \in [Sockets -> Fds \cup {Invalid}]
        /\ listeningPort' \in [Sockets -> Ports \cup {NoPort}]
        /\ ~bound'[s] /\ receiveSocket'[s] = Invalid
        /\ \A t \in Sockets : t # s =>
             /\ bound'[t] = bound[t] /\ receiveSocket'[t] = receiveSocket[t]
             /\ listeningPort'[t] = listeningPort[t]
    BY <1>4 DEF ResetMembers, Safe, TypeOK
  <2>3. replaced' /\ address.family \in {IPV4, IPV6}
    BY <1>2, <1>4 DEF Safe, ObjectSafe, BindsAfresh, SocketFds
  <2>4. OnlyBy(s)
    BY <1>2, <1>3, <1>4, <2>1, <2>2, <2>3 DEF OnlyBy, Begins, IsOpen
  <2>5. ObjectSafe(s)'
    BY <1>1, <1>2, <1>3, <2>1, <2>2, <2>3 DEF Begins, ObjectSafe, CallInOrder, BindsAfresh, HolderNamed, DataWaits
  <2>6. TypeOK'
    BY <1>2, <1>3, <1>4, <2>1, <2>2, Records DEF Begins, Safe, TypeOK
  <2>7. \A fd \in Fds : SocketNamed(fd)'
    BY <1>4 DEF Safe, SocketNamed
  <2> QED BY <2>3, <2>4, <2>5, <2>6, <2>7, OthersSafe DEF Safe, NoLeak, TableStep
<1>5. ASSUME ~bound[s], NEW fd \in SocketFds(address.family),
             receiveSocket' = [receiveSocket EXCEPT ![s] = fd],
             kernel' = [kernel EXCEPT ![fd] = NewSocket(address.family)],
             Begin(s, next), UNCHANGED <<bound, listeningPort>>
      PROVE  Safe' /\ TableStep
  <2>1. Begins(s, next)
    BY <1>3, <1>5, BeginEffect DEF Safe
  <2>2. /\ address.family \in {IPV4, IPV6} /\ fd \in Fds /\ ~kernel[fd].open
        /\ OthersKept(fd) /\ kernel'[fd] = NewSocket(address.family)
    BY <1>1, <1>5, OpenEffect DEF Safe, IsOpen
  <2>3. /\ kernel'[fd].open /\ kernel'[fd].queue = << >>
        /\ kernel'[fd].name.port = 0 /\ kernel'[fd].name.family = address.family
    BY <1>1, <2>2, NewSocketFields
  <2>4. /\ receiveSocket' \in [Sockets -> Fds \cup {Invalid}] /\ receiveSocket'[s] = fd
        /\ \A t \in Sockets : t # s => receiveSocket'[t] = receiveSocket[t]
    BY <1>5, <2>2 DEF Safe, TypeOK
  <2>5. fd # Invalid
    BY <2>2, ConstantsAssumption DEF ConstantsAssumption, Invalid
  <2>6. OnlyBy(s)
    BY <1>2, <1>3, <1>5, <2>1, <2>2, <2>4, <2>5 DEF OnlyBy, OthersKept, Begins, FreeFds, IsOpen
  <2>7. ObjectSafe(s)'
    BY <1>1, <1>2, <1>3, <1>5, <2>1, <2>2, <2>3, <2>4, <2>5
    DEF Begins, ObjectSafe, CallInOrder, BindsAfresh, HolderNamed, DataWaits, IsOpen
  <2>8. NoLeak'
    <3>1. ASSUME NEW f \in Fds, ~replaced', kernel'[f].open
          PROVE  \/ IsOpen(f) /\ f # receiveSocket[s] /\ f # call[s].fd
                 \/ f = receiveSocket'[s]
      BY <1>2, <2>2, <2>4, <3>1, ConstantsAssumption DEF ConstantsAssumption, Invalid, OthersKept, IsOpen
    <3> QED BY <2>6, <3>1, StillNoLeak
  <2>9. TypeOK'
    BY <1>2, <1>3, <1>5, <2>1, <2>2, <2>4, Records DEF Begins, OthersKept, Safe, TypeOK
  <2>10. \A f \in Fds : SocketNamed(f)'
    BY <2>2, <2>3 DEF OthersKept, Safe, SocketNamed
  <2>11. ASSUME ~replaced' PROVE Table!Next
    <3>1. receiveSocket[s] = Invalid /\ \A r \in Sockets : call'[r].fd = call[r].fd
      BY <1>2, <1>3, <2>1, <2>11 DEF Begins
    <3>2. \A p \in Holders, f \in Fds : Holds(p, f)' <=> Holds(p, f) \/ <<p, f>> = <<s, fd>>
      BY <2>4, <3>1, ConstantsAssumption DEF ConstantsAssumption, Invalid, Holds, Holders
    <3>3. s \in Holders
      BY DEF Holders
    <3> QED BY <2>2, <2>3, <3>2, <3>3, TableAcquire DEF OthersKept
  <2> QED BY <2>6, <2>7, <2>8, <2>9, <2>10, <2>11, OthersSafe DEF Safe, TableStep
<1>6. CASE /\ SocketFds(address.family) = {}
           /\ receiveSocket' = [receiveSocket EXCEPT ![s] = Invalid]
           /\ End(s, NoResult) /\ UNCHANGED <<bound, listeningPort, kernel>>
  <2>1. Ends(s, NoResult)
    BY <1>6, EndEffect DEF Safe
  <2>2. /\ receiveSocket' \in [Sockets -> Fds \cup {Invalid}] /\ receiveSocket'[s] = Invalid
        /\ \A t \in Sockets : t # s => receiveSocket'[t] = receiveSocket[t]
    BY <1>6 DEF Safe, TypeOK
  <2>3. bound[s] => replaced'
    BY <1>2 DEF Safe, ObjectSafe, BindsAfresh
  <2>4. OnlyBy(s)
    BY <1>2, <1>6, <2>1, <2>2, Records DEF OnlyBy, Ends, IsOpen
  <2>5. ObjectSafe(s)'
    BY <1>6, <2>1, <2>2, <2>3, Records DEF Ends, ObjectSafe, CallInOrder, BindsAfresh, HolderNamed, DataWaits
  <2>6. NoLeak'
    BY <1>2, <1>6, <2>4, ConstantsAssumption, StillNoLeak DEF ConstantsAssumption, Invalid, IsOpen
  <2>7. TypeOK'
    BY <1>2, <1>6, <2>1, <2>2, Records DEF Ends, Safe, TypeOK
  <2>8. \A fd \in Fds : SocketNamed(fd)'
    BY <1>6 DEF Safe, SocketNamed
  <2>9. ASSUME ~replaced' PROVE UNCHANGED Table!vars
    <3>1. receiveSocket' = receiveSocket
      BY <1>2, <1>6, <2>9 DEF Safe, TypeOK
    <3> QED BY <1>2, <1>6, <2>1, <3>1, Records, TableStutter DEF Ends
  <2> QED BY <2>4, <2>5, <2>6, <2>7, <2>8, <2>9, OthersSafe DEF Safe, TableStep
<1> QED BY <1>4, <1>5, <1>6 DEF BindAddress, next

\* What ::bind() makes of a name: the address, with a port if it has none.
LEMMA BindableNames ==
  ASSUME TypeOK, NEW fd, NEW address, MayBind(address), NEW name \in Bindable(fd, address)
  PROVE  /\ fd \in Fds /\ kernel[fd].open /\ kernel[fd].name.port = 0
         /\ kernel[fd].name.family = address.family
         /\ \E p \in Ports : name = WithPort(address, p)
<1>1. /\ fd \in Fds /\ kernel[fd].open /\ kernel[fd].name.port = 0
      /\ kernel[fd].name.family = address.family
  BY DEF Bindable, IsOpen, IsBound
<1> DEFINE Wanted == IF address.port = 0 THEN {WithPort(address, p) : p \in Ports} ELSE {address}
<1>2. name \in Wanted
  BY DEF Bindable
<1>3. CASE address.port = 0
  BY <1>1, <1>2, <1>3
<1>4. CASE address.port # 0
  <2>1. name = address /\ address \in SocketAddresses
    BY <1>2, <1>4 DEF MayBind
  <2>2. PICK p \in Ports : address.port = Htons(p)
    BY <1>4 DEF MayBind
  <2>3. p \in PortNumbers
    BY ConstantsAssumption DEF ConstantsAssumption
  <2>4. WithPort(address, p) = address
    BY <2>1, <2>2, <2>3, WithPortFields
  <2> QED BY <1>1, <2>1, <2>4
<1> QED BY <1>3, <1>4

\* The port of a name that a socket has.
LEMMA KnownPort ==
  ASSUME NEW name \in SocketAddresses, name.port \in {0} \cup {Htons(p) : p \in Ports}
  PROVE  GetPortNumber(name) \in Ports \cup {NoPort} /\ GetPortNumber(name) \in PortNumbers
<1>1. CASE name.port = 0
  <2>1. Htons(0) = 0
    BY HtonsPort, ZeroPort
  <2> QED BY <1>1, <2>1, ZeroPort DEF GetPortNumber, NoPort
<1>2. ASSUME NEW p \in Ports, name.port = Htons(p)
      PROVE  GetPortNumber(name) = p /\ p \in PortNumbers
  <2>1. p \in PortNumbers
    BY ConstantsAssumption DEF ConstantsAssumption
  <2> QED BY <1>2, <2>1, HtonsInvolution DEF GetPortNumber
<1> QED BY <1>1, <1>2

\* ::bind() gives the descriptor a name that is the address, with a port.
LEMMA BindReceiveSocketSafe ==
  ASSUME Safe, NEW s \in Sockets, BindReceiveSocket(s)
  PROVE  Safe' /\ TableStep
<1> USE DEF Calling, history
<1> DEFINE fd == receiveSocket[s]
           address == call[s].address
<1>1. /\ call[s].op = "bind" /\ call[s].at = "bind" /\ call[s].fd = Invalid /\ ~bound[s]
      /\ MayBind(address) /\ address.family = protocolVersion[s]
      /\ bound' \in [Sockets -> BOOLEAN]
      /\ \A t \in Sockets : t # s => bound'[t] = bound[t]
      /\ bound'[s] <=> Bindable(fd, address) # {}
      /\ UNCHANGED <<receiveSocket, protocolVersion, listeningPort, copied, replaced>>
  BY DEF BindReceiveSocket, BindFails, MayBind, Safe, TypeOK, ObjectSafe, CallInOrder, Calls
<1>2. CASE /\ Bindable(fd, address) = {}
           /\ End(s, Result("bind", -1, 0, ZeroAddress))
           /\ UNCHANGED kernel
  <2>1. Ends(s, Result("bind", -1, 0, ZeroAddress)) /\ Result("bind", -1, 0, ZeroAddress) \in Results
    BY <1>2, EndEffect, Records DEF Safe, Result, Results
  <2>2. OnlyBy(s)
    BY <1>1, <1>2, <2>1, Records DEF OnlyBy, Ends, IsOpen
  <2>3. ObjectSafe(s)'
    BY <1>1, <1>2, <2>1, Records
    DEF Safe, Ends, ObjectSafe, CallInOrder, BindsAfresh, HolderNamed, DataWaits, IsOpen
  <2>4. NoLeak'
    BY <1>1, <1>2, <2>2, ConstantsAssumption, StillNoLeak DEF ConstantsAssumption, Invalid, IsOpen
  <2>5. TypeOK'
    BY <1>1, <1>2, <2>1, Records DEF Ends, Safe, TypeOK
  <2>6. \A f \in Fds : SocketNamed(f)'
    BY <1>2 DEF Safe, SocketNamed
  <2>7. UNCHANGED Table!vars
    BY <1>1, <1>2, <2>1, Records, TableStutter DEF Ends
  <2> QED BY <2>2, <2>3, <2>4, <2>5, <2>6, <2>7, OthersSafe DEF Safe, TableStep
<1>3. ASSUME NEW name \in Bindable(fd, address),
             kernel' = [kernel EXCEPT ![fd].name = name],
             Begin(s, [call[s] EXCEPT !.at = "getsockname"])
      PROVE  Safe' /\ TableStep
  <2> DEFINE next == [call[s] EXCEPT !.at = "getsockname"]
  <2>1. /\ fd \in Fds /\ kernel[fd].open /\ kernel[fd].name.port = 0
        /\ kernel[fd].name.family = address.family
    BY <1>1, <1>3, BindableNames DEF Safe
  <2>2. PICK p \in Ports : name = WithPort(address, p)
    BY <1>1, <1>3, BindableNames DEF Safe
  <2>3. p \in PortNumbers /\ p # 0 /\ address \in SocketAddresses
    BY <1>1, ConstantsAssumption DEF ConstantsAssumption, MayBind
  <2>4. /\ name \in SocketAddresses /\ name.port # 0 /\ name.family = address.family
        /\ name.port = Htons(p)
    BY <2>2, <2>3, WithPortFields, SamePort, HtonsPort
  <2>5. /\ next \in Calls /\ next.op = "bind" /\ next.at = "getsockname"
        /\ next.address = address /\ next.fd = Invalid
    BY <1>1 DEF Safe, TypeOK, Calls
  <2>6. /\ OthersKept(fd) /\ kernel'[fd].name = name
        /\ kernel'[fd].open /\ kernel'[fd].queue = kernel[fd].queue
    BY <1>3, <2>1, <2>4 DEF OthersKept, Safe, TypeOK, KernelSockets
  <2>7. Begins(s, next)
    BY <1>3, <2>5, BeginEffect DEF Safe
  <2>8. bound'[s] /\ fd # Invalid
    BY <1>1, <1>3, <2>1, ConstantsAssumption DEF ConstantsAssumption, Invalid
  <2> HIDE DEF fd, address, next
  <2>9. receiveSocket[s] = fd /\ call[s].address = address
    BY DEF fd, address
  <2>10. OnlyBy(s)
    BY <1>1, <2>1, <2>5, <2>6, <2>7, <2>8, <2>9, Records DEF OnlyBy, OthersKept, Begins, IsOpen
  <2>11. ObjectSafe(s)'
    <3>1. CallInOrder(s)' /\ BindsAfresh(s)'
      BY <1>1, <2>5, <2>7, <2>8, <2>9 DEF Begins, Safe, ObjectSafe, CallInOrder, BindsAfresh
    <3>2. HolderNamed(s)'
      BY <1>1, <2>1, <2>2, <2>4, <2>5, <2>6, <2>7, <2>8, <2>9 DEF Begins, HolderNamed, IsOpen
    <3>3. ~sawReady'[s]
      BY <2>5, <2>7 DEF Begins
    <3> QED BY <3>1, <3>2, <3>3 DEF ObjectSafe, DataWaits
  <2>12. NoLeak'
    BY <1>1, <2>1, <2>6, <2>8, <2>9, <2>10, ConstantsAssumption, StillNoLeak
    DEF ConstantsAssumption, Invalid, OthersKept, IsOpen
  <2>13. TypeOK'
    BY <1>1, <2>5, <2>6, <2>7, Records DEF OthersKept, Begins, Safe, TypeOK
  <2>14. \A f \in Fds : SocketNamed(f)'
    BY <2>1, <2>4, <2>6 DEF OthersKept, Safe, SocketNamed
  <2>15. UNCHANGED Table!vars
    BY <1>1, <2>1, <2>5, <2>6, <2>7, Records, TableStutter DEF OthersKept, Begins
  <2> QED BY <2>10, <2>11, <2>12, <2>13, <2>14, <2>15, OthersSafe DEF Safe, TableStep
<1> QED BY <1>2, <1>3 DEF BindReceiveSocket

\* The members tell of the name that getsockname() gives; on a descriptor that a
\* copy has closed there is more to do.
LEMMA InitialiseListeningPortSafe ==
  ASSUME Safe, NEW s \in Sockets, InitialiseListeningPort(s)
  PROVE  Safe' /\ TableStep
<1> USE DEF Calling, history
<1> DEFINE fd == receiveSocket[s]
           address == call[s].address
<1>1. /\ call[s].op = "bind" /\ call[s].at = "getsockname" /\ call[s].fd = Invalid /\ bound[s]
      /\ MayBind(address) /\ address.family = protocolVersion[s]
      /\ UNCHANGED <<bound, receiveSocket, protocolVersion, kernel, copied, replaced>>
  BY DEF InitialiseListeningPort, MayBind, Safe, TypeOK, ObjectSafe, CallInOrder, Calls
<1>2. CASE /\ IsOpen(fd)
           /\ listeningPort' =
                [listeningPort EXCEPT ![s] = ListeningPort(address, kernel[fd].name)]
           /\ End(s, Result("bind", 0, 0, WithPort(address, listeningPort'[s])))
  <2> DEFINE port == GetPortNumber(kernel[fd].name)
  <2>1. kernel[fd].name \in SocketAddresses /\ kernel[fd].name.port \in {0} \cup {Htons(p) : p \in Ports}
    BY <1>2 DEF IsOpen, Safe, TypeOK, KernelSockets, SocketNamed
  <2>2. port \in Ports \cup {NoPort} /\ port \in PortNumbers
    BY <2>1, KnownPort
  <2>3. /\ listeningPort' \in [Sockets -> Ports \cup {NoPort}] /\ listeningPort'[s] = port
        /\ \A t \in Sockets : t # s => listeningPort'[t] = listeningPort[t]
    BY <1>2, <2>2 DEF ListeningPort, Safe, TypeOK
  <2>4. WithPort(address, port) \in SocketAddresses
    BY <1>1, <2>2, WithPortFields DEF MayBind
  <2>5. /\ Ends(s, Result("bind", 0, 0, WithPort(address, port)))
        /\ Result("bind", 0, 0, WithPort(address, port)) \in Results
    BY <1>2, <2>3, <2>4, EndEffect DEF Safe, Result, Results
  <2>6. OnlyBy(s)
    BY <1>1, <2>3, <2>5, Records DEF OnlyBy, Ends, IsOpen
  <2>7. ObjectSafe(s)'
    BY <1>1, <2>3, <2>5, Records
    DEF Safe, Ends, ObjectSafe, CallInOrder, BindsAfresh, HolderNamed, DataWaits, IsOpen
  <2>8. NoLeak'
    BY <1>1, <2>6, ConstantsAssumption, StillNoLeak DEF ConstantsAssumption, Invalid, IsOpen
  <2>9. TypeOK'
    BY <1>1, <2>3, <2>5, Records DEF Ends, Safe, TypeOK
  <2>10. \A f \in Fds : SocketNamed(f)'
    BY <1>1 DEF Safe, SocketNamed
  <2>11. UNCHANGED Table!vars
    BY <1>1, <2>5, Records, TableStutter DEF Ends
  <2> QED BY <2>6, <2>7, <2>8, <2>9, <2>10, <2>11, OthersSafe DEF Safe, TableStep
<1>3. CASE /\ ~IsOpen(fd)
           /\ Begin(s, [call[s] EXCEPT !.at = "close"])
           /\ UNCHANGED listeningPort
  <2> DEFINE next == [call[s] EXCEPT !.at = "close"]
  <2>1. copied
    BY <1>1, <1>3 DEF Safe, ObjectSafe, HolderNamed
  <2>2. /\ next \in Calls /\ next.op = "bind" /\ next.at = "close"
        /\ next.address = address /\ next.fd = Invalid
    BY <1>1 DEF Safe, TypeOK, Calls
  <2> HIDE DEF next
  <2>3. Begins(s, next)
    BY <1>3, <2>2, BeginEffect DEF Safe, next
  <2>4. OnlyBy(s)
    BY <1>1, <1>3, <2>2, <2>3, Records DEF OnlyBy, Begins, IsOpen
  <2>5. ObjectSafe(s)'
    BY <1>1, <2>1, <2>2, <2>3 DEF Safe, Begins, ObjectSafe, CallInOrder, BindsAfresh
  <2>6. NoLeak'
    BY <1>1, <2>4, ConstantsAssumption, StillNoLeak DEF ConstantsAssumption, Invalid, IsOpen
  <2>7. TypeOK'
    BY <1>1, <1>3, <2>2, <2>3, Records DEF Begins, Safe, TypeOK
  <2>8. \A f \in Fds : SocketNamed(f)'
    BY <1>1 DEF Safe, SocketNamed
  <2> QED BY <1>1, <2>1, <2>4, <2>5, <2>6, <2>7, <2>8, OthersSafe DEF Safe, TableStep
<1> QED BY <1>2, <1>3 DEF InitialiseListeningPort

\* close() gives back what the object holds, which without copies nobody else does.
LEMMA GiveBackSafe ==
  ASSUME Safe, NEW s \in Sockets, call[s].op # "send",
         CloseFd(ToClose(s)), ResetMembers(s), End(s, NoResult),
         UNCHANGED <<protocolVersion, history>>
  PROVE  Safe' /\ TableStep
<1> USE DEF Calling, history
<1>1. Ends(s, NoResult) /\ call[s].fd = Invalid
  BY EndEffect DEF Safe, ObjectSafe, CallInOrder
<1>2. OthersKept(receiveSocket[s]) /\ (receiveSocket[s] \in Fds => kernel'[receiveSocket[s]] = NoSocket)
  BY CloseFdEffect DEF ToClose, Safe
<1>3. /\ bound' \in [Sockets -> BOOLEAN] /\ receiveSocket' \in [Sockets -> Fds \cup {Invalid}]
      /\ listeningPort' \in [Sockets -> Ports \cup {NoPort}]
      /\ ~bound'[s] /\ receiveSocket'[s] = Invalid
      /\ \A t \in Sockets : t # s =>
           /\ bound'[t] = bound[t] /\ receiveSocket'[t] = receiveSocket[t]
           /\ listeningPort'[t] = listeningPort[t]
      /\ UNCHANGED <<protocolVersion, copied, replaced>>
  BY DEF ResetMembers, Safe, TypeOK
<1>4. OnlyBy(s)
  BY <1>1, <1>2, <1>3, Records DEF OnlyBy, OthersKept, Ends, IsOpen
<1>5. ObjectSafe(s)'
  BY <1>1, <1>3, Records DEF Ends, ObjectSafe, CallInOrder, BindsAfresh, HolderNamed, DataWaits
<1>6. NoLeak'
  <2>1. ASSUME NEW fd \in Fds, kernel'[fd].open
        PROVE  IsOpen(fd) /\ fd # receiveSocket[s] /\ fd # call[s].fd
    BY <1>1, <1>2, <2>1, Records, ConstantsAssumption DEF ConstantsAssumption, Invalid, OthersKept, IsOpen
  <2> QED BY <1>4, <2>1, StillNoLeak
<1>7. TypeOK'
  BY <1>1, <1>2, <1>3, Records DEF OthersKept, Ends, Safe, TypeOK
<1>8. \A fd \in Fds : SocketNamed(fd)'
  BY <1>2, Records DEF OthersKept, Safe, SocketNamed
<1>9. \A r \in Sockets : call'[r].fd = call[r].fd
  BY <1>1, Records DEF Ends
<1>10. TableStep
  <2> SUFFICES ASSUME ~copied' PROVE Table!Next \/ UNCHANGED Table!vars
    BY DEF TableStep
  <2>1. CASE receiveSocket[s] = Invalid
    <3>1. receiveSocket' = receiveSocket
      BY <1>3, <2>1 DEF Safe, TypeOK
    <3>2. kernel' = kernel
      BY <1>2, <2>1, ConstantsAssumption DEF ConstantsAssumption, Invalid, OthersKept, Safe, TypeOK
    <3> QED BY <1>9, <3>1, <3>2, TableStutter
  <2>2. ASSUME NEW fd \in Fds, fd = receiveSocket[s] PROVE Table!Next
    <3>1. ~kernel'[fd].open /\ \A f \in Fds : f # fd => kernel'[f].open = kernel[f].open
      BY <1>2, <2>2, Records DEF OthersKept
    <3>2. \A t \in Sockets : t # s => receiveSocket[t] # fd
      BY <1>3, <2>2, ConstantsAssumption DEF ConstantsAssumption, Invalid, Safe, HeldOnce, Apart
    <3>3. \A p \in Holders, f \in Fds : Holds(p, f)' <=> Holds(p, f) /\ <<p, f>> # <<s, fd>>
      BY <1>3, <1>9, <2>2, <3>2, ConstantsAssumption DEF ConstantsAssumption, Invalid, Holds, Holders
    <3>4. s \in Holders /\ Holds(s, fd)
      BY <2>2, ConstantsAssumption DEF ConstantsAssumption, Holders, Holds
    <3> QED BY <3>1, <3>3, <3>4, TableRelease
  <2> QED BY <2>1, <2>2 DEF Safe, TypeOK
<1> QED BY <1>4, <1>5, <1>6, <1>7, <1>8, <1>10, OthersSafe DEF Safe

\* The caller's close() and that of a bind() without a name.
LEMMA CloseSafe ==
  ASSUME Safe, NEW s \in Sockets, Close(s) \/ AbandonBind(s)
  PROVE  Safe' /\ TableStep
<1>1. CASE Close(s)
  BY <1>1, GiveBackSafe DEF Close
<1>2. CASE AbandonBind(s)
  BY <1>2, GiveBackSafe DEF AbandonBind, Safe, ObjectSafe, CallInOrder
<1> QED BY <1>1, <1>2

\* After a copy the invariant says only what each object and queue has by itself.
LEMMA AssignSafe ==
  ASSUME Safe, NEW s \in Sockets, NEW t \in Sockets, Assign(s, t)
  PROVE  Safe' /\ TableStep
<1> USE DEF Calling
<1>1. Ends(s, NoResult)
  BY EndEffect DEF Assign, Safe
<1>2. /\ call[s].op = "none" /\ call[t].op = "none" /\ copied'
      /\ copied' \in BOOLEAN /\ replaced' \in BOOLEAN
      /\ replaced' = (replaced \/ receiveSocket[s] # Invalid)
      /\ UNCHANGED kernel
  BY DEF Assign, Replace, Safe, TypeOK
<1>3. /\ bound' \in [Sockets -> BOOLEAN] /\ receiveSocket' \in [Sockets -> Fds \cup {Invalid}]
      /\ protocolVersion' \in [Sockets -> Versions]
      /\ listeningPort' \in [Sockets -> Ports \cup {NoPort}]
      /\ bound'[s] = bound[t] /\ receiveSocket'[s] = receiveSocket[t]
      /\ \A r \in Sockets : r # s =>
           /\ bound'[r] = bound[r] /\ receiveSocket'[r] = receiveSocket[r]
           /\ protocolVersion'[r] = protocolVersion[r]
  BY DEF Assign, Safe, TypeOK
<1>4. \A r \in Sockets : ObjectSafe(r)'
  <2>1. \A r \in Sockets : CallInOrder(r) /\ BindsAfresh(r)
    BY DEF Safe, ObjectSafe
  <2>2. ASSUME NEW r \in Sockets PROVE CallInOrder(r)' /\ BindsAfresh(r)'
    <3>1. CASE r = s
      BY <1>1, <1>2, <1>3, <2>1, <3>1, Records DEF Ends, CallInOrder, BindsAfresh
    <3>2. CASE r # s
      <4>1. /\ call'[r] = call[r] /\ bound'[r] = bound[r] /\ receiveSocket'[r] = receiveSocket[r]
            /\ protocolVersion'[r] = protocolVersion[r] /\ (replaced => replaced')
        BY <1>1, <1>2, <1>3, <3>2 DEF Ends
      <4> QED BY <2>1, <4>1 DEF CallInOrder, BindsAfresh
    <3> QED BY <3>1, <3>2
  <2> QED BY <1>2, <2>2 DEF ObjectSafe
<1>5. TypeOK'
  BY <1>1, <1>2, <1>3, Records DEF Ends, Safe, TypeOK
<1>6. NoLeak'
  <2> SUFFICES ASSUME ~replaced', NEW fd \in Fds, IsOpen(fd)'
               PROVE  \E r \in Sockets : receiveSocket'[r] = fd \/ call'[r].fd = fd
    BY DEF NoLeak
  <2>1. PICK r \in Sockets : receiveSocket[r] = fd \/ call[r].fd = fd
    BY <1>2 DEF Safe, NoLeak, IsOpen
  <2>2. fd # Invalid /\ receiveSocket[s] = Invalid /\ call[s].fd = Invalid
    BY <1>2, ConstantsAssumption DEF ConstantsAssumption, Invalid, Safe, ObjectSafe, CallInOrder
  <2>3. r # s
    BY <2>1, <2>2
  <2> QED BY <1>1, <1>3, <2>1, <2>3 DEF Ends
<1>7. \A fd \in Fds : SocketNamed(fd)'
  BY <1>2 DEF Safe, SocketNamed
<1> QED BY <1>2, <1>4, <1>5, <1>6, <1>7 DEF Safe, HeldOnce, TableStep

\* A call of ready() changes nothing yet.
LEMMA ReadySafe ==
  ASSUME Safe, NEW s \in Sockets, Ready(s)
  PROVE  Safe' /\ TableStep
<1> DEFINE next == [NoCall EXCEPT !.op = "ready"]
<1>1. next \in Calls /\ next.op = "ready" /\ next.at = "none" /\ next.fd = Invalid
  BY Records DEF NoCall, Calls
<1> HIDE DEF next
<1>2. call[s].op = "none" /\ UNCHANGED <<objects, kernel, history>>
  BY DEF Ready
<1>3. CASE Begin(s, next)
  <2>1. Begins(s, next)
    BY <1>1, <1>3, BeginEffect DEF Safe
  <2> QED BY <1>1, <1>2, <2>1, Records, CallMoves DEF Begins
<1>4. CASE End(s, NoResult)
  <2>1. Ends(s, NoResult)
    BY <1>4, EndEffect DEF Safe
  <2> QED BY <1>2, <2>1, Records, CallMoves DEF Ends
<1> QED BY <1>3, <1>4 DEF Ready, next

\* select() takes nothing; ready() says yes only of a socket with data.
LEMMA PollForReadySafe ==
  ASSUME Safe, NEW s \in Sockets, PollForReady(s)
  PROVE  Safe' /\ TableStep
<1>1. /\ call[s].op = "ready" /\ Calling(s) /\ call'[s] = NoCall /\ result' = NoResult
      /\ UNCHANGED <<objects, kernel, history>>
  BY Records DEF PollForReady, Calling, Safe, TypeOK
<1>2. HasData(PollSocket(receiveSocket[s])) \in BOOLEAN
  BY DEF HasData
<1>3. HasData(PollSocket(receiveSocket[s])) =>
        IsOpen(receiveSocket[s]) /\ kernel[receiveSocket[s]].queue # << >>
  BY DEF HasData, PollSocket
<1>4. /\ sawReady' \in [Sockets -> BOOLEAN]
      /\ sawReady'[s] = HasData(PollSocket(receiveSocket[s]))
      /\ \A t \in Sockets : t # s => sawReady'[t] = sawReady[t]
  BY <1>2 DEF PollForReady, Safe, TypeOK
<1> QED BY <1>1, <1>3, <1>4, Records, CallMoves

\* sendTo() gets a number that was free for its temporary socket.
LEMMA SendToSafe ==
  ASSUME Safe, NEW s \in Sockets, NEW address \in SocketAddresses, NEW byDefault \in BOOLEAN,
         NEW length \in Lengths, address.family = AnyVersion \/ address.port # 0,
         SendTo(s, address, byDefault, length)
  PROVE  Safe' /\ TableStep
<1> USE DEF Calling, objects, history
<1>1. /\ call[s].op = "none" /\ call[s].fd = Invalid /\ UNCHANGED <<objects, history>>
      /\ address.family \in Versions
  BY DEF SendTo, Safe, ObjectSafe, CallInOrder, SocketAddresses
<1>2. CASE End(s, Result("send", -2, 0, ZeroAddress)) /\ UNCHANGED kernel
  <2>1. Ends(s, Result("send", -2, 0, ZeroAddress)) /\ Result("send", -2, 0, ZeroAddress) \in Results
    BY <1>2, EndEffect, Records DEF Safe, Result, Results
  <2> QED BY <1>1, <1>2, <2>1, Records, CallMoves DEF Ends
<1>3. ASSUME NEW fd \in SocketFds(address.family),
             kernel' = [kernel EXCEPT ![fd] = NewSocket(address.family)],
             Begin(s, [NoCall EXCEPT !.op = "send", !.address = address,
                         !.byDefault = byDefault, !.fd = fd, !.length = length])
      PROVE  Safe' /\ TableStep
  <2> DEFINE next == [NoCall EXCEPT !.op = "send", !.address = address,
                        !.byDefault = byDefault, !.fd = fd, !.length = length]
  <2>1. /\ address.family \in {IPV4, IPV6} /\ fd \in Fds /\ ~kernel[fd].open
        /\ OthersKept(fd) /\ kernel'[fd] = NewSocket(address.family)
    BY <1>1, <1>3, OpenEffect DEF Safe, IsOpen
  <2>2. kernel'[fd].open /\ kernel'[fd].name.port = 0 /\ kernel'[fd].queue = << >>
    BY <1>1, <2>1, NewSocketFields
  <2>3. /\ next \in Calls /\ next.op = "send" /\ next.at = "none" /\ next.fd = fd
        /\ next.address = address /\ next.length = length
    BY <2>1, Records DEF NoCall, Calls
  <2> HIDE DEF next
  <2>4. Begins(s, next)
    BY <1>3, <2>3, BeginEffect DEF Safe, next
  <2>5. address.port # 0 /\ fd # Invalid
    BY <2>1, ConstantsAssumption DEF ConstantsAssumption, Invalid, AnyVersion, IPV4, IPV6
  <2>6. receiveSocket[s] # fd \/ copied
    BY <2>1, <2>5 DEF Safe, ObjectSafe, HolderNamed, IsOpen
  <2>7. NoLeak'
    <3> SUFFICES ASSUME ~replaced', NEW f \in Fds, IsOpen(f)'
                 PROVE  \E t \in Sockets : receiveSocket'[t] = f \/ call'[t].fd = f
      BY DEF NoLeak
    <3>1. CASE f = fd
      BY <2>3, <2>4, <3>1 DEF Begins
    <3>2. CASE f # fd
      <4>1. PICK t \in Sockets : receiveSocket[t] = f \/ call[t].fd = f
        BY <1>1, <2>1, <3>2 DEF OthersKept, Safe, NoLeak, IsOpen
      <4>2. f # Invalid
        BY ConstantsAssumption DEF ConstantsAssumption, Invalid
      <4> QED BY <1>1, <2>4, <4>1, <4>2 DEF Begins
    <3> QED BY <3>1, <3>2
  <2>8. TypeOK'
    BY <1>1, <2>1, <2>4, <2>3, Records DEF Begins, OthersKept, Safe, TypeOK
  <2>9. \A f \in Fds : SocketNamed(f)'
    BY <2>1, <2>2 DEF OthersKept, Safe, SocketNamed
  <2>10. ASSUME copied' PROVE (\A t \in Sockets : ObjectSafe(t)') /\ HeldOnce'
    <3>1. \A t \in Sockets : CallInOrder(t) /\ BindsAfresh(t)
      BY DEF Safe, ObjectSafe
    <3>2. ASSUME NEW t \in Sockets PROVE CallInOrder(t)' /\ BindsAfresh(t)'
      <4>1. CASE t = s
        BY <1>1, <2>3, <2>4, <2>5, <3>1, <4>1 DEF Begins, CallInOrder, BindsAfresh
      <4>2. CASE t # s
        BY <1>1, <2>4, <3>1, <4>2 DEF Begins, CallInOrder, BindsAfresh
      <4> QED BY <4>1, <4>2
    <3> QED BY <2>10, <3>2 DEF ObjectSafe, HeldOnce
  <2>11. ASSUME ~copied' PROVE (\A t \in Sockets : ObjectSafe(t)') /\ HeldOnce'
    <3>1. OnlyBy(s)
      BY <1>1, <2>1, <2>3, <2>4, <2>5, <2>6, <2>11 DEF OnlyBy, OthersKept, Begins, FreeFds, IsOpen
    <3>2. ObjectSafe(s)'
      BY <1>1, <2>1, <2>2, <2>3, <2>4, <2>5, <2>6, <2>11
      DEF Begins, OthersKept, Safe, ObjectSafe, CallInOrder, BindsAfresh, HolderNamed, DataWaits, IsOpen
    <3> QED BY <3>1, <3>2, OthersSafe
  <2>12. TableStep
    <3>1. \A r \in Sockets : call'[r].fd = IF r = s THEN fd ELSE call[r].fd
      BY <2>3, <2>4 DEF Begins
    <3>2. \A p \in Holders, f \in Fds : Holds(p, f)' <=> Holds(p, f) \/ <<p, f>> = <<"temporary", fd>>
      <4> SUFFICES ASSUME NEW p \in Holders, NEW f \in Fds
                   PROVE  Holds(p, f)' <=> Holds(p, f) \/ <<p, f>> = <<"temporary", fd>>
        OBVIOUS
      <4>1. CASE p = "temporary"
        <5>1. call[s].fd # f
          BY <1>1, ConstantsAssumption DEF ConstantsAssumption, Invalid
        <5>2. (\E r \in Sockets : call'[r].fd = f) <=> (\E r \in Sockets : call[r].fd = f) \/ f = fd
          BY <3>1, <5>1
        <5> QED BY <4>1, <5>2 DEF Holds
      <4>2. CASE p # "temporary"
        BY <1>1, <4>2 DEF Holds
      <4> QED BY <4>1, <4>2
    <3>3. "temporary" \in Holders
      BY DEF Holders
    <3> QED BY <2>1, <2>2, <3>2, <3>3, TableAcquire DEF OthersKept, TableStep
  <2> QED BY <2>7, <2>8, <2>9, <2>10, <2>11, <2>12 DEF Safe
<1> QED BY <1>2, <1>3 DEF SendTo

\* sendTo() delivers at most one datagram, to a socket with its address as name,
\* and closes its own.
LEMMA SendDatagramSafe ==
  ASSUME Safe, NEW s \in Sockets, SendDatagram(s)
  PROVE  Safe' /\ TableStep
<1> USE DEF Calling, objects, history
<1> DEFINE own == call[s].fd
           datagram == [to |-> call[s].address, length |-> call[s].length]
           rest == [kernel EXCEPT ![own] = NoSocket]
           Kept == /\ kernel' \in [Fds -> KernelSockets]
                   /\ ~kernel'[own].open /\ kernel'[own].queue = << >>
                   /\ \A f \in Fds : f # own =>
                        /\ kernel'[f].open = kernel[f].open /\ kernel'[f].name = kernel[f].name
                        /\ kernel[f].queue # << >> => kernel'[f].queue # << >>
                   /\ \A f \in Fds : SocketNamed(f)'
<1>1. /\ call[s].op = "send" /\ own \in Fds /\ own # Invalid
      /\ datagram \in Datagrams /\ call[s].address.port # 0 /\ call[s].length \in Lengths
      /\ UNCHANGED <<objects, history>>
  BY ConstantsAssumption
  DEF ConstantsAssumption, Invalid, SendDatagram, Safe, TypeOK, ObjectSafe, CallInOrder, Calls, Datagrams
<1>2. \E res \in Results : End(s, res)
  <2>1. Result("send", -1, 0, ZeroAddress) \in Results
    BY Records DEF Result, Results
  <2>2. Result("send", call[s].length, 0, ZeroAddress) \in Results
    BY <1>1, Records, ConstantsAssumption DEF ConstantsAssumption, Result, Results
  <2> QED BY <2>1, <2>2 DEF SendDatagram
<1>3. PICK res \in Results : Ends(s, res)
  BY <1>2, EndEffect DEF Safe
<1>4. ASSUME kernel' = rest PROVE Kept
  BY <1>1, <1>4, Records DEF Safe, TypeOK, SocketNamed
<1>5. ASSUME NEW fd \in Fds \ {own}, kernel[fd].name = call[s].address,
             NEW i \in 1..Len(kernel[fd].queue) + 1,
             kernel' = [rest EXCEPT ![fd].queue = InsertAt(@, i, datagram)]
      PROVE  Kept
  <2> DEFINE q == kernel[fd].queue
  <2> HIDE DEF datagram
  <2>1. /\ q \in Seq(Datagrams) /\ kernel[fd] \in KernelSockets
        /\ i \in 1..Len(q) + 1 /\ datagram \in Datagrams
    BY <1>1 DEF Safe, TypeOK, KernelSockets
  <2>0. kernel' = [rest EXCEPT ![fd].queue = InsertAt(@, i, datagram)]
    BY <1>5
  <2> HIDE DEF q
  <2>2. /\ InsertAt(q, i, datagram) \in Seq(Datagrams) /\ InsertAt(q, i, datagram) # << >>
        /\ HoldsOnly(InsertAt(q, i, datagram), q, datagram)
    BY <2>1, Inserted
  <2>3. rest \in [Fds -> KernelSockets] /\ rest[fd] = kernel[fd]
    BY Records DEF Safe, TypeOK
  <2>4. kernel' = [rest EXCEPT ![fd].queue = InsertAt(q, i, datagram)]
    BY <2>0, <2>3 DEF q
  <2>5. /\ kernel' \in [Fds -> KernelSockets]
        /\ kernel'[fd].queue = InsertAt(q, i, datagram)
        /\ kernel'[fd].open = kernel[fd].open /\ kernel'[fd].name = kernel[fd].name
        /\ \A f \in Fds : f # fd => kernel'[f] = rest[f]
    <3> HIDE DEF rest
    <3> QED BY <2>2, <2>3, <2>4 DEF KernelSockets
  <2>6. SocketNamed(fd)'
    <3>1. /\ kernel[fd].name.port # 0 /\ datagram.to = kernel[fd].name
          /\ kernel[fd].name.port \in {0} \cup {Htons(p) : p \in Ports}
      BY <1>1, <1>5 DEF datagram, Safe, SocketNamed
    <3>2. \A k \in 1..Len(q) : q[k].to = kernel[fd].name
      <4>1. q # << >> => \A k \in 1..Len(q) : q[k].to = kernel[fd].name
        BY DEF q, Safe, SocketNamed
      <4>2. q = << >> => Len(q) = 0
        OBVIOUS
      <4> QED BY <4>1, <4>2
    <3> QED BY <2>2, <2>5, <3>1, <3>2 DEF SocketNamed, HoldsOnly
  <2>7. ASSUME NEW f \in Fds PROVE SocketNamed(f)'
    <3>1. CASE f = own
      BY <1>1, <1>5, <2>5, <3>1, Records DEF SocketNamed, Safe, TypeOK
    <3>2. CASE f # own /\ f # fd
      BY <1>1, <2>5, <3>2 DEF SocketNamed, Safe, TypeOK
    <3> QED BY <2>6, <3>1, <3>2
  <2> QED BY <1>1, <2>2, <2>3, <2>5, <2>7, Records DEF Safe, TypeOK
<1> HIDE DEF Kept, rest
<1>6. Kept
  BY <1>4, <1>5 DEF SendDatagram, rest, datagram
<1> HIDE DEF own, datagram
<1>7. call[s].fd = own
  BY DEF own
<1>8. OnlyBy(s)
  BY <1>1, <1>3, <1>6, <1>7, Records DEF Kept, Ends, OnlyBy, IsOpen
<1>9. ObjectSafe(s)'
  <2>1. CallInOrder(s)' /\ BindsAfresh(s)'
    BY <1>1, <1>3, Records DEF Ends, Safe, ObjectSafe, CallInOrder, BindsAfresh
  <2>2. ASSUME ~copied PROVE HolderNamed(s)' /\ DataWaits(s)'
    <3>1. HolderNamed(s) /\ (receiveSocket[s] # Invalid => receiveSocket[s] # own)
      BY <1>7, <2>2 DEF Safe, ObjectSafe, HeldOnce, Apart
    <3> QED BY <1>1, <1>3, <1>6, <3>1, Records DEF Kept, Ends, HolderNamed, DataWaits, IsOpen
  <2> QED BY <1>1, <2>1, <2>2 DEF ObjectSafe
<1>10. NoLeak'
  <2>1. ASSUME NEW fd \in Fds, kernel'[fd].open
        PROVE  IsOpen(fd) /\ fd # own
    BY <1>1, <1>6, <2>1 DEF Kept, IsOpen
  <2> SUFFICES ASSUME ~replaced', NEW fd \in Fds, IsOpen(fd)'
               PROVE  \E t \in Sockets : receiveSocket'[t] = fd \/ call'[t].fd = fd
    BY DEF NoLeak
  <2>2. PICK t \in Sockets : receiveSocket[t] = fd \/ call[t].fd = fd
    BY <1>1, <2>1 DEF Safe, NoLeak, IsOpen
  <2> QED BY <1>1, <1>3, <1>7, <2>1, <2>2 DEF Ends, IsOpen
<1>11. TypeOK'
  BY <1>1, <1>3, <1>6, Records DEF Kept, Ends, Safe, TypeOK
<1>12. ASSUME ~copied' PROVE Table!Next
  <2>1. \A t \in Sockets : t # s => call[t].fd # own
    BY <1>1, <1>7, <1>12 DEF Safe, HeldOnce, Apart
  <2>2. \A r \in Sockets : call'[r].fd = IF r = s THEN Invalid ELSE call[r].fd
    BY <1>3, Records DEF Ends
  <2>3. \A p \in Holders, f \in Fds : Holds(p, f)' <=> Holds(p, f) /\ <<p, f>> # <<"temporary", own>>
    <3> SUFFICES ASSUME NEW p \in Holders, NEW f \in Fds
                 PROVE  Holds(p, f)' <=> Holds(p, f) /\ <<p, f>> # <<"temporary", own>>
      OBVIOUS
    <3>1. CASE p = "temporary"
      <4>1. f # Invalid
        BY ConstantsAssumption DEF ConstantsAssumption, Invalid
      <4>2. (\E r \in Sockets : call'[r].fd = f) <=> (\E r \in Sockets : call[r].fd = f) /\ f # own
        BY <1>7, <2>1, <2>2, <4>1
      <4> QED BY <3>1, <4>2 DEF Holds
    <3>2. CASE p # "temporary"
      BY <1>1, <3>2 DEF Holds
    <3> QED BY <3>1, <3>2
  <2>4. "temporary" \in Holders /\ Holds("temporary", own)
    BY <1>7 DEF Holders, Holds
  <2> QED BY <1>1, <1>6, <2>3, <2>4, TableRelease DEF Kept
<1> QED BY <1>6, <1>8, <1>9, <1>10, <1>11, <1>12, OthersSafe DEF Kept, Safe, TableStep

\* receiveFrom() fails in a thread that is not in sendTo().
LEMMA ReceiveFailsSafe ==
  ASSUME Safe, NEW s \in Sockets, NEW n \in ReceiveLengths, ReceiveFails(s, n),
         call[s].op \notin {"send", "bind"}, UNCHANGED <<objects, kernel, history>>
  PROVE  Safe' /\ TableStep
<1> DEFINE res == Result("receive", -1, StringLength(-1, n), ZeroAddress)
<1>1. n \in Nat
  BY ConstantsAssumption DEF ConstantsAssumption
<1>2. StringLength(-1, n) = n
  BY <1>1 DEF StringLength
<1>3. res \in Results
  BY <1>1, <1>2, Records DEF Result, Results
<1>4. Ends(s, res)
  BY EndEffect DEF ReceiveFails, Safe
<1> QED BY <1>3, <1>4, Records, CallMoves DEF Ends

\* A call of receiveFrom() changes nothing yet.
LEMMA ReceiveFromSafe ==
  ASSUME Safe, NEW s \in Sockets, NEW n \in ReceiveLengths, ReceiveFrom(s, n)
  PROVE  Safe' /\ TableStep
<1> DEFINE next == [NoCall EXCEPT !.op = "receive", !.length = n]
<1>1. next \in Calls /\ next.op = "receive" /\ next.at = "none" /\ next.fd = Invalid
  BY Records DEF NoCall, Calls
<1> HIDE DEF next
<1>2. call[s].op = "none" /\ UNCHANGED <<objects, kernel, history>>
  BY DEF ReceiveFrom
<1>3. CASE bound[s] /\ Begin(s, next)
  <2>1. Begins(s, next)
    BY <1>1, <1>3, BeginEffect DEF Safe
  <2>2. ~copied /\ sawReady'[s] => IsOpen(receiveSocket[s]) /\ kernel[receiveSocket[s]].queue # << >>
    BY <2>1 DEF Begins, Safe, ObjectSafe, DataWaits
  <2> QED BY <1>1, <1>2, <1>3, <2>1, <2>2, Records, CallMoves DEF Begins
<1>4. CASE ReceiveFails(s, n)
  BY <1>2, <1>4, ReceiveFailsSafe
<1> QED BY <1>3, <1>4 DEF ReceiveFrom, next

\* receiveFrom() takes the first datagram, and only its caller does.
LEMMA ReceiveDatagramSafe ==
  ASSUME Safe, NEW s \in Sockets, ReceiveDatagram(s)
  PROVE  Safe' /\ TableStep
<1> USE DEF Calling, objects, history
<1> DEFINE fd == receiveSocket[s]
           n == call[s].length
<1>1. /\ call[s].op = "receive" /\ call[s].fd = Invalid /\ n \in Nat
      /\ UNCHANGED <<objects, history>>
  BY ConstantsAssumption
  DEF ConstantsAssumption, ReceiveDatagram, Safe, TypeOK, ObjectSafe, CallInOrder, Calls
<1>2. CASE ~IsOpen(fd) /\ ReceiveFails(s, n) /\ UNCHANGED kernel
  <2>1. StringLength(-1, n) = n
    BY <1>1 DEF StringLength
  <2>2. Result("receive", -1, n, ZeroAddress) \in Results
    BY <1>1, Records DEF Result, Results
  <2>3. Ends(s, Result("receive", -1, n, ZeroAddress))
    BY <1>2, <2>1, EndEffect DEF ReceiveFails, Safe
  <2> QED BY <1>1, <1>2, <2>2, <2>3, Records, CallMoves DEF Ends
<1>3. ASSUME IsOpen(fd), kernel[fd].queue # << >>,
             \E flag \in Nat : End(s, Result("receive", flag, StringLength(flag, n), Head(kernel[fd].queue).to)),
             kernel' = [kernel EXCEPT ![fd].queue = Tail(@)]
      PROVE  Safe' /\ TableStep
  <2> DEFINE q == kernel[fd].queue
  <2>1. /\ fd \in Fds /\ fd # Invalid /\ kernel[fd].open /\ kernel[fd] \in KernelSockets
        /\ q \in Seq(Datagrams) /\ q # << >>
    BY <1>3, ConstantsAssumption DEF ConstantsAssumption, Invalid, IsOpen, Safe, TypeOK, KernelSockets
  <2>2. kernel[fd].name.port # 0 /\ \A i \in 1..Len(q) : q[i].to = kernel[fd].name
    BY <2>1 DEF Safe, SocketNamed
  <2>3. kernel' = [kernel EXCEPT ![fd].queue = Tail(q)]
    BY <1>3
  <2>4. PICK flag \in Nat : End(s, Result("receive", flag, StringLength(flag, n), Head(q).to))
    BY <1>3
  <2> HIDE DEF q
  <2>5. /\ Tail(q) \in Seq(Datagrams) /\ Head(q) \in Datagrams
        /\ \A i \in 1..Len(Tail(q)) : Tail(q)[i].to = kernel[fd].name
    <3>1. Tail(q) \in Seq(Datagrams) /\ Head(q) \in Datagrams /\ Len(Tail(q)) = Len(q) - 1
      BY <2>1
    <3>2. \A i \in 1..Len(q) - 1 : Tail(q)[i] = q[i + 1] /\ i + 1 \in 1..Len(q)
      BY <2>1
    <3> QED BY <2>2, <3>1, <3>2
  <2>6. /\ kernel' \in [Fds -> KernelSockets] /\ kernel'[fd].queue = Tail(q)
        /\ kernel'[fd].open /\ kernel'[fd].open = kernel[fd].open
        /\ kernel'[fd].name = kernel[fd].name
        /\ \A f \in Fds : f # fd => kernel'[f] = kernel[f]
    BY <2>1, <2>3, <2>5 DEF Safe, TypeOK, KernelSockets
  <2>7. PICK res \in Results : Ends(s, res)
    <3>1. StringLength(flag, n) \in Nat
      BY <1>1 DEF StringLength
    <3>2. Result("receive", flag, StringLength(flag, n), Head(q).to) \in Results
      BY <2>5, <3>1 DEF Datagrams, Result, Results
    <3> QED BY <2>4, <3>2, EndEffect DEF Safe
  <2> HIDE DEF fd, n
  <2>8. fd = receiveSocket[s]
    BY DEF fd
  <2>9. OnlyBy(s)
    BY <1>1, <2>6, <2>7, <2>8, Records DEF Ends, OnlyBy, IsOpen
  <2>10. ObjectSafe(s)'
    BY <1>1, <2>1, <2>6, <2>7, <2>8, Records
    DEF Ends, Safe, ObjectSafe, CallInOrder, BindsAfresh, HolderNamed, DataWaits, IsOpen
  <2>11. NoLeak'
    <3>1. ASSUME NEW f \in Fds, kernel'[f].open
          PROVE  IsOpen(f) /\ f # call[s].fd
      BY <1>1, <2>1, <2>6, <3>1, ConstantsAssumption DEF ConstantsAssumption, Invalid, IsOpen
    <3> QED BY <1>1, <2>8, <2>9, <3>1, StillNoLeak
  <2>12. TypeOK'
    BY <1>1, <2>6, <2>7, Records DEF Ends, Safe, TypeOK
  <2>13. ASSUME NEW f \in Fds PROVE SocketNamed(f)'
    <3>1. CASE f = fd
      <4>1. kernel[fd].name.port \in {0} \cup {Htons(p) : p \in Ports}
        BY <2>1 DEF Safe, SocketNamed
      <4> QED BY <2>2, <2>5, <2>6, <3>1, <4>1 DEF SocketNamed
    <3>2. CASE f # fd
      <4>1. kernel'[f] = kernel[f] /\ SocketNamed(f)
        BY <2>6, <3>2 DEF Safe
      <4> QED BY <4>1 DEF SocketNamed
    <3> QED BY <3>1, <3>2
  <2>14. UNCHANGED Table!vars
    <3>1. \A f \in Fds : kernel'[f].open = kernel[f].open
      BY <2>1, <2>6
    <3>2. \A r \in Sockets : call'[r].fd = call[r].fd
      BY <1>1, <2>7, Records DEF Ends
    <3> QED BY <1>1, <3>1, <3>2, TableStutter
  <2> QED BY <2>9, <2>10, <2>11, <2>12, <2>13, <2>14, OthersSafe DEF Safe, TableStep
<1>4. ASSUME ReceiveDatagram(s), IsOpen(fd), kernel[fd].queue # << >>
      PROVE  \E flag \in Nat : End(s, Result("receive", flag, StringLength(flag, n), Head(kernel[fd].queue).to))
  <2>1. Head(kernel[fd].queue) \in Datagrams
    BY <1>4 DEF IsOpen, Safe, TypeOK, KernelSockets
  <2>2. Head(kernel[fd].queue).length \in Nat
    BY <2>1, ConstantsAssumption DEF ConstantsAssumption, Datagrams
  <2> QED BY <1>1, <1>4, <2>2 DEF ReceiveDatagram
<1> QED BY <1>2, <1>3, <1>4 DEF ReceiveDatagram

\* bind() of host names that do not resolve throws.
LEMMA BindSafe ==
  ASSUME Safe, NEW s \in Sockets, NEW addresses, addresses # << >> => MayBind(addresses[1]),
         Bind(s, addresses)
  PROVE  Safe' /\ TableStep
<1>1. CASE addresses # << >> /\ BindAddress(s, addresses[1])
  BY <1>1, BindAddressSafe
<1>2. CASE call[s].op = "none" /\ End(s, NoResult) /\ UNCHANGED <<objects, kernel, history>>
  <2>1. Ends(s, NoResult)
    BY <1>2, EndEffect DEF Safe
  <2> QED BY <1>2, <2>1, Records, CallMoves DEF Ends
<1> QED BY <1>1, <1>2 DEF Bind

\* sendTo() of a host name that does not resolve sends nothing.
LEMMA SendToHostnameSafe ==
  ASSUME Safe, NEW s \in Sockets, NEW addresses, NEW byDefault \in BOOLEAN, NEW length \in Lengths,
         addresses # << >> => /\ addresses[1] \in SocketAddresses
                              /\ addresses[1].family = AnyVersion \/ addresses[1].port # 0,
         SendToHostname(s, addresses, byDefault, length)
  PROVE  Safe' /\ TableStep
<1>1. CASE addresses # << >> /\ SendTo(s, addresses[1], byDefault, length)
  BY <1>1, SendToSafe
<1>2. CASE /\ call[s].op = "none" /\ End(s, Result("send", 0, 0, ZeroAddress))
           /\ UNCHANGED <<objects, kernel, history>>
  <2>1. Result("send", 0, 0, ZeroAddress) \in Results
    BY Records DEF Result, Results
  <2>2. Ends(s, Result("send", 0, 0, ZeroAddress))
    BY <1>2, EndEffect DEF Safe
  <2> QED BY <1>2, <2>1, <2>2, Records, CallMoves DEF Ends
<1> QED BY <1>1, <1>2 DEF SendToHostname

\* The addresses that callers bind to ...
LEMMA LocalAddresses ==
  ASSUME NEW addresses \in {<<ZeroAddress>>} \cup UNION {Local(version) : version \in Versions},
         addresses # << >>
  PROVE  MayBind(addresses[1])
<1>1. CASE addresses = <<ZeroAddress>>
  BY <1>1, Records DEF MayBind
<1>2. ASSUME NEW version \in Versions, addresses \in Local(version) PROVE MayBind(addresses[1])
  <2>1. PICK name \in Hostnames \cup {NullOpt}, p \in Ports \cup {NoPort} :
          addresses = ResolveLocal(name, p, version)
    BY <1>2 DEF Local
  <2> DEFINE hostname == IF name = NullOpt THEN GetLocalAddress(version) ELSE name
  <2>2. hostname \in Names /\ p \in PortNumbers
    BY <2>1, ZeroPort, ConstantsAssumption DEF ConstantsAssumption, Names, NoPort
  <2>3. addresses = ResolveToAddresses(hostname, p, CreateHints(version))
    BY <2>1 DEF ResolveLocal
  <2> HIDE DEF hostname
  <2>4. addresses[1] \in SocketAddresses /\ addresses[1].port = Htons(p)
    BY <2>2, <2>3, Resolved
  <2>5. p = 0 => Htons(p) = 0
    BY <2>2, HtonsPort
  <2> QED BY <2>1, <2>4, <2>5 DEF MayBind, NoPort
<1> QED BY <1>1, <1>2

\* ... and send to.
LEMMA RemoteAddresses ==
  ASSUME NEW version \in Versions, NEW addresses \in Remote(version), addresses # << >>
  PROVE  addresses[1] \in SocketAddresses /\ addresses[1].port # 0
<1>1. PICK name \in Hostnames, p \in Ports : addresses = ResolveToAddresses(name, p, CreateHints(version))
  BY DEF Remote
<1>2. name \in Names /\ p \in PortNumbers /\ p # 0
  BY ConstantsAssumption DEF ConstantsAssumption, Names
<1> QED BY <1>1, <1>2, Resolved, HtonsPort

\* Initially there are no sockets and no calls.
LEMMA InitSafe ==
  ASSUME Init
  PROVE  Safe
<1> USE DEF Init, Invalid
<1>1. TypeOK
  BY Records DEF TypeOK, Versions, NoPort
<1>2. \A s \in Sockets : ObjectSafe(s)
  BY Records DEF ObjectSafe, CallInOrder, BindsAfresh, HolderNamed, DataWaits
<1>3. HeldOnce
  BY Records DEF HeldOnce, Apart
<1>4. (\A fd \in Fds : SocketNamed(fd)) /\ NoLeak
  BY Records DEF SocketNamed, NoLeak, IsOpen
<1> QED BY <1>1, <1>2, <1>3, <1>4 DEF Safe

\* Every step keeps the invariant, and is one of DescriptorTable or none.
LEMMA NextSafe ==
  ASSUME Safe, [Next]_vars
  PROVE  Safe' /\ TableStep
<1>1. ASSUME NEW s \in Sockets, Call(s) PROVE Safe' /\ TableStep
  <2>1. ASSUME NEW addresses \in {<<ZeroAddress>>} \cup UNION {Local(version) : version \in Versions},
               Bind(s, addresses)
        PROVE  Safe' /\ TableStep
    BY <2>1, LocalAddresses, BindSafe
  <2>2. CASE Ready(s)
    BY <2>2, ReadySafe
  <2>3. ASSUME NEW length \in Lengths, NEW byDefault \in BOOLEAN, NEW version \in Versions,
               NEW addresses \in {<<ZeroAddress>>} \cup Remote(version),
               SendToHostname(s, addresses, byDefault, length)
        PROVE  Safe' /\ TableStep
    <3>1. CASE addresses = <<ZeroAddress>>
      BY <2>3, <3>1, Records, SendToHostnameSafe
    <3>2. CASE addresses \in Remote(version)
      BY <2>3, <3>2, RemoteAddresses, SendToHostnameSafe
    <3> QED BY <3>1, <3>2
  <2>4. ASSUME NEW n \in ReceiveLengths, ReceiveFrom(s, n) PROVE Safe' /\ TableStep
    BY <2>4, ReceiveFromSafe
  <2>5. CASE Close(s)
    BY <2>5, CloseSafe
  <2>6. IPV4 \in Versions /\ IPV6 \in Versions /\ AnyVersion \in Versions
    BY DEF Versions
  <2> QED BY <1>1, <2>1, <2>2, <2>3, <2>4, <2>5, <2>6 DEF Call
<1>2. ASSUME NEW s \in Sockets, Step(s) PROVE Safe' /\ TableStep
  BY <1>2, BindReceiveSocketSafe, InitialiseListeningPortSafe, CloseSafe, PollForReadySafe,
     SendDatagramSafe, ReceiveDatagramSafe DEF Step
<1>3. ASSUME NEW s \in Sockets, NEW t \in Sockets, Assign(s, t) PROVE Safe' /\ TableStep
  BY <1>3, AssignSafe
<1>4. CASE UNCHANGED vars
  <2>1. UNCHANGED <<bound, receiveSocket, protocolVersion, listeningPort, kernel, call, result, sawReady, copied, replaced>>
    BY <1>4 DEF vars, objects, history
  <2>2. \A s \in Sockets : ObjectSafe(s)'
    BY <2>1 DEF Safe, ObjectSafe, CallInOrder, BindsAfresh, HolderNamed, DataWaits, IsOpen
  <2>3. TypeOK' /\ HeldOnce' /\ (\A fd \in Fds : SocketNamed(fd)') /\ NoLeak'
    BY <2>1 DEF Safe, TypeOK, HeldOnce, Apart, SocketNamed, NoLeak, IsOpen
  <2> QED BY <2>1, <2>2, <2>3, TableStutter DEF Safe, TableStep
<1> QED BY <1>1, <1>2, <1>3, <1>4 DEF Next

\* The call of a thread goes on by its own steps only, and which one ends a call
\* is known from the call.
LEMMA OwnSteps ==
  ASSUME Safe, [Next]_vars, NEW s \in Sockets, call[s].op # "none", call'[s].op = "none"
  PROVE  /\ call[s].op = "bind" =>
              BindReceiveSocket(s) \/ InitialiseListeningPort(s) \/ AbandonBind(s)
         /\ call[s].op = "ready" => PollForReady(s)
         /\ call[s].op = "send" => SendDatagram(s)
         /\ call[s].op = "receive" => ReceiveDatagram(s)
<1>1. \A t \in Sockets : \A c : call' = [call EXCEPT ![t] = c] => t = s
  BY DEF Safe, TypeOK
<1>2. \A t \in Sockets : \A c : Begin(t, c) => t = s
  BY <1>1 DEF Begin
<1>3. \A t \in Sockets : \A res : End(t, res) => t = s
  BY <1>1 DEF End
<1>4. call' # call
  OBVIOUS
<1>5. ASSUME NEW t \in Sockets, Call(t) PROVE t = s /\ call[t].op = "none"
  <2>1. ASSUME NEW addresses, Bind(t, addresses) PROVE t = s /\ call[t].op = "none"
    <3>1. CASE BindAddress(t, addresses[1])
      BY <1>2, <1>3, <3>1 DEF BindAddress
    <3>2. CASE ~BindAddress(t, addresses[1])
      BY <1>3, <2>1, <3>2 DEF Bind
    <3> QED BY <3>1, <3>2
  <2>2. ASSUME Ready(t) PROVE t = s /\ call[t].op = "none"
    BY <1>2, <1>3, <2>2 DEF Ready
  <2>3. ASSUME NEW addresses, NEW byDefault, NEW length, SendToHostname(t, addresses, byDefault, length)
        PROVE  t = s /\ call[t].op = "none"
    <3>1. CASE SendTo(t, addresses[1], byDefault, length)
      BY <1>2, <1>3, <3>1 DEF SendTo
    <3>2. CASE ~SendTo(t, addresses[1], byDefault, length)
      BY <1>3, <2>3, <3>2 DEF SendToHostname
    <3> QED BY <3>1, <3>2
  <2>4. ASSUME NEW n, ReceiveFrom(t, n) PROVE t = s /\ call[t].op = "none"
    BY <1>2, <1>3, <2>4 DEF ReceiveFrom, ReceiveFails
  <2>5. ASSUME Close(t) PROVE t = s /\ call[t].op = "none"
    BY <1>3, <2>5 DEF Close
  <2> QED BY <1>5, <2>1, <2>2, <2>3, <2>4, <2>5 DEF Call
<1>6. ASSUME NEW t \in Sockets, Step(t) PROVE t = s
  <2>1. BindReceiveSocket(t) => t = s
    BY <1>2, <1>3 DEF BindReceiveSocket
  <2>5. InitialiseListeningPort(t) => t = s
    BY <1>2, <1>3 DEF InitialiseListeningPort
  <2>6. AbandonBind(t) => t = s
    BY <1>3 DEF AbandonBind
  <2>2. PollForReady(t) => t = s
    BY <1>1 DEF PollForReady
  <2>3. SendDatagram(t) => t = s
    BY <1>3 DEF SendDatagram
  <2>4. ReceiveDatagram(t) => t = s
    BY <1>3 DEF ReceiveDatagram, ReceiveFails
  <2> QED BY <1>6, <2>1, <2>2, <2>3, <2>4, <2>5, <2>6 DEF Step
<1>7. ASSUME NEW t \in Sockets, NEW u \in Sockets, Assign(t, u) PROVE t = s /\ call[t].op = "none"
  BY <1>3, <1>7 DEF Assign
<1>8. Step(s)
  BY <1>4, <1>5, <1>6, <1>7 DEF Next, vars
<1>9. call[s].at # "none" => call[s].op = "bind"
  BY DEF Safe, ObjectSafe, CallInOrder
<1>10. /\ BindReceiveSocket(s) \/ InitialiseListeningPort(s) \/ AbandonBind(s) => call[s].op = "bind"
       /\ PollForReady(s) => call[s].op = "ready"
       /\ SendDatagram(s) => call[s].op = "send"
       /\ ReceiveDatagram(s) => call[s].op = "receive"
  BY <1>9 DEF BindReceiveSocket, InitialiseListeningPort, AbandonBind, PollForReady, SendDatagram, ReceiveDatagram
<1> QED BY <1>8, <1>10 DEF Step

\* The invariant holds in every behaviour.
THEOREM SafetyInvariant == Spec => []Safe
<1>1. Safe /\ [Next]_vars => Safe'
  BY NextSafe
<1> QED BY InitSafe, <1>1, PTL DEF Spec

\* The variables keep their types.
THEOREM TypeCorrect == Spec => []TypeOK
<1>1. Safe => TypeOK
  BY DEF Safe
<1> QED BY SafetyInvariant, <1>1, PTL

\* Without copies, what an object reports once it is bound, after whatever
\* bind()s that failed before, is true of its descriptor if it has one.
THEOREM BoundIsReported == Spec => []BoundAsReported
<1>1. Safe => BoundAsReported
  <2> SUFFICES ASSUME Safe, ~copied, NEW s \in Sockets, bound[s], call[s].op # "bind",
                      receiveSocket[s] # Invalid
               PROVE  /\ IsBound(receiveSocket[s])
                      /\ GetInternetProtocolVersion(kernel[receiveSocket[s]].name) = protocolVersion[s]
                      /\ GetPortNumber(kernel[receiveSocket[s]].name) = listeningPort[s]
    BY DEF BoundAsReported
  <2>1. HolderNamed(s) /\ protocolVersion[s] \in Versions
    BY DEF Safe, ObjectSafe, TypeOK
  <2> QED BY <2>1 DEF HolderNamed, IsBound, GetInternetProtocolVersion, Versions
<1> QED BY SafetyInvariant, <1>1, PTL

\* Neither bind(), which closes the wrong socket, nor a copy loses a descriptor
\* of callers that close before they bind or assign again.
THEOREM NoDescriptorLeak == Spec => []NoLeak
<1>1. Safe => NoLeak
  BY DEF Safe
<1> QED BY SafetyInvariant, <1>1, PTL

\* receiveFrom() does not block after a ready() that said yes.
THEOREM ReadyIsKept == Spec => []ReadyMeansReceives
<1>1. Safe => ReadyMeansReceives
  BY DEF Safe, ObjectSafe, DataWaits, ReadyMeansReceives
<1> QED BY SafetyInvariant, <1>1, PTL

\* bind() of an object without a socket fails only on an address that is taken:
\* the descriptor it made is still there, has the family and has no name.
THEOREM FreshBindSucceeds == Spec => FreshBindBinds
<1>1. ASSUME Safe, [Next]_vars, NEW s \in Sockets, ~copied, ~replaced,
             call[s].op = "bind", call'[s].op = "none", ~bound'[s], NEW p \in Ports,
             call[s].address.port \in {0, Htons(p)}
      PROVE  \E fd \in Fds : kernel[fd].name = WithPort(call[s].address, p)
  <2> DEFINE own == receiveSocket[s]
             address == call[s].address
  <2>1. BindReceiveSocket(s)
    <3>1. ~InitialiseListeningPort(s) /\ ~AbandonBind(s)
      BY <1>1 DEF InitialiseListeningPort, AbandonBind, Safe, ObjectSafe, CallInOrder, HolderNamed
    <3> QED BY <1>1, <3>1, OwnSteps
  <2>2. Bindable(own, address) = {}
    BY <1>1, <2>1 DEF BindReceiveSocket, BindFails, Safe, TypeOK
  <2>3. /\ own # Invalid /\ IsOpen(own) /\ kernel[own].name.port = 0
        /\ kernel[own].name.family = address.family /\ address.family \in {IPV4, IPV6}
        /\ address \in SocketAddresses
    <3>1. call[s].at = "bind"
      BY <2>1 DEF BindReceiveSocket
    <3> QED BY <1>1, <3>1 DEF Safe, TypeOK, Calls, ObjectSafe, CallInOrder, BindsAfresh, HolderNamed
  <2>4. GetAddressLength(address) = SizeOf(address.family)
    BY <2>3 DEF GetAddressLength, GetInternetProtocolVersion
  <2>5. SizeOf(address.family) \in Nat
    BY DEF SizeOf
  <2>6. \A a \in IF address.port = 0 THEN {WithPort(address, q) : q \in Ports} ELSE {address} :
          \E fd \in Fds : kernel[fd].name = a
    <3>1. ~(~IsOpen(own) \/ IsBound(own) \/ kernel[own].name.family # address.family
            \/ GetAddressLength(address) < SizeOf(address.family))
      BY <2>3, <2>4, <2>5 DEF IsBound
    <3> QED BY <2>2, <3>1 DEF Bindable
  <2>7. CASE address.port = 0
    BY <2>6, <2>7
  <2>8. CASE address.port # 0
    <3>1. p \in PortNumbers
      BY ConstantsAssumption DEF ConstantsAssumption
    <3>2. WithPort(address, p) = address
      BY <1>1, <2>3, <2>8, <3>1, WithPortFields
    <3> QED BY <2>6, <2>8, <3>2
  <2> QED BY <2>7, <2>8
<1>2. \A s \in Sockets, p \in Ports : Safe /\ call[s].op = "bind" =>
        (\E fd \in Fds : TRUE) \/ replaced \/ copied
  BY DEF Safe, ObjectSafe, BindsAfresh, HolderNamed, IsOpen
<1>3. Safe /\ [Next]_vars =>
        [\A s \in Sockets :
           ~copied /\ ~replaced /\ call[s].op = "bind" /\ call'[s].op = "none"
             => \/ bound'[s]
                \/ \A p \in Ports : \E fd \in Fds :
                     /\ call[s].address.port \in {0, Htons(p)}
                          => kernel[fd].name = WithPort(call[s].address, p)]_vars
  BY <1>1, <1>2
<1> QED BY SafetyInvariant, <1>3, PTL DEF Spec, FreshBindBinds

\* The address that bind() returns is the name of the object's descriptor: nobody
\* but a copy changes that name or closes the descriptor before getsockname().
THEOREM BoundAddressReturned == Spec => ReturnsBoundAddress
<1>1. ASSUME Safe, [Next]_vars, NEW s \in Sockets, ~copied,
             Returns(s), result'.op = "bind", result'.flag = 0
      PROVE  result'.address = kernel'[receiveSocket[s]].name
  <2> DEFINE fd == receiveSocket[s]
             address == call[s].address
             name == kernel[fd].name
  <2>1. call[s].op \in {"bind", "ready", "send", "receive"}
    BY <1>1 DEF Returns, Safe, TypeOK, Calls
  <2>2. InitialiseListeningPort(s)
    <3>1. /\ ~PollForReady(s) /\ ~SendDatagram(s) /\ ~ReceiveDatagram(s)
          /\ ~AbandonBind(s) /\ ~End(s, Result("bind", -1, 0, ZeroAddress))
      BY <1>1
      DEF PollForReady, SendDatagram, ReceiveDatagram, ReceiveFails, AbandonBind, End, NoResult, Result
    <3>2. ~Begin(s, [call[s] EXCEPT !.at = "getsockname"])
      BY <1>1 DEF Begin, NoResult, Result
    <3>3. ~BindReceiveSocket(s)
      BY <3>1, <3>2 DEF BindReceiveSocket
    <3> QED BY <1>1, <2>1, <3>1, <3>3, OwnSteps DEF Returns
  <2>3. /\ listeningPort' = [listeningPort EXCEPT ![s] = GetPortNumber(name)]
        /\ End(s, Result("bind", 0, 0, WithPort(address, listeningPort'[s])))
        /\ kernel' = kernel /\ call[s].at = "getsockname"
    <3>1. ~Begin(s, [call[s] EXCEPT !.at = "close"])
      BY <1>1 DEF Begin, NoResult, Result
    <3> QED BY <2>2, <3>1 DEF InitialiseListeningPort, ListeningPort
  <2>4. address \in SocketAddresses /\ \E p \in Ports : name = WithPort(address, p)
    BY <1>1, <2>3 DEF Safe, TypeOK, Calls, ObjectSafe, HolderNamed
  <2>5. PICK p \in Ports : name = WithPort(address, p)
    BY <2>4
  <2>6. p \in PortNumbers
    BY ConstantsAssumption DEF ConstantsAssumption
  <2>7. WithPort(address, GetPortNumber(name)) = name
    BY <2>4, <2>5, <2>6, SamePort, WithPortFields
  <2>8. listeningPort'[s] = GetPortNumber(name)
    BY <1>1, <2>3 DEF Safe, TypeOK
  <2>9. result'.address = name
    BY <2>3, <2>7, <2>8 DEF End, Result
  <2> QED BY <2>3, <2>9
<1>2. Safe /\ [Next]_vars =>
        [\A s \in Sockets :
           ~copied /\ Returns(s) /\ result'.op = "bind" /\ result'.flag = 0
             => result'.address = kernel'[receiveSocket[s]].name]_vars
  BY <1>1
<1> QED BY SafetyInvariant, <1>2, PTL DEF Spec, ReturnsBoundAddress

\* receiveFrom() takes from the descriptor the members tell of, where only what
\* was sent to its name waits.
THEOREM OwnAddressReceived == Spec => ReceivesOwnAddress
<1>1. ASSUME Safe, [Next]_vars, NEW s \in Sockets, ~copied, Returns(s), call[s].op = "receive",
             result'.flag >= 0
      PROVE  /\ bound[s]
             /\ GetInternetProtocolVersion(result'.address) = protocolVersion[s]
             /\ GetPortNumber(result'.address) = listeningPort[s]
  <2> DEFINE fd == receiveSocket[s]
             q == kernel[fd].queue
  <2>1. ReceiveDatagram(s)
    BY <1>1, OwnSteps DEF Returns
  <2>2. IsOpen(fd) /\ q # << >> /\ result'.address = Head(q).to
    BY <1>1, <2>1 DEF ReceiveDatagram, ReceiveFails, End, Result
  <2>3. /\ fd \in Fds /\ fd # Invalid /\ kernel[fd] \in KernelSockets
        /\ q \in Seq(Datagrams)
    BY <1>1, <2>2, ConstantsAssumption DEF ConstantsAssumption, Invalid, IsOpen, Safe, TypeOK, KernelSockets
  <2>4. \A i \in 1..Len(q) : q[i].to = kernel[fd].name
    BY <1>1, <2>2, <2>3 DEF Safe, SocketNamed
  <2> HIDE DEF q
  <2>5. Head(q).to = kernel[fd].name
    BY <2>2, <2>3, <2>4
  <2>6. bound[s] /\ HolderNamed(s) /\ protocolVersion[s] \in Versions
    BY <1>1 DEF Safe, TypeOK, ObjectSafe, CallInOrder
  <2> QED BY <1>1, <2>2, <2>3, <2>5, <2>6 DEF HolderNamed, GetInternetProtocolVersion, Versions
<1>2. Safe /\ [Next]_vars =>
        [\A s \in Sockets :
           ~copied /\ Returns(s) /\ call[s].op = "receive" /\ result'.flag >= 0
             => /\ bound[s]
                /\ GetInternetProtocolVersion(result'.address) = protocolVersion[s]
                /\ GetPortNumber(result'.address) = listeningPort[s]]_vars
  BY <1>1
<1> QED BY SafetyInvariant, <1>2, PTL DEF Spec, ReceivesOwnAddress

\* The library uses descriptors as DescriptorTable says: the first states are
\* its first states, and every step is one of its or none.
THEOREM DescriptorsAsInTable == Spec => ImplementsDescriptorTable
<1>1. Init => Table!Init
  BY Records, ConstantsAssumption DEF ConstantsAssumption, Init, Table!Init, Holds, Holders, IsOpen, Invalid
<1>2. Safe /\ [Next]_vars => [~copied' /\ ~replaced' => Table!Next]_(Table!vars)
  BY NextSafe DEF TableStep
<1> QED BY SafetyInvariant, <1>1, <1>2, PTL DEF Spec, ImplementsDescriptorTable
=============================================================================

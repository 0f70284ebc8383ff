---------------------- MODULE DatagramIPCSocketProofs ----------------------
(***************************************************************************)
(* What the prover establishes about DatagramIPCSocket for any objects,    *)
(* paths and queue length, and any number of descriptors.                  *)
(***************************************************************************)
EXTENDS DatagramIPCSocket, TLAPS

\* Which system calls each call goes through, and what the object has at each.
CallInOrder(s) ==
  /\ call[s].op = "none" <=> call[s].at = "none"
  /\ call[s].op = "send" <=> call[s].at = "send"
  /\ call[s].op = "receive" <=> call[s].at = "receive"
  /\ call[s].op = "ready" <=> call[s].at = "select"
  /\ call[s].at \in {"remove", "socket", "bind"} => call[s].op = "bind"
  /\ call[s].at = "remove" => overridden
  /\ call[s].op \in {"bind", "send"} <=> call[s].path # NoPath
  /\ call[s].op = "send" <=> call[s].fd # Invalid
  /\ call[s].at = "unlink" => receiveSocket[s] = Invalid
  /\ call[s].at = "bind" => ~bound[s]
  /\ bound[s] <=> socketPath[s] # NoPath

\* bind() does not overwrite a descriptor its caller closed before.
BindsAfresh(s) == ~replaced => (call[s].at \in {"remove", "socket"} => receiveSocket[s] = Invalid)

\* Without copies, the descriptors of an object are open, and the name of its
\* receive socket is the path of the object.
HolderNamed(s) ==
  /\ receiveSocket[s] # Invalid =>
       /\ IsOpen(receiveSocket[s])
       /\ name[receiveSocket[s]] \in Paths => bound[s] /\ socketPath[s] = name[receiveSocket[s]]
       /\ call[s].at = "bind" => name[receiveSocket[s]] = "unbound"
  /\ call[s].fd # Invalid => IsOpen(call[s].fd) /\ name[call[s].fd] = "unbound"

\* A datagram that ready() saw is there until receiveFrom() takes it.
DataWaits(s) ==
  sawReady[s] =>
    /\ call[s].op \in {"none", "receive"}
    /\ IsOpen(receiveSocket[s]) /\ queue[receiveSocket[s]] # << >>

\* Without bind()s that override, the path of a bound object leads to it until
\* it binds again or closes.
FileIsOwn(s) ==
  bound[s] =>
    /\ file[socketPath[s]] # NoFile
    /\ receiveSocket[s] # Invalid /\ ~(call[s].op = "bind" /\ call[s].at = "close")
         => file[socketPath[s]] = receiveSocket[s]

ObjectSafe(s) ==
  /\ CallInOrder(s) /\ BindsAfresh(s)
  /\ ~copied => HolderNamed(s) /\ DataWaits(s)
  /\ ~copied /\ ~overridden => FileIsOwn(s)

\* Without copies a descriptor is held once, ...
Apart(s, t) ==
  /\ receiveSocket[s] # Invalid => receiveSocket[s] # call[t].fd
  /\ s # t /\ receiveSocket[s] # Invalid => receiveSocket[s] # receiveSocket[t]
  /\ s # t /\ call[s].fd # Invalid => call[s].fd # call[t].fd
HeldOnce == ~copied => \A s, t \in Sockets : Apart(s, t)

\* ... and bound objects have paths of their own unless a bind() overrides.
PathsAreOwn ==
  ~copied /\ ~overridden =>
    \A s, t \in Sockets : s # t /\ bound[s] /\ bound[t] => socketPath[s] # socketPath[t]

\* A file leads to the socket that was bound to its path, ...
FileLeads(p) == file[p] \in Fds => name[file[p]] = p

\* ... and what waits at a socket was sent there.
QueueNamed(fd) ==
  queue[fd] # << >> =>
    name[fd] \in Paths /\ \A i \in 1..Len(queue[fd]) : queue[fd][i] = name[fd]

Safe ==
  /\ TypeOK
  /\ \A s \in Sockets : ObjectSafe(s)
  /\ HeldOnce /\ PathsAreOwn
  /\ \A p \in Paths : FileLeads(p)
  /\ \A fd \in Fds : QueueNamed(fd)
  /\ NoStaleFile /\ NoLeak /\ ReportsPathSentTo

\* What a thread that is in no call has, and what a step that answers nothing returns.
LEMMA Records ==
  /\ NoCall \in Calls
  /\ NoCall.op = "none" /\ NoCall.at = "none" /\ NoCall.path = NoPath /\ NoCall.fd = Invalid
  /\ NoResult \in Results /\ NoResult.flag = -1
  BY DEF NoCall, NewCall, Calls, Steps, NoResult, Results

\* No descriptor has the number of a file or a descriptor that is none, and no
\* path is the name of a descriptor that has none.
LEMMA Numbers ==
  /\ Invalid \notin Fds /\ NoFile \notin Fds /\ Stale \notin Fds /\ NoFile # Stale
  /\ "closed" \notin Paths /\ "unbound" \notin Paths /\ NoPath \notin Paths
  BY ConstantsAssumption DEF ConstantsAssumption, Invalid, NoFile, Stale, NoPath

\* What steps do to the call of one thread, ...
Calling(s) == call' \in [Sockets -> Calls] /\ \A t \in Sockets : t # s => call'[t] = call[t]

Entered(s, c) ==
  /\ Calling(s) /\ call[s].op = "none" /\ call'[s] = c /\ result' = NoResult
  /\ sawReady' \in [Sockets -> BOOLEAN]
  /\ \A t \in Sockets : sawReady'[t] <=> sawReady[t] /\ (t = s => c.op = "receive")

GoesTo(s, at) ==
  /\ Calling(s)
  /\ call'[s].at = at /\ call'[s].op = call[s].op
  /\ call'[s].path = call[s].path /\ call'[s].fd = call[s].fd
  /\ result' = NoResult /\ sawReady' = sawReady

Returned(s) == Calling(s) /\ call'[s] = NoCall /\ result' = NoResult /\ sawReady' = sawReady

Answered(s, res) ==
  /\ Calling(s) /\ call'[s] = NoCall /\ result' = res
  /\ sawReady' \in [Sockets -> BOOLEAN]
  /\ \A t \in Sockets : sawReady'[t] <=> sawReady[t] /\ t # s

\* ... to one descriptor, ...
Named(fd, n) ==
  /\ name' \in [Fds -> Paths \cup {"closed", "unbound"}]
  /\ name'[fd] = n /\ \A f \in Fds : f # fd => name'[f] = name[f]

\* ... and to the members of one object.
OwnSocket(s, fd) ==
  /\ receiveSocket' \in [Sockets -> Fds \cup {Invalid}] /\ receiveSocket'[s] = fd
  /\ \A t \in Sockets : t # s => receiveSocket'[t] = receiveSocket[t]

OwnName(s, b, p) ==
  /\ bound' \in [Sockets -> BOOLEAN] /\ bound'[s] = b
  /\ socketPath' \in [Sockets -> Paths \cup {NoPath}] /\ socketPath'[s] = p
  /\ \A t \in Sockets : t # s => bound'[t] = bound[t] /\ socketPath'[t] = socketPath[t]

\* A call begins in a thread that is in none, ...
LEMMA EnterEffect ==
  ASSUME TypeOK, NEW s \in Sockets, NEW c \in Calls, Enter(s, c)
  PROVE  Entered(s, c)
  BY DEF TypeOK, Enter, Entered, Calling

\* ... stays the same call at each of its system calls, ...
LEMMA GotoEffect ==
  ASSUME TypeOK, NEW s \in Sockets, NEW at \in Steps, Goto(s, at)
  PROVE  GoesTo(s, at)
  BY DEF TypeOK, Goto, Proceed, Calls, GoesTo, Calling

\* ... and ends; ...
LEMMA ReturnEffect ==
  ASSUME TypeOK, NEW s \in Sockets, Return(s)
  PROVE  Returned(s)
  BY Records DEF TypeOK, Return, Proceed, Returned, Calling

\* ... what ready() said is forgotten when a call returns an answer.
LEMMA AnswerEffect ==
  ASSUME TypeOK, NEW s \in Sockets, NEW res, ReturnResult(s, res)
  PROVE  Answered(s, res)
  BY Records DEF TypeOK, ReturnResult, Answered, Calling

\* What a thread at a system call of bind() or close() has: no temporary socket,
\* and no ready() said yes, which bind() and close() forget when they begin.
LEMMA CallState ==
  ASSUME Safe, NEW s \in Sockets
  PROVE  /\ CallInOrder(s) /\ call[s] \in Calls
         /\ call[s].op # "send" => call[s].fd = Invalid
         /\ call[s].op \in {"bind", "send"} => call[s].path \in Paths
         /\ bound[s] => socketPath[s] \in Paths
         /\ ~copied /\ call[s].op \notin {"none", "receive"} => ~sawReady[s]
<1>1. CallInOrder(s) /\ call[s] \in Calls
  BY DEF Safe, TypeOK, ObjectSafe
<1>2. bound[s] => socketPath[s] \in Paths
  BY <1>1 DEF Safe, TypeOK, CallInOrder
<1>3. ~copied => DataWaits(s)
  BY DEF Safe, ObjectSafe
<1> QED BY <1>1, <1>2, <1>3 DEF CallInOrder, Calls, DataWaits

\* What a step of s does to other objects and their descriptors: nothing that
\* concerns them.  It gives back numbers of s and takes ones that were free.
OnlyBy(s) ==
  /\ \A t \in Sockets : t # s =>
       /\ bound'[t] = bound[t] /\ receiveSocket'[t] = receiveSocket[t]
       /\ socketPath'[t] = socketPath[t]
       /\ call'[t] = call[t] /\ (sawReady'[t] => sawReady[t])
  /\ \A fd \in Fds : IsOpen(fd) /\ fd # receiveSocket[s] /\ fd # call[s].fd =>
       name'[fd] = name[fd] /\ (queue[fd] # << >> => queue'[fd] # << >>)
  /\ receiveSocket'[s] \in {receiveSocket[s], Invalid} \cup FreeFds
  /\ call'[s].fd \in {call[s].fd, Invalid} \cup FreeFds
  /\ ~copied /\ receiveSocket'[s] # Invalid => receiveSocket'[s] # call'[s].fd
  /\ (replaced => replaced') /\ (overridden => overridden')
  /\ copied' = copied

\* What it does to files: unless it overrides, it removes that of its own path,
\* leaves behind those of sockets it closes, and binds where there is none.
\* Without copies it leaves a file behind only on its way to remove it.
OwnFiles(s) ==
  /\ \A p \in Paths : file[p] # NoFile =>
       \/ file'[p] = file[p] \/ overridden'
       \/ bound[s] /\ p = socketPath[s]
       \/ file[p] \in {receiveSocket[s], call[s].fd} /\ file'[p] # NoFile
  /\ bound'[s] => \/ bound[s] /\ socketPath'[s] = socketPath[s]
                  \/ file[socketPath'[s]] = NoFile
  /\ ~copied => \A p \in Paths : file'[p] = Stale =>
       \/ file[p] = Stale /\ ~(call[s].at = "unlink" /\ bound[s] /\ socketPath[s] = p)
       \/ call'[s].at = "unlink" /\ bound'[s] /\ socketPath'[s] = p

\* Such a step keeps the invariant if it does so for its own object.
LEMMA OthersSafe ==
  ASSUME Safe, NEW s \in Sockets, OnlyBy(s), OwnFiles(s), ObjectSafe(s)'
  PROVE  (\A t \in Sockets : ObjectSafe(t)') /\ HeldOnce' /\ PathsAreOwn' /\ NoStaleFile'
<1>1. ASSUME NEW t \in Sockets, t # s, ~copied
      PROVE  /\ Apart(t, s) /\ Apart(s, t)
             /\ HolderNamed(t) /\ DataWaits(t) /\ HolderNamed(s)
  BY <1>1 DEF Safe, HeldOnce, ObjectSafe
<1>2. ASSUME NEW t \in Sockets, ~copied', ~overridden', bound[t]
      PROVE  /\ FileIsOwn(t) /\ socketPath[t] \in Paths
             /\ t # s /\ bound[s] => socketPath[t] # socketPath[s]
  BY <1>2, CallState DEF Safe, ObjectSafe, PathsAreOwn, OnlyBy
<1>3. ASSUME NEW t \in Sockets, t # s
      PROVE  ObjectSafe(t)'
  <2>1. CallInOrder(t)' /\ BindsAfresh(t)'
    BY <1>3 DEF Safe, ObjectSafe, OnlyBy, CallInOrder, BindsAfresh
  <2>2. ASSUME ~copied'
        PROVE  HolderNamed(t)'
    BY <1>1, <1>3, <2>2 DEF OnlyBy, Apart, HolderNamed, IsOpen
  <2>3. ASSUME ~copied'
        PROVE  DataWaits(t)'
    <3>1. sawReady[t] => receiveSocket[t] \in Fds /\ receiveSocket[t] # Invalid
      BY <1>1, <1>3, <2>3, Numbers DEF OnlyBy, DataWaits, IsOpen
    <3> QED BY <1>1, <1>3, <2>3, <3>1 DEF OnlyBy, Apart, DataWaits, IsOpen
  <2>4. ASSUME ~copied', ~overridden'
        PROVE  FileIsOwn(t)'
    <3>1. CASE ~bound[t]
      BY <1>3, <3>1 DEF OnlyBy, FileIsOwn
    <3>2. CASE bound[t]
      <4>1. FileIsOwn(t) /\ socketPath[t] \in Paths /\ (bound[s] => socketPath[t] # socketPath[s])
        BY <1>2, <1>3, <2>4, <3>2
      <4>2. receiveSocket[t] # Invalid => receiveSocket[t] \notin {receiveSocket[s], call[s].fd}
        BY <1>1, <1>3, <2>4 DEF OnlyBy, Apart
      <4> QED BY <1>3, <2>4, <3>2, <4>1, <4>2 DEF OnlyBy, OwnFiles, FileIsOwn
    <3> QED BY <3>1, <3>2
  <2> QED BY <2>1, <2>2, <2>3, <2>4 DEF ObjectSafe
<1>4. ASSUME ~copied', NEW t \in Sockets, NEW u \in Sockets
      PROVE  Apart(t, u)'
  <2>1. Apart(t, u) /\ Apart(s, t) /\ Apart(s, u) /\ Apart(t, s)
    BY <1>4 DEF Safe, HeldOnce, OnlyBy
  <2>2. HolderNamed(t) /\ HolderNamed(u)
    BY <1>4 DEF Safe, ObjectSafe, OnlyBy
  <2>3. /\ receiveSocket[t] # Invalid => receiveSocket[t] \notin FreeFds
        /\ receiveSocket[u] # Invalid => receiveSocket[u] \notin FreeFds
        /\ call[t].fd # Invalid => call[t].fd \notin FreeFds
        /\ call[u].fd # Invalid => call[u].fd \notin FreeFds
    BY <2>2 DEF HolderNamed, IsOpen, FreeFds
  <2>4. CASE t = s /\ u = s
    BY <1>4, <2>1, <2>4 DEF OnlyBy, Apart
  <2>5. CASE t = s /\ u # s
    BY <2>1, <2>3, <2>5 DEF OnlyBy, Apart
  <2>6. CASE t # s /\ u = s
    BY <2>1, <2>3, <2>6 DEF OnlyBy, Apart
  <2>7. CASE t # s /\ u # s
    BY <2>1, <2>7 DEF OnlyBy, Apart
  <2> QED BY <2>4, <2>5, <2>6, <2>7
<1>5. ASSUME ~copied', ~overridden', NEW t \in Sockets, NEW u \in Sockets, t # u,
             bound'[t], bound'[u]
      PROVE  socketPath'[t] # socketPath'[u]
  <2>1. ASSUME NEW r \in Sockets, r # s, bound'[r], bound'[s]
        PROVE  socketPath'[s] # socketPath'[r]
    BY <1>2, <1>5, <2>1 DEF OnlyBy, OwnFiles, FileIsOwn
  <2>2. CASE t = s \/ u = s
    BY <1>5, <2>1, <2>2
  <2>3. CASE t # s /\ u # s
    BY <1>5, <2>3 DEF Safe, PathsAreOwn, OnlyBy
  <2> QED BY <2>2, <2>3
<1>6. ASSUME ~copied', NEW p \in Paths, file'[p] = Stale
      PROVE  \E u \in Sockets : call'[u].at = "unlink" /\ bound'[u] /\ socketPath'[u] = p
  <2>1. CASE call'[s].at = "unlink" /\ bound'[s] /\ socketPath'[s] = p
    BY <2>1
  <2>2. CASE file[p] = Stale /\ ~(call[s].at = "unlink" /\ bound[s] /\ socketPath[s] = p)
    <3>1. PICK u \in Sockets : call[u].at = "unlink" /\ bound[u] /\ socketPath[u] = p
      BY <1>6, <2>2 DEF Safe, NoStaleFile, OnlyBy
    <3> QED BY <2>2, <3>1 DEF OnlyBy
  <2> QED BY <1>6, <2>1, <2>2 DEF OnlyBy, OwnFiles
<1> QED BY <1>3, <1>4, <1>5, <1>6 DEF HeldOnce, PathsAreOwn, NoStaleFile

\* It loses no descriptor if s still holds what it did not close.
LEMMA StillNoLeak ==
  ASSUME Safe, NEW s \in Sockets, OnlyBy(s),
         \A fd \in Fds : ~replaced' /\ name'[fd] # "closed" =>
           \/ IsOpen(fd) /\ fd # receiveSocket[s] /\ fd # call[s].fd
           \/ fd = receiveSocket'[s] \/ fd = call'[s].fd
  PROVE  NoLeak'
<1> SUFFICES ASSUME ~replaced', NEW fd \in Fds, IsOpen(fd)'
             PROVE  \E t \in Sockets : receiveSocket'[t] = fd \/ call'[t].fd = fd
  BY DEF NoLeak
<1>1. CASE fd = receiveSocket'[s] \/ fd = call'[s].fd
  BY <1>1
<1>2. CASE IsOpen(fd) /\ fd # receiveSocket[s] /\ fd # call[s].fd
  <2>1. PICK t \in Sockets : receiveSocket[t] = fd \/ call[t].fd = fd
    BY <1>2 DEF Safe, NoLeak, OnlyBy
  <2> QED BY <1>2, <2>1 DEF OnlyBy
<1> QED BY <1>1, <1>2 DEF IsOpen

\* What a step does to the table of descriptors.
TableStep == ~copied' /\ ~replaced' => Table!Next \/ UNCHANGED Table!vars

\* Steps that neither give a number out nor take one back.
LEMMA TableStutter ==
  ASSUME UNCHANGED receiveSocket,
         \A r \in Sockets : call'[r].fd = call[r].fd,
         \A fd \in Fds : name'[fd] = "closed" <=> name[fd] = "closed"
  PROVE  UNCHANGED Table!vars
<1>1. \A o \in Holders, fd \in Fds : Holds(o, fd)' <=> Holds(o, fd)
  BY DEF Holds, Holders
<1>2. \A fd \in Fds : IsOpen(fd)' <=> IsOpen(fd)
  BY DEF IsOpen
<1> QED BY <1>1, <1>2 DEF Table!vars

\* A number that was free goes to one holder.
LEMMA TableAcquire ==
  ASSUME NEW o \in Holders, NEW fd \in Fds, name[fd] = "closed", name'[fd] # "closed",
         \A f \in Fds : f # fd => name'[f] = name[f],
         \A p \in Holders, f \in Fds : Holds(p, f)' <=> Holds(p, f) \/ <<p, f>> = <<o, fd>>
  PROVE  Table!Next
<1>1. Table!Acquire(o, fd)
  BY DEF Table!Acquire, IsOpen
<1> QED BY <1>1 DEF Table!Next

\* The holder of a number gives it back.
LEMMA TableRelease ==
  ASSUME NEW o \in Holders, NEW fd \in Fds, Holds(o, fd), name'[fd] = "closed",
         \A f \in Fds : f # fd => name'[f] = name[f],
         \A p \in Holders, f \in Fds : Holds(p, f)' <=> Holds(p, f) /\ <<p, f>> # <<o, fd>>
  PROVE  Table!Next
<1>1. Table!Release(o, fd)
  BY DEF Table!Release, IsOpen
<1> QED BY <1>1 DEF Table!Next

\* A call that begins or ends without touching an object or the kernel.
LEMMA CallMoves ==
  ASSUME Safe, NEW s \in Sockets, UNCHANGED <<objects, kernel, copied>>, Calling(s),
         call[s].op \in {"none", "receive", "ready"},
         call'[s].fd = Invalid, call'[s].at # "bind",
         overridden' \in BOOLEAN, overridden => overridden',
         replaced' \in BOOLEAN, replaced => replaced',
         CallInOrder(s)', BindsAfresh(s)', ~copied => DataWaits(s)',
         result' \in Results, ReportsPathSentTo',
         sawReady' \in [Sockets -> BOOLEAN],
         \A t \in Sockets : t # s => (sawReady'[t] => sawReady[t])
  PROVE  Safe' /\ TableStep
<1> USE DEF Calling, objects, kernel
<1>1. call[s].fd = Invalid /\ call[s].at # "unlink"
  BY CallState DEF CallInOrder
<1>2. OnlyBy(s)
  BY <1>1 DEF OnlyBy, IsOpen
<1>3. OwnFiles(s)
  BY <1>1 DEF OwnFiles
<1>4. ObjectSafe(s)'
  BY <1>1 DEF Safe, ObjectSafe, HolderNamed, FileIsOwn, IsOpen
<1>5. NoLeak'
  BY <1>1, <1>2, Numbers, StillNoLeak DEF IsOpen
<1>6. TypeOK'
  BY DEF Safe, TypeOK
<1>7. (\A p \in Paths : FileLeads(p)') /\ \A fd \in Fds : QueueNamed(fd)'
  BY DEF Safe, FileLeads, QueueNamed
<1>8. TableStep
  BY <1>1, TableStutter DEF TableStep
<1> QED BY <1>2, <1>3, <1>4, <1>5, <1>6, <1>7, <1>8, OthersSafe DEF Safe

\* bind() begins; its caller answers for a socket the object still holds.
LEMMA BindSafe ==
  ASSUME Safe, NEW s \in Sockets, NEW p \in Paths, NEW override \in BOOLEAN, Bind(s, p, override)
  PROVE  Safe' /\ TableStep
<1> DEFINE c == NewCall("bind", IF override THEN "remove" ELSE "socket", p, Invalid)
<1>1. /\ c \in Calls /\ c.op = "bind" /\ c.path = p /\ c.fd = Invalid
      /\ c.at = IF override THEN "remove" ELSE "socket"
  BY DEF Calls, Steps, NewCall
<1> HIDE DEF c
<1>2. Entered(s, c)
  BY <1>1, EnterEffect DEF Bind, Safe, c
<1>3. /\ replaced' = (replaced \/ receiveSocket[s] # Invalid)
      /\ overridden' = (overridden \/ override)
      /\ UNCHANGED <<objects, kernel, copied>>
  BY DEF Bind, Replace
<1>4. CallInOrder(s)'
  BY <1>1, <1>2, <1>3, CallState, Numbers DEF Entered, CallInOrder, objects
<1>5. BindsAfresh(s)' /\ DataWaits(s)'
  BY <1>1, <1>2, <1>3 DEF Entered, BindsAfresh, DataWaits, objects
<1>6. /\ overridden' \in BOOLEAN /\ (overridden => overridden')
      /\ replaced' \in BOOLEAN /\ (replaced => replaced')
  BY <1>3 DEF Safe, TypeOK
<1>7. result' \in Results /\ ReportsPathSentTo' /\ call'[s].at # "bind" /\ call'[s].fd = Invalid
  BY <1>1, <1>2, Records DEF Entered, ReportsPathSentTo
<1> QED BY <1>2, <1>3, <1>4, <1>5, <1>6, <1>7, CallMoves DEF Entered

\* So do close(), ready() and receiveFrom(), which forgets nothing ready() said.
LEMMA OtherCallsSafe ==
  ASSUME Safe, NEW s \in Sockets, ReceiveFrom(s) \/ Ready(s) \/ Close(s)
  PROVE  Safe' /\ TableStep
<1>1. ASSUME NEW c \in Calls, Enter(s, c), UNCHANGED <<objects, kernel, history>>,
             c.path = NoPath, c.fd = Invalid,
             <<c.op, c.at>> \in {<<"receive", "receive">>, <<"ready", "select">>, <<"close", "close">>}
      PROVE  Safe' /\ TableStep
  <2>1. Entered(s, c)
    BY <1>1, EnterEffect DEF Safe
  <2>2. CallInOrder(s)' /\ BindsAfresh(s)'
    BY <1>1, <2>1, CallState DEF Entered, CallInOrder, BindsAfresh, objects
  <2>3. ASSUME ~copied
        PROVE  DataWaits(s)'
    <3>1. DataWaits(s)
      BY <2>3 DEF Safe, ObjectSafe
    <3> QED BY <1>1, <2>1, <3>1 DEF Entered, DataWaits, IsOpen, objects, kernel
  <2> QED BY <1>1, <2>1, <2>2, <2>3, Records, CallMoves
          DEF Entered, Safe, TypeOK, ReportsPathSentTo, history
<1>2. CASE ReceiveFrom(s)
  <2>1. NewCall("receive", "receive", NoPath, Invalid) \in Calls
    BY DEF NewCall, Calls, Steps
  <2> QED BY <1>1, <1>2, <2>1 DEF ReceiveFrom, NewCall
<1>3. CASE Ready(s)
  <2>1. NewCall("ready", "select", NoPath, Invalid) \in Calls
    BY DEF NewCall, Calls, Steps
  <2> QED BY <1>1, <1>3, <2>1 DEF Ready, NewCall
<1>4. CASE Close(s)
  <2>1. NewCall("close", "close", NoPath, Invalid) \in Calls
    BY DEF NewCall, Calls, Steps
  <2> QED BY <1>1, <1>4, <2>1 DEF Close, NewCall
<1> QED BY <1>2, <1>3, <1>4

\* ready() says yes only when there is a datagram.
LEMMA PollForReadySafe ==
  ASSUME Safe, NEW s \in Sockets, PollForReady(s)
  PROVE  Safe' /\ TableStep
<1>1. /\ call[s].op = "ready" /\ Calling(s) /\ call'[s] = NoCall /\ result' = NoResult
      /\ UNCHANGED <<objects, kernel, history>>
  BY CallState, Records DEF PollForReady, CallInOrder, Calling, Safe, TypeOK
<1>2. /\ sawReady' \in [Sockets -> BOOLEAN] /\ \A t \in Sockets : t # s => sawReady'[t] = sawReady[t]
      /\ sawReady'[s] => IsOpen(receiveSocket[s]) /\ queue[receiveSocket[s]] # << >>
  <2>1. PICK res \in PollResults(receiveSocket[s]) : sawReady' = [sawReady EXCEPT ![s] = HasData(res)]
    BY DEF PollForReady
  <2>2. HasData(res) \in BOOLEAN
    BY DEF HasData
  <2>3. HasData(res) => IsOpen(receiveSocket[s]) /\ queue[receiveSocket[s]] # << >>
    BY <2>1 DEF HasData, PollResults
  <2> QED BY <2>1, <2>2, <2>3 DEF Safe, TypeOK
<1>3. CallInOrder(s)' /\ BindsAfresh(s)' /\ DataWaits(s)'
  BY <1>1, <1>2, CallState, Records DEF CallInOrder, BindsAfresh, DataWaits, IsOpen, objects, kernel
<1> QED BY <1>1, <1>2, <1>3, Records, CallMoves DEF Safe, TypeOK, ReportsPathSentTo, history

\* receiveFrom() of a socket that was closed fails.
LEMMA ReceiveFailsSafe ==
  ASSUME Safe, NEW s \in Sockets, ReceiveFails(s)
  PROVE  Safe' /\ TableStep
<1> DEFINE res == [flag |-> -1, to |-> NoPath, path |-> socketPath[s]]
<1>1. res \in Results /\ res.flag = -1
  BY DEF Safe, TypeOK, Results
<1> HIDE DEF res
<1>2. Answered(s, res) /\ call[s].op = "receive" /\ UNCHANGED <<objects, kernel, history>>
  BY AnswerEffect, CallState DEF ReceiveFails, CallInOrder, Safe, res
<1>3. CallInOrder(s)' /\ BindsAfresh(s)' /\ DataWaits(s)'
  BY <1>2, CallState, Records DEF Answered, CallInOrder, BindsAfresh, DataWaits, objects
<1>4. result' \in Results /\ ReportsPathSentTo'
  BY <1>1, <1>2 DEF Answered, ReportsPathSentTo
<1>5. /\ UNCHANGED <<objects, kernel, copied, replaced, overridden>>
      /\ replaced \in BOOLEAN /\ overridden \in BOOLEAN
  BY <1>2 DEF Safe, TypeOK, history
<1> QED BY <1>2, <1>3, <1>4, <1>5, Records, CallMoves DEF Answered

\* With override, bind() removes the file of its path, whoever it belongs to.
LEMMA RemoveExistingSafe ==
  ASSUME Safe, NEW s \in Sockets, RemoveExisting(s)
  PROVE  Safe' /\ TableStep
<1> USE DEF Calling, GoesTo
<1>1. GoesTo(s, "socket") /\ UNCHANGED <<objects, name, queue, history>>
  BY GotoEffect DEF RemoveExisting, Safe, Steps
<1>2. /\ call[s].op = "bind" /\ call[s].at = "remove" /\ overridden
      /\ call[s].fd = Invalid /\ call[s].path \in Paths
  BY CallState DEF RemoveExisting, CallInOrder
<1>3. /\ file' \in [Paths -> Fds \cup {NoFile, Stale}] /\ file'[call[s].path] = NoFile
      /\ \A p \in Paths : p # call[s].path => file'[p] = file[p]
  BY <1>2 DEF RemoveExisting, Safe, TypeOK
<1>4. OnlyBy(s)
  BY <1>1, <1>2 DEF OnlyBy, IsOpen, objects, history
<1>5. OwnFiles(s)
  BY <1>1, <1>2, <1>3, Numbers, CallState DEF OwnFiles, CallInOrder, objects, history
<1>6. ObjectSafe(s)'
  BY <1>1, <1>2, CallState
  DEF Safe, ObjectSafe, CallInOrder, BindsAfresh, HolderNamed, DataWaits, IsOpen, objects, history
<1>7. NoLeak'
  BY <1>1, <1>2, <1>4, Numbers, StillNoLeak DEF IsOpen, objects
<1>8. TypeOK' /\ ReportsPathSentTo'
  BY <1>1, <1>3, Records DEF Safe, TypeOK, ReportsPathSentTo, objects, history
<1>9. (\A p \in Paths : FileLeads(p)') /\ \A fd \in Fds : QueueNamed(fd)'
  BY <1>1, <1>3, Numbers DEF Safe, FileLeads, QueueNamed
<1>10. UNCHANGED Table!vars
  BY <1>1, TableStutter DEF objects
<1> QED BY <1>4, <1>5, <1>6, <1>7, <1>8, <1>9, <1>10, OthersSafe DEF Safe, TableStep

\* socket() in bind() gives a number that was free, or bind() throws.
LEMMA OpenReceiveSocketSafe ==
  ASSUME Safe, NEW s \in Sockets, OpenReceiveSocket(s)
  PROVE  Safe' /\ TableStep
<1> USE DEF Calling
<1>1. /\ call[s].op = "bind" /\ call[s].at = "socket" /\ CallInOrder(s)
      /\ call[s].fd = Invalid /\ call[s].path \in Paths
      /\ ~copied => ~sawReady[s]
      /\ ~replaced => receiveSocket[s] = Invalid
      /\ UNCHANGED <<bound, socketPath, queue, file, history>>
  BY CallState DEF OpenReceiveSocket, Safe, ObjectSafe, BindsAfresh
<1>2. ASSUME NEW fd \in FreeFds,
             receiveSocket' = [receiveSocket EXCEPT ![s] = fd], name' = [name EXCEPT ![fd] = "unbound"],
             Goto(s, IF bound[s] THEN "close" ELSE "bind")
      PROVE  Safe' /\ TableStep
  <2> DEFINE at == IF bound[s] THEN "close" ELSE "bind"
  <2>1. GoesTo(s, at)
    BY <1>2, GotoEffect DEF Safe, Steps
  <2>2. /\ fd \in Fds /\ fd # Invalid /\ name[fd] = "closed"
        /\ Named(fd, "unbound") /\ OwnSocket(s, fd)
    BY <1>2, Numbers DEF FreeFds, Named, OwnSocket, Safe, TypeOK
  <2>3. \A r \in Sockets : call'[r].fd = call[r].fd
    BY <2>1 DEF GoesTo
  <2>4. OnlyBy(s)
    BY <1>1, <1>2, <2>1, <2>2 DEF OnlyBy, GoesTo, Named, OwnSocket, IsOpen, history
  <2>5. OwnFiles(s)
    BY <1>1, <2>1 DEF OwnFiles, history
  <2>6. CallInOrder(s)' /\ BindsAfresh(s)'
    BY <1>1, <2>1, <2>2 DEF GoesTo, CallInOrder, BindsAfresh, history
  <2>7. ASSUME ~copied
        PROVE  HolderNamed(s)' /\ DataWaits(s)' /\ (~overridden => FileIsOwn(s)')
    BY <1>1, <2>1, <2>2, <2>7, Numbers
    DEF GoesTo, Named, OwnSocket, HolderNamed, DataWaits, FileIsOwn, Safe, ObjectSafe, IsOpen
  <2>8. ObjectSafe(s)'
    BY <1>1, <2>6, <2>7 DEF ObjectSafe, history
  <2>9. NoLeak'
    <3>1. ASSUME NEW f \in Fds, ~replaced', name'[f] # "closed"
          PROVE  \/ IsOpen(f) /\ f # receiveSocket[s] /\ f # call[s].fd
                 \/ f = receiveSocket'[s]
      BY <1>1, <2>2, <3>1, Numbers DEF Named, OwnSocket, IsOpen, history
    <3> QED BY <2>4, <3>1, StillNoLeak
  <2>10. TypeOK' /\ ReportsPathSentTo'
    BY <1>1, <2>1, <2>2, Records DEF GoesTo, Named, OwnSocket, Safe, TypeOK, ReportsPathSentTo, history
  <2>11. (\A p \in Paths : FileLeads(p)') /\ \A f \in Fds : QueueNamed(f)'
    BY <1>1, <2>2, Numbers DEF Named, Safe, FileLeads, QueueNamed
  <2>12. ASSUME ~replaced' PROVE Table!Next
    <3>1. receiveSocket[s] = Invalid /\ s \in Holders
      BY <1>1, <2>12 DEF history, Holders
    <3>2. \A p \in Holders, f \in Fds : Holds(p, f)' <=> Holds(p, f) \/ <<p, f>> = <<s, fd>>
      BY <2>2, <2>3, <3>1, Numbers, ConstantsAssumption
      DEF ConstantsAssumption, OwnSocket, Holds, Holders
    <3> QED BY <2>2, <3>1, <3>2, TableAcquire DEF Named
  <2> QED BY <2>4, <2>5, <2>8, <2>9, <2>10, <2>11, <2>12, OthersSafe DEF Safe, TableStep
<1>3. CASE receiveSocket' = [receiveSocket EXCEPT ![s] = Invalid] /\ Return(s) /\ UNCHANGED name
  <2>1. Returned(s) /\ OwnSocket(s, Invalid)
    BY <1>3, ReturnEffect DEF OwnSocket, Safe, TypeOK
  <2>2. \A r \in Sockets : call'[r].fd = call[r].fd
    BY <1>1, <2>1, Records DEF Returned
  <2>3. OnlyBy(s)
    BY <1>1, <1>3, <2>1, <2>2 DEF OnlyBy, Returned, OwnSocket, IsOpen, history
  <2>4. OwnFiles(s)
    BY <1>1, <2>1 DEF OwnFiles, history
  <2>5. CallInOrder(s)' /\ BindsAfresh(s)'
    BY <1>1, <2>1, Records DEF Returned, CallInOrder, BindsAfresh
  <2>6. ASSUME ~copied
        PROVE  HolderNamed(s)' /\ DataWaits(s)' /\ (~overridden => FileIsOwn(s)')
    BY <1>1, <2>1, <2>6, Records
    DEF Returned, OwnSocket, HolderNamed, DataWaits, FileIsOwn, Safe, ObjectSafe
  <2>7. ObjectSafe(s)'
    BY <1>1, <2>5, <2>6 DEF ObjectSafe, history
  <2>8. NoLeak'
    <3>1. ASSUME NEW f \in Fds, ~replaced', name'[f] # "closed"
          PROVE  IsOpen(f) /\ f # receiveSocket[s] /\ f # call[s].fd
      BY <1>1, <1>3, <3>1, Numbers DEF IsOpen, history
    <3> QED BY <2>3, <3>1, StillNoLeak
  <2>9. TypeOK' /\ ReportsPathSentTo'
    BY <1>1, <1>3, <2>1, Records DEF Returned, OwnSocket, Safe, TypeOK, ReportsPathSentTo, history
  <2>10. (\A p \in Paths : FileLeads(p)') /\ \A f \in Fds : QueueNamed(f)'
    BY <1>1, <1>3 DEF Safe, FileLeads, QueueNamed
  <2>11. ASSUME ~replaced' PROVE UNCHANGED Table!vars
    <3>1. receiveSocket' = receiveSocket
      BY <1>1, <1>3, <2>11 DEF history, Safe, TypeOK
    <3> QED BY <1>3, <2>2, <3>1, TableStutter
  <2> QED BY <2>3, <2>4, <2>7, <2>8, <2>9, <2>10, <2>11, OthersSafe DEF Safe, TableStep
<1> QED BY <1>2, <1>3 DEF OpenReceiveSocket

\* ::bind() gives a descriptor that has no name the path, if nothing has it.
LEMMA BindReceiveSocketSafe ==
  ASSUME Safe, NEW s \in Sockets, BindReceiveSocket(s)
  PROVE  Safe' /\ TableStep
<1> USE DEF Calling, Returned
<1> DEFINE fd == receiveSocket[s]
           p == call[s].path
<1>1. /\ call[s].op = "bind" /\ call[s].at = "bind" /\ CallInOrder(s)
      /\ call[s].fd = Invalid /\ p \in Paths
      /\ ~bound[s] /\ socketPath[s] = NoPath /\ (~copied => ~sawReady[s])
      /\ Returned(s) /\ UNCHANGED <<receiveSocket, queue, history>>
  BY CallState, ReturnEffect DEF BindReceiveSocket, CallInOrder, Safe
<1>2. \A r \in Sockets : call'[r].fd = call[r].fd
  BY <1>1, Records
<1>3. BindsAfresh(s)' /\ ReportsPathSentTo'
  BY <1>1, Records DEF BindsAfresh, ReportsPathSentTo
<1>4. CASE /\ Bindable(s) /\ bound' = [bound EXCEPT ![s] = Bindable(s)]
           /\ socketPath' = [socketPath EXCEPT ![s] = p]
           /\ name' = [name EXCEPT ![fd] = p] /\ file' = [file EXCEPT ![p] = fd]
  <2>1. fd \in Fds /\ fd # Invalid /\ name[fd] = "unbound" /\ file[p] = NoFile
    BY <1>4, Numbers DEF Bindable, IsOpen
  <2>2. Named(fd, p) /\ OwnName(s, TRUE, p)
    BY <1>1, <1>4, <2>1 DEF Bindable, IsOpen, Named, OwnName, Safe, TypeOK
  <2>3. /\ file' \in [Paths -> Fds \cup {NoFile, Stale}] /\ file'[p] = fd
        /\ \A q \in Paths : q # p => file'[q] = file[q]
    BY <1>1, <1>4, <2>1 DEF Safe, TypeOK
  <2> HIDE DEF fd, p
  <2>4. fd = receiveSocket[s]
    BY DEF fd
  <2>5. OnlyBy(s)
    BY <1>1, <1>2, <2>2, <2>4, Records DEF OnlyBy, Named, OwnName, IsOpen, history
  <2>6. OwnFiles(s)
    BY <1>1, <2>1, <2>2, <2>3, Numbers DEF OwnName, OwnFiles
  <2>7. CallInOrder(s)'
    BY <1>1, <2>2, Records, Numbers DEF OwnName, CallInOrder
  <2>8. ASSUME ~copied
        PROVE  HolderNamed(s)' /\ DataWaits(s)' /\ FileIsOwn(s)'
    BY <1>1, <2>1, <2>2, <2>3, <2>4, <2>8, Records, Numbers
    DEF Named, OwnName, HolderNamed, DataWaits, FileIsOwn, IsOpen
  <2>9. ObjectSafe(s)'
    BY <1>1, <1>3, <2>7, <2>8 DEF ObjectSafe, history
  <2>10. NoLeak'
    <3>1. ASSUME NEW f \in Fds, name'[f] # "closed"
          PROVE  \/ IsOpen(f) /\ f # receiveSocket[s] /\ f # call[s].fd
                 \/ f = receiveSocket'[s]
      BY <1>1, <2>2, <2>4, <3>1, Numbers DEF Named, IsOpen
    <3> QED BY <2>5, <3>1, StillNoLeak
  <2>11. TypeOK'
    BY <1>1, <2>2, <2>3, Records DEF Named, OwnName, Safe, TypeOK, history
  <2>12. ASSUME NEW q \in Paths PROVE FileLeads(q)'
    BY <2>1, <2>2, <2>3, Numbers DEF Named, Safe, FileLeads
  <2>13. ASSUME NEW f \in Fds PROVE QueueNamed(f)'
    BY <1>1, <2>1, <2>2, Numbers DEF Named, Safe, QueueNamed
  <2>14. UNCHANGED Table!vars
    BY <1>1, <1>2, <2>1, <2>2, Numbers, TableStutter DEF Named
  <2> QED BY <1>3, <2>5, <2>6, <2>9, <2>10, <2>11, <2>12, <2>13, <2>14, OthersSafe DEF Safe, TableStep
<1>5. CASE /\ ~Bindable(s) /\ bound' = [bound EXCEPT ![s] = Bindable(s)]
           /\ UNCHANGED <<socketPath, name, file>>
  <2>1. OwnName(s, FALSE, NoPath)
    BY <1>1, <1>5 DEF Bindable, IsOpen, OwnName, Safe, TypeOK
  <2>2. OnlyBy(s)
    BY <1>1, <1>2, <1>5, <2>1, Records DEF OnlyBy, OwnName, IsOpen, history
  <2>3. OwnFiles(s)
    BY <1>1, <1>5, <2>1 DEF OwnName, OwnFiles
  <2>4. CallInOrder(s)'
    BY <1>1, <2>1, Records DEF OwnName, CallInOrder
  <2>5. ASSUME ~copied
        PROVE  HolderNamed(s)' /\ DataWaits(s)' /\ FileIsOwn(s)'
    BY <1>1, <1>5, <2>1, <2>5, Records, Numbers
    DEF OwnName, Safe, ObjectSafe, HolderNamed, DataWaits, FileIsOwn, IsOpen
  <2>6. ObjectSafe(s)'
    BY <1>1, <1>3, <2>4, <2>5 DEF ObjectSafe, history
  <2>7. NoLeak'
    <3>1. ASSUME NEW f \in Fds, name'[f] # "closed"
          PROVE  \/ IsOpen(f) /\ f # receiveSocket[s] /\ f # call[s].fd
                 \/ f = receiveSocket'[s]
      BY <1>1, <1>5, <3>1, Numbers DEF IsOpen
    <3> QED BY <2>2, <3>1, StillNoLeak
  <2>8. TypeOK'
    BY <1>1, <1>5, <2>1, Records DEF OwnName, Safe, TypeOK, history
  <2>9. (\A q \in Paths : FileLeads(q)') /\ \A f \in Fds : QueueNamed(f)'
    BY <1>1, <1>5 DEF Safe, FileLeads, QueueNamed
  <2>10. UNCHANGED Table!vars
    BY <1>1, <1>2, <1>5, TableStutter
  <2> QED BY <1>3, <2>2, <2>3, <2>6, <2>7, <2>8, <2>9, <2>10, OthersSafe DEF Safe, TableStep
<1> QED BY <1>4, <1>5 DEF BindReceiveSocket, IsBoundNow, BoundPath

\* close() closes what the member names, if anything, and sets the member.
LEMMA CloseReceiveSocketSafe ==
  ASSUME Safe, NEW s \in Sockets, CloseReceiveSocket(s)
  PROVE  Safe' /\ TableStep
<1> USE DEF Calling, GoesTo
<1> DEFINE fd == receiveSocket[s]
<1>1. /\ call[s].at = "close" /\ CallInOrder(s) /\ call[s].op \notin {"send", "none", "receive"}
      /\ call[s].fd = Invalid /\ (~copied => ~sawReady[s])
      /\ GoesTo(s, "unlink") /\ UNCHANGED <<bound, socketPath, history>>
  BY CallState, GotoEffect DEF CloseReceiveSocket, CallInOrder, Safe, Steps
<1>2. /\ Named(fd, name'[fd]) /\ (fd \in Fds => name'[fd] = "closed")
      /\ OwnSocket(s, Invalid)
  BY DEF CloseReceiveSocket, CloseFd, ToClose, ClosedValue, Named, OwnSocket, Safe, TypeOK
<1>3. /\ queue' \in [Fds -> Seq(Paths)] /\ (fd \in Fds => queue'[fd] = << >>)
      /\ \A f \in Fds : f # fd => queue'[f] = queue[f]
  BY DEF CloseReceiveSocket, CloseFd, ToClose, Safe, TypeOK
<1>4. /\ file' \in [Paths -> Fds \cup {NoFile, Stale}]
      /\ \A p \in Paths : file'[p] = IF file[p] \in Fds /\ file[p] = fd THEN Stale ELSE file[p]
  BY DEF CloseReceiveSocket, CloseFd, ToClose, Safe, TypeOK
<1>5. \A r \in Sockets : call'[r].fd = call[r].fd
  BY <1>1
<1> HIDE DEF fd
<1>6. fd = receiveSocket[s] /\ fd \in Fds \cup {Invalid}
  BY DEF fd, Safe, TypeOK
<1>7. OnlyBy(s)
  BY <1>1, <1>2, <1>3, <1>5, <1>6 DEF OnlyBy, Named, OwnSocket, history
<1>8. OwnFiles(s)
  <2>1. ASSUME ~copied, NEW p \in Paths, file'[p] = Stale
        PROVE  file[p] = Stale \/ (bound[s] /\ socketPath[s] = p)
    <3>1. CASE file[p] \in Fds /\ file[p] = fd
      <4>1. name[fd] = p
        BY <3>1 DEF Safe, FileLeads
      <4> QED BY <1>6, <2>1, <3>1, <4>1, Numbers DEF Safe, ObjectSafe, HolderNamed
    <3>2. CASE ~(file[p] \in Fds /\ file[p] = fd)
      BY <1>4, <2>1, <3>2
    <3> QED BY <3>1, <3>2
  <2> QED BY <1>1, <1>4, <1>6, <2>1, Numbers DEF OwnFiles
<1>9. CallInOrder(s)' /\ BindsAfresh(s)'
  BY <1>1, <1>2 DEF OwnSocket, CallInOrder, BindsAfresh
<1>10. ASSUME ~copied
       PROVE  HolderNamed(s)' /\ DataWaits(s)' /\ (~overridden => FileIsOwn(s)')
  <2>1. HolderNamed(s)' /\ DataWaits(s)'
    BY <1>1, <1>2, <1>10 DEF OwnSocket, HolderNamed, DataWaits
  <2>2. bound[s] => socketPath[s] \in Paths
    BY CallState
  <2> QED BY <1>1, <1>2, <1>4, <1>10, <2>1, <2>2, Numbers DEF OwnSocket, Safe, ObjectSafe, FileIsOwn
<1>11. ObjectSafe(s)'
  BY <1>1, <1>9, <1>10 DEF ObjectSafe, history
<1>12. NoLeak'
  <2>1. ASSUME NEW f \in Fds, name'[f] # "closed"
        PROVE  IsOpen(f) /\ f # receiveSocket[s] /\ f # call[s].fd
    BY <1>1, <1>2, <1>6, <2>1, Numbers DEF Named, IsOpen
  <2> QED BY <1>7, <2>1, StillNoLeak
<1>13. TypeOK' /\ ReportsPathSentTo'
  BY <1>1, <1>2, <1>3, <1>4, Records DEF Named, OwnSocket, Safe, TypeOK, ReportsPathSentTo, history
<1>14. ASSUME NEW p \in Paths PROVE FileLeads(p)'
  BY <1>2, <1>4, Numbers DEF Named, Safe, FileLeads
<1>15. ASSUME NEW f \in Fds PROVE QueueNamed(f)'
  BY <1>2, <1>3 DEF Named, Safe, QueueNamed
<1>16. ASSUME ~copied'
       PROVE  Table!Next \/ UNCHANGED Table!vars
  <2>1. CASE fd = Invalid
    <3>1. receiveSocket' = receiveSocket
      <4>1. \A t \in Sockets : receiveSocket'[t] = receiveSocket[t]
        BY <1>2, <1>6, <2>1 DEF OwnSocket
      <4> QED BY <1>2, <4>1 DEF OwnSocket, Safe, TypeOK
    <3> QED BY <1>2, <1>5, <2>1, <3>1, Numbers, TableStutter DEF Named
  <2>2. CASE fd # Invalid
    <3>1. fd \in Fds /\ s \in Holders /\ Holds(s, fd)
      BY <1>6, <2>2, ConstantsAssumption DEF ConstantsAssumption, Holders, Holds
    <3>2. \A r \in Sockets : r # s => receiveSocket[r] # fd
      BY <1>1, <1>6, <1>16, <2>2 DEF history, Safe, HeldOnce, Apart
    <3>3. \A r \in Sockets : call[r].fd # fd
      BY <1>1, <1>6, <1>16, <2>2 DEF history, Safe, HeldOnce, Apart
    <3>4. \A o \in Holders, f \in Fds : Holds(o, f)' <=> Holds(o, f) /\ <<o, f>> # <<s, fd>>
      BY <1>2, <1>5, <1>6, <3>2, <3>3, Numbers, ConstantsAssumption
      DEF ConstantsAssumption, OwnSocket, Holds, Holders
    <3> QED BY <1>2, <3>1, <3>4, TableRelease DEF Named
  <2> QED BY <2>1, <2>2
<1> QED BY <1>7, <1>8, <1>11, <1>12, <1>13, <1>14, <1>15, <1>16, OthersSafe DEF Safe, TableStep

\* close() removes the file of its path and unbinds the object.
LEMMA UnlinkSafe ==
  ASSUME Safe, NEW s \in Sockets, Unlink(s)
  PROVE  Safe' /\ TableStep
<1> USE DEF Calling
<1>1. /\ call[s].at = "unlink" /\ call[s].op \notin {"send", "none", "receive"} /\ CallInOrder(s)
      /\ call[s].fd = Invalid /\ receiveSocket[s] = Invalid
      /\ ~copied => ~sawReady[s]
      /\ bound[s] => socketPath[s] \in Paths
      /\ UNCHANGED <<receiveSocket, name, queue, history>>
  BY CallState DEF Unlink, CallInOrder
<1>2. OwnName(s, FALSE, NoPath)
  BY DEF Unlink, OwnName, Safe, TypeOK
<1>3. /\ file' \in [Paths -> Fds \cup {NoFile, Stale}]
      /\ \A p \in Paths : file'[p] = IF bound[s] /\ p = socketPath[s] THEN NoFile ELSE file[p]
  BY DEF Unlink, ToRemove, Safe, TypeOK
<1>4. /\ Calling(s) /\ result' = NoResult /\ sawReady' = sawReady
      /\ call'[s].fd = Invalid /\ (call'[s].op = "bind" <=> call[s].op = "bind")
      /\ IF call[s].op = "bind" THEN call'[s].at = "bind" /\ call'[s].path = call[s].path
                                ELSE call'[s] = NoCall
  <2>1. CASE call[s].op = "bind" /\ Goto(s, "bind")
    <3>1. GoesTo(s, "bind")
      BY <2>1, GotoEffect DEF Safe, Steps
    <3> QED BY <1>1, <2>1, <3>1 DEF GoesTo
  <2>2. CASE call[s].op # "bind" /\ Return(s)
    BY <2>2, ReturnEffect, Records DEF Returned, Safe
  <2> QED BY <2>1, <2>2 DEF Unlink
<1>5. \A r \in Sockets : call'[r].fd = call[r].fd
  BY <1>1, <1>4
<1>6. OnlyBy(s)
  BY <1>1, <1>2, <1>4, <1>5 DEF OnlyBy, OwnName, IsOpen, history
<1>7. OwnFiles(s)
  <2>1. ASSUME NEW p \in Paths, file'[p] = Stale
        PROVE  file[p] = Stale /\ ~(bound[s] /\ p = socketPath[s])
    BY <1>3, <2>1, Numbers
  <2> QED BY <1>1, <1>2, <1>3, <2>1 DEF OwnName, OwnFiles
<1>8. CallInOrder(s)' /\ BindsAfresh(s)'
  BY <1>1, <1>2, <1>4, Records DEF OwnName, CallInOrder, BindsAfresh
<1>9. ASSUME ~copied
      PROVE  HolderNamed(s)' /\ DataWaits(s)' /\ FileIsOwn(s)'
  BY <1>1, <1>2, <1>4, <1>9 DEF OwnName, HolderNamed, DataWaits, FileIsOwn
<1>10. ObjectSafe(s)'
  BY <1>1, <1>8, <1>9 DEF ObjectSafe, history
<1>11. NoLeak'
  BY <1>1, <1>6, Numbers, StillNoLeak DEF IsOpen
<1>12. TypeOK' /\ ReportsPathSentTo'
  BY <1>1, <1>2, <1>3, <1>4, Records DEF OwnName, Safe, TypeOK, ReportsPathSentTo, history
<1>13. (\A p \in Paths : FileLeads(p)') /\ \A f \in Fds : QueueNamed(f)'
  BY <1>1, <1>3, Numbers DEF Safe, FileLeads, QueueNamed
<1>14. UNCHANGED Table!vars
  BY <1>1, <1>5, TableStutter
<1> QED BY <1>6, <1>7, <1>10, <1>11, <1>12, <1>13, <1>14, OthersSafe DEF Safe, TableStep

\* sendTo() takes a number that was free for its temporary socket.
LEMMA OpenTemporarySocketSafe ==
  ASSUME Safe, NEW s \in Sockets, NEW p \in Paths, OpenTemporarySocket(s, p)
  PROVE  Safe' /\ TableStep
<1> USE DEF Calling, Entered
<1>1. PICK fd \in FreeFds : /\ name' = [name EXCEPT ![fd] = "unbound"]
                            /\ Enter(s, NewCall("send", "send", p, fd))
  BY DEF OpenTemporarySocket
<1>2. /\ fd \in Fds /\ fd # Invalid /\ name[fd] = "closed" /\ Named(fd, "unbound")
      /\ UNCHANGED <<objects, queue, file, history>>
  BY <1>1, Numbers DEF OpenTemporarySocket, FreeFds, Named, Safe, TypeOK
<1> DEFINE c == NewCall("send", "send", p, fd)
<1>3. c \in Calls /\ c.op = "send" /\ c.at = "send" /\ c.path = p /\ c.fd = fd
  BY <1>2 DEF NewCall, Calls, Steps
<1> HIDE DEF c
<1>4. Entered(s, c)
  BY <1>1, <1>3, EnterEffect DEF Safe, c
<1>5. CallInOrder(s) /\ call[s].at = "none" /\ call[s].fd = Invalid
  BY <1>4, CallState DEF CallInOrder
<1>6. ~copied => HolderNamed(s)
  BY DEF Safe, ObjectSafe
<1>7. OnlyBy(s)
  <2>1. ~copied /\ receiveSocket'[s] # Invalid => receiveSocket'[s] # call'[s].fd
    BY <1>2, <1>3, <1>4, <1>6 DEF HolderNamed, IsOpen, objects
  <2> QED BY <1>2, <1>3, <1>4, <1>5, <2>1 DEF OnlyBy, Named, IsOpen, FreeFds, objects, history
<1>8. OwnFiles(s)
  BY <1>2, <1>5 DEF OwnFiles, objects, history
<1>9. CallInOrder(s)' /\ BindsAfresh(s)'
  BY <1>2, <1>3, <1>4, <1>5, Numbers DEF CallInOrder, BindsAfresh, objects, history
<1>10. ASSUME ~copied
       PROVE  HolderNamed(s)' /\ DataWaits(s)' /\ (~overridden => FileIsOwn(s)')
  BY <1>2, <1>3, <1>4, <1>5, <1>6, <1>10, Numbers
  DEF Named, Safe, ObjectSafe, HolderNamed, DataWaits, FileIsOwn, IsOpen, objects
<1>11. ObjectSafe(s)'
  BY <1>2, <1>9, <1>10 DEF ObjectSafe, history
<1>12. NoLeak'
  <2>1. ASSUME NEW f \in Fds, name'[f] # "closed"
        PROVE  \/ IsOpen(f) /\ f # receiveSocket[s] /\ f # call[s].fd
               \/ f = receiveSocket'[s] \/ f = call'[s].fd
    BY <1>2, <1>3, <1>4, <1>5, <2>1, Numbers DEF Named, IsOpen, objects
  <2> QED BY <1>7, <2>1, StillNoLeak
<1>13. TypeOK' /\ ReportsPathSentTo'
  BY <1>2, <1>3, <1>4, Records DEF Named, Safe, TypeOK, ReportsPathSentTo, objects, history
<1>14. (\A q \in Paths : FileLeads(q)') /\ \A f \in Fds : QueueNamed(f)'
  BY <1>2, Numbers DEF Named, Safe, FileLeads, QueueNamed
<1>15. Table!Next
  <2>1. "temporary" \in Holders
    BY DEF Holders
  <2>2. \A o \in Holders, f \in Fds : Holds(o, f)' <=> Holds(o, f) \/ <<o, f>> = <<"temporary", fd>>
    BY <1>2, <1>3, <1>4, <1>5, Numbers, ConstantsAssumption
    DEF ConstantsAssumption, Holds, Holders, objects
  <2> QED BY <1>2, <2>1, <2>2, Numbers, TableAcquire DEF Named
<1> QED BY <1>7, <1>8, <1>11, <1>12, <1>13, <1>14, <1>15, OthersSafe DEF Safe, TableStep

\* ::sendto() appends to the queue of the socket that has the path, or fails;
\* either way sendTo() closes its temporary socket.
LEMMA SendDatagramSafe ==
  ASSUME Safe, NEW s \in Sockets, SendDatagram(s)
  PROVE  Safe' /\ TableStep
<1> USE DEF Calling, Returned
<1> DEFINE own == call[s].fd
           p == call[s].path
           to == file[p]
<1>1. /\ call[s].op = "send" /\ call[s].at = "send" /\ CallInOrder(s)
      /\ own \in Fds /\ own # Invalid /\ p \in Paths /\ (~copied => ~sawReady[s])
      /\ Returned(s) /\ UNCHANGED <<objects, history>>
  BY CallState, ReturnEffect DEF SendDatagram, CallInOrder, Calls, Safe
<1>2. /\ Named(own, "closed") /\ file' \in [Paths -> Fds \cup {NoFile, Stale}]
      /\ \A q \in Paths : file'[q] = IF file[q] = own THEN Stale ELSE file[q]
  BY <1>1 DEF SendDatagram, Named, Safe, TypeOK
<1>3. /\ queue' \in [Fds -> Seq(Paths)] /\ queue'[own] = << >>
      /\ \A f \in Fds : f # own =>
           \/ queue'[f] = queue[f]
           \/ f = to /\ queue'[f] = Append(queue[f], p)
  <2>1. queue \in [Fds -> Seq(Paths)] /\ << >> \in Seq(Paths)
    BY DEF Safe, TypeOK
  <2>2. ASSUME NEW f \in Fds PROVE Append(queue[f], p) \in Seq(Paths)
    BY <1>1, <2>1
  <2>3. CASE queue' = [f \in Fds |-> IF f = own THEN << >>
                                     ELSE IF f = to THEN Append(queue[f], p) ELSE queue[f]]
    BY <1>1, <2>1, <2>2, <2>3
  <2>4. CASE queue' = [f \in Fds |-> IF f = own THEN << >> ELSE queue[f]]
    BY <1>1, <2>1, <2>4
  <2> QED BY <2>3, <2>4 DEF SendDatagram
<1>4. to \in Fds => name[to] = p
  BY <1>1 DEF Safe, FileLeads
<1> HIDE DEF own, p, to
<1>5. own = call[s].fd
  BY DEF own
<1>6. \A f \in Fds : f # own =>
        /\ queue[f] # << >> => queue'[f] # << >>
        /\ QueueNamed(f)'
  <2> SUFFICES ASSUME NEW f \in Fds, f # own
               PROVE  (queue[f] # << >> => queue'[f] # << >>) /\ QueueNamed(f)'
    OBVIOUS
  <2>1. QueueNamed(f) /\ name'[f] = name[f] /\ queue[f] \in Seq(Paths)
    BY <1>2 DEF Named, Safe, TypeOK
  <2>2. CASE queue'[f] = queue[f]
    BY <2>1, <2>2 DEF QueueNamed
  <2>3. CASE f = to /\ queue'[f] = Append(queue[f], p)
    <3> DEFINE q == queue[f]
               r == queue'[f]
    <3>1. q \in Seq(Paths) /\ r = Append(q, p) /\ name'[f] = p
      BY <1>4, <2>1, <2>3
    <3>2. \A i \in 1..Len(q) : q[i] = p
      <4>1. q # << >> => \A i \in 1..Len(q) : q[i] = p
        BY <1>4, <2>1, <2>3 DEF QueueNamed
      <4>2. q = << >> => Len(q) = 0
        OBVIOUS
      <4> QED BY <4>1, <4>2
    <3> HIDE DEF q
    <3>3. Append(q, p) # << >> /\ \A i \in 1..Len(Append(q, p)) : Append(q, p)[i] = p
      BY <1>1, <3>1, <3>2
    <3> QED BY <1>1, <3>1, <3>3 DEF QueueNamed
  <2> QED BY <1>3, <2>2, <2>3
<1>7. OnlyBy(s)
  BY <1>1, <1>2, <1>3, <1>5, <1>6, Records DEF OnlyBy, Named, objects, history
<1>8. ~copied => name[own] = "unbound" /\ \A q \in Paths : file'[q] = file[q]
  <2>1. ~copied => name[own] = "unbound"
    BY <1>1, <1>5 DEF Safe, ObjectSafe, HolderNamed
  <2>2. ASSUME ~copied, NEW q \in Paths PROVE file[q] # own
    BY <1>1, <2>1, <2>2, Numbers DEF Safe, FileLeads
  <2> QED BY <1>2, <2>1, <2>2
<1>9. OwnFiles(s)
  BY <1>1, <1>2, <1>5, <1>8, Numbers, CallState DEF OwnFiles, objects
<1>10. CallInOrder(s)' /\ BindsAfresh(s)'
  BY <1>1, Records DEF CallInOrder, BindsAfresh, objects
<1>11. ASSUME ~copied
       PROVE  HolderNamed(s)' /\ DataWaits(s)' /\ (~overridden => FileIsOwn(s)')
  <2>1. HolderNamed(s) /\ (~overridden => FileIsOwn(s)) /\ (bound[s] => socketPath[s] \in Paths)
    BY <1>11, CallState DEF Safe, ObjectSafe
  <2>2. receiveSocket[s] # Invalid => receiveSocket[s] # own
    BY <1>5, <1>11 DEF Safe, HeldOnce, Apart
  <2> QED BY <1>1, <1>2, <1>8, <1>11, <2>1, <2>2, Records
          DEF Named, HolderNamed, DataWaits, FileIsOwn, IsOpen, objects
<1>12. ObjectSafe(s)'
  BY <1>1, <1>10, <1>11 DEF ObjectSafe, history
<1>13. NoLeak'
  <2>1. ASSUME NEW f \in Fds, name'[f] # "closed"
        PROVE  IsOpen(f) /\ f # own
    BY <1>2, <2>1 DEF Named, IsOpen
  <2> QED BY <1>1, <1>5, <1>7, <2>1, StillNoLeak DEF objects
<1>14. TypeOK' /\ ReportsPathSentTo'
  BY <1>1, <1>2, <1>3, Records DEF Named, Safe, TypeOK, ReportsPathSentTo, objects, history
<1>15. ASSUME NEW q \in Paths PROVE FileLeads(q)'
  BY <1>2, Numbers DEF Named, Safe, FileLeads
<1>16. \A f \in Fds : QueueNamed(f)'
  BY <1>3, <1>6 DEF QueueNamed
<1>17. ASSUME ~copied'
       PROVE  Table!Next
  <2>1. "temporary" \in Holders /\ Holds("temporary", own)
    BY <1>5, ConstantsAssumption DEF Holders, Holds
  <2>2. \A r \in Sockets : call'[r].fd = IF r = s THEN Invalid ELSE call[r].fd
    BY <1>1, Records
  <2>3. \A r \in Sockets : r # s => call[r].fd # own
    BY <1>1, <1>5, <1>17 DEF history, Safe, HeldOnce, Apart
  <2>4. \A o \in Holders, f \in Fds : Holds(o, f)' <=> Holds(o, f) /\ <<o, f>> # <<"temporary", own>>
    BY <1>1, <1>5, <2>2, <2>3, Numbers, ConstantsAssumption
    DEF ConstantsAssumption, Holds, Holders, objects
  <2> QED BY <1>1, <1>2, <2>1, <2>4, TableRelease DEF Named
<1> QED BY <1>7, <1>9, <1>12, <1>13, <1>14, <1>15, <1>16, <1>17, OthersSafe DEF Safe, TableStep

\* receiveFrom() takes the first datagram, and only its caller does; it reports
\* the path of the object, which is where the datagram was sent.
LEMMA ReceiveDatagramSafe ==
  ASSUME Safe, NEW s \in Sockets, ReceiveDatagram(s)
  PROVE  Safe' /\ TableStep
<1> USE DEF Calling, Answered
<1> DEFINE fd == receiveSocket[s]
           q == queue[fd]
           res == [flag |-> 1, to |-> Head(q), path |-> socketPath[s]]
<1>1. /\ call[s].op = "receive" /\ call[s].fd = Invalid /\ CallInOrder(s)
      /\ IsOpen(fd) /\ fd \in Fds /\ fd # Invalid /\ q # << >> /\ q \in Seq(Paths)
      /\ UNCHANGED <<objects, name, file, history>>
  BY CallState, Numbers DEF ReceiveDatagram, CallInOrder, IsOpen, Safe, TypeOK
<1>2. Answered(s, res)
  BY AnswerEffect DEF ReceiveDatagram, Safe
<1>3. queue' = [queue EXCEPT ![fd] = Tail(q)]
  BY DEF ReceiveDatagram
<1>4. name[fd] \in Paths /\ \A i \in 1..Len(q) : q[i] = name[fd]
  BY <1>1 DEF Safe, QueueNamed
<1> HIDE DEF q
<1>5. Head(q) = name[fd] /\ Tail(q) \in Seq(Paths) /\ \A i \in 1..Len(Tail(q)) : Tail(q)[i] = name[fd]
  <2>1. Head(q) = q[1] /\ 1 \in 1..Len(q) /\ Tail(q) \in Seq(Paths) /\ Len(Tail(q)) = Len(q) - 1
    BY <1>1
  <2>2. \A i \in 1..Len(q) - 1 : Tail(q)[i] = q[i + 1] /\ i + 1 \in 1..Len(q)
    BY <1>1
  <2> QED BY <1>4, <2>1, <2>2
<1>6. /\ queue' \in [Fds -> Seq(Paths)] /\ queue'[fd] = Tail(q)
      /\ \A f \in Fds : f # fd => queue'[f] = queue[f]
  BY <1>1, <1>3, <1>5 DEF Safe, TypeOK
<1>7. res \in Results /\ res.flag = 1 /\ res.to = name[fd] /\ res.path = socketPath[s]
  BY <1>4, <1>5 DEF Results, Safe, TypeOK
<1> HIDE DEF fd, res
<1>8. fd = receiveSocket[s] /\ \A r \in Sockets : call'[r].fd = call[r].fd
  BY <1>1, <1>2, Records DEF fd
<1>9. OnlyBy(s)
  BY <1>1, <1>2, <1>6, <1>8 DEF OnlyBy, IsOpen, objects, history
<1>10. OwnFiles(s)
  BY <1>1 DEF OwnFiles, CallInOrder, objects, history
<1>11. CallInOrder(s)' /\ BindsAfresh(s)'
  BY <1>1, <1>2, Records DEF CallInOrder, BindsAfresh, objects
<1>12. ASSUME ~copied
       PROVE  HolderNamed(s)' /\ DataWaits(s)' /\ (~overridden => FileIsOwn(s)')
  BY <1>1, <1>2, <1>12, Records
  DEF Safe, ObjectSafe, HolderNamed, DataWaits, FileIsOwn, IsOpen, objects
<1>13. ObjectSafe(s)'
  BY <1>1, <1>11, <1>12 DEF ObjectSafe, history
<1>14. NoLeak'
  BY <1>1, <1>8, <1>9, Numbers, StillNoLeak DEF IsOpen, objects
<1>15. TypeOK'
  BY <1>1, <1>2, <1>6, <1>7 DEF Safe, TypeOK, objects, history
<1>16. ReportsPathSentTo'
  <2>1. ~copied => socketPath[s] = name[fd]
    BY <1>1, <1>4, <1>8 DEF Safe, ObjectSafe, HolderNamed
  <2> QED BY <1>1, <1>2, <1>7, <2>1 DEF ReportsPathSentTo, history
<1>17. (\A p \in Paths : FileLeads(p)') /\ \A f \in Fds : QueueNamed(f)'
  BY <1>1, <1>4, <1>5, <1>6 DEF Safe, FileLeads, QueueNamed
<1>18. UNCHANGED Table!vars
  BY <1>1, <1>8, TableStutter DEF objects
<1> QED BY <1>9, <1>10, <1>13, <1>14, <1>15, <1>16, <1>17, <1>18, OthersSafe DEF Safe, TableStep

\* A copy holds the descriptor of another object; its own is left to its caller.
LEMMA AssignSafe ==
  ASSUME Safe, NEW s \in Sockets, NEW t \in Sockets, Assign(s, t)
  PROVE  Safe' /\ TableStep
<1> USE DEF Calling, Answered
<1>1. /\ call[s].op = "none" /\ call[t].op = "none" /\ copied'
      /\ replaced' = (replaced \/ receiveSocket[s] # Invalid)
      /\ Answered(s, NoResult) /\ UNCHANGED <<kernel, overridden>>
  BY AnswerEffect DEF Assign, Replace, Safe
<1>2. OwnName(s, bound[t], socketPath[t]) /\ OwnSocket(s, receiveSocket[t])
  BY DEF Assign, OwnName, OwnSocket, Safe, TypeOK
<1>3. CallInOrder(s) /\ CallInOrder(t) /\ call[s].fd = Invalid
  BY <1>1, CallState
<1>4. ASSUME NEW u \in Sockets
      PROVE  ObjectSafe(u)'
  <2>1. CallInOrder(u) /\ BindsAfresh(u)
    BY DEF Safe, ObjectSafe
  <2>2. CallInOrder(u)'
    BY <1>1, <1>2, <1>3, <2>1, Records DEF OwnName, OwnSocket, CallInOrder
  <2>3. BindsAfresh(u)'
    BY <1>1, <1>2, <2>1, Records DEF OwnSocket, BindsAfresh
  <2> QED BY <1>1, <2>2, <2>3 DEF ObjectSafe
<1>5. HeldOnce' /\ PathsAreOwn' /\ NoStaleFile' /\ ReportsPathSentTo' /\ TableStep
  BY <1>1 DEF HeldOnce, PathsAreOwn, NoStaleFile, ReportsPathSentTo, TableStep
<1>6. NoLeak'
  <2> SUFFICES ASSUME ~replaced', NEW fd \in Fds, IsOpen(fd)'
               PROVE  \E u \in Sockets : receiveSocket'[u] = fd \/ call'[u].fd = fd
    BY DEF NoLeak
  <2>1. PICK u \in Sockets : receiveSocket[u] = fd \/ call[u].fd = fd
    BY <1>1 DEF Safe, NoLeak, IsOpen, kernel
  <2>2. u # s
    BY <1>1, <1>3, <2>1, Numbers
  <2> QED BY <1>1, <1>2, <2>1, <2>2 DEF OwnSocket
<1>7. TypeOK'
  BY <1>1, <1>2, Records DEF OwnName, OwnSocket, Safe, TypeOK, kernel
<1>8. (\A p \in Paths : FileLeads(p)') /\ \A fd \in Fds : QueueNamed(fd)'
  BY <1>1 DEF Safe, FileLeads, QueueNamed, kernel
<1> QED BY <1>4, <1>5, <1>6, <1>7, <1>8 DEF Safe

\* At first nobody has a socket and no path leads anywhere.
LEMMA InitSafe == Init => Safe
<1> SUFFICES ASSUME Init PROVE Safe
  OBVIOUS
<1> USE DEF Init
<1>1. TypeOK
  <2>1. queue \in [Fds -> Seq(Paths)]
    OBVIOUS
  <2>2. result \in Results /\ call \in [Sockets -> Calls]
    BY Records
  <2> QED BY <2>1, <2>2 DEF TypeOK
<1>2. ASSUME NEW s \in Sockets PROVE ObjectSafe(s)
  BY Records DEF ObjectSafe, CallInOrder, BindsAfresh, HolderNamed, DataWaits, FileIsOwn
<1>3. HeldOnce /\ PathsAreOwn
  BY Records DEF HeldOnce, Apart, PathsAreOwn
<1>4. (\A p \in Paths : FileLeads(p)) /\ \A fd \in Fds : QueueNamed(fd)
  BY Numbers DEF FileLeads, QueueNamed
<1>5. NoStaleFile /\ NoLeak /\ ReportsPathSentTo
  BY Numbers, Records DEF NoStaleFile, NoLeak, ReportsPathSentTo, IsOpen
<1> QED BY <1>1, <1>2, <1>3, <1>4, <1>5 DEF Safe

\* Every step keeps the invariant and uses descriptors as DescriptorTable says.
LEMMA NextSafe == Safe /\ [Next]_vars => Safe' /\ TableStep
<1> SUFFICES ASSUME Safe, [Next]_vars PROVE Safe' /\ TableStep
  OBVIOUS
<1>1. ASSUME NEW s \in Sockets, Call(s) PROVE Safe' /\ TableStep
  BY <1>1, BindSafe, OpenTemporarySocketSafe, OtherCallsSafe DEF Call
<1>2. ASSUME NEW s \in Sockets, Step(s) PROVE Safe' /\ TableStep
  BY <1>2, RemoveExistingSafe, OpenReceiveSocketSafe, BindReceiveSocketSafe,
     CloseReceiveSocketSafe, UnlinkSafe, SendDatagramSafe, ReceiveDatagramSafe,
     ReceiveFailsSafe, PollForReadySafe DEF Step
<1>3. ASSUME NEW s \in Sockets, NEW t \in Sockets, Assign(s, t) PROVE Safe' /\ TableStep
  BY <1>3, AssignSafe
<1>4. CASE UNCHANGED vars
  <2> USE <1>4 DEF vars, objects, kernel, history
  <2>1. (\A s \in Sockets : ObjectSafe(s)') /\ HeldOnce' /\ PathsAreOwn'
    BY DEF Safe, ObjectSafe, CallInOrder, BindsAfresh, HolderNamed, DataWaits, FileIsOwn, IsOpen,
           HeldOnce, Apart, PathsAreOwn
  <2>2. TypeOK'
    BY DEF Safe, TypeOK
  <2>3. (\A p \in Paths : FileLeads(p)') /\ \A fd \in Fds : QueueNamed(fd)'
    BY DEF Safe, FileLeads, QueueNamed
  <2>4. NoStaleFile' /\ NoLeak' /\ ReportsPathSentTo'
    BY DEF Safe, NoStaleFile, NoLeak, ReportsPathSentTo, IsOpen
  <2>5. TableStep
    BY TableStutter DEF TableStep
  <2> QED BY <2>1, <2>2, <2>3, <2>4, <2>5 DEF Safe
<1> QED BY <1>1, <1>2, <1>3, <1>4 DEF Next

\* The inductive invariant holds in every state the library can reach.
THEOREM SafetyInvariant == Spec => []Safe
  BY InitSafe, NextSafe, PTL DEF Spec

\* The members, the kernel's state and the calls keep their types.
THEOREM TypeCorrect == Spec => []TypeOK
<1>1. Safe => TypeOK
  BY DEF Safe
<1> QED BY SafetyInvariant, <1>1, PTL

\* Without copies and overriding bind()s, what a bound object's path leads to is
\* the object, whatever other threads bind and close.
THEOREM BoundObjectsReachable == Spec => []BoundIsReachable
<1>1. Safe => BoundIsReachable
  <2> SUFFICES ASSUME Safe, ~copied, ~overridden, NEW s \in Sockets, bound[s],
                      call[s].op \in {"none", "send", "receive", "ready"}, receiveSocket[s] # Invalid
               PROVE  /\ name[receiveSocket[s]] = socketPath[s]
                      /\ \E p \in Paths : p = socketPath[s] /\ file[p] = receiveSocket[s]
    BY DEF BoundIsReachable
  <2>1. socketPath[s] \in Paths /\ receiveSocket[s] \in Fds
    BY CallState DEF Safe, TypeOK
  <2>2. file[socketPath[s]] = receiveSocket[s]
    BY DEF Safe, ObjectSafe, FileIsOwn
  <2> QED BY <2>1, <2>2 DEF Safe, FileLeads
<1> QED BY SafetyInvariant, <1>1, PTL

\* Without copies a file without a socket is about to be removed by whoever
\* closed the socket.
THEOREM NoFileLeftBehind == Spec => []NoStaleFile
<1>1. Safe => NoStaleFile
  BY DEF Safe
<1> QED BY SafetyInvariant, <1>1, PTL

\* If callers close before they bind or assign again, no descriptor is lost.
THEOREM NoDescriptorLeak == Spec => []NoLeak
<1>1. Safe => NoLeak
  BY DEF Safe
<1> QED BY SafetyInvariant, <1>1, PTL

\* Without copies, what receiveFrom() reports is where the datagram was sent.
THEOREM ReportsRightPath == Spec => []ReportsPathSentTo
<1>1. Safe => ReportsPathSentTo
  BY DEF Safe
<1> QED BY SafetyInvariant, <1>1, PTL

\* Without copies, the datagram that ready() saw is there for receiveFrom().
THEOREM ReadyIsKept == Spec => []ReadyMeansReceives
<1>1. Safe => ReadyMeansReceives
  BY DEF Safe, ObjectSafe, DataWaits, ReadyMeansReceives
<1> QED BY SafetyInvariant, <1>1, PTL

\* The library uses descriptors as DescriptorTable says: the first states are
\* its first states, and every step is one of its or none.
THEOREM DescriptorsAsInTable == Spec => ImplementsDescriptorTable
<1>1. Init => Table!Init
  BY Records, Numbers DEF Init, Table!Init, Holds, Holders, IsOpen
<1>2. Safe /\ [Next]_vars => [~copied' /\ ~replaced' => Table!Next]_(Table!vars)
  BY NextSafe DEF TableStep
<1> QED BY SafetyInvariant, <1>1, <1>2, PTL DEF Spec, ImplementsDescriptorTable
=============================================================================

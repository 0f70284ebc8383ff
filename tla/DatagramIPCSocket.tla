-------------------------- MODULE DatagramIPCSocket -------------------------
(***************************************************************************)
(* kt::DatagramIPCSocket: objects of one process, each used by one thread, *)
(* over the process's descriptor table and the names of the file system.   *)
(* Each system call of bind(), close(), sendTo() and receiveFrom() is a    *)
(* step.  Local datagrams are neither lost nor reordered; a datagram is    *)
(* the path it was sent to.                                                *)
(***************************************************************************)
EXTENDS Integers, Sequences, FiniteSets

CONSTANTS
  Sockets,     \* the DatagramIPCSocket objects
  Fds,         \* the descriptor numbers the process has left
  Paths,       \* the socket paths, as truncated to sun_path
  MaxQueue     \* bound: the datagrams one receive buffer holds

ASSUME ConstantsAssumption ==
  /\ Fds \cap {-1, -2} = {}
  /\ MaxQueue \in Nat
  /\ Paths \cap {"none", "closed", "unbound"} = {}
  /\ "temporary" \notin Sockets

VARIABLES
  bound, receiveSocket, socketPath,   \* the members of each object
  name,     \* kernel: the path each descriptor was bound to
  queue,    \* kernel: the datagrams each descriptor has yet to hand out
  file,     \* what each path leads to
  call,     \* the call each object's thread is in
  result,   \* what receiveFrom() returned, if the last step ended one
  sawReady,    \* history: the object's last call was a ready() that said yes
  copied,      \* history: an object was assigned to another
  replaced,    \* history: a receive socket was replaced and not closed first
  overridden   \* history: a bind() removed what it found at its path

objects == <<bound, receiveSocket, socketPath>>
kernel == <<name, queue, file>>
history == <<copied, replaced, overridden>>
vars == <<objects, kernel, call, result, sawReady, history>>

Invalid == -1
NoPath == "none"    \* std::nullopt
NoFile == -1
Stale == -2

IsOpen(fd) == fd \in Fds /\ name[fd] # "closed"
FreeFds == {fd \in Fds : name[fd] = "closed"}

\* at is the system call the thread is at, fd the temporary socket of sendTo().
NewCall(op, at, path, fd) == [op |-> op, at |-> at, path |-> path, fd |-> fd]
NoCall == NewCall("none", "none", NoPath, Invalid)

\* to is the path the datagram was sent to, path the one receiveFrom() returns.
NoResult == [flag |-> -1, to |-> NoPath, path |-> NoPath]

Enter(s, c) ==
  /\ call[s].op = "none"
  /\ call' = [call EXCEPT ![s] = c]
  /\ result' = NoResult
  /\ sawReady' = [sawReady EXCEPT ![s] = @ /\ c.op = "receive"]

\* A thread goes on to another system call, or ends its call.
Proceed(s, c) == call' = [call EXCEPT ![s] = c] /\ result' = NoResult /\ UNCHANGED sawReady
Goto(s, at) == Proceed(s, [call[s] EXCEPT !.at = at])
Return(s) == Proceed(s, NoCall)
ReturnResult(s, res) ==
  /\ call' = [call EXCEPT ![s] = NoCall]
  /\ result' = res
  /\ sawReady' = [sawReady EXCEPT ![s] = FALSE]

\* ::close() frees the number; the name that led to the socket stays.
CloseFd(fd) ==
  /\ name' = [f \in Fds |-> IF f = fd THEN "closed" ELSE name[f]]
  /\ queue' = [f \in Fds |-> IF f = fd THEN << >> ELSE queue[f]]
  /\ file' = [p \in Paths |-> IF file[p] \in Fds /\ file[p] = fd THEN Stale ELSE file[p]]

-----------------------------------------------------------------------------
(* bind() and close().                                                     *)

\* The caller lets a new socket take the place of one s still holds.
Replace(s) == replaced' = (replaced \/ receiveSocket[s] # Invalid)

Bind(s, p, override) ==
  /\ Enter(s, NewCall("bind", IF override THEN "remove" ELSE "socket", p, Invalid))
  /\ Replace(s)
  /\ overridden' = (overridden \/ override)
  /\ UNCHANGED <<objects, kernel, copied>>

RemoveExisting(s) ==
  /\ call[s].at = "remove"
  /\ file' = [file EXCEPT ![call[s].path] = NoFile]
  /\ Goto(s, "socket")
  /\ UNCHANGED <<objects, name, queue, history>>

\* bind() makes its socket first and only then closes "the" receive socket,
\* which by now is the one just made.
OpenReceiveSocket(s) ==
  /\ call[s].op = "bind" /\ call[s].at = "socket"
  /\ \/ \E fd \in FreeFds :
          /\ receiveSocket' = [receiveSocket EXCEPT ![s] = fd]
          /\ name' = [name EXCEPT ![fd] = "unbound"]
          /\ Goto(s, IF bound[s] THEN "close" ELSE "bind")
     \/ /\ FreeFds = {}
        /\ receiveSocket' = [receiveSocket EXCEPT ![s] = Invalid]
        /\ Return(s)
        /\ UNCHANGED name
  /\ UNCHANGED <<bound, socketPath, queue, file, history>>

Bindable(s) ==
  LET fd == receiveSocket[s]
  IN  IsOpen(fd) /\ name[fd] = "unbound" /\ file[call[s].path] = NoFile

\* Of the outcome of ::bind(), and of the path, what the members are set to.
BoundAnyway(s) == TRUE   \* mutant: the outcome is not looked at
IsBoundNow(s) == Bindable(s)
PathBeforeResize(s) == "untruncated"   \* mutant: the caller's string
BoundPath(s) == call[s].path

BindReceiveSocket(s) ==
  /\ call[s].at = "bind"
  /\ bound' = [bound EXCEPT ![s] = IsBoundNow(s)]
  /\ \/ /\ Bindable(s)
        /\ socketPath' = [socketPath EXCEPT ![s] = BoundPath(s)]
        /\ name' = [name EXCEPT ![receiveSocket[s]] = call[s].path]
        /\ file' = [file EXCEPT ![call[s].path] = receiveSocket[s]]
     \/ ~Bindable(s) /\ UNCHANGED <<socketPath, name, file>>
  /\ Return(s)
  /\ UNCHANGED <<receiveSocket, queue, history>>

Close(s) ==
  /\ Enter(s, NewCall("close", "close", NoPath, Invalid))
  /\ UNCHANGED <<objects, kernel, history>>

\* What is closed, and what the member is set to.
ResetBefore(s) == Invalid   \* mutant: the member is set first
ToClose(s) == receiveSocket[s]
ClosedValueKept(s) == receiveSocket[s]   \* mutant: the member is not set
ClosedValue(s) == Invalid

CloseReceiveSocket(s) ==
  /\ call[s].at = "close"
  /\ CloseFd(ToClose(s))
  /\ receiveSocket' = [receiveSocket EXCEPT ![s] = ClosedValue(s)]
  /\ Goto(s, "unlink")
  /\ UNCHANGED <<bound, socketPath, history>>

\* The paths close() removes.
ToRemoveOnceReset(s) == {}   \* mutant: bound is reset before it is read
ToRemove(s) == IF bound[s] THEN {socketPath[s]} ELSE {}

\* The rest of close(), and where the call that made it goes on.
Unlink(s) ==
  /\ call[s].at = "unlink"
  /\ file' = [p \in Paths |-> IF p \in ToRemove(s) THEN NoFile ELSE file[p]]
  /\ bound' = [bound EXCEPT ![s] = FALSE]
  /\ socketPath' = [socketPath EXCEPT ![s] = NoPath]
  /\ IF call[s].op = "bind" THEN Goto(s, "bind") ELSE Return(s)
  /\ UNCHANGED <<receiveSocket, name, queue, history>>

\* The implicit copy constructor and operator=: the members.
Assign(s, t) ==
  /\ s # t /\ call[s].op = "none" /\ call[t].op = "none"
  /\ Replace(s)
  /\ copied' = TRUE
  /\ bound' = [bound EXCEPT ![s] = bound[t]]
  /\ receiveSocket' = [receiveSocket EXCEPT ![s] = receiveSocket[t]]
  /\ socketPath' = [socketPath EXCEPT ![s] = socketPath[t]]
  /\ ReturnResult(s, NoResult)
  /\ UNCHANGED <<kernel, overridden>>

-----------------------------------------------------------------------------
(* sendTo() and receiveFrom().                                             *)

\* sendTo() uses a temporary socket of its own; without one it returns -2.
OpenTemporarySocket(s, p) ==
  /\ \E fd \in FreeFds :
       /\ name' = [name EXCEPT ![fd] = "unbound"]
       /\ Enter(s, NewCall("send", "send", p, fd))
  /\ UNCHANGED <<objects, queue, file, history>>

\* ::sendto() delivers, waits for room, or fails; then the socket is closed.
SendDatagram(s) ==
  LET c == call[s]
      to == file[c.path]
  IN  /\ c.at = "send"
      /\ \/ /\ IsOpen(c.fd) /\ to \in Fds /\ Len(queue[to]) < MaxQueue
            /\ queue' = [fd \in Fds |-> IF fd = c.fd THEN << >>
                                        ELSE IF fd = to THEN Append(queue[fd], c.path)
                                        ELSE queue[fd]]
         \/ /\ ~IsOpen(c.fd) \/ to \notin Fds
            /\ queue' = [fd \in Fds |-> IF fd = c.fd THEN << >> ELSE queue[fd]]
      /\ name' = [name EXCEPT ![c.fd] = "closed"]
      /\ file' = [p \in Paths |-> IF file[p] \in Fds /\ file[p] = c.fd THEN Stale ELSE file[p]]
      /\ Return(s)
      /\ UNCHANGED <<objects, history>>

\* Unbound objects get -1 at once.
ReceiveFrom(s) ==
  /\ bound[s]
  /\ Enter(s, NewCall("receive", "receive", NoPath, Invalid))
  /\ UNCHANGED <<objects, kernel, history>>

\* receiveFrom() reports the object's own path in the place of the sender.
ReceiveDatagram(s) ==
  LET fd == receiveSocket[s]
  IN  /\ call[s].at = "receive"
      /\ IsOpen(fd) /\ queue[fd] # << >>
      /\ ReturnResult(s, [flag |-> 1, to |-> Head(queue[fd]), path |-> socketPath[s]])
      /\ queue' = [queue EXCEPT ![fd] = Tail(@)]
      /\ UNCHANGED <<objects, name, file, history>>

ReceiveFails(s) ==
  /\ call[s].at = "receive"
  /\ ~IsOpen(receiveSocket[s])
  /\ ReturnResult(s, [flag |-> -1, to |-> NoPath, path |-> socketPath[s]])
  /\ UNCHANGED <<objects, kernel, history>>

-----------------------------------------------------------------------------
(* ready().                                                                *)

\* An unbound object is never ready.
Ready(s) ==
  /\ bound[s]
  /\ Enter(s, NewCall("ready", "select", NoPath, Invalid))
  /\ UNCHANGED <<objects, kernel, history>>

\* pollSocket(): data, or the end of the timeout without any, or an error.
PollResults(fd) == IF ~IsOpen(fd) THEN {-1} ELSE IF queue[fd] = << >> THEN {0} ELSE {1}

NotAnError(res) == res >= 0   \* mutant: the test of connected()
HasData(res) == res > 0

PollForReady(s) ==
  /\ call[s].at = "select"
  /\ \E res \in PollResults(receiveSocket[s]) :
       sawReady' = [sawReady EXCEPT ![s] = HasData(res)]
  /\ call' = [call EXCEPT ![s] = NoCall]
  /\ result' = NoResult
  /\ UNCHANGED <<objects, kernel, history>>

-----------------------------------------------------------------------------
Init ==
  /\ bound = [s \in Sockets |-> FALSE]
  /\ receiveSocket = [s \in Sockets |-> Invalid]
  /\ socketPath = [s \in Sockets |-> NoPath]
  /\ name = [fd \in Fds |-> "closed"]
  /\ queue = [fd \in Fds |-> << >>]
  /\ file = [p \in Paths |-> NoFile]
  /\ call = [s \in Sockets |-> NoCall]
  /\ result = NoResult
  /\ sawReady = [s \in Sockets |-> FALSE]
  /\ copied = FALSE
  /\ replaced = FALSE
  /\ overridden = FALSE

Call(s) ==
  \/ \E p \in Paths, override \in BOOLEAN : Bind(s, p, override)
  \/ \E p \in Paths : OpenTemporarySocket(s, p)
  \/ ReceiveFrom(s)
  \/ Ready(s)
  \/ Close(s)

Step(s) ==
  \/ RemoveExisting(s) \/ OpenReceiveSocket(s) \/ BindReceiveSocket(s)
  \/ CloseReceiveSocket(s) \/ Unlink(s)
  \/ SendDatagram(s) \/ ReceiveDatagram(s) \/ ReceiveFails(s)
  \/ PollForReady(s)

Next ==
  \/ \E s \in Sockets : Call(s) \/ Step(s)
  \/ \E s, t \in Sockets : Assign(s, t)

Spec == Init /\ [][Next]_vars
-----------------------------------------------------------------------------
(* Properties.                                                             *)

Steps == {"none", "remove", "socket", "bind", "close", "unlink", "send", "receive", "select"}

Calls ==
  [op: {"none", "bind", "close", "send", "receive", "ready"}, at: Steps,
   path: Paths \cup {NoPath}, fd: Fds \cup {Invalid}]

Results == [flag: {-1, 1}, to: Paths \cup {NoPath}, path: Paths \cup {NoPath}]

TypeOK ==
  /\ bound \in [Sockets -> BOOLEAN]
  /\ receiveSocket \in [Sockets -> Fds \cup {Invalid}]
  /\ socketPath \in [Sockets -> Paths \cup {NoPath}]
  /\ name \in [Fds -> Paths \cup {"closed", "unbound"}]
  /\ queue \in [Fds -> Seq(Paths)]
  /\ file \in [Paths -> Fds \cup {NoFile, Stale}]
  /\ call \in [Sockets -> Calls]
  /\ result \in Results
  /\ sawReady \in [Sockets -> BOOLEAN]
  /\ copied \in BOOLEAN /\ replaced \in BOOLEAN /\ overridden \in BOOLEAN

\* As long as nobody copies or overrides, an object that says it is bound is
\* what its path leads to, or has lost its descriptor: neither the bind()s of
\* others to the same path, which fail, nor their close()s take its file away.
BoundIsReachable ==
  ~copied /\ ~overridden =>
    \A s \in Sockets :
      bound[s] /\ call[s].op \in {"none", "send", "receive", "ready"} /\ receiveSocket[s] # Invalid
        => /\ name[receiveSocket[s]] = socketPath[s]
           /\ \E p \in Paths : p = socketPath[s] /\ file[p] = receiveSocket[s]

\* A file without a socket is there only while the thread that closed the
\* socket is on its way to remove it, rebinding, failed bind()s and bind()s
\* that take the path from others included.
NoStaleFile ==
  ~copied =>
    \A p \in Paths :
      file[p] = Stale => \E s \in Sockets : call[s].at = "unlink" /\ bound[s] /\ socketPath[s] = p

\* With callers that close before they bind or assign again, every open
\* descriptor is some object's receive socket or sendTo()'s temporary one,
\* although copies close the sockets of others.
NoLeak ==
  ~replaced =>
    \A fd \in Fds :
      IsOpen(fd) => \E s \in Sockets : receiveSocket[s] = fd \/ call[s].fd = fd

\* receiveFrom() returns the object's path "since we know that messages can
\* only come from that path since we are bound to it": as long as no object
\* was copied, what it reports is where the datagram was sent to.
ReportsPathSentTo == ~copied /\ result.flag = 1 => result.path = result.to

\* After a ready() that said yes, receiveFrom() does not block: nothing takes
\* the datagram of an object that has no copy between the two calls.
ReadyMeansReceives ==
  ~copied => \A s \in Sockets :
    call[s].op = "receive" /\ sawReady[s]
      => IsOpen(receiveSocket[s]) /\ queue[receiveSocket[s]] # << >>

Holders == Sockets \cup {"temporary"}
Holds(o, fd) ==
  IF o = "temporary" THEN \E s \in Sockets : call[s].fd = fd ELSE receiveSocket[o] = fd

Table == INSTANCE DescriptorTable WITH
  Owners <- Holders,
  open <- {fd \in Fds : IsOpen(fd)},
  handles <- {h \in Holders \X Fds : Holds(h[1], h[2])}

\* With callers that neither copy an object nor bind one they have not closed,
\* descriptors are used as DescriptorTable says: each is held by one object or
\* one sendTo(), which closes it, although numbers are given out again between
\* the steps of close().
ImplementsDescriptorTable ==
  Table!Init /\ [][~copied' /\ ~replaced' => Table!Next]_(Table!vars)
=============================================================================

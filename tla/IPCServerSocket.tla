--------------------------- MODULE IPCServerSocket --------------------------
(***************************************************************************)
(* kt::IPCServerSocket, and the way kt::StreamIPCSocket comes to be, over  *)
(* the descriptor table of a process and the names of the file system.     *)
(* Each system call is a step; a constructor that throws and close() are   *)
(* several, the removal of the socket's file being the last.               *)
(*                                                                         *)
(* A name outlives the socket it was made for: it leads to an open socket, *)
(* or is stale, and a stale name cannot be bound until it is removed.      *)
(***************************************************************************)
EXTENDS Integers, FiniteSets

CONSTANTS
  Servers,    \* the IPCServerSocket objects, each with its thread
  Clients,    \* the StreamIPCSocket objects that connect, each with its thread
  Fds,        \* the descriptor numbers the process has left
  Paths,      \* the socket paths, as truncated to sun_path
  Backlog     \* connectionBacklogSize

ASSUME ConstantsAssumption ==
  /\ Fds \cap {-1, -2} = {}
  /\ Backlog \in Nat
  /\ Servers \cap Clients = {}
  /\ (Servers \cup Clients) \cap {"accept", "nobody"} = {}
  /\ "none" \notin Paths

Objects == Servers \cup Clients

VARIABLES
  socket,      \* the descriptor of each object
  socketPath,  \* socketPath of each server, NoPath before it is constructed
  accepted,    \* the descriptors of the StreamIPCSockets accept() returned
  kernel,      \* the socket behind each descriptor
  file,        \* what each path leads to
  call,        \* the call each thread is in
  copied,      \* history: an object of this process was assigned to another
  contended,   \* history: two servers of this process were made for one path
  crashed      \* history: an earlier process died

members == <<socket, socketPath>>
history == <<copied, contended, crashed>>
vars == <<members, accepted, kernel, file, call, history>>

Invalid == -1
NoPath == "none"
NoFile == -1
Stale == -2

\* owner is the object the socket was made for, "accept" for a socket that
\* accept() returned, "nobody" for a closed one and for one that a constructor
\* left open when it threw.
NoSocket == [state |-> "closed", owner |-> "nobody", waiting |-> 0]
OpenedFor(o) == [state |-> "open", owner |-> o, waiting |-> 0]
IsOpen(fd) == fd \in Fds /\ kernel[fd].state # "closed"
FreeFds == {fd \in Fds : kernel[fd].state = "closed"}
IsListening(fd) == fd \in Fds /\ kernel[fd].state = "listening"

\* at is the system call the thread is at.
NewCall(op, at, path) == [op |-> op, at |-> at, path |-> path, override |-> FALSE]
NoCall == NewCall("none", "none", NoPath)

Goto(o, at) == call' = [call EXCEPT ![o].at = at]
Return(o) == call' = [call EXCEPT ![o] = NoCall]

\* ::close() frees the number; the names that led to the socket stay.
CloseFd(fd) ==
  /\ kernel' = [f \in Fds |-> IF f = fd THEN NoSocket ELSE kernel[f]]
  /\ file' = [p \in Paths |-> IF file[p] \in Fds /\ file[p] = fd THEN Stale ELSE file[p]]

\* IPCSocket::removeSocketPath(), whoever the file belongs to.
KeepSocketPath(p) == UNCHANGED file   \* mutant
RemoveSocketPath(p) == file' = [file EXCEPT ![p] = NoFile]

OpenSocket(o) ==
  \E fd \in FreeFds :
    /\ kernel' = [kernel EXCEPT ![fd] = OpenedFor(o)]
    /\ socket' = [socket EXCEPT ![o] = fd]

CanConstruct(o) == call[o].op = "none" /\ socket[o] = Invalid

-----------------------------------------------------------------------------
(* IPCServerSocket::constructSocket().                                     *)

FirstIgnoringOverride(override) == "socket"   \* mutant: the file is never removed
FirstAt(override) == IF override THEN "remove" ELSE "socket"

ConstructServer(h, p, override) ==
  /\ CanConstruct(h)
  /\ contended' = (contended \/ \E g \in Servers \ {h} : socketPath[g] = p)
  /\ socketPath' = [socketPath EXCEPT ![h] = p]
  /\ call' = [call EXCEPT ![h] =
       [op |-> "construct", at |-> FirstAt(override), path |-> p, override |-> override]]
  /\ UNCHANGED <<socket, accepted, kernel, file, copied, crashed>>

RemoveExisting(h) ==
  /\ call[h].at = "remove"
  /\ RemoveSocketPath(call[h].path)
  /\ Goto(h, "socket")
  /\ UNCHANGED <<members, accepted, kernel, history>>

\* The constructor throws: there is no object.
Throw(h) ==
  /\ socketPath' = [socketPath EXCEPT ![h] = NoPath]
  /\ Return(h)

OpenServerSocket(h) ==
  /\ call[h].at = "socket"
  /\ \/ OpenSocket(h) /\ Goto(h, "bind") /\ UNCHANGED socketPath
     \/ FreeFds = {} /\ Throw(h) /\ UNCHANGED <<socket, kernel>>
  /\ UNCHANGED <<accepted, file, history>>

Bindable(h) ==
  LET fd == socket[h]
  IN  IsOpen(fd) /\ kernel[fd].state = "open" /\ file[call[h].path] = NoFile

\* ::bind() makes the file; it fails if there is one.
BindServer(h) ==
  LET fd == socket[h]
  IN  /\ call[h].at = "bind"
      /\ \/ /\ Bindable(h)
            /\ kernel' = [kernel EXCEPT ![fd].state = "bound"]
            /\ file' = [file EXCEPT ![call[h].path] = fd]
            /\ Goto(h, "listen")
         \/ /\ ~Bindable(h)
            /\ Goto(h, "close")
            /\ UNCHANGED <<kernel, file>>
      /\ UNCHANGED <<members, accepted, history>>

ListenServer(h) ==
  LET fd == socket[h]
      bound == IsOpen(fd) /\ kernel[fd].state # "open"
  IN  /\ call[h].at = "listen"
      /\ \/ /\ bound
            /\ kernel' = [kernel EXCEPT ![fd].state = "listening"]
            /\ Return(h)
         \/ /\ ~bound
            /\ Goto(h, "close")
            /\ UNCHANGED kernel
      /\ UNCHANGED <<members, accepted, file, history>>

-----------------------------------------------------------------------------
(* close(), called by the owner or by a constructor that is to throw.      *)

Close(h) ==
  /\ call[h].op = "none" /\ socketPath[h] # NoPath
  /\ call' = [call EXCEPT ![h] = NewCall("close", "close", socketPath[h])]
  /\ UNCHANGED <<members, accepted, kernel, file, history>>

\* What is closed, and what the member is set to.
ResetBefore(h) == Invalid   \* mutant: the member is set first
ToClose(h) == socket[h]
ClosedValueKept(h) == socket[h]   \* mutant: the member is not set
ClosedValue(h) == Invalid

CloseServerSocket(h) ==
  /\ call[h].at = "close"
  /\ CloseFd(ToClose(h))
  /\ socket' = [socket EXCEPT ![h] = ClosedValue(h)]
  /\ Goto(h, "unlink")
  /\ UNCHANGED <<socketPath, accepted, history>>

Unlink(h) ==
  /\ call[h].at = "unlink"
  /\ RemoveSocketPath(socketPath[h])
  /\ IF call[h].op = "construct" THEN Throw(h) ELSE Return(h) /\ UNCHANGED socketPath
  /\ UNCHANGED <<socket, accepted, kernel, history>>

-----------------------------------------------------------------------------
(* accept().                                                               *)

Accept(h, timed) ==
  /\ call[h].op = "none" /\ socketPath[h] # NoPath
  /\ call' = [call EXCEPT ![h] =
       NewCall("accept", IF timed THEN "select" ELSE "accept", NoPath)]
  /\ UNCHANGED <<members, accepted, kernel, file, history>>

\* select() sees a waiting connection, gives up, or fails; what it sees on a
\* socket that does not listen is anything.
PollForAccept(h) ==
  LET fd == socket[h]
  IN  /\ call[h].at = "select"
      /\ \/ /\ IsOpen(fd) /\ (IsListening(fd) => kernel[fd].waiting > 0)
            /\ Goto(h, "accept")
         \/ /\ IsListening(fd) => kernel[fd].waiting = 0
            /\ Return(h)
      /\ UNCHANGED <<members, accepted, kernel, file, history>>

\* ::accept() blocks until a connection waits; the descriptors it may return.
AcceptResults(fd) ==
  IF IsListening(fd) /\ FreeFds # {} THEN IF kernel[fd].waiting > 0 THEN FreeFds ELSE {}
  ELSE {Invalid}

NeverInvalid(fd) == FALSE   \* mutant: what ::accept() returned is not checked
IsInvalidSocket(fd) == fd = Invalid

AcceptConnection(h) ==
  LET fd == socket[h]
  IN  /\ call[h].at = "accept"
      /\ \E new \in AcceptResults(fd) :
           \/ /\ ~IsInvalidSocket(new)
              /\ accepted' = accepted \cup {new}
              /\ kernel' = [f \in Fds |->
                   CASE f = new -> OpenedFor("accept")
                     [] f = fd -> [kernel[f] EXCEPT !.waiting = @ - 1]
                     [] OTHER -> kernel[f]]
           \/ IsInvalidSocket(new) /\ UNCHANGED <<accepted, kernel>>
      /\ Return(h)
      /\ UNCHANGED <<members, file, history>>

-----------------------------------------------------------------------------
(* StreamIPCSocket.                                                        *)

ConstructClient(c, p) ==
  /\ CanConstruct(c)
  /\ \/ /\ OpenSocket(c)
        /\ call' = [call EXCEPT ![c] = NewCall("construct", "connect", p)]
     \/ FreeFds = {} /\ Return(c) /\ UNCHANGED <<socket, kernel>>
  /\ UNCHANGED <<socketPath, accepted, file, history>>

\* ::connect() waits while more than Backlog connections wait.
Connect(c) ==
  LET listener == file[call[c].path]
  IN  /\ call[c].at = "connect"
      /\ IsOpen(socket[c])
      /\ IsListening(listener) /\ kernel[listener].waiting <= Backlog
      /\ kernel' = [kernel EXCEPT ![listener].waiting = @ + 1]
      /\ Return(c)
      /\ UNCHANGED <<members, accepted, file, history>>

\* The constructor throws and leaves its socket open.
ConnectFails(c) ==
  /\ call[c].at = "connect"
  /\ ~IsOpen(socket[c]) \/ ~IsListening(file[call[c].path])
  /\ kernel' = [fd \in Fds |->
       IF fd = socket[c] /\ IsOpen(fd) THEN [kernel[fd] EXCEPT !.owner = "nobody"] ELSE kernel[fd]]
  /\ socket' = [socket EXCEPT ![c] = Invalid]
  /\ Return(c)
  /\ UNCHANGED <<socketPath, accepted, file, history>>

CloseClient(c) ==
  /\ call[c].op = "none"
  /\ CloseFd(socket[c])
  /\ socket' = [socket EXCEPT ![c] = Invalid]
  /\ UNCHANGED <<socketPath, accepted, call, history>>

CloseAccepted(fd) ==
  /\ CloseFd(fd)
  /\ accepted' = accepted \ {fd}
  /\ UNCHANGED <<members, call, history>>

\* Copy constructor and operator=, onto an object that has no socket.
Assign(o, q) ==
  /\ o # q /\ call[o].op = "none" /\ call[q].op = "none" /\ socket[o] = Invalid
  /\ q \in Servers => socketPath[q] # NoPath
  /\ socket' = [socket EXCEPT ![o] = socket[q]]
  /\ socketPath' = [h \in Servers |-> IF h = o THEN socketPath[q] ELSE socketPath[h]]
  /\ copied' = TRUE
  /\ UNCHANGED <<accepted, kernel, file, call, contended, crashed>>

\* The process dies, and a new one starts: the descriptors are closed, the
\* files stay.
Crash ==
  /\ socket' = [o \in Objects |-> Invalid]
  /\ socketPath' = [h \in Servers |-> NoPath]
  /\ accepted' = {}
  /\ kernel' = [fd \in Fds |-> NoSocket]
  /\ file' = [p \in Paths |-> IF file[p] = NoFile THEN NoFile ELSE Stale]
  /\ call' = [o \in Objects |-> NoCall]
  /\ copied' = FALSE
  /\ contended' = FALSE
  /\ crashed' = TRUE

-----------------------------------------------------------------------------
Init ==
  /\ socket = [o \in Objects |-> Invalid]
  /\ socketPath = [h \in Servers |-> NoPath]
  /\ accepted = {}
  /\ kernel = [fd \in Fds |-> NoSocket]
  /\ file = [p \in Paths |-> NoFile]
  /\ call = [o \in Objects |-> NoCall]
  /\ copied = FALSE
  /\ contended = FALSE
  /\ crashed = FALSE

ServerCall(h) ==
  \/ \E p \in Paths, override \in BOOLEAN : ConstructServer(h, p, override)
  \/ \E timed \in BOOLEAN : Accept(h, timed)
  \/ Close(h)

ServerStep(h) ==
  \/ RemoveExisting(h) \/ OpenServerSocket(h) \/ BindServer(h) \/ ListenServer(h)
  \/ CloseServerSocket(h) \/ Unlink(h)
  \/ PollForAccept(h) \/ AcceptConnection(h)

ClientNext(c) ==
  \/ \E p \in Paths : ConstructClient(c, p)
  \/ Connect(c) \/ ConnectFails(c) \/ CloseClient(c)

Next ==
  \/ \E h \in Servers : ServerCall(h) \/ ServerStep(h)
  \/ \E c \in Clients : ClientNext(c)
  \/ \E fd \in accepted : CloseAccepted(fd)
  \/ \E g, h \in Servers : Assign(g, h)
  \/ \E b, c \in Clients : Assign(b, c)
  \/ Crash

Spec == Init /\ [][Next]_vars
-----------------------------------------------------------------------------
(* Properties.                                                             *)

KernelSockets ==
  [state: {"closed", "open", "bound", "listening"},
   owner: Objects \cup {"accept", "nobody"}, waiting: 0..Backlog + 1]

Steps ==
  {"none", "remove", "socket", "bind", "listen", "close", "unlink", "select", "accept", "connect"}

Calls ==
  [op: {"none", "construct", "accept", "close"}, at: Steps,
   path: Paths \cup {NoPath}, override: BOOLEAN]

TypeOK ==
  /\ socket \in [Objects -> Fds \cup {Invalid}]
  /\ socketPath \in [Servers -> Paths \cup {NoPath}]
  /\ accepted \subseteq Fds
  /\ kernel \in [Fds -> KernelSockets]
  /\ file \in [Paths -> Fds \cup {NoFile, Stale}]
  /\ call \in [Objects -> Calls]
  /\ copied \in BOOLEAN /\ contended \in BOOLEAN /\ crashed \in BOOLEAN

\* A server that is constructed and not closed is reached through its path:
\* while servers keep to paths of their own, no order of constructors, failed
\* ones, close()s and crashes detaches one from its file.
ReachableAtPath ==
  ~copied /\ ~contended =>
    \A h \in Servers :
      socket[h] # Invalid /\ call[h].op \in {"none", "accept"}
        => file[socketPath[h]] = socket[h] /\ IsListening(socket[h])

\* Unless a process died, a file without a socket is there only while the
\* thread that closed the socket is on its way to remove it, on a path that
\* servers contend for as well: nobody finds a path taken by one that is gone.
NoStaleFile ==
  ~copied /\ ~crashed =>
    \A p \in Paths :
      file[p] = Stale => \E h \in Servers : call[h].at = "unlink" /\ socketPath[h] = p

\* The socket a server object made is closed or with some object, although
\* constructors throw at any of their steps and copies close it or what has
\* taken its number since.
NoServerLeak ==
  \A fd \in Fds : kernel[fd].owner \in Servers => \E o \in Objects : socket[o] = fd

Holders == Objects \cup {"accept"}
Holds(o, fd) == IF o = "accept" THEN fd \in accepted ELSE socket[o] = fd

Table == INSTANCE DescriptorTable WITH
  Owners <- Holders,
  open <- {fd \in Fds : kernel[fd].owner # "nobody"},
  handles <- {h \in Holders \X Fds : Holds(h[1], h[2])}

\* Without copies, descriptors are used as DescriptorTable says: each is held by
\* the object it was made for until that object closes it or the process dies,
\* although numbers are given out again between the steps of close().  A socket
\* that StreamIPCSocket's constructor leaves open counts as given back.
ImplementsDescriptorTable ==
  Table!Init /\ [][~copied' => Table!Next]_(Table!vars)

\* With override a server gets the path it alone uses, whatever file a process
\* that died left there.
OverrideRecovers ==
  [][\A h \in Servers :
       ~copied /\ ~contended /\ call[h].at = "bind" /\ call[h].override
         => call'[h].at # "close"]_vars

\* "We throw a binding exception if the socket path is already being used":
\* without override, no server is bound to the path of one that listens.
BusyPathThrows ==
  [][\A g, h \in Servers :
       /\ g # h /\ socketPath[g] = call[h].path
       /\ IsListening(socket[g]) /\ kernel[socket[g]].owner = g
       /\ call[h].at = "bind" /\ ~call[h].override
       => call'[h].at # "listen"]_vars
=============================================================================

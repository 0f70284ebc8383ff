----------------------- MODULE IPCServerSocketProofs ------------------------
(***************************************************************************)
(* What the prover establishes about IPCServerSocket for any servers,      *)
(* clients, paths and backlog, and any number of descriptors.              *)
(***************************************************************************)
EXTENDS IPCServerSocket, TLAPS

\* Which system calls each call goes through, and what it knows at each.
CallsInOrder ==
  /\ \A o \in Objects : call[o].op = "none" <=> call[o].at = "none"
  /\ \A c \in Clients : call[c].at \in {"none", "connect"}
  /\ \A h \in Servers :
       /\ call[h].at # "connect"
       /\ call[h].at \in {"remove", "socket", "bind", "listen"} => call[h].op = "construct"
       /\ call[h].at \in {"select", "accept"} => call[h].op = "accept"
       /\ call[h].at \in {"close", "unlink"} => call[h].op \in {"construct", "close"}
       /\ call[h].op \in {"construct", "close"} =>
            call[h].path = socketPath[h] /\ socketPath[h] # NoPath
       /\ call[h].at \in {"remove", "socket", "unlink"} => socket[h] = Invalid
       /\ socket[h] # Invalid => socketPath[h] # NoPath

ClosedIsNobodys == \A fd \in Fds : kernel[fd].state = "closed" => kernel[fd].owner = "nobody"

\* Without copies the holder of a descriptor is the one it was made for.
HoldersOwn ==
  ~copied =>
    /\ \A o \in Objects : socket[o] # Invalid =>
         IsOpen(socket[o]) /\ kernel[socket[o]].owner = o
    /\ \A fd \in accepted : IsOpen(fd) /\ kernel[fd].owner = "accept"

OwnersHold ==
  ~copied => \A fd \in Fds :
    /\ kernel[fd].owner \in Objects => socket[kernel[fd].owner] = fd
    /\ kernel[fd].owner = "accept" => fd \in accepted

\* A file leads to the server that was made for its path.
FilesAreServers ==
  ~copied => \A p \in Paths : file[p] \in Fds =>
    kernel[file[p]].owner \in Servers /\ socketPath[kernel[file[p]].owner] = p

\* The state of a server's socket at each step of its constructor.
ServerProgress(h) ==
  /\ call[h].at = "bind" => IsOpen(socket[h]) /\ kernel[socket[h]].state = "open"
  /\ call[h].at = "listen" => IsOpen(socket[h]) /\ kernel[socket[h]].state = "bound"
  /\ socket[h] # Invalid /\ call[h].op \in {"none", "accept"} => IsListening(socket[h])
ServersProgress == ~copied => \A h \in Servers : ServerProgress(h)

\* Servers with paths of their own find their files as they left them.
PathsAreOwn ==
  ~copied /\ ~contended =>
    \A g, h \in Servers : g # h /\ socketPath[g] # NoPath => socketPath[g] # socketPath[h]

FileIsOwn(h) ==
  /\ call[h].at = "listen" \/ (socket[h] # Invalid /\ call[h].op \in {"none", "accept"})
       => file[socketPath[h]] = socket[h]
  /\ call[h].at \in {"socket", "bind"} /\ call[h].override => file[socketPath[h]] = NoFile
FilesAreOwn == ~copied /\ ~contended => \A h \in Servers : FileIsOwn(h)

Safe ==
  /\ TypeOK /\ CallsInOrder /\ ClosedIsNobodys /\ NoServerLeak
  /\ HoldersOwn /\ OwnersHold /\ FilesAreServers /\ ServersProgress /\ PathsAreOwn /\ FilesAreOwn /\ NoStaleFile

\* What a thread that is in no call, and a number that is free, have.
LEMMA Records ==
  /\ NoCall \in Calls
  /\ NoCall.op = "none" /\ NoCall.at = "none" /\ NoCall.path = NoPath /\ NoCall.override = FALSE
  /\ NoSocket \in KernelSockets
  /\ NoSocket.state = "closed" /\ NoSocket.owner = "nobody" /\ NoSocket.waiting = 0
  BY ConstantsAssumption DEF ConstantsAssumption, NoCall, NewCall, NoSocket, Calls, Steps, KernelSockets

\* What steps do to the call of one thread, ...
Calling(o) == call' \in [Objects -> Calls] /\ \A q \in Objects : q # o => call'[q] = call[q]

GoesTo(o, at) ==
  /\ Calling(o)
  /\ call'[o].at = at /\ call'[o].op = call[o].op
  /\ call'[o].path = call[o].path /\ call'[o].override = call[o].override

Returns(o) ==
  Calling(o) /\ call'[o].at = "none" /\ call'[o].op = "none" /\ call'[o].path = NoPath

\* ... and to the socket behind one number.
OthersKept(fd) ==
  kernel' \in [Fds -> KernelSockets] /\ \A f \in Fds : f # fd => kernel'[f] = kernel[f]

Opened(o, fd) ==
  /\ kernel[fd].state = "closed"
  /\ OthersKept(fd) /\ kernel'[fd].state = "open" /\ kernel'[fd].owner = o
  /\ socket' \in [Objects -> Fds \cup {Invalid}]
  /\ socket'[o] = fd
  /\ \A q \in Objects : q # o => socket'[q] = socket[q]

StateSet(fd, state) ==
  OthersKept(fd) /\ kernel'[fd].state = state /\ kernel'[fd].owner = kernel[fd].owner

Closes(fd) ==
  /\ OthersKept(fd)
  /\ fd \in Fds => kernel'[fd] = NoSocket
  /\ file' \in [Paths -> Fds \cup {NoFile, Stale}]
  /\ \A p \in Paths : file'[p] = IF file[p] = fd /\ fd # Invalid THEN Stale ELSE file[p]

\* A thread that goes on to a system call stays in the call it is in.
LEMMA GotoEffect ==
  ASSUME TypeOK, NEW o \in Objects, NEW at \in Steps, Goto(o, at)
  PROVE  GoesTo(o, at)
  BY DEF TypeOK, Goto, Calls, GoesTo, Calling

\* A thread that returns is in no call.
LEMMA ReturnEffect ==
  ASSUME TypeOK, NEW o \in Objects, Return(o)
  PROVE  Returns(o)
  BY Records DEF TypeOK, Return, Returns, Calling

\* A socket that is opened has a number that was free.
LEMMA OpenSocketEffect ==
  ASSUME TypeOK, NEW o \in Objects, OpenSocket(o)
  PROVE  \E fd \in Fds : Opened(o, fd)
<1>1. PICK fd \in FreeFds :
        /\ kernel' = [kernel EXCEPT ![fd] = OpenedFor(o)]
        /\ socket' = [socket EXCEPT ![o] = fd]
  BY DEF OpenSocket
<1>2. /\ OpenedFor(o) \in KernelSockets
      /\ OpenedFor(o).state = "open"
      /\ OpenedFor(o).owner = o
  BY ConstantsAssumption DEF ConstantsAssumption, OpenedFor, KernelSockets
<1>3. fd \in Fds /\ Opened(o, fd)
  BY <1>1, <1>2 DEF TypeOK, FreeFds, Opened, OthersKept
<1> QED BY <1>3

\* bind() and listen() change the state of a socket and nothing else.
LEMMA StateEffect ==
  ASSUME TypeOK, NEW fd \in Fds, NEW state \in {"bound", "listening"},
         kernel' = [kernel EXCEPT ![fd].state = state]
  PROVE  StateSet(fd, state)
  BY DEF TypeOK, KernelSockets, StateSet, OthersKept

\* close() of a number that is none closes nothing.
LEMMA CloseFdEffect ==
  ASSUME TypeOK, NEW fd \in Fds \cup {Invalid}, CloseFd(fd)
  PROVE  Closes(fd)
<1>1. OthersKept(fd) /\ (fd \in Fds => kernel'[fd] = NoSocket)
  BY Records DEF TypeOK, CloseFd, OthersKept
<1>2. /\ file' \in [Paths -> Fds \cup {NoFile, Stale}]
      /\ \A p \in Paths : file'[p] = IF file[p] = fd /\ fd # Invalid THEN Stale ELSE file[p]
  BY ConstantsAssumption DEF ConstantsAssumption, TypeOK, CloseFd, Invalid, NoFile, Stale
<1> QED BY <1>1, <1>2 DEF Closes

\* Without copies no two objects hold one number.
LEMMA HeldByOne ==
  ASSUME Safe, ~copied
  PROVE  /\ \A o, q \in Objects : o # q /\ socket[o] # Invalid => socket[o] # socket[q]
         /\ \A o \in Objects, fd \in accepted : socket[o] # fd
  BY ConstantsAssumption DEF ConstantsAssumption, Safe, TypeOK, HoldersOwn, Objects, Invalid

\* What a step does to the table of descriptors.
TableStep == ~copied' => Table!Next \/ UNCHANGED Table!vars

\* Steps that neither give a number out nor take one back.
LEMMA TableStutter ==
  ASSUME UNCHANGED <<socket, accepted>>, \A fd \in Fds : kernel'[fd].owner = kernel[fd].owner
  PROVE  UNCHANGED Table!vars
  BY DEF Table!vars, Holds, Holders, Objects

\* A number that was free goes to one holder.
LEMMA TableAcquire ==
  ASSUME NEW o \in Holders, NEW fd \in Fds,
         kernel[fd].owner = "nobody", kernel'[fd].owner # "nobody",
         \A f \in Fds : f # fd => kernel'[f].owner = kernel[f].owner,
         \A p \in Holders, f \in Fds : Holds(p, f)' <=> Holds(p, f) \/ <<p, f>> = <<o, fd>>
  PROVE  Table!Next
<1>1. Table!Acquire(o, fd)
  BY DEF Table!Acquire
<1> QED BY <1>1 DEF Table!Next

\* The holder of a number gives it back.
LEMMA TableRelease ==
  ASSUME NEW o \in Holders, NEW fd \in Fds, Holds(o, fd),
         kernel'[fd].owner = "nobody",
         \A f \in Fds : f # fd => kernel'[f].owner = kernel[f].owner,
         \A p \in Holders, f \in Fds : Holds(p, f)' <=> Holds(p, f) /\ <<p, f>> # <<o, fd>>
  PROVE  Table!Next
<1>1. Table!Release(o, fd)
  BY DEF Table!Release
<1> QED BY <1>1 DEF Table!Next

\* A constructor stores its path before it looks for a descriptor.
LEMMA ConstructServerSafe ==
  ASSUME Safe, NEW h \in Servers, NEW p \in Paths, NEW override \in BOOLEAN, ConstructServer(h, p, override)
  PROVE  Safe' /\ TableStep
<1> USE DEF Invalid, NoPath, NoFile, Stale, Objects, members, history,
           Calling, GoesTo, Returns, OthersKept, Closes, StateSet
<1>1. /\ call[h].op = "none" /\ socket[h] = Invalid
      /\ socketPath' \in [Servers -> Paths \cup {NoPath}]
      /\ socketPath'[h] = p
      /\ \A q \in Servers : q # h => socketPath'[q] = socketPath[q]
  BY DEF ConstructServer, CanConstruct, Safe, TypeOK
<1>2. /\ Calling(h) /\ call'[h].at \in {"remove", "socket"} /\ call'[h].op = "construct" /\ call'[h].path = p
      /\ call'[h].override = override /\ (override => call'[h].at = "remove")
  BY DEF ConstructServer, FirstAt, Safe, TypeOK, Calls, Steps
<1>3. /\ contended' \in BOOLEAN /\ (contended => contended')
      /\ ~contended' => \A g \in Servers : g # h => socketPath[g] # p
      /\ UNCHANGED <<socket, accepted, kernel, file, copied, crashed>>
  BY DEF ConstructServer
<1>4. TypeOK'
  BY <1>1, <1>2, <1>3 DEF Safe, TypeOK
<1>5. CallsInOrder'
  BY <1>1, <1>2, <1>3, ConstantsAssumption DEF Safe, CallsInOrder
<1>6. FilesAreServers'
  BY <1>1, <1>3, ConstantsAssumption DEF Safe, FilesAreServers, OwnersHold
<1>7. ServersProgress'
  BY <1>2, <1>3 DEF Safe, ServersProgress, ServerProgress, IsOpen, IsListening
<1>8. PathsAreOwn'
  BY <1>1, <1>3 DEF Safe, PathsAreOwn
<1>9. FilesAreOwn'
  BY <1>1, <1>2, <1>3 DEF Safe, FilesAreOwn, FileIsOwn
<1>10. NoStaleFile'
  BY <1>1, <1>2, <1>3 DEF Safe, NoStaleFile, CallsInOrder
<1>11. ClosedIsNobodys' /\ NoServerLeak' /\ HoldersOwn' /\ OwnersHold'
  BY <1>3 DEF Safe, ClosedIsNobodys, NoServerLeak, HoldersOwn, OwnersHold, IsOpen
<1>12. TableStep
  BY <1>3, TableStutter DEF TableStep
<1> QED BY <1>4, <1>5, <1>6, <1>7, <1>8, <1>9, <1>10, <1>11, <1>12 DEF Safe

\* With override the file of the path goes, whoever left it there.
LEMMA RemoveExistingSafe ==
  ASSUME Safe, NEW h \in Servers, RemoveExisting(h)
  PROVE  Safe' /\ TableStep
<1> USE DEF Invalid, NoPath, NoFile, Stale, Objects, members, history,
           Calling, GoesTo, Returns, OthersKept, Closes, StateSet
<1>1. GoesTo(h, "socket")
  BY GotoEffect DEF RemoveExisting, Safe, Steps
<1>2. /\ call[h].at = "remove"
      /\ file' \in [Paths -> Fds \cup {NoFile, Stale}]
      /\ file'[call[h].path] = NoFile
      /\ \A q \in Paths : q # call[h].path => file'[q] = file[q]
      /\ UNCHANGED <<socket, socketPath, accepted, kernel, copied, contended, crashed>>
  BY DEF RemoveExisting, RemoveSocketPath, Safe, TypeOK, CallsInOrder
<1>3. TypeOK'
  BY <1>1, <1>2 DEF Safe, TypeOK
<1>4. CallsInOrder'
  BY <1>1, <1>2 DEF Safe, CallsInOrder
<1>5. FilesAreServers'
  BY <1>2, ConstantsAssumption DEF Safe, FilesAreServers
<1>6. ServersProgress'
  BY <1>1, <1>2 DEF Safe, ServersProgress, ServerProgress, IsOpen, IsListening
<1>7. FilesAreOwn'
  BY <1>1, <1>2 DEF Safe, FilesAreOwn, FileIsOwn, PathsAreOwn, CallsInOrder, TypeOK
<1>8. NoStaleFile'
  BY <1>1, <1>2 DEF Safe, NoStaleFile
<1>9. ClosedIsNobodys' /\ NoServerLeak' /\ HoldersOwn' /\ OwnersHold' /\ PathsAreOwn'
  BY <1>2 DEF Safe, ClosedIsNobodys, NoServerLeak, HoldersOwn, OwnersHold, PathsAreOwn, IsOpen
<1>10. TableStep
  BY <1>2, TableStutter DEF TableStep
<1> QED BY <1>3, <1>4, <1>5, <1>6, <1>7, <1>8, <1>9, <1>10 DEF Safe

\* socket() gives a number that was free, or the constructor throws.
LEMMA OpenServerSocketSafe ==
  ASSUME Safe, NEW h \in Servers, OpenServerSocket(h)
  PROVE  Safe' /\ TableStep
<1> USE DEF Invalid, NoPath, NoFile, Stale, Objects, members, history,
           Calling, GoesTo, Returns, OthersKept, Closes, StateSet
<1>1. /\ call[h].at = "socket"
      /\ UNCHANGED <<accepted, file, copied, contended, crashed>>
  BY DEF OpenServerSocket
<1>2. CASE OpenSocket(h) /\ Goto(h, "bind") /\ UNCHANGED socketPath
  <2>1. GoesTo(h, "bind")
    BY <1>2, GotoEffect DEF Safe, Steps
  <2>2. PICK fd \in Fds : Opened(h, fd)
    BY <1>2, OpenSocketEffect DEF Safe
  <2> USE DEF Opened
  <2>3. TypeOK'
    BY <1>1, <1>2, <2>1, <2>2 DEF Safe, TypeOK
  <2>4. CallsInOrder'
    BY <1>1, <1>2, <2>1, <2>2 DEF Safe, CallsInOrder
  <2>5. ClosedIsNobodys'
    BY <2>2 DEF Safe, ClosedIsNobodys
  <2>6. NoServerLeak'
    BY <1>1, <2>2, ConstantsAssumption DEF Safe, NoServerLeak, CallsInOrder
  <2>7. HoldersOwn'
    BY <1>1, <2>2 DEF Safe, HoldersOwn, IsOpen
  <2>8. OwnersHold'
    BY <1>1, <2>2, ConstantsAssumption DEF Safe, OwnersHold, CallsInOrder
  <2>9. FilesAreServers'
    BY <1>1, <1>2, <2>2, ConstantsAssumption DEF Safe, FilesAreServers, ClosedIsNobodys
  <2>10. ServersProgress'
    BY <1>1, <2>1, <2>2 DEF Safe, ServersProgress, ServerProgress, CallsInOrder, IsOpen, IsListening
  <2>11. FilesAreOwn'
    BY <1>1, <1>2, <2>1, <2>2 DEF Safe, FilesAreOwn, FileIsOwn, CallsInOrder
  <2>12. NoStaleFile'
    BY <1>1, <1>2, <2>1 DEF Safe, NoStaleFile
  <2>13. PathsAreOwn'
    BY <1>1, <1>2 DEF Safe, PathsAreOwn
  <2>14. TableStep
    <3>1. /\ h \in Holders /\ kernel[fd].owner = "nobody" /\ kernel'[fd].owner # "nobody"
          /\ \A f \in Fds : f # fd => kernel'[f].owner = kernel[f].owner
      BY <2>2, ConstantsAssumption DEF Holders, Safe, ClosedIsNobodys
    <3>2. \A q \in Holders, f \in Fds : Holds(q, f)' <=> Holds(q, f) \/ <<q, f>> = <<h, fd>>
      BY <1>1, <2>2, ConstantsAssumption DEF Holds, Holders, Safe, CallsInOrder
    <3> QED BY <3>1, <3>2, TableAcquire DEF TableStep
  <2> QED BY <2>3, <2>4, <2>5, <2>6, <2>7, <2>8, <2>9, <2>10, <2>11, <2>12, <2>13, <2>14 DEF Safe
<1>3. CASE FreeFds = {} /\ Throw(h) /\ UNCHANGED <<socket, kernel>>
  <2>1. Returns(h)
    BY <1>3, ReturnEffect DEF Safe, Throw
  <2>2. /\ socketPath' \in [Servers -> Paths \cup {NoPath}]
        /\ socketPath'[h] = NoPath
        /\ \A q \in Servers : q # h => socketPath'[q] = socketPath[q]
    BY <1>3 DEF Throw, Safe, TypeOK
  <2>3. TypeOK'
    BY <1>1, <1>3, <2>1, <2>2 DEF Safe, TypeOK
  <2>4. CallsInOrder'
    BY <1>1, <1>3, <2>1, <2>2 DEF Safe, CallsInOrder
  <2>5. FilesAreServers'
    BY <1>1, <1>3, <2>2, ConstantsAssumption DEF Safe, FilesAreServers, CallsInOrder, OwnersHold
  <2>6. ServersProgress'
    BY <1>1, <1>3, <2>1 DEF Safe, ServersProgress, ServerProgress, CallsInOrder, IsOpen, IsListening
  <2>7. PathsAreOwn'
    BY <1>1, <2>2 DEF Safe, PathsAreOwn
  <2>8. FilesAreOwn'
    BY <1>1, <1>3, <2>1, <2>2 DEF Safe, FilesAreOwn, FileIsOwn, CallsInOrder
  <2>9. NoStaleFile'
    BY <1>1, <2>1, <2>2 DEF Safe, NoStaleFile
  <2>10. ClosedIsNobodys' /\ NoServerLeak' /\ HoldersOwn' /\ OwnersHold'
    BY <1>1, <1>3 DEF Safe, ClosedIsNobodys, NoServerLeak, HoldersOwn, OwnersHold, IsOpen
  <2>11. TableStep
    BY <1>1, <1>3, TableStutter DEF TableStep
  <2> QED BY <2>3, <2>4, <2>5, <2>6, <2>7, <2>8, <2>9, <2>10, <2>11 DEF Safe
<1> QED BY <1>2, <1>3 DEF OpenServerSocket

\* bind() makes the file, or leads to close().
LEMMA BindServerSafe ==
  ASSUME Safe, NEW h \in Servers, BindServer(h)
  PROVE  Safe' /\ TableStep
<1> USE DEF Invalid, NoPath, NoFile, Stale, Objects, members, history,
           Calling, GoesTo, Returns, OthersKept, Closes, StateSet
<1>1. /\ call[h].at = "bind" /\ call[h].op = "construct"
      /\ call[h].path = socketPath[h] /\ socketPath[h] \in Paths
      /\ UNCHANGED <<socket, socketPath, accepted, copied, contended, crashed>>
  BY DEF BindServer, Safe, TypeOK, CallsInOrder
<1>2. CASE Bindable(h)
  <2>1. GoesTo(h, "listen")
    BY <1>2, GotoEffect DEF BindServer, Safe, Steps
  <2>2. /\ kernel[socket[h]].state = "open" /\ file[call[h].path] = NoFile
        /\ socket[h] \in Fds /\ StateSet(socket[h], "bound")
    BY <1>2, StateEffect DEF BindServer, Bindable, IsOpen, Safe
  <2>3. /\ file' \in [Paths -> Fds \cup {NoFile, Stale}]
        /\ file'[call[h].path] = socket[h]
        /\ \A q \in Paths : q # call[h].path => file'[q] = file[q]
    BY <1>1, <1>2 DEF BindServer, Safe, TypeOK
  <2>4. TypeOK'
    BY <1>1, <2>1, <2>2, <2>3 DEF Safe, TypeOK
  <2>5. CallsInOrder'
    BY <1>1, <2>1 DEF Safe, CallsInOrder
  <2>6. ClosedIsNobodys'
    BY <2>2 DEF Safe, ClosedIsNobodys
  <2>7. NoServerLeak'
    BY <1>1, <2>2 DEF Safe, NoServerLeak
  <2>8. HoldersOwn'
    BY <1>1, <2>2 DEF Safe, HoldersOwn, IsOpen
  <2>9. OwnersHold'
    BY <1>1, <2>2 DEF Safe, OwnersHold
  <2>10. FilesAreServers'
    BY <1>1, <2>2, <2>3 DEF Safe, FilesAreServers, HoldersOwn
  <2>11. ServersProgress'
    <3>1. ASSUME ~copied, NEW g \in Servers, g # h PROVE ServerProgress(g)'
      BY <3>1, <1>1, <2>1, <2>2, HeldByOne, ConstantsAssumption DEF Safe, ServersProgress, ServerProgress, IsOpen, IsListening
    <3>2. ASSUME ~copied PROVE ServerProgress(h)'
      BY <1>1, <2>1, <2>2 DEF ServerProgress, IsOpen
    <3> QED BY <3>1, <3>2, <1>1, <2>1, <2>2, HeldByOne DEF ServersProgress
  <2>12. FilesAreOwn'
    BY <1>1, <2>1, <2>3 DEF Safe, FilesAreOwn, FileIsOwn, PathsAreOwn, CallsInOrder, TypeOK
  <2>13. NoStaleFile'
    BY <1>1, <2>1, <2>2, <2>3, ConstantsAssumption DEF Safe, NoStaleFile
  <2>14. PathsAreOwn'
    BY <1>1 DEF Safe, PathsAreOwn
  <2>15. TableStep
    BY <1>1, <2>2, TableStutter DEF TableStep
  <2> QED BY <2>4, <2>5, <2>6, <2>7, <2>8, <2>9, <2>10, <2>11, <2>12, <2>13, <2>14, <2>15 DEF Safe
<1>3. CASE ~Bindable(h)
  <2>1. GoesTo(h, "close")
    BY <1>3, GotoEffect DEF BindServer, Safe, Steps
  <2>2. UNCHANGED <<kernel, file>>
    BY <1>3 DEF BindServer
  <2>3. TypeOK'
    BY <1>1, <2>1, <2>2 DEF Safe, TypeOK
  <2>4. CallsInOrder'
    BY <1>1, <2>1 DEF Safe, CallsInOrder
  <2>5. ServersProgress'
    BY <1>1, <2>1, <2>2 DEF Safe, ServersProgress, ServerProgress, IsOpen, IsListening
  <2>6. FilesAreOwn'
    BY <1>1, <2>1, <2>2 DEF Safe, FilesAreOwn, FileIsOwn
  <2>7. NoStaleFile'
    BY <1>1, <2>1, <2>2 DEF Safe, NoStaleFile
  <2>8. ClosedIsNobodys' /\ NoServerLeak' /\ HoldersOwn' /\ OwnersHold' /\ FilesAreServers' /\ PathsAreOwn'
    BY <1>1, <2>2 DEF Safe, ClosedIsNobodys, NoServerLeak, HoldersOwn, OwnersHold, FilesAreServers, PathsAreOwn, IsOpen
  <2>9. TableStep
    BY <1>1, <2>2, TableStutter DEF TableStep
  <2> QED BY <2>3, <2>4, <2>5, <2>6, <2>7, <2>8, <2>9 DEF Safe
<1> QED BY <1>2, <1>3

\* listen() completes the constructor, or leads to close().
LEMMA ListenServerSafe ==
  ASSUME Safe, NEW h \in Servers, ListenServer(h)
  PROVE  Safe' /\ TableStep
<1> USE DEF Invalid, NoPath, NoFile, Stale, Objects, members, history,
           Calling, GoesTo, Returns, OthersKept, Closes, StateSet
<1>1. /\ call[h].at = "listen"
      /\ UNCHANGED <<socket, socketPath, accepted, file, copied, contended, crashed>>
  BY DEF ListenServer
<1>2. CASE IsOpen(socket[h]) /\ kernel[socket[h]].state # "open"
  <2>1. Returns(h)
    BY <1>2, ReturnEffect DEF ListenServer, Safe
  <2>2. /\ kernel[socket[h]].state # "closed"
        /\ socket[h] \in Fds /\ StateSet(socket[h], "listening")
    BY <1>2, StateEffect DEF ListenServer, IsOpen, Safe
  <2>3. TypeOK'
    BY <1>1, <2>1, <2>2 DEF Safe, TypeOK
  <2>4. CallsInOrder'
    BY <1>1, <2>1 DEF Safe, CallsInOrder
  <2>5. ClosedIsNobodys'
    BY <2>2 DEF Safe, ClosedIsNobodys
  <2>6. NoServerLeak'
    BY <1>1, <2>2 DEF Safe, NoServerLeak
  <2>7. HoldersOwn'
    BY <1>1, <2>2 DEF Safe, HoldersOwn, IsOpen
  <2>8. OwnersHold'
    BY <1>1, <2>2 DEF Safe, OwnersHold
  <2>9. FilesAreServers'
    BY <1>1, <2>2 DEF Safe, FilesAreServers
  <2>10. ServersProgress'
    <3>1. ASSUME ~copied, NEW g \in Servers, g # h PROVE ServerProgress(g)'
      BY <3>1, <1>1, <2>1, <2>2, HeldByOne, ConstantsAssumption DEF Safe, ServersProgress, ServerProgress, IsOpen, IsListening
    <3>2. ASSUME ~copied PROVE ServerProgress(h)'
      BY <1>1, <2>1, <2>2 DEF ServerProgress, IsListening
    <3> QED BY <3>1, <3>2, <1>1, <2>1, <2>2, HeldByOne DEF ServersProgress
  <2>11. FilesAreOwn'
    BY <1>1, <2>1 DEF Safe, FilesAreOwn, FileIsOwn
  <2>12. NoStaleFile'
    BY <1>1, <2>1 DEF Safe, NoStaleFile
  <2>13. PathsAreOwn'
    BY <1>1 DEF Safe, PathsAreOwn
  <2>14. TableStep
    BY <1>1, <2>2, TableStutter DEF TableStep
  <2> QED BY <2>3, <2>4, <2>5, <2>6, <2>7, <2>8, <2>9, <2>10, <2>11, <2>12, <2>13, <2>14 DEF Safe
<1>3. CASE ~(IsOpen(socket[h]) /\ kernel[socket[h]].state # "open")
  <2>1. GoesTo(h, "close")
    BY <1>3, GotoEffect DEF ListenServer, Safe, Steps
  <2>2. UNCHANGED <<kernel>>
    BY <1>3 DEF ListenServer
  <2>3. TypeOK'
    BY <1>1, <2>1, <2>2 DEF Safe, TypeOK
  <2>4. CallsInOrder'
    BY <1>1, <2>1 DEF Safe, CallsInOrder
  <2>5. ServersProgress'
    BY <1>1, <2>1, <2>2 DEF Safe, ServersProgress, ServerProgress, IsOpen, IsListening
  <2>6. FilesAreOwn'
    BY <1>1, <2>1 DEF Safe, FilesAreOwn, FileIsOwn
  <2>7. NoStaleFile'
    BY <1>1, <2>1 DEF Safe, NoStaleFile
  <2>8. ClosedIsNobodys' /\ NoServerLeak' /\ HoldersOwn' /\ OwnersHold' /\ FilesAreServers' /\ PathsAreOwn'
    BY <1>1, <2>2 DEF Safe, ClosedIsNobodys, NoServerLeak, HoldersOwn, OwnersHold, FilesAreServers, PathsAreOwn, IsOpen
  <2>9. TableStep
    BY <1>1, <2>2, TableStutter DEF TableStep
  <2> QED BY <2>3, <2>4, <2>5, <2>6, <2>7, <2>8, <2>9 DEF Safe
<1> QED BY <1>2, <1>3

\* A call of close() changes nothing yet.
LEMMA CloseSafe ==
  ASSUME Safe, NEW h \in Servers, Close(h)
  PROVE  Safe' /\ TableStep
<1> USE DEF Invalid, NoPath, NoFile, Stale, Objects, members, history,
           Calling, GoesTo, Returns, OthersKept, Closes, StateSet
<1>1. Calling(h) /\ call'[h].at = "close" /\ call'[h].op = "close" /\ call'[h].path = socketPath[h]
  BY DEF Close, Safe, TypeOK, Calls, Steps, NewCall
<1>2. /\ call[h].op = "none" /\ socketPath[h] # NoPath
      /\ UNCHANGED <<socket, socketPath, accepted, kernel, file, copied, contended, crashed>>
  BY DEF Close
<1>3. TypeOK'
  BY <1>1, <1>2 DEF Safe, TypeOK
<1>4. CallsInOrder'
  BY <1>1, <1>2, ConstantsAssumption DEF Safe, CallsInOrder
<1>5. ServersProgress'
  BY <1>1, <1>2 DEF Safe, ServersProgress, ServerProgress, IsOpen, IsListening
<1>6. FilesAreOwn'
  BY <1>1, <1>2 DEF Safe, FilesAreOwn, FileIsOwn
<1>7. NoStaleFile'
  BY <1>1, <1>2 DEF Safe, NoStaleFile, CallsInOrder
<1>8. ClosedIsNobodys' /\ NoServerLeak' /\ HoldersOwn' /\ OwnersHold' /\ FilesAreServers' /\ PathsAreOwn'
  BY <1>2 DEF Safe, ClosedIsNobodys, NoServerLeak, HoldersOwn, OwnersHold, FilesAreServers, PathsAreOwn, IsOpen
<1>9. TableStep
  BY <1>2, TableStutter DEF TableStep
<1> QED BY <1>3, <1>4, <1>5, <1>6, <1>7, <1>8, <1>9 DEF Safe

\* The descriptor is given back and the member set; the file is stale from here ...
LEMMA CloseServerSocketSafe ==
  ASSUME Safe, NEW h \in Servers, CloseServerSocket(h)
  PROVE  Safe' /\ TableStep
<1> USE DEF Invalid, NoPath, NoFile, Stale, Objects, members, history,
           Calling, GoesTo, Returns, OthersKept, Closes, StateSet
<1>1. GoesTo(h, "unlink")
  BY GotoEffect DEF CloseServerSocket, Safe, Steps
<1>2. Closes(socket[h])
  BY CloseFdEffect DEF CloseServerSocket, ToClose, Safe, TypeOK
<1>3. /\ call[h].at = "close"
      /\ socket' \in [Objects -> Fds \cup {Invalid}]
      /\ socket'[h] = Invalid
      /\ \A q \in Objects : q # h => socket'[q] = socket[q]
      /\ UNCHANGED <<socketPath, accepted, copied, contended, crashed>>
  BY DEF CloseServerSocket, ClosedValue, Safe, TypeOK
<1>4. TypeOK'
  BY <1>1, <1>2, <1>3 DEF Safe, TypeOK
<1>5. CallsInOrder'
  BY <1>1, <1>3 DEF Safe, CallsInOrder
<1>6. ClosedIsNobodys'
  BY <1>2, Records DEF Safe, ClosedIsNobodys
<1>7. NoServerLeak'
  BY <1>2, <1>3, Records, ConstantsAssumption DEF Safe, NoServerLeak
<1>8. HoldersOwn'
  BY <1>2, <1>3, ConstantsAssumption DEF Safe, HoldersOwn, IsOpen
<1>9. OwnersHold'
  BY <1>2, <1>3, Records, ConstantsAssumption DEF Safe, OwnersHold
<1>10. FilesAreServers'
  BY <1>2, <1>3, ConstantsAssumption DEF Safe, FilesAreServers
<1>11. ServersProgress'
  <2>1. ASSUME ~copied, NEW g \in Servers, g # h PROVE ServerProgress(g)'
    BY <2>1, <1>1, <1>2, <1>3, HeldByOne, ConstantsAssumption DEF Safe, ServersProgress, ServerProgress, IsOpen, IsListening
  <2>2. ASSUME ~copied PROVE ServerProgress(h)'
    BY <1>1, <1>3 DEF ServerProgress
  <2> QED BY <2>1, <2>2, <1>1, <1>2, <1>3, HeldByOne DEF ServersProgress
<1>12. FilesAreOwn'
  BY <1>1, <1>2, <1>3 DEF Safe, FilesAreOwn, FileIsOwn, CallsInOrder, HoldersOwn, TypeOK
<1>13. NoStaleFile'
  BY <1>1, <1>2, <1>3 DEF Safe, NoStaleFile, FilesAreServers, TypeOK, HoldersOwn
<1>14. PathsAreOwn'
  BY <1>3 DEF Safe, PathsAreOwn
<1>15. TableStep
  <2>1. CASE socket[h] = Invalid
    BY <2>1, <1>2, <1>3, ConstantsAssumption, TableStutter DEF TableStep, Safe, TypeOK
  <2>2. CASE socket[h] \in Fds
    <3>1. Holds(h, socket[h]) /\ \A q \in Holders, f \in Fds : Holds(q, f)' <=> Holds(q, f) /\ <<q, f>> # <<h, socket[h]>>
      BY <1>3, ConstantsAssumption DEF Holds, Holders
    <3>2. h \in Holders /\ kernel'[socket[h]].owner = "nobody" /\ \A f \in Fds : f # socket[h] => kernel'[f].owner = kernel[f].owner
      BY <2>2, <1>2, Records DEF Holders
    <3> QED BY <2>2, <3>1, <3>2, TableRelease DEF TableStep
  <2> QED BY <2>1, <2>2 DEF Safe, TypeOK
<1> QED BY <1>4, <1>5, <1>6, <1>7, <1>8, <1>9, <1>10, <1>11, <1>12, <1>13, <1>14, <1>15 DEF Safe

\* ... to here, where it is removed.
LEMMA UnlinkSafe ==
  ASSUME Safe, NEW h \in Servers, Unlink(h)
  PROVE  Safe' /\ TableStep
<1> USE DEF Invalid, NoPath, NoFile, Stale, Objects, members, history,
           Calling, GoesTo, Returns, OthersKept, Closes, StateSet
<1>1. Returns(h)
  BY ReturnEffect DEF Unlink, Throw, Safe
<1>2. /\ file' \in [Paths -> Fds \cup {NoFile, Stale}]
      /\ file'[socketPath[h]] = NoFile
      /\ \A q \in Paths : q # socketPath[h] => file'[q] = file[q]
  BY DEF Unlink, RemoveSocketPath, Safe, TypeOK, CallsInOrder
<1>3. /\ call[h].at = "unlink"
      /\ socketPath' \in [Servers -> Paths \cup {NoPath}]
      /\ socketPath'[h] = IF call[h].op = "construct" THEN NoPath ELSE socketPath[h]
      /\ \A q \in Servers : q # h => socketPath'[q] = socketPath[q]
      /\ UNCHANGED <<socket, accepted, kernel, copied, contended, crashed>>
  BY DEF Unlink, Throw, Safe, TypeOK
<1>4. TypeOK'
  BY <1>1, <1>2, <1>3 DEF Safe, TypeOK
<1>5. CallsInOrder'
  BY <1>1, <1>3 DEF Safe, CallsInOrder
<1>6. FilesAreServers'
  BY <1>2, <1>3, ConstantsAssumption DEF Safe, FilesAreServers
<1>7. ServersProgress'
  BY <1>1, <1>3 DEF Safe, ServersProgress, ServerProgress, CallsInOrder, IsOpen, IsListening
<1>8. PathsAreOwn'
  BY <1>3 DEF Safe, PathsAreOwn
<1>9. FilesAreOwn'
  BY <1>1, <1>2, <1>3 DEF Safe, FilesAreOwn, FileIsOwn, PathsAreOwn, CallsInOrder
<1>10. NoStaleFile'
  BY <1>1, <1>2, <1>3 DEF Safe, NoStaleFile
<1>11. ClosedIsNobodys' /\ NoServerLeak' /\ HoldersOwn' /\ OwnersHold'
  BY <1>3 DEF Safe, ClosedIsNobodys, NoServerLeak, HoldersOwn, OwnersHold, IsOpen
<1>12. TableStep
  BY <1>3, TableStutter DEF TableStep
<1> QED BY <1>4, <1>5, <1>6, <1>7, <1>8, <1>9, <1>10, <1>11, <1>12 DEF Safe

\* A call of accept() changes nothing yet.
LEMMA AcceptSafe ==
  ASSUME Safe, NEW h \in Servers, NEW timed \in BOOLEAN, Accept(h, timed)
  PROVE  Safe' /\ TableStep
<1> USE DEF Invalid, NoPath, NoFile, Stale, Objects, members, history,
           Calling, GoesTo, Returns, OthersKept, Closes, StateSet
<1>1. Calling(h) /\ call'[h].at \in {"select", "accept"} /\ call'[h].op = "accept" /\ call'[h].path = NoPath
  BY DEF Accept, Safe, TypeOK, Calls, Steps, NewCall
<1>2. /\ call[h].op = "none"
      /\ UNCHANGED <<socket, socketPath, accepted, kernel, file, copied, contended, crashed>>
  BY DEF Accept
<1>3. TypeOK'
  BY <1>1, <1>2 DEF Safe, TypeOK
<1>4. CallsInOrder'
  BY <1>1, <1>2, ConstantsAssumption DEF Safe, CallsInOrder
<1>5. ServersProgress'
  BY <1>1, <1>2 DEF Safe, ServersProgress, ServerProgress, IsOpen, IsListening
<1>6. FilesAreOwn'
  BY <1>1, <1>2 DEF Safe, FilesAreOwn, FileIsOwn
<1>7. NoStaleFile'
  BY <1>1, <1>2 DEF Safe, NoStaleFile, CallsInOrder
<1>8. ClosedIsNobodys' /\ NoServerLeak' /\ HoldersOwn' /\ OwnersHold' /\ FilesAreServers' /\ PathsAreOwn'
  BY <1>2 DEF Safe, ClosedIsNobodys, NoServerLeak, HoldersOwn, OwnersHold, FilesAreServers, PathsAreOwn, IsOpen
<1>9. TableStep
  BY <1>2, TableStutter DEF TableStep
<1> QED BY <1>3, <1>4, <1>5, <1>6, <1>7, <1>8, <1>9 DEF Safe

\* select() changes nothing; the call goes on or returns.
LEMMA PollForAcceptSafe ==
  ASSUME Safe, NEW h \in Servers, PollForAccept(h)
  PROVE  Safe' /\ TableStep
<1> USE DEF Invalid, NoPath, NoFile, Stale, Objects, members, history,
           Calling, GoesTo, Returns, OthersKept, Closes, StateSet
<1>1. /\ call[h].at = "select"
      /\ UNCHANGED <<socket, socketPath, accepted, kernel, file, copied, contended, crashed>>
  BY DEF PollForAccept
<1>2. CASE Goto(h, "accept")
  <2>1. GoesTo(h, "accept")
    BY <1>2, GotoEffect DEF Safe, Steps
  <2>2. TypeOK'
    BY <1>1, <2>1 DEF Safe, TypeOK
  <2>3. CallsInOrder'
    BY <1>1, <2>1 DEF Safe, CallsInOrder
  <2>4. ServersProgress'
    BY <1>1, <2>1 DEF Safe, ServersProgress, ServerProgress, IsOpen, IsListening
  <2>5. FilesAreOwn'
    BY <1>1, <2>1 DEF Safe, FilesAreOwn, FileIsOwn
  <2>6. NoStaleFile'
    BY <1>1, <2>1 DEF Safe, NoStaleFile
  <2>7. ClosedIsNobodys' /\ NoServerLeak' /\ HoldersOwn' /\ OwnersHold' /\ FilesAreServers' /\ PathsAreOwn'
    BY <1>1 DEF Safe, ClosedIsNobodys, NoServerLeak, HoldersOwn, OwnersHold, FilesAreServers, PathsAreOwn, IsOpen
  <2>8. TableStep
    BY <1>1, TableStutter DEF TableStep
  <2> QED BY <2>2, <2>3, <2>4, <2>5, <2>6, <2>7, <2>8 DEF Safe
<1>3. CASE Return(h)
  <2>1. Returns(h)
    BY <1>3, ReturnEffect DEF Safe
  <2>2. TypeOK'
    BY <1>1, <2>1 DEF Safe, TypeOK
  <2>3. CallsInOrder'
    BY <1>1, <2>1 DEF Safe, CallsInOrder
  <2>4. ServersProgress'
    BY <1>1, <2>1 DEF Safe, ServersProgress, ServerProgress, CallsInOrder, IsOpen, IsListening
  <2>5. FilesAreOwn'
    BY <1>1, <2>1 DEF Safe, FilesAreOwn, FileIsOwn, CallsInOrder
  <2>6. NoStaleFile'
    BY <1>1, <2>1 DEF Safe, NoStaleFile
  <2>7. ClosedIsNobodys' /\ NoServerLeak' /\ HoldersOwn' /\ OwnersHold' /\ FilesAreServers' /\ PathsAreOwn'
    BY <1>1 DEF Safe, ClosedIsNobodys, NoServerLeak, HoldersOwn, OwnersHold, FilesAreServers, PathsAreOwn, IsOpen
  <2>8. TableStep
    BY <1>1, TableStutter DEF TableStep
  <2> QED BY <2>2, <2>3, <2>4, <2>5, <2>6, <2>7, <2>8 DEF Safe
<1> QED BY <1>2, <1>3 DEF PollForAccept

\* accept() gives a number that was free, or fails.
LEMMA AcceptConnectionSafe ==
  ASSUME Safe, NEW h \in Servers, AcceptConnection(h)
  PROVE  Safe' /\ TableStep
<1> USE DEF Invalid, NoPath, NoFile, Stale, Objects, members, history,
           Calling, GoesTo, Returns, OthersKept, Closes, StateSet
<1>1. /\ call[h].at = "accept"
      /\ UNCHANGED <<socket, socketPath, file, copied, contended, crashed>>
  BY DEF AcceptConnection
<1>2. Returns(h)
  BY ReturnEffect DEF AcceptConnection, Safe
<1>3. CASE UNCHANGED <<accepted, kernel>>
  <2>1. TypeOK'
    BY <1>1, <1>2, <1>3 DEF Safe, TypeOK
  <2>2. CallsInOrder'
    BY <1>1, <1>2 DEF Safe, CallsInOrder
  <2>3. ServersProgress'
    BY <1>1, <1>2, <1>3 DEF Safe, ServersProgress, ServerProgress, CallsInOrder, IsOpen, IsListening
  <2>4. FilesAreOwn'
    BY <1>1, <1>2 DEF Safe, FilesAreOwn, FileIsOwn, CallsInOrder
  <2>5. NoStaleFile'
    BY <1>1, <1>2 DEF Safe, NoStaleFile
  <2>6. ClosedIsNobodys' /\ NoServerLeak' /\ HoldersOwn' /\ OwnersHold' /\ FilesAreServers' /\ PathsAreOwn'
    BY <1>1, <1>3 DEF Safe, ClosedIsNobodys, NoServerLeak, HoldersOwn, OwnersHold, FilesAreServers, PathsAreOwn, IsOpen
  <2>7. TableStep
    BY <1>1, <1>3, TableStutter DEF TableStep
  <2> QED BY <2>1, <2>2, <2>3, <2>4, <2>5, <2>6, <2>7 DEF Safe
<1>4. ASSUME NEW new \in FreeFds, IsListening(socket[h]), kernel[socket[h]].waiting > 0,
             accepted' = accepted \cup {new},
             kernel' = [f \in Fds |->
               CASE f = new -> OpenedFor("accept")
                 [] f = socket[h] -> [kernel[f] EXCEPT !.waiting = @ - 1]
                 [] OTHER -> kernel[f]]
      PROVE  Safe' /\ TableStep
  <2>1. /\ OpenedFor("accept") \in KernelSockets
        /\ OpenedFor("accept").state = "open" /\ OpenedFor("accept").owner = "accept"
        /\ socket[h] \in Fds /\ new \in Fds /\ kernel[new].state = "closed"
        /\ kernel \in [Fds -> KernelSockets] /\ socket[h] # new
    BY <1>4, ConstantsAssumption DEF OpenedFor, KernelSockets, Safe, TypeOK, FreeFds, IsListening
  <2>2. /\ [kernel[socket[h]] EXCEPT !.waiting = @ - 1] \in KernelSockets
        /\ [kernel[socket[h]] EXCEPT !.waiting = @ - 1].state = kernel[socket[h]].state
        /\ [kernel[socket[h]] EXCEPT !.waiting = @ - 1].owner = kernel[socket[h]].owner
    BY <1>4, <2>1, ConstantsAssumption DEF KernelSockets
  <2>3. /\ kernel' \in [Fds -> KernelSockets]
        /\ kernel'[new].state = "open" /\ kernel'[new].owner = "accept"
        /\ \A f \in Fds \ {new} :
             kernel'[f].state = kernel[f].state /\ kernel'[f].owner = kernel[f].owner
    BY <1>4, <2>1, <2>2
  <2>4. accepted' = accepted \cup {new}
    BY <1>4
  <2>5. TypeOK'
    BY <1>1, <1>2, <2>1, <2>3, <2>4 DEF Safe, TypeOK
  <2>6. CallsInOrder'
    BY <1>1, <1>2 DEF Safe, CallsInOrder
  <2>7. ClosedIsNobodys'
    BY <2>3 DEF Safe, ClosedIsNobodys
  <2>8. NoServerLeak'
    BY <1>1, <2>3, ConstantsAssumption DEF Safe, NoServerLeak
  <2>9. HoldersOwn'
    BY <1>1, <2>1, <2>3, <2>4 DEF Safe, HoldersOwn, IsOpen
  <2>10. OwnersHold'
    BY <1>1, <2>3, <2>4, ConstantsAssumption DEF Safe, OwnersHold
  <2>11. FilesAreServers'
    BY <1>1, <2>1, <2>3, ConstantsAssumption DEF Safe, FilesAreServers, ClosedIsNobodys
  <2>12. ServersProgress'
    BY <1>1, <1>2, <2>1, <2>3 DEF Safe, ServersProgress, ServerProgress, CallsInOrder, IsOpen, IsListening
  <2>13. FilesAreOwn'
    BY <1>1, <1>2 DEF Safe, FilesAreOwn, FileIsOwn, CallsInOrder
  <2>14. NoStaleFile'
    BY <1>1, <1>2 DEF Safe, NoStaleFile
  <2>15. PathsAreOwn'
    BY <1>1 DEF Safe, PathsAreOwn
  <2>16. TableStep
    <3>1. /\ "accept" \in Holders /\ kernel[new].owner = "nobody" /\ kernel'[new].owner # "nobody"
          /\ \A f \in Fds : f # new => kernel'[f].owner = kernel[f].owner
      BY <2>1, <2>3 DEF Holders, Safe, ClosedIsNobodys
    <3>2. \A q \in Holders, f \in Fds : Holds(q, f)' <=> Holds(q, f) \/ <<q, f>> = <<"accept", new>>
      BY <1>1, <2>4 DEF Holds
    <3> QED BY <2>1, <3>1, <3>2, TableAcquire DEF TableStep
  <2> QED BY <2>5, <2>6, <2>7, <2>8, <2>9, <2>10, <2>11, <2>12, <2>13, <2>14, <2>15, <2>16 DEF Safe
<1> QED BY <1>3, <1>4 DEF AcceptConnection, AcceptResults, IsInvalidSocket

\* A client gets a number that was free, or its constructor throws.
LEMMA ConstructClientSafe ==
  ASSUME Safe, NEW c \in Clients, NEW p \in Paths, ConstructClient(c, p)
  PROVE  Safe' /\ TableStep
<1> USE DEF Invalid, NoPath, NoFile, Stale, Objects, members, history,
           Calling, GoesTo, Returns, OthersKept, Closes, StateSet
<1>1. /\ call[c].op = "none" /\ socket[c] = Invalid
      /\ UNCHANGED <<socketPath, accepted, file, copied, contended, crashed>>
  BY DEF ConstructClient, CanConstruct
<1>2. CASE OpenSocket(c) /\ call' = [call EXCEPT ![c] = NewCall("construct", "connect", p)]
  <2>1. Calling(c) /\ call'[c].at = "connect" /\ call'[c].op = "construct" /\ call'[c].path = p
    BY <1>2 DEF Safe, TypeOK, Calls, Steps, NewCall
  <2>2. PICK fd \in Fds : Opened(c, fd)
    BY <1>2, OpenSocketEffect DEF Safe
  <2> USE DEF Opened
  <2>3. TypeOK'
    BY <1>1, <2>1, <2>2 DEF Safe, TypeOK
  <2>4. CallsInOrder'
    BY <1>1, <2>1, <2>2, ConstantsAssumption DEF Safe, CallsInOrder
  <2>5. ClosedIsNobodys'
    BY <2>2 DEF Safe, ClosedIsNobodys
  <2>6. NoServerLeak'
    BY <1>1, <2>2, ConstantsAssumption DEF Safe, NoServerLeak
  <2>7. HoldersOwn'
    BY <1>1, <2>2 DEF Safe, HoldersOwn, IsOpen
  <2>8. OwnersHold'
    BY <1>1, <2>2, ConstantsAssumption DEF Safe, OwnersHold
  <2>9. FilesAreServers'
    BY <1>1, <2>2, ConstantsAssumption DEF Safe, FilesAreServers, ClosedIsNobodys
  <2>10. ServersProgress'
    BY <1>1, <2>1, <2>2 DEF Safe, ServersProgress, ServerProgress, IsOpen, IsListening
  <2>11. FilesAreOwn'
    BY <1>1, <2>1, <2>2 DEF Safe, FilesAreOwn, FileIsOwn
  <2>12. NoStaleFile'
    BY <1>1, <2>1, ConstantsAssumption DEF Safe, NoStaleFile
  <2>13. PathsAreOwn'
    BY <1>1 DEF Safe, PathsAreOwn
  <2>14. TableStep
    <3>1. /\ c \in Holders /\ kernel[fd].owner = "nobody" /\ kernel'[fd].owner # "nobody"
          /\ \A f \in Fds : f # fd => kernel'[f].owner = kernel[f].owner
      BY <2>2, ConstantsAssumption DEF Holders, Safe, ClosedIsNobodys
    <3>2. \A q \in Holders, f \in Fds : Holds(q, f)' <=> Holds(q, f) \/ <<q, f>> = <<c, fd>>
      BY <1>1, <2>2, ConstantsAssumption DEF Holds, Holders
    <3> QED BY <3>1, <3>2, TableAcquire DEF TableStep
  <2> QED BY <2>3, <2>4, <2>5, <2>6, <2>7, <2>8, <2>9, <2>10, <2>11, <2>12, <2>13, <2>14 DEF Safe
<1>3. CASE Return(c) /\ UNCHANGED <<socket, kernel>>
  <2>1. Returns(c)
    BY <1>3, ReturnEffect DEF Safe
  <2>2. TypeOK'
    BY <1>1, <1>3, <2>1 DEF Safe, TypeOK
  <2>3. CallsInOrder'
    BY <1>1, <1>3, <2>1 DEF Safe, CallsInOrder
  <2>4. ServersProgress'
    BY <1>1, <1>3, <2>1 DEF Safe, ServersProgress, ServerProgress, IsOpen, IsListening
  <2>5. FilesAreOwn'
    BY <1>1, <1>3, <2>1 DEF Safe, FilesAreOwn, FileIsOwn
  <2>6. NoStaleFile'
    BY <1>1, <2>1, ConstantsAssumption DEF Safe, NoStaleFile
  <2>7. ClosedIsNobodys' /\ NoServerLeak' /\ HoldersOwn' /\ OwnersHold' /\ FilesAreServers' /\ PathsAreOwn'
    BY <1>1, <1>3 DEF Safe, ClosedIsNobodys, NoServerLeak, HoldersOwn, OwnersHold, FilesAreServers, PathsAreOwn, IsOpen
  <2>8. TableStep
    BY <1>1, <1>3, TableStutter DEF TableStep
  <2> QED BY <2>2, <2>3, <2>4, <2>5, <2>6, <2>7, <2>8 DEF Safe
<1> QED BY <1>2, <1>3 DEF ConstructClient

\* connect() adds to what waits at the listener and to nothing else.
LEMMA ConnectSafe ==
  ASSUME Safe, NEW c \in Clients, Connect(c)
  PROVE  Safe' /\ TableStep
<1> USE DEF Invalid, NoPath, NoFile, Stale, Objects, members, history,
           Calling, GoesTo, Returns, OthersKept, Closes, StateSet
<1>1. Returns(c)
  BY ReturnEffect DEF Connect, Safe
<1>2. /\ kernel' \in [Fds -> KernelSockets]
      /\ \A f \in Fds : kernel'[f].state = kernel[f].state /\ kernel'[f].owner = kernel[f].owner
  BY ConstantsAssumption DEF Connect, Safe, TypeOK, IsListening, KernelSockets
<1>3. /\ call[c].at = "connect"
      /\ UNCHANGED <<socket, socketPath, accepted, file, copied, contended, crashed>>
  BY DEF Connect
<1>4. TypeOK'
  BY <1>1, <1>2, <1>3 DEF Safe, TypeOK
<1>5. CallsInOrder'
  BY <1>1, <1>3 DEF Safe, CallsInOrder
<1>6. ClosedIsNobodys'
  BY <1>2 DEF Safe, ClosedIsNobodys
<1>7. NoServerLeak'
  BY <1>2, <1>3 DEF Safe, NoServerLeak
<1>8. HoldersOwn'
  BY <1>2, <1>3 DEF Safe, HoldersOwn, IsOpen
<1>9. OwnersHold'
  BY <1>2, <1>3 DEF Safe, OwnersHold
<1>10. FilesAreServers'
  BY <1>2, <1>3 DEF Safe, FilesAreServers
<1>11. ServersProgress'
  BY <1>1, <1>2, <1>3 DEF Safe, ServersProgress, ServerProgress, CallsInOrder, IsOpen, IsListening
<1>12. FilesAreOwn'
  BY <1>1, <1>3, ConstantsAssumption DEF Safe, FilesAreOwn, FileIsOwn
<1>13. NoStaleFile'
  BY <1>1, <1>3 DEF Safe, NoStaleFile
<1>14. PathsAreOwn'
  BY <1>3 DEF Safe, PathsAreOwn
<1>15. TableStep
  BY <1>2, <1>3, TableStutter DEF TableStep
<1> QED BY <1>4, <1>5, <1>6, <1>7, <1>8, <1>9, <1>10, <1>11, <1>12, <1>13, <1>14, <1>15 DEF Safe

\* A client's constructor that throws leaves a socket that is nobody's.
LEMMA ConnectFailsSafe ==
  ASSUME Safe, NEW c \in Clients, ConnectFails(c)
  PROVE  Safe' /\ TableStep
<1> USE DEF Invalid, NoPath, NoFile, Stale, Objects, members, history,
           Calling, GoesTo, Returns, OthersKept, Closes, StateSet
<1>1. Returns(c)
  BY ReturnEffect DEF ConnectFails, Safe
<1>2. /\ socket' \in [Objects -> Fds \cup {Invalid}]
      /\ socket'[c] = Invalid
      /\ \A q \in Objects : q # c => socket'[q] = socket[q]
  BY DEF ConnectFails, Safe, TypeOK
<1>3. /\ kernel' \in [Fds -> KernelSockets]
      /\ \A f \in Fds : f # socket[c] => kernel'[f] = kernel[f]
      /\ socket[c] \in Fds => kernel'[socket[c]].owner = "nobody" /\ kernel'[socket[c]].state = kernel[socket[c]].state
  BY DEF ConnectFails, TypeOK, Safe, ClosedIsNobodys, IsOpen, KernelSockets
<1>4. /\ call[c].at = "connect"
      /\ UNCHANGED <<socketPath, accepted, file, copied, contended, crashed>>
  BY DEF ConnectFails
<1>5. TypeOK'
  BY <1>1, <1>2, <1>3, <1>4 DEF Safe, TypeOK
<1>6. CallsInOrder'
  BY <1>1, <1>2, <1>4 DEF Safe, CallsInOrder
<1>7. ClosedIsNobodys'
  BY <1>3 DEF Safe, ClosedIsNobodys
<1>8. NoServerLeak'
  BY <1>2, <1>3, ConstantsAssumption DEF Safe, NoServerLeak
<1>9. HoldersOwn'
  BY <1>2, <1>3, <1>4, ConstantsAssumption DEF Safe, HoldersOwn, IsOpen
<1>10. OwnersHold'
  BY <1>2, <1>3, <1>4, ConstantsAssumption DEF Safe, OwnersHold
<1>11. FilesAreServers'
  BY <1>3, <1>4, ConstantsAssumption DEF Safe, FilesAreServers, HoldersOwn
<1>12. ServersProgress'
  BY <1>1, <1>2, <1>3, <1>4 DEF Safe, ServersProgress, ServerProgress, IsOpen, IsListening
<1>13. FilesAreOwn'
  BY <1>1, <1>2, <1>4 DEF Safe, FilesAreOwn, FileIsOwn
<1>14. NoStaleFile'
  BY <1>1, <1>4 DEF Safe, NoStaleFile
<1>15. PathsAreOwn'
  BY <1>4 DEF Safe, PathsAreOwn
<1>16. TableStep
  <2>1. CASE socket[c] = Invalid
    BY <2>1, <1>2, <1>3, <1>4, ConstantsAssumption, TableStutter DEF TableStep, Safe, TypeOK
  <2>2. CASE socket[c] \in Fds
    <3>1. Holds(c, socket[c]) /\ \A q \in Holders, f \in Fds : Holds(q, f)' <=> Holds(q, f) /\ <<q, f>> # <<c, socket[c]>>
      BY <1>2, <1>4, ConstantsAssumption DEF Holds, Holders
    <3>2. c \in Holders /\ kernel'[socket[c]].owner = "nobody" /\ \A f \in Fds : f # socket[c] => kernel'[f].owner = kernel[f].owner
      BY <2>2, <1>3 DEF Holders
    <3> QED BY <2>2, <3>1, <3>2, TableRelease DEF TableStep
  <2> QED BY <2>1, <2>2 DEF Safe, TypeOK
<1> QED BY <1>5, <1>6, <1>7, <1>8, <1>9, <1>10, <1>11, <1>12, <1>13, <1>14, <1>15, <1>16 DEF Safe

\* A client gives back a number that no file leads to.
LEMMA CloseClientSafe ==
  ASSUME Safe, NEW c \in Clients, CloseClient(c)
  PROVE  Safe' /\ TableStep
<1> USE DEF Invalid, NoPath, NoFile, Stale, Objects, members, history,
           Calling, GoesTo, Returns, OthersKept, Closes, StateSet
<1>1. Closes(socket[c])
  BY CloseFdEffect DEF CloseClient, Safe, TypeOK
<1>2. /\ socket' \in [Objects -> Fds \cup {Invalid}]
      /\ socket'[c] = Invalid
      /\ \A q \in Objects : q # c => socket'[q] = socket[q]
      /\ UNCHANGED <<socketPath, accepted, call, copied, contended, crashed>>
  BY DEF CloseClient, Safe, TypeOK
<1>3. TypeOK'
  BY <1>1, <1>2 DEF Safe, TypeOK
<1>4. CallsInOrder'
  BY <1>2 DEF Safe, CallsInOrder
<1>5. ClosedIsNobodys'
  BY <1>1, Records DEF Safe, ClosedIsNobodys
<1>6. NoServerLeak'
  BY <1>1, <1>2, Records, ConstantsAssumption DEF Safe, NoServerLeak
<1>7. HoldersOwn'
  BY <1>1, <1>2, ConstantsAssumption DEF Safe, HoldersOwn, IsOpen
<1>8. OwnersHold'
  BY <1>1, <1>2, Records, ConstantsAssumption DEF Safe, OwnersHold
<1>9. FilesAreServers'
  BY <1>1, <1>2, ConstantsAssumption DEF Safe, FilesAreServers
<1>10. ServersProgress'
  <2>1. ASSUME ~copied, NEW g \in Servers PROVE ServerProgress(g)'
    BY <2>1, <1>1, <1>2, HeldByOne, ConstantsAssumption DEF Safe, ServersProgress, ServerProgress, IsOpen, IsListening
  <2> QED BY <2>1, <1>1, <1>2, HeldByOne DEF ServersProgress
<1>11. FilesAreOwn'
  BY <1>1, <1>2, ConstantsAssumption DEF Safe, FilesAreOwn, FileIsOwn, HoldersOwn, FilesAreServers, TypeOK
<1>12. NoStaleFile'
  BY <1>1, <1>2, ConstantsAssumption DEF Safe, NoStaleFile, FilesAreServers, TypeOK, HoldersOwn
<1>13. PathsAreOwn'
  BY <1>2 DEF Safe, PathsAreOwn
<1>14. TableStep
  <2>1. CASE socket[c] = Invalid
    BY <2>1, <1>1, <1>2, ConstantsAssumption, TableStutter DEF TableStep, Safe, TypeOK
  <2>2. CASE socket[c] \in Fds
    <3>1. Holds(c, socket[c]) /\ \A q \in Holders, f \in Fds : Holds(q, f)' <=> Holds(q, f) /\ <<q, f>> # <<c, socket[c]>>
      BY <1>2, ConstantsAssumption DEF Holds, Holders
    <3>2. c \in Holders /\ kernel'[socket[c]].owner = "nobody" /\ \A f \in Fds : f # socket[c] => kernel'[f].owner = kernel[f].owner
      BY <2>2, <1>1, Records DEF Holders
    <3> QED BY <2>2, <3>1, <3>2, TableRelease DEF TableStep
  <2> QED BY <2>1, <2>2 DEF Safe, TypeOK
<1> QED BY <1>3, <1>4, <1>5, <1>6, <1>7, <1>8, <1>9, <1>10, <1>11, <1>12, <1>13, <1>14 DEF Safe

\* So does the owner of a socket that accept() returned.
LEMMA CloseAcceptedSafe ==
  ASSUME Safe, NEW fd \in accepted, CloseAccepted(fd)
  PROVE  Safe' /\ TableStep
<1> USE DEF Invalid, NoPath, NoFile, Stale, Objects, members, history,
           Calling, GoesTo, Returns, OthersKept, Closes, StateSet
<1>1. /\ fd \in Fds
      /\ Closes(fd)
  BY CloseFdEffect DEF CloseAccepted, Safe, TypeOK
<1>2. /\ accepted' = accepted \ {fd}
      /\ UNCHANGED <<socket, socketPath, call, copied, contended, crashed>>
  BY DEF CloseAccepted
<1>3. TypeOK'
  BY <1>1, <1>2 DEF Safe, TypeOK
<1>4. ClosedIsNobodys'
  BY <1>1, Records DEF Safe, ClosedIsNobodys
<1>5. NoServerLeak'
  BY <1>1, <1>2, Records, ConstantsAssumption DEF Safe, NoServerLeak
<1>6. HoldersOwn'
  BY <1>1, <1>2, ConstantsAssumption DEF Safe, HoldersOwn, IsOpen
<1>7. OwnersHold'
  BY <1>1, <1>2, Records, ConstantsAssumption DEF Safe, OwnersHold
<1>8. FilesAreServers'
  BY <1>1, <1>2, ConstantsAssumption DEF Safe, FilesAreServers
<1>9. ServersProgress'
  BY <1>1, <1>2, HeldByOne DEF Safe, ServersProgress, ServerProgress, IsOpen, IsListening
<1>10. FilesAreOwn'
  BY <1>1, <1>2, ConstantsAssumption DEF Safe, FilesAreOwn, FileIsOwn, HoldersOwn, FilesAreServers, TypeOK
<1>11. NoStaleFile'
  BY <1>1, <1>2, ConstantsAssumption DEF Safe, NoStaleFile, FilesAreServers, HoldersOwn
<1>12. CallsInOrder' /\ PathsAreOwn'
  BY <1>2 DEF Safe, CallsInOrder, PathsAreOwn
<1>13. TableStep
  <2>1. Holds("accept", fd) /\ \A q \in Holders, f \in Fds : Holds(q, f)' <=> Holds(q, f) /\ <<q, f>> # <<"accept", fd>>
    BY <1>2 DEF Holds
  <2> QED BY <1>1, <2>1, Records, TableRelease DEF TableStep, Holders
<1> QED BY <1>3, <1>4, <1>5, <1>6, <1>7, <1>8, <1>9, <1>10, <1>11, <1>12, <1>13 DEF Safe

\* After a copy the invariant says little, and a copy makes only that true.
LEMMA AssignServersSafe ==
  ASSUME Safe, NEW o \in Servers, NEW q \in Servers, Assign(o, q)
  PROVE  Safe' /\ TableStep
<1> USE DEF Invalid, NoPath, NoFile, Stale, Objects, members, history,
           Calling, GoesTo, Returns, OthersKept, Closes, StateSet
<1>1. /\ call[o].op = "none" /\ call[q].op = "none" /\ socket[o] = Invalid
      /\ socket' \in [Objects -> Fds \cup {Invalid}]
      /\ socket'[o] = socket[q]
      /\ \A r \in Objects : r # o => socket'[r] = socket[r]
  BY DEF Assign, Safe, TypeOK
<1>2. /\ copied' = TRUE
      /\ socketPath' \in [Servers -> Paths \cup {NoPath}]
      /\ socketPath'[o] = socketPath[q]
      /\ \A h \in Servers : h # o => socketPath'[h] = socketPath[h]
      /\ UNCHANGED <<accepted, kernel, file, call, contended, crashed>>
  BY DEF Assign, Safe, TypeOK
<1>3. TypeOK'
  BY <1>1, <1>2 DEF Safe, TypeOK
<1>4. CallsInOrder'
  BY <1>1, <1>2 DEF Safe, CallsInOrder
<1>5. NoServerLeak'
  BY <1>1, <1>2, ConstantsAssumption DEF Safe, NoServerLeak
<1>6. HoldersOwn'
  BY <1>2 DEF HoldersOwn
<1>7. OwnersHold'
  BY <1>2 DEF OwnersHold
<1>8. FilesAreServers'
  BY <1>2 DEF FilesAreServers
<1>9. ServersProgress'
  BY <1>2 DEF ServersProgress
<1>10. PathsAreOwn'
  BY <1>2 DEF PathsAreOwn
<1>11. FilesAreOwn'
  BY <1>2 DEF FilesAreOwn
<1>12. NoStaleFile'
  BY <1>2 DEF NoStaleFile
<1>13. ClosedIsNobodys'
  BY <1>2 DEF Safe, ClosedIsNobodys
<1>14. TableStep
  BY <1>1, <1>2 DEF TableStep
<1> QED BY <1>3, <1>4, <1>5, <1>6, <1>7, <1>8, <1>9, <1>10, <1>11, <1>12, <1>13, <1>14 DEF Safe

\* The same holds for a copy of a client.
LEMMA AssignClientsSafe ==
  ASSUME Safe, NEW o \in Clients, NEW q \in Clients, Assign(o, q)
  PROVE  Safe' /\ TableStep
<1> USE DEF Invalid, NoPath, NoFile, Stale, Objects, members, history,
           Calling, GoesTo, Returns, OthersKept, Closes, StateSet
<1>1. /\ socket[o] = Invalid
      /\ socket' \in [Objects -> Fds \cup {Invalid}]
      /\ socket'[o] = socket[q]
      /\ \A r \in Objects : r # o => socket'[r] = socket[r]
  BY DEF Assign, Safe, TypeOK
<1>2. /\ copied' = TRUE
      /\ UNCHANGED <<socketPath, accepted, kernel, file, call, contended, crashed>>
  BY ConstantsAssumption DEF Assign, Safe, TypeOK
<1>3. TypeOK'
  BY <1>1, <1>2 DEF Safe, TypeOK
<1>4. CallsInOrder'
  BY <1>1, <1>2, ConstantsAssumption DEF Safe, CallsInOrder
<1>5. NoServerLeak'
  BY <1>1, <1>2, ConstantsAssumption DEF Safe, NoServerLeak
<1>6. HoldersOwn'
  BY <1>2 DEF HoldersOwn
<1>7. OwnersHold'
  BY <1>2 DEF OwnersHold
<1>8. FilesAreServers'
  BY <1>2 DEF FilesAreServers
<1>9. ServersProgress'
  BY <1>2 DEF ServersProgress
<1>10. PathsAreOwn'
  BY <1>2 DEF PathsAreOwn
<1>11. FilesAreOwn'
  BY <1>2 DEF FilesAreOwn
<1>12. NoStaleFile'
  BY <1>2 DEF NoStaleFile
<1>13. ClosedIsNobodys'
  BY <1>2 DEF Safe, ClosedIsNobodys
<1>14. TableStep
  BY <1>1, <1>2 DEF TableStep
<1> QED BY <1>3, <1>4, <1>5, <1>6, <1>7, <1>8, <1>9, <1>10, <1>11, <1>12, <1>13, <1>14 DEF Safe

\* When the process dies everything but the files is as it was at first.
LEMMA CrashSafe ==
  ASSUME Safe, Crash
  PROVE  Safe' /\ TableStep
<1> USE DEF Invalid, NoPath, NoFile, Stale, Objects, members, history,
           Calling, GoesTo, Returns, OthersKept, Closes, StateSet
<1>1. /\ socket' = [o \in Objects |-> Invalid]
      /\ socketPath' = [h \in Servers |-> NoPath]
      /\ accepted' = {}
      /\ kernel' = [fd \in Fds |-> NoSocket]
      /\ \A p \in Paths : file'[p] \in {NoFile, Stale}
      /\ call' = [o \in Objects |-> NoCall]
      /\ crashed'
  BY DEF Crash
<1>2. TypeOK'
  BY Records DEF Crash, TypeOK
<1>3. CallsInOrder' /\ ClosedIsNobodys'
  BY <1>1, Records DEF CallsInOrder, ClosedIsNobodys
<1>4. NoServerLeak' /\ HoldersOwn' /\ OwnersHold'
  BY <1>1, Records, ConstantsAssumption DEF NoServerLeak, HoldersOwn, OwnersHold
<1>5. FilesAreServers' /\ ServersProgress' /\ PathsAreOwn' /\ FilesAreOwn' /\ NoStaleFile'
  BY <1>1, Records, ConstantsAssumption DEF FilesAreServers, ServersProgress, PathsAreOwn, FilesAreOwn, ServerProgress, FileIsOwn, NoStaleFile
<1>6. TableStep
  BY <1>1, Records, ConstantsAssumption DEF TableStep, Table!Next, Table!Exit, Holds, Holders
<1> QED BY <1>2, <1>3, <1>4, <1>5, <1>6 DEF Safe

\* Initially there are no sockets, no calls and no files.
LEMMA InitSafe ==
  ASSUME Init
  PROVE  Safe
<1> USE DEF Init, Objects, Invalid, NoPath, NoFile, Stale
<1>1. TypeOK
  BY Records DEF TypeOK
<1>2. CallsInOrder /\ ClosedIsNobodys
  BY Records DEF CallsInOrder, ClosedIsNobodys
<1>3. NoServerLeak /\ HoldersOwn /\ OwnersHold
  BY Records, ConstantsAssumption DEF NoServerLeak, HoldersOwn, OwnersHold
<1>4. FilesAreServers /\ ServersProgress /\ PathsAreOwn /\ FilesAreOwn /\ NoStaleFile
  BY Records, ConstantsAssumption DEF FilesAreServers, ServersProgress, ServerProgress, PathsAreOwn, FilesAreOwn, FileIsOwn, NoStaleFile
<1> QED BY <1>1, <1>2, <1>3, <1>4 DEF Safe

\* Every step keeps the invariant, and is one of DescriptorTable or none.
LEMMA NextSafe ==
  ASSUME Safe, [Next]_vars
  PROVE  Safe' /\ TableStep
<1>1. ASSUME NEW g \in Servers, NEW p \in Paths, NEW override \in BOOLEAN, ConstructServer(g, p, override) PROVE Safe' /\ TableStep
  BY <1>1, ConstructServerSafe
<1>2. ASSUME NEW g \in Servers, NEW timed \in BOOLEAN, Accept(g, timed) PROVE Safe' /\ TableStep
  BY <1>2, AcceptSafe
<1>3. ASSUME NEW g \in Servers, Close(g) PROVE Safe' /\ TableStep
  BY <1>3, CloseSafe
<1>4. ASSUME NEW g \in Servers, RemoveExisting(g) PROVE Safe' /\ TableStep
  BY <1>4, RemoveExistingSafe
<1>5. ASSUME NEW g \in Servers, OpenServerSocket(g) PROVE Safe' /\ TableStep
  BY <1>5, OpenServerSocketSafe
<1>6. ASSUME NEW g \in Servers, BindServer(g) PROVE Safe' /\ TableStep
  BY <1>6, BindServerSafe
<1>7. ASSUME NEW g \in Servers, ListenServer(g) PROVE Safe' /\ TableStep
  BY <1>7, ListenServerSafe
<1>8. ASSUME NEW g \in Servers, CloseServerSocket(g) PROVE Safe' /\ TableStep
  BY <1>8, CloseServerSocketSafe
<1>9. ASSUME NEW g \in Servers, Unlink(g) PROVE Safe' /\ TableStep
  BY <1>9, UnlinkSafe
<1>10. ASSUME NEW g \in Servers, PollForAccept(g) PROVE Safe' /\ TableStep
  BY <1>10, PollForAcceptSafe
<1>11. ASSUME NEW g \in Servers, AcceptConnection(g) PROVE Safe' /\ TableStep
  BY <1>11, AcceptConnectionSafe
<1>12. ASSUME NEW c \in Clients, NEW p \in Paths, ConstructClient(c, p) PROVE Safe' /\ TableStep
  BY <1>12, ConstructClientSafe
<1>13. ASSUME NEW c \in Clients, Connect(c) PROVE Safe' /\ TableStep
  BY <1>13, ConnectSafe
<1>14. ASSUME NEW c \in Clients, ConnectFails(c) PROVE Safe' /\ TableStep
  BY <1>14, ConnectFailsSafe
<1>15. ASSUME NEW c \in Clients, CloseClient(c) PROVE Safe' /\ TableStep
  BY <1>15, CloseClientSafe
<1>16. ASSUME NEW fd \in accepted, CloseAccepted(fd) PROVE Safe' /\ TableStep
  BY <1>16, CloseAcceptedSafe
<1>17. ASSUME NEW o \in Servers, NEW q \in Servers, Assign(o, q) PROVE Safe' /\ TableStep
  BY <1>17, AssignServersSafe
<1>18. ASSUME NEW o \in Clients, NEW q \in Clients, Assign(o, q) PROVE Safe' /\ TableStep
  BY <1>18, AssignClientsSafe
<1>19. CASE Crash
  BY <1>19, CrashSafe
<1>20. CASE UNCHANGED vars
  BY <1>20, TableStutter DEF vars, members, history, Safe, TypeOK, CallsInOrder, ClosedIsNobodys, NoServerLeak, HoldersOwn, OwnersHold, FilesAreServers, ServersProgress, PathsAreOwn, FilesAreOwn, NoStaleFile, IsOpen, IsListening, ServerProgress, FileIsOwn, TableStep
<1> QED
  BY <1>1, <1>2, <1>3, <1>4, <1>5, <1>6, <1>7, <1>8, <1>9, <1>10, <1>11, <1>12, <1>13, <1>14, <1>15, <1>16, <1>17, <1>18, <1>19, <1>20 DEF Next, ServerCall, ServerStep, ClientNext

\* The path of a server that was made with override is free when it comes to
\* bind(), unless other servers were made for it.
LEMMA Recovers ==
  ASSUME Safe, NEW h \in Servers, ~copied, ~contended,
         call[h].at = "bind", call[h].override, NEW g \in Servers, BindServer(g)
  PROVE  call'[h].at # "close"
<1>1. Bindable(h)
  BY DEF Safe, CallsInOrder, ServersProgress, ServerProgress, FilesAreOwn, FileIsOwn, Bindable
<1>2. CASE g = h
  <2>1. Goto(h, "listen")
    BY <1>1, <1>2 DEF BindServer
  <2> QED BY <2>1, GotoEffect DEF GoesTo, Safe, Steps, Objects
<1>3. CASE g # h
  BY <1>3 DEF BindServer, Goto, Safe, TypeOK, Objects
<1> QED BY <1>2, <1>3

\* No other step takes a thread from bind() to close().
LEMMA RecoverStep ==
  ASSUME Safe, [Next]_vars, NEW h \in Servers, ~copied, ~contended,
         call[h].at = "bind", call[h].override
  PROVE  call'[h].at # "close"
<1>1. ASSUME NEW g \in Servers, NEW p \in Paths, NEW override \in BOOLEAN, ConstructServer(g, p, override) PROVE call'[h].at # "close"
  BY <1>1 DEF ConstructServer, CanConstruct, Safe, CallsInOrder
<1>2. ASSUME NEW g \in Servers, NEW timed \in BOOLEAN, Accept(g, timed) PROVE call'[h].at # "close"
  BY <1>2 DEF Accept, Safe, CallsInOrder
<1>3. ASSUME NEW g \in Servers, Close(g) PROVE call'[h].at # "close"
  BY <1>3 DEF Close, Safe, CallsInOrder
<1>4. ASSUME NEW g \in Servers, RemoveExisting(g) PROVE call'[h].at # "close"
  BY <1>4 DEF RemoveExisting, Goto
<1>5. ASSUME NEW g \in Servers, OpenServerSocket(g) PROVE call'[h].at # "close"
  BY <1>5 DEF OpenServerSocket, Goto, Throw, Return, Safe, TypeOK, Objects
<1>6. ASSUME NEW g \in Servers, BindServer(g) PROVE call'[h].at # "close"
  BY <1>6, Recovers
<1>7. ASSUME NEW g \in Servers, ListenServer(g) PROVE call'[h].at # "close"
  BY <1>7 DEF ListenServer, Goto, Return, Safe, TypeOK, Objects
<1>8. ASSUME NEW g \in Servers, CloseServerSocket(g) PROVE call'[h].at # "close"
  BY <1>8 DEF CloseServerSocket, Goto
<1>9. ASSUME NEW g \in Servers, Unlink(g) PROVE call'[h].at # "close"
  BY <1>9 DEF Unlink, Throw, Return, Safe, TypeOK, Objects
<1>10. ASSUME NEW g \in Servers, PollForAccept(g) PROVE call'[h].at # "close"
  BY <1>10 DEF PollForAccept, Goto, Return, Safe, TypeOK, Objects
<1>11. ASSUME NEW g \in Servers, AcceptConnection(g) PROVE call'[h].at # "close"
  BY <1>11 DEF AcceptConnection, Return
<1>12. ASSUME NEW c \in Clients, NEW p \in Paths, ConstructClient(c, p) PROVE call'[h].at # "close"
  BY <1>12 DEF ConstructClient, Return, Safe, TypeOK, Objects, NoCall, NewCall
<1>13. ASSUME NEW c \in Clients, Connect(c) PROVE call'[h].at # "close"
  BY <1>13 DEF Connect, Return
<1>14. ASSUME NEW c \in Clients, ConnectFails(c) PROVE call'[h].at # "close"
  BY <1>14 DEF ConnectFails, Return
<1>15. ASSUME NEW c \in Clients, CloseClient(c) PROVE call'[h].at # "close"
  BY <1>15 DEF CloseClient
<1>16. ASSUME NEW fd \in accepted, CloseAccepted(fd) PROVE call'[h].at # "close"
  BY <1>16 DEF CloseAccepted
<1>17. ASSUME NEW o \in Servers, NEW q \in Servers, Assign(o, q) PROVE call'[h].at # "close"
  BY <1>17 DEF Assign
<1>18. ASSUME NEW o \in Clients, NEW q \in Clients, Assign(o, q) PROVE call'[h].at # "close"
  BY <1>18 DEF Assign
<1>19. CASE Crash
  BY <1>19 DEF Crash, Objects, NoCall, NewCall
<1>20. CASE UNCHANGED vars
  BY <1>20 DEF vars
<1> QED
  BY <1>1, <1>2, <1>3, <1>4, <1>5, <1>6, <1>7, <1>8, <1>9, <1>10, <1>11, <1>12, <1>13, <1>14, <1>15, <1>16, <1>17, <1>18, <1>19, <1>20 DEF Next, ServerCall, ServerStep, ClientNext

\* The invariant holds in every behaviour.
THEOREM SafetyInvariant == Spec => []Safe
<1>1. Safe /\ [Next]_vars => Safe'
  BY NextSafe
<1> QED BY InitSafe, <1>1, PTL DEF Spec

\* The variables keep their types.
THEOREM TypeCorrect == Spec => []TypeOK
<1>1. Safe => TypeOK
  BY DEF Safe
<1> QED BY SafetyInvariant, <1>1, PTL

\* A server that is constructed and not closed is reached through its path, in
\* whatever order constructors, failed ones, close()s and crashes come.
THEOREM ServersReachable == Spec => []ReachableAtPath
<1>1. Safe => ReachableAtPath
  BY DEF Safe, ServersProgress, ServerProgress, FilesAreOwn, FileIsOwn, ReachableAtPath
<1> QED BY SafetyInvariant, <1>1, PTL

\* Until a process dies, a file without a socket is about to be removed.
THEOREM NoFileLeftBehind == Spec => []NoStaleFile
<1>1. Safe => NoStaleFile
  BY DEF Safe
<1> QED BY SafetyInvariant, <1>1, PTL

\* No constructor that throws, no close() and no copy loses the socket that a
\* server made.
THEOREM NoDescriptorLeak == Spec => []NoServerLeak
<1>1. Safe => NoServerLeak
  BY DEF Safe
<1> QED BY SafetyInvariant, <1>1, PTL

\* With override the constructor gets the path it alone uses.
THEOREM OverrideAlwaysRecovers == Spec => OverrideRecovers
<1>1. Safe /\ [Next]_vars =>
        [\A h \in Servers :
           ~copied /\ ~contended /\ call[h].at = "bind" /\ call[h].override
             => call'[h].at # "close"]_vars
  BY RecoverStep
<1> QED BY SafetyInvariant, <1>1, PTL DEF Spec, OverrideRecovers

\* Without copies the library uses descriptors as DescriptorTable says: the
\* first states are its first states, and every step is one of its or none.
THEOREM DescriptorsAsInTable == Spec => ImplementsDescriptorTable
<1>1. Init => Table!Init
  BY ConstantsAssumption DEF Init, Table!Init, Holds, Holders, NoSocket, Invalid
<1>2. Safe /\ [Next]_vars => [~copied' => Table!Next]_(Table!vars)
  BY NextSafe DEF TableStep
<1> QED BY SafetyInvariant, <1>1, <1>2, PTL DEF Spec, ImplementsDescriptorTable
=============================================================================

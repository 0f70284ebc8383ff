---------------------- MODULE ConnectionOrientedSocket ----------------------
(***************************************************************************)
(* kt::ConnectionOrientedSocket, the base class of TCPSocket and           *)
(* StreamIPCSocket: one connection, the peer that writes to it with send() *)
(* and the threads that read from it, each through the socket or a copy of *)
(* it (a copy shares the descriptor).                                      *)
(*                                                                         *)
(* The receive methods are loops over two system calls, select() and       *)
(* recv(); each system call is one step, so other readers, the peer and a  *)
(* close() come between any two of them.  A byte is known by its position  *)
(* in sent: the kernel's receive buffer is (rcvd + 1)..Len(sent).          *)
(***************************************************************************)
EXTENDS Integers, Sequences, SequencesExt

CONSTANTS
  Readers,     \* the threads that call the receive methods
  Bytes,       \* the byte values the peer writes
  Nul,         \* the byte '\0'
  Amounts,     \* the amounts a caller asks receiveAmount() for
  Flags,       \* the flags a caller passes on to recv()
  UIntMax,     \* the largest unsigned int
  MaxMessage,  \* bound: the longest message of one send()
  MaxSent      \* bound: the bytes the peer writes in a behaviour

ASSUME ConstantsAssumption ==
  /\ Nul \in Bytes
  /\ UIntMax \in Nat \ {0}
  /\ Amounts \subseteq 0..UIntMax
  /\ Flags \subseteq {"none", "MSG_PEEK", "MSG_DONTWAIT"}
  /\ MaxMessage \in Nat
  /\ MaxSent \in Nat

VARIABLES
  sent,        \* every byte the peer's send() has put on the stream
  rcvd,        \* how many of them recv() has taken off it
  peerOpen,    \* the peer has not closed its end
  open,        \* the descriptor is open
  reset,       \* the peer has learnt that this end is closed
  sendResult,  \* the value the peer's last send() returned
  frame,       \* the receive call each reader is in
  delivered,   \* the positions each reader's calls have returned
  dropped      \* the positions calls have read and not returned

vars == <<sent, rcvd, peerOpen, open, reset, sendResult, frame, delivered, dropped>>
peerVars == <<sent, peerOpen, reset, sendResult>>

(***************************************************************************)
(* A frame is a call in progress: the method (op), the system call it is   *)
(* at (pc), the arguments, and the locals of the two nested loops: want    *)
(* and buf are amountToReceive and the buffer of receiveAmount(), data is  *)
(* the string receiveToDelimiter() and receiveAll() accumulate.            *)
(***************************************************************************)
Idle ==
  [op |-> "none", pc |-> "idle", delimiter |-> Nul, flags |-> "none",
   want |-> 0, buf |-> << >>, data |-> << >>, hitEOF |-> FALSE]

Unread == Len(sent) - rcvd

\* select() reports end-of-stream as readable.
Readable == Unread > 0 \/ ~peerOpen

\* pollSocket(): -1 on a closed descriptor, 1 when readable, 0 on timeout.
PollSocket == IF ~open THEN -1 ELSE IF Readable THEN 1 ELSE 0

ReadyIfSeveral == PollSocket > 1       \* mutant: off by one
ReadyIfConnected == PollSocket # -1    \* mutant: the test of connected()
Ready == PollSocket > 0

\* The int pollSocket() returns becomes the unsigned int receiveAmount() takes.
StaysSigned(n) == n                    \* mutant: no conversion
ToUnsigned(n) == n % (UIntMax + 1)

\* How many bytes the next recv() of receiveAmount() asks for.
RequestsAll(f) == f.want               \* mutant: the counter is not subtracted
Requested(f) == f.want - Len(f.buf)

\* Whether the string receiveAmount() returned starts with the given byte.
StartsWithNul(chunk, byte) == chunk # << >> /\ sent[chunk[1]] = Nul   \* mutant
StartsWith(chunk, byte) == chunk # << >> /\ sent[chunk[1]] = byte

\* A round of the outer loop ends: its bytes join the string.
Prepend(f, chunk) == [f EXCEPT !.pc = "ready", !.buf = << >>, !.data = chunk \o @]   \* mutant
Accumulate(f, chunk) == [f EXCEPT !.pc = "ready", !.buf = << >>, !.data = @ \o chunk]

-----------------------------------------------------------------------------
(* The peer.                                                               *)

\* send() passes the message to ::send() once; the kernel takes a prefix.
Send(message) ==
  /\ peerOpen
  /\ Len(sent) + Len(message) <= MaxSent
  /\ \/ /\ open
        /\ \E k \in 0..Len(message) :
             /\ k = 0 => message = << >>
             /\ sent' = sent \o SubSeq(message, 1, k)
             /\ sendResult' = k
        /\ UNCHANGED reset
     \* The bytes are lost; the answer to them is a reset.
     \/ /\ ~open /\ ~reset
        /\ reset' \in BOOLEAN
        /\ sendResult' = Len(message)
        /\ UNCHANGED sent
     \/ /\ ~open /\ reset
        /\ sendResult' = -1
        /\ UNCHANGED <<sent, reset>>
  /\ UNCHANGED <<rcvd, peerOpen, open, frame, delivered, dropped>>

PeerClose ==
  /\ peerOpen
  /\ peerOpen' = FALSE
  /\ UNCHANGED <<sent, rcvd, open, reset, sendResult, frame, delivered, dropped>>

\* close() by a thread that is in no receive call; the descriptor is shared.
Close(r) ==
  /\ frame[r].op = "none"
  /\ open
  /\ open' = FALSE
  /\ UNCHANGED <<sent, rcvd, peerOpen, reset, sendResult, frame, delivered, dropped>>

-----------------------------------------------------------------------------
(* The receive methods.                                                    *)

Start(r, f) ==
  /\ frame[r].op = "none"
  /\ frame' = [frame EXCEPT ![r] = f]
  /\ UNCHANGED <<rcvd, open, delivered, dropped, peerVars>>

\* receiveAmount(0) returns at once, before any system call.
ReceiveAmount(r, n, fl) ==
  /\ n > 0
  /\ Start(r, [Idle EXCEPT !.op = "amount", !.pc = "recv", !.want = n, !.flags = fl])

Get(r, fl) ==
  Start(r, [Idle EXCEPT !.op = "get", !.pc = "recv", !.want = 1, !.flags = fl])

\* A '\0' delimiter throws before any system call.
ReceiveToDelimiter(r, d, fl) ==
  /\ d # Nul
  /\ Start(r, [Idle EXCEPT !.op = "delimiter", !.pc = "ready", !.delimiter = d, !.flags = fl])

ReceiveAll(r, fl) ==
  Start(r, [Idle EXCEPT !.op = "all", !.pc = "ready", !.flags = fl])

Goto(r, f) == frame' = [frame EXCEPT ![r] = f] /\ UNCHANGED delivered

Return(r, string) ==
  /\ frame' = [frame EXCEPT ![r] = Idle]
  /\ delivered' = [delivered EXCEPT ![r] = @ \o string]

\* receiveAmount() is done with the positions in chunk; its caller goes on.
ReceiveAmountReturns(r, chunk) ==
  LET f == frame[r]
  IN  \/ /\ f.op \in {"amount", "get"}
         /\ Return(r, chunk)
         /\ UNCHANGED dropped
      \/ /\ f.op = "delimiter"
         /\ chunk = << >> \/ StartsWith(chunk, f.delimiter)
         /\ Return(r, f.data)
         /\ dropped' = dropped \cup ToSet(chunk)
      \/ /\ f.op = "all"
         /\ StartsWith(chunk, Nul)
         /\ Goto(r, [f EXCEPT !.pc = "ready", !.buf = << >>, !.hitEOF = TRUE])
         /\ dropped' = dropped \cup ToSet(chunk)
      \/ /\ \/ f.op = "delimiter" /\ chunk # << >> /\ ~StartsWith(chunk, f.delimiter)
            \/ f.op = "all" /\ ~StartsWith(chunk, Nul)
         /\ Goto(r, Accumulate(f, chunk))
         /\ UNCHANGED dropped

\* recv() returns k bytes, which MSG_PEEK leaves in the kernel's buffer.
RecvData(r) ==
  LET f == frame[r]
  IN  /\ f.pc = "recv"
      /\ open
      /\ \E k \in 1..Unread :
           LET chunk == f.buf \o [i \in 1..k |-> rcvd + i]
           IN  /\ k <= Requested(f)
               /\ rcvd' = IF f.flags = "MSG_PEEK" THEN rcvd ELSE rcvd + k
               /\ \/ /\ Len(chunk) < f.want
                     /\ Goto(r, [f EXCEPT !.pc = "more", !.buf = chunk])
                     /\ UNCHANGED dropped
                  \/ /\ Len(chunk) >= f.want
                     /\ ReceiveAmountReturns(r, chunk)
      /\ UNCHANGED <<open, peerVars>>

\* recv() returns 0 at end-of-stream, -1 on an error or for want of data.
RecvGivesNothing(r) ==
  \/ ~open
  \/ Unread = 0 /\ ~peerOpen
  \/ Unread = 0 /\ frame[r].flags = "MSG_DONTWAIT"

\* mutant: receiveAmount() returns 0 and not its counter
RecvNothingForgets(r) ==
  /\ frame[r].pc = "recv"
  /\ RecvGivesNothing(r)
  /\ ReceiveAmountReturns(r, << >>)
  /\ UNCHANGED <<rcvd, open, peerVars>>

\* receiveAmount() stops and returns what it has.
RecvNothing(r) ==
  /\ frame[r].pc = "recv"
  /\ RecvGivesNothing(r)
  /\ ReceiveAmountReturns(r, frame[r].buf)
  /\ UNCHANGED <<rcvd, open, peerVars>>

\* mutant: the loop goes on without ready()
ReadyForMoreUnchecked(r) ==
  /\ frame[r].pc = "more"
  /\ Goto(r, [frame[r] EXCEPT !.pc = "recv"])
  /\ UNCHANGED <<rcvd, open, dropped, peerVars>>

\* mutant: the substring is one byte short when the loop ends early
ReadyForMoreShort(r) ==
  /\ frame[r].pc = "more"
  /\ \/ Ready /\ Goto(r, [frame[r] EXCEPT !.pc = "recv"]) /\ UNCHANGED dropped
     \/ ~Ready /\ ReceiveAmountReturns(r, Front(frame[r].buf))
  /\ UNCHANGED <<rcvd, open, peerVars>>

\* The loop condition of receiveAmount().
ReadyForMore(r) ==
  /\ frame[r].pc = "more"
  /\ \/ /\ Ready
        /\ Goto(r, [frame[r] EXCEPT !.pc = "recv"])
        /\ UNCHANGED dropped
     \/ /\ ~Ready
        /\ ReceiveAmountReturns(r, frame[r].buf)
  /\ UNCHANGED <<rcvd, open, peerVars>>

\* mutant: get() without ready()
ReadyForCharacterUnchecked(r) ==
  /\ frame[r].op = "delimiter" /\ frame[r].pc = "ready"
  /\ Goto(r, [frame[r] EXCEPT !.pc = "recv", !.want = 1])
  /\ UNCHANGED <<rcvd, open, dropped, peerVars>>

\* ready() before each get() of receiveToDelimiter().
ReadyForCharacter(r) ==
  LET f == frame[r]
  IN  /\ f.op = "delimiter" /\ f.pc = "ready"
      /\ \/ Ready /\ Goto(r, [f EXCEPT !.pc = "recv", !.want = 1])
         \/ ~Ready /\ Return(r, f.data)
      /\ UNCHANGED <<rcvd, open, dropped, peerVars>>

\* The loop condition of receiveAll().
ReadyForAll(r) ==
  LET f == frame[r]
  IN  /\ f.op = "all" /\ f.pc = "ready"
      /\ \/ Ready /\ ~f.hitEOF /\ Goto(r, [f EXCEPT !.pc = "poll"])
         \/ (~Ready \/ f.hitEOF) /\ Return(r, f.data)
      /\ UNCHANGED <<rcvd, open, dropped, peerVars>>

\* receiveAll() asks for as many bytes as pollSocket() counts descriptors.
PollForAmount(r) ==
  LET f == frame[r]
      amount == ToUnsigned(PollSocket)
  IN  /\ f.pc = "poll"
      /\ Goto(r, [f EXCEPT !.pc = IF amount = 0 THEN "ready" ELSE "recv", !.want = amount])
      /\ UNCHANGED <<rcvd, open, dropped, peerVars>>

-----------------------------------------------------------------------------
Call(r) ==
  \E fl \in Flags :
    \/ \E n \in Amounts : ReceiveAmount(r, n, fl)
    \/ Get(r, fl)
    \/ \E d \in Bytes : ReceiveToDelimiter(r, d, fl)
    \/ ReceiveAll(r, fl)

Step(r) ==
  \/ RecvData(r)
  \/ RecvNothing(r)
  \/ ReadyForMore(r)
  \/ ReadyForCharacter(r)
  \/ ReadyForAll(r)
  \/ PollForAmount(r)

Init ==
  /\ sent = << >>
  /\ rcvd = 0
  /\ peerOpen = TRUE
  /\ open = TRUE
  /\ reset = FALSE
  /\ sendResult = 0
  /\ frame = [r \in Readers |-> Idle]
  /\ delivered = [r \in Readers |-> << >>]
  /\ dropped = {}

Next ==
  \/ \E message \in SeqOf(Bytes, MaxMessage) : Send(message)
  \/ PeerClose
  \/ \E r \in Readers : Close(r) \/ Call(r) \/ Step(r)

Spec == Init /\ [][Next]_vars

\* A thread inside a call keeps running; nobody has to call, send or close.
Fairness == \A r \in Readers : WF_vars(Step(r))
FairSpec == Spec /\ Fairness
-----------------------------------------------------------------------------
(* Properties.                                                             *)

Ops == {"none", "amount", "get", "delimiter", "all"}
Pcs == {"idle", "recv", "more", "ready", "poll"}

Frames ==
  [op: Ops, pc: Pcs, delimiter: Bytes, flags: Flags \cup {"none"},
   want: 0..UIntMax, buf: Seq(Nat), data: Seq(Nat), hitEOF: BOOLEAN]

TypeOK ==
  /\ sent \in Seq(Bytes)
  /\ rcvd \in 0..Len(sent)
  /\ peerOpen \in BOOLEAN
  /\ open \in BOOLEAN
  /\ reset \in BOOLEAN
  /\ sendResult \in -1..MaxSent
  /\ frame \in [Readers -> Frames]
  /\ delivered \in [Readers -> Seq(Nat)]
  /\ dropped \in SUBSET Nat

\* The positions reader r has got so far, returned or still in its locals.
Taken(r) == delivered[r] \o frame[r].data \o frame[r].buf

\* However the readers' calls interleave, each byte recv() took off the stream
\* is with exactly one reader, or is a terminator some call swallowed: the
\* receive loops lose no byte and hand none to two callers.
ExactlyOnce ==
  /\ 1..rcvd = dropped \cup UNION {ToSet(Taken(r)) : r \in Readers}
  /\ \A r \in Readers : dropped \cap ToSet(Taken(r)) = {}
  /\ \A r, s \in Readers : r # s => ToSet(Taken(r)) \cap ToSet(Taken(s)) = {}

\* Every reader gets its share of the bytes in the order they were sent, and
\* no byte twice, within a call and from one call to the next.
InOrder ==
  \A r \in Readers :
    \A i, j \in DOMAIN Taken(r) : i < j => Taken(r)[i] < Taken(r)[j]

\* What receiveToDelimiter() accumulates never holds the delimiter, and what
\* receiveAll() accumulates never holds a '\0', even when another reader
\* takes bytes between their select() and their recv().
NoTerminatorInside ==
  \A r \in Readers :
    LET f == frame[r]
    IN  \A i \in DOMAIN f.data :
          sent[f.data[i]] # (IF f.op = "delimiter" THEN f.delimiter ELSE Nul)

Returns(r) == frame[r].op # "none" /\ frame'[r].op = "none"

\* No call returns more bytes than its caller's buffer holds: the successive
\* recv()s of receiveAmount() together stay within amountToReceive.
NeverOverruns ==
  [][\A r \in Readers :
       Returns(r) /\ frame[r].op \in {"amount", "get"}
         => Len(delivered'[r]) <= Len(delivered[r]) + frame[r].want]_vars

\* A call that ends without what its caller asked for.
ReturnsEarly(r) ==
  LET f == frame[r]
  IN  /\ Returns(r)
      /\ \/ f.op \in {"amount", "get"}
            /\ Len(delivered'[r]) - Len(delivered[r]) < f.want
         \/ f.op = "delimiter" /\ dropped' = dropped
         \/ f.op = "all" /\ ~f.hitEOF

\* "This method will return early if there is no more data" and only then: a
\* call that ends short leaves no byte unread, unless the socket was closed.
ReturnsEarlyOnlyWhenDrained ==
  [][\A r \in Readers : ReturnsEarly(r) => ~open \/ Unread' = 0]_vars

\* The peer has written more than n bytes, and the one that would end the call
\* is not among those still unread.
FedOn(n, terminator) ==
  Len(sent) > n /\ \A p \in (rcvd + 1)..Len(sent) : sent[p] # terminator

\* receiveToDelimiter() comes back once its thread runs, unless the peer goes on
\* writing and does not write the delimiter: its ready() before every get()
\* keeps a reader that is alone from blocking in recv() when the peer pauses.
DelimiterReturns ==
  \A r \in Readers, n \in 0..MaxSent :
    (frame[r].op = "delimiter" /\ Len(sent) = n)
      ~> (frame[r].op # "delimiter" \/ FedOn(n, frame[r].delimiter))

\* receiveAll() comes back as long as the peer keeps its end open, unless the
\* peer goes on writing and does not write a '\0'.
AllReturnsWhileOpen ==
  \A r \in Readers, n \in 0..MaxSent :
    (frame[r].op = "all" /\ Len(sent) = n)
      ~> (frame[r].op # "all" \/ ~peerOpen \/ FedOn(n, Nul))

\* receiveAll() always comes back, the peer's close() included: its loop has
\* a flag to stop at the end of the stream.
AllReturns ==
  \A r \in Readers : (frame[r].op = "all") ~> (frame[r].op # "all")

\* Once receiveAmount() has a byte it comes back, with what it has: it never
\* blocks for the rest, nor does a peer that stops halfway hold it.
AmountReturnsOnceStarted ==
  \A r \in Readers :
    (frame[r].op = "amount" /\ frame[r].buf # << >>) ~> (frame[r].op # "amount")

-----------------------------------------------------------------------------
(* The promise to a reader that has the connection to itself.              *)

Reader == CHOOSE r \in Readers : TRUE

\* What the calls of the only reader have settled: not what its current call
\* holds, nor the '\0' that makes its receiveAll() stop.
Settled ==
  LET f == frame[Reader]
  IN  rcvd - Len(f.data) - Len(f.buf) - (IF f.hitEOF THEN 1 ELSE 0)

Stream == INSTANCE ByteStream WITH
  settled <- Settled,
  delivered <- delivered[Reader],
  dropped <- {p \in dropped : p <= Settled}

\* One reader of a connection gets what ByteStream promises, whatever mix of
\* receive methods it calls and however recv() and the peer cut the stream.
ImplementsByteStream == Stream!Spec
=============================================================================

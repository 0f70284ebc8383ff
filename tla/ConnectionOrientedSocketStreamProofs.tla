---------------- MODULE ConnectionOrientedSocketStreamProofs ----------------
(***************************************************************************)
(* What the prover establishes about the bytes the receive methods hand    *)
(* over: that terminators stay out of the strings and, for any number of   *)
(* readers that do not peek, that no byte is lost, repeated or reordered;  *)
(* and that the socket implements ByteStream when it has one reader.       *)
(*                                                                         *)
(* The proofs go through one lemma, StepHasEffect: whatever system call a  *)
(* step is, it does one of seven things to the stream.                     *)
(***************************************************************************)
EXTENDS ConnectionOrientedSocketProofs

\* What each receive method's frame looks like at each of its system calls.
\* receiveAmount() is asked for one byte at a time by the other methods, or,
\* by receiveAll() on a closed socket, for more than it will get.
Shape(f, isOpen) ==
  /\ f.op = "none" => f.pc = "idle" /\ f.data = << >>
  /\ f.op \in {"amount", "get"} => f.pc \in {"recv", "more"} /\ f.data = << >>
  /\ f.op = "delimiter" => f.pc \in {"ready", "recv"} /\ (f.pc = "recv" => f.want = 1)
  /\ f.op = "all" =>
       /\ f.pc \in {"ready", "poll", "recv"}
       /\ f.pc = "recv" => f.want = 1 \/ ~isOpen
  /\ f.op \notin {"amount", "get"} => f.buf = << >>
  /\ f.hitEOF => f.op = "all" /\ f.pc = "ready"

FramesShaped == \A r \in Readers : Shape(frame[r], open)

LEMMA IdleShaped == Shape(Idle, open)
  BY DEF Shape, Idle

\* The int that pollSocket() returns, as receiveAmount() takes it.
LEMMA PolledAmount ==
  ASSUME ConstantsAssumption
  PROVE  /\ ToUnsigned(PollSocket) \in 0..UIntMax
         /\ open => ToUnsigned(PollSocket) \in {0, 1}
<1>1. UIntMax \in Nat /\ UIntMax >= 1
  BY DEF ConstantsAssumption
<1>2. 0 % (UIntMax + 1) = 0 /\ 1 % (UIntMax + 1) = 1
  BY <1>1
<1>3. (-1) % (UIntMax + 1) \in 0..UIntMax
  BY <1>1
<1>4. PollSocket \in {-1, 0, 1} /\ (open => PollSocket \in {0, 1})
  BY DEF PollSocket
<1>5. CASE PollSocket = -1
  BY <1>3, <1>4, <1>5 DEF ToUnsigned
<1>6. CASE PollSocket \in {0, 1}
  BY <1>1, <1>2, <1>6 DEF ToUnsigned
<1> QED  BY <1>4, <1>5, <1>6

\* recv() fills more than one byte only for receiveAmount()'s own callers.
LEMMA OneByteAtATime ==
  ASSUME TypeOK, BufferFits, FramesShaped, NEW r \in Readers, frame[r].pc = "recv", open,
         frame[r].op \notin {"amount", "get"}
  PROVE  /\ frame[r].op \in {"delimiter", "all"}
         /\ frame[r].want = 1
         /\ frame[r].buf = << >>
         /\ frame[r].hitEOF = FALSE
<1>1. Shape(frame[r], open) /\ frame[r] \in Frames
  BY DEF FramesShaped, TypeOK
<1>2. frame[r].op \in Ops /\ frame[r].hitEOF \in BOOLEAN
  BY <1>1 DEF Frames
<1> QED  BY <1>1, <1>2 DEF Shape, Ops

\* What comes back from receiveAmount() leaves its caller in shape.
LEMMA ReceiveAmountReturnsShaped ==
  ASSUME TypeOK, FramesShaped, NEW r \in Readers, NEW chunk, ReceiveAmountReturns(r, chunk),
         UNCHANGED open
  PROVE  FramesShaped'
<1> DEFINE f == frame[r]
<1>1. f \in Frames
  BY DEF TypeOK
<1>2. ASSUME NEW g, Shape(g, open), frame' = [frame EXCEPT ![r] = g]
      PROVE  FramesShaped'
  BY <1>2 DEF TypeOK, FramesShaped
<1>3. ASSUME NEW string, Return(r, string)  PROVE FramesShaped'
  BY <1>2, <1>3, IdleShaped DEF Return
<1>4. f.op = "all" => Shape([f EXCEPT !.pc = "ready", !.buf = << >>, !.hitEOF = TRUE], open)
  BY <1>1 DEF Shape, Frames
<1>5. f.op \in {"delimiter", "all"} => Shape(Accumulate(f, chunk), open)
  <2>1. Shape(f, open)
    BY DEF FramesShaped
  <2> QED  BY <1>1, <2>1 DEF Shape, Frames, Accumulate
<1> QED  BY <1>2, <1>3, <1>4, <1>5 DEF ReceiveAmountReturns, Goto

\* A call starts in shape.
LEMMA CallShaped ==
  ASSUME TypeOK, FramesShaped, NEW r \in Readers, Call(r)
  PROVE  FramesShaped'
<1>1. ASSUME NEW g, Shape(g, open), Start(r, g)  PROVE FramesShaped'
  BY <1>1 DEF TypeOK, FramesShaped, Start
<1>2. ASSUME NEW n \in Amounts, NEW fl \in Flags, ReceiveAmount(r, n, fl)
      PROVE  FramesShaped'
  BY <1>1, <1>2 DEF ReceiveAmount, Idle, Shape
<1>3. ASSUME NEW fl \in Flags, Get(r, fl)  PROVE FramesShaped'
  BY <1>1, <1>3 DEF Get, Idle, Shape
<1>4. ASSUME NEW d \in Bytes, NEW fl \in Flags, ReceiveToDelimiter(r, d, fl)
      PROVE  FramesShaped'
  BY <1>1, <1>4 DEF ReceiveToDelimiter, Idle, Shape
<1>5. ASSUME NEW fl \in Flags, ReceiveAll(r, fl)  PROVE FramesShaped'
  BY <1>1, <1>5 DEF ReceiveAll, Idle, Shape
<1> QED  BY <1>2, <1>3, <1>4, <1>5 DEF Call

\* So does every system call of a call in progress.
LEMMA StepShaped ==
  ASSUME ConstantsAssumption, TypeOK, BufferFits, FramesShaped, NEW r \in Readers, Step(r)
  PROVE  FramesShaped'
<1> DEFINE f == frame[r]
<1>1. f \in Frames /\ Shape(f, open) /\ f.buf \in Seq(Nat)
  BY DEF TypeOK, FramesShaped, Frames
<1>2. ASSUME NEW g, Shape(g, open), frame' = [frame EXCEPT ![r] = g], UNCHANGED open
      PROVE  FramesShaped'
  BY <1>2 DEF TypeOK, FramesShaped
<1>3. CASE RecvData(r)
  <2>1. PICK k \in 1..Unread :
          LET chunk == f.buf \o [i \in 1..k |-> rcvd + i]
          IN  \/ /\ Len(chunk) < f.want
                 /\ Goto(r, [f EXCEPT !.pc = "more", !.buf = chunk])
              \/ ReceiveAmountReturns(r, chunk)
    BY <1>3 DEF RecvData
  <2> DEFINE chunk == f.buf \o [i \in 1..k |-> rcvd + i]
  <2>2. f.pc = "recv" /\ open /\ open' = open
    BY <1>3 DEF RecvData
  <2>3. rcvd \in Nat /\ k \in Nat /\ k >= 1
    BY DEF TypeOK, Unread
  <2>4. Len(chunk) = Len(f.buf) + k /\ Len(f.buf) \in Nat
    BY <1>1, <2>3, ChunkIsSequence
  <2> HIDE DEF chunk
  <2>5. CASE Len(chunk) < f.want /\ Goto(r, [f EXCEPT !.pc = "more", !.buf = chunk])
    <3>1. f.want # 1
      BY <2>3, <2>4, <2>5
    <3>2. f.op \in {"amount", "get"}
      BY <2>2, <3>1, OneByteAtATime
    <3>3. Shape([f EXCEPT !.pc = "more", !.buf = chunk], open)
      BY <1>1, <2>2, <3>2 DEF Shape, Frames
    <3> QED  BY <1>2, <2>2, <2>5, <3>3 DEF Goto
  <2>6. CASE ReceiveAmountReturns(r, chunk)
    BY <2>2, <2>6, ReceiveAmountReturnsShaped
  <2> QED  BY <2>1, <2>5, <2>6 DEF chunk
<1>4. CASE RecvNothing(r)
  BY <1>4, ReceiveAmountReturnsShaped DEF RecvNothing
<1>5. CASE ReadyForMore(r)
  <2>1. f.pc = "more" => Shape([f EXCEPT !.pc = "recv"], open)
    <3>1. f.pc = "more" => f.op \in {"amount", "get"}
      BY <1>1 DEF Shape, Frames, Ops
    <3> QED  BY <1>1, <3>1 DEF Shape, Frames
  <2> QED  BY <1>2, <1>5, <2>1, ReceiveAmountReturnsShaped DEF ReadyForMore, Goto
<1>6. CASE ReadyForCharacter(r)
  <2>1. f.op = "delimiter" => Shape([f EXCEPT !.pc = "recv", !.want = 1], open)
    BY <1>1 DEF Shape, Frames
  <2> QED  BY <1>2, <1>6, <2>1, IdleShaped DEF ReadyForCharacter, Goto, Return
<1>7. CASE ReadyForAll(r)
  <2>1. f.op = "all" /\ ~f.hitEOF => Shape([f EXCEPT !.pc = "poll"], open)
    BY <1>1 DEF Shape, Frames
  <2> QED  BY <1>2, <1>7, <2>1, IdleShaped DEF ReadyForAll, Goto, Return
<1>8. CASE PollForAmount(r)
  <2> DEFINE amount == ToUnsigned(PollSocket)
             g == [f EXCEPT !.pc = IF amount = 0 THEN "ready" ELSE "recv", !.want = amount]
  <2>1. amount \in 0..UIntMax /\ (open => amount \in {0, 1})
    BY PolledAmount
  <2>2. f.pc = "poll" /\ frame' = [frame EXCEPT ![r] = g] /\ UNCHANGED open
    BY <1>8 DEF PollForAmount, Goto
  <2> HIDE DEF amount
  <2>3. f.op = "all"
    BY <1>1, <2>2 DEF Shape, Frames, Ops
  <2>4. Shape(g, open)
    BY <1>1, <2>1, <2>2, <2>3 DEF Shape, Frames
  <2> QED  BY <1>2, <2>2, <2>4
<1> QED  BY <1>3, <1>4, <1>5, <1>6, <1>7, <1>8 DEF Step

\* Every receive call goes through its system calls as its method's loops
\* prescribe: in particular receiveAll() and receiveToDelimiter() come to
\* recv() with an empty buffer and, on an open socket, for one byte.
THEOREM FramesAlwaysShaped == Spec => []FramesShaped
<1>1. Init => FramesShaped
  BY IdleShaped DEF Init, FramesShaped
<1>2. TypeOK /\ BufferFits /\ FramesShaped /\ [Next]_vars => FramesShaped'
  <2> SUFFICES ASSUME TypeOK, BufferFits, FramesShaped, [Next]_vars  PROVE FramesShaped'
    OBVIOUS
  <2>1. ASSUME frame' = frame, open' = open  PROVE FramesShaped'
    BY <2>1 DEF FramesShaped
  <2>2. CASE UNCHANGED vars
    BY <2>1, <2>2 DEF vars
  <2>3. CASE \E message \in SeqOf(Bytes, MaxMessage) : Send(message)
    BY <2>1, <2>3 DEF Send
  <2>4. CASE PeerClose
    BY <2>1, <2>4 DEF PeerClose
  <2>5. ASSUME NEW r \in Readers, Close(r)  PROVE FramesShaped'
    <3>1. frame' = frame /\ open' = FALSE
      BY <2>5 DEF Close
    <3>2. ASSUME NEW s \in Readers  PROVE Shape(frame[s], FALSE)
      BY DEF FramesShaped, Shape
    <3> QED  BY <3>1, <3>2 DEF FramesShaped
  <2>6. ASSUME NEW r \in Readers, Call(r)  PROVE FramesShaped'
    BY <2>6, CallShaped
  <2>7. ASSUME NEW r \in Readers, Step(r)  PROVE FramesShaped'
    BY <2>7, StepShaped, ConstantsAssumption
  <2> QED  BY <2>2, <2>3, <2>4, <2>5, <2>6, <2>7 DEF Next
<1> QED  BY <1>1, <1>2, TypeCorrect, BufferAlwaysFits, PTL DEF Spec
-----------------------------------------------------------------------------
(* What a step does to the stream.                                         *)

Terminator(f) == IF f.op = "delimiter" THEN f.delimiter ELSE Nul

\* The positions of the next k bytes, and where the stream is after recv()
\* has returned them.
NextBytes(k) == [i \in 1..k |-> rcvd + i]
Advanced(f, k) == IF f.flags = "MSG_PEEK" THEN rcvd ELSE rcvd + k

\* The call goes to its next system call with the bytes it has.
Keeps(r) ==
  /\ \E g \in Frames :
       /\ frame' = [frame EXCEPT ![r] = g]
       /\ g.op = frame[r].op /\ g.delimiter = frame[r].delimiter
       /\ g.data = frame[r].data /\ g.buf = frame[r].buf /\ g.hitEOF = frame[r].hitEOF
  /\ UNCHANGED <<rcvd, delivered, dropped>>

\* receiveAmount() or get() takes k bytes into its buffer.
Fills(r, k) ==
  LET f == frame[r]
  IN  /\ f.op \in {"amount", "get"}
      /\ frame' = [frame EXCEPT ![r] = [f EXCEPT !.pc = "more", !.buf = f.buf \o NextBytes(k)]]
      /\ rcvd' = Advanced(f, k)
      /\ UNCHANGED <<delivered, dropped>>

\* receiveAmount() or get() returns, with the k bytes it takes last.
HandsOver(r, k) ==
  LET f == frame[r]
  IN  /\ f.op \in {"amount", "get"}
      /\ Return(r, f.buf \o NextBytes(k))
      /\ rcvd' = Advanced(f, k)
      /\ UNCHANGED dropped

\* receiveToDelimiter() or receiveAll() returns what it has accumulated.
ReturnsString(r) ==
  /\ frame[r].op \in {"delimiter", "all"}
  /\ Return(r, frame[r].data)
  /\ UNCHANGED <<rcvd, dropped>>

\* receiveToDelimiter() reads the delimiter and returns.
MeetsDelimiter(r) ==
  /\ Unread > 0
  /\ frame[r].op = "delimiter" /\ ~frame[r].hitEOF
  /\ Return(r, frame[r].data)
  /\ rcvd' = Advanced(frame[r], 1)
  /\ dropped' = dropped \cup {rcvd + 1}

\* receiveAll() reads a '\0' and will return.
MeetsNul(r) ==
  /\ Unread > 0
  /\ frame[r].op = "all" /\ ~frame[r].hitEOF
  /\ frame' = [frame EXCEPT ![r] = [frame[r] EXCEPT !.pc = "ready", !.buf = << >>, !.hitEOF = TRUE]]
  /\ UNCHANGED delivered
  /\ rcvd' = Advanced(frame[r], 1)
  /\ dropped' = dropped \cup {rcvd + 1}

\* Either of them reads another byte and keeps it.
Joins(r) ==
  LET f == frame[r]
  IN  /\ Unread > 0
      /\ f.op \in {"delimiter", "all"} /\ ~f.hitEOF
      /\ sent[rcvd + 1] # Terminator(f)
      /\ frame' = [frame EXCEPT ![r] =
                     [f EXCEPT !.pc = "ready", !.buf = << >>, !.data = f.data \o NextBytes(1)]]
      /\ rcvd' = Advanced(f, 1)
      /\ UNCHANGED <<delivered, dropped>>

Effect(r) ==
  /\ UNCHANGED <<open, peerVars>>
  /\ \/ Keeps(r)
     \/ \E k \in 1..Unread : Fills(r, k)
     \/ \E k \in 0..Unread : HandsOver(r, k)
     \/ ReturnsString(r)
     \/ MeetsDelimiter(r)
     \/ MeetsNul(r)
     \/ Joins(r)

\* The next no bytes, and the next byte.
LEMMA FewBytes ==
  ASSUME rcvd \in Nat
  PROVE  /\ \A b \in Seq(Nat) : b \o NextBytes(0) = b
         /\ NextBytes(1) # << >>
         /\ NextBytes(1)[1] = rcvd + 1
         /\ ToSet(NextBytes(1)) = {rcvd + 1}
         /\ << >> \o NextBytes(1) = NextBytes(1)
<1> DEFINE q == NextBytes(1)
<1>1. q \in Seq(Nat) /\ Len(q) = 1 /\ q[1] = rcvd + 1
  BY DEF NextBytes
<1>2. ASSUME NEW b \in Seq(Nat)  PROVE b \o NextBytes(0) = b
  BY DEF NextBytes
<1>3. ToSet(q) = {rcvd + 1}
  BY DEF ToSet, NextBytes
<1> HIDE DEF q
<1>4. << >> \o q = q
  BY <1>1
<1>5. q # << >>
  <2>1. Len(<< >>) = 0 /\ 0 # 1
    OBVIOUS
  <2>2. Len(q) # Len(<< >>)
    BY <1>1, <2>1
  <2> QED  BY <2>2, Zenon
<1> QED  BY <1>1, <1>2, <1>3, <1>4, <1>5 DEF q

\* receiveAmount() comes back without a byte to one of the methods that ask
\* for one at a time.
LEMMA NothingHasEffect ==
  ASSUME TypeOK, FramesShaped, NEW r \in Readers,
         frame[r].op \in {"delimiter", "all"}, ReceiveAmountReturns(r, << >>),
         UNCHANGED <<rcvd, open, peerVars>>
  PROVE  Effect(r)
<1> DEFINE f == frame[r]
<1>1. f \in Frames /\ f.data \in Seq(Nat) /\ f.buf = << >>
  BY DEF TypeOK, Frames, FramesShaped, Shape
<1>2. ToSet(<< >>) = {} /\ ~StartsWith(<< >>, Nul)
  BY DEF ToSet, StartsWith
<1>3. CASE f.op = "delimiter"
  <2>1. Return(r, f.data) /\ dropped' = dropped
    BY <1>2, <1>3 DEF ReceiveAmountReturns
  <2> QED  BY <1>3, <2>1 DEF Effect, ReturnsString
<1>4. CASE f.op = "all"
  <2>1. Goto(r, Accumulate(f, << >>)) /\ dropped' = dropped
    BY <1>2, <1>4 DEF ReceiveAmountReturns
  <2>2. f.data \o << >> = f.data
    BY <1>1
  <2>3. Accumulate(f, << >>) = [f EXCEPT !.pc = "ready", !.buf = << >>]
    BY <1>1, <2>2 DEF Accumulate, Frames
  <2>4. [f EXCEPT !.pc = "ready", !.buf = << >>] \in Frames
    BY <1>1, EmptyIsSequence, FrameBuf DEF Pcs
  <2>5. Keeps(r)
    <3> DEFINE g == [f EXCEPT !.pc = "ready", !.buf = << >>]
    <3>1. /\ g.op = f.op /\ g.delimiter = f.delimiter
          /\ g.data = f.data /\ g.buf = f.buf /\ g.hitEOF = f.hitEOF
      BY <1>1 DEF Frames
    <3>2. frame' = [frame EXCEPT ![r] = g]
      BY <2>1, <2>3 DEF Goto
    <3> HIDE DEF g
    <3>3. g \in Frames
      BY <2>4 DEF g
    <3> QED  BY <2>1, <3>1, <3>2, <3>3 DEF Keeps, Goto
  <2> QED  BY <2>5 DEF Effect
<1> QED  BY <1>3, <1>4

\* receiveAmount() comes back with the next byte to one of them.
LEMMA ByteHasEffect ==
  ASSUME TypeOK, FramesShaped, NEW r \in Readers,
         frame[r].op \in {"delimiter", "all"}, ~frame[r].hitEOF, Unread > 0,
         ReceiveAmountReturns(r, NextBytes(1)),
         rcvd' = Advanced(frame[r], 1), UNCHANGED <<open, peerVars>>
  PROVE  Effect(r)
<1> DEFINE f == frame[r]
<1>1. f \in Frames /\ rcvd \in Nat
  BY DEF TypeOK
<1>2. /\ NextBytes(1) # << >>
      /\ ToSet(NextBytes(1)) = {rcvd + 1}
      /\ \A b : StartsWith(NextBytes(1), b) <=> sent[rcvd + 1] = b
  BY <1>1, FewBytes DEF StartsWith
<1>3. CASE f.op = "delimiter" /\ sent[rcvd + 1] = f.delimiter
  <2>1. Return(r, f.data) /\ dropped' = dropped \cup {rcvd + 1}
    BY <1>2, <1>3 DEF ReceiveAmountReturns
  <2> QED  BY <1>3, <2>1 DEF Effect, MeetsDelimiter
<1>4. CASE f.op = "all" /\ sent[rcvd + 1] = Nul
  <2>1. /\ Goto(r, [f EXCEPT !.pc = "ready", !.buf = << >>, !.hitEOF = TRUE])
        /\ dropped' = dropped \cup {rcvd + 1}
    BY <1>2, <1>4 DEF ReceiveAmountReturns
  <2> QED  BY <1>4, <2>1 DEF Effect, MeetsNul, Goto
<1>5. CASE sent[rcvd + 1] # Terminator(f)
  <2>1. Goto(r, Accumulate(f, NextBytes(1))) /\ dropped' = dropped
    <3>1. CASE f.op = "delimiter"
      <4>1. ~StartsWith(NextBytes(1), f.delimiter)
        BY <1>2, <1>5, <3>1 DEF Terminator
      <4> QED  BY <1>2, <3>1, <4>1 DEF ReceiveAmountReturns
    <3>2. CASE f.op = "all"
      <4>1. ~StartsWith(NextBytes(1), Nul)
        BY <1>2, <1>5, <3>2 DEF Terminator
      <4> QED  BY <3>2, <4>1 DEF ReceiveAmountReturns
    <3> QED  BY <3>1, <3>2
  <2>2. Accumulate(f, NextBytes(1)) =
          [f EXCEPT !.pc = "ready", !.buf = << >>, !.data = f.data \o NextBytes(1)]
    BY <1>1 DEF Accumulate, Frames
  <2>3. Joins(r)
    BY <1>5, <2>1, <2>2 DEF Joins, Goto
  <2> QED  BY <2>3 DEF Effect
<1> QED  BY <1>3, <1>4, <1>5 DEF Terminator

\* recv() returns bytes: to receiveAmount() itself, or one to its caller.
LEMMA RecvDataHasEffect ==
  ASSUME ConstantsAssumption, TypeOK, BufferFits, FramesShaped, NEW r \in Readers, RecvData(r)
  PROVE  Effect(r)
<1> DEFINE f == frame[r]
<1>1. f \in Frames /\ f.buf \in Seq(Nat) /\ rcvd \in Nat /\ Shape(f, open)
  BY DEF TypeOK, Frames, FramesShaped
<1>2. /\ f.pc = "recv" /\ open
      /\ UNCHANGED <<open, peerVars>>
  BY DEF RecvData
<1>3. PICK k \in 1..Unread :
        /\ k <= Requested(f)
        /\ rcvd' = Advanced(f, k)
        /\ \/ /\ Len(f.buf \o NextBytes(k)) < f.want
              /\ Goto(r, [f EXCEPT !.pc = "more", !.buf = f.buf \o NextBytes(k)])
              /\ UNCHANGED dropped
           \/ ReceiveAmountReturns(r, f.buf \o NextBytes(k))
  BY DEF RecvData, NextBytes, Advanced
<1>4. Unread \in Nat /\ k \in Nat /\ k >= 1
  BY <1>1, <1>3 DEF TypeOK, Unread
<1>5. CASE f.op \in {"amount", "get"}
  <2>1. CASE /\ Goto(r, [f EXCEPT !.pc = "more", !.buf = f.buf \o NextBytes(k)])
             /\ UNCHANGED dropped
    BY <1>2, <1>3, <1>5, <2>1 DEF Effect, Fills, Goto
  <2>2. CASE ReceiveAmountReturns(r, f.buf \o NextBytes(k))
    <3>1. Return(r, f.buf \o NextBytes(k)) /\ dropped' = dropped
      BY <1>5, <2>2 DEF ReceiveAmountReturns
    <3>2. HandsOver(r, k) /\ k \in 0..Unread
      BY <1>3, <1>4, <1>5, <3>1 DEF HandsOver
    <3> QED  BY <1>2, <3>2 DEF Effect
  <2> QED  BY <1>3, <2>1, <2>2
<1>6. CASE f.op \notin {"amount", "get"}
  <2>1. f.op \in {"delimiter", "all"} /\ f.want = 1 /\ f.buf = << >> /\ ~f.hitEOF
    BY <1>2, <1>6, OneByteAtATime
  <2>2. k = 1
    BY <1>3, <1>4, <2>1 DEF Requested
  <2>3. f.buf \o NextBytes(k) = NextBytes(1)
    BY <1>1, <2>1, <2>2, FewBytes
  <2>4. Len(NextBytes(1)) = 1
    BY DEF NextBytes
  <2>5. ReceiveAmountReturns(r, NextBytes(1))
    <3>1. Len(f.buf \o NextBytes(k)) = 1
      BY <2>3, <2>4, Zenon
    <3>2. ~(Len(f.buf \o NextBytes(k)) < f.want)
      BY <2>1, <3>1
    <3>3. ReceiveAmountReturns(r, f.buf \o NextBytes(k))
      BY <1>3, <3>2
    <3> QED  BY <2>3, <3>3, Zenon
  <2>6. rcvd' = Advanced(f, 1) /\ Unread > 0
    BY <1>3, <1>4, <2>2
  <2> QED  BY <1>2, <2>1, <2>5, <2>6, ByteHasEffect
<1> QED  BY <1>5, <1>6

\* receiveAmount() comes back with what it has, which is nothing when one of
\* the other methods called it.
LEMMA EndingHasEffect ==
  ASSUME TypeOK, FramesShaped, NEW r \in Readers,
         frame[r].pc \in {"recv", "more"}, ReceiveAmountReturns(r, frame[r].buf),
         UNCHANGED <<rcvd, open, peerVars>>
  PROVE  Effect(r)
<1> DEFINE f == frame[r]
<1>1. f \in Frames /\ f.buf \in Seq(Nat) /\ rcvd \in Nat /\ Shape(f, open)
  BY DEF TypeOK, Frames, FramesShaped
<1>2. CASE f.op \in {"amount", "get"}
  <2>1. Return(r, f.buf) /\ dropped' = dropped
    BY <1>2 DEF ReceiveAmountReturns
  <2>2. f.buf \o NextBytes(0) = f.buf
    BY <1>1, FewBytes
  <2>3. rcvd' = Advanced(f, 0)
    BY <1>1 DEF Advanced
  <2>4. HandsOver(r, 0)
    BY <1>2, <2>1, <2>2, <2>3 DEF HandsOver
  <2>5. 0 \in 0..Unread
    BY DEF TypeOK, Unread
  <2> QED  BY <2>4, <2>5 DEF Effect
<1>3. CASE f.op \notin {"amount", "get"}
  <2>1. f.op \in {"delimiter", "all"} /\ f.buf = << >>
    BY <1>1, <1>3 DEF Shape, Frames, Ops
  <2> QED  BY <2>1, NothingHasEffect
<1> QED  BY <1>2, <1>3

\* A step that only moves a call on keeps its bytes.
LEMMA MovingKeeps ==
  ASSUME TypeOK, NEW r \in Readers, NEW p \in Pcs, NEW w \in 0..UIntMax,
         \/ Goto(r, [frame[r] EXCEPT !.pc = p])
         \/ Goto(r, [frame[r] EXCEPT !.pc = p, !.want = w]),
         UNCHANGED <<rcvd, open, dropped, peerVars>>
  PROVE  Effect(r)
<1> DEFINE f == frame[r]
<1>1. f \in Frames
  BY DEF TypeOK
<1>2. ASSUME NEW g \in Frames, Goto(r, g),
             g.op = f.op, g.delimiter = f.delimiter,
             g.data = f.data, g.buf = f.buf, g.hitEOF = f.hitEOF
      PROVE  Effect(r)
  BY <1>2 DEF Effect, Keeps, Goto
<1>3. CASE Goto(r, [f EXCEPT !.pc = p])
  <2> DEFINE g == [f EXCEPT !.pc = p]
  <2>1. g \in Frames
    BY <1>1, FramePc
  <2>2. /\ g.op = f.op /\ g.delimiter = f.delimiter
        /\ g.data = f.data /\ g.buf = f.buf /\ g.hitEOF = f.hitEOF
    BY <1>1 DEF Frames
  <2> HIDE DEF g
  <2>3. Goto(r, g)
    BY <1>3 DEF g
  <2> QED  BY <1>2, <2>1, <2>2, <2>3
<1>4. CASE Goto(r, [f EXCEPT !.pc = p, !.want = w])
  <2> DEFINE g == [f EXCEPT !.pc = p, !.want = w]
  <2>1. g \in Frames
    BY <1>1, FrameWant
  <2>2. /\ g.op = f.op /\ g.delimiter = f.delimiter
        /\ g.data = f.data /\ g.buf = f.buf /\ g.hitEOF = f.hitEOF
    BY <1>1 DEF Frames
  <2> HIDE DEF g
  <2>3. Goto(r, g)
    BY <1>4 DEF g
  <2> QED  BY <1>2, <2>1, <2>2, <2>3
<1> QED  BY <1>3, <1>4

\* Every system call of a receive method is one of the seven effects.
LEMMA StepHasEffect ==
  ASSUME ConstantsAssumption, TypeOK, BufferFits, FramesShaped, NEW r \in Readers, Step(r)
  PROVE  Effect(r)
<1> DEFINE f == frame[r]
<1>1. {"recv", "ready", "poll"} \subseteq Pcs /\ 0 \in 0..UIntMax /\ 1 \in 0..UIntMax
  BY DEF Pcs, ConstantsAssumption
<1>2. ASSUME f.op \in {"delimiter", "all"}, Return(r, f.data),
             UNCHANGED <<rcvd, open, dropped, peerVars>>
      PROVE  Effect(r)
  BY <1>2 DEF Effect, ReturnsString
<1>3. CASE RecvData(r)
  BY <1>3, RecvDataHasEffect
<1>4. CASE RecvNothing(r)
  BY <1>4, EndingHasEffect DEF RecvNothing
<1>5. CASE ReadyForMore(r)
  BY <1>1, <1>5, EndingHasEffect, MovingKeeps DEF ReadyForMore
<1>6. CASE ReadyForCharacter(r)
  BY <1>1, <1>2, <1>6, MovingKeeps DEF ReadyForCharacter
<1>7. CASE ReadyForAll(r)
  BY <1>1, <1>2, <1>7, MovingKeeps DEF ReadyForAll
<1>8. CASE PollForAmount(r)
  <2> DEFINE amount == ToUnsigned(PollSocket)
  <2>1. amount \in 0..UIntMax
    BY PolledAmount
  <2>2. /\ Goto(r, [f EXCEPT !.pc = IF amount = 0 THEN "ready" ELSE "recv", !.want = amount])
        /\ UNCHANGED <<rcvd, open, dropped, peerVars>>
    BY <1>8 DEF PollForAmount
  <2> HIDE DEF amount
  <2> QED  BY <1>1, <2>1, <2>2, MovingKeeps
<1> QED  BY <1>3, <1>4, <1>5, <1>6, <1>7, <1>8 DEF Step
-----------------------------------------------------------------------------
(* The terminators.                                                        *)

\* A sequence and the next positions behind it.
LEMMA Extended ==
  ASSUME NEW q \in Seq(Nat), rcvd \in Nat, NEW k \in Nat
  PROVE  LET t == q \o NextBytes(k)
         IN  /\ t \in Seq(Nat)
             /\ Len(t) = Len(q) + k
             /\ DOMAIN t = 1..(Len(q) + k)
             /\ \A i \in 1..Len(q) : t[i] = q[i]
             /\ \A i \in (Len(q) + 1)..(Len(q) + k) : t[i] = rcvd + (i - Len(q))
<1> DEFINE b == NextBytes(k)
           t == q \o b
<1>1. b \in Seq(Nat) /\ Len(b) = k /\ \A i \in 1..k : b[i] = rcvd + i
  BY DEF NextBytes
<1> HIDE DEF b
<1>2. /\ t \in Seq(Nat)
      /\ Len(t) = Len(q) + k
      /\ \A i \in 1..(Len(q) + k) : t[i] = IF i <= Len(q) THEN q[i] ELSE b[i - Len(q)]
  BY <1>1, ConcatProperties
<1> HIDE DEF t
<1>3. DOMAIN t = 1..(Len(q) + k) /\ Len(q) \in Nat
  BY <1>2
<1>4. \A i \in 1..Len(q) : t[i] = q[i]
  BY <1>2, <1>3
<1>5. ASSUME NEW i \in (Len(q) + 1)..(Len(q) + k)  PROVE t[i] = rcvd + (i - Len(q))
  <2>1. i - Len(q) \in 1..k /\ i \in 1..(Len(q) + k) /\ ~(i <= Len(q))
    BY <1>3, <1>5
  <2>2. t[i] = b[i - Len(q)]
    BY <1>2, <2>1
  <2> QED  BY <1>1, <2>1, <2>2
<1> QED  BY <1>2, <1>3, <1>4, <1>5 DEF t, b

\* What a string holds has been sent, and is not its call's terminator.
Clean(f, s) ==
  \A i \in DOMAIN f.data : f.data[i] \in 1..Len(s) /\ s[f.data[i]] # Terminator(f)

StringsClean == \A r \in Readers : Clean(frame[r], sent)

LEMMA IdleClean == \A s : Clean(Idle, s)
<1>1. Idle.data = << >> /\ DOMAIN << >> = {}
  BY DEF Idle
<1> QED  BY <1>1 DEF Clean

\* Bytes only join the stream at its end.
LEMMA SentGrows ==
  ASSUME TypeOK, NEW message \in SeqOf(Bytes, MaxMessage), Send(message)
  PROVE  /\ Len(sent') >= Len(sent)
         /\ SubSeq(sent', 1, Len(sent)) = sent
         /\ \A p \in 1..Len(sent) : p \in 1..Len(sent') /\ sent'[p] = sent[p]
<1>1. message \in Seq(Bytes) /\ sent \in Seq(Bytes)
  BY DEF SeqOf, TypeOK
<1>2. CASE open
  <2>1. PICK k \in 0..Len(message) : sent' = sent \o SubSeq(message, 1, k)
    BY <1>2 DEF Send
  <2> DEFINE m == SubSeq(message, 1, k)
  <2>2. m \in Seq(Bytes)
    BY <1>1
  <2> HIDE DEF m
  <2>3. sent' = sent \o m
    BY <2>1 DEF m
  <2> QED  BY <1>1, <2>2, <2>3
<1>3. CASE sent' = sent
  BY <1>1, <1>3
<1> QED  BY <1>2, <1>3 DEF Send

\* None of the effects lets a terminator into a string.
LEMMA EffectClean ==
  ASSUME TypeOK, StringsClean, NEW r \in Readers, Effect(r)
  PROVE  StringsClean'
<1> DEFINE f == frame[r]
<1>1. f \in Frames /\ Clean(f, sent) /\ f.data \in Seq(Nat) /\ sent' = sent
  BY DEF TypeOK, StringsClean, Frames, Effect, peerVars
<1>2. ASSUME NEW g, Clean(g, sent), frame' = [frame EXCEPT ![r] = g]
      PROVE  StringsClean'
  BY <1>1, <1>2 DEF TypeOK, StringsClean
<1>3. ASSUME NEW string, Return(r, string)  PROVE StringsClean'
  BY <1>2, <1>3, IdleClean DEF Return
<1>4. CASE Keeps(r)
  <2>1. PICK g \in Frames : /\ frame' = [frame EXCEPT ![r] = g]
                            /\ g.op = f.op /\ g.delimiter = f.delimiter
                            /\ g.data = f.data
    BY <1>4 DEF Keeps
  <2>2. Clean(g, sent)
    BY <1>1, <2>1 DEF Clean, Terminator
  <2> QED  BY <1>2, <2>1, <2>2
<1>5. CASE \E k \in 1..Unread : Fills(r, k)
  <2>1. PICK k \in 1..Unread :
          frame' = [frame EXCEPT ![r] = [f EXCEPT !.pc = "more", !.buf = f.buf \o NextBytes(k)]]
    BY <1>5 DEF Fills
  <2>2. Clean([f EXCEPT !.pc = "more", !.buf = f.buf \o NextBytes(k)], sent)
    BY <1>1 DEF Clean, Terminator, Frames
  <2> QED  BY <1>2, <2>1, <2>2
<1>6. CASE MeetsNul(r)
  <2>1. Clean([f EXCEPT !.pc = "ready", !.buf = << >>, !.hitEOF = TRUE], sent)
    BY <1>1 DEF Clean, Terminator, Frames
  <2> QED  BY <1>2, <1>6, <2>1 DEF MeetsNul
<1>7. CASE Joins(r)
  <2> DEFINE d == f.data \o NextBytes(1)
             g == [f EXCEPT !.pc = "ready", !.buf = << >>, !.data = d]
  <2>1. rcvd \in Nat /\ rcvd + 1 \in 1..Len(sent) /\ sent[rcvd + 1] # Terminator(f)
    BY <1>7 DEF Joins, TypeOK, Unread
  <2>2. /\ DOMAIN d = 1..(Len(f.data) + 1) /\ Len(f.data) \in Nat
        /\ \A i \in 1..Len(f.data) : d[i] = f.data[i]
        /\ d[Len(f.data) + 1] = rcvd + 1
    <3> DEFINE n == Len(f.data)
    <3>1. n \in Nat /\ 1 \in Nat
      BY <1>1
    <3>2. /\ DOMAIN d = 1..(n + 1)
          /\ \A i \in 1..n : d[i] = f.data[i]
          /\ \A i \in (n + 1)..(n + 1) : d[i] = rcvd + (i - n)
      BY <1>1, <2>1, <3>1, Extended
    <3> HIDE DEF n, d
    <3>3. d[n + 1] = rcvd + 1
      BY <2>1, <3>1, <3>2
    <3> QED  BY <3>1, <3>2, <3>3 DEF n
  <2>3. frame' = [frame EXCEPT ![r] = g]
    BY <1>7 DEF Joins
  <2> HIDE DEF d
  <2>4. g.data = d /\ Terminator(g) = Terminator(f)
    BY <1>1 DEF Frames, Terminator
  <2> HIDE DEF g
  <2>5. ASSUME NEW i \in DOMAIN d  PROVE d[i] \in 1..Len(sent) /\ sent[d[i]] # Terminator(f)
    <3>1. CASE i \in 1..Len(f.data)
      <4>1. i \in DOMAIN f.data /\ d[i] = f.data[i]
        BY <1>1, <2>2, <3>1
      <4> QED  BY <1>1, <4>1 DEF Clean
    <3>2. CASE i = Len(f.data) + 1
      BY <2>1, <2>2, <3>2
    <3> QED  BY <2>2, <2>5, <3>1, <3>2
  <2>6. Clean(g, sent)
    BY <2>4, <2>5 DEF Clean
  <2> QED  BY <1>2, <2>3, <2>6
<1>8. CASE ReturnsString(r) \/ MeetsDelimiter(r) \/ \E k \in 0..Unread : HandsOver(r, k)
  BY <1>3, <1>8 DEF ReturnsString, MeetsDelimiter, HandsOver
<1> QED  BY <1>4, <1>5, <1>6, <1>7, <1>8 DEF Effect

\* A call starts with an empty string.
LEMMA CallClean ==
  ASSUME TypeOK, StringsClean, NEW r \in Readers, Call(r)
  PROVE  StringsClean'
<1>1. ASSUME NEW g, g.data = << >>, Start(r, g)  PROVE StringsClean'
  <2>1. Clean(g, sent)
    BY <1>1, DOMAIN << >> = {} DEF Clean
  <2> QED  BY <1>1, <2>1 DEF TypeOK, StringsClean, Start, peerVars
<1>2. ASSUME NEW n \in Amounts, NEW fl \in Flags, ReceiveAmount(r, n, fl)
      PROVE  StringsClean'
  BY <1>1, <1>2 DEF ReceiveAmount, Idle
<1>3. ASSUME NEW fl \in Flags, Get(r, fl)  PROVE StringsClean'
  BY <1>1, <1>3 DEF Get, Idle
<1>4. ASSUME NEW d \in Bytes, NEW fl \in Flags, ReceiveToDelimiter(r, d, fl)
      PROVE  StringsClean'
  BY <1>1, <1>4 DEF ReceiveToDelimiter, Idle
<1>5. ASSUME NEW fl \in Flags, ReceiveAll(r, fl)  PROVE StringsClean'
  BY <1>1, <1>5 DEF ReceiveAll, Idle
<1> QED  BY <1>2, <1>3, <1>4, <1>5 DEF Call

\* What the strings under construction hold has been sent and is never a
\* terminator; the bytes they name never change.
THEOREM StringsAlwaysClean == Spec => []StringsClean
<1>1. Init => StringsClean
  BY IdleClean DEF Init, StringsClean
<1>2. TypeOK /\ BufferFits /\ FramesShaped /\ StringsClean /\ [Next]_vars => StringsClean'
  <2> SUFFICES ASSUME TypeOK, BufferFits, FramesShaped, StringsClean, [Next]_vars
               PROVE  StringsClean'
    OBVIOUS
  <2>1. ASSUME frame' = frame, sent' = sent  PROVE StringsClean'
    BY <2>1 DEF StringsClean
  <2>2. CASE UNCHANGED vars
    BY <2>1, <2>2 DEF vars
  <2>3. ASSUME NEW message \in SeqOf(Bytes, MaxMessage), Send(message)
        PROVE  StringsClean'
    <3>1. frame' = frame
      BY <2>3 DEF Send
    <3>2. ASSUME NEW r \in Readers  PROVE Clean(frame[r], sent')
      BY <2>3, SentGrows DEF StringsClean, Clean
    <3> QED  BY <3>1, <3>2 DEF StringsClean
  <2>4. CASE PeerClose
    BY <2>1, <2>4 DEF PeerClose
  <2>5. ASSUME NEW r \in Readers, Close(r)  PROVE StringsClean'
    BY <2>1, <2>5 DEF Close
  <2>6. ASSUME NEW r \in Readers, Call(r)  PROVE StringsClean'
    BY <2>6, CallClean
  <2>7. ASSUME NEW r \in Readers, Step(r)  PROVE StringsClean'
    BY <2>7, StepHasEffect, EffectClean, ConstantsAssumption
  <2> QED  BY <2>2, <2>3, <2>4, <2>5, <2>6, <2>7 DEF Next
<1> QED  BY <1>1, <1>2, TypeCorrect, BufferAlwaysFits, FramesAlwaysShaped, PTL DEF Spec

\* receiveToDelimiter() never accumulates its delimiter, nor receiveAll() a
\* '\0', with any flags and whatever other readers take in between.
THEOREM NoTerminatorEverInside == Spec => []NoTerminatorInside
<1>1. StringsClean => NoTerminatorInside
  BY DEF StringsClean, Clean, Terminator, NoTerminatorInside
<1> QED  BY <1>1, StringsAlwaysClean, PTL
-----------------------------------------------------------------------------
(* The bytes each reader takes.                                            *)

\* A step of r takes the next m bytes for r, and drops the d after them.
Takes(r, m, d) ==
  /\ rcvd + m + d <= Len(sent)
  /\ rcvd' = Advanced(frame[r], m + d)
  /\ Taken(r)' = Taken(r) \o NextBytes(m)
  /\ \A s \in Readers \ {r} : Taken(s)' = Taken(s)
  /\ dropped' = dropped \cup (rcvd + m + 1)..(rcvd + m + d)

LEMMA TakenIsSequence ==
  ASSUME TypeOK, NEW r \in Readers
  PROVE  /\ delivered[r] \in Seq(Nat) /\ frame[r].data \in Seq(Nat) /\ frame[r].buf \in Seq(Nat)
         /\ Taken(r) \in Seq(Nat)
<1>1. delivered[r] \in Seq(Nat) /\ frame[r].data \in Seq(Nat) /\ frame[r].buf \in Seq(Nat)
  BY DEF TypeOK, Frames
<1> QED  BY <1>1 DEF Taken

LEMMA Associative ==
  ASSUME NEW a \in Seq(Nat), NEW b \in Seq(Nat), NEW c \in Seq(Nat)
  PROVE  a \o (b \o c) = (a \o b) \o c
  OBVIOUS

LEMMA EmptyIsNeutral == \A q \in Seq(Nat) : q \o << >> = q
  BY ConcatEmptySeq

LEMMA OthersTakeNothing ==
  ASSUME TypeOK, NEW r \in Readers, NEW g, NEW string,
         frame' = [frame EXCEPT ![r] = g],
         delivered' = delivered \/ delivered' = [delivered EXCEPT ![r] = string]
  PROVE  \A s \in Readers \ {r} : Taken(s)' = Taken(s)
  BY DEF TypeOK, Taken

LEMMA NextBytesIsSequence ==
  ASSUME TypeOK, NEW k \in Nat
  PROVE  NextBytes(k) \in Seq(Nat)
<1>1. rcvd \in Nat
  BY DEF TypeOK
<1> QED  BY <1>1 DEF NextBytes

\* Whatever a step does, it takes the next bytes.
LEMMA EffectTakes ==
  ASSUME TypeOK, FramesShaped, NEW r \in Readers, Effect(r)
  PROVE  \E m \in Nat, d \in 0..1 : Takes(r, m, d)
<1> DEFINE f == frame[r]
           a == delivered[r]
<1>1. /\ f \in Frames /\ Shape(f, open) /\ rcvd \in Nat /\ Len(sent) \in Nat
      /\ Unread \in Nat /\ rcvd + Unread = Len(sent)
  BY DEF TypeOK, FramesShaped, Unread
<1>2. a \in Seq(Nat) /\ f.data \in Seq(Nat) /\ f.buf \in Seq(Nat) /\ Taken(r) \in Seq(Nat)
  BY TakenIsSequence
<1>3. \A p \in Nat : p..(p - 1) = {}
  OBVIOUS
<1>4. /\ Taken(r) \o NextBytes(0) = Taken(r)
      /\ rcvd = Advanced(f, 0)
      /\ dropped = dropped \cup (rcvd + 0 + 1)..(rcvd + 0 + 0)
      /\ rcvd + 0 + 0 <= Len(sent)
  BY <1>1, <1>2, FewBytes DEF Advanced
<1>5. ASSUME rcvd' = rcvd, dropped' = dropped, Taken(r)' = Taken(r),
             \A s \in Readers \ {r} : Taken(s)' = Taken(s)
      PROVE  Takes(r, 0, 0)
  BY <1>4, <1>5 DEF Takes
<1>6. ASSUME Unread > 0, rcvd' = Advanced(f, 1), dropped' = dropped \cup {rcvd + 1},
             Taken(r)' = Taken(r), \A s \in Readers \ {r} : Taken(s)' = Taken(s)
      PROVE  Takes(r, 0, 1)
  <2>1. (rcvd + 0 + 1)..(rcvd + 0 + 1) = {rcvd + 1} /\ rcvd + 0 + 1 <= Len(sent) /\ 0 + 1 = 1
    BY <1>1, <1>6
  <2> QED  BY <1>4, <1>6, <2>1 DEF Takes
<1>7. ASSUME NEW k \in 0..Unread, rcvd' = Advanced(f, k), dropped' = dropped,
             Taken(r)' = Taken(r) \o NextBytes(k), \A s \in Readers \ {r} : Taken(s)' = Taken(s)
      PROVE  Takes(r, k, 0) /\ k \in Nat
  <2>1. (rcvd + k + 1)..(rcvd + k + 0) = {} /\ rcvd + k + 0 <= Len(sent) /\ k + 0 = k /\ k \in Nat
    BY <1>1
  <2> QED  BY <1>7, <2>1 DEF Takes
<1>8. CASE Keeps(r)
  <2>1. PICK g \in Frames : /\ frame' = [frame EXCEPT ![r] = g]
                            /\ g.data = f.data /\ g.buf = f.buf
    BY <1>8 DEF Keeps
  <2>2. UNCHANGED <<rcvd, delivered, dropped>>
    BY <1>8 DEF Keeps
  <2>3. Taken(r)' = Taken(r)
    BY <2>1, <2>2 DEF TypeOK, Taken
  <2>4. \A s \in Readers \ {r} : Taken(s)' = Taken(s)
    BY <2>1, <2>2, OthersTakeNothing
  <2> QED  BY <1>5, <2>2, <2>3, <2>4
<1>9. CASE \E k \in 1..Unread : Fills(r, k)
  <2>1. PICK k \in 1..Unread : Fills(r, k)
    BY <1>9
  <2>2. k \in 0..Unread /\ k \in Nat
    BY <1>1
  <2> DEFINE n == NextBytes(k)
             g == [f EXCEPT !.pc = "more", !.buf = f.buf \o n]
  <2>3. n \in Seq(Nat)
    BY <2>2, NextBytesIsSequence
  <2>4. frame' = [frame EXCEPT ![r] = g] /\ delivered' = delivered
    BY <2>1 DEF Fills
  <2>5. g.data = f.data /\ g.buf = f.buf \o n
    BY <1>1 DEF Frames
  <2> HIDE DEF n, g
  <2>6. frame'[r] = g
    BY <2>4 DEF TypeOK
  <2>7. Taken(r)' = a \o f.data \o (f.buf \o n)
    BY <2>4, <2>5, <2>6 DEF Taken
  <2>8. Taken(r)' = Taken(r) \o n
    <3>1. (a \o f.data) \o (f.buf \o n) = ((a \o f.data) \o f.buf) \o n
      <4>1. a \o f.data \in Seq(Nat)
        BY <1>2
      <4> QED  BY <1>2, <2>3, <4>1, Associative
    <3>2. Taken(r) = (a \o f.data) \o f.buf
      BY DEF Taken
    <3> QED  BY <2>7, <3>1, <3>2, Zenon
  <2>9. \A s \in Readers \ {r} : Taken(s)' = Taken(s)
    BY <2>4, OthersTakeNothing
  <2>10. rcvd' = Advanced(f, k) /\ dropped' = dropped
    BY <2>1 DEF Fills
  <2> QED  BY <1>7, <2>2, <2>8, <2>9, <2>10 DEF n
<1>10. ASSUME NEW string \in Seq(Nat), Return(r, string)
       PROVE  /\ Taken(r)' = (a \o string) \o << >> \o << >>
              /\ \A s \in Readers \ {r} : Taken(s)' = Taken(s)
  <2>1. frame' = [frame EXCEPT ![r] = Idle] /\ delivered' = [delivered EXCEPT ![r] = a \o string]
    BY <1>10 DEF Return
  <2>2. frame'[r].data = << >> /\ frame'[r].buf = << >> /\ delivered'[r] = a \o string
    BY <2>1 DEF TypeOK, Idle
  <2> QED  BY <2>1, <2>2, OthersTakeNothing DEF Taken
<1>11. CASE \E k \in 0..Unread : HandsOver(r, k)
  <2>1. PICK k \in 0..Unread : HandsOver(r, k)
    BY <1>11
  <2> DEFINE n == NextBytes(k)
  <2>2. n \in Seq(Nat)
    BY <1>1, NextBytesIsSequence
  <2>3. f.data = << >>
    BY <1>1, <2>1 DEF HandsOver, Shape
  <2>4. Return(r, f.buf \o n)
    BY <2>1 DEF HandsOver
  <2> HIDE DEF n
  <2> DEFINE string == f.buf \o n
  <2>5. string \in Seq(Nat)
    BY <1>2, <2>2
  <2> HIDE DEF string
  <2>6. Return(r, string)
    BY <2>4 DEF string
  <2>7. /\ Taken(r)' = (a \o string) \o << >> \o << >>
        /\ \A s \in Readers \ {r} : Taken(s)' = Taken(s)
    BY <1>10, <2>5, <2>6, Zenon
  <2>8. Taken(r)' = Taken(r) \o n
    <3>1. ((a \o (f.buf \o n)) \o << >>) \o << >> = ((a \o << >>) \o f.buf) \o n
      <4>1. a \o (f.buf \o n) = (a \o f.buf) \o n
        BY <1>2, <2>2, Associative
      <4>2. a \o (f.buf \o n) \in Seq(Nat)
        BY <1>2, <2>2
      <4> QED  BY <1>2, <4>1, <4>2, EmptyIsNeutral, Zenon
    <3>2. Taken(r) = (a \o << >>) \o f.buf
      BY <2>3 DEF Taken
    <3> QED  BY <2>7, <3>1, <3>2, Zenon DEF string
  <2>9. k \in 0..Unread /\ rcvd' = Advanced(f, k) /\ dropped' = dropped
    BY <2>1 DEF HandsOver
  <2>10. Takes(r, k, 0) /\ k \in Nat
    BY <1>7, <2>7, <2>8, <2>9 DEF n
  <2> QED  BY <2>10
<1>12. ASSUME f.op \in {"delimiter", "all"}, Return(r, f.data)
       PROVE  Taken(r)' = Taken(r) /\ \A s \in Readers \ {r} : Taken(s)' = Taken(s)
  <2>1. f.buf = << >>
    BY <1>1, <1>12 DEF Shape
  <2>2. Taken(r)' = (a \o f.data) \o << >> \o << >>
    BY <1>2, <1>10, <1>12
  <2>3. Taken(r)' = Taken(r)
    <3>1. a \o f.data \in Seq(Nat)
      BY <1>2
    <3>2. Taken(r) = (a \o f.data) \o << >>
      BY <2>1 DEF Taken
    <3> QED  BY <2>2, <3>1, <3>2, EmptyIsNeutral, Zenon
  <2> QED  BY <1>2, <1>10, <1>12, <2>3
<1>13. CASE ReturnsString(r)
  BY <1>5, <1>12, <1>13 DEF ReturnsString
<1>14. CASE MeetsDelimiter(r)
  BY <1>6, <1>12, <1>14 DEF MeetsDelimiter
<1>15. CASE MeetsNul(r)
  <2> DEFINE g == [f EXCEPT !.pc = "ready", !.buf = << >>, !.hitEOF = TRUE]
  <2>1. frame' = [frame EXCEPT ![r] = g] /\ delivered' = delivered
    BY <1>15 DEF MeetsNul
  <2>2. g.data = f.data /\ g.buf = << >> /\ f.buf = << >>
    BY <1>1, <1>15 DEF Frames, MeetsNul, Shape
  <2> HIDE DEF g
  <2>3. frame'[r] = g
    BY <2>1 DEF TypeOK
  <2>4. Taken(r)' = Taken(r)
    BY <2>1, <2>2, <2>3 DEF Taken
  <2>5. \A s \in Readers \ {r} : Taken(s)' = Taken(s)
    BY <2>1, OthersTakeNothing
  <2> QED  BY <1>6, <1>15, <2>4, <2>5 DEF MeetsNul
<1>16. CASE Joins(r)
  <2> DEFINE n == NextBytes(1)
             g == [f EXCEPT !.pc = "ready", !.buf = << >>, !.data = f.data \o n]
  <2>1. n \in Seq(Nat)
    BY NextBytesIsSequence
  <2>2. frame' = [frame EXCEPT ![r] = g] /\ delivered' = delivered
    BY <1>16 DEF Joins
  <2>3. f.buf = << >>
    BY <1>1, <1>16 DEF Joins, Shape
  <2>4. g.data = f.data \o n /\ g.buf = << >>
    BY <1>1 DEF Frames
  <2> HIDE DEF n, g
  <2>5. frame'[r] = g
    BY <2>2 DEF TypeOK
  <2>6. Taken(r)' = a \o (f.data \o n) \o << >>
    BY <2>2, <2>4, <2>5 DEF Taken
  <2>7. Taken(r)' = Taken(r) \o n
    <3>1. (a \o (f.data \o n)) \o << >> = ((a \o f.data) \o << >>) \o n
      <4>1. a \o (f.data \o n) = (a \o f.data) \o n
        BY <1>2, <2>1, Associative
      <4>2. a \o (f.data \o n) \in Seq(Nat) /\ a \o f.data \in Seq(Nat)
        BY <1>2, <2>1
      <4> QED  BY <4>1, <4>2, EmptyIsNeutral, Zenon
    <3>2. Taken(r) = (a \o f.data) \o << >>
      BY <2>3 DEF Taken
    <3> QED  BY <2>6, <3>1, <3>2, Zenon
  <2>8. \A s \in Readers \ {r} : Taken(s)' = Taken(s)
    BY <2>2, OthersTakeNothing
  <2>9. 1 \in 0..Unread
    BY <1>1, <1>16 DEF Joins
  <2> QED  BY <1>7, <1>16, <2>7, <2>8, <2>9 DEF Joins, n
<1> QED  BY <1>5, <1>8, <1>9, <1>11, <1>13, <1>14, <1>15, <1>16 DEF Effect
-----------------------------------------------------------------------------
(* Order, and each byte once, for readers that do not peek.                *)

\* MSG_PEEK leaves the bytes it returns to be returned again: what follows is
\* about callers that do not pass it.
NoPeek == "MSG_PEEK" \notin Flags

\* Without MSG_PEEK the bytes taken are gone from the stream.
LEMMA TakingAdvances ==
  ASSUME NoPeek, TypeOK, NEW r \in Readers, NEW n \in Nat
  PROVE  Advanced(frame[r], n) = rcvd + n
<1>1. frame[r].flags \in Flags \cup {"none"}
  BY DEF TypeOK, Frames
<1> QED  BY <1>1 DEF NoPeek, Advanced

\* The steps of everybody but a reader inside a call take nothing.
LEMMA QuietSteps ==
  ASSUME TypeOK, FramesShaped,
         \/ \E message \in SeqOf(Bytes, MaxMessage) : Send(message)
         \/ PeerClose
         \/ \E r \in Readers : Close(r) \/ Call(r)
         \/ UNCHANGED vars
  PROVE  /\ rcvd' = rcvd /\ dropped' = dropped /\ delivered' = delivered
         /\ \A s \in Readers : Taken(s)' = Taken(s)
<1>1. ASSUME frame' = frame, UNCHANGED <<rcvd, dropped, delivered>>
      PROVE  /\ rcvd' = rcvd /\ dropped' = dropped /\ delivered' = delivered
             /\ \A s \in Readers : Taken(s)' = Taken(s)
  BY <1>1 DEF Taken
<1>2. CASE \E message \in SeqOf(Bytes, MaxMessage) : Send(message)
  BY <1>1, <1>2 DEF Send
<1>3. CASE PeerClose
  BY <1>1, <1>3 DEF PeerClose
<1>4. CASE \E r \in Readers : Close(r)
  BY <1>1, <1>4 DEF Close
<1>5. CASE UNCHANGED vars
  BY <1>1, <1>5 DEF vars
<1>6. ASSUME NEW r \in Readers, Call(r)
      PROVE  /\ rcvd' = rcvd /\ dropped' = dropped /\ delivered' = delivered
             /\ \A s \in Readers : Taken(s)' = Taken(s)
  <2>1. ASSUME NEW g, g.data = << >>, g.buf = << >>, Start(r, g)
        PROVE  /\ rcvd' = rcvd /\ dropped' = dropped /\ delivered' = delivered
               /\ \A s \in Readers : Taken(s)' = Taken(s)
    <3>1. frame[r].data = << >> /\ frame[r].buf = << >>
      BY <2>1 DEF Start, FramesShaped, Shape
    <3>2. frame' = [frame EXCEPT ![r] = g] /\ UNCHANGED <<rcvd, delivered, dropped>>
      BY <2>1 DEF Start
    <3>3. ASSUME NEW s \in Readers  PROVE Taken(s)' = Taken(s)
      BY <2>1, <3>1, <3>2 DEF TypeOK, Taken
    <3> QED  BY <3>2, <3>3
  <2>2. ASSUME NEW n \in Amounts, NEW fl \in Flags, ReceiveAmount(r, n, fl)
        PROVE  \E g : g.data = << >> /\ g.buf = << >> /\ Start(r, g)
    BY <2>2 DEF ReceiveAmount, Idle
  <2>3. ASSUME NEW fl \in Flags, Get(r, fl)
        PROVE  \E g : g.data = << >> /\ g.buf = << >> /\ Start(r, g)
    BY <2>3 DEF Get, Idle
  <2>4. ASSUME NEW d \in Bytes, NEW fl \in Flags, ReceiveToDelimiter(r, d, fl)
        PROVE  \E g : g.data = << >> /\ g.buf = << >> /\ Start(r, g)
    BY <2>4 DEF ReceiveToDelimiter, Idle
  <2>5. ASSUME NEW fl \in Flags, ReceiveAll(r, fl)
        PROVE  \E g : g.data = << >> /\ g.buf = << >> /\ Start(r, g)
    BY <2>5 DEF ReceiveAll, Idle
  <2>6. PICK g : g.data = << >> /\ g.buf = << >> /\ Start(r, g)
    BY <1>6, <2>2, <2>3, <2>4, <2>5 DEF Call
  <2> QED  BY <2>1, <2>6
<1> QED  BY <1>2, <1>3, <1>4, <1>5, <1>6

\* What a step of any kind does to what the readers have, all in one.
LEMMA NextTakes ==
  ASSUME ConstantsAssumption, NoPeek, TypeOK, BufferFits, FramesShaped, [Next]_vars
  PROVE  \/ /\ rcvd' = rcvd /\ dropped' = dropped
            /\ \A s \in Readers : Taken(s)' = Taken(s)
         \/ \E r \in Readers, m \in Nat, d \in 0..1 :
              /\ rcvd' = rcvd + m + d
              /\ Taken(r)' = Taken(r) \o NextBytes(m)
              /\ \A s \in Readers \ {r} : Taken(s)' = Taken(s)
              /\ dropped' = dropped \cup (rcvd + m + 1)..(rcvd + m + d)
<1>1. CASE \E r \in Readers : Step(r)
  <2>1. PICK r \in Readers : Step(r)
    BY <1>1
  <2>2. Effect(r)
    BY <2>1, StepHasEffect
  <2>3. PICK m \in Nat, d \in 0..1 : Takes(r, m, d)
    BY <2>2, EffectTakes
  <2>4. m + d \in Nat /\ rcvd + (m + d) = rcvd + m + d
    BY DEF TypeOK
  <2>5. rcvd' = rcvd + m + d
    BY <2>3, <2>4, TakingAdvances DEF Takes
  <2> QED  BY <2>3, <2>5 DEF Takes
<1>2. CASE \/ \E message \in SeqOf(Bytes, MaxMessage) : Send(message)
           \/ PeerClose
           \/ \E r \in Readers : Close(r) \/ Call(r)
           \/ UNCHANGED vars
  BY <1>2, QuietSteps
<1> QED  BY <1>1, <1>2 DEF Next

\* Increasing, and not beyond n: the positions a reader can have.
Ascending(q, n) ==
  \A i \in DOMAIN q :
    /\ q[i] \in 1..n
    /\ \A j \in DOMAIN q : i < j => q[i] < q[j]

TakenAscending == \A r \in Readers : Ascending(Taken(r), rcvd)

LEMMA ExtendedAscending ==
  ASSUME NEW q \in Seq(Nat), rcvd \in Nat, NEW m \in Nat, NEW n \in Nat, n >= rcvd + m,
         Ascending(q, rcvd)
  PROVE  Ascending(q \o NextBytes(m), n)
<1> DEFINE t == q \o NextBytes(m)
           l == Len(q)
<1>1. l \in Nat /\ DOMAIN q = 1..l
  OBVIOUS
<1>2. /\ DOMAIN t = 1..(l + m)
      /\ \A i \in 1..l : t[i] = q[i]
      /\ \A i \in (l + 1)..(l + m) : t[i] = rcvd + (i - l)
  BY Extended
<1> HIDE DEF t, l
<1>3. \A i \in 1..l : t[i] \in 1..rcvd
  BY <1>1, <1>2 DEF Ascending
<1>4. ASSUME NEW i \in 1..(l + m)  PROVE t[i] \in 1..n
  <2>1. CASE i \in 1..l
    BY <1>3, <2>1
  <2>2. CASE i \in (l + 1)..(l + m)
    <3>1. t[i] = rcvd + (i - l)
      BY <1>2, <2>2
    <3> QED  BY <1>1, <2>2, <3>1
  <2> QED  BY <1>1, <2>1, <2>2
<1>5. ASSUME NEW i \in 1..(l + m), NEW j \in 1..(l + m), i < j  PROVE t[i] < t[j]
  <2>1. CASE j \in 1..l
    <3>1. i \in 1..l
      BY <1>1, <1>5, <2>1
    <3> QED  BY <1>1, <1>2, <1>5, <2>1, <3>1 DEF Ascending
  <2>2. CASE j \in (l + 1)..(l + m) /\ i \in 1..l
    <3>1. t[j] = rcvd + (j - l) /\ t[i] \in 1..rcvd
      BY <1>2, <1>3, <2>2
    <3> QED  BY <1>1, <2>2, <3>1
  <2>3. CASE j \in (l + 1)..(l + m) /\ i \in (l + 1)..(l + m)
    <3>1. t[j] = rcvd + (j - l) /\ t[i] = rcvd + (i - l)
      BY <1>2, <2>3
    <3> QED  BY <1>1, <1>5, <2>3, <3>1
  <2> QED  BY <1>1, <1>5, <2>1, <2>2, <2>3
<1>6. Ascending(t, n)
  BY <1>2, <1>4, <1>5 DEF Ascending
<1> QED  BY <1>6 DEF t

LEMMA AscendingHigher ==
  ASSUME NEW q, NEW m \in Nat, NEW n \in Nat, m <= n, Ascending(q, m)
  PROVE  Ascending(q, n)
  BY DEF Ascending

\* A step of one reader leaves what every reader took in order.
LEMMA TakenAscendingStep ==
  ASSUME ConstantsAssumption, NoPeek, TypeOK, BufferFits, FramesShaped, TakenAscending,
         [Next]_vars
  PROVE  TakenAscending'
<1>1. rcvd \in Nat
  BY DEF TypeOK
<1>2. CASE rcvd' = rcvd /\ \A s \in Readers : Taken(s)' = Taken(s)
  BY <1>2 DEF TakenAscending
<1>3. ASSUME NEW r \in Readers, NEW m \in Nat, NEW d \in 0..1,
             rcvd' = rcvd + m + d,
             Taken(r)' = Taken(r) \o NextBytes(m),
             \A s \in Readers \ {r} : Taken(s)' = Taken(s)
      PROVE  TakenAscending'
  <2>1. rcvd' \in Nat /\ rcvd' >= rcvd + m /\ rcvd <= rcvd'
    BY <1>1, <1>3
  <2>2. Taken(r) \in Seq(Nat) /\ Ascending(Taken(r), rcvd)
    BY TakenIsSequence DEF TakenAscending
  <2>3. Ascending(Taken(r) \o NextBytes(m), rcvd')
    BY <1>1, <2>1, <2>2, ExtendedAscending
  <2>4. ASSUME NEW s \in Readers \ {r}  PROVE Ascending(Taken(s), rcvd')
    BY <1>1, <2>1, AscendingHigher DEF TakenAscending
  <2>5. ASSUME NEW s \in Readers  PROVE Ascending(Taken(s)', rcvd')
    BY <1>3, <2>3, <2>4
  <2> QED  BY <2>5 DEF TakenAscending
<1> QED  BY <1>2, <1>3, NextTakes

LEMMA NothingTaken ==
  ASSUME Init, NEW r \in Readers
  PROVE  Taken(r) = << >>
<1>1. delivered[r] = << >> /\ frame[r] = Idle
  BY DEF Init
<1>2. frame[r].data = << >> /\ frame[r].buf = << >>
  BY <1>1 DEF Idle
<1>3. << >> \o << >> = << >>
  BY EmptyIsSequence, EmptyIsNeutral
<1> QED  BY <1>1, <1>2, <1>3 DEF Taken

\* What each reader has is increasing and within what recv() has taken.
THEOREM TakenAlwaysAscending == NoPeek => (Spec => []TakenAscending)
<1> SUFFICES ASSUME NoPeek  PROVE Spec => []TakenAscending
  OBVIOUS
<1>1. Init => TakenAscending
  BY NothingTaken, DOMAIN << >> = {} DEF TakenAscending, Ascending
<1>2. TypeOK /\ BufferFits /\ FramesShaped /\ TakenAscending /\ [Next]_vars => TakenAscending'
  BY TakenAscendingStep, ConstantsAssumption
<1> QED
  BY <1>1, <1>2, TypeCorrect, BufferAlwaysFits, FramesAlwaysShaped, PTL DEF Spec

\* Every reader gets its bytes in the order they were sent and none twice,
\* whatever methods it calls and however many readers share the stream.
THEOREM AlwaysInOrder == NoPeek => (Spec => []InOrder)
<1>1. TakenAscending => InOrder
  BY DEF TakenAscending, Ascending, InOrder
<1> QED  BY <1>1, TakenAlwaysAscending, PTL

LEMMA ToSetExtended ==
  ASSUME NEW q \in Seq(Nat), rcvd \in Nat, NEW m \in Nat
  PROVE  ToSet(q \o NextBytes(m)) = ToSet(q) \cup (rcvd + 1)..(rcvd + m)
<1> DEFINE t == q \o NextBytes(m)
           l == Len(q)
<1>1. l \in Nat /\ DOMAIN q = 1..l
  OBVIOUS
<1>2. /\ DOMAIN t = 1..(l + m)
      /\ \A i \in 1..l : t[i] = q[i]
      /\ \A i \in (l + 1)..(l + m) : t[i] = rcvd + (i - l)
  BY Extended
<1> HIDE DEF t, l
<1>3. ASSUME NEW p \in ToSet(t)  PROVE p \in ToSet(q) \cup (rcvd + 1)..(rcvd + m)
  <2>1. PICK i \in 1..(l + m) : p = t[i]
    BY <1>2 DEF ToSet
  <2>2. CASE i \in 1..l
    BY <1>1, <1>2, <2>1, <2>2 DEF ToSet
  <2>3. CASE i \in (l + 1)..(l + m)
    <3>1. p = rcvd + (i - l)
      BY <1>2, <2>1, <2>3
    <3> QED  BY <1>1, <2>3, <3>1
  <2> QED  BY <1>1, <2>1, <2>2, <2>3
<1>4. ASSUME NEW p \in ToSet(q)  PROVE p \in ToSet(t)
  <2>1. PICK i \in 1..l : p = q[i]
    BY <1>1 DEF ToSet
  <2>2. i \in 1..(l + m) /\ p = t[i]
    BY <1>1, <1>2, <2>1
  <2> QED  BY <1>2, <2>2 DEF ToSet
<1>5. ASSUME NEW p \in (rcvd + 1)..(rcvd + m)  PROVE p \in ToSet(t)
  <2>1. l + (p - rcvd) \in (l + 1)..(l + m) /\ l + (p - rcvd) \in 1..(l + m)
    BY <1>1
  <2>2. t[l + (p - rcvd)] = p
    BY <1>1, <1>2, <2>1
  <2> QED  BY <1>2, <2>1, <2>2 DEF ToSet
<1>6. ToSet(t) = ToSet(q) \cup (rcvd + 1)..(rcvd + m)
  BY <1>3, <1>4, <1>5
<1> QED  BY <1>6 DEF t

\* What the readers have and what is dropped, next to the new bytes.
LEMMA ExactlyOnceStep ==
  ASSUME ConstantsAssumption, NoPeek, TypeOK, BufferFits, FramesShaped, ExactlyOnce,
         [Next]_vars
  PROVE  ExactlyOnce'
<1>1. rcvd \in Nat
  BY DEF TypeOK
<1>2. CASE rcvd' = rcvd /\ dropped' = dropped /\ \A s \in Readers : Taken(s)' = Taken(s)
  BY <1>2 DEF ExactlyOnce
<1>3. ASSUME NEW r \in Readers, NEW m \in Nat, NEW d \in 0..1,
             rcvd' = rcvd + m + d,
             Taken(r)' = Taken(r) \o NextBytes(m),
             \A s \in Readers \ {r} : Taken(s)' = Taken(s),
             dropped' = dropped \cup (rcvd + m + 1)..(rcvd + m + d)
      PROVE  ExactlyOnce'
  <2> DEFINE T(s) == ToSet(Taken(s))
             U(s) == ToSet(Taken(s)')
             new == (rcvd + 1)..(rcvd + m)
             skipped == (rcvd + m + 1)..(rcvd + m + d)
  <2>1. U(r) = T(r) \cup new
    <3>1. ToSet(Taken(r) \o NextBytes(m)) = ToSet(Taken(r)) \cup new
      BY <1>1, TakenIsSequence, ToSetExtended
    <3> QED  BY <1>3, <3>1, Zenon
  <2>2. \A s \in Readers \ {r} : U(s) = T(s)
    BY <1>3
  <2>3. /\ 1..rcvd = dropped \cup UNION {T(s) : s \in Readers}
        /\ \A s \in Readers : dropped \cap T(s) = {}
        /\ \A s, t \in Readers : s # t => T(s) \cap T(t) = {}
    BY DEF ExactlyOnce
  <2>4. /\ 1..(rcvd + m + d) = 1..rcvd \cup new \cup skipped
        /\ 1..rcvd \cap new = {}
        /\ 1..rcvd \cap skipped = {}
        /\ new \cap skipped = {}
    BY <1>1
  <2>5. dropped' = dropped \cup skipped
    BY <1>3
  <2> HIDE DEF T, U, new, skipped
  <2>6. dropped \subseteq 1..rcvd /\ \A s \in Readers : T(s) \subseteq 1..rcvd
    BY <2>3
  <2> DEFINE before == UNION {T(s) : s \in Readers}
             after == UNION {U(s) : s \in Readers}
  <2>7. after = before \cup new
    <3>1. \A s \in Readers : T(s) \subseteq U(s) /\ U(s) \subseteq T(s) \cup new
      BY <2>1, <2>2
    <3>2. new \subseteq U(r)
      BY <2>1
    <3>3. ASSUME NEW p \in after  PROVE p \in before \cup new
      <4>1. PICK s \in Readers : p \in U(s)
        OBVIOUS
      <4> QED  BY <3>1, <4>1
    <3>4. ASSUME NEW p \in before  PROVE p \in after
      <4>1. PICK s \in Readers : p \in T(s)
        OBVIOUS
      <4> QED  BY <3>1, <4>1
    <3>5. new \subseteq after
      BY <3>2
    <3> HIDE DEF before, after
    <3> QED  BY <3>3, <3>4, <3>5
  <2>8. 1..rcvd' = dropped' \cup after
    <3>1. 1..rcvd' = 1..rcvd \cup new \cup skipped
      BY <1>3, <2>4, Zenon
    <3>2. 1..rcvd = dropped \cup before
      BY <2>3
    <3> HIDE DEF before, after
    <3> QED  BY <2>5, <2>7, <3>1, <3>2
  <2>9. ASSUME NEW s \in Readers  PROVE dropped' \cap U(s) = {}
    <3>1. dropped \cap T(s) = {} /\ T(s) \subseteq 1..rcvd
      BY <2>3, <2>6
    <3>2. U(s) \subseteq T(s) \cup new
      BY <2>1, <2>2
    <3> QED  BY <2>4, <2>5, <2>6, <3>1, <3>2
  <2>10. ASSUME NEW s \in Readers, NEW t \in Readers, s # t  PROVE U(s) \cap U(t) = {}
    <3>1. T(s) \cap T(t) = {} /\ T(s) \subseteq 1..rcvd /\ T(t) \subseteq 1..rcvd
      BY <2>3, <2>6, <2>10
    <3>2. CASE s = r
      BY <2>1, <2>2, <2>4, <2>10, <3>1, <3>2
    <3>3. CASE t = r
      BY <2>1, <2>2, <2>4, <2>10, <3>1, <3>3
    <3>4. CASE s # r /\ t # r
      BY <2>2, <3>1, <3>4
    <3> QED  BY <3>2, <3>3, <3>4
  <2> USE DEF T, U
  <2> QED  BY <2>8, <2>9, <2>10 DEF ExactlyOnce, ToSet
<1> QED  BY <1>2, <1>3, NextTakes

\* Each byte recv() takes off the stream is with exactly one reader, or is a
\* terminator that a call swallowed, however many readers' calls interleave.
THEOREM AlwaysExactlyOnce == NoPeek => (Spec => []ExactlyOnce)
<1> SUFFICES ASSUME NoPeek  PROVE Spec => []ExactlyOnce
  OBVIOUS
<1>1. Init => ExactlyOnce
  <2> SUFFICES ASSUME Init  PROVE ExactlyOnce
    OBVIOUS
  <2>1. \A r \in Readers : ToSet(Taken(r)) = {}
    BY NothingTaken DEF ToSet
  <2>2. 1..rcvd = {} /\ dropped = {}
    BY DEF Init
  <2> QED  BY <2>1, <2>2 DEF ExactlyOnce
<1>2. TypeOK /\ BufferFits /\ FramesShaped /\ ExactlyOnce /\ [Next]_vars => ExactlyOnce'
  BY ExactlyOnceStep, ConstantsAssumption
<1> QED
  BY <1>1, <1>2, TypeCorrect, BufferAlwaysFits, FramesAlwaysShaped, PTL DEF Spec
-----------------------------------------------------------------------------
(* Early returns.                                                          *)

\* When ready() is false there is nothing to read, or nowhere to read it.
LEMMA NotReadyDrained ==
  ASSUME TypeOK, ~Ready
  PROVE  ~open \/ Unread = 0
<1>1. Unread \in Nat
  BY DEF TypeOK, Unread
<1> QED  BY <1>1 DEF Ready, PollSocket, Readable

\* A call that comes back short has found the stream drained.
LEMMA EarlyStep ==
  ASSUME ConstantsAssumption, NoPeek, TypeOK, BufferFits, FramesShaped, ExactlyOnce,
         NEW r \in Readers, Step(r), ReturnsEarly(r)
  PROVE  ~open \/ Unread' = 0
<1> DEFINE f == frame[r]
<1>1. f \in Frames /\ Shape(f, open) /\ f.buf \in Seq(Nat) /\ f.want \in Nat /\ rcvd \in Nat
  BY DEF TypeOK, Frames, FramesShaped, ConstantsAssumption
<1>2. ASSUME NEW g, Goto(r, g), g.op = f.op  PROVE FALSE
  BY <1>2 DEF TypeOK, Goto, ReturnsEarly, Returns
<1>3. /\ [f EXCEPT !.pc = "recv"].op = f.op
      /\ [f EXCEPT !.pc = "poll"].op = f.op
      /\ [f EXCEPT !.pc = "recv", !.want = 1].op = f.op
  BY <1>1 DEF Frames
<1>4. ASSUME UNCHANGED <<sent, rcvd>>, ~open \/ Unread = 0  PROVE ~open \/ Unread' = 0
  BY <1>4 DEF Unread
<1>5. CASE RecvData(r)
  <2>1. PICK k \in 1..Unread :
          /\ k <= Requested(f)
          /\ \/ Goto(r, [f EXCEPT !.pc = "more", !.buf = f.buf \o NextBytes(k)])
             \/ /\ Len(f.buf \o NextBytes(k)) >= f.want
                /\ ReceiveAmountReturns(r, f.buf \o NextBytes(k))
    BY <1>5 DEF RecvData, NextBytes
  <2>2. Unread \in Nat /\ k \in Nat /\ k >= 1
    BY <1>1, <2>1 DEF TypeOK, Unread
  <2> DEFINE chunk == f.buf \o NextBytes(k)
  <2>3. chunk \in Seq(Nat)
    BY <1>1, <2>2, Extended
  <2>4. Len(chunk) >= f.want /\ ReceiveAmountReturns(r, chunk)
    <3>1. [f EXCEPT !.pc = "more", !.buf = f.buf \o NextBytes(k)].op = f.op
      BY <1>1 DEF Frames
    <3> QED  BY <1>2, <2>1, <3>1
  <2>5. CASE f.op \in {"amount", "get"}
    <3> HIDE DEF chunk
    <3>1. delivered' = [delivered EXCEPT ![r] = @ \o chunk]
      BY <2>4, <2>5 DEF ReceiveAmountReturns, Return
    <3>2. delivered[r] \in Seq(Nat) /\ delivered'[r] = delivered[r] \o chunk
      BY <3>1 DEF TypeOK
    <3>3. Len(delivered'[r]) = Len(delivered[r]) + Len(chunk) /\ Len(delivered[r]) \in Nat
      BY <2>3, <3>2
    <3>4. ~(Len(delivered'[r]) - Len(delivered[r]) < f.want)
      BY <1>1, <2>3, <2>4, <3>3
    <3> QED  BY <2>5, <3>4 DEF ReturnsEarly
  <2>6. CASE f.op \notin {"amount", "get"}
    <3>1. f.pc = "recv" /\ open
      BY <1>5 DEF RecvData
    <3>2. f.op \in {"delimiter", "all"} /\ f.want = 1 /\ f.buf = << >>
      BY <2>6, <3>1, OneByteAtATime
    <3>3. k = 1
      BY <2>1, <2>2, <3>2 DEF Requested
    <3>4. chunk = NextBytes(1)
      BY <1>1, <3>2, <3>3, FewBytes
    <3> HIDE DEF chunk
    <3>5. f.op = "delimiter" /\ StartsWith(chunk, f.delimiter)
      <4>1. ASSUME f.op = "all"  PROVE FALSE
        <5>1. [f EXCEPT !.pc = "ready", !.buf = << >>, !.hitEOF = TRUE].op = f.op
          BY <1>1 DEF Frames
        <5>2. Accumulate(f, chunk).op = f.op
          BY <1>1 DEF Frames, Accumulate
        <5> QED  BY <1>2, <2>4, <4>1, <5>1, <5>2 DEF ReceiveAmountReturns
      <4>2. ASSUME ~StartsWith(chunk, f.delimiter), f.op = "delimiter"  PROVE FALSE
        <5>1. Accumulate(f, chunk).op = f.op
          BY <1>1 DEF Frames, Accumulate
        <5>2. chunk # << >>
          BY <1>1, <3>4, FewBytes
        <5> QED  BY <1>2, <2>4, <4>2, <5>1, <5>2 DEF ReceiveAmountReturns
      <4> QED  BY <3>2, <4>1, <4>2
    <3>6. dropped' = dropped \cup ToSet(chunk)
      BY <2>4, <3>5 DEF ReceiveAmountReturns, StartsWith
    <3>7. rcvd + 1 \in dropped'
      BY <1>1, <3>4, <3>6, FewBytes
    <3>8. rcvd + 1 \notin dropped
      <4>1. dropped \subseteq 1..rcvd
        BY DEF ExactlyOnce
      <4> QED  BY <1>1, <4>1
    <3> QED  BY <3>5, <3>7, <3>8 DEF ReturnsEarly
  <2> QED  BY <2>5, <2>6
<1>6. CASE RecvNothing(r)
  BY <1>4, <1>6 DEF RecvNothing, RecvGivesNothing, peerVars
<1>7. CASE ReadyForMore(r)
  BY <1>2, <1>3, <1>4, <1>7, NotReadyDrained DEF ReadyForMore, peerVars
<1>8. CASE ReadyForCharacter(r)
  BY <1>2, <1>3, <1>4, <1>8, NotReadyDrained DEF ReadyForCharacter, peerVars
<1>9. CASE ReadyForAll(r)
  <2>1. ~f.hitEOF
    BY <1>9 DEF ReadyForAll, ReturnsEarly
  <2> QED  BY <1>2, <1>3, <1>4, <1>9, <2>1, NotReadyDrained DEF ReadyForAll, peerVars
<1>10. CASE PollForAmount(r)
  <2> DEFINE amount == ToUnsigned(PollSocket)
             g == [f EXCEPT !.pc = IF amount = 0 THEN "ready" ELSE "recv", !.want = amount]
  <2>1. Goto(r, g)
    BY <1>10 DEF PollForAmount
  <2> HIDE DEF amount
  <2>2. g.op = f.op
    BY <1>1 DEF Frames
  <2> QED  BY <1>2, <2>1, <2>2
<1> QED  BY <1>5, <1>6, <1>7, <1>8, <1>9, <1>10 DEF Step

\* Only a system call of its own makes a call return.
LEMMA OnlyItsStepReturns ==
  ASSUME TypeOK, [Next]_vars, NEW r \in Readers, Returns(r)
  PROVE  Step(r)
<1>1. frame'[r] # frame[r]
  BY DEF Returns
<1>2. CASE Call(r) \/ Close(r)
  BY <1>2 DEF Returns, Call, ReceiveAmount, Get, ReceiveToDelimiter, ReceiveAll, Start, Close
<1>3. CASE \E s \in Readers : s # r /\ (Call(s) \/ Step(s) \/ Close(s))
  BY <1>1, <1>3, OtherFrames
<1>4. CASE PeerClose \/ UNCHANGED vars
  BY <1>1, <1>4 DEF PeerClose, vars
<1>5. CASE \E message \in SeqOf(Bytes, MaxMessage) : Send(message)
  BY <1>1, <1>5 DEF Send
<1> QED  BY <1>2, <1>3, <1>4, <1>5 DEF Next

\* A receive call that ends short of what was asked leaves no byte unread,
\* unless the socket was closed: the doc's "will return early if there is no
\* more data", and only then.
THEOREM ReturnsEarlyOnlyWhenDrainedHolds == NoPeek => (Spec => ReturnsEarlyOnlyWhenDrained)
<1> SUFFICES ASSUME NoPeek  PROVE Spec => ReturnsEarlyOnlyWhenDrained
  OBVIOUS
<1>1. TypeOK /\ BufferFits /\ FramesShaped /\ ExactlyOnce /\ [Next]_vars =>
        [\A r \in Readers : ReturnsEarly(r) => ~open \/ Unread' = 0]_vars
  BY OnlyItsStepReturns, EarlyStep, ConstantsAssumption DEF ReturnsEarly
<1>2. Spec => []ExactlyOnce
  BY AlwaysExactlyOnce
<1> QED
  BY <1>1, <1>2, TypeCorrect, BufferAlwaysFits, FramesAlwaysShaped, PTL
     DEF Spec, ReturnsEarlyOnlyWhenDrained
-----------------------------------------------------------------------------
(* One reader: the promise of ByteStream.                                  *)

OneReader == \E r : Readers = {r}

\* Reader is the one reader there is.
LEMMA ReaderIsAlone == OneReader => Readers = {Reader}
  BY DEF OneReader, Reader

\* The call in progress holds, in order, the bytes that follow the settled
\* ones; nothing behind those is dropped but the '\0' that ends receiveAll().
Contiguous ==
  LET f == frame[Reader]
  IN  /\ Settled \in Nat
      /\ \A i \in 1..Len(f.data) : f.data[i] = Settled + i
      /\ \A i \in 1..Len(f.buf) : f.buf[i] = Settled + Len(f.data) + i
      /\ \A p \in dropped : p <= Settled \/ (f.hitEOF /\ p = rcvd)
      /\ f.hitEOF => rcvd \in dropped

\* How much of the stream the settled bytes and the current call account for.
LEMMA Accounted ==
  ASSUME TypeOK, Reader \in Readers
  PROVE  LET f == frame[Reader]
         IN  /\ f.data \in Seq(Nat) /\ f.buf \in Seq(Nat) /\ Len(f.data) \in Nat
             /\ Len(f.buf) \in Nat /\ rcvd \in Nat /\ delivered[Reader] \in Seq(Nat)
             /\ Settled \in Int
             /\ f.hitEOF => rcvd = Settled + Len(f.data) + Len(f.buf) + 1
             /\ ~f.hitEOF => rcvd = Settled + Len(f.data) + Len(f.buf)
<1> DEFINE f == frame[Reader]
<1>1. /\ f.data \in Seq(Nat) /\ f.buf \in Seq(Nat) /\ Len(f.data) \in Nat /\ Len(f.buf) \in Nat
      /\ rcvd \in Nat /\ delivered[Reader] \in Seq(Nat)
  BY DEF TypeOK, Frames
<1>2. Settled = rcvd - Len(f.data) - Len(f.buf) - (IF f.hitEOF THEN 1 ELSE 0)
  BY DEF Settled
<1> QED  BY <1>1, <1>2

\* A step that leaves the reader's bytes, and what is dropped, alone.
LEMMA SameBytes ==
  ASSUME Contiguous, UNCHANGED <<rcvd, delivered, dropped>>,
         frame'[Reader].data = frame[Reader].data, frame'[Reader].buf = frame[Reader].buf,
         frame'[Reader].hitEOF = frame[Reader].hitEOF
  PROVE  /\ Contiguous'
         /\ Settled' = Settled
         /\ {p \in dropped : p <= Settled}' = {p \in dropped : p <= Settled}
         /\ delivered[Reader]' = delivered[Reader]
<1>1. Settled' = Settled
  BY DEF Settled
<1> QED  BY <1>1 DEF Contiguous

\* To ByteStream such a step is a stutter.
LEMMA SameStream ==
  ASSUME Contiguous, UNCHANGED <<sent, rcvd, delivered, dropped>>,
         frame'[Reader].data = frame[Reader].data, frame'[Reader].buf = frame[Reader].buf,
         frame'[Reader].hitEOF = frame[Reader].hitEOF
  PROVE  Contiguous' /\ UNCHANGED Stream!vars
  BY SameBytes DEF Stream!vars

\* A call that returns the bytes from the settled ones on hands them over.
LEMMA ReturnStreams ==
  ASSUME TypeOK, Reader \in Readers, Contiguous, NEW s \in Nat, s = Settled,
         NEW string \in Seq(Nat), NEW k \in Nat, k = Len(string),
         NEW d \in 0..1, Return(Reader, string),
         \A i \in 1..k : string[i] = s + i,
         rcvd' = s + k + d, rcvd' <= Len(sent), sent' = sent,
         \A p : p \in dropped' <=> \/ p \in dropped /\ p <= s
                                   \/ p \in (s + k + 1)..(s + k + d)
  PROVE  Contiguous' /\ [Stream!Next]_(Stream!vars)
<1>1. Len(sent) \in Nat /\ dropped \in SUBSET Nat
  BY DEF Contiguous, TypeOK
<1>2. /\ frame'[Reader].data = << >> /\ frame'[Reader].buf = << >> /\ ~frame'[Reader].hitEOF
      /\ delivered'[Reader] = delivered[Reader] \o string
  BY DEF TypeOK, Return, Idle
<1>3. Len(<< >>) = 0
  OBVIOUS
<1>4. Settled' = rcvd'
  <2>1. rcvd' \in Nat
    BY <1>1
  <2> QED  BY <1>2, <1>3, <2>1 DEF Settled
<1>5. string = [i \in 1..k |-> s + i]
  OBVIOUS
<1>6. ASSUME NEW p \in dropped'  PROVE p \in Nat /\ p <= rcvd'
  <2>1. CASE p \in dropped /\ p <= s
    BY <1>1, <2>1
  <2>2. CASE p \in (s + k + 1)..(s + k + d)
    BY <1>1, <2>2
  <2> QED  BY <2>1, <2>2
<1>7. {p \in dropped : p <= Settled}' = dropped'
  BY <1>4, <1>6
<1>8. Contiguous'
  <2>1. \A i \in 1..Len(<< >>) : FALSE
    BY <1>3
  <2>2. Settled' \in Nat
    BY <1>1, <1>4
  <2> QED  BY <1>2, <1>4, <1>6, <2>1, <2>2 DEF Contiguous
<1>9. Stream!HandOver(k, d)
  <2>1. s + k + d <= Len(sent)
    BY <1>1
  <2>2. dropped' = {p \in dropped : p <= s} \cup (s + k + 1)..(s + k + d)
    OBVIOUS
  <2> QED  BY <1>2, <1>4, <1>5, <1>7, <2>1, <2>2 DEF Stream!HandOver
<1>10. k \in 0..Len(sent)
  BY <1>1
<1> QED  BY <1>8, <1>9, <1>10 DEF Stream!Next

\* It does so with everything it has read.
LEMMA ReturnAllStreams ==
  ASSUME TypeOK, Reader \in Readers, Contiguous, NEW s \in Nat, s = Settled,
         NEW string \in Seq(Nat), Return(Reader, string),
         \A i \in 1..Len(string) : string[i] = s + i,
         rcvd' = s + Len(string), rcvd' <= Len(sent), sent' = sent,
         \A p : p \in dropped' <=> p \in dropped /\ p <= s
  PROVE  Contiguous' /\ [Stream!Next]_(Stream!vars)
<1> DEFINE k == Len(string)
<1>1. k \in Nat /\ 0 \in 0..1
  OBVIOUS
<1>2. rcvd' = s + k + 0 /\ (s + k + 1)..(s + k + 0) = {}
  BY <1>1
<1>3. \A p : p \in dropped' <=> \/ p \in dropped /\ p <= s
                                \/ p \in (s + k + 1)..(s + k + 0)
  BY <1>2
<1> QED  BY <1>1, <1>2, <1>3, ReturnStreams

\* It does so and drops the terminator behind it.
LEMMA ReturnTerminatedStreams ==
  ASSUME TypeOK, Reader \in Readers, Contiguous, NEW s \in Nat, s = Settled,
         NEW string \in Seq(Nat), Return(Reader, string),
         \A i \in 1..Len(string) : string[i] = s + i,
         rcvd' = s + Len(string) + 1, rcvd' <= Len(sent), sent' = sent,
         \A p : p \in dropped' <=> (p \in dropped /\ p <= s) \/ p = rcvd'
  PROVE  Contiguous' /\ [Stream!Next]_(Stream!vars)
<1> DEFINE k == Len(string)
<1>1. k \in Nat /\ 1 \in 0..1
  OBVIOUS
<1>2. (s + k + 1)..(s + k + 1) = {rcvd'}
  BY <1>1
<1>3. \A p : p \in dropped' <=> \/ p \in dropped /\ p <= s
                                \/ p \in (s + k + 1)..(s + k + 1)
  BY <1>2
<1> QED  BY <1>1, <1>3, ReturnStreams

\* A step that adds to what the call in progress holds settles nothing.
LEMMA GrowingStreams ==
  ASSUME TypeOK, Contiguous, UNCHANGED <<sent, delivered>>, Settled' = Settled,
         rcvd >= Settled, rcvd \in Nat,
         dropped' = dropped \/ dropped' = dropped \cup {rcvd + 1}
  PROVE  UNCHANGED Stream!vars
<1>1. {p \in dropped : p <= Settled}' = {p \in dropped : p <= Settled}
  BY DEF Contiguous
<1> QED  BY <1>1 DEF Stream!vars

\* Each effect of the only reader is a step of ByteStream, or none.
LEMMA EffectStreams ==
  ASSUME NoPeek, TypeOK, FramesShaped, Contiguous, Reader \in Readers, Effect(Reader)
  PROVE  Contiguous' /\ [Stream!Next]_(Stream!vars)
<1>1. PICK f \in Frames : f = frame[Reader]
  BY DEF TypeOK
<1>2. PICK S \in Nat : S = Settled
  BY DEF Contiguous
<1>3. PICK l \in Nat : l = Len(f.buf)
  BY DEF Frames
<1>4. PICK n \in Nat : n = Len(f.data)
  BY DEF Frames
<1>5. /\ f \in Frames /\ Shape(f, open) /\ Unread \in Nat /\ rcvd + Unread = Len(sent)
      /\ Len(sent) \in Nat /\ rcvd <= Len(sent) /\ sent' = sent /\ dropped \in SUBSET Nat
  BY <1>1 DEF TypeOK, FramesShaped, Unread, Effect, peerVars
<1>6. /\ f.data \in Seq(Nat) /\ f.buf \in Seq(Nat)
      /\ rcvd \in Nat
      /\ f.hitEOF => rcvd = S + n + l + 1
      /\ ~f.hitEOF => rcvd = S + n + l
  BY <1>1, <1>2, <1>3, <1>4, Accounted
<1>7. /\ S \in Nat
      /\ \A i \in 1..n : f.data[i] = S + i
      /\ \A i \in 1..l : f.buf[i] = S + n + i
      /\ \A p \in dropped : p <= S \/ (f.hitEOF /\ p = rcvd)
      /\ f.hitEOF => rcvd \in dropped
  BY <1>1, <1>2, <1>3, <1>4 DEF Contiguous
<1>8. Len(<< >>) = 0
  OBVIOUS
<1>9. ASSUME ~f.hitEOF, NEW p  PROVE p \in dropped <=> p \in dropped /\ p <= S
  BY <1>7, <1>9
<1>10. f.buf \in Seq(Nat) /\ f.data \in Seq(Nat) /\ rcvd \in Nat
  BY <1>6
<1>11. CASE Keeps(Reader)
  <2>1. PICK g \in Frames : /\ frame' = [frame EXCEPT ![Reader] = g]
                            /\ g.data = f.data /\ g.buf = f.buf /\ g.hitEOF = f.hitEOF
    BY <1>1, <1>11 DEF Keeps
  <2>2. UNCHANGED <<sent, rcvd, delivered, dropped>>
    BY <1>5, <1>11 DEF Keeps
  <2>3. frame'[Reader] = g
    BY <2>1 DEF TypeOK
  <2> QED  BY <1>1, <2>1, <2>2, <2>3, SameStream
<1>12. CASE \E k \in 1..Unread : Fills(Reader, k)
  <2>1. PICK k \in Nat : k \in 1..Unread /\ Fills(Reader, k)
    BY <1>5, <1>12
  <2> DEFINE b == f.buf \o NextBytes(k)
             g == [f EXCEPT !.pc = "more", !.buf = b]
  <2>2. f.data = << >> /\ ~f.hitEOF /\ n = 0
    BY <1>1, <1>4, <1>5, <1>8, <2>1 DEF Fills, Shape
  <2>3. /\ Len(b) = l + k
        /\ \A i \in 1..l : b[i] = f.buf[i]
        /\ \A i \in (l + 1)..(l + k) : b[i] = rcvd + (i - l)
    BY <1>3, <1>4, <1>10, Extended
  <2>4. frame' = [frame EXCEPT ![Reader] = g] /\ delivered' = delivered /\ dropped' = dropped
    BY <1>1, <2>1 DEF Fills
  <2>5. rcvd' = rcvd + k /\ k \in Nat
    BY <1>5, <2>1, TakingAdvances DEF Fills
  <2> HIDE DEF b
  <2>6. g.data = << >> /\ g.buf = b /\ g.hitEOF = f.hitEOF
    BY <1>5, <2>2 DEF Frames
  <2> HIDE DEF g
  <2>7. frame'[Reader] = g
    BY <2>4 DEF TypeOK
  <2>8. rcvd = S + l
    BY <1>6, <1>7, <1>8, <2>2
  <2>9. Settled' = S
    <3>1. Settled' = rcvd' - Len(g.data) - Len(g.buf) - (IF g.hitEOF THEN 1 ELSE 0)
      BY <2>7 DEF Settled
    <3>2. Len(g.data) = 0 /\ Len(g.buf) = l + k /\ ~g.hitEOF /\ l \in Nat
      BY <1>6, <1>8, <2>2, <2>3, <2>6
    <3>3. Settled' = (rcvd + k) - 0 - (l + k) - 0
      BY <2>5, <3>1, <3>2
    <3>4. ((S + l) + k) - 0 - (l + k) - 0 = S
      BY <2>5
    <3> QED  BY <1>3, <2>8, <3>3, <3>4, Zenon
  <2>10. ASSUME NEW i \in 1..Len(b)  PROVE b[i] = S + i
    <3>1. CASE i \in 1..l
      BY <1>7, <1>8, <2>2, <2>3, <3>1
    <3>2. CASE i \in (l + 1)..(l + k)
      <4>1. b[i] = rcvd + (i - l)
        BY <2>3, <3>2
      <4>2. (S + l) + (i - l) = S + i
        BY <3>2
      <4> QED  BY <1>3, <2>8, <4>1, <4>2, Zenon
    <3> QED  BY <1>6, <2>3, <2>5, <3>1, <3>2
  <2>11. Contiguous'
    <3>1. \A i \in 1..Len(g.data) : FALSE
      BY <1>8, <2>6
    <3>2. \A i \in 1..Len(g.buf) : g.buf[i] = S + Len(g.data) + i
      BY <1>8, <2>3, <2>6, <2>10
    <3>3. ~g.hitEOF /\ \A p \in dropped' : p <= S
      BY <1>7, <2>2, <2>4, <2>6
    <3> QED  BY <2>7, <2>9, <3>1, <3>2, <3>3 DEF Contiguous
  <2>12. rcvd >= S
    BY <1>6, <1>7, <2>8
  <2> QED  BY <1>2, <1>5, <1>6, <2>4, <2>9, <2>11, <2>12, GrowingStreams
<1>13. CASE \E k \in 0..Unread : HandsOver(Reader, k)
  <2>1. PICK k \in Nat : k \in 0..Unread /\ HandsOver(Reader, k)
    BY <1>5, <1>13
  <2> DEFINE b == f.buf \o NextBytes(k)
  <2>2. f.data = << >> /\ ~f.hitEOF /\ n = 0
    BY <1>1, <1>4, <1>5, <1>8, <2>1 DEF HandsOver, Shape
  <2>3. /\ b \in Seq(Nat) /\ Len(b) = l + k
        /\ \A i \in 1..l : b[i] = f.buf[i]
        /\ \A i \in (l + 1)..(l + k) : b[i] = rcvd + (i - l)
    BY <1>3, <1>4, <1>10, Extended
  <2>4. Return(Reader, b) /\ dropped' = dropped
    BY <1>1, <2>1 DEF HandsOver
  <2>5. rcvd' = rcvd + k /\ k \in Nat /\ k <= Unread
    BY <1>5, <2>1, TakingAdvances DEF HandsOver
  <2> HIDE DEF b
  <2>6. rcvd = S + l
    BY <1>6, <1>7, <1>8, <2>2
  <2>7. ASSUME NEW i \in 1..Len(b)  PROVE b[i] = S + i
    <3>1. CASE i \in 1..l
      BY <1>7, <1>8, <2>2, <2>3, <3>1
    <3>2. CASE i \in (l + 1)..(l + k)
      <4>1. b[i] = rcvd + (i - l)
        BY <2>3, <3>2
      <4>2. (S + l) + (i - l) = S + i
        BY <3>2
      <4> QED  BY <1>3, <2>6, <4>1, <4>2, Zenon
    <3> QED  BY <1>6, <2>3, <2>5, <3>1, <3>2
  <2>8. rcvd' = S + Len(b) /\ rcvd' <= Len(sent)
    <3>1. rcvd + k <= Len(sent)
      BY <1>5, <1>6, <2>5
    <3>2. (S + l) + k = S + (l + k)
      OBVIOUS
    <3> QED  BY <1>3, <2>3, <2>5, <2>6, <3>1, <3>2
  <2>9. \A p : p \in dropped' <=> p \in dropped /\ p <= S
    BY <1>9, <2>2, <2>4
  <2> QED  BY <1>2, <1>5, <2>3, <2>4, <2>7, <2>8, <2>9, ReturnAllStreams
<1>14. CASE ReturnsString(Reader)
  <2>1. f.buf = << >> /\ l = 0 /\ Return(Reader, f.data) /\ rcvd' = rcvd /\ dropped' = dropped
    BY <1>1, <1>3, <1>5, <1>8, <1>14 DEF ReturnsString, Shape
  <2>2. \A i \in 1..Len(f.data) : f.data[i] = S + i
    BY <1>4, <1>7
  <2>3. CASE f.hitEOF
    <3>1. rcvd' = S + Len(f.data) + 1 /\ rcvd' <= Len(sent)
      BY <1>4, <1>5, <1>6, <2>1, <2>3
    <3>2. \A p : p \in dropped' <=> (p \in dropped /\ p <= S) \/ p = rcvd'
      BY <1>7, <2>1, <2>3
    <3> QED  BY <1>2, <1>5, <1>6, <2>1, <2>2, <3>1, <3>2, ReturnTerminatedStreams
  <2>4. CASE ~f.hitEOF
    <3>1. rcvd' = S + Len(f.data) /\ rcvd' <= Len(sent)
      BY <1>4, <1>5, <1>6, <2>1, <2>4
    <3>2. \A p : p \in dropped' <=> p \in dropped /\ p <= S
      BY <1>9, <2>1, <2>4
    <3> QED  BY <1>2, <1>5, <1>6, <2>1, <2>2, <3>1, <3>2, ReturnAllStreams
  <2> QED  BY <2>3, <2>4
<1>15. CASE MeetsDelimiter(Reader)
  <2>1. /\ f.buf = << >> /\ l = 0 /\ ~f.hitEOF /\ Unread > 0 /\ Return(Reader, f.data)
        /\ dropped' = dropped \cup {rcvd + 1}
    BY <1>1, <1>3, <1>5, <1>8, <1>15 DEF MeetsDelimiter, Shape
  <2>2. rcvd' = rcvd + 1
    BY <1>15, TakingAdvances DEF MeetsDelimiter
  <2>3. rcvd' = S + Len(f.data) + 1 /\ rcvd' <= Len(sent)
    BY <1>4, <1>5, <1>6, <2>1, <2>2
  <2>4. \A p : p \in dropped' <=> (p \in dropped /\ p <= S) \/ p = rcvd'
    BY <1>9, <2>1, <2>2
  <2>5. \A i \in 1..Len(f.data) : f.data[i] = S + i
    BY <1>4, <1>7
  <2> QED  BY <1>2, <1>5, <1>6, <2>1, <2>3, <2>4, <2>5, ReturnTerminatedStreams
<1>16. CASE MeetsNul(Reader)
  <2> DEFINE g == [f EXCEPT !.pc = "ready", !.buf = << >>, !.hitEOF = TRUE]
  <2>1. /\ f.buf = << >> /\ l = 0 /\ ~f.hitEOF /\ delivered' = delivered
        /\ frame' = [frame EXCEPT ![Reader] = g]
        /\ dropped' = dropped \cup {rcvd + 1}
    BY <1>1, <1>3, <1>5, <1>8, <1>16 DEF MeetsNul, Shape
  <2>2. rcvd' = rcvd + 1
    BY <1>16, TakingAdvances DEF MeetsNul
  <2>3. g.data = f.data /\ g.buf = << >> /\ g.hitEOF
    BY <1>5 DEF Frames
  <2> HIDE DEF g
  <2>4. frame'[Reader] = g
    BY <2>1 DEF TypeOK
  <2>5. Settled' = S
    <3>1. Settled' = rcvd' - Len(g.data) - Len(g.buf) - (IF g.hitEOF THEN 1 ELSE 0)
      BY <2>4 DEF Settled
    <3>2. /\ Len(g.data) = n /\ Len(g.buf) = 0 /\ g.hitEOF
          /\ rcvd = S + n /\ n \in Nat
      BY <1>4, <1>6, <1>8, <2>1, <2>3
    <3>3. Settled' = (rcvd + 1) - n - 0 - 1
      BY <2>2, <3>1, <3>2
    <3> QED  BY <1>7, <3>2, <3>3
  <2>6. Contiguous'
    <3>1. \A i \in 1..Len(<< >>) : FALSE
      BY <1>8
    <3>2. \A p \in dropped' : p <= S \/ p = rcvd'
      BY <1>7, <2>1, <2>2
    <3> QED  BY <1>2, <1>3, <1>4, <1>7, <2>1, <2>2, <2>3, <2>4, <2>5, <3>1, <3>2 DEF Contiguous
  <2>7. rcvd >= S
    BY <1>6, <1>7, <2>1
  <2> QED  BY <1>2, <1>5, <1>6, <2>1, <2>5, <2>6, <2>7, GrowingStreams
<1>17. CASE Joins(Reader)
  <2> DEFINE b == f.data \o NextBytes(1)
             g == [f EXCEPT !.pc = "ready", !.buf = << >>, !.data = b]
  <2>1. /\ f.buf = << >> /\ l = 0 /\ ~f.hitEOF /\ delivered' = delivered /\ dropped' = dropped
        /\ frame' = [frame EXCEPT ![Reader] = g]
    BY <1>1, <1>3, <1>5, <1>8, <1>17 DEF Joins, Shape
  <2>2. rcvd' = rcvd + 1
    BY <1>17, TakingAdvances DEF Joins
  <2>3. /\ Len(b) = n + 1
        /\ \A i \in 1..n : b[i] = f.data[i]
        /\ \A i \in (n + 1)..(n + 1) : b[i] = rcvd + (i - n)
    <3>1. 1 \in Nat
      OBVIOUS
    <3> QED  BY <1>4, <1>6, <3>1, Extended
  <2> HIDE DEF b
  <2>4. g.data = b /\ g.buf = << >> /\ g.hitEOF = f.hitEOF
    BY <1>5 DEF Frames
  <2> HIDE DEF g
  <2>5. frame'[Reader] = g
    BY <2>1 DEF TypeOK
  <2>6. rcvd = S + n
    BY <1>6, <2>1
  <2>7. Settled' = S
    <3>1. Settled' = rcvd' - Len(g.data) - Len(g.buf) - (IF g.hitEOF THEN 1 ELSE 0)
      BY <2>5 DEF Settled
    <3>2. Len(g.data) = n + 1 /\ Len(g.buf) = 0 /\ ~g.hitEOF
      BY <1>8, <2>1, <2>3, <2>4
    <3>3. Settled' = (rcvd + 1) - (n + 1) - 0 - 0
      BY <2>2, <3>1, <3>2
    <3> QED  BY <1>7, <2>6, <3>3
  <2>8. ASSUME NEW i \in 1..Len(b)  PROVE b[i] = S + i
    <3>1. CASE i \in 1..n
      BY <1>7, <2>3, <3>1
    <3>2. CASE i \in (n + 1)..(n + 1)
      <4>1. b[i] = rcvd + (i - n)
        BY <2>3, <3>2
      <4> QED  BY <1>7, <2>6, <3>2, <4>1
    <3> QED  BY <2>3, <2>6, <3>1, <3>2
  <2>9. Contiguous'
    <3>1. \A i \in 1..Len(<< >>) : FALSE
      BY <1>8
    <3> QED  BY <1>2, <1>3, <1>4, <1>7, <2>1, <2>4, <2>5, <2>7, <2>8, <3>1 DEF Contiguous
  <2>10. rcvd >= S
    BY <1>7, <2>6
  <2> QED  BY <1>2, <1>5, <1>6, <2>1, <2>7, <2>9, <2>10, GrowingStreams
<1> QED  BY <1>11, <1>12, <1>13, <1>14, <1>15, <1>16, <1>17 DEF Effect

\* What the peer, close() and the start of a call do.
LEMMA QuietStreams ==
  ASSUME TypeOK, FramesShaped, Contiguous, Readers = {Reader},
         \/ \E message \in SeqOf(Bytes, MaxMessage) : Send(message)
         \/ PeerClose
         \/ \E r \in Readers : Close(r) \/ Call(r)
         \/ UNCHANGED vars
  PROVE  Contiguous' /\ [Stream!Next]_(Stream!vars)
<1>1. ASSUME frame' = frame, UNCHANGED <<sent, rcvd, dropped, delivered>>
      PROVE  Contiguous' /\ UNCHANGED Stream!vars
  BY <1>1, SameStream
<1>2. ASSUME NEW message \in SeqOf(Bytes, MaxMessage), Send(message)
      PROVE  Contiguous' /\ [Stream!Next]_(Stream!vars)
  <2>1. frame' = frame /\ UNCHANGED <<rcvd, dropped, delivered>>
    BY <1>2 DEF Send
  <2>2. CASE sent' = sent
    BY <1>1, <2>1, <2>2
  <2>3. CASE sent' # sent
    <3>1. Len(sent') >= Len(sent) /\ SubSeq(sent', 1, Len(sent)) = sent
      BY <1>2, SentGrows
    <3>2. Len(sent') > Len(sent)
      <4>1. sent' \in Seq(Bytes) /\ Len(sent') \in Nat /\ Len(sent) \in Nat
        BY <1>2, PeerType, ConstantsAssumption DEF TypeOK
      <4>2. ASSUME Len(sent') = Len(sent)  PROVE FALSE
        <5>1. SubSeq(sent', 1, Len(sent')) = sent'
          BY <4>1
        <5> QED  BY <2>3, <3>1, <4>2, <5>1
      <4> QED  BY <3>1, <4>1, <4>2
    <3>3. /\ Contiguous'
          /\ Settled' = Settled
          /\ {p \in dropped : p <= Settled}' = {p \in dropped : p <= Settled}
          /\ delivered[Reader]' = delivered[Reader]
      BY <2>1, SameBytes
    <3>4. Stream!Write
      BY <3>1, <3>2, <3>3 DEF Stream!Write
    <3> QED  BY <3>3, <3>4 DEF Stream!Next
  <2> QED  BY <2>2, <2>3
<1>3. CASE PeerClose
  BY <1>1, <1>3 DEF PeerClose
<1>4. CASE \E r \in Readers : Close(r)
  BY <1>1, <1>4 DEF Close
<1>5. CASE UNCHANGED vars
  BY <1>1, <1>5 DEF vars
<1>6. CASE \E r \in Readers : Call(r)
  <2>1. Call(Reader)
    BY <1>6
  <2>2. ASSUME NEW g, g.data = << >>, g.buf = << >>, g.hitEOF = FALSE, Start(Reader, g)
        PROVE  Contiguous' /\ UNCHANGED Stream!vars
    <3>1. /\ frame[Reader].data = << >> /\ frame[Reader].buf = << >>
          /\ frame[Reader].hitEOF = FALSE
      BY <2>2 DEF Start, FramesShaped, Shape, TypeOK, Frames
    <3>2. frame'[Reader] = g /\ UNCHANGED <<sent, rcvd, delivered, dropped>>
      BY <2>2 DEF Start, TypeOK, peerVars
    <3> QED  BY <2>2, <3>1, <3>2, SameStream
  <2>3. ASSUME NEW n \in Amounts, NEW fl \in Flags, ReceiveAmount(Reader, n, fl)
        PROVE  \E g : g.data = << >> /\ g.buf = << >> /\ g.hitEOF = FALSE /\ Start(Reader, g)
    BY <2>3 DEF ReceiveAmount, Idle
  <2>4. ASSUME NEW fl \in Flags, Get(Reader, fl)
        PROVE  \E g : g.data = << >> /\ g.buf = << >> /\ g.hitEOF = FALSE /\ Start(Reader, g)
    BY <2>4 DEF Get, Idle
  <2>5. ASSUME NEW d \in Bytes, NEW fl \in Flags, ReceiveToDelimiter(Reader, d, fl)
        PROVE  \E g : g.data = << >> /\ g.buf = << >> /\ g.hitEOF = FALSE /\ Start(Reader, g)
    BY <2>5 DEF ReceiveToDelimiter, Idle
  <2>6. ASSUME NEW fl \in Flags, ReceiveAll(Reader, fl)
        PROVE  \E g : g.data = << >> /\ g.buf = << >> /\ g.hitEOF = FALSE /\ Start(Reader, g)
    BY <2>6 DEF ReceiveAll, Idle
  <2>7. PICK g : g.data = << >> /\ g.buf = << >> /\ g.hitEOF = FALSE /\ Start(Reader, g)
    BY <2>1, <2>3, <2>4, <2>5, <2>6 DEF Call
  <2> QED  BY <2>2, <2>7
<1> QED  BY <1>2, <1>3, <1>4, <1>5, <1>6

\* A connection with one reader that does not peek implements ByteStream:
\* whatever receive methods the reader mixes, and however the network cuts
\* the stream, finished calls hand over the sent bytes in order and without a
\* gap, but for the terminator a call may swallow behind what it returns.
THEOREM SocketImplementsByteStream ==
  NoPeek /\ OneReader => (Spec => ImplementsByteStream)
<1> SUFFICES ASSUME NoPeek, OneReader  PROVE Spec => ImplementsByteStream
  OBVIOUS
<1>1. Readers = {Reader}
  BY ReaderIsAlone
<1>2. Init => Contiguous /\ Stream!Init
  <2> SUFFICES ASSUME Init  PROVE Contiguous /\ Stream!Init
    OBVIOUS
  <2>1. /\ frame[Reader].data = << >> /\ frame[Reader].buf = << >>
        /\ frame[Reader].hitEOF = FALSE /\ delivered[Reader] = << >>
    BY <1>1 DEF Init, Idle
  <2>2. rcvd = 0 /\ sent = << >> /\ dropped = {} /\ Len(<< >>) = 0
    BY DEF Init
  <2>3. Settled = 0
    <3>1. Settled = 0 - 0 - 0 - 0
      BY <2>1, <2>2 DEF Settled
    <3> QED  BY <3>1
  <2>4. \A i \in 1..Len(<< >>) : FALSE
    BY <2>2
  <2>5. Contiguous
    BY <2>1, <2>2, <2>3, <2>4 DEF Contiguous
  <2>6. {p \in dropped : p <= Settled} = {}
    BY <2>2
  <2> QED  BY <2>1, <2>2, <2>3, <2>5, <2>6 DEF Stream!Init
<1>3. TypeOK /\ BufferFits /\ FramesShaped /\ Contiguous /\ [Next]_vars
        => Contiguous' /\ [Stream!Next]_(Stream!vars)
  <2> SUFFICES ASSUME TypeOK, BufferFits, FramesShaped, Contiguous, [Next]_vars
               PROVE  Contiguous' /\ [Stream!Next]_(Stream!vars)
    OBVIOUS
  <2>1. CASE Step(Reader)
    BY <1>1, <2>1, StepHasEffect, EffectStreams, ConstantsAssumption
  <2>2. CASE \/ \E message \in SeqOf(Bytes, MaxMessage) : Send(message)
             \/ PeerClose
             \/ \E r \in Readers : Close(r) \/ Call(r)
             \/ UNCHANGED vars
    BY <1>1, <2>2, QuietStreams
  <2> QED  BY <1>1, <2>1, <2>2 DEF Next
<1> QED
  BY <1>2, <1>3, TypeCorrect, BufferAlwaysFits, FramesAlwaysShaped, PTL
     DEF Spec, ImplementsByteStream, Stream!Spec
=============================================================================

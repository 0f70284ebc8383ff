------------------- MODULE ConnectionOrientedSocketProofs -------------------
(***************************************************************************)
(* What the prover establishes about ConnectionOrientedSocket for any      *)
(* number of readers, any byte values and any bounds.                      *)
(***************************************************************************)
EXTENDS ConnectionOrientedSocket, SequenceTheorems, TLAPS

LEMMA EmptyIsSequence == << >> \in Seq(Nat)
  OBVIOUS

\* What recv() appends to a buffer, and what an outer loop appends to its
\* string, are again sequences of positions.
LEMMA ChunkIsSequence ==
  ASSUME NEW n \in Nat, NEW k \in Nat, NEW b \in Seq(Nat)
  PROVE  /\ [i \in 1..k |-> n + i] \in Seq(Nat)
         /\ b \o [i \in 1..k |-> n + i] \in Seq(Nat)
         /\ Len(b \o [i \in 1..k |-> n + i]) = Len(b) + k
  OBVIOUS

LEMMA ToSetOfPositions ==
  ASSUME NEW c \in Seq(Nat)
  PROVE  ToSet(c) \in SUBSET Nat
  BY DEF ToSet

\* The updates the receive methods make to a frame keep it a frame.
LEMMA FramePc ==
  ASSUME NEW f \in Frames, NEW p \in Pcs
  PROVE  [f EXCEPT !.pc = p] \in Frames
  BY DEF Frames

LEMMA FrameWant ==
  ASSUME NEW f \in Frames, NEW p \in Pcs, NEW w \in 0..UIntMax
  PROVE  [f EXCEPT !.pc = p, !.want = w] \in Frames
  BY DEF Frames

LEMMA FrameBuf ==
  ASSUME NEW f \in Frames, NEW p \in Pcs, NEW b \in Seq(Nat)
  PROVE  /\ [f EXCEPT !.pc = p, !.buf = b] \in Frames
         /\ [f EXCEPT !.pc = p, !.buf = b, !.hitEOF = TRUE] \in Frames
  BY DEF Frames

LEMMA FrameData ==
  ASSUME NEW f \in Frames, NEW p \in Pcs, NEW b \in Seq(Nat), NEW d \in Seq(Nat)
  PROVE  [f EXCEPT !.pc = p, !.buf = b, !.data = d] \in Frames
  BY DEF Frames

\* The frames a call starts with.
LEMMA FirstFrames ==
  ASSUME ConstantsAssumption, NEW o \in Ops, NEW p \in Pcs, NEW w \in 0..UIntMax,
         NEW d \in Bytes, NEW fl \in Flags
  PROVE  /\ Idle \in Frames
         /\ [Idle EXCEPT !.op = o, !.pc = p, !.flags = fl] \in Frames
         /\ [Idle EXCEPT !.op = o, !.pc = p, !.want = w, !.flags = fl] \in Frames
         /\ [Idle EXCEPT !.op = o, !.pc = p, !.delimiter = d, !.flags = fl] \in Frames
<1>1. Idle \in Frames
  BY EmptyIsSequence DEF ConstantsAssumption, Idle, Frames, Ops, Pcs
<1> QED  BY <1>1 DEF Frames

\* Where a receiveAmount() that ends with chunk leaves the reader's frame and
\* results: the frame is idle or at the next ready().
LEMMA ReceiveAmountReturnsType ==
  ASSUME ConstantsAssumption, TypeOK, NEW r \in Readers, NEW chunk \in Seq(Nat),
         ReceiveAmountReturns(r, chunk)
  PROVE  /\ frame' \in [Readers -> Frames]
         /\ delivered' \in [Readers -> Seq(Nat)]
         /\ dropped' \in SUBSET Nat
<1> DEFINE f == frame[r]
<1>1. f \in Frames /\ delivered[r] \in Seq(Nat) /\ dropped \in SUBSET Nat
  BY DEF TypeOK
<1>2. f.data \in Seq(Nat) /\ f.data \o chunk \in Seq(Nat)
  BY <1>1 DEF Frames
<1>3. Idle \in Frames
  BY EmptyIsSequence DEF ConstantsAssumption, Idle, Frames, Ops, Pcs
<1>4. ToSet(chunk) \in SUBSET Nat
  BY ToSetOfPositions
<1>5. ASSUME NEW string \in Seq(Nat), Return(r, string)
      PROVE  frame' \in [Readers -> Frames] /\ delivered' \in [Readers -> Seq(Nat)]
  BY <1>1, <1>3, <1>5 DEF TypeOK, Return
<1>6. CASE f.op \in {"amount", "get"} /\ Return(r, chunk) /\ UNCHANGED dropped
  BY <1>1, <1>5, <1>6
<1>7. CASE Return(r, f.data) /\ dropped' = dropped \cup ToSet(chunk)
  BY <1>1, <1>2, <1>4, <1>5, <1>7
<1>8. CASE /\ Goto(r, [f EXCEPT !.pc = "ready", !.buf = << >>, !.hitEOF = TRUE])
           /\ dropped' = dropped \cup ToSet(chunk)
  <2>1. [f EXCEPT !.pc = "ready", !.buf = << >>, !.hitEOF = TRUE] \in Frames
    BY <1>1, EmptyIsSequence, FrameBuf DEF Pcs
  <2> QED  BY <1>1, <1>4, <1>8, <2>1 DEF TypeOK, Goto
<1>9. CASE Goto(r, Accumulate(f, chunk)) /\ UNCHANGED dropped
  <2>1. Accumulate(f, chunk) \in Frames
    BY <1>1, <1>2, EmptyIsSequence, FrameData DEF Accumulate, Pcs
  <2> QED  BY <1>1, <1>9, <2>1 DEF TypeOK, Goto
<1> QED  BY <1>6, <1>7, <1>8, <1>9 DEF ReceiveAmountReturns

LEMMA InitType == ConstantsAssumption /\ Init => TypeOK
<1> SUFFICES ASSUME ConstantsAssumption, Init  PROVE TypeOK
  OBVIOUS
<1>1. Idle \in Frames
  BY EmptyIsSequence DEF ConstantsAssumption, Idle, Frames, Ops, Pcs
<1>2. sent \in Seq(Bytes) /\ Len(sent) = 0
  BY DEF Init
<1>3. rcvd \in 0..Len(sent) /\ sendResult \in -1..MaxSent
  BY <1>2 DEF ConstantsAssumption, Init
<1>4. frame \in [Readers -> Frames] /\ delivered \in [Readers -> Seq(Nat)]
  BY <1>1, EmptyIsSequence DEF Init
<1> QED  BY <1>2, <1>3, <1>4 DEF Init, TypeOK

LEMMA CallType ==
  ASSUME ConstantsAssumption, TypeOK, NEW r \in Readers, Call(r)
  PROVE  TypeOK'
<1> SUFFICES ASSUME NEW f \in Frames, Start(r, f)
             PROVE  TypeOK'
  <2>1. PICK fl \in Flags : \/ \E n \in Amounts : ReceiveAmount(r, n, fl)
                            \/ Get(r, fl)
                            \/ \E d \in Bytes : ReceiveToDelimiter(r, d, fl)
                            \/ ReceiveAll(r, fl)
    BY DEF Call
  <2>2. ASSUME NEW n \in Amounts, ReceiveAmount(r, n, fl)  PROVE \E f \in Frames : Start(r, f)
    <3>1. n \in 0..UIntMax /\ "amount" \in Ops /\ "recv" \in Pcs
      BY DEF ConstantsAssumption, Ops, Pcs
    <3>2. [Idle EXCEPT !.op = "amount", !.pc = "recv", !.want = n, !.flags = fl] \in Frames
      BY <3>1, FirstFrames DEF ConstantsAssumption
    <3> QED  BY <2>2, <3>2 DEF ReceiveAmount
  <2>3. ASSUME Get(r, fl)  PROVE \E f \in Frames : Start(r, f)
    <3>1. 1 \in 0..UIntMax /\ "get" \in Ops /\ "recv" \in Pcs
      BY DEF ConstantsAssumption, Ops, Pcs
    <3>2. [Idle EXCEPT !.op = "get", !.pc = "recv", !.want = 1, !.flags = fl] \in Frames
      BY <3>1, FirstFrames DEF ConstantsAssumption
    <3> QED  BY <2>3, <3>2 DEF Get
  <2>4. ASSUME NEW d \in Bytes, ReceiveToDelimiter(r, d, fl)  PROVE \E f \in Frames : Start(r, f)
    <3>1. 0 \in 0..UIntMax /\ "delimiter" \in Ops /\ "ready" \in Pcs
      BY DEF ConstantsAssumption, Ops, Pcs
    <3>2. [Idle EXCEPT !.op = "delimiter", !.pc = "ready", !.delimiter = d, !.flags = fl] \in Frames
      BY <3>1, FirstFrames
    <3> QED  BY <2>4, <3>2 DEF ReceiveToDelimiter
  <2>5. ASSUME ReceiveAll(r, fl)  PROVE \E f \in Frames : Start(r, f)
    <3>1. 0 \in 0..UIntMax /\ Nul \in Bytes /\ "all" \in Ops /\ "ready" \in Pcs
      BY DEF ConstantsAssumption, Ops, Pcs
    <3>2. [Idle EXCEPT !.op = "all", !.pc = "ready", !.flags = fl] \in Frames
      BY <3>1, FirstFrames
    <3> QED  BY <2>5, <3>2 DEF ReceiveAll
  <2> QED  BY <2>1, <2>2, <2>3, <2>4, <2>5
<1> QED  BY DEF TypeOK, Start, peerVars

LEMMA StepType ==
  ASSUME ConstantsAssumption, TypeOK, NEW r \in Readers, Step(r)
  PROVE  TypeOK'
<1> DEFINE f == frame[r]
<1>1. f \in Frames /\ f.buf \in Seq(Nat) /\ f.data \in Seq(Nat) /\ f.want \in Nat
  BY DEF TypeOK, Frames, ConstantsAssumption
<1>2. Idle \in Frames
  BY EmptyIsSequence DEF ConstantsAssumption, Idle, Frames, Ops, Pcs
<1>3. ASSUME NEW g \in Frames, Goto(r, g), UNCHANGED <<rcvd, open, dropped, peerVars>>
      PROVE  TypeOK'
  BY <1>3 DEF TypeOK, Goto, peerVars
<1>4. ASSUME Return(r, f.data), UNCHANGED <<rcvd, open, dropped, peerVars>>
      PROVE  TypeOK'
  BY <1>1, <1>2, <1>4 DEF TypeOK, Return, peerVars
<1>5. ASSUME NEW chunk \in Seq(Nat), ReceiveAmountReturns(r, chunk),
             rcvd' \in 0..Len(sent), UNCHANGED <<open, peerVars>>
      PROVE  TypeOK'
  BY <1>5, ReceiveAmountReturnsType DEF TypeOK, peerVars
<1>6. CASE RecvData(r)
  <2>1. PICK k \in 1..Unread :
          LET chunk == f.buf \o [i \in 1..k |-> rcvd + i]
          IN  /\ k <= Requested(f)
              /\ rcvd' = IF f.flags = "MSG_PEEK" THEN rcvd ELSE rcvd + k
              /\ \/ /\ Len(chunk) < f.want
                    /\ Goto(r, [f EXCEPT !.pc = "more", !.buf = chunk])
                    /\ UNCHANGED dropped
                 \/ /\ Len(chunk) >= f.want
                    /\ ReceiveAmountReturns(r, chunk)
    BY <1>6 DEF RecvData
  <2> DEFINE chunk == f.buf \o [i \in 1..k |-> rcvd + i]
  <2>2. rcvd \in Nat /\ k \in Nat /\ rcvd + k <= Len(sent) /\ Len(sent) \in Nat
    BY DEF TypeOK, Unread
  <2>3. rcvd' \in 0..Len(sent)
    BY <2>1, <2>2
  <2>4. chunk \in Seq(Nat)
    BY <1>1, <2>2, ChunkIsSequence
  <2>5. [f EXCEPT !.pc = "more", !.buf = chunk] \in Frames
    BY <1>1, <2>4, FrameBuf DEF Pcs
  <2>6. UNCHANGED <<open, peerVars>>
    BY <1>6 DEF RecvData
  <2>7. CASE Goto(r, [f EXCEPT !.pc = "more", !.buf = chunk]) /\ UNCHANGED dropped
    BY <2>3, <2>5, <2>6, <2>7 DEF TypeOK, Goto, peerVars
  <2>8. CASE ReceiveAmountReturns(r, chunk)
    BY <1>5, <2>3, <2>4, <2>6, <2>8
  <2> QED  BY <2>1, <2>7, <2>8
<1>7. CASE RecvNothing(r)
  BY <1>1, <1>5, <1>7 DEF RecvNothing, TypeOK
<1>8. CASE ReadyForMore(r)
  <2>1. [f EXCEPT !.pc = "recv"] \in Frames
    BY <1>1, FramePc DEF Pcs
  <2>2. CASE Goto(r, [f EXCEPT !.pc = "recv"]) /\ UNCHANGED dropped
    BY <1>3, <1>8, <2>1, <2>2 DEF ReadyForMore
  <2>3. CASE ReceiveAmountReturns(r, f.buf)
    BY <1>1, <1>5, <1>8, <2>3 DEF ReadyForMore, TypeOK
  <2> QED  BY <1>8, <2>2, <2>3 DEF ReadyForMore
<1>9. CASE ReadyForCharacter(r)
  <2>1. 1 \in 0..UIntMax
    BY DEF ConstantsAssumption
  <2>2. [f EXCEPT !.pc = "recv", !.want = 1] \in Frames
    BY <1>1, <2>1, FrameWant DEF Pcs
  <2> QED  BY <1>3, <1>4, <1>9, <2>2 DEF ReadyForCharacter
<1>10. CASE ReadyForAll(r)
  <2>1. [f EXCEPT !.pc = "poll"] \in Frames
    BY <1>1, FramePc DEF Pcs
  <2> QED  BY <1>3, <1>4, <1>10, <2>1 DEF ReadyForAll
<1>11. CASE PollForAmount(r)
  <2> DEFINE amount == ToUnsigned(PollSocket)
  <2>1. amount \in 0..UIntMax
    <3>1. PollSocket \in Int /\ UIntMax + 1 \in Nat \ {0}
      BY DEF PollSocket, ConstantsAssumption
    <3> QED  BY <3>1 DEF ToUnsigned, ConstantsAssumption
  <2> HIDE DEF amount
  <2>2. [f EXCEPT !.pc = IF amount = 0 THEN "ready" ELSE "recv", !.want = amount] \in Frames
    BY <1>1, <2>1, FrameWant DEF Pcs
  <2>3. /\ Goto(r, [f EXCEPT !.pc = IF amount = 0 THEN "ready" ELSE "recv", !.want = amount])
        /\ UNCHANGED <<rcvd, open, dropped, peerVars>>
    BY <1>11 DEF PollForAmount, amount
  <2> QED  BY <1>3, <2>2, <2>3
<1> QED  BY <1>6, <1>7, <1>8, <1>9, <1>10, <1>11 DEF Step

LEMMA PeerType ==
  ASSUME ConstantsAssumption, TypeOK,
         \/ \E message \in SeqOf(Bytes, MaxMessage) : Send(message)
         \/ PeerClose
         \/ \E r \in Readers : Close(r)
  PROVE  TypeOK'
<1>1. ASSUME NEW message \in SeqOf(Bytes, MaxMessage), Send(message)
      PROVE  TypeOK'
  <2>1. message \in Seq(Bytes) /\ Len(message) \in Nat
    BY DEF SeqOf, ConstantsAssumption
  <2>2. sendResult' \in -1..MaxSent
    BY <1>1, <2>1 DEF Send, TypeOK, ConstantsAssumption
  <2>3. ASSUME NEW k \in 0..Len(message)
        PROVE  /\ sent \o SubSeq(message, 1, k) \in Seq(Bytes)
               /\ Len(sent) <= Len(sent \o SubSeq(message, 1, k))
    BY <2>1, <2>3 DEF TypeOK
  <2>4. sent' \in Seq(Bytes) /\ rcvd' \in 0..Len(sent')
    <3>1. CASE open
      <4>1. PICK k \in 0..Len(message) : sent' = sent \o SubSeq(message, 1, k)
        BY <1>1, <3>1 DEF Send
      <4>2. rcvd' = rcvd /\ rcvd \in 0..Len(sent) /\ Len(sent) \in Nat
        BY <1>1 DEF Send, TypeOK
      <4>3. Len(sent) <= Len(sent') /\ Len(sent') \in Nat /\ sent' \in Seq(Bytes)
        BY <2>3, <4>1
      <4> QED  BY <4>2, <4>3
    <3>2. CASE ~open
      BY <1>1, <3>2 DEF Send, TypeOK
    <3> QED  BY <3>1, <3>2
  <2> QED  BY <1>1, <2>2, <2>4 DEF Send, TypeOK
<1>2. ASSUME PeerClose  PROVE TypeOK'
  BY <1>2 DEF PeerClose, TypeOK
<1>3. ASSUME NEW r \in Readers, Close(r)  PROVE TypeOK'
  BY <1>3 DEF Close, TypeOK
<1> QED  BY <1>1, <1>2, <1>3

\* Every state of the connection and of the calls in progress has its type,
\* for any number of readers: in particular the amount receiveAll() passes on
\* is an unsigned int even when select() answered -1.
THEOREM TypeCorrect == Spec => []TypeOK
<1>1. Init => TypeOK
  BY InitType, ConstantsAssumption
<1>2. TypeOK /\ [Next]_vars => TypeOK'
  <2> SUFFICES ASSUME TypeOK, [Next]_vars  PROVE TypeOK'
    OBVIOUS
  <2>1. CASE UNCHANGED vars
    BY <2>1 DEF TypeOK, vars
  <2>2. CASE \E r \in Readers : Call(r)
    BY <2>2, CallType, ConstantsAssumption
  <2>3. CASE \E r \in Readers : Step(r)
    BY <2>3, StepType, ConstantsAssumption
  <2>4. CASE \/ \E message \in SeqOf(Bytes, MaxMessage) : Send(message)
             \/ PeerClose
             \/ \E r \in Readers : Close(r)
    BY <2>4, PeerType, ConstantsAssumption
  <2> QED  BY <2>1, <2>2, <2>3, <2>4 DEF Next
<1> QED  BY <1>1, <1>2, PTL DEF Spec
-----------------------------------------------------------------------------
(* The buffer of receiveAmount().                                          *)

\* The loop of receiveAmount() goes on only while its buffer has room, and the
\* outer loops poll only with an empty one.
Fits(f) ==
  /\ f.pc \in {"recv", "more"} => Len(f.buf) < f.want
  /\ f.pc \in {"ready", "poll"} => f.buf = << >>

BufferFits == \A r \in Readers : Fits(frame[r])

LEMMA IdleFits == Fits(Idle)
  BY DEF Fits, Idle

\* Whatever receiveAmount() returns with, the caller's next frame fits.
LEMMA ReceiveAmountReturnsFits ==
  ASSUME TypeOK, BufferFits, NEW r \in Readers, NEW chunk, ReceiveAmountReturns(r, chunk)
  PROVE  BufferFits'
<1> DEFINE f == frame[r]
<1>1. f \in Frames
  BY DEF TypeOK
<1>2. ASSUME NEW g, Fits(g), frame' = [frame EXCEPT ![r] = g]
      PROVE  BufferFits'
  BY <1>2 DEF TypeOK, BufferFits
<1>3. ASSUME NEW string, Return(r, string)  PROVE BufferFits'
  BY <1>2, <1>3, IdleFits DEF Return
<1>4. Fits([f EXCEPT !.pc = "ready", !.buf = << >>, !.hitEOF = TRUE])
  BY <1>1 DEF Fits, Frames
<1>5. Fits(Accumulate(f, chunk))
  BY <1>1 DEF Fits, Frames, Accumulate
<1> QED  BY <1>2, <1>3, <1>4, <1>5 DEF ReceiveAmountReturns, Goto

\* A recv() into a buffer that fits fills it to amountToReceive at most.
LEMMA RecvDataFits ==
  ASSUME ConstantsAssumption, TypeOK, BufferFits, NEW r \in Readers, RecvData(r)
  PROVE  /\ BufferFits'
         /\ \E chunk \in Seq(Nat) :
              /\ Len(chunk) <= frame[r].want
              /\ \/ frame'[r].op = frame[r].op /\ frame'[r].pc = "more"
                 \/ ReceiveAmountReturns(r, chunk)
<1> DEFINE f == frame[r]
<1>1. f \in Frames /\ f.buf \in Seq(Nat) /\ f.want \in Nat /\ Len(f.buf) \in Nat
  BY DEF TypeOK, Frames, ConstantsAssumption
<1>2. PICK k \in 1..Unread :
        LET chunk == f.buf \o [i \in 1..k |-> rcvd + i]
        IN  /\ k <= Requested(f)
            /\ \/ /\ Len(chunk) < f.want
                  /\ Goto(r, [f EXCEPT !.pc = "more", !.buf = chunk])
               \/ ReceiveAmountReturns(r, chunk)
  BY DEF RecvData
<1> DEFINE chunk == f.buf \o [i \in 1..k |-> rcvd + i]
<1>3. rcvd \in Nat /\ k \in Nat
  BY DEF TypeOK, Unread
<1>4. chunk \in Seq(Nat) /\ Len(chunk) = Len(f.buf) + k
  BY <1>1, <1>3, ChunkIsSequence
<1>5. Len(chunk) <= f.want
  BY <1>1, <1>2, <1>3, <1>4 DEF Requested
<1>6. CASE Len(chunk) < f.want /\ Goto(r, [f EXCEPT !.pc = "more", !.buf = chunk])
  <2>1. Fits([f EXCEPT !.pc = "more", !.buf = chunk])
    BY <1>1, <1>6 DEF Fits, Frames
  <2>2. frame' = [frame EXCEPT ![r] = [f EXCEPT !.pc = "more", !.buf = chunk]]
    BY <1>6 DEF Goto
  <2>3. BufferFits'
    BY <2>1, <2>2 DEF TypeOK, BufferFits
  <2>4. frame'[r].op = f.op /\ frame'[r].pc = "more"
    BY <1>1, <2>2 DEF TypeOK, Frames
  <2> QED  BY <1>4, <1>5, <2>3, <2>4
<1>7. CASE ReceiveAmountReturns(r, chunk)
  BY <1>4, <1>5, <1>7, ReceiveAmountReturnsFits
<1> QED  BY <1>2, <1>6, <1>7

LEMMA BufferFitsStep ==
  ASSUME ConstantsAssumption, TypeOK, BufferFits, [Next]_vars
  PROVE  BufferFits'
<1>1. ASSUME NEW r \in Readers, NEW g, Fits(g), frame' = [frame EXCEPT ![r] = g]
      PROVE  BufferFits'
  BY <1>1 DEF TypeOK, BufferFits
<1>2. ASSUME frame' = frame  PROVE BufferFits'
  BY <1>2 DEF BufferFits
<1>3. ASSUME NEW r \in Readers, Call(r)  PROVE BufferFits'
  <2>1. ASSUME NEW n \in Amounts, NEW fl \in Flags, ReceiveAmount(r, n, fl)
        PROVE  BufferFits'
    BY <1>1, <2>1 DEF ReceiveAmount, Start, Idle, Fits
  <2>2. ASSUME NEW fl \in Flags, Get(r, fl)  PROVE BufferFits'
    <3>1. Fits([Idle EXCEPT !.op = "get", !.pc = "recv", !.want = 1, !.flags = fl])
      BY Len(<< >>) = 0 DEF Idle, Fits
    <3> QED  BY <1>1, <2>2, <3>1 DEF Get, Start
  <2>3. ASSUME NEW d \in Bytes, NEW fl \in Flags, ReceiveToDelimiter(r, d, fl)
        PROVE  BufferFits'
    BY <1>1, <2>3 DEF ReceiveToDelimiter, Start, Idle, Fits
  <2>4. ASSUME NEW fl \in Flags, ReceiveAll(r, fl)  PROVE BufferFits'
    BY <1>1, <2>4 DEF ReceiveAll, Start, Idle, Fits
  <2>5. PICK fl \in Flags : \/ \E n \in Amounts : ReceiveAmount(r, n, fl)
                            \/ Get(r, fl)
                            \/ \E d \in Bytes : ReceiveToDelimiter(r, d, fl)
                            \/ ReceiveAll(r, fl)
    BY <1>3 DEF Call
  <2> QED  BY <2>1, <2>2, <2>3, <2>4, <2>5
<1>4. ASSUME NEW r \in Readers, Step(r)  PROVE BufferFits'
  <2> DEFINE f == frame[r]
  <2>1. f \in Frames /\ Fits(f)
    BY DEF TypeOK, BufferFits
  <2>2. CASE RecvData(r)
    BY <2>2, RecvDataFits
  <2>3. CASE RecvNothing(r)
    BY <2>3, ReceiveAmountReturnsFits DEF RecvNothing
  <2>4. CASE ReadyForMore(r)
    <3>1. f.pc = "more" => Fits([f EXCEPT !.pc = "recv"])
      BY <2>1 DEF Fits, Frames
    <3> QED  BY <1>1, <2>4, <3>1, ReceiveAmountReturnsFits DEF ReadyForMore, Goto
  <2>5. CASE ReadyForCharacter(r)
    <3>1. f.pc = "ready" => Fits([f EXCEPT !.pc = "recv", !.want = 1])
      BY <2>1 DEF Fits, Frames
    <3> QED  BY <1>1, <2>5, <3>1, IdleFits DEF ReadyForCharacter, Goto, Return
  <2>6. CASE ReadyForAll(r)
    <3>1. f.pc = "ready" => Fits([f EXCEPT !.pc = "poll"])
      BY <2>1 DEF Fits, Frames
    <3> QED  BY <1>1, <2>6, <3>1, IdleFits DEF ReadyForAll, Goto, Return
  <2>7. CASE PollForAmount(r)
    <3> DEFINE amount == ToUnsigned(PollSocket)
    <3>1. amount \in 0..UIntMax
      <4>1. PollSocket \in Int /\ UIntMax + 1 \in Nat \ {0}
        BY DEF PollSocket, ConstantsAssumption
      <4> QED  BY <4>1 DEF ToUnsigned, ConstantsAssumption
    <3>2. frame' = [frame EXCEPT ![r] =
            [f EXCEPT !.pc = IF amount = 0 THEN "ready" ELSE "recv", !.want = amount]]
      BY <2>7 DEF PollForAmount, Goto
    <3>3. f.pc = "poll"
      BY <2>7 DEF PollForAmount
    <3> HIDE DEF amount
    <3>4. Fits([f EXCEPT !.pc = IF amount = 0 THEN "ready" ELSE "recv", !.want = amount])
      BY <2>1, <3>1, <3>3 DEF Fits, Frames, ConstantsAssumption
    <3> QED  BY <1>1, <3>2, <3>4
  <2> QED  BY <1>4, <2>2, <2>3, <2>4, <2>5, <2>6, <2>7 DEF Step
<1>5. CASE UNCHANGED vars
  BY <1>2, <1>5 DEF vars
<1>6. ASSUME NEW message \in SeqOf(Bytes, MaxMessage), Send(message)  PROVE BufferFits'
  BY <1>2, <1>6 DEF Send
<1>7. ASSUME PeerClose  PROVE BufferFits'
  BY <1>2, <1>7 DEF PeerClose
<1>8. ASSUME NEW r \in Readers, Close(r)  PROVE BufferFits'
  BY <1>2, <1>8 DEF Close
<1> QED  BY <1>3, <1>4, <1>5, <1>6, <1>7, <1>8 DEF Next

\* The loop of receiveAmount() never goes on with a full buffer.
THEOREM BufferAlwaysFits == Spec => []BufferFits
<1>1. Init => BufferFits
  BY IdleFits DEF Init, BufferFits
<1>2. TypeOK /\ BufferFits /\ [Next]_vars => BufferFits'
  BY BufferFitsStep, ConstantsAssumption
<1> QED  BY <1>1, <1>2, TypeCorrect, PTL DEF Spec

\* A step of one reader leaves the frames of the others alone.
LEMMA OtherFrames ==
  ASSUME TypeOK, NEW r \in Readers, NEW s \in Readers, r # s, Call(s) \/ Step(s) \/ Close(s)
  PROVE  frame'[r] = frame[r]
<1>1. ASSUME NEW g, frame' = [frame EXCEPT ![s] = g]  PROVE frame'[r] = frame[r]
  BY <1>1 DEF TypeOK
<1>2. CASE Call(s)
  BY <1>1, <1>2 DEF Call, ReceiveAmount, Get, ReceiveToDelimiter, ReceiveAll, Start
<1>3. ASSUME NEW chunk, ReceiveAmountReturns(s, chunk)  PROVE frame'[r] = frame[r]
  BY <1>1, <1>3 DEF ReceiveAmountReturns, Goto, Return
<1>4. CASE Step(s)
  <2>1. CASE RecvData(s)
    BY <1>1, <1>3, <2>1 DEF RecvData, Goto
  <2>2. CASE RecvNothing(s)
    BY <1>3, <2>2 DEF RecvNothing
  <2>3. CASE ReadyForMore(s)
    BY <1>1, <1>3, <2>3 DEF ReadyForMore, Goto
  <2>4. CASE ReadyForCharacter(s)
    BY <1>1, <2>4 DEF ReadyForCharacter, Goto, Return
  <2>5. CASE ReadyForAll(s)
    BY <1>1, <2>5 DEF ReadyForAll, Goto, Return
  <2>6. CASE PollForAmount(s)
    BY <1>1, <2>6 DEF PollForAmount, Goto
  <2> QED  BY <1>4, <2>1, <2>2, <2>3, <2>4, <2>5, <2>6 DEF Step
<1>5. CASE Close(s)
  BY <1>5 DEF Close
<1> QED  BY <1>2, <1>4, <1>5

LEMMA NoOverrunStep ==
  ASSUME ConstantsAssumption, TypeOK, BufferFits, [Next]_vars, NEW r \in Readers,
         Returns(r), frame[r].op \in {"amount", "get"}
  PROVE  Len(delivered'[r]) <= Len(delivered[r]) + frame[r].want
<1> DEFINE f == frame[r]
<1>1. f \in Frames /\ f.buf \in Seq(Nat) /\ f.want \in Nat /\ Fits(f)
  BY DEF TypeOK, BufferFits, Frames, ConstantsAssumption
<1>2. ASSUME NEW chunk \in Seq(Nat), Len(chunk) <= f.want, ReceiveAmountReturns(r, chunk)
      PROVE  Len(delivered'[r]) <= Len(delivered[r]) + f.want
  <2>1. delivered' = [delivered EXCEPT ![r] = @ \o chunk]
    BY <1>2 DEF ReceiveAmountReturns, Return
  <2>2. delivered[r] \in Seq(Nat) /\ delivered'[r] = delivered[r] \o chunk
    BY <2>1 DEF TypeOK
  <2>3. Len(delivered'[r]) = Len(delivered[r]) + Len(chunk)
    BY <2>2
  <2> QED  BY <1>1, <1>2, <2>2, <2>3
<1>3. ASSUME frame'[r] = frame[r]  PROVE FALSE
  BY <1>3 DEF Returns
<1>4. CASE Step(r)
  <2>1. CASE RecvData(r)
    <3>1. frame'[r].op # f.op
      BY DEF Returns
    <3> QED  BY <1>2, <2>1, <3>1, RecvDataFits
  <2>2. CASE RecvNothing(r)
    BY <1>1, <1>2, <2>2 DEF RecvNothing, Fits
  <2>3. CASE ReadyForMore(r)
    <3>1. CASE Goto(r, [f EXCEPT !.pc = "recv"])
      <4>1. frame'[r].op = f.op
        BY <1>1, <3>1 DEF TypeOK, Goto, Frames
      <4> QED  BY <4>1 DEF Returns
    <3>2. CASE ReceiveAmountReturns(r, f.buf)
      BY <1>1, <1>2, <2>3, <3>2 DEF ReadyForMore, Fits
    <3> QED  BY <2>3, <3>1, <3>2 DEF ReadyForMore
  <2>4. CASE ReadyForCharacter(r) \/ ReadyForAll(r)
    BY <2>4 DEF ReadyForCharacter, ReadyForAll
  <2>5. CASE PollForAmount(r)
    <3>1. frame'[r].op = f.op
      BY <1>1, <2>5 DEF PollForAmount, TypeOK, Goto, Frames
    <3> QED  BY <3>1 DEF Returns
  <2> QED  BY <1>4, <2>1, <2>2, <2>3, <2>4, <2>5 DEF Step
<1>5. CASE Call(r) \/ Close(r)
  BY <1>3, <1>5 DEF Returns, Call, ReceiveAmount, Get, ReceiveToDelimiter, ReceiveAll, Start, Close
<1>6. CASE \E s \in Readers : s # r /\ (Call(s) \/ Step(s) \/ Close(s))
  BY <1>3, <1>6, OtherFrames
<1>7. CASE PeerClose \/ UNCHANGED vars
  BY <1>3, <1>7 DEF PeerClose, vars
<1>8. CASE \E message \in SeqOf(Bytes, MaxMessage) : Send(message)
  BY <1>3, <1>8 DEF Send
<1> QED  BY <1>4, <1>5, <1>6, <1>7, <1>8 DEF Next

\* receiveAmount() never hands its caller more than the caller asked for, and
\* so never writes past the caller's buffer, however many recv()s it takes.
THEOREM NeverOverrunsHolds == Spec => NeverOverruns
<1>1. TypeOK /\ BufferFits /\ [Next]_vars =>
        [\A r \in Readers :
           Returns(r) /\ frame[r].op \in {"amount", "get"}
             => Len(delivered'[r]) <= Len(delivered[r]) + frame[r].want]_vars
  BY NoOverrunStep, ConstantsAssumption
<1> QED  BY <1>1, TypeCorrect, BufferAlwaysFits, PTL DEF Spec, NeverOverruns
=============================================================================

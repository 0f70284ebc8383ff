----------------------- MODULE DescriptorTableProofs ------------------------
(***************************************************************************)
(* What a specification that implements DescriptorTable may rely on, for   *)
(* any owners and any descriptors.                                         *)
(***************************************************************************)
EXTENDS DescriptorTable, TLAPS

\* The invariant is inductive as it stands.
IInv == TypeOK /\ HeldByOne

\* At first nothing is open or held.
LEMMA InitInv == Init => IInv
  BY DEF Init, IInv, TypeOK, HeldByOne

\* The number acquired was not open, so nobody held it.
LEMMA AcquireInv ==
  ASSUME IInv, NEW o \in Owners, NEW fd \in Fds, Acquire(o, fd)
  PROVE  IInv'
<1>1. TypeOK'
  BY DEF IInv, TypeOK, Acquire
<1>2. \A p \in Owners, f \in Fds : <<p, f>> \in handles' => f \in open'
  BY DEF IInv, HeldByOne, Acquire
<1>3. \A f \in open' : \E p \in Owners : <<p, f>> \in handles'
  BY DEF IInv, HeldByOne, Acquire
<1>4. \A p, q \in Owners, f \in Fds : <<p, f>> \in handles' /\ <<q, f>> \in handles' => p = q
  BY DEF IInv, HeldByOne, Acquire
<1> QED BY <1>1, <1>2, <1>3, <1>4 DEF IInv, HeldByOne

\* A descriptor that is released had no other holder.
LEMMA ReleaseInv ==
  ASSUME IInv, NEW o \in Owners, NEW fd \in Fds, Release(o, fd)
  PROVE  IInv'
<1>1. TypeOK'
  BY DEF IInv, TypeOK, Release
<1>2. ASSUME NEW p \in Owners, NEW f \in Fds, <<p, f>> \in handles'
      PROVE  f \in open'
  <2>1. <<p, f>> \in handles /\ <<p, f>> # <<o, fd>> /\ <<o, fd>> \in handles
    BY <1>2 DEF Release
  <2>2. f # fd
    BY <2>1 DEF IInv, HeldByOne
  <2>3. f \in open
    BY <2>1 DEF IInv, HeldByOne
  <2> QED BY <2>2, <2>3 DEF Release
<1>3. ASSUME NEW f \in open'
      PROVE  \E p \in Owners : <<p, f>> \in handles'
  <2>1. f \in open /\ f # fd
    BY DEF Release
  <2>2. PICK p \in Owners : <<p, f>> \in handles
    BY <2>1 DEF IInv, HeldByOne
  <2>3. <<p, f>> \in handles'
    BY <2>1, <2>2 DEF Release
  <2> QED BY <2>3
<1>4. \A p, q \in Owners, f \in Fds : <<p, f>> \in handles' /\ <<q, f>> \in handles' => p = q
  BY DEF IInv, HeldByOne, Release
<1> QED BY <1>1, <1>2, <1>3, <1>4 DEF IInv, HeldByOne

\* After the end of the process nothing is open or held.
LEMMA ExitInv == Exit => IInv'
  BY DEF Exit, IInv, TypeOK, HeldByOne

\* A step of something else changes nothing.
LEMMA StutterInv == IInv /\ UNCHANGED vars => IInv'
  BY DEF vars, IInv, TypeOK, HeldByOne

\* In every behaviour of DescriptorTable, and so of what implements it, the
\* descriptors that are open are those that are held, each by one owner.
THEOREM DescriptorsHeldByOne == Spec => [](TypeOK /\ HeldByOne)
<1>1. IInv /\ [Next]_vars => IInv'
  <2> SUFFICES ASSUME IInv, [Next]_vars PROVE IInv'
    OBVIOUS
  <2>1. CASE Exit
    BY <2>1, ExitInv
  <2>2. ASSUME NEW o \in Owners, NEW fd \in Fds, Acquire(o, fd) PROVE IInv'
    BY <2>2, AcquireInv
  <2>3. ASSUME NEW o \in Owners, NEW fd \in Fds, Release(o, fd) PROVE IInv'
    BY <2>3, ReleaseInv
  <2>4. CASE UNCHANGED vars
    BY <2>4, StutterInv
  <2> QED BY <2>1, <2>2, <2>3, <2>4 DEF Next
<1>2. IInv => TypeOK /\ HeldByOne
  BY DEF IInv
<1> QED BY InitInv, <1>1, <1>2, PTL DEF Spec
=============================================================================

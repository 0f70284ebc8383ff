--------------------------- MODULE DescriptorTable --------------------------
(***************************************************************************)
(* What the objects of the library promise about the descriptors of their  *)
(* process, with no system calls and no failures: whoever opens a socket   *)
(* gets a number nobody holds, is the only one to hold it, and is the one  *)
(* to close it; a number is open exactly as long as it is held.            *)
(***************************************************************************)
CONSTANTS
  Owners,   \* who may hold a descriptor
  Fds       \* the descriptor numbers

VARIABLES
  open,     \* the descriptors that are open
  handles   \* the pairs <<owner, descriptor>> of those that are held

vars == <<open, handles>>

Init == open = {} /\ handles = {}

Acquire(o, fd) ==
  /\ fd \notin open
  /\ open' = open \cup {fd}
  /\ handles' = handles \cup {<<o, fd>>}

Release(o, fd) ==
  /\ <<o, fd>> \in handles
  /\ open' = open \ {fd}
  /\ handles' = handles \ {<<o, fd>>}

\* The process ends.
Exit == open' = {} /\ handles' = {}

Next == Exit \/ \E o \in Owners, fd \in Fds : Acquire(o, fd) \/ Release(o, fd)

Spec == Init /\ [][Next]_vars
-----------------------------------------------------------------------------
TypeOK == open \subseteq Fds /\ handles \subseteq Owners \X Fds

\* What follows for the owners: a descriptor they hold is open, an open one is
\* held, and no two of them hold the same.
HeldByOne ==
  /\ \A o \in Owners, fd \in Fds : <<o, fd>> \in handles => fd \in open
  /\ \A fd \in open : \E o \in Owners : <<o, fd>> \in handles
  /\ \A o, p \in Owners, fd \in Fds : <<o, fd>> \in handles /\ <<p, fd>> \in handles => o = p
=============================================================================

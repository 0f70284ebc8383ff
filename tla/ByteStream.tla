----------------------------- MODULE ByteStream -----------------------------
(***************************************************************************)
(* What one reader of a connected stream is promised, with no descriptors, *)
(* polls or receive loops: the bytes the peer wrote are handed over in the *)
(* order they were written, each at most once, and none is skipped except  *)
(* the one terminator a call may swallow right after what it returns.      *)
(*                                                                         *)
(* A byte is known by its position in sent.                                *)
(***************************************************************************)
EXTENDS Naturals, Sequences

VARIABLES
  sent,       \* every byte the peer has written, in order
  settled,    \* how many of them the reader's finished calls account for
  delivered,  \* the positions those calls returned, in order
  dropped     \* the positions those calls swallowed

vars == <<sent, settled, delivered, dropped>>

Init ==
  /\ sent = << >>
  /\ settled = 0
  /\ delivered = << >>
  /\ dropped = {}

\* The peer writes: sent only grows at its end.
Write ==
  /\ Len(sent') > Len(sent)
  /\ SubSeq(sent', 1, Len(sent)) = sent
  /\ UNCHANGED <<settled, delivered, dropped>>

\* A call returns the next k bytes and swallows the d (0 or 1) after them.
HandOver(k, d) ==
  /\ settled + k + d <= Len(sent)
  /\ settled' = settled + k + d
  /\ delivered' = delivered \o [i \in 1..k |-> settled + i]
  /\ dropped' = dropped \cup (settled + k + 1)..(settled + k + d)
  /\ UNCHANGED sent

Next == Write \/ \E k \in 0..Len(sent), d \in 0..1 : HandOver(k, d)

Spec == Init /\ [][Next]_vars
=============================================================================

--------------------- MODULE MCConnectionOrientedSocket ---------------------
(***************************************************************************)
(* ConnectionOrientedSocket for TLC: two readers are interchangeable.      *)
(***************************************************************************)
EXTENDS ConnectionOrientedSocket, TLC

ReaderSymmetry == Permutations(Readers)
=============================================================================

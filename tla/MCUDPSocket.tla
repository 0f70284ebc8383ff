----------------------------- MODULE MCUDPSocket ----------------------------
(***************************************************************************)
(* UDPSocket for TLC.                                                      *)
(***************************************************************************)
EXTENDS UDPSocket, MCSocketAddress, TLC

Symmetry == Permutations(Sockets) \cup Permutations(Fds)
=============================================================================

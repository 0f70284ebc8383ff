------------------------ MODULE MCDatagramIPCSocket -------------------------
(***************************************************************************)
(* DatagramIPCSocket for TLC.                                              *)
(***************************************************************************)
EXTENDS DatagramIPCSocket, TLC

Symmetry == Permutations(Sockets) \cup Permutations(Paths) \cup Permutations(Fds)
=============================================================================

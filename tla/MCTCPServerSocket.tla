------------------------- MODULE MCTCPServerSocket --------------------------
(***************************************************************************)
(* TCPServerSocket for TLC.                                                *)
(***************************************************************************)
EXTENDS TCPServerSocket, MCSocketAddress, TLC

Symmetry == Permutations(Servers) \cup Permutations(Clients) \cup Permutations(Fds)
=============================================================================

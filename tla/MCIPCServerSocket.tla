------------------------- MODULE MCIPCServerSocket --------------------------
(***************************************************************************)
(* IPCServerSocket for TLC.  The objects of a kind are interchangeable,    *)
(* and so are the paths and the descriptors, any free one of which the     *)
(* kernel may hand out.                                                    *)
(***************************************************************************)
EXTENDS IPCServerSocket, TLC

Symmetry ==
  Permutations(Servers) \cup Permutations(Clients) \cup Permutations(Paths) \cup Permutations(Fds)
=============================================================================

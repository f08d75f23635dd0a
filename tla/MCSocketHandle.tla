--------------------------- MODULE MCSocketHandle ---------------------------
(***************************************************************************)
(* Model checking of SocketHandle.  Threads, handles, sockets and          *)
(* descriptors are interchangeable: no action or property tells two of the *)
(* same kind apart (OwnerOf chooses among the owners of a descriptor, of   *)
(* which there is never more than one).                                    *)
(***************************************************************************)
EXTENDS SocketHandle, TLC

Symmetry ==
  Permutations(Threads) \cup Permutations(Handles)
    \cup Permutations(Sockets) \cup Permutations(Fds)
=============================================================================

------------------------ MODULE MCUnixDatagramSocket ------------------------
(***************************************************************************)
(* Model checking of UnixDatagramSocket.  Sockets are interchangeable, and *)
(* so are paths: no action or property tells two of a kind apart.          *)
(***************************************************************************)
EXTENDS UnixDatagramSocket, TLC

Symmetry == Permutations(Sockets) \cup Permutations(Paths)
=============================================================================

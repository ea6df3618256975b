--------------------------- MODULE MCSocketEvents ---------------------------
(* SocketEvents for TLC: connections and sockets as model values.  The      *)
(* properties are safety properties, so sockets and REST connections may be *)
(* exchanged for one another.                                              *)
EXTENDS SocketEvents

Symmetry == Permutations(Transfers) \cup Permutations(Sockets)
=============================================================================

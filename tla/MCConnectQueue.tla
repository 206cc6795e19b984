--------------------------- MODULE MCConnectQueue ---------------------------
(* Model of ConnectQueue for TLC: the requests are interchangeable. *)
EXTENDS ConnectQueue, TLC

Symmetry == Permutations(Reqs)
=============================================================================

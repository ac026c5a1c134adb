------------------------------ MODULE MCTCPService ------------------------------
(* Instances of TCPService for TLC; the clients are interchangeable. *)
EXTENDS TCPService, TLC

Symmetry == Permutations(Clients)
=============================================================================

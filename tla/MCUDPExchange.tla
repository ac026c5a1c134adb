----------------------------- MODULE MCUDPExchange -----------------------------
(***************************************************************************)
(* Instances of UDPExchange for TLC.  The clients are interchangeable, so  *)
(* the safety runs with two of them are checked up to symmetry.            *)
(***************************************************************************)
EXTENDS UDPExchange

Symmetry == Permutations(Clients)

(* Networks on which no datagram overtakes another. *)
InOrderFaults == FaultKinds \ {"reorder"}

(* The faults that the attempts of the client make up for. *)
RepairedFaults == {"lossRequest", "lossAck", "dup", "delay", "senderr"}
=============================================================================

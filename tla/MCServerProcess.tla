---------------------------- MODULE MCServerProcess ----------------------------
(* An instance of ServerProcess for TLC. *)
EXTENDS ServerProcess

SomeArguments ==
    { [count |-> 3, port |-> MIN_PORT, protocol |-> "tcp"],
      [count |-> 3, port |-> MAX_PORT, protocol |-> "udp"],
      [count |-> 2, port |-> MIN_PORT, protocol |-> "tcp"],
      [count |-> 3, port |-> MIN_PORT, protocol |-> "TCP"] }
    \cup { [count |-> 3, port |-> p, protocol |-> "tcp"] :
               p \in {NotANumber, MIN_PORT - 1, MAX_PORT + 1} }
=============================================================================

-------------------------------- MODULE TCPLink --------------------------------
(***************************************************************************)
(* The TCP connection of each client process to the server, as seen by     *)
(* send, recv, accept and close in client/Client.cpp and server/Server.cpp.*)
(* Bytes arrive in order and none is lost.  A request travels as two       *)
(* length-prefixed messages, the vertices and the edges; of a response the *)
(* length and the payload are told apart, because they are two send calls  *)
(* and the peer may be gone between them.  A message holds the number of   *)
(* the request it was made for, the payload of a response the numbers of   *)
(* the vertices and the edges it was computed from: what stands for the    *)
(* data, at which no code looks.                                           *)
(***************************************************************************)
EXTENDS Naturals, Sequences, FiniteSets

CONSTANT Clients   \* the client processes; each connects once

VARIABLES
    conn,       \* the server's end: "none", "backlog", "accepted" or "closed"
    up,         \* up[c]: whether the client's end is open
    toServer,   \* messages from c the server has not received
    toClient    \* pieces of a response c has not received

Message == [part : {"request", "edges"}, n : Nat]
Piece   == [part : {"header", "body"}, of : Nat \X Nat]

linkVars == <<conn, up, toServer, toClient>>

LinkTypeOK ==
    /\ conn \in [Clients -> {"none", "backlog", "accepted", "closed"}]
    /\ up \in [Clients -> BOOLEAN]
    /\ toServer \in [Clients -> Seq(Message)]
    /\ toClient \in [Clients -> Seq(Piece)]

LinkInit ==
    /\ conn = [c \in Clients |-> "none"]
    /\ up = [c \in Clients |-> FALSE]
    /\ toServer = [c \in Clients |-> << >>]
    /\ toClient = [c \in Clients |-> << >>]

ServerEndOpen(c) == conn[c] \in {"backlog", "accepted"}

(* What has become of a send: all went into the connection, or, the peer's *)
(* end being closed, an error, or the signal SIGPIPE, which nobody handles *)
(* and which therefore ends the process.                                   *)
Outcome(peerOpen) == IF peerOpen THEN {"sent"} ELSE {"sent", "error", "sigpipe"}

(* The two sends of sendTCP: the first one to a closed end is what makes   *)
(* the peer's host reset the connection, so only a later one meets SIGPIPE.*)
FirstOutcome(peerOpen) == Outcome(peerOpen) \ {"sigpipe"}
=============================================================================

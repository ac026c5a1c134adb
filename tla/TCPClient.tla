------------------------------- MODULE TCPClient -------------------------------
(***************************************************************************)
(* client/Client.cpp over TCP and the loop of client/ClientMain.cpp: one   *)
(* connection, on which each request is two messages and then a wait for   *)
(* the response.  The socket has no receive timeout (createSocket sets one *)
(* for UDP only).                                                          *)
(***************************************************************************)
EXTENDS TCPLink

CONSTANT MaxRequests   \* bound: the requests of one client

ASSUME TCPClientAssumption == MaxRequests \in Nat \ {0}

VARIABLES
    cpc,        \* where the client is, see ClientStates
    requests,   \* how many requests it began
    answered    \* what the response it holds was computed from, or NoAnswer

clientVars == <<cpc, requests, answered>>

NoAnswer == <<0, 0>>

Connected == {"prompt", "sendEdges", "receive"}
ClientStates ==
    Connected \cup {"start", "failed", "exited", "killed"}

ClientTypeOK ==
    /\ cpc \in [Clients -> ClientStates]
    /\ requests \in [Clients -> 0 .. MaxRequests]
    /\ answered \in [Clients -> Nat \X Nat]

ClientInit ==
    /\ cpc = [c \in Clients |-> "start"]
    /\ requests = [c \in Clients |-> 0]
    /\ answered = [c \in Clients |-> NoAnswer]

(* The process ends, by itself or not: its end of the connection closes.   *)
End(c, how) ==
    /\ cpc' = [cpc EXCEPT ![c] = how]
    /\ up' = [up EXCEPT ![c] = FALSE]

Connect(c, listening) ==
    /\ cpc[c] = "start"
    /\ \/ /\ listening
          /\ cpc' = [cpc EXCEPT ![c] = "prompt"]
          /\ up' = [up EXCEPT ![c] = TRUE]
          /\ conn' = [conn EXCEPT ![c] = "backlog"]
       \/ /\ ~ listening
          /\ cpc' = [cpc EXCEPT ![c] = "failed"]
          /\ UNCHANGED <<up, conn>>
    /\ UNCHANGED <<requests, answered, toServer, toClient>>

(* sendTCP of a message, after which the client is at next. *)
SendTCP(c, part, next) ==
    \E result \in Outcome(ServerEndOpen(c)) :
        \/ /\ result = "sent"
           /\ cpc' = [cpc EXCEPT ![c] = next]
           /\ toServer' = IF ServerEndOpen(c)
                            THEN [toServer EXCEPT ![c] =
                                        Append(@, [part |-> part, n |-> requests'[c]])]
                            ELSE toServer
           /\ UNCHANGED up
        \/ /\ result = "error"
           /\ End(c, "failed")
           /\ UNCHANGED toServer
        \/ /\ result = "sigpipe"
           /\ End(c, "killed")
           /\ UNCHANGED toServer

SendRequestData(c) ==
    /\ cpc[c] = "prompt"
    /\ requests[c] < MaxRequests
    /\ requests' = [requests EXCEPT ![c] = @ + 1]
    /\ answered' = [answered EXCEPT ![c] = NoAnswer]
    /\ SendTCP(c, "request", "sendEdges")
    /\ UNCHANGED <<conn, toClient>>

(* Wrong variant: the second message is forgotten. *)
SendEdgesDataNever(c) ==
    /\ cpc[c] = "sendEdges"
    /\ cpc' = [cpc EXCEPT ![c] = "receive"]
    /\ UNCHANGED <<requests, answered, conn, up, toServer, toClient>>

SendEdgesData(c) ==
    /\ cpc[c] = "sendEdges"
    /\ UNCHANGED <<requests, answered, conn, toClient>>
    /\ SendTCP(c, "edges", "receive")

(* receiveTCP: both pieces, or false when the server's end was closed first. *)
ReceiveResponse(c) ==
    /\ cpc[c] = "receive"
    /\ \/ /\ Len(toClient[c]) >= 2
          /\ cpc' = [cpc EXCEPT ![c] = "prompt"]
          /\ answered' = [answered EXCEPT ![c] = toClient[c][2].of]
          /\ toClient' = [toClient EXCEPT ![c] = << >>]
          /\ UNCHANGED up
       \/ /\ Len(toClient[c]) < 2
          /\ ~ ServerEndOpen(c)
          /\ End(c, "failed")
          /\ UNCHANGED <<toClient, answered>>
    /\ UNCHANGED <<requests, conn, toServer>>

Exit(c) ==
    /\ cpc[c] = "prompt"
    /\ End(c, "exited")
    /\ UNCHANGED <<requests, answered, conn, toServer, toClient>>

(* The user ends the client with Ctrl+C or kill, wherever it is. *)
Kill(c) ==
    /\ cpc[c] \in Connected
    /\ End(c, "killed")
    /\ UNCHANGED <<requests, answered, conn, toServer, toClient>>
=============================================================================

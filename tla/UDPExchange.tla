------------------------------ MODULE UDPExchange ------------------------------
(***************************************************************************)
(* The UDP service: every client of UDPClient and the server of UDPServer  *)
(* over the network of UDPNetwork.                                         *)
(***************************************************************************)
EXTENDS UDPClient, UDPServer

vars == <<toServer, toClient, faults, clientVars, serverVars>>

Init == NetworkInit /\ ClientInit /\ ServerInit

(***************************************************************************)
(* Nothing is on its way for c: no datagram of either direction is in      *)
(* flight and the server handles none.  This is an assumption about time   *)
(* and translates no line of the code: a receive of c times out only then, *)
(* since 3 seconds (SO_RCVTIMEO) are longer than the server's 50 ms and    *)
(* the trip.  Where they are not, that is the fault "delay".               *)
(***************************************************************************)
NothingOnTheWay(c) ==
    /\ toServer[c] = << >>
    /\ toClient[c] = << >>
    /\ \A h \in handling : h.client # c

TimesOut(c) ==
    \/ NothingOnTheWay(c) /\ UNCHANGED faults
    \/ ~ NothingOnTheWay(c) /\ Fault("delay")

(* The steps a client takes by itself once a request was entered. *)
ClientStep(c) ==
    \/ SendData(c)
    \/ SendDataFails(c)
    \/ ReceiveInWaitForAck(c)
    \/ TimeoutInWaitForAck(c) /\ TimesOut(c)
    \/ ReceiveInReceiveResponse(c)
    \/ TimeoutInReceiveResponse(c) /\ TimesOut(c)

ServerStep ==
    \/ \E c \in Clients : ReceivePacket(c)
    \/ SendAck
    \/ ProcessUDPRequest
    \/ CheckClientTimeouts
    \/ \E c \in Clients : Undeliverable(c)

Next ==
    \/ \E c \in Clients : \/ SendRequest(c)
                          \/ ClientStep(c)
                          \/ Exit(c)
                       /\ UNCHANGED serverVars
    \/ /\ \/ ServerStep
          \/ Tick
          \/ ServerStop
          \/ ServerStart
       /\ UNCHANGED clientVars

Spec == Init /\ [][Next]_vars

(***************************************************************************)
(* The scheduler runs both processes, a receive ends by SO_RCVTIMEO at the *)
(* latest, and the clock runs.  Nothing makes a user ask or leave, nor an  *)
(* operator stop or start the server.                                      *)
(***************************************************************************)
Fairness ==
    /\ \A c \in Clients : WF_vars(ClientStep(c) /\ UNCHANGED serverVars)
    /\ \A c \in Clients : WF_vars(ReceivePacket(c) /\ UNCHANGED clientVars)
    /\ \A c \in Clients : WF_vars(Undeliverable(c) /\ UNCHANGED clientVars)
    /\ WF_vars((SendAck \/ ProcessUDPRequest \/ CheckClientTimeouts)
                 /\ UNCHANGED clientVars)
    /\ WF_vars(Tick /\ UNCHANGED clientVars)

LiveSpec == Spec /\ Fairness
-----------------------------------------------------------------------------
TypeOK == NetworkTypeOK /\ ClientTypeOK /\ ServerTypeOK

(***************************************************************************)
(* The result that sendRequest hands back belongs to the request it was    *)
(* called with, although receiveResponse checks neither the sender nor the *)
(* packet_id of the datagram it takes, late answers to retransmissions of  *)
(* earlier requests may still be queued, and datagrams get lost or         *)
(* doubled.  It holds as long as no datagram overtakes another.            *)
(***************************************************************************)
AnswerIsForRequest ==
    \A c \in Clients :
        cpc[c] = "idle" /\ nextPacketId[c] > 1 => answer[c] = PacketId(c)

(***************************************************************************)
(* When waitForAck returns true the server did receive this request: no    *)
(* ACK of an earlier request, of an earlier transmission or of a server    *)
(* process that ended meanwhile is taken for it, on any network.           *)
(***************************************************************************)
AckedMeansReceived ==
    \A c \in Clients : cpc[c] = "waitResp" => PacketId(c) \in heard[c]

(***************************************************************************)
(* The retransmissions of sendWithAck and the repeated reads of waitForAck *)
(* and receiveResponse make up for fewer faults than UDP_MAX_ATTEMPTS: no  *)
(* request fails, whatever the late datagrams of earlier requests do to    *)
(* the reads of the later ones.                                            *)
(***************************************************************************)
NeverGivesUp == \A c \in Clients : cpc[c] # "failed"

(***************************************************************************)
(* A client that the server heard within CLIENT_TIMEOUT_SEC is known to    *)
(* it: checkClientTimeouts, run after the datagram of one client, never    *)
(* drops another one that spoke recently.                                  *)
(***************************************************************************)
RecentClientIsKnown ==
    \A c \in Clients :
        lastHeard[c] >= 0 /\ now - lastHeard[c] <= ClientTimeout
            => c \in DOMAIN activeClients

(***************************************************************************)
(* sendRequest returns: every request ends with an answer or with the loss *)
(* of the server, whatever the network and the server do, so the user is   *)
(* never left without a reply.                                             *)
(***************************************************************************)
EveryRequestEnds ==
    \A c \in Clients : cpc[c] = "send" ~> cpc[c] \in {"idle", "failed"}

(***************************************************************************)
(* Every request is answered in the end when fewer faults than             *)
(* UDP_MAX_ATTEMPTS happen.                                                *)
(***************************************************************************)
EveryRequestIsAnswered ==
    \A c \in Clients : cpc[c] = "send" ~> cpc[c] = "idle" /\ answer[c] = PacketId(c)
-----------------------------------------------------------------------------
(***************************************************************************)
(* The exchange implements RequestReply.                                   *)
(***************************************************************************)
Phase(c) == IF cpc[c] \in {"send", "waitAck", "waitResp"} THEN "pending" ELSE cpc[c]

Promise == INSTANCE RequestReply WITH
    phase    <- [c \in Clients |-> Phase(c)],
    asked    <- [c \in Clients |-> PacketId(c)],
    answered <- answer

(***************************************************************************)
(* Every client gets, per request, the answer to that request, computed by *)
(* the server after it received the request, or an error and nothing more: *)
(* the safety part of what Client.h promises of sendRequest.               *)
(***************************************************************************)
KeepsPromise == Promise!Spec
-----------------------------------------------------------------------------
(***************************************************************************)
(* What the two properties above rest on, on any network.  A datagram to c *)
(* belongs to a request the server received, and if it is an answer, to    *)
(* one it answered; the server received only requests c made.              *)
(***************************************************************************)
Causal ==
    /\ \A c \in Clients :
           /\ \A i \in DOMAIN toServer[c] : toServer[c][i].n <= PacketId(c)
           /\ \A i \in DOMAIN toClient[c] :
                  /\ toClient[c][i].n \in heard[c]
                  /\ toClient[c][i].type = "DATA" => toClient[c][i].n \in served[c]
           /\ served[c] \subseteq heard[c]
           /\ heard[c] \subseteq 1 .. PacketId(c)
    /\ \A h \in handling : h.n \in heard[h.client]

Ordered(q) == \A i, j \in DOMAIN q : i <= j => q[i].n <= q[j].n

(***************************************************************************)
(* The order of what is on its way for c, on a network where no datagram   *)
(* overtakes another: read from the client's end, the datagrams to the     *)
(* client, the request the server handles and the datagrams to the server  *)
(* belong to ever later requests.  A client that saw the ACK of its        *)
(* request therefore has nothing older before it, which is why taking any  *)
(* DATA for the response is correct.                                       *)
(***************************************************************************)
InOrder ==
    \A c \in Clients :
        /\ Ordered(toServer[c])
        /\ Ordered(toClient[c])
        /\ \A i \in DOMAIN toClient[c], j \in DOMAIN toServer[c] :
               toClient[c][i].n <= toServer[c][j].n
        /\ \A h \in handling : h.client = c =>
               /\ \A i \in DOMAIN toClient[c] : toClient[c][i].n <= h.n
               /\ \A j \in DOMAIN toServer[c] : h.n <= toServer[c][j].n
        /\ cpc[c] = "waitResp" =>
               /\ \A i \in DOMAIN toClient[c] : PacketId(c) <= toClient[c][i].n
               /\ \A j \in DOMAIN toServer[c] : PacketId(c) <= toServer[c][j].n
               /\ \A h \in handling : h.client = c => PacketId(c) <= h.n
=============================================================================

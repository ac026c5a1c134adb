------------------------------- MODULE UDPClient -------------------------------
(***************************************************************************)
(* client/Client.cpp over UDP: sendRequest, which is sendWithAck (send and *)
(* wait for the ACK, up to MaxAttempts times) followed by receiveResponse, *)
(* and the loop of client/ClientMain.cpp around it, which makes one        *)
(* request after the other and ends the process when one fails.            *)
(*                                                                         *)
(* A step is one sendto, one recvfrom that returned a datagram, or one     *)
(* recvfrom that timed out, with all the code up to the next such call.    *)
(***************************************************************************)
EXTENDS UDPNetwork

CONSTANT MaxAttempts   \* UDP_MAX_ATTEMPTS: sends of a request, and reads of a wait

ASSUME ClientAssumption == MaxAttempts \in Nat \ {0}

VARIABLES
    cpc,            \* where the client is in its loop, see ClientStates
    nextPacketId,   \* the number of the next request
    attempt,        \* attempts of sendWithAck used up
    reads,          \* recvfrom calls made in the current waiting loop
    answer          \* the request whose result the last response holds; 0: none

clientVars == <<cpc, nextPacketId, attempt, reads, answer>>

ClientStates ==
    { "idle",       \* in processClientRequest, reading the user's input
      "send",       \* sendWithAck, about to send
      "waitAck",    \* waitForAck
      "waitResp",   \* receiveResponse
      "failed",     \* sendRequest returned false: the process ends
      "exited" }    \* the user typed exit

(* The packet_id of the request under way, and of the last one when idle. *)
PacketId(c) == nextPacketId[c] - 1

ClientTypeOK ==
    /\ cpc \in [Clients -> ClientStates]
    /\ nextPacketId \in [Clients -> 1 .. MaxRequests + 1]
    /\ attempt \in [Clients -> 0 .. MaxAttempts]
    /\ reads \in [Clients -> 0 .. MaxAttempts]
    /\ answer \in [Clients -> 0 .. MaxRequests]

ClientInit ==
    /\ cpc = [c \in Clients |-> "idle"]
    /\ nextPacketId = [c \in Clients |-> 1]
    /\ attempt = [c \in Clients |-> 0]
    /\ reads = [c \in Clients |-> 0]
    /\ answer = [c \in Clients |-> 0]

(* sendRequest up to the first attempt of sendWithAck. *)
SendRequest(c) ==
    /\ cpc[c] = "idle"
    /\ nextPacketId[c] <= MaxRequests
    /\ cpc' = [cpc EXCEPT ![c] = "send"]
    /\ nextPacketId' = [nextPacketId EXCEPT ![c] = @ + 1]
    /\ attempt' = [attempt EXCEPT ![c] = 0]
    /\ answer' = [answer EXCEPT ![c] = 0]
    /\ UNCHANGED <<reads, toServer, toClient, faults>>

(* Wrong variants, for checking the properties: one attempt too many, and no *)
(* second attempt at all.                                                    *)
EndAttemptOneTooMany(c) ==
    /\ attempt' = [attempt EXCEPT ![c] = @ + 1]
    /\ cpc' = [cpc EXCEPT ![c] = IF attempt[c] < MaxAttempts THEN "send" ELSE "failed"]

EndAttemptWithoutRetry(c) ==
    /\ attempt' = [attempt EXCEPT ![c] = @ + 1]
    /\ cpc' = [cpc EXCEPT ![c] = "failed"]

(* An attempt failed: the next one, or false when all are used up. *)
EndAttempt(c) ==
    /\ attempt' = [attempt EXCEPT ![c] = @ + 1]
    /\ cpc' = [cpc EXCEPT ![c] = IF attempt[c] + 1 < MaxAttempts THEN "send"
                                                                 ELSE "failed"]

SendData(c) ==
    /\ cpc[c] = "send"
    /\ SendToServer(c, DataPacket(PacketId(c)))
    /\ cpc' = [cpc EXCEPT ![c] = "waitAck"]
    /\ reads' = [reads EXCEPT ![c] = 0]
    /\ UNCHANGED <<nextPacketId, attempt, answer, toClient>>

SendDataFails(c) ==
    /\ cpc[c] = "send"
    /\ Fault("senderr")
    /\ EndAttempt(c)
    /\ UNCHANGED <<nextPacketId, reads, answer, toServer, toClient>>

(* A read of waitForAck that did not bring the ACK waited for. *)
AckMissed(c) ==
    /\ reads' = [reads EXCEPT ![c] = @ + 1]
    /\ \/ /\ reads[c] + 1 < MaxAttempts
          /\ UNCHANGED <<cpc, attempt>>
       \/ /\ reads[c] + 1 >= MaxAttempts
          /\ EndAttempt(c)

(* Wrong variants: the packet_id is not compared; DATA counts as an ACK. *)
IsAnyAck(m, id) == m.type = "ACK"
IsAckForOrData(m, id) == m.type = "DATA" \/ m.n = id

IsAckFor(m, id) == m.type = "ACK" /\ m.n = id

ReceiveInWaitForAck(c) ==
    /\ cpc[c] = "waitAck"
    /\ TakeFromClientQueue(c)
    /\ LET m == Head(toClient[c])
       IN  \/ /\ IsAckFor(m, PacketId(c))
              /\ cpc' = [cpc EXCEPT ![c] = "waitResp"]
              /\ reads' = [reads EXCEPT ![c] = 0]
              /\ UNCHANGED attempt
           \/ /\ ~ IsAckFor(m, PacketId(c))
              /\ AckMissed(c)
    /\ UNCHANGED <<nextPacketId, answer, toServer, faults>>

(* recvfrom returned after SO_RCVTIMEO; when it may is said in UDPExchange. *)
TimeoutInWaitForAck(c) ==
    /\ cpc[c] = "waitAck"
    /\ AckMissed(c)
    /\ UNCHANGED <<nextPacketId, answer, toServer, toClient>>

(* Wrong variants: no second read; success after the last read; no limit. *)
ResponseMissedAtOnce(c) ==
    /\ reads' = [reads EXCEPT ![c] = @ + 1]
    /\ cpc' = [cpc EXCEPT ![c] = "failed"]

ResponseMissedIsSuccess(c) ==
    /\ reads' = [reads EXCEPT ![c] = @ + 1]
    /\ cpc' = [cpc EXCEPT ![c] = IF reads[c] + 1 < MaxAttempts THEN "waitResp" ELSE "idle"]

ResponseMissedNoLimit(c) == UNCHANGED <<reads, cpc>>

(* A read of receiveResponse that did not bring a response. *)
ResponseMissed(c) ==
    /\ reads' = [reads EXCEPT ![c] = @ + 1]
    /\ cpc' = [cpc EXCEPT ![c] = IF reads[c] + 1 < MaxAttempts THEN "waitResp"
                                                               ELSE "failed"]

(* Any datagram of type DATA is taken for the response to this request. *)
IsResponse(m, id) == m.type = "DATA"

ReceiveInReceiveResponse(c) ==
    /\ cpc[c] = "waitResp"
    /\ TakeFromClientQueue(c)
    /\ LET m == Head(toClient[c])
       IN  \/ /\ IsResponse(m, PacketId(c))
              /\ cpc' = [cpc EXCEPT ![c] = "idle"]
              /\ answer' = [answer EXCEPT ![c] = m.n]
              /\ UNCHANGED reads
           \/ /\ ~ IsResponse(m, PacketId(c))
              /\ ResponseMissed(c)
              /\ UNCHANGED answer
    /\ UNCHANGED <<nextPacketId, attempt, toServer, faults>>

TimeoutInReceiveResponse(c) ==
    /\ cpc[c] = "waitResp"
    /\ ResponseMissed(c)
    /\ UNCHANGED <<nextPacketId, attempt, answer, toServer, toClient>>

(* The user types exit; the loop of main ends and the socket is closed. *)
Exit(c) ==
    /\ cpc[c] = "idle"
    /\ cpc' = [cpc EXCEPT ![c] = "exited"]
    /\ UNCHANGED <<nextPacketId, attempt, reads, answer>>
    /\ UNCHANGED <<toServer, toClient, faults>>
=============================================================================

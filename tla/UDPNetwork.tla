------------------------------ MODULE UDPNetwork ------------------------------
(***************************************************************************)
(* The UDP path between each client and the server, as the code in         *)
(* client/Client.cpp and server/Server.cpp meets it through sendto and     *)
(* recvfrom: one queue per direction and client, which holds the datagrams *)
(* in flight and those in the receiver's socket buffer.                    *)
(*                                                                         *)
(* A healthy network delivers once and in order.  Every deviation is a     *)
(* fault of a named kind: it happens only when Faults has the kind, and    *)
(* MaxFaults bounds the faults of one behaviour.  Loss, duplication and    *)
(* overtaking are chosen when the datagram is sent.                        *)
(***************************************************************************)
EXTENDS SequencesExt

CONSTANTS
    Clients,       \* the client processes; each has an address of its own
    MaxRequests,   \* bound: the requests one client process makes
    Faults,        \* the kinds of fault that may happen
    MaxFaults      \* bound: the faults that happen in one behaviour

FaultKinds ==
    { "lossRequest", "lossAck", "lossAnswer",  \* a datagram vanishes
      "dup",       \* a datagram arrives twice in a row
      "reorder",   \* a datagram overtakes others of its direction
      "delay",     \* a receive times out although a datagram is on its way
      "senderr",   \* the client's sendto fails
      "crash" }    \* the server process ends; it may be started again

ASSUME NetworkAssumption ==
    /\ MaxRequests \in Nat \ {0}
    /\ Faults \subseteq FaultKinds
    /\ MaxFaults \in Nat

VARIABLES
    toServer,   \* toServer[c]: datagrams from c to the server, oldest first
    toClient,   \* toClient[c]: datagrams from the server to c, oldest first
    faults      \* how many faults happened so far

(***************************************************************************)
(* A datagram.  n is the client's number of the request it belongs to: the *)
(* packet_id of a request or of an ACK, and for an answer the request      *)
(* whose result the payload is.  An answer also carries a packet_id of the *)
(* server's own counter, which no client ever looks at.                    *)
(***************************************************************************)
Packet == [type : {"DATA", "ACK"}, n : 1 .. MaxRequests]

(* Wrong variant: createAckPacket with the type of createDataPacket. *)
AckPacketTypedData(n) == [type |-> "DATA", n |-> n]

DataPacket(n) == [type |-> "DATA", n |-> n]
AckPacket(n)  == [type |-> "ACK",  n |-> n]

NetworkTypeOK ==
    /\ toServer \in [Clients -> Seq(Packet)]
    /\ toClient \in [Clients -> Seq(Packet)]
    /\ faults \in 0 .. MaxFaults

NetworkInit ==
    /\ toServer = [c \in Clients |-> << >>]
    /\ toClient = [c \in Clients |-> << >>]
    /\ faults = 0

Fault(kind) ==
    /\ kind \in Faults
    /\ faults < MaxFaults
    /\ faults' = faults + 1

(* The queues that the faults of the network can make of q when m is sent. *)
Altered(q, m, loss) ==
    LET with(kind, queues) == {r \in queues : kind \in Faults}
    IN  UNION { with(loss, {q}),
                with("dup", {Append(Append(q, m), m)}),
                with("reorder", {InsertAt(q, i, m) : i \in 1 .. Len(q)}) }

SendToServer(c, m) ==
    \/ /\ toServer' = [toServer EXCEPT ![c] = Append(@, m)]
       /\ UNCHANGED faults
    \/ /\ faults < MaxFaults
       /\ faults' = faults + 1
       /\ \E q \in Altered(toServer[c], m, "lossRequest") :
              toServer' = [toServer EXCEPT ![c] = q]

SendToClient(c, m) ==
    \/ /\ toClient' = [toClient EXCEPT ![c] = Append(@, m)]
       /\ UNCHANGED faults
    \/ /\ faults < MaxFaults
       /\ faults' = faults + 1
       /\ \E q \in Altered(toClient[c], m,
                           IF m.type = "ACK" THEN "lossAck" ELSE "lossAnswer") :
              toClient' = [toClient EXCEPT ![c] = q]

(* recvfrom takes the oldest datagram off the queue. *)
TakeFromServerQueue(c) ==
    /\ toServer[c] # << >>
    /\ toServer' = [toServer EXCEPT ![c] = Tail(@)]

TakeFromClientQueue(c) ==
    /\ toClient[c] # << >>
    /\ toClient' = [toClient EXCEPT ![c] = Tail(@)]
=============================================================================

------------------------------- MODULE UDPServer -------------------------------
(***************************************************************************)
(* server/Server.cpp over UDP: the single thread of runUDP, which takes a  *)
(* datagram, notes that its sender is alive, acknowledges it, computes and *)
(* sends the response, and drops the clients it has not heard for longer   *)
(* than ClientTimeout.  The clients of client/Client.cpp send only DATA,   *)
(* so the branch of runUDP that ignores an ACK has no step here.  A poll   *)
(* that finds no datagram changes nothing and is a stuttering step.        *)
(***************************************************************************)
EXTENDS UDPNetwork

CONSTANTS
    ClientTimeout,   \* CLIENT_TIMEOUT_SEC
    MaxTime          \* bound: the seconds the steady clock runs

ASSUME ServerAssumption == ClientTimeout \in Nat /\ MaxTime \in Nat

VARIABLES
    spc,             \* where the server is in its loop, see ServerStates
    handling,        \* {the request being handled}, or {}
    activeClients,   \* the address last heard at a time, by client
    now,             \* steady_clock::now, in seconds
    lastHeard,       \* history: when this server process last heard c; -1: never
    heard,           \* history: the requests of c that a server received
    served           \* history: the requests of c that a server answered

serverVars == <<spc, handling, activeClients, now, lastHeard, heard, served>>

ServerStates ==
    { "down",     \* no server process
      "poll",     \* receiveUDPPacket
      "ack",      \* handleUDPDataPacket, about to call sendAck
      "reply",    \* processUDPRequest
      "check" }   \* about to call checkClientTimeouts

NoClients == [c \in {} |-> 0]

ServerTypeOK ==
    /\ spc \in ServerStates
    /\ handling \subseteq [client : Clients, n : 1 .. MaxRequests]
    /\ \A g, h \in handling : g = h
    /\ DOMAIN activeClients \subseteq Clients
    /\ activeClients \in [DOMAIN activeClients -> 0 .. MaxTime]
    /\ now \in 0 .. MaxTime
    /\ lastHeard \in [Clients -> -1 .. MaxTime]
    /\ heard \in [Clients -> SUBSET (1 .. MaxRequests)]
    /\ served \in [Clients -> SUBSET (1 .. MaxRequests)]

ServerInit ==
    /\ spc = "poll"
    /\ handling = {}
    /\ activeClients = NoClients
    /\ now = 0
    /\ lastHeard = [c \in Clients |-> -1]
    /\ heard = [c \in Clients |-> {}]
    /\ served = [c \in Clients |-> {}]

(* Wrong variant: only the first datagram of a client sets its time. *)
UpdateClientActivityOnce(c) ==
    activeClients' = [d \in DOMAIN activeClients \cup {c} |->
                         IF d \in DOMAIN activeClients THEN activeClients[d] ELSE now]

UpdateClientActivity(c) ==
    activeClients' = [d \in DOMAIN activeClients \cup {c} |->
                         IF d = c THEN now ELSE activeClients[d]]

(* receiveUDPPacket returned a datagram of c; updateClientActivity. *)
ReceivePacket(c) ==
    /\ spc = "poll"
    /\ TakeFromServerQueue(c)
    /\ LET m == Head(toServer[c])
       IN  /\ handling' = {[client |-> c, n |-> m.n]}
           /\ heard' = [heard EXCEPT ![c] = @ \cup {m.n}]
    /\ UpdateClientActivity(c)
    /\ lastHeard' = [lastHeard EXCEPT ![c] = now]
    /\ spc' = "ack"
    /\ UNCHANGED <<now, served, toClient, faults>>

SendAck ==
    /\ spc = "ack"
    /\ \E h \in handling : SendToClient(h.client, AckPacket(h.n))
    /\ spc' = "reply"
    /\ UNCHANGED <<handling, activeClients, now, lastHeard, heard, served, toServer>>

(* processRequest and the datagram with its result, in processUDPRequest. *)
ProcessUDPRequest ==
    /\ spc = "reply"
    /\ \E h \in handling :
           /\ SendToClient(h.client, DataPacket(h.n))
           /\ served' = [served EXCEPT ![h.client] = @ \cup {h.n}]
    /\ handling' = {}
    /\ spc' = "check"
    /\ UNCHANGED <<activeClients, now, lastHeard, heard, toServer>>

CheckClientTimeouts ==
    /\ spc = "check"
    /\ LET kept == {c \in DOMAIN activeClients :
                        now - activeClients[c] <= ClientTimeout}
       IN  activeClients' = [c \in kept |-> activeClients[c]]
    /\ spc' = "poll"
    /\ UNCHANGED <<handling, now, lastHeard, heard, served, toServer, toClient, faults>>

Tick ==
    /\ now < MaxTime
    /\ now' = now + 1
    /\ UNCHANGED <<spc, handling, activeClients, lastHeard, heard, served>>
    /\ UNCHANGED <<toServer, toClient, faults>>

(* The process ends, by a signal or otherwise: its memory is gone. *)
ServerStop ==
    /\ spc # "down"
    /\ Fault("crash")
    /\ spc' = "down"
    /\ handling' = {}
    /\ activeClients' = NoClients
    /\ lastHeard' = [c \in Clients |-> -1]
    /\ UNCHANGED <<now, heard, served, toServer, toClient>>

ServerStart ==
    /\ spc = "down"
    /\ spc' = "poll"
    /\ UNCHANGED <<handling, activeClients, now, lastHeard, heard, served>>
    /\ UNCHANGED <<toServer, toClient, faults>>

(* No socket is bound to the server's port: the host drops the datagram. *)
Undeliverable(c) ==
    /\ spc = "down"
    /\ TakeFromServerQueue(c)
    /\ UNCHANGED <<serverVars, toClient, faults>>
=============================================================================

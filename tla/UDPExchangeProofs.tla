--------------------------- MODULE UDPExchangeProofs ---------------------------
(***************************************************************************)
(* Theorems about UDPExchange, for every set of clients, every number of   *)
(* requests and attempts, and every set and number of faults.              *)
(***************************************************************************)
EXTENDS UDPExchange, SequenceTheorems, TLAPS

-----------------------------------------------------------------------------
(***************************************************************************)
(* What a send does to a queue.  r comes from q by the arrival of m: it    *)
(* holds elements of q and copies of m only.                               *)
(***************************************************************************)
Arrival(q, m, r) ==
    /\ r \in Seq(Packet)
    /\ \A i \in DOMAIN r : r[i] = m \/ \E j \in DOMAIN q : r[i] = q[j]

(* Without overtaking the order of q carries over to r when m is the newest. *)
KeepsOrder(q, m, r) ==
    ("reorder" \notin Faults /\ Ordered(q) /\ \A i \in DOMAIN q : q[i].n <= m.n)
        => Ordered(r)

(* The numbers of the datagrams in a queue. *)
LEMMA NumbersInQueue ==
    ASSUME NEW q \in Seq(Packet)
    PROVE  \A i \in DOMAIN q : q[i].n \in 1 .. MaxRequests
<1>1. \A i \in DOMAIN q : q[i] \in Packet
  BY ElementOfSeq, LenProperties
<1> QED BY <1>1 DEF Packet

(* A queue that gets one or two copies of m at its end. *)
LEMMA AppendIsArrival ==
    ASSUME NEW q \in Seq(Packet), NEW m \in Packet
    PROVE  /\ Arrival(q, m, Append(q, m))
           /\ Arrival(q, m, Append(Append(q, m), m))
<1>1. ASSUME NEW s \in Seq(Packet),
             \A i \in DOMAIN s : s[i] = m \/ \E j \in DOMAIN q : s[i] = q[j]
      PROVE  Arrival(q, m, Append(s, m))
  <2>1. Append(s, m) \in Seq(Packet)  /\ Len(Append(s, m)) = Len(s) + 1
    BY AppendProperties
  <2>2. \A i \in 1 .. Len(s) : Append(s, m)[i] = s[i]
    BY AppendProperties
  <2>3. Append(s, m)[Len(s) + 1] = m
    BY AppendProperties
  <2>4. DOMAIN Append(s, m) = 1 .. Len(s) + 1 /\ DOMAIN s = 1 .. Len(s)
    BY <2>1, LenProperties
  <2> QED BY <1>1, <2>1, <2>2, <2>3, <2>4, LenProperties DEF Arrival
<1>2. Arrival(q, m, Append(q, m))
  BY <1>1
<1>3. Arrival(q, m, Append(Append(q, m), m))
  BY <1>1, <1>2 DEF Arrival
<1> QED BY <1>2, <1>3

(* A queue into which m is inserted before the element i. *)
LEMMA InsertIsArrival ==
    ASSUME NEW q \in Seq(Packet), NEW m \in Packet, NEW i \in 1 .. Len(q)
    PROVE  Arrival(q, m, InsertAt(q, i, m))
<1> DEFINE a == SubSeq(q, 1, i - 1)
           b == SubSeq(q, i, Len(q))
           p == a \o <<m>>
<1>1. a \in Seq(Packet) /\ Len(a) = i - 1 /\ \A k \in 1 .. i - 1 : a[k] = q[k]
  BY SubSeqProperties, SMTT(30)
<1>2. /\ b \in Seq(Packet) /\ Len(b) = Len(q) - i + 1
      /\ \A k \in 1 .. Len(q) - i + 1 : b[k] = q[i + k - 1]
  BY SubSeqProperties, SMTT(30)
<1>3. <<m>> \in Seq(Packet) /\ Len(<<m>>) = 1 /\ <<m>>[1] = m
  OBVIOUS
<1> HIDE DEF a, b
<1>4. /\ p \in Seq(Packet) /\ Len(p) = i
      /\ \A k \in 1 .. i : p[k] = IF k <= i - 1 THEN q[k] ELSE m
  BY <1>1, <1>3, ConcatProperties
<1> HIDE DEF p
<1>5. /\ p \o b \in Seq(Packet)
      /\ Len(p \o b) = Len(q) + 1
      /\ \A k \in 1 .. Len(q) + 1 : (p \o b)[k] = IF k <= i THEN p[k] ELSE b[k - i]
  <2>1. Len(p) + Len(b) = Len(q) + 1
    BY <1>2, <1>4, LenProperties
  <2>2. /\ p \o b \in Seq(Packet)
        /\ Len(p \o b) = Len(p) + Len(b)
        /\ \A k \in 1 .. Len(p) + Len(b) :
               (p \o b)[k] = IF k <= Len(p) THEN p[k] ELSE b[k - Len(p)]
    BY <1>2, <1>4, ConcatProperties
  <2>3. Len(p) = i
    BY <1>4
  <2> QED BY <2>1, <2>2, <2>3
<1>6. ASSUME NEW k \in 1 .. Len(q) + 1
      PROVE  (p \o b)[k] = m \/ \E j \in 1 .. Len(q) : (p \o b)[k] = q[j]
  <2>1. CASE k < i
    BY <2>1, <1>4, <1>5, LenProperties
  <2>2. CASE k = i
    BY <2>2, <1>4, <1>5, LenProperties
  <2>3. CASE k > i
    <3>1. k - i \in 1 .. Len(q) - i + 1 /\ k - 1 \in 1 .. Len(q)
      BY <2>3, LenProperties
    <3>2. (p \o b)[k] = b[k - i]
      BY <2>3, <1>5
    <3>3. b[k - i] = q[i + (k - i) - 1] /\ i + (k - i) - 1 = k - 1
      BY <1>2, <3>1
    <3> QED BY <3>1, <3>2, <3>3
  <2>4. k < i \/ k = i \/ k > i
    BY LenProperties
  <2> QED BY <2>1, <2>2, <2>3, <2>4
<1>7. InsertAt(q, i, m) = p \o b
  BY DEF InsertAt, a, b, p
<1>8. DOMAIN (p \o b) = 1 .. Len(q) + 1 /\ DOMAIN q = 1 .. Len(q)
  BY <1>5, LenProperties
<1> QED BY <1>5, <1>6, <1>7, <1>8 DEF Arrival

(* Every queue that a send can leave behind, with or without a fault. *)
LEMMA AlteredIsArrival ==
    ASSUME NEW q \in Seq(Packet), NEW m \in Packet, NEW loss, NEW r \in Altered(q, m, loss)
    PROVE  Arrival(q, m, r)
<1>1. \/ r = q \/ r = Append(Append(q, m), m)
      \/ \E i \in 1 .. Len(q) : r = InsertAt(q, i, m)
  BY DEF Altered
<1>2. CASE r = q
  BY <1>2 DEF Arrival
<1>3. CASE r = Append(Append(q, m), m)
  BY <1>3, AppendIsArrival
<1>4. CASE \E i \in 1 .. Len(q) : r = InsertAt(q, i, m)
  BY <1>4, InsertIsArrival
<1> QED BY <1>1, <1>2, <1>3, <1>4

(* An ordered queue stays ordered when the newest number is put at its end. *)
LEMMA AppendKeepsOrder ==
    ASSUME NEW q \in Seq(Packet), NEW m \in Packet, Ordered(q),
           \A i \in DOMAIN q : q[i].n <= m.n
    PROVE  /\ Ordered(Append(q, m))
           /\ Ordered(Append(Append(q, m), m))
<1>1. ASSUME NEW s \in Seq(Packet), Ordered(s), \A i \in DOMAIN s : s[i].n <= m.n
      PROVE  /\ Ordered(Append(s, m))
             /\ \A i \in DOMAIN Append(s, m) : Append(s, m)[i].n <= m.n
  <2>1. /\ Append(s, m) \in Seq(Packet) /\ Len(Append(s, m)) = Len(s) + 1
        /\ \A i \in 1 .. Len(s) : Append(s, m)[i] = s[i]
        /\ Append(s, m)[Len(s) + 1] = m
    BY AppendProperties
  <2>2. DOMAIN Append(s, m) = 1 .. Len(s) + 1 /\ DOMAIN s = 1 .. Len(s) /\ Len(s) \in Nat
    BY <2>1, LenProperties
  <2>3. m.n \in Nat
    BY NetworkAssumption DEF Packet
  <2> QED BY <1>1, <2>1, <2>2, <2>3 DEF Ordered
<1>2. Ordered(Append(q, m)) /\ \A i \in DOMAIN Append(q, m) : Append(q, m)[i].n <= m.n
  BY <1>1
<1>3. Append(q, m) \in Seq(Packet)
  BY AppendProperties
<1> QED BY <1>1, <1>2, <1>3

(* Without overtaking every send keeps a queue ordered. *)
LEMMA AlteredKeepsOrder ==
    ASSUME NEW q \in Seq(Packet), NEW m \in Packet, NEW loss, NEW r \in Altered(q, m, loss),
           "reorder" \notin Faults, Ordered(q), \A i \in DOMAIN q : q[i].n <= m.n
    PROVE  Ordered(r)
<1>1. r = q \/ r = Append(Append(q, m), m)
  BY DEF Altered
<1> QED BY <1>1, AppendKeepsOrder

(* What a receive leaves in the queue. *)
LEMMA TailOfQueue ==
    ASSUME NEW q \in Seq(Packet), q # << >>
    PROVE  /\ Head(q) \in Packet
           /\ 1 \in DOMAIN q /\ Head(q) = q[1]
           /\ Tail(q) \in Seq(Packet)
           /\ \A i \in DOMAIN Tail(q) : i + 1 \in DOMAIN q /\ Tail(q)[i] = q[i + 1]
           /\ DOMAIN q \subseteq Nat /\ DOMAIN Tail(q) \subseteq Nat
<1>1. /\ Head(q) \in Packet /\ Tail(q) \in Seq(Packet)
      /\ Len(Tail(q)) = Len(q) - 1
      /\ \A i \in 1 .. Len(Tail(q)) : Tail(q)[i] = q[i + 1]
  BY HeadTailProperties
<1>2. DOMAIN q = 1 .. Len(q) /\ DOMAIN Tail(q) = 1 .. Len(Tail(q)) /\ Len(q) \in Nat
  BY <1>1, LenProperties
<1>3. Len(q) # 0
  BY EmptySeq
<1>4. Head(q) = q[1]
  BY HeadTailProperties
<1> QED BY <1>1, <1>2, <1>3, <1>4

-----------------------------------------------------------------------------
(***************************************************************************)
(* The steps of the network.                                               *)
(***************************************************************************)
LEMMA SendToServerEffect ==
    ASSUME NetworkTypeOK, NEW c \in Clients, NEW m \in Packet, SendToServer(c, m)
    PROVE  /\ faults' \in 0 .. MaxFaults
           /\ \E r : /\ Arrival(toServer[c], m, r)
                     /\ toServer' = [toServer EXCEPT ![c] = r]
                     /\ KeepsOrder(toServer[c], m, r)
<1>1. toServer[c] \in Seq(Packet)
  BY DEF NetworkTypeOK
<1>2. CASE toServer' = [toServer EXCEPT ![c] = Append(@, m)] /\ UNCHANGED faults
  <2>1. toServer' = [toServer EXCEPT ![c] = Append(toServer[c], m)] /\ faults' \in 0 .. MaxFaults
    BY <1>2 DEF NetworkTypeOK
  <2>2. Arrival(toServer[c], m, Append(toServer[c], m))
    BY <1>1, AppendIsArrival
  <2>3. KeepsOrder(toServer[c], m, Append(toServer[c], m))
    BY <1>1, AppendKeepsOrder DEF KeepsOrder
  <2> QED BY <2>1, <2>2, <2>3
<1>3. CASE /\ faults < MaxFaults /\ faults' = faults + 1
           /\ \E r \in Altered(toServer[c], m, "lossRequest") : toServer' = [toServer EXCEPT ![c] = r]
  <2>1. PICK r \in Altered(toServer[c], m, "lossRequest") : toServer' = [toServer EXCEPT ![c] = r]
    BY <1>3
  <2>2. Arrival(toServer[c], m, r)
    BY <1>1, AlteredIsArrival
  <2>3. KeepsOrder(toServer[c], m, r)
    BY <1>1, AlteredKeepsOrder DEF KeepsOrder
  <2>4. faults' \in 0 .. MaxFaults
    BY <1>3, NetworkAssumption DEF NetworkTypeOK
  <2> QED BY <2>1, <2>2, <2>3, <2>4
<1> QED BY <1>2, <1>3 DEF SendToServer

LEMMA SendToClientEffect ==
    ASSUME NetworkTypeOK, NEW c \in Clients, NEW m \in Packet, SendToClient(c, m)
    PROVE  /\ faults' \in 0 .. MaxFaults
           /\ \E r : /\ Arrival(toClient[c], m, r)
                     /\ toClient' = [toClient EXCEPT ![c] = r]
                     /\ KeepsOrder(toClient[c], m, r)
<1> DEFINE loss == IF m.type = "ACK" THEN "lossAck" ELSE "lossAnswer"
<1>1. toClient[c] \in Seq(Packet)
  BY DEF NetworkTypeOK
<1>2. CASE toClient' = [toClient EXCEPT ![c] = Append(@, m)] /\ UNCHANGED faults
  <2>1. toClient' = [toClient EXCEPT ![c] = Append(toClient[c], m)] /\ faults' \in 0 .. MaxFaults
    BY <1>2 DEF NetworkTypeOK
  <2>2. Arrival(toClient[c], m, Append(toClient[c], m))
    BY <1>1, AppendIsArrival
  <2>3. KeepsOrder(toClient[c], m, Append(toClient[c], m))
    BY <1>1, AppendKeepsOrder DEF KeepsOrder
  <2> QED BY <2>1, <2>2, <2>3
<1>3. CASE /\ faults < MaxFaults /\ faults' = faults + 1
           /\ \E r \in Altered(toClient[c], m, loss) : toClient' = [toClient EXCEPT ![c] = r]
  <2>1. PICK r \in Altered(toClient[c], m, loss) : toClient' = [toClient EXCEPT ![c] = r]
    BY <1>3
  <2> HIDE DEF loss
  <2>2. Arrival(toClient[c], m, r)
    BY <1>1, AlteredIsArrival
  <2>3. KeepsOrder(toClient[c], m, r)
    BY <1>1, AlteredKeepsOrder DEF KeepsOrder
  <2>4. faults' \in 0 .. MaxFaults
    BY <1>3, NetworkAssumption DEF NetworkTypeOK
  <2> QED BY <2>1, <2>2, <2>3, <2>4
<1> QED BY <1>2, <1>3 DEF SendToClient

(* A fault is counted. *)
LEMMA FaultCount ==
    ASSUME faults \in 0 .. MaxFaults, NEW kind, Fault(kind)
    PROVE  faults' \in 0 .. MaxFaults
BY NetworkAssumption DEF Fault

LEMMA TimesOutCount ==
    ASSUME faults \in 0 .. MaxFaults, NEW c, TimesOut(c)
    PROVE  faults' \in 0 .. MaxFaults
BY FaultCount DEF TimesOut

LEMMA PacketTypes ==
    ASSUME NEW n \in 1 .. MaxRequests
    PROVE  /\ DataPacket(n) \in Packet /\ DataPacket(n).n = n /\ DataPacket(n).type = "DATA"
           /\ AckPacket(n) \in Packet /\ AckPacket(n).n = n /\ AckPacket(n).type = "ACK"
BY DEF Packet, DataPacket, AckPacket

(* recvfrom takes an element that belongs to the queue and shortens it. *)
LEMMA TakeFromClientQueueEffect ==
    ASSUME NetworkTypeOK, NEW c \in Clients, TakeFromClientQueue(c)
    PROVE  /\ toClient' \in [Clients -> Seq(Packet)]
           /\ toClient' = [toClient EXCEPT ![c] = Tail(toClient[c])]
           /\ Head(toClient[c]) \in Packet
           /\ 1 \in DOMAIN toClient[c] /\ Head(toClient[c]) = toClient[c][1]
           /\ \A i \in DOMAIN Tail(toClient[c]) :
                  i + 1 \in DOMAIN toClient[c] /\ Tail(toClient[c])[i] = toClient[c][i + 1]
           /\ DOMAIN toClient[c] \subseteq Nat /\ DOMAIN Tail(toClient[c]) \subseteq Nat
<1>1. toClient[c] \in Seq(Packet) /\ toClient[c] # << >>
  BY DEF NetworkTypeOK, TakeFromClientQueue
<1> QED BY <1>1, TailOfQueue DEF NetworkTypeOK, TakeFromClientQueue

LEMMA TakeFromServerQueueEffect ==
    ASSUME NetworkTypeOK, NEW c \in Clients, TakeFromServerQueue(c)
    PROVE  /\ toServer' \in [Clients -> Seq(Packet)]
           /\ toServer' = [toServer EXCEPT ![c] = Tail(toServer[c])]
           /\ Head(toServer[c]) \in Packet
           /\ 1 \in DOMAIN toServer[c] /\ Head(toServer[c]) = toServer[c][1]
           /\ \A i \in DOMAIN Tail(toServer[c]) :
                  i + 1 \in DOMAIN toServer[c] /\ Tail(toServer[c])[i] = toServer[c][i + 1]
           /\ DOMAIN toServer[c] \subseteq Nat /\ DOMAIN Tail(toServer[c]) \subseteq Nat
<1>1. toServer[c] \in Seq(Packet) /\ toServer[c] # << >>
  BY DEF NetworkTypeOK, TakeFromServerQueue
<1> QED BY <1>1, TailOfQueue DEF NetworkTypeOK, TakeFromServerQueue

-----------------------------------------------------------------------------
(***************************************************************************)
(* Type correctness.  A client that is in the middle of an attempt has an  *)
(* attempt left, and one that waits has a read left: the loops of          *)
(* sendWithAck, waitForAck and receiveResponse stay within UDP_MAX_ATTEMPTS*)
(* and a request under way has a number of its own.                        *)
(***************************************************************************)
LoopBounds ==
    \A c \in Clients :
        /\ cpc[c] \in {"send", "waitAck"} => attempt[c] < MaxAttempts
        /\ cpc[c] \in {"waitAck", "waitResp"} => reads[c] < MaxAttempts
        /\ cpc[c] \in {"send", "waitAck", "waitResp"} => PacketId(c) \in 1 .. MaxRequests

TypeInv == TypeOK /\ LoopBounds

LEMMA TypeInvInit == Init => TypeInv
BY NetworkAssumption, ClientAssumption, ServerAssumption
   DEF Init, NetworkInit, ClientInit, ServerInit, TypeInv, TypeOK, NetworkTypeOK,
       ClientTypeOK, ServerTypeOK, LoopBounds, ClientStates, ServerStates, NoClients

LEMMA ClientTypeStep ==
    ASSUME TypeInv, NEW c \in Clients, ClientStep(c) \/ SendRequest(c) \/ Exit(c)
    PROVE  ClientTypeOK' /\ LoopBounds'
<1> USE ClientAssumption, NetworkAssumption
    DEF TypeInv, TypeOK, ClientTypeOK, LoopBounds, ClientStates, PacketId
<1>1. CASE SendRequest(c)
  BY <1>1 DEF SendRequest
<1>2. CASE SendData(c)
  BY <1>2 DEF SendData
<1>3. CASE SendDataFails(c)
  BY <1>3 DEF SendDataFails, EndAttempt
<1>4. CASE ReceiveInWaitForAck(c)
  <2>1. Head(toClient[c]).n \in 1 .. MaxRequests
    BY <1>4, TakeFromClientQueueEffect DEF ReceiveInWaitForAck, Packet
  <2> QED BY <1>4, <2>1 DEF ReceiveInWaitForAck, AckMissed, EndAttempt
<1>5. CASE TimeoutInWaitForAck(c)
  BY <1>5 DEF TimeoutInWaitForAck, AckMissed, EndAttempt
<1>6. CASE ReceiveInReceiveResponse(c)
  <2>1. Head(toClient[c]).n \in 1 .. MaxRequests
    BY <1>6, TakeFromClientQueueEffect DEF ReceiveInReceiveResponse, Packet
  <2> QED BY <1>6, <2>1 DEF ReceiveInReceiveResponse, ResponseMissed
<1>7. CASE TimeoutInReceiveResponse(c)
  BY <1>7 DEF TimeoutInReceiveResponse, ResponseMissed
<1>8. CASE Exit(c)
  BY <1>8 DEF Exit
<1> QED BY <1>1, <1>2, <1>3, <1>4, <1>5, <1>6, <1>7, <1>8 DEF ClientStep

LEMMA ClientNetworkTypeStep ==
    ASSUME TypeInv, NEW c \in Clients, ClientStep(c) \/ SendRequest(c) \/ Exit(c)
    PROVE  NetworkTypeOK'
<1> USE DEF TypeInv, TypeOK, NetworkTypeOK
<1>1. CASE SendData(c)
  <2>1. DataPacket(PacketId(c)) \in Packet
    BY <1>1, PacketTypes DEF SendData, LoopBounds
  <2>2. PICK r : Arrival(toServer[c], DataPacket(PacketId(c)), r)
                 /\ toServer' = [toServer EXCEPT ![c] = r]
    BY <1>1, <2>1, SendToServerEffect DEF SendData
  <2>3. faults' \in 0 .. MaxFaults
    BY <1>1, <2>1, SendToServerEffect DEF SendData
  <2> QED BY <1>1, <2>2, <2>3 DEF SendData, Arrival
<1>2. CASE SendDataFails(c)
  BY <1>2, FaultCount DEF SendDataFails
<1>3. CASE ReceiveInWaitForAck(c) \/ ReceiveInReceiveResponse(c)
  <2>1. TakeFromClientQueue(c) /\ UNCHANGED <<toServer, faults>>
    BY <1>3 DEF ReceiveInWaitForAck, ReceiveInReceiveResponse
  <2> QED BY <2>1, TakeFromClientQueueEffect
<1>4. CASE (TimeoutInWaitForAck(c) \/ TimeoutInReceiveResponse(c)) /\ TimesOut(c)
  <2>1. UNCHANGED <<toServer, toClient>>
    BY <1>4 DEF TimeoutInWaitForAck, TimeoutInReceiveResponse
  <2> QED BY <1>4, <2>1, TimesOutCount
<1>5. CASE SendRequest(c) \/ Exit(c)
  BY <1>5 DEF SendRequest, Exit
<1> QED BY <1>1, <1>2, <1>3, <1>4, <1>5 DEF ClientStep

LEMMA ServerTypeStep ==
    ASSUME TypeInv, ServerStep \/ Tick \/ ServerStop \/ ServerStart
    PROVE  ServerTypeOK' /\ NetworkTypeOK'
<1> USE NetworkAssumption, ServerAssumption
    DEF TypeInv, TypeOK, ServerTypeOK, ServerStates
<1>1. CASE \E c \in Clients : ReceivePacket(c)
  <2>1. PICK c \in Clients : ReceivePacket(c)
    BY <1>1
  <2>2. TakeFromServerQueue(c) /\ UNCHANGED <<toClient, faults>>
    BY <2>1 DEF ReceivePacket
  <2>3. NetworkTypeOK' /\ Head(toServer[c]).n \in 1 .. MaxRequests
    BY <2>2, TakeFromServerQueueEffect DEF NetworkTypeOK, Packet
  <2>4. /\ handling' = {[client |-> c, n |-> Head(toServer[c]).n]}
        /\ heard' = [heard EXCEPT ![c] = @ \cup {Head(toServer[c]).n}]
        /\ lastHeard' = [lastHeard EXCEPT ![c] = now]
        /\ spc' = "ack" /\ now' = now /\ served' = served
    BY <2>1 DEF ReceivePacket
  <2>5. /\ DOMAIN activeClients' \subseteq Clients
        /\ activeClients' \in [DOMAIN activeClients' -> 0 .. MaxTime]
    BY <2>1 DEF ReceivePacket, UpdateClientActivity
  <2> QED BY <2>3, <2>4, <2>5
<1>2. CASE SendAck
  <2>1. PICK h \in handling : SendToClient(h.client, AckPacket(h.n))
    BY <1>2 DEF SendAck
  <2>2. h.client \in Clients /\ AckPacket(h.n) \in Packet
    BY PacketTypes
  <2>3. NetworkTypeOK'
    <3>1. /\ faults' \in 0 .. MaxFaults
          /\ \E r \in Seq(Packet) : toClient' = [toClient EXCEPT ![h.client] = r]
      BY <2>1, <2>2, SendToClientEffect DEF Arrival
    <3> QED BY <1>2, <3>1 DEF SendAck, NetworkTypeOK
  <2> QED BY <1>2, <2>3 DEF SendAck
<1>3. CASE ProcessUDPRequest
  <2>1. PICK h \in handling : /\ SendToClient(h.client, DataPacket(h.n))
                              /\ served' = [served EXCEPT ![h.client] = @ \cup {h.n}]
    BY <1>3 DEF ProcessUDPRequest
  <2>2. h.client \in Clients /\ DataPacket(h.n) \in Packet
    BY PacketTypes
  <2>3. NetworkTypeOK'
    <3>1. /\ faults' \in 0 .. MaxFaults
          /\ \E r \in Seq(Packet) : toClient' = [toClient EXCEPT ![h.client] = r]
      BY <2>1, <2>2, SendToClientEffect DEF Arrival
    <3> QED BY <1>3, <3>1 DEF ProcessUDPRequest, NetworkTypeOK
  <2> QED BY <1>3, <2>1, <2>3 DEF ProcessUDPRequest
<1>4. CASE CheckClientTimeouts
  BY <1>4 DEF CheckClientTimeouts, NetworkTypeOK
<1>5. CASE \E c \in Clients : Undeliverable(c)
  <2>1. PICK c \in Clients : Undeliverable(c)
    BY <1>5
  <2> QED BY <2>1, TakeFromServerQueueEffect DEF Undeliverable, NetworkTypeOK, serverVars
<1>6. CASE Tick
  BY <1>6 DEF Tick, NetworkTypeOK
<1>7. CASE ServerStop
  <2>1. faults' \in 0 .. MaxFaults
    BY <1>7, FaultCount DEF ServerStop, NetworkTypeOK
  <2> QED BY <1>7, <2>1 DEF ServerStop, NoClients, NetworkTypeOK
<1>8. CASE ServerStart
  BY <1>8 DEF ServerStart, NetworkTypeOK
<1> QED BY <1>1, <1>2, <1>3, <1>4, <1>5, <1>6, <1>7, <1>8 DEF ServerStep

(* The steps of Next, told apart: a client's, with the server's state left *)
(* alone, and the server's, with the clients' state left alone.            *)
LEMMA NextCases ==
    ASSUME Next
    PROVE  \/ \E c \in Clients : /\ ClientStep(c) \/ SendRequest(c) \/ Exit(c)
                                 /\ UNCHANGED serverVars
           \/ /\ ServerStep \/ Tick \/ ServerStop \/ ServerStart
              /\ UNCHANGED clientVars
BY DEF Next

LEMMA TypeInvStep == TypeInv /\ [Next]_vars => TypeInv'
<1> SUFFICES ASSUME TypeInv, [Next]_vars PROVE TypeInv'
  OBVIOUS
<1>1. ASSUME NEW c \in Clients, ClientStep(c) \/ SendRequest(c) \/ Exit(c),
             UNCHANGED serverVars
      PROVE  TypeInv'
  <2>1. ServerTypeOK'
    BY <1>1 DEF TypeInv, TypeOK, ServerTypeOK, serverVars
  <2> QED BY <1>1, <2>1, ClientTypeStep, ClientNetworkTypeStep DEF TypeInv, TypeOK
<1>2. ASSUME ServerStep \/ Tick \/ ServerStop \/ ServerStart, UNCHANGED clientVars
      PROVE  TypeInv'
  <2>1. ClientTypeOK' /\ LoopBounds'
    BY <1>2 DEF TypeInv, TypeOK, ClientTypeOK, LoopBounds, PacketId, clientVars
  <2> QED BY <1>2, <2>1, ServerTypeStep DEF TypeInv, TypeOK
<1>3. CASE UNCHANGED vars
  BY <1>3 DEF vars, clientVars, serverVars, TypeInv, TypeOK, NetworkTypeOK, ClientTypeOK,
              ServerTypeOK, LoopBounds, PacketId
<1> QED BY <1>1, <1>2, <1>3, NextCases

(* Every reachable state is of the right types, and the loops of the client *)
(* stay within their bounds.                                                *)
THEOREM TypeCorrect == Spec => [](TypeOK /\ LoopBounds)
<1>1. Spec => []TypeInv
  BY TypeInvInit, TypeInvStep, PTL DEF Spec
<1> QED BY <1>1, PTL DEF TypeInv

-----------------------------------------------------------------------------
(***************************************************************************)
(* On any network: what an ACK tells the client.                           *)
(***************************************************************************)
CausalInv == TypeInv /\ Causal /\ AckedMeansReceived

LEMMA CausalInit == Init => Causal /\ AckedMeansReceived
BY DEF Init, NetworkInit, ClientInit, ServerInit, Causal, AckedMeansReceived, PacketId

LEMMA CausalClientStep ==
    ASSUME CausalInv, NEW c \in Clients, ClientStep(c) \/ SendRequest(c) \/ Exit(c),
           UNCHANGED serverVars
    PROVE  Causal' /\ AckedMeansReceived'
<1> USE DEF CausalInv, Causal, AckedMeansReceived, PacketId
<1>0. /\ TypeInv /\ NetworkTypeOK /\ ClientTypeOK /\ LoopBounds
      /\ UNCHANGED <<heard, served, handling>>
  BY DEF TypeInv, TypeOK, serverVars
<1>1. CASE SendRequest(c)
  <2>1. /\ UNCHANGED <<toServer, toClient>>
        /\ \A d \in Clients : nextPacketId[d] \in Nat /\ nextPacketId'[d] \in Nat
                              /\ nextPacketId[d] <= nextPacketId'[d]
        /\ \A d \in Clients : cpc'[d] = "waitResp" => d # c /\ cpc[d] = "waitResp"
        /\ \A d \in Clients : d # c => nextPacketId'[d] = nextPacketId[d]
    BY <1>0, <1>1, NetworkAssumption DEF SendRequest, ClientTypeOK
  <2>2. \A d \in Clients : \A i \in DOMAIN toServer[d] : toServer[d][i].n \in Nat
    BY <1>0, NumbersInQueue DEF NetworkTypeOK
  <2>3. \A d \in Clients : \A i \in DOMAIN toServer'[d] : toServer'[d][i].n <= PacketId(d)'
    BY <2>1, <2>2
  <2>4. \A d \in Clients : heard'[d] \subseteq 1 .. PacketId(d)'
    BY <1>0, <2>1
  <2> QED BY <1>0, <2>1, <2>3, <2>4
<1>2. CASE SendData(c)
  <2>1. DataPacket(PacketId(c)) \in Packet /\ DataPacket(PacketId(c)).n = PacketId(c)
    BY <1>0, <1>2, PacketTypes DEF SendData, LoopBounds
  <2>2. PICK r : Arrival(toServer[c], DataPacket(PacketId(c)), r)
                 /\ toServer' = [toServer EXCEPT ![c] = r]
    BY <1>0, <1>2, <2>1, SendToServerEffect DEF SendData
  <2>3. \A i \in DOMAIN r : r[i].n <= PacketId(c)
    <3>1. PacketId(c) <= PacketId(c)
      BY <1>0 DEF ClientTypeOK
    <3>2. \A j \in DOMAIN toServer[c] : toServer[c][j].n <= PacketId(c)
      OBVIOUS
    <3> HIDE DEF PacketId, CausalInv
    <3> QED BY <2>1, <2>2, <3>1, <3>2 DEF Arrival
  <2>4. \A d \in Clients : \A i \in DOMAIN toServer'[d] : toServer'[d][i].n <= PacketId(d)
    BY <1>0, <2>2, <2>3 DEF NetworkTypeOK
  <2> QED BY <1>0, <1>2, <2>4 DEF SendData, ClientTypeOK
<1>3. CASE ReceiveInWaitForAck(c) \/ ReceiveInReceiveResponse(c)
  <2>1. TakeFromClientQueue(c) /\ UNCHANGED <<toServer, nextPacketId>>
    BY <1>3 DEF ReceiveInWaitForAck, ReceiveInReceiveResponse
  <2>2. \A d \in Clients : \A i \in DOMAIN toClient'[d] :
           \E j \in DOMAIN toClient[d] : toClient'[d][i] = toClient[d][j]
    BY <1>0, <2>1, TakeFromClientQueueEffect DEF NetworkTypeOK
  <2>3. Causal'
    BY <1>0, <2>1, <2>2
  <2>4. cpc'[c] = "waitResp" => PacketId(c) \in heard[c]
    <3>1. CASE cpc[c] = "waitResp"
      BY <3>1
    <3>2. CASE IsAckFor(Head(toClient[c]), PacketId(c))
      BY <1>0, <2>1, <3>2, TakeFromClientQueueEffect DEF IsAckFor
    <3>3. CASE cpc[c] # "waitResp" /\ ~ IsAckFor(Head(toClient[c]), PacketId(c))
      BY <1>0, <1>3, <3>3 DEF ReceiveInWaitForAck, ReceiveInReceiveResponse, AckMissed,
                              EndAttempt, ClientTypeOK
    <3> QED BY <3>1, <3>2, <3>3
  <2>5. \A d \in Clients \ {c} : cpc'[d] = cpc[d]
    BY <1>0, <1>3 DEF ReceiveInWaitForAck, ReceiveInReceiveResponse, AckMissed,
                      EndAttempt, ResponseMissed, ClientTypeOK
  <2> QED BY <1>0, <2>1, <2>3, <2>4, <2>5
<1>4. CASE SendDataFails(c) \/ TimeoutInWaitForAck(c) \/ TimeoutInReceiveResponse(c) \/ Exit(c)
  <2>1. UNCHANGED <<toServer, toClient, nextPacketId>>
    BY <1>4 DEF SendDataFails, TimeoutInWaitForAck, TimeoutInReceiveResponse, Exit
  <2>2. \A d \in Clients : cpc'[d] = "waitResp" => cpc[d] = "waitResp"
    BY <1>0, <1>4 DEF SendDataFails, TimeoutInWaitForAck, TimeoutInReceiveResponse, Exit,
                      AckMissed, EndAttempt, ResponseMissed, ClientTypeOK
  <2> QED BY <1>0, <2>1, <2>2
<1> QED BY <1>1, <1>2, <1>3, <1>4 DEF ClientStep

LEMMA CausalServerStep ==
    ASSUME CausalInv, ServerStep \/ Tick \/ ServerStop \/ ServerStart, UNCHANGED clientVars
    PROVE  Causal' /\ AckedMeansReceived'
<1> USE DEF CausalInv, Causal, AckedMeansReceived, PacketId
<1>0. /\ TypeInv /\ NetworkTypeOK /\ ClientTypeOK /\ ServerTypeOK
      /\ UNCHANGED <<cpc, nextPacketId>>
  BY DEF TypeInv, TypeOK, clientVars
<1>1. CASE \E c \in Clients : ReceivePacket(c)
  <2>1. PICK c \in Clients : ReceivePacket(c)
    BY <1>1
  <2>2. /\ TakeFromServerQueue(c) /\ UNCHANGED <<toClient, served>>
        /\ handling' = {[client |-> c, n |-> Head(toServer[c]).n]}
        /\ heard' = [heard EXCEPT ![c] = @ \cup {Head(toServer[c]).n}]
    BY <2>1 DEF ReceivePacket
  <2>3. \A d \in Clients : \A i \in DOMAIN toServer'[d] :
           \E j \in DOMAIN toServer[d] : toServer'[d][i] = toServer[d][j]
    BY <1>0, <2>2, TakeFromServerQueueEffect DEF NetworkTypeOK
  <2>4. Head(toServer[c]).n \in 1 .. PacketId(c)
    BY <1>0, <2>2, TakeFromServerQueueEffect DEF Packet, ClientTypeOK
  <2>5. \A d \in Clients : heard[d] \subseteq heard'[d] /\ heard'[d] \subseteq 1 .. PacketId(d)
    BY <1>0, <2>2, <2>4 DEF ServerTypeOK
  <2>6. \A h \in handling' : h.n \in heard'[h.client]
    BY <1>0, <2>2 DEF ServerTypeOK
  <2> QED BY <1>0, <2>2, <2>3, <2>5, <2>6
<1>2. CASE SendAck
  <2>1. PICK h \in handling : SendToClient(h.client, AckPacket(h.n))
    BY <1>2 DEF SendAck
  <2>2. /\ h.client \in Clients /\ AckPacket(h.n) \in Packet
        /\ AckPacket(h.n).n = h.n /\ AckPacket(h.n).type = "ACK"
    BY <1>0, PacketTypes DEF ServerTypeOK
  <2>3. PICK r : Arrival(toClient[h.client], AckPacket(h.n), r)
                 /\ toClient' = [toClient EXCEPT ![h.client] = r]
    BY <1>0, <2>1, <2>2, SendToClientEffect
  <2>4. \A i \in DOMAIN r : /\ r[i].n \in heard[h.client]
                            /\ r[i].type = "DATA" => r[i].n \in served[h.client]
    BY <2>2, <2>3 DEF Arrival
  <2>5. UNCHANGED <<toServer, heard, served, handling>>
    BY <1>2 DEF SendAck
  <2> QED BY <1>0, <2>2, <2>3, <2>4, <2>5 DEF NetworkTypeOK
<1>3. CASE ProcessUDPRequest
  <2>1. PICK h \in handling : /\ SendToClient(h.client, DataPacket(h.n))
                              /\ served' = [served EXCEPT ![h.client] = @ \cup {h.n}]
    BY <1>3 DEF ProcessUDPRequest
  <2>2. /\ h.client \in Clients /\ DataPacket(h.n) \in Packet
        /\ DataPacket(h.n).n = h.n
    BY <1>0, PacketTypes DEF ServerTypeOK
  <2>3. PICK r : Arrival(toClient[h.client], DataPacket(h.n), r)
                 /\ toClient' = [toClient EXCEPT ![h.client] = r]
    BY <1>0, <2>1, <2>2, SendToClientEffect
  <2>4. \A i \in DOMAIN r : /\ r[i].n \in heard[h.client]
                            /\ r[i].type = "DATA" => r[i].n \in served'[h.client]
    BY <1>0, <2>1, <2>2, <2>3 DEF Arrival, ServerTypeOK
  <2>5. UNCHANGED <<toServer, heard>> /\ handling' = {}
    BY <1>3 DEF ProcessUDPRequest
  <2>6. \A d \in Clients : served[d] \subseteq served'[d] /\ served'[d] \subseteq heard[d]
    BY <1>0, <2>1, <2>2 DEF ServerTypeOK
  <2> QED BY <1>0, <2>2, <2>3, <2>4, <2>5, <2>6 DEF NetworkTypeOK
<1>4. CASE \E c \in Clients : Undeliverable(c)
  <2>1. PICK c \in Clients : Undeliverable(c)
    BY <1>4
  <2>2. TakeFromServerQueue(c) /\ UNCHANGED <<toClient, heard, served, handling>>
    BY <2>1 DEF Undeliverable, serverVars
  <2>3. \A d \in Clients : \A i \in DOMAIN toServer'[d] :
           \E j \in DOMAIN toServer[d] : toServer'[d][i] = toServer[d][j]
    BY <1>0, <2>2, TakeFromServerQueueEffect DEF NetworkTypeOK
  <2> QED BY <1>0, <2>2, <2>3
<1>5. CASE CheckClientTimeouts \/ Tick \/ ServerStop \/ ServerStart
  <2>1. UNCHANGED <<toServer, toClient, heard, served>> /\ handling' \subseteq handling
    BY <1>5 DEF CheckClientTimeouts, Tick, ServerStop, ServerStart
  <2> QED BY <1>0, <2>1
<1> QED BY <1>1, <1>2, <1>3, <1>4, <1>5 DEF ServerStep

LEMMA CausalInvStep == CausalInv /\ [Next]_vars => CausalInv'
<1> SUFFICES ASSUME CausalInv, [Next]_vars PROVE CausalInv'
  OBVIOUS
<1>1. TypeInv'
  BY TypeInvStep DEF CausalInv
<1>2. CASE Next
  BY <1>1, <1>2, NextCases, CausalClientStep, CausalServerStep DEF CausalInv
<1>3. CASE UNCHANGED vars
  BY <1>1, <1>3 DEF vars, clientVars, serverVars, CausalInv, Causal, AckedMeansReceived, PacketId
<1> QED BY <1>2, <1>3

LEMMA CausalCorrect == Spec => []CausalInv
<1>1. Init => CausalInv
  BY TypeInvInit, CausalInit DEF CausalInv
<1> QED BY <1>1, CausalInvStep, PTL DEF Spec

(* Whatever the network loses, doubles, reorders or delays, and whenever    *)
(* the server process ends and starts again: a client that got the ACK it   *)
(* waited for knows that the server received this very request.             *)
THEOREM AckIsSound == Spec => []AckedMeansReceived
BY CausalCorrect, PTL DEF CausalInv

(* Nothing reaches a client for a request the server did not receive, and   *)
(* no answer for one it did not compute.                                    *)
THEOREM CausalityHolds == Spec => []Causal
BY CausalCorrect, PTL DEF CausalInv

-----------------------------------------------------------------------------
(***************************************************************************)
(* Without overtaking: what is on its way for a client is ordered by the   *)
(* requests it belongs to, so every answer is for the request it is taken  *)
(* for.                                                                    *)
(***************************************************************************)
OrderInv == CausalInv /\ InOrder /\ AnswerIsForRequest

LEMMA OrderInit == Init => InOrder /\ AnswerIsForRequest
BY DEF Init, NetworkInit, ClientInit, ServerInit, InOrder, Ordered, AnswerIsForRequest

(* A step of the client after which it has seen no ACK it had not seen      *)
(* before, that leaves all queues alone, keeps the order.                   *)
LEMMA QueuesUntouched ==
    ASSUME InOrder, UNCHANGED <<toServer, toClient>>, handling' \subseteq handling,
           \A d \in Clients : cpc'[d] = "waitResp" =>
               cpc[d] = "waitResp" /\ nextPacketId'[d] = nextPacketId[d]
    PROVE  InOrder'
BY DEF InOrder, PacketId

LEMMA OrderClientStep ==
    ASSUME "reorder" \notin Faults, OrderInv,
           NEW c \in Clients, ClientStep(c) \/ SendRequest(c) \/ Exit(c), UNCHANGED serverVars
    PROVE  InOrder' /\ AnswerIsForRequest'
<1>0. /\ NetworkTypeOK /\ ClientTypeOK /\ LoopBounds /\ ServerTypeOK /\ Causal
      /\ InOrder /\ AnswerIsForRequest /\ UNCHANGED <<heard, served, handling>>
  BY DEF OrderInv, CausalInv, TypeInv, TypeOK, serverVars
<1>1. CASE SendRequest(c)
  <2>1. InOrder'
    BY <1>0, <1>1, QueuesUntouched DEF SendRequest, ClientTypeOK
  <2>2. AnswerIsForRequest'
    BY <1>0, <1>1 DEF SendRequest, ClientTypeOK, AnswerIsForRequest, PacketId
  <2> QED BY <2>1, <2>2
<1>2. CASE SendDataFails(c) \/ TimeoutInWaitForAck(c) \/ TimeoutInReceiveResponse(c) \/ Exit(c)
  <2>1. /\ UNCHANGED <<toServer, toClient, nextPacketId, answer>>
        /\ \A d \in Clients : cpc'[d] = "waitResp" => cpc[d] = "waitResp"
        /\ \A d \in Clients : cpc'[d] = "idle" => cpc[d] = "idle"
    BY <1>0, <1>2 DEF SendDataFails, TimeoutInWaitForAck, TimeoutInReceiveResponse, Exit,
                      AckMissed, EndAttempt, ResponseMissed, ClientTypeOK
  <2>2. InOrder'
    BY <1>0, <2>1, QueuesUntouched
  <2> QED BY <1>0, <2>1, <2>2 DEF AnswerIsForRequest, PacketId
<1>3. CASE SendData(c)
  <2> DEFINE m == DataPacket(PacketId(c))
  <2>1. m \in Packet /\ m.n = PacketId(c) /\ PacketId(c) \in Nat
    BY <1>0, <1>3, PacketTypes, NetworkAssumption DEF SendData, LoopBounds
  <2>2. PICK r : /\ Arrival(toServer[c], m, r) /\ KeepsOrder(toServer[c], m, r)
                 /\ toServer' = [toServer EXCEPT ![c] = r]
    BY <1>0, <1>3, <2>1, SendToServerEffect DEF SendData
  <2> HIDE DEF m
  <2>3. \A i \in DOMAIN toServer[c] : toServer[c][i].n <= m.n
    BY <1>0, <2>1 DEF Causal
  <2>4. Ordered(r)
    BY <1>0, <2>2, <2>3 DEF KeepsOrder, InOrder
  <2>5. \A i \in DOMAIN toClient[c] : toClient[c][i].n <= m.n
    BY <1>0, <2>1 DEF Causal
  <2>6. \A h \in handling : h.client = c => h.n <= m.n
    BY <1>0, <2>1 DEF Causal
  <2>7. UNCHANGED <<toClient, nextPacketId, answer>>
        /\ \A d \in Clients : cpc'[d] = IF d = c THEN "waitAck" ELSE cpc[d]
    BY <1>0, <1>3 DEF SendData, ClientTypeOK
  <2>8. \A d \in Clients : toServer'[d] = IF d = c THEN r ELSE toServer[d]
    BY <1>0, <2>2 DEF NetworkTypeOK
  <2>9. InOrder'
    BY <1>0, <2>2, <2>4, <2>5, <2>6, <2>7, <2>8 DEF InOrder, Arrival, PacketId
  <2> QED BY <1>0, <2>7, <2>9 DEF AnswerIsForRequest, PacketId
<1>4. CASE ReceiveInWaitForAck(c) \/ ReceiveInReceiveResponse(c)
  <2> DEFINE q == toClient[c]
  <2>1. TakeFromClientQueue(c) /\ UNCHANGED <<toServer, nextPacketId>>
    BY <1>4 DEF ReceiveInWaitForAck, ReceiveInReceiveResponse
  <2>2. /\ 1 \in DOMAIN q /\ Head(q) = q[1] /\ Head(q) \in Packet
        /\ \A i \in DOMAIN Tail(q) : i + 1 \in DOMAIN q /\ Tail(q)[i] = q[i + 1]
        /\ DOMAIN q \subseteq Nat /\ DOMAIN Tail(q) \subseteq Nat
        /\ \A d \in Clients : toClient'[d] = IF d = c THEN Tail(q) ELSE toClient[d]
    BY <1>0, <2>1, TakeFromClientQueueEffect DEF NetworkTypeOK
  <2>3. Ordered(Tail(q)) /\ \A i \in DOMAIN Tail(q) : Head(q).n <= Tail(q)[i].n
    <3>1. \A i \in DOMAIN Tail(q) : 1 <= i + 1
      BY <2>2
    <3>2. \A i, j \in DOMAIN Tail(q) : i <= j => i + 1 <= j + 1
      BY <2>2
    <3> QED BY <1>0, <2>2, <3>1, <3>2 DEF InOrder, Ordered
  <2>4. \A d \in Clients : /\ Ordered(toClient'[d])
                           /\ \A i \in DOMAIN toClient'[d] :
                                 \E j \in DOMAIN toClient[d] : toClient'[d][i] = toClient[d][j]
    BY <1>0, <2>2, <2>3 DEF InOrder
  <2>5. \A d \in Clients : d # c => cpc'[d] = cpc[d] /\ answer'[d] = answer[d]
    BY <1>0, <1>4 DEF ReceiveInWaitForAck, ReceiveInReceiveResponse, AckMissed,
                      EndAttempt, ResponseMissed, ClientTypeOK
  <2>6. cpc'[c] = "waitResp" =>
            cpc[c] = "waitResp" \/ (cpc[c] = "waitAck" /\ Head(q).n = PacketId(c))
    BY <1>0, <1>4 DEF ReceiveInWaitForAck, ReceiveInReceiveResponse, AckMissed,
                      EndAttempt, ResponseMissed, ClientTypeOK, IsAckFor
  <2>7. cpc'[c] = "idle" => cpc[c] = "waitResp" /\ answer'[c] = Head(q).n
    BY <1>0, <1>4 DEF ReceiveInWaitForAck, ReceiveInReceiveResponse, AckMissed,
                      EndAttempt, ResponseMissed, ClientTypeOK
  <2>8. cpc'[c] = "waitResp" =>
            /\ \A i \in DOMAIN toClient'[c] : PacketId(c) <= toClient'[c][i].n
            /\ \A j \in DOMAIN toServer[c] : PacketId(c) <= toServer[c][j].n
            /\ \A h \in handling : h.client = c => PacketId(c) <= h.n
    <3> SUFFICES ASSUME cpc'[c] = "waitResp"
                 PROVE  /\ \A i \in DOMAIN toClient'[c] : PacketId(c) <= toClient'[c][i].n
                        /\ \A j \in DOMAIN toServer[c] : PacketId(c) <= toServer[c][j].n
                        /\ \A h \in handling : h.client = c => PacketId(c) <= h.n
      OBVIOUS
    <3>1. CASE cpc[c] = "waitResp"
      BY <1>0, <2>4, <3>1 DEF InOrder
    <3>2. CASE Head(q).n = PacketId(c)
      <4>1. toClient'[c] = Tail(q)
        BY <2>2
      <4>2. \A j \in DOMAIN toServer[c] : q[1].n <= toServer[c][j].n
        BY <1>0, <2>2 DEF InOrder
      <4>3. \A h \in handling : h.client = c => q[1].n <= h.n
        BY <1>0, <2>2 DEF InOrder
      <4> QED BY <2>2, <2>3, <3>2, <4>1, <4>2, <4>3
    <3> QED BY <2>6, <3>1, <3>2
  <2>9. InOrder'
    BY <1>0, <2>1, <2>4, <2>5, <2>8 DEF InOrder, PacketId
  <2>10. cpc'[c] = "idle" => answer'[c] = PacketId(c)
    <3>1. SUFFICES ASSUME cpc[c] = "waitResp" PROVE Head(q).n = PacketId(c)
      BY <2>7
    <3>2. PacketId(c) <= Head(q).n
      BY <1>0, <2>2, <3>1 DEF InOrder
    <3>3. Head(q).n \in 1 .. PacketId(c)
      BY <1>0, <2>2 DEF Causal
    <3>4. PacketId(c) \in Nat
      BY <1>0, <3>1, NetworkAssumption DEF LoopBounds
    <3> QED BY <3>2, <3>3, <3>4
  <2> QED BY <1>0, <2>1, <2>5, <2>9, <2>10 DEF AnswerIsForRequest, PacketId
<1> QED BY <1>1, <1>2, <1>3, <1>4 DEF ClientStep

(* The server sends to the client whose request it handles, with the number *)
(* of that request.                                                         *)
LEMMA OrderAfterSend ==
    ASSUME "reorder" \notin Faults, OrderInv, UNCHANGED <<toServer, cpc, nextPacketId>>,
           NEW h \in handling, handling' \subseteq handling,
           NEW m \in Packet, m.n = h.n, SendToClient(h.client, m)
    PROVE  InOrder'
<1>0. /\ NetworkTypeOK /\ ClientTypeOK /\ ServerTypeOK /\ InOrder
  BY DEF OrderInv, CausalInv, TypeInv, TypeOK
<1> DEFINE c == h.client
<1>1. c \in Clients /\ \A g \in handling : g = h
  BY <1>0 DEF ServerTypeOK
<1>2. m.n \in Nat
  BY NetworkAssumption DEF Packet
<1>3. PICK r : /\ Arrival(toClient[c], m, r) /\ KeepsOrder(toClient[c], m, r)
               /\ toClient' = [toClient EXCEPT ![c] = r]
  BY <1>0, <1>1, SendToClientEffect
<1>4. \A d \in Clients : toClient'[d] = IF d = c THEN r ELSE toClient[d]
  BY <1>0, <1>3 DEF NetworkTypeOK
<1> HIDE DEF c
<1>5. \A i \in DOMAIN toClient[c] : toClient[c][i].n <= m.n
  BY <1>0, <1>1 DEF InOrder, c
<1>6. Ordered(r)
  BY <1>0, <1>1, <1>3, <1>5 DEF KeepsOrder, InOrder
<1>7. \A i \in DOMAIN r : r[i].n <= m.n
  BY <1>2, <1>3, <1>5 DEF Arrival
<1>8. \A j \in DOMAIN toServer[c] : m.n <= toServer[c][j].n
  BY <1>0, <1>1 DEF InOrder, c
<1>9. cpc[c] = "waitResp" => PacketId(c) <= m.n
  BY <1>0, <1>1 DEF InOrder, c
<1>10. \A i \in DOMAIN r : r[i] = m \/ \E j \in DOMAIN toClient[c] : r[i] = toClient[c][j]
  BY <1>3 DEF Arrival
<1>11. ASSUME NEW d \in Clients
       PROVE  /\ Ordered(toClient'[d])
              /\ \A i \in DOMAIN toClient'[d], j \in DOMAIN toServer[d] :
                     toClient'[d][i].n <= toServer[d][j].n
              /\ \A g \in handling : g.client = d =>
                     \A i \in DOMAIN toClient'[d] : toClient'[d][i].n <= g.n
              /\ cpc[d] = "waitResp" =>
                     \A i \in DOMAIN toClient'[d] : PacketId(d) <= toClient'[d][i].n
  <2>1. CASE d = c
    BY <1>0, <1>1, <1>4, <1>6, <1>7, <1>8, <1>9, <1>10, <2>1 DEF InOrder
  <2>2. CASE d # c
    BY <1>0, <1>4, <2>2 DEF InOrder
  <2> QED BY <2>1, <2>2
<1> QED BY <1>0, <1>11 DEF InOrder, PacketId

LEMMA OrderServerStep ==
    ASSUME "reorder" \notin Faults, OrderInv,
           ServerStep \/ Tick \/ ServerStop \/ ServerStart, UNCHANGED clientVars
    PROVE  InOrder' /\ AnswerIsForRequest'
<1>0. /\ NetworkTypeOK /\ ClientTypeOK /\ ServerTypeOK /\ InOrder /\ AnswerIsForRequest
      /\ UNCHANGED <<cpc, nextPacketId, answer>>
  BY DEF OrderInv, CausalInv, TypeInv, TypeOK, clientVars
<1>1. AnswerIsForRequest'
  BY <1>0 DEF AnswerIsForRequest, PacketId
<1>2. CASE \E c \in Clients : ReceivePacket(c) \/ Undeliverable(c)
  <2>1. PICK c \in Clients : ReceivePacket(c) \/ Undeliverable(c)
    BY <1>2
  <2> DEFINE q == toServer[c]
  <2>2. TakeFromServerQueue(c) /\ UNCHANGED toClient
    BY <2>1 DEF ReceivePacket, Undeliverable
  <2>3. /\ 1 \in DOMAIN q /\ Head(q) = q[1]
        /\ \A i \in DOMAIN Tail(q) : i + 1 \in DOMAIN q /\ Tail(q)[i] = q[i + 1]
        /\ DOMAIN q \subseteq Nat /\ DOMAIN Tail(q) \subseteq Nat
        /\ \A d \in Clients : toServer'[d] = IF d = c THEN Tail(q) ELSE toServer[d]
    BY <1>0, <2>2, TakeFromServerQueueEffect DEF NetworkTypeOK
  <2>4. Ordered(Tail(q)) /\ \A i \in DOMAIN Tail(q) : Head(q).n <= Tail(q)[i].n
    <3>1. \A i \in DOMAIN Tail(q) : 1 <= i + 1
      BY <2>3
    <3>2. \A i, j \in DOMAIN Tail(q) : i <= j => i + 1 <= j + 1
      BY <2>3
    <3> QED BY <1>0, <2>3, <3>1, <3>2 DEF InOrder, Ordered
  <2>5. \A d \in Clients : /\ Ordered(toServer'[d])
                           /\ \A i \in DOMAIN toServer'[d] :
                                 \E j \in DOMAIN toServer[d] : toServer'[d][i] = toServer[d][j]
    BY <1>0, <2>3, <2>4 DEF InOrder
  <2>6. handling' \subseteq handling \/ handling' = {[client |-> c, n |-> Head(q).n]}
    BY <2>1 DEF ReceivePacket, Undeliverable, serverVars
  <2>7. ASSUME NEW g \in handling', NEW d \in Clients, g.client = d
        PROVE  /\ \A i \in DOMAIN toClient[d] : toClient[d][i].n <= g.n
               /\ \A j \in DOMAIN toServer'[d] : g.n <= toServer'[d][j].n
               /\ cpc[d] = "waitResp" => PacketId(d) <= g.n
    <3>1. CASE g \in handling
      BY <1>0, <2>5, <2>7, <3>1 DEF InOrder
    <3>2. CASE g = [client |-> c, n |-> Head(q).n]
      <4>1. d = c /\ g.n = q[1].n /\ toServer'[c] = Tail(q)
        BY <2>3, <2>7, <3>2
      <4>2. /\ \A i \in DOMAIN toClient[c] : toClient[c][i].n <= q[1].n
            /\ cpc[c] = "waitResp" => PacketId(c) <= q[1].n
        BY <1>0, <2>3 DEF InOrder
      <4> QED BY <2>3, <2>4, <4>1, <4>2
    <3> QED BY <2>6, <3>1, <3>2
  <2>8. ASSUME NEW d \in Clients
        PROVE  /\ \A i \in DOMAIN toClient[d], j \in DOMAIN toServer'[d] :
                      toClient[d][i].n <= toServer'[d][j].n
               /\ cpc[d] = "waitResp" =>
                      /\ \A i \in DOMAIN toClient[d] : PacketId(d) <= toClient[d][i].n
                      /\ \A j \in DOMAIN toServer'[d] : PacketId(d) <= toServer'[d][j].n
    BY <1>0, <2>5 DEF InOrder
  <2>9. \A d \in Clients : Ordered(toServer'[d]) /\ Ordered(toClient[d])
    BY <1>0, <2>5 DEF InOrder
  <2>10. InOrder'
    BY <1>0, <2>2, <2>7, <2>8, <2>9 DEF InOrder, PacketId
  <2> QED BY <1>1, <2>10
<1>3. CASE SendAck
  <2>1. PICK h \in handling : SendToClient(h.client, AckPacket(h.n))
    BY <1>3 DEF SendAck
  <2>2. AckPacket(h.n) \in Packet /\ AckPacket(h.n).n = h.n
    BY <1>0, PacketTypes DEF ServerTypeOK
  <2>3. UNCHANGED <<toServer, handling>>
    BY <1>3 DEF SendAck
  <2> QED BY <1>0, <1>1, <2>1, <2>2, <2>3, OrderAfterSend
<1>4. CASE ProcessUDPRequest
  <2>1. PICK h \in handling : SendToClient(h.client, DataPacket(h.n))
    BY <1>4 DEF ProcessUDPRequest
  <2>2. DataPacket(h.n) \in Packet /\ DataPacket(h.n).n = h.n
    BY <1>0, PacketTypes DEF ServerTypeOK
  <2>3. UNCHANGED toServer /\ handling' \subseteq handling
    BY <1>4 DEF ProcessUDPRequest
  <2> QED BY <1>0, <1>1, <2>1, <2>2, <2>3, OrderAfterSend
<1>5. CASE CheckClientTimeouts \/ Tick \/ ServerStop \/ ServerStart
  <2>1. UNCHANGED <<toServer, toClient>> /\ handling' \subseteq handling
    BY <1>5 DEF CheckClientTimeouts, Tick, ServerStop, ServerStart
  <2> QED BY <1>0, <1>1, <2>1, QueuesUntouched
<1> QED BY <1>2, <1>3, <1>4, <1>5 DEF ServerStep

LEMMA OrderInvStep ==
    ASSUME "reorder" \notin Faults
    PROVE  OrderInv /\ [Next]_vars => OrderInv'
<1> SUFFICES ASSUME OrderInv, [Next]_vars PROVE OrderInv'
  OBVIOUS
<1>1. CausalInv'
  BY CausalInvStep DEF OrderInv
<1>2. CASE Next
  BY <1>1, <1>2, NextCases, OrderClientStep, OrderServerStep DEF OrderInv
<1>3. CASE UNCHANGED vars
  BY <1>1, <1>3 DEF vars, clientVars, serverVars, OrderInv, InOrder, AnswerIsForRequest, PacketId
<1> QED BY <1>2, <1>3

LEMMA OrderCorrect ==
    ASSUME "reorder" \notin Faults
    PROVE  Spec => []OrderInv
<1>1. Init => OrderInv
  BY TypeInvInit, CausalInit, OrderInit DEF OrderInv, CausalInv
<1> QED BY <1>1, OrderInvStep, PTL DEF Spec

(* On a network that may lose, double and delay datagrams but lets none     *)
(* overtake another, with a server that may end and start again at any      *)
(* time: sendRequest returns the result of the request it was called with,  *)
(* although receiveResponse takes any DATA for it.                          *)
THEOREM AnswersMatch ==
    ASSUME "reorder" \notin Faults
    PROVE  Spec => []AnswerIsForRequest
BY OrderCorrect, PTL DEF OrderInv

(* The reason: the datagrams for a client stay ordered by request.          *)
THEOREM OrderHolds ==
    ASSUME "reorder" \notin Faults
    PROVE  Spec => []InOrder
BY OrderCorrect, PTL DEF OrderInv

-----------------------------------------------------------------------------
(***************************************************************************)
(* The exchange implements RequestReply.                                   *)
(***************************************************************************)
LEMMA PromiseInit == Init => Promise!Init
BY DEF Init, NetworkInit, ClientInit, ServerInit, Promise!Init, Phase, PacketId

(* A client step changes nothing the abstract client shows, or ends its     *)
(* request, with the answer to it or without one.                           *)
LEMMA PromiseClientStep ==
    ASSUME OrderInv, OrderInv', NEW c \in Clients,
           ClientStep(c) \/ SendRequest(c) \/ Exit(c), UNCHANGED serverVars
    PROVE  [Promise!Next]_(Promise!vars)
<1>0. /\ NetworkTypeOK /\ ClientTypeOK /\ LoopBounds /\ Causal /\ InOrder
      /\ AnswerIsForRequest' /\ UNCHANGED <<heard, served>>
  BY DEF OrderInv, CausalInv, TypeInv, TypeOK, serverVars
<1> USE DEF Phase, PacketId
<1>1. CASE SendRequest(c)
  <2>1. /\ cpc[c] = "idle" /\ nextPacketId[c] - 1 < MaxRequests
        /\ answer' = [answer EXCEPT ![c] = 0]
    BY <1>0, <1>1, NetworkAssumption DEF SendRequest, ClientTypeOK
  <2>2. /\ \A d \in Clients : cpc'[d] = IF d = c THEN "send" ELSE cpc[d]
        /\ \A d \in Clients : nextPacketId'[d] - 1 =
                IF d = c THEN nextPacketId[d] - 1 + 1 ELSE nextPacketId[d] - 1
    BY <1>0, <1>1, NetworkAssumption DEF SendRequest, ClientTypeOK
  <2>3. [d \in Clients |-> PacketId(d)]' =
            [[d \in Clients |-> PacketId(d)] EXCEPT ![c] = @ + 1]
    BY <2>2
  <2>4. [d \in Clients |-> Phase(d)]' =
            [[d \in Clients |-> Phase(d)] EXCEPT ![c] = "pending"]
    BY <2>2
  <2>5. Promise!Ask(c)
    BY <1>0, <2>1, <2>3, <2>4 DEF Promise!Ask
  <2> QED BY <2>5 DEF Promise!Next
<1>2. CASE Exit(c)
  <2>1. Promise!Leave(c)
    BY <1>0, <1>2 DEF Exit, Promise!Leave, ClientTypeOK
  <2> QED BY <2>1 DEF Promise!Next
<1>3. ASSUME ClientStep(c) PROVE UNCHANGED nextPacketId /\ Phase(c) = "pending"
  BY <1>3 DEF ClientStep, SendData, SendDataFails, ReceiveInWaitForAck, TimeoutInWaitForAck,
              ReceiveInReceiveResponse, TimeoutInReceiveResponse
<1>4. ASSUME ClientStep(c)
      PROVE  \/ Phase(c)' = "pending" /\ UNCHANGED answer
             \/ Phase(c)' = "failed" /\ UNCHANGED answer
             \/ ReceiveInReceiveResponse(c) /\ cpc'[c] = "idle"
                 /\ IsResponse(Head(toClient[c]), PacketId(c))
                 /\ answer' = [answer EXCEPT ![c] = Head(toClient[c]).n]
  BY <1>0, <1>4 DEF ClientStep, SendData, SendDataFails, ReceiveInWaitForAck,
       TimeoutInWaitForAck, ReceiveInReceiveResponse, TimeoutInReceiveResponse,
       AckMissed, EndAttempt, ResponseMissed, ClientTypeOK
<1>5. ASSUME ClientStep(c)
      PROVE  cpc' = [cpc EXCEPT ![c] = cpc'[c]]
  BY <1>0, <1>5 DEF ClientStep, SendData, SendDataFails, ReceiveInWaitForAck,
       TimeoutInWaitForAck, ReceiveInReceiveResponse, TimeoutInReceiveResponse,
       AckMissed, EndAttempt, ResponseMissed, ClientTypeOK
<1>6. CASE ClientStep(c) /\ Phase(c)' = "pending" /\ UNCHANGED answer
  <2>1. \A d \in Clients : Phase(d)' = Phase(d)
    BY <1>0, <1>3, <1>5, <1>6 DEF ClientTypeOK
  <2> QED BY <1>0, <1>3, <1>6, <2>1 DEF Promise!vars
<1>7. CASE ClientStep(c) /\ Phase(c)' = "failed" /\ UNCHANGED answer
  <2>1. Promise!GiveUp(c)
    BY <1>0, <1>3, <1>5, <1>7 DEF Promise!GiveUp, ClientTypeOK
  <2> QED BY <2>1 DEF Promise!Next
<1>8. CASE /\ ClientStep(c) /\ ReceiveInReceiveResponse(c) /\ cpc'[c] = "idle"
           /\ IsResponse(Head(toClient[c]), PacketId(c))
           /\ answer' = [answer EXCEPT ![c] = Head(toClient[c]).n]
  <2>1. /\ 1 \in DOMAIN toClient[c] /\ Head(toClient[c]) = toClient[c][1]
    BY <1>0, <1>8, TakeFromClientQueueEffect DEF ReceiveInReceiveResponse
  <2>2. Head(toClient[c]).n \in served[c]
    BY <1>0, <1>8, <2>1 DEF Causal, IsResponse
  <2>3. Head(toClient[c]).n = PacketId(c)
    <3>0. cpc[c] = "waitResp"
      BY <1>8 DEF ReceiveInReceiveResponse
    <3>1. nextPacketId'[c] > 1 /\ cpc'[c] = "idle"
      BY <1>0, <1>3, <1>8, <3>0, NetworkAssumption DEF LoopBounds, ClientTypeOK
    <3>2. answer'[c] = PacketId(c)
      BY <1>0, <1>3, <1>8, <3>1 DEF AnswerIsForRequest
    <3> QED BY <1>0, <1>8, <3>2 DEF ClientTypeOK
  <2>4. Promise!Answer(c)
    BY <1>0, <1>3, <1>5, <1>8, <2>2, <2>3 DEF Promise!Answer, ClientTypeOK
  <2> QED BY <2>4 DEF Promise!Next
<1> QED BY <1>1, <1>2, <1>4, <1>6, <1>7, <1>8

LEMMA PromiseServerStep ==
    ASSUME OrderInv, ServerStep \/ Tick \/ ServerStop \/ ServerStart, UNCHANGED clientVars
    PROVE  [Promise!Next]_(Promise!vars)
<1>0. /\ NetworkTypeOK /\ ClientTypeOK /\ ServerTypeOK /\ Causal
      /\ UNCHANGED <<cpc, nextPacketId, answer>>
  BY DEF OrderInv, CausalInv, TypeInv, TypeOK, clientVars
<1> USE DEF Phase, PacketId
<1>1. CASE \E c \in Clients : ReceivePacket(c)
  <2>1. PICK c \in Clients : ReceivePacket(c)
    BY <1>1
  <2>2. TakeFromServerQueue(c) /\ served' = served
        /\ heard' = [heard EXCEPT ![c] = @ \cup {Head(toServer[c]).n}]
    BY <2>1 DEF ReceivePacket
  <2>3. Head(toServer[c]).n \in 1 .. PacketId(c)
    BY <1>0, <2>2, TakeFromServerQueueEffect DEF Causal, Packet, ClientTypeOK
  <2>4. Promise!Hear(c)
    BY <1>0, <2>2, <2>3 DEF Promise!Hear
  <2> QED BY <2>4 DEF Promise!Next
<1>2. CASE ProcessUDPRequest
  <2>1. PICK h \in handling : served' = [served EXCEPT ![h.client] = @ \cup {h.n}]
    BY <1>2 DEF ProcessUDPRequest
  <2>2. h.client \in Clients /\ h.n \in heard[h.client] /\ heard' = heard
    BY <1>0, <1>2, <2>1 DEF Causal, ServerTypeOK, ProcessUDPRequest
  <2>3. Promise!Serve(h.client)
    BY <1>0, <2>1, <2>2 DEF Promise!Serve
  <2> QED BY <2>2, <2>3 DEF Promise!Next
<1>3. CASE \/ SendAck \/ CheckClientTimeouts \/ Tick \/ ServerStop \/ ServerStart
           \/ \E c \in Clients : Undeliverable(c)
  <2>1. UNCHANGED <<heard, served>>
    BY <1>3 DEF SendAck, CheckClientTimeouts, Tick, ServerStop, ServerStart, Undeliverable,
                serverVars
  <2> QED BY <1>0, <2>1 DEF Promise!vars
<1> QED BY <1>1, <1>2, <1>3 DEF ServerStep

LEMMA PromiseStep ==
    ASSUME OrderInv, OrderInv', [Next]_vars
    PROVE  [Promise!Next]_(Promise!vars)
<1>1. CASE Next
  BY <1>1, NextCases, PromiseClientStep, PromiseServerStep
<1>2. CASE UNCHANGED vars
  BY <1>2 DEF vars, clientVars, serverVars, Promise!vars, Phase, PacketId
<1> QED BY <1>1, <1>2

(* On a network without overtaking the exchange implements RequestReply:    *)
(* one request at a time, ended by the answer the server computed for that  *)
(* request after receiving it, or by an error that ends the client.         *)
THEOREM ExchangeKeepsPromise ==
    ASSUME "reorder" \notin Faults
    PROVE  Spec => KeepsPromise
<1>1. Spec => []OrderInv
  BY OrderCorrect
<1>2. OrderInv /\ OrderInv' /\ [Next]_vars => [Promise!Next]_(Promise!vars)
  BY PromiseStep
<1> QED BY <1>1, <1>2, PromiseInit, PTL DEF Spec, KeepsPromise, Promise!Spec

-----------------------------------------------------------------------------
(***************************************************************************)
(* The server's record of its clients.                                     *)
(***************************************************************************)
KnownInv ==
    /\ TypeInv
    /\ \A c \in Clients :
          lastHeard[c] >= 0 /\ now - lastHeard[c] <= ClientTimeout
              => c \in DOMAIN activeClients /\ activeClients[c] = lastHeard[c]

LEMMA KnownInvInit == Init => KnownInv
BY TypeInvInit DEF Init, ServerInit, KnownInv

LEMMA KnownInvStep == KnownInv /\ [Next]_vars => KnownInv'
<1> SUFFICES ASSUME KnownInv, [Next]_vars PROVE KnownInv'
  OBVIOUS
<1>1. TypeInv'
  BY TypeInvStep DEF KnownInv
<1>2. ServerTypeOK
  BY DEF KnownInv, TypeInv, TypeOK
<1>3. CASE UNCHANGED <<lastHeard, now, activeClients>>
  BY <1>1, <1>3 DEF KnownInv
<1>4. CASE \E c \in Clients : ReceivePacket(c)
  <2>1. PICK c \in Clients : ReceivePacket(c)
    BY <1>4
  <2>2. /\ lastHeard' = [lastHeard EXCEPT ![c] = now] /\ now' = now
        /\ activeClients' = [d \in DOMAIN activeClients \cup {c} |->
                                IF d = c THEN now ELSE activeClients[d]]
    BY <2>1 DEF ReceivePacket, UpdateClientActivity
  <2> QED BY <1>1, <1>2, <2>2 DEF KnownInv, ServerTypeOK
<1>5. CASE CheckClientTimeouts
  <2>1. /\ UNCHANGED <<lastHeard, now>>
        /\ activeClients' = [c \in {d \in DOMAIN activeClients :
                                      now - activeClients[d] <= ClientTimeout} |->
                                activeClients[c]]
    BY <1>5 DEF CheckClientTimeouts
  <2> QED BY <1>1, <2>1 DEF KnownInv
<1>6. CASE Tick
  <2>1. /\ UNCHANGED <<lastHeard, activeClients>> /\ now' = now + 1
        /\ now \in Nat /\ ClientTimeout \in Nat /\ \A c \in Clients : lastHeard[c] \in Int
    BY <1>2, <1>6, ServerAssumption DEF Tick, ServerTypeOK
  <2>2. \A c \in Clients : now' - lastHeard[c] <= ClientTimeout
                              => now - lastHeard[c] <= ClientTimeout
    BY <2>1
  <2> QED BY <1>1, <2>1, <2>2 DEF KnownInv
<1>7. CASE ServerStop
  BY <1>1, <1>7 DEF ServerStop, KnownInv
<1> QED BY <1>3, <1>4, <1>5, <1>6, <1>7
        DEF Next, ServerStep, SendAck, ProcessUDPRequest, Undeliverable, ServerStart,
            serverVars, vars

(* The server never drops a client that it heard within CLIENT_TIMEOUT_SEC, *)
(* on whatever client's account checkClientTimeouts runs.                   *)
THEOREM RecentClientsAreKept == Spec => []RecentClientIsKnown
<1>1. KnownInv => RecentClientIsKnown
  BY DEF KnownInv, RecentClientIsKnown
<1> QED BY <1>1, KnownInvInit, KnownInvStep, PTL DEF Spec

-----------------------------------------------------------------------------
(***************************************************************************)
(* Fewer faults than attempts are made up for.  A failed request would     *)
(* have used up all its attempts or all its reads of receiveResponse.  A   *)
(* read is lost to a datagram of an earlier transmission, to a late one,   *)
(* or because nothing comes; the invariant counts all three.               *)
(***************************************************************************)
Repairs ==
    /\ Faults \cap {"reorder", "lossAnswer", "crash"} = {}
    /\ MaxFaults < MaxAttempts

ServerRuns == spc # "down" /\ (handling # {} => spc \in {"ack", "reply"})

(* The datagrams the server has yet to send for the request it handles. *)
Handles(c) == \E h \in handling : h.client = c
Owed(c) == IF Handles(c) THEN IF spc = "ack" THEN 2 ELSE 1 ELSE 0

(* Everything that will come to c: two datagrams per request on its way. *)
Load(c) == Len(toClient[c]) + Owed(c) + 2 * Len(toServer[c])

(* Between two requests no more is left over than two datagrams per fault. *)
LoadBound(c) ==
    /\ cpc[c] \in {"idle", "send"} => Load(c) <= 2 * faults
    /\ cpc[c] = "waitAck" => \/ Load(c) <= 2 * faults
                             \/ Load(c) + reads[c] <= 2 * faults + 2
    /\ cpc[c] = "waitResp" => Load(c) <= 2 * faults + 1

(* An ACK of the request under way will come after p other datagrams. *)
AckComes(c, p) ==
    \/ p + 1 \in DOMAIN toClient[c] /\ toClient[c][p + 1] = AckPacket(PacketId(c))
    \/ /\ spc = "ack" /\ [client |-> c, n |-> PacketId(c)] \in handling
       /\ p = Len(toClient[c])
    \/ \E j \in DOMAIN toServer[c] :
           /\ toServer[c][j].n = PacketId(c)
           /\ p = Len(toClient[c]) + Owed(c) + 2 * (j - 1)

(***************************************************************************)
(* The reads spent on a request, an attempt counted as MaxAttempts of      *)
(* them, and those that leftovers will take before its ACK comes, are paid *)
(* for by faults, MaxAttempts each.  When no ACK is to come, the fault     *)
(* that took it pays for the attempt under way.                            *)
(***************************************************************************)
InReads(attempts) == MaxAttempts * attempts

Spent(c) == InReads(attempt[c]) + (IF cpc[c] = "waitAck" THEN reads[c] ELSE 0)

AttemptsLeft(c) ==
    cpc[c] \in {"send", "waitAck"} =>
        \E p \in Nat :
            /\ Spent(c) + p <= InReads(faults)
            /\ \/ AckComes(c, p)
               \/ p = Load(c) /\ (cpc[c] = "waitAck" => attempt[c] + 1 <= faults)

(* After an ACK comes DATA, with another ACK between them at most, which is *)
(* then a doubled one.                                                      *)
DataFollows(c, i) ==
    \/ i + 1 \in DOMAIN toClient[c] /\ toClient[c][i + 1].type = "DATA"
    \/ i + 2 \in DOMAIN toClient[c] /\ toClient[c][i + 2].type = "DATA" /\ faults >= 1
    \/ Owed(c) = 1 /\ i = Len(toClient[c])
    \/ Owed(c) = 1 /\ i = Len(toClient[c]) - 1 /\ faults >= 1

AcksAreFollowed(c) ==
    \A i \in DOMAIN toClient[c] : toClient[c][i].type = "ACK" => DataFollows(c, i)

(* DATA comes to a client that waits for its response, before its reads are *)
(* used up.                                                                 *)
ReadsLeft(c) ==
    cpc[c] = "waitResp" =>
        \E k \in 1 .. Len(toClient[c]) + 1 :
            /\ reads[c] + k - 1 <= faults
            /\ \/ k <= Len(toClient[c]) /\ toClient[c][k].type = "DATA"
               \/ k = Len(toClient[c]) + 1 /\ Owed(c) = 1

Unfailing(c) ==
    LoadBound(c) /\ AttemptsLeft(c) /\ AcksAreFollowed(c) /\ ReadsLeft(c) /\ cpc[c] # "failed"

RepairInv == OrderInv /\ ServerRuns /\ \A c \in Clients : Unfailing(c)

(* Multiples of MaxAttempts. *)
LEMMA AttemptArithmetic ==
    ASSUME NEW x \in Nat, NEW y \in Nat
    PROVE  /\ InReads(x) \in Nat
           /\ InReads(x + 1) = InReads(x) + MaxAttempts
           /\ InReads(x) <= InReads(y) <=> x <= y
           /\ x < MaxAttempts => 2 * x <= InReads(x)
<1>1. MaxAttempts \in Nat /\ MaxAttempts >= 1
  BY ClientAssumption
<1>2. MaxAttempts * x \in Nat /\ MaxAttempts * (x + 1) = MaxAttempts * x + MaxAttempts
  BY <1>1
<1>3. x <= y => MaxAttempts * x <= MaxAttempts * y
  BY <1>1
<1>4. MaxAttempts * x <= MaxAttempts * y => x <= y
  <2>1. CASE x <= y
    BY <2>1
  <2>2. CASE x >= y + 1
    <3>1. MaxAttempts * x >= MaxAttempts * (y + 1)
      BY <1>1, <2>2
    <3>2. MaxAttempts * (y + 1) = MaxAttempts * y + MaxAttempts /\ MaxAttempts * y \in Nat
      BY <1>1
    <3> QED BY <1>1, <1>2, <3>1, <3>2
  <2> QED BY <2>1, <2>2
<1>5. x < MaxAttempts => 2 * x <= MaxAttempts * x
  <2>1. CASE x = 0
    BY <1>1, <2>1
  <2>2. CASE x >= 1 /\ x < MaxAttempts
    BY <1>1, <2>2
  <2> QED BY <2>1, <2>2
<1> QED BY <1>2, <1>3, <1>4, <1>5 DEF InReads

(* What the invariants above are about, typed. *)
LEMMA Measures ==
    ASSUME TypeInv, NEW c \in Clients
    PROVE  /\ toClient[c] \in Seq(Packet) /\ toServer[c] \in Seq(Packet)
           /\ Len(toClient[c]) \in Nat /\ DOMAIN toClient[c] = 1 .. Len(toClient[c])
           /\ Len(toServer[c]) \in Nat /\ DOMAIN toServer[c] = 1 .. Len(toServer[c])
           /\ Owed(c) \in 0 .. 2 /\ Load(c) \in Nat
           /\ attempt[c] \in Nat /\ reads[c] \in Nat
           /\ faults \in Nat /\ faults <= MaxFaults /\ MaxFaults \in Nat
           /\ MaxAttempts \in Nat /\ MaxAttempts >= 1
<1>1. toClient[c] \in Seq(Packet) /\ toServer[c] \in Seq(Packet)
  BY DEF TypeInv, TypeOK, NetworkTypeOK
<1>2. /\ Len(toClient[c]) \in Nat /\ DOMAIN toClient[c] = 1 .. Len(toClient[c])
      /\ Len(toServer[c]) \in Nat /\ DOMAIN toServer[c] = 1 .. Len(toServer[c])
  BY <1>1, LenProperties
<1>3. Owed(c) \in 0 .. 2
  BY DEF Owed
<1>4. Load(c) \in Nat
  BY <1>2, <1>3 DEF Load
<1>5. attempt[c] \in 0 .. MaxAttempts /\ reads[c] \in 0 .. MaxAttempts /\ faults \in 0 .. MaxFaults
  BY DEF TypeInv, TypeOK, NetworkTypeOK, ClientTypeOK
<1> QED BY <1>1, <1>2, <1>3, <1>4, <1>5, NetworkAssumption, ClientAssumption

(***************************************************************************)
(* A queue r that a send makes of q: the datagram arrives once without a   *)
(* fault, or not at all or twice with one.                                 *)
(***************************************************************************)
Sent(q, m, k, r) ==
    /\ k \in 0 .. 2
    /\ r \in Seq(Packet)
    /\ Len(r) = Len(q) + k
    /\ \A i \in 1 .. Len(q) : r[i] = q[i]
    /\ \A i \in Len(q) + 1 .. Len(q) + k : r[i] = m
    /\ faults' = IF k = 1 THEN faults ELSE faults + 1

LEMMA AppendedIsSent ==
    ASSUME NEW q \in Seq(Packet), NEW m \in Packet
    PROVE  /\ faults' = faults     => Sent(q, m, 1, Append(q, m))
           /\ faults' = faults + 1 => Sent(q, m, 2, Append(Append(q, m), m))
           /\ faults' = faults + 1 => Sent(q, m, 0, q)
<1>1. Len(q) \in Nat
  BY LenProperties
<1>2. /\ Append(q, m) \in Seq(Packet) /\ Len(Append(q, m)) = Len(q) + 1
      /\ \A i \in 1 .. Len(q) : Append(q, m)[i] = q[i]
      /\ Append(q, m)[Len(q) + 1] = m
  BY AppendProperties
<1> DEFINE s == Append(q, m)
<1> HIDE DEF s
<1>3. s \in Seq(Packet) /\ Len(s) = Len(q) + 1
  BY <1>2 DEF s
<1>4. /\ Append(s, m) \in Seq(Packet) /\ Len(Append(s, m)) = Len(s) + 1
      /\ \A i \in 1 .. Len(s) : Append(s, m)[i] = s[i]
      /\ Append(s, m)[Len(s) + 1] = m
  BY <1>3, AppendProperties
<1>5. /\ \A i \in 1 .. Len(q) : s[i] = q[i]
      /\ s[Len(q) + 1] = m
  BY <1>2 DEF s
<1>6. faults' = faults => Sent(q, m, 1, s)
  BY <1>1, <1>3, <1>5 DEF Sent
<1>7. faults' = faults + 1 => Sent(q, m, 2, Append(s, m))
  <2>1. \A i \in 1 .. Len(q) : Append(s, m)[i] = q[i]
    BY <1>1, <1>3, <1>4, <1>5
  <2>2. \A i \in Len(q) + 1 .. Len(q) + 2 : Append(s, m)[i] = m
    BY <1>1, <1>3, <1>4, <1>5
  <2> QED BY <1>1, <1>3, <1>4, <2>1, <2>2 DEF Sent
<1>8. faults' = faults + 1 => Sent(q, m, 0, q)
  BY <1>1 DEF Sent
<1> QED BY <1>6, <1>7, <1>8 DEF s

LEMMA SendToServerIsSent ==
    ASSUME Repairs, NetworkTypeOK, NEW c \in Clients, NEW m \in Packet, SendToServer(c, m)
    PROVE  \E k, r : Sent(toServer[c], m, k, r) /\ toServer' = [toServer EXCEPT ![c] = r]
<1>1. toServer[c] \in Seq(Packet)
  BY DEF NetworkTypeOK
<1>2. CASE toServer' = [toServer EXCEPT ![c] = Append(@, m)] /\ UNCHANGED faults
  <2>1. toServer' = [toServer EXCEPT ![c] = Append(toServer[c], m)]
    BY <1>2
  <2>2. Sent(toServer[c], m, 1, Append(toServer[c], m))
    BY <1>1, <1>2, AppendedIsSent
  <2> QED BY <2>1, <2>2
<1>3. CASE /\ faults' = faults + 1
           /\ \E r \in Altered(toServer[c], m, "lossRequest") :
                  toServer' = [toServer EXCEPT ![c] = r]
  <2>1. PICK r \in Altered(toServer[c], m, "lossRequest") : toServer' = [toServer EXCEPT ![c] = r]
    BY <1>3
  <2>2. r = toServer[c] \/ r = Append(Append(toServer[c], m), m)
    BY DEF Altered, Repairs
  <2> QED BY <1>1, <1>3, <2>1, <2>2, AppendedIsSent
<1> QED BY <1>2, <1>3 DEF SendToServer

LEMMA SendToClientIsSent ==
    ASSUME Repairs, NetworkTypeOK, NEW c \in Clients, NEW m \in Packet, SendToClient(c, m)
    PROVE  \E k, r : /\ Sent(toClient[c], m, k, r)
                     /\ toClient' = [toClient EXCEPT ![c] = r]
                     /\ k = 0 => m.type = "ACK"
<1>1. toClient[c] \in Seq(Packet)
  BY DEF NetworkTypeOK
<1>2. CASE toClient' = [toClient EXCEPT ![c] = Append(@, m)] /\ UNCHANGED faults
  <2>1. toClient' = [toClient EXCEPT ![c] = Append(toClient[c], m)]
    BY <1>2
  <2>2. Sent(toClient[c], m, 1, Append(toClient[c], m))
    BY <1>1, <1>2, AppendedIsSent
  <2> WITNESS 1, Append(toClient[c], m)
  <2> QED BY <2>1, <2>2
<1>3. CASE /\ faults' = faults + 1
           /\ \E r \in Altered(toClient[c], m, IF m.type = "ACK" THEN "lossAck" ELSE "lossAnswer") :
                  toClient' = [toClient EXCEPT ![c] = r]
  <2>1. PICK r \in Altered(toClient[c], m, IF m.type = "ACK" THEN "lossAck" ELSE "lossAnswer") :
             toClient' = [toClient EXCEPT ![c] = r]
    BY <1>3
  <2>2. \/ r = toClient[c] /\ m.type = "ACK"
        \/ r = Append(Append(toClient[c], m), m)
    BY DEF Altered, Repairs
  <2>3. CASE r = toClient[c] /\ m.type = "ACK"
    <3>1. Sent(toClient[c], m, 0, r)
      BY <1>1, <1>3, <2>3, AppendedIsSent
    <3> QED BY <2>1, <2>3, <3>1
  <2>4. CASE r = Append(Append(toClient[c], m), m)
    <3>1. Sent(toClient[c], m, 2, r)
      BY <1>1, <1>3, <2>4, AppendedIsSent
    <3> WITNESS 2, r
    <3> QED BY <2>1, <3>1
  <2> QED BY <2>2, <2>3, <2>4
<1> QED BY <1>2, <1>3 DEF SendToClient

(* No step takes a fault back. *)
LEMMA FaultsGrow ==
    ASSUME TypeInv, Next
    PROVE  faults' \in Nat /\ faults' >= faults /\ faults' <= MaxFaults
<1>1. faults \in Nat /\ faults' \in 0 .. MaxFaults
  <2>1. TypeInv'
    BY TypeInvStep
  <2> QED BY <2>1 DEF TypeInv, TypeOK, NetworkTypeOK
<1>2. faults' = faults \/ faults' = faults + 1
  BY DEF Next, ClientStep, ServerStep, SendRequest, SendData, SendDataFails, ReceiveInWaitForAck,
         TimeoutInWaitForAck, ReceiveInReceiveResponse, TimeoutInReceiveResponse, TimesOut, Fault,
         Exit, ReceivePacket, SendAck, ProcessUDPRequest, CheckClientTimeouts, Undeliverable,
         Tick, ServerStop, ServerStart, SendToServer, SendToClient
<1> QED BY <1>1, <1>2, NetworkAssumption

(* A step that leaves c and what is on its way for c alone. *)
LEMMA UnfailingUntouched ==
    ASSUME TypeInv, NEW c \in Clients, Unfailing(c), faults' \in Nat, faults' >= faults,
           toClient'[c] = toClient[c], toServer'[c] = toServer[c], cpc'[c] = cpc[c],
           nextPacketId'[c] = nextPacketId[c], attempt'[c] = attempt[c], reads'[c] = reads[c],
           Owed(c)' = Owed(c),
           spc = "ack" /\ [client |-> c, n |-> PacketId(c)] \in handling
               => spc' = "ack" /\ [client |-> c, n |-> PacketId(c)] \in handling'
    PROVE  Unfailing(c)'
<1>1. /\ Len(toClient[c]) \in Nat /\ Owed(c) \in 0 .. 2 /\ Load(c) \in Nat
      /\ attempt[c] \in Nat /\ reads[c] \in Nat /\ faults \in Nat
      /\ DOMAIN toClient[c] = 1 .. Len(toClient[c])
  BY Measures
<1>2. Load(c)' = Load(c) /\ PacketId(c)' = PacketId(c) /\ Spent(c)' = Spent(c)
  BY DEF Load, PacketId, Spent
<1>3. LoadBound(c)'
  BY <1>1, <1>2 DEF Unfailing, LoadBound
<1>4. InReads(faults) <= InReads(faults') /\ InReads(faults) \in Nat
      /\ InReads(faults') \in Nat /\ InReads(attempt[c]) \in Nat
  BY <1>1, AttemptArithmetic
<1>5. AttemptsLeft(c)'
  <2> SUFFICES ASSUME cpc'[c] \in {"send", "waitAck"}
               PROVE  \E p \in Nat :
                        /\ Spent(c)' + p <= InReads(faults')
                        /\ \/ AckComes(c, p)'
                           \/ p = Load(c)' /\ (cpc'[c] = "waitAck" => attempt'[c] + 1 <= faults')
    BY DEF AttemptsLeft
  <2>1. PICK p \in Nat : /\ Spent(c) + p <= InReads(faults)
                         /\ \/ AckComes(c, p)
                            \/ p = Load(c) /\ (cpc[c] = "waitAck" => attempt[c] + 1 <= faults)
    BY DEF Unfailing, AttemptsLeft
  <2>2. Spent(c) \in Nat
    BY <1>1, <1>4 DEF Spent
  <2>3. Spent(c)' + p <= InReads(faults')
    BY <1>2, <1>4, <2>1, <2>2
  <2>4. AckComes(c, p) => AckComes(c, p)'
    BY <1>2 DEF AckComes
  <2>5. p = Load(c) /\ (cpc[c] = "waitAck" => attempt[c] + 1 <= faults)
          => p = Load(c)' /\ (cpc'[c] = "waitAck" => attempt'[c] + 1 <= faults')
    BY <1>1, <1>2
  <2> QED BY <2>1, <2>3, <2>4, <2>5
<1>6. AcksAreFollowed(c)'
  BY <1>1, SMTT(30) DEF Unfailing, AcksAreFollowed, DataFollows
<1>7. ReadsLeft(c)'
  BY <1>1 DEF Unfailing, ReadsLeft
<1> QED BY <1>3, <1>5, <1>6, <1>7 DEF Unfailing

(* A step of a client leaves what the server owes alone. *)
LEMMA OwedSame ==
    ASSUME UNCHANGED serverVars, NEW d
    PROVE  Owed(d)' = Owed(d)
BY DEF serverVars, Owed, Handles

(* A read of waitForAck that did not bring the ACK: it took a leftover, it  *)
(* was late, or nothing was to come.  Never does it use up the attempts.    *)
LEMMA MissedAck ==
    ASSUME Repairs, TypeInv, NEW c \in Clients, Unfailing(c), UNCHANGED serverVars,
           cpc[c] = "waitAck", AckMissed(c), UNCHANGED <<nextPacketId, toServer>>,
           faults' \in Nat, faults' <= MaxFaults,
           \/ /\ toClient[c] # << >> /\ Head(toClient[c]) # AckPacket(PacketId(c))
              /\ toClient' = [toClient EXCEPT ![c] = Tail(@)] /\ faults' = faults
           \/ toClient' = toClient /\ faults' = faults + 1
           \/ NothingOnTheWay(c) /\ toClient' = toClient /\ faults' = faults
    PROVE  LoadBound(c)' /\ AttemptsLeft(c)' /\ cpc'[c] \in {"send", "waitAck"}
<1> DEFINE q == toClient[c]
           taken == toClient[c] # << >> /\ toClient' = [toClient EXCEPT ![c] = Tail(@)]
           late == toClient' = toClient /\ faults' = faults + 1
           silence == NothingOnTheWay(c) /\ toClient' = toClient /\ faults' = faults
<1>1. /\ q \in Seq(Packet) /\ Len(q) \in Nat /\ DOMAIN q = 1 .. Len(q)
      /\ Len(toServer[c]) \in Nat /\ DOMAIN toServer[c] = 1 .. Len(toServer[c])
      /\ Owed(c) \in 0 .. 2 /\ Load(c) \in Nat
      /\ attempt[c] \in Nat /\ reads[c] \in Nat /\ faults \in Nat
      /\ MaxAttempts \in Nat /\ MaxAttempts >= 1
  BY Measures
<1>2. reads[c] < MaxAttempts /\ MaxFaults < MaxAttempts /\ MaxFaults \in Nat
  BY NetworkAssumption DEF TypeInv, LoopBounds, Repairs
<1>3. Owed(c)' = Owed(c) /\ PacketId(c)' = PacketId(c) /\ UNCHANGED <<spc, handling>>
  BY OwedSame DEF PacketId, serverVars
<1>4. taken => /\ Len(q) >= 1 /\ Head(q) = q[1] /\ toClient'[c] = Tail(q)
               /\ DOMAIN Tail(q) = 1 .. Len(q) - 1 /\ Len(Tail(q)) = Len(q) - 1
               /\ \A i \in 1 .. Len(q) - 1 : Tail(q)[i] = q[i + 1]
  <2> HAVE taken
  <2>1. /\ Tail(q) \in Seq(Packet) /\ Len(Tail(q)) = Len(q) - 1 /\ Head(q) = q[1]
        /\ \A i \in 1 .. Len(Tail(q)) : Tail(q)[i] = q[i + 1]
    BY <1>1, HeadTailProperties
  <2>2. DOMAIN Tail(q) = 1 .. Len(Tail(q)) /\ Len(q) # 0
    BY <1>1, <2>1, LenProperties, EmptySeq
  <2>3. toClient'[c] = Tail(q)
    BY DEF TypeInv, TypeOK, NetworkTypeOK
  <2> QED BY <1>1, <2>1, <2>2, <2>3
<1>5. silence => q = << >> /\ toServer[c] = << >> /\ Owed(c) = 0 /\ Load(c) = 0 /\ Load(c)' = 0
  <2> HAVE silence
  <2>1. q = << >> /\ toServer[c] = << >> /\ ~ Handles(c)
    BY DEF NothingOnTheWay, Handles
  <2>2. Len(q) = 0 /\ Len(toServer[c]) = 0 /\ Owed(c) = 0
    BY <2>1 DEF Owed
  <2> QED BY <1>3, <2>1, <2>2 DEF Load
<1>6. taken => Load(c) >= 1 /\ Load(c)' = Load(c) - 1
  <2> HAVE taken
  <2>1. Len(q) >= 1 /\ Len(toClient'[c]) = Len(q) - 1 /\ Len(toServer'[c]) = Len(toServer[c])
    BY <1>4
  <2>2. /\ Load(c) = Len(q) + Owed(c) + 2 * Len(toServer[c])
        /\ Load(c)' = Len(toClient'[c]) + Owed(c)' + 2 * Len(toServer'[c])
    BY DEF Load
  <2>3. Load(c)' = (Len(q) - 1) + Owed(c) + 2 * Len(toServer[c])
    BY <1>3, <2>1, <2>2
  <2>4. Len(q) \in Nat /\ Len(toServer[c]) \in Nat /\ Owed(c) \in Nat /\ Len(q) >= 1
    BY <1>1, <2>1
  <2> HIDE DEF taken, q
  <2> QED BY <2>2, <2>3, <2>4
<1>7. late => Load(c)' = Load(c)
  BY <1>3 DEF Load
<1>8. PICK p \in Nat : /\ Spent(c) + p <= InReads(faults)
                       /\ AckComes(c, p) \/ (p = Load(c) /\ attempt[c] + 1 <= faults)
  BY DEF Unfailing, AttemptsLeft
<1>9. Spent(c) = InReads(attempt[c]) + reads[c]
  BY DEF Spent
<1> HIDE DEF q
<1>10. \E r \in Nat :
          /\ InReads(attempt[c]) + reads[c] + 1 + r <= InReads(faults')
          /\ AckComes(c, r)' \/ (r = Load(c)' /\ attempt[c] + 1 <= faults')
  <2>0. /\ InReads(attempt[c]) \in Nat /\ InReads(faults) \in Nat
        /\ InReads(faults + 1) = InReads(faults) + MaxAttempts
        /\ InReads(attempt[c] + 1) = InReads(attempt[c]) + MaxAttempts
    BY <1>1, AttemptArithmetic
  <2>1. CASE taken /\ Head(q) # AckPacket(PacketId(c)) /\ faults' = faults
    <3>1. p >= 1 /\ (AckComes(c, p - 1)' \/ (p - 1 = Load(c)' /\ attempt[c] + 1 <= faults'))
      <4>1. CASE p + 1 \in DOMAIN q /\ q[p + 1] = AckPacket(PacketId(c))
        <5>1. p # 0
          BY <1>4, <2>1, <4>1
        <5>2. p \in DOMAIN Tail(q) /\ Tail(q)[p] = q[p + 1]
          BY <1>1, <1>4, <2>1, <4>1, <5>1
        <5>3. (p - 1) + 1 = p /\ p >= 1
          BY <5>1
        <5> QED BY <1>3, <1>4, <2>1, <4>1, <5>2, <5>3 DEF AckComes
      <4>2. CASE spc = "ack" /\ [client |-> c, n |-> PacketId(c)] \in handling /\ p = Len(q)
        BY <1>3, <1>4, <2>1, <4>2 DEF AckComes
      <4>3. CASE \E j \in DOMAIN toServer[c] :
                     toServer[c][j].n = PacketId(c) /\ p = Len(q) + Owed(c) + 2 * (j - 1)
        <5>1. PICK j \in DOMAIN toServer[c] :
                       toServer[c][j].n = PacketId(c) /\ p = Len(q) + Owed(c) + 2 * (j - 1)
          BY <4>3
        <5>2. p >= 1 /\ p - 1 = Len(Tail(q)) + Owed(c) + 2 * (j - 1)
          <6>1. Len(q) >= 1 /\ Len(Tail(q)) = Len(q) - 1 /\ j \in Nat /\ j >= 1
            BY <1>1, <1>4, <2>1
          <6>2. p = Len(q) + Owed(c) + 2 * (j - 1)
            BY <5>1
          <6>3. Owed(c) \in Nat /\ Len(q) \in Nat
            BY <1>1
          <6> DEFINE owed == Owed(c)
                     l == Len(q)
                     m == Len(Tail(q))
          <6> HIDE DEF taken, late, silence, owed, l, m
          <6>4. owed \in Nat /\ l \in Nat /\ l >= 1 /\ m = l - 1 /\ p = l + owed + 2 * (j - 1)
            BY <6>1, <6>2, <6>3 DEF owed, l, m
          <6>5. p >= 1 /\ p - 1 = m + owed + 2 * (j - 1)
            BY <6>1, <6>4
          <6> QED BY <6>5 DEF owed, m
        <5>3. toServer' = toServer /\ toClient'[c] = Tail(q)
          BY <1>4, <2>1
        <5> QED BY <1>3, <5>1, <5>2, <5>3 DEF AckComes
      <4>4. CASE p = Load(c) /\ attempt[c] + 1 <= faults
        BY <1>1, <1>6, <2>1, <4>4
      <4> QED BY <1>8, <4>1, <4>2, <4>3, <4>4 DEF AckComes, q
    <3>2. p - 1 \in Nat /\ InReads(attempt[c]) + reads[c] + 1 + (p - 1) <= InReads(faults')
      BY <1>1, <1>8, <1>9, <2>0, <2>1, <3>1
    <3> QED BY <3>1, <3>2
  <2>2. CASE late
    <3>1. AckComes(c, p) => AckComes(c, p)'
      BY <1>3, <2>2 DEF AckComes
    <3>2. InReads(attempt[c]) + reads[c] + 1 + p <= InReads(faults')
      <4>1. InReads(faults') = InReads(faults) + MaxAttempts
        BY <2>0, <2>2
      <4> QED BY <1>1, <1>8, <1>9, <2>0, <4>1, SMTT(30)
    <3>3. attempt[c] + 1 <= faults => attempt[c] + 1 <= faults'
      BY <1>1, <2>2
    <3> QED BY <1>7, <1>8, <2>2, <3>1, <3>2, <3>3
  <2>3. CASE silence
    <3>1. ~ AckComes(c, p)
      <4>1. DOMAIN toClient[c] = {} /\ DOMAIN toServer[c] = {} /\ ~ Handles(c)
        BY <2>3 DEF NothingOnTheWay, Handles
      <4>2. [client |-> c, n |-> PacketId(c)] \notin handling
        BY <4>1 DEF Handles
      <4> QED BY <4>1, <4>2 DEF AckComes
    <3>2. attempt[c] + 1 <= faults
      BY <1>8, <3>1
    <3>3. InReads(attempt[c] + 1) <= InReads(faults)
      <4>1. attempt[c] + 1 \in Nat /\ faults \in Nat
        BY <1>1
      <4> QED BY <3>2, <4>1, AttemptArithmetic
    <3>4. InReads(attempt[c]) + reads[c] + 1 + 0 <= InReads(faults')
      BY <1>1, <1>2, <2>0, <2>3, <3>3
    <3> QED BY <1>5, <2>3, <3>2, <3>4
  <2> QED BY <2>1, <2>2, <2>3 DEF q
<1>11. PICK r \in Nat :
          /\ InReads(attempt[c]) + reads[c] + 1 + r <= InReads(faults')
          /\ AckComes(c, r)' \/ (r = Load(c)' /\ attempt[c] + 1 <= faults')
  BY <1>10
<1>12. CASE reads[c] + 1 < MaxAttempts
  <2>1. cpc'[c] = "waitAck" /\ attempt'[c] = attempt[c] /\ reads'[c] = reads[c] + 1
    BY <1>1, <1>12 DEF AckMissed, TypeInv, TypeOK, ClientTypeOK
  <2>2. Spent(c)' = InReads(attempt[c]) + (reads[c] + 1)
    BY <2>1 DEF Spent
  <2>3. AttemptsLeft(c)'
    <3>1. Spent(c)' + r <= InReads(faults')
      <4>1. InReads(attempt[c]) \in Nat
        BY <1>1, AttemptArithmetic
      <4> QED BY <1>1, <1>11, <2>2, <4>1
    <3> QED BY <1>11, <2>1, <3>1 DEF AttemptsLeft
  <2>4. Load(c) <= 2 * faults \/ Load(c) + reads[c] <= 2 * faults + 2
    BY DEF Unfailing, LoadBound
  <2>5. Load(c)' <= 2 * faults' \/ Load(c)' + reads'[c] <= 2 * faults' + 2
    <3>1. CASE taken /\ faults' = faults
      BY <1>1, <1>6, <2>1, <2>4, <3>1
    <3>2. CASE late
      BY <1>1, <1>7, <2>1, <2>4, <3>2
    <3>3. CASE silence
      BY <1>1, <1>5, <3>3
    <3> QED BY <3>1, <3>2, <3>3
  <2> QED BY <2>1, <2>3, <2>5 DEF LoadBound
<1>13. CASE reads[c] + 1 >= MaxAttempts
  <2>1. reads[c] + 1 = MaxAttempts
    BY <1>1, <1>2, <1>13
  <2>2. InReads(attempt[c] + 1) + r <= InReads(faults')
    <3>1. InReads(attempt[c]) \in Nat /\ InReads(attempt[c] + 1) = InReads(attempt[c]) + MaxAttempts
      BY <1>1, AttemptArithmetic
    <3>2. InReads(attempt[c]) + reads[c] + 1 + r <= InReads(faults')
      BY <1>11
    <3> QED BY <1>1, <2>1, <3>1, <3>2
  <2>3. attempt[c] + 1 <= faults' /\ attempt[c] + 1 < MaxAttempts /\ faults' >= 1 /\ MaxAttempts >= 2
    <3> attempt[c] + 1 \in Nat
      BY <1>1
    <3>0. InReads(attempt[c] + 1) \in Nat /\ InReads(faults') \in Nat /\ attempt[c] + 1 \in Nat
      BY AttemptArithmetic
    <3>1. InReads(attempt[c] + 1) <= InReads(faults')
      BY <2>2, <3>0
    <3>2. attempt[c] + 1 <= faults'
      BY <3>0, <3>1, AttemptArithmetic
    <3> QED BY <1>1, <1>2, <3>2
  <2>4. cpc'[c] = "send" /\ attempt'[c] = attempt[c] + 1
    BY <1>1, <1>13, <2>3 DEF AckMissed, EndAttempt, TypeInv, TypeOK, ClientTypeOK
  <2>5. Spent(c)' = InReads(attempt[c] + 1)
    <3>1. attempt[c] + 1 \in Nat
      BY <1>1
    <3>2. InReads(attempt[c] + 1) \in Nat
      BY <3>1, AttemptArithmetic
    <3>3. Spent(c)' = InReads(attempt'[c]) + 0
      BY <2>4 DEF Spent, InReads
    <3> QED BY <2>4, <3>2, <3>3
  <2>6. AttemptsLeft(c)'
    BY <1>11, <2>2, <2>4, <2>5 DEF AttemptsLeft
  <2>7. Load(c) <= 2 * faults \/ Load(c) + reads[c] <= 2 * faults + 2
    BY DEF Unfailing, LoadBound
  <2>8. Load(c)' <= 2 * faults'
    <3>1. CASE taken /\ faults' = faults
      BY <1>1, <1>6, <2>1, <2>3, <2>7, <3>1
    <3>2. CASE late
      BY <1>1, <1>7, <2>7, <3>2
    <3>3. CASE silence
      BY <1>1, <1>5, <3>3
    <3> QED BY <3>1, <3>2, <3>3
  <2> QED BY <2>4, <2>6, <2>8 DEF LoadBound
<1> QED BY <1>1, <1>12, <1>13

(* What a receive of c leaves behind, in numbers. *)
LEMMA Taken ==
    ASSUME TypeInv, NEW c \in Clients, TakeFromClientQueue(c)
    PROVE  /\ Len(toClient[c]) >= 1 /\ Head(toClient[c]) = toClient[c][1]
           /\ Head(toClient[c]) \in Packet
           /\ Len(toClient'[c]) = Len(toClient[c]) - 1
           /\ DOMAIN toClient'[c] = 1 .. Len(toClient[c]) - 1
           /\ \A i \in 1 .. Len(toClient[c]) - 1 : toClient'[c][i] = toClient[c][i + 1]
           /\ \A d \in Clients : d # c => toClient'[d] = toClient[d]
<1>1. toClient[c] \in Seq(Packet) /\ toClient[c] # << >> /\ Len(toClient[c]) \in Nat
  BY Measures DEF TakeFromClientQueue
<1>2. /\ Head(toClient[c]) = toClient[c][1] /\ Head(toClient[c]) \in Packet
      /\ Tail(toClient[c]) \in Seq(Packet) /\ Len(Tail(toClient[c])) = Len(toClient[c]) - 1
      /\ \A i \in 1 .. Len(Tail(toClient[c])) : Tail(toClient[c])[i] = toClient[c][i + 1]
  BY <1>1, HeadTailProperties
<1>3. DOMAIN Tail(toClient[c]) = 1 .. Len(Tail(toClient[c])) /\ Len(toClient[c]) # 0
  BY <1>1, <1>2, LenProperties, EmptySeq
<1>4. toClient' = [toClient EXCEPT ![c] = Tail(toClient[c])]
  BY DEF TakeFromClientQueue
<1>5. toClient'[c] = Tail(toClient[c]) /\ \A d \in Clients : d # c => toClient'[d] = toClient[d]
  BY <1>4 DEF TypeInv, TypeOK, NetworkTypeOK
<1> QED BY <1>1, <1>2, <1>3, <1>5

(* A receive makes the load one datagram less. *)
LEMMA TakenLoad ==
    ASSUME TypeInv, NEW c \in Clients, TakeFromClientQueue(c), UNCHANGED <<toServer, serverVars>>
    PROVE  Load(c)' = Load(c) - 1
<1>1. Len(toClient'[c]) = Len(toClient[c]) - 1 /\ Owed(c)' = Owed(c) /\ toServer' = toServer
  BY Taken, OwedSame
<1>2. Load(c)' = Len(toClient'[c]) + Owed(c)' + 2 * Len(toServer'[c])
  BY DEF Load
<1>3. Load(c)' = (Len(toClient[c]) - 1) + Owed(c) + 2 * Len(toServer[c])
  BY <1>1, <1>2
<1>4. Load(c) = Len(toClient[c]) + Owed(c) + 2 * Len(toServer[c])
  BY DEF Load
<1>5. Len(toClient[c]) \in Nat /\ Len(toServer[c]) \in Nat /\ Owed(c) \in 0 .. 2
  BY Measures
<1>6. Owed(c) \in Nat
  BY <1>5
<1> QED BY <1>3, <1>4, <1>5, <1>6, SMTT(30)

(* A receive leaves every ACK that remains followed by DATA. *)
LEMMA TakenKeepsFollowers ==
    ASSUME TypeInv, NEW c \in Clients, AcksAreFollowed(c), TakeFromClientQueue(c),
           UNCHANGED <<toServer, faults, serverVars>>
    PROVE  AcksAreFollowed(c)'
<1> DEFINE q == toClient[c]
           r == toClient'[c]
<1>1. /\ Len(q) \in Nat /\ Len(q) >= 1 /\ DOMAIN q = 1 .. Len(q)
      /\ Len(r) = Len(q) - 1 /\ DOMAIN r = 1 .. Len(q) - 1
      /\ \A i \in 1 .. Len(q) - 1 : r[i] = q[i + 1]
  BY Measures, Taken
<1>2. Owed(c)' = Owed(c) /\ faults' = faults
  BY OwedSame
<1>3. SUFFICES ASSUME NEW i \in DOMAIN r, r[i].type = "ACK" PROVE DataFollows(c, i)'
  BY DEF AcksAreFollowed
<1>4. i \in Nat /\ i + 1 \in DOMAIN q /\ q[i + 1].type = "ACK"
  BY <1>1, <1>3
<1>5. DataFollows(c, i + 1)
  BY <1>4 DEF AcksAreFollowed
<1>6. CASE i + 1 + 1 \in DOMAIN q /\ q[i + 1 + 1].type = "DATA"
  <2>1. i + 1 \in DOMAIN r /\ r[i + 1] = q[i + 1 + 1]
    BY <1>1, <1>4, <1>6
  <2> QED BY <1>6, <2>1 DEF DataFollows
<1>7. CASE i + 1 + 2 \in DOMAIN q /\ q[i + 1 + 2].type = "DATA" /\ faults >= 1
  <2>1. i + 2 \in DOMAIN r /\ r[i + 2] = q[i + 2 + 1] /\ i + 2 + 1 = i + 1 + 2
    BY <1>1, <1>4, <1>7
  <2> QED BY <1>2, <1>7, <2>1 DEF DataFollows
<1>8. CASE Owed(c) = 1 /\ i + 1 = Len(q)
  <2>1. i = Len(r)
    BY <1>1, <1>4, <1>8
  <2> QED BY <1>2, <1>8, <2>1 DEF DataFollows
<1>9. CASE Owed(c) = 1 /\ i + 1 = Len(q) - 1 /\ faults >= 1
  <2>1. i = Len(r) - 1
    BY <1>1, <1>4, <1>9
  <2> QED BY <1>2, <1>9, <2>1 DEF DataFollows
<1> QED BY <1>5, <1>6, <1>7, <1>8, <1>9 DEF DataFollows

(* A read of receiveResponse that brought no DATA: it took a doubled ACK or *)
(* was late.  Never is it the last one.                                     *)
LEMMA MissedResponse ==
    ASSUME Repairs, TypeInv, ServerRuns, NEW c \in Clients, Unfailing(c), UNCHANGED serverVars,
           cpc[c] = "waitResp", ResponseMissed(c), UNCHANGED <<nextPacketId, toServer>>,
           faults' \in Nat, faults' <= MaxFaults,
           \/ /\ TakeFromClientQueue(c) /\ Head(toClient[c]).type # "DATA" /\ faults' = faults
           \/ toClient' = toClient /\ faults' = faults + 1
           \/ NothingOnTheWay(c) /\ toClient' = toClient /\ faults' = faults
    PROVE  LoadBound(c)' /\ ReadsLeft(c)' /\ cpc'[c] = "waitResp"
<1>1. /\ Len(toClient[c]) \in Nat /\ DOMAIN toClient[c] = 1 .. Len(toClient[c])
      /\ Len(toServer[c]) \in Nat /\ Owed(c) \in 0 .. 2 /\ Load(c) \in Nat
      /\ reads[c] \in Nat /\ faults \in Nat /\ MaxAttempts \in Nat
  BY Measures
<1>2. MaxFaults < MaxAttempts /\ MaxFaults \in Nat
  BY NetworkAssumption DEF Repairs
<1>3. Owed(c)' = Owed(c)
  BY OwedSame
<1>4. PICK k \in 1 .. Len(toClient[c]) + 1 :
          /\ reads[c] + k - 1 <= faults
          /\ \/ k <= Len(toClient[c]) /\ toClient[c][k].type = "DATA"
             \/ k = Len(toClient[c]) + 1 /\ Owed(c) = 1
  BY DEF Unfailing, ReadsLeft
<1>5. Load(c) <= 2 * faults + 1
  BY DEF Unfailing, LoadBound
<1>6. cpc \in [Clients -> ClientStates] /\ reads \in [Clients -> 0 .. MaxAttempts]
  BY DEF TypeInv, TypeOK, ClientTypeOK
<1>7. reads'[c] = reads[c] + 1
      /\ cpc'[c] = IF reads[c] + 1 < MaxAttempts THEN "waitResp" ELSE "failed"
  BY <1>6 DEF ResponseMissed
<1>8. CASE TakeFromClientQueue(c) /\ Head(toClient[c]).type # "DATA" /\ faults' = faults
  <2>1. /\ Len(toClient[c]) >= 1 /\ toClient[c][1].type # "DATA"
        /\ Len(toClient'[c]) = Len(toClient[c]) - 1
        /\ \A i \in 1 .. Len(toClient[c]) - 1 : toClient'[c][i] = toClient[c][i + 1]
    BY <1>8, Taken
  <2>2. k # 1
    BY <1>1, <1>4, <2>1
  <2>3. k - 1 \in 1 .. Len(toClient'[c]) + 1 /\ reads[c] + 1 + (k - 1) - 1 <= faults'
    BY <1>1, <1>4, <1>8, <2>1, <2>2
  <2>4. \/ k - 1 <= Len(toClient'[c]) /\ toClient'[c][k - 1].type = "DATA"
        \/ k - 1 = Len(toClient'[c]) + 1 /\ Owed(c)' = 1
    <3>1. CASE k <= Len(toClient[c]) /\ toClient[c][k].type = "DATA"
      <4>1. k - 1 \in 1 .. Len(toClient[c]) - 1 /\ (k - 1) + 1 = k
        BY <1>1, <2>2, <3>1
      <4> QED BY <1>1, <2>1, <3>1, <4>1
    <3>2. CASE k = Len(toClient[c]) + 1 /\ Owed(c) = 1
      BY <1>1, <1>3, <2>1, <3>2
    <3> QED BY <1>4, <3>1, <3>2
  <2>5. cpc'[c] = "waitResp"
    BY <1>1, <1>2, <1>4, <1>7, <1>8, <2>2
  <2>6. ReadsLeft(c)'
    BY <1>7, <2>3, <2>4 DEF ReadsLeft
  <2>7. Load(c)' = Load(c) - 1
    BY <1>8, TakenLoad
  <2>8. Load(c)' <= 2 * faults' + 1
    BY <1>1, <1>5, <1>8, <2>7
  <2> QED BY <2>5, <2>6, <2>8 DEF LoadBound
<1>9. CASE toClient' = toClient /\ faults' = faults + 1
  <2>1. cpc'[c] = "waitResp"
    BY <1>1, <1>2, <1>4, <1>7, <1>9
  <2>2. k \in 1 .. Len(toClient'[c]) + 1 /\ reads'[c] + k - 1 <= faults'
    BY <1>1, <1>4, <1>7, <1>9
  <2>3. ReadsLeft(c)'
    BY <1>3, <1>4, <1>9, <2>2 DEF ReadsLeft
  <2>4. Load(c)' = Load(c)
    BY <1>3, <1>9 DEF Load
  <2> QED BY <1>1, <1>5, <1>9, <2>1, <2>3, <2>4 DEF LoadBound
<1>10. CASE NothingOnTheWay(c)
  <2>1. Len(toClient[c]) = 0 /\ Owed(c) = 0
    BY <1>10 DEF NothingOnTheWay, Owed, Handles
  <2> QED BY <1>1, <1>4, <2>1
<1> QED BY <1>8, <1>9, <1>10

LEMMA AcksUntouched ==
    ASSUME TypeInv, NEW c \in Clients, AcksAreFollowed(c), toClient'[c] = toClient[c],
           Owed(c)' = Owed(c), faults' \in Nat, faults' >= faults
    PROVE  AcksAreFollowed(c)'
<1>1. faults \in Nat
  BY Measures
<1> QED BY <1>1 DEF AcksAreFollowed, DataFollows

(* A step of a client does not touch what is on its way for another one. *)
LEMMA RepairClientElsewhere ==
    ASSUME Repairs, TypeInv, NEW c \in Clients, ClientStep(c) \/ SendRequest(c) \/ Exit(c),
           UNCHANGED serverVars, NEW d \in Clients, d # c, Unfailing(d)
    PROVE  Unfailing(d)'
<1>0. NetworkTypeOK /\ ClientTypeOK /\ LoopBounds
  BY DEF TypeInv, TypeOK
<1>1. faults' \in Nat /\ faults' >= faults
  BY FaultsGrow DEF Next
<1>2. toServer'[d] = toServer[d]
  <2>1. CASE SendData(c)
    <3>1. DataPacket(PacketId(c)) \in Packet
      BY <1>0, <2>1, PacketTypes DEF SendData, LoopBounds
    <3>2. PICK k, r : toServer' = [toServer EXCEPT ![c] = r]
      BY <1>0, <2>1, <3>1, SendToServerIsSent DEF SendData
    <3> QED BY <1>0, <3>2 DEF NetworkTypeOK
  <2>2. CASE UNCHANGED toServer
    BY <2>2
  <2> QED BY <2>1, <2>2
          DEF ClientStep, SendRequest, SendDataFails, ReceiveInWaitForAck, TimeoutInWaitForAck,
              ReceiveInReceiveResponse, TimeoutInReceiveResponse, Exit
<1>3. toClient'[d] = toClient[d]
  <2>1. CASE TakeFromClientQueue(c)
    BY <2>1, Taken
  <2>2. CASE UNCHANGED toClient
    BY <2>2
  <2> QED BY <2>1, <2>2
          DEF ClientStep, SendRequest, SendData, SendDataFails, ReceiveInWaitForAck,
              TimeoutInWaitForAck, ReceiveInReceiveResponse, TimeoutInReceiveResponse, Exit
<1>4. /\ cpc'[d] = cpc[d] /\ nextPacketId'[d] = nextPacketId[d]
      /\ attempt'[d] = attempt[d] /\ reads'[d] = reads[d]
  BY <1>0 DEF ClientTypeOK, ClientStep, SendRequest, SendData, SendDataFails, ReceiveInWaitForAck,
              TimeoutInWaitForAck, ReceiveInReceiveResponse, TimeoutInReceiveResponse, Exit,
              AckMissed, ResponseMissed, EndAttempt
<1>5. Owed(d)' = Owed(d) /\ UNCHANGED <<spc, handling>>
  BY OwedSame DEF serverVars
<1> QED BY <1>1, <1>2, <1>3, <1>4, <1>5, UnfailingUntouched

LEMMA RepairSendRequest ==
    ASSUME Repairs, TypeInv, NEW c \in Clients, SendRequest(c), UNCHANGED serverVars, Unfailing(c)
    PROVE  Unfailing(c)'
<1>1. /\ cpc[c] = "idle" /\ cpc'[c] = "send" /\ attempt'[c] = 0
      /\ UNCHANGED <<toServer, toClient, faults>>
  BY DEF SendRequest, TypeInv, TypeOK, ClientTypeOK
<1>2. faults \in Nat /\ faults < MaxAttempts /\ Load(c) \in Nat
  <2>1. faults \in Nat /\ faults <= MaxFaults /\ MaxFaults \in Nat /\ MaxAttempts \in Nat
    BY Measures
  <2>2. MaxFaults < MaxAttempts
    BY DEF Repairs
  <2> QED BY <2>1, <2>2, Measures
<1>3. Owed(c)' = Owed(c) /\ Load(c)' = Load(c)
  BY <1>1, OwedSame DEF Load
<1>4. Load(c) <= 2 * faults
  BY <1>1 DEF Unfailing, LoadBound
<1>5. LoadBound(c)' /\ ReadsLeft(c)' /\ cpc'[c] # "failed"
  BY <1>1, <1>3, <1>4 DEF LoadBound, ReadsLeft
<1>6. AcksAreFollowed(c)'
  BY <1>1, <1>2, <1>3, AcksUntouched DEF Unfailing
<1>7. AttemptsLeft(c)'
  <2>1. InReads(0) = 0
    BY ClientAssumption DEF InReads
  <2>2. Spent(c)' = 0
    BY <1>1, <2>1 DEF Spent
  <2>3. Load(c) <= InReads(faults) /\ InReads(faults) \in Nat
    BY <1>2, <1>4, AttemptArithmetic
  <2>4. Spent(c)' + Load(c) <= InReads(faults')
    BY <1>1, <1>2, <2>2, <2>3
  <2> QED BY <1>1, <1>2, <1>3, <2>4 DEF AttemptsLeft
<1> QED BY <1>5, <1>6, <1>7 DEF Unfailing

LEMMA RepairSendData ==
    ASSUME Repairs, TypeInv, NEW c \in Clients, SendData(c), UNCHANGED serverVars, Unfailing(c)
    PROVE  Unfailing(c)'
<1>0. NetworkTypeOK /\ ClientTypeOK
  BY DEF TypeInv, TypeOK
<1>1. /\ cpc[c] = "send" /\ cpc'[c] = "waitAck" /\ reads'[c] = 0
      /\ UNCHANGED <<toClient, attempt, nextPacketId>>
      /\ DataPacket(PacketId(c)) \in Packet /\ DataPacket(PacketId(c)).n = PacketId(c)
  BY PacketTypes DEF SendData, TypeInv, TypeOK, ClientTypeOK, LoopBounds
<1>2. PICK k, r : /\ Sent(toServer[c], DataPacket(PacketId(c)), k, r)
                  /\ toServer' = [toServer EXCEPT ![c] = r]
  BY <1>0, <1>1, SendToServerIsSent DEF SendData
<1> DEFINE q == toServer[c]
<1>3. /\ Len(toClient[c]) \in Nat /\ Len(q) \in Nat /\ DOMAIN q = 1 .. Len(q)
      /\ Owed(c) \in 0 .. 2 /\ Load(c) \in Nat /\ attempt[c] \in Nat /\ faults \in Nat
  BY Measures
<1>4. /\ k \in 0 .. 2 /\ toServer'[c] = r /\ Len(r) = Len(q) + k /\ DOMAIN r = 1 .. Len(q) + k
      /\ \A i \in 1 .. Len(q) : r[i] = q[i]
      /\ k >= 1 => r[Len(q) + 1].n = PacketId(c)
      /\ faults' = IF k = 1 THEN faults ELSE faults + 1
  <2>1. /\ k \in 0 .. 2 /\ r \in Seq(Packet) /\ Len(r) = Len(q) + k
        /\ \A i \in 1 .. Len(q) : r[i] = q[i]
        /\ \A i \in Len(q) + 1 .. Len(q) + k : r[i] = DataPacket(PacketId(c))
        /\ faults' = IF k = 1 THEN faults ELSE faults + 1
    BY <1>2 DEF Sent
  <2>2. DOMAIN r = 1 .. Len(q) + k
    BY <2>1, LenProperties
  <2>3. k >= 1 => r[Len(q) + 1] = DataPacket(PacketId(c))
    BY <1>3, <2>1
  <2>4. toServer'[c] = r
    BY <1>0, <1>2 DEF NetworkTypeOK
  <2> QED BY <1>1, <2>1, <2>2, <2>3, <2>4
<1>5. Owed(c)' = Owed(c) /\ PacketId(c)' = PacketId(c) /\ UNCHANGED <<spc, handling>>
  BY <1>1, OwedSame DEF PacketId, serverVars
<1>6. Load(c) = Len(toClient[c]) + Owed(c) + 2 * Len(q)
      /\ Load(c)' = Len(toClient[c]) + Owed(c) + 2 * (Len(q) + k)
  BY <1>1, <1>4, <1>5 DEF Load
<1> HIDE DEF q
<1>7. LoadBound(c)'
  <2>1. Load(c) <= 2 * faults
    BY <1>1 DEF Unfailing, LoadBound
  <2>2. Load(c)' = Load(c) + 2 * k
    <3>1. Len(toClient[c]) \in Nat /\ Len(q) \in Nat /\ Owed(c) \in Nat /\ k \in Nat
      BY <1>3, <1>4
    <3> QED BY <1>6, <3>1
  <2>3. Load(c)' + 0 <= 2 * faults' + 2 \/ Load(c)' <= 2 * faults'
    <3>1. Load(c) \in Nat /\ faults \in Nat
      BY <1>3
    <3>2. CASE k = 0 /\ faults' = faults + 1
      BY <2>1, <2>2, <3>1, <3>2
    <3>3. CASE k = 1 /\ faults' = faults
      BY <2>1, <2>2, <3>1, <3>3
    <3>4. CASE k = 2 /\ faults' = faults + 1
      BY <2>1, <2>2, <3>1, <3>4
    <3> QED BY <1>4, <3>2, <3>3, <3>4
  <2> QED BY <1>1, <2>3 DEF LoadBound
<1>8. faults' \in Nat /\ faults' >= faults
  BY <1>3, <1>4
<1>9. AcksAreFollowed(c)'
  BY <1>1, <1>5, <1>8, AcksUntouched DEF Unfailing
<1>10. AttemptsLeft(c)'
  <2>1. PICK p \in Nat : /\ Spent(c) + p <= InReads(faults)
                         /\ AckComes(c, p) \/ p = Load(c)
    BY <1>1 DEF Unfailing, AttemptsLeft
  <2>2. /\ InReads(attempt[c]) \in Nat /\ InReads(faults) \in Nat /\ InReads(faults') \in Nat
        /\ InReads(faults) <= InReads(faults')
    BY <1>3, <1>8, AttemptArithmetic
  <2>3. Spent(c) = InReads(attempt[c]) + 0 /\ Spent(c)' = InReads(attempt[c]) + 0
    BY <1>1 DEF Spent
  <2>4. Spent(c)' + p <= InReads(faults')
    BY <2>1, <2>2, <2>3
  <2>5. CASE AckComes(c, p)
    <3>1. AckComes(c, p)'
      <4>1. CASE \E j \in DOMAIN q : q[j].n = PacketId(c) /\ p = Len(toClient[c]) + Owed(c) + 2 * (j - 1)
        <5>1. PICK j \in DOMAIN q : q[j].n = PacketId(c) /\ p = Len(toClient[c]) + Owed(c) + 2 * (j - 1)
          BY <4>1
        <5>2. j \in DOMAIN r /\ r[j].n = PacketId(c)
          BY <1>3, <1>4, <5>1, SMTT(30) DEF q
        <5> QED BY <1>1, <1>4, <1>5, <5>1, <5>2 DEF AckComes
      <4> QED BY <1>1, <1>5, <2>5, <4>1 DEF AckComes, q
    <3> QED BY <2>4, <3>1 DEF AttemptsLeft
  <2>6. CASE p = Load(c) /\ k >= 1
    <3>1. Len(q) + 1 \in DOMAIN r /\ p = Len(toClient[c]) + Owed(c) + 2 * ((Len(q) + 1) - 1)
      BY <1>3, <1>4, <1>6, <2>6, SMTT(30) DEF q
    <3>2. AckComes(c, p)'
      BY <1>1, <1>4, <1>5, <2>6, <3>1 DEF AckComes, q
    <3> QED BY <2>4, <3>2 DEF AttemptsLeft
  <2>7. CASE p = Load(c) /\ k = 0
    <3>1. p = Load(c)'
      BY <1>3, <1>6, <2>7 DEF q
    <3>2. attempt[c] <= faults
      <4>1. InReads(attempt[c]) <= InReads(faults)
        BY <2>1, <2>2, <2>3
      <4> QED BY <1>3, <4>1, AttemptArithmetic
    <3>3. attempt'[c] + 1 <= faults'
      BY <1>1, <1>3, <1>4, <2>7, <3>2
    <3> QED BY <2>4, <3>1, <3>3 DEF AttemptsLeft
  <2>8. k = 0 \/ k >= 1
    BY <1>4
  <2> QED BY <2>1, <2>5, <2>6, <2>7, <2>8
<1> QED BY <1>1, <1>7, <1>9, <1>10 DEF Unfailing, ReadsLeft

LEMMA RepairSendDataFails ==
    ASSUME Repairs, TypeInv, NEW c \in Clients, SendDataFails(c), UNCHANGED serverVars, Unfailing(c)
    PROVE  Unfailing(c)'
<1>1. /\ cpc[c] = "send" /\ faults' = faults + 1 /\ EndAttempt(c)
      /\ UNCHANGED <<toServer, toClient, nextPacketId>>
  BY DEF SendDataFails, Fault
<1>2. /\ Load(c) \in Nat /\ attempt[c] \in Nat /\ attempt[c] + 1 \in Nat
      /\ faults \in Nat /\ MaxAttempts \in Nat
      /\ faults < MaxFaults /\ MaxFaults \in Nat /\ MaxFaults < MaxAttempts
  BY Measures DEF Repairs, SendDataFails, Fault
<1>3. Owed(c)' = Owed(c) /\ Load(c)' = Load(c) /\ PacketId(c)' = PacketId(c)
      /\ UNCHANGED <<spc, handling>>
  BY <1>1, OwedSame DEF Load, PacketId, serverVars
<1>4. PICK p \in Nat : Spent(c) + p <= InReads(faults) /\ (AckComes(c, p) \/ p = Load(c))
  BY <1>1 DEF Unfailing, AttemptsLeft
<1>5. /\ InReads(attempt[c]) \in Nat /\ InReads(attempt[c] + 1) = InReads(attempt[c]) + MaxAttempts
      /\ InReads(faults) \in Nat /\ InReads(faults + 1) = InReads(faults) + MaxAttempts
  BY <1>2, AttemptArithmetic
<1>6. InReads(attempt[c]) + p <= InReads(faults)
  <2>1. Spent(c) = InReads(attempt[c]) + 0
    BY <1>1 DEF Spent
  <2> QED BY <1>4, <1>5, <2>1
<1>7. attempt[c] <= faults
  <2>1. InReads(attempt[c]) <= InReads(faults)
    BY <1>5, <1>6
  <2> QED BY <1>2, <2>1, AttemptArithmetic
<1>8. cpc'[c] = "send" /\ attempt'[c] = attempt[c] + 1
  BY <1>1, <1>2, <1>7 DEF EndAttempt, TypeInv, TypeOK, ClientTypeOK
<1>9. AttemptsLeft(c)'
  <2>1. Spent(c)' = InReads(attempt[c] + 1) + 0
    BY <1>8 DEF Spent
  <2>2. Spent(c)' + p <= InReads(faults')
    BY <1>1, <1>2, <1>5, <1>6, <2>1
  <2>3. AckComes(c, p) => AckComes(c, p)'
    BY <1>1, <1>3 DEF AckComes
  <2> QED BY <1>3, <1>4, <1>8, <2>2, <2>3 DEF AttemptsLeft
<1>10. LoadBound(c)'
  BY <1>1, <1>2, <1>3, <1>8 DEF Unfailing, LoadBound
<1>11. AcksAreFollowed(c)'
  BY <1>1, <1>2, <1>3, AcksUntouched DEF Unfailing
<1> QED BY <1>8, <1>9, <1>10, <1>11 DEF Unfailing, ReadsLeft

(* The ACK has come: nothing but a doubled ACK stands before the response. *)
LEMMA RepairAcked ==
    ASSUME Repairs, TypeInv, NEW c \in Clients, UNCHANGED serverVars, Unfailing(c),
           cpc[c] = "waitAck", TakeFromClientQueue(c), Head(toClient[c]).type = "ACK",
           cpc'[c] = "waitResp", reads'[c] = 0, UNCHANGED <<toServer, faults>>
    PROVE  Unfailing(c)'
<1> DEFINE q == toClient[c]
           r == toClient'[c]
<1>1. /\ Len(q) \in Nat /\ DOMAIN q = 1 .. Len(q) /\ Len(toServer[c]) \in Nat
      /\ Owed(c) \in 0 .. 2 /\ Load(c) \in Nat /\ faults \in Nat /\ reads[c] \in Nat
  BY Measures
<1>2. /\ Len(q) >= 1 /\ Head(q) = q[1] /\ Len(r) = Len(q) - 1
      /\ \A i \in 1 .. Len(q) - 1 : r[i] = q[i + 1]
  BY Taken
<1>3. Owed(c)' = Owed(c)
  BY OwedSame
<1>4. Load(c)' = Load(c) - 1
  BY TakenLoad
<1>5. LoadBound(c)'
  <2>1. Load(c) <= 2 * faults \/ Load(c) + reads[c] <= 2 * faults + 2
    BY DEF Unfailing, LoadBound
  <2>2. Load(c)' <= 2 * faults' + 1
    BY <1>1, <1>4, <2>1
  <2> QED BY <2>2 DEF LoadBound
<1>6. ReadsLeft(c)'
  <2>1. DataFollows(c, 1)
    <3>1. 1 \in DOMAIN q /\ q[1].type = "ACK"
      BY <1>1, <1>2
    <3> QED BY <3>1 DEF Unfailing, AcksAreFollowed
  <2>2. CASE 1 + 1 \in DOMAIN q /\ q[1 + 1].type = "DATA"
    <3>1. 1 \in 1 .. Len(r) + 1 /\ 1 <= Len(r) /\ r[1] = q[1 + 1] /\ reads'[c] + 1 - 1 <= faults'
      BY <1>1, <1>2, <2>2, SMTT(30)
    <3> QED BY <2>2, <3>1 DEF ReadsLeft
  <2>3. CASE 1 + 2 \in DOMAIN q /\ q[1 + 2].type = "DATA" /\ faults >= 1
    <3>1. 2 \in 1 .. Len(r) + 1 /\ 2 <= Len(r) /\ r[2] = q[1 + 2] /\ reads'[c] + 2 - 1 <= faults'
      BY <1>1, <1>2, <2>3
    <3> QED BY <2>3, <3>1 DEF ReadsLeft
  <2>4. CASE Owed(c) = 1 /\ 1 = Len(q)
    <3>1. 1 \in 1 .. Len(r) + 1 /\ 1 = Len(r) + 1 /\ reads'[c] + 1 - 1 <= faults'
      BY <1>1, <1>2, <2>4
    <3> QED BY <1>3, <2>4, <3>1 DEF ReadsLeft
  <2>5. CASE Owed(c) = 1 /\ 1 = Len(q) - 1 /\ faults >= 1
    <3>1. Len(r) = 1 /\ faults' >= 1
      BY <1>1, <1>2, <2>5
    <3>2. 2 \in 1 .. Len(r) + 1 /\ 2 = Len(r) + 1 /\ reads'[c] + 2 - 1 <= faults'
      BY <1>1, <3>1
    <3> QED BY <1>3, <2>5, <3>2 DEF ReadsLeft
  <2> QED BY <2>1, <2>2, <2>3, <2>4, <2>5 DEF DataFollows
<1>7. AcksAreFollowed(c)'
  BY TakenKeepsFollowers DEF Unfailing
<1> QED BY <1>5, <1>6, <1>7 DEF Unfailing, AttemptsLeft

LEMMA RepairWaitForAck ==
    ASSUME Repairs, TypeInv, NEW c \in Clients, UNCHANGED serverVars, Unfailing(c),
           ReceiveInWaitForAck(c) \/ (TimeoutInWaitForAck(c) /\ TimesOut(c))
    PROVE  Unfailing(c)'
<1>1. faults' \in Nat /\ faults' >= faults /\ faults' <= MaxFaults
  BY FaultsGrow DEF Next, ClientStep
<1>2. Owed(c)' = Owed(c)
  BY OwedSame
<1>3. CASE ReceiveInWaitForAck(c) /\ IsAckFor(Head(toClient[c]), PacketId(c))
           /\ cpc' = [cpc EXCEPT ![c] = "waitResp"] /\ reads' = [reads EXCEPT ![c] = 0]
  <2>1. cpc'[c] = "waitResp" /\ reads'[c] = 0
    BY <1>3 DEF TypeInv, TypeOK, ClientTypeOK
  <2> QED BY <1>3, <2>1, RepairAcked DEF ReceiveInWaitForAck, IsAckFor
<1>4. CASE ReceiveInWaitForAck(c) /\ ~ IsAckFor(Head(toClient[c]), PacketId(c)) /\ AckMissed(c)
  <2>1. /\ TakeFromClientQueue(c) /\ cpc[c] = "waitAck"
        /\ UNCHANGED <<nextPacketId, toServer, faults, serverVars>>
    BY <1>4 DEF ReceiveInWaitForAck
  <2>2. Head(toClient[c]) # AckPacket(PacketId(c))
    BY <1>4 DEF IsAckFor, AckPacket
  <2>3. LoadBound(c)' /\ AttemptsLeft(c)' /\ cpc'[c] \in {"send", "waitAck"}
    BY <1>1, <1>4, <2>1, <2>2, MissedAck DEF TakeFromClientQueue
  <2>4. AcksAreFollowed(c)'
    BY <2>1, TakenKeepsFollowers DEF Unfailing
  <2> QED BY <2>3, <2>4 DEF Unfailing, ReadsLeft
<1>5. CASE TimeoutInWaitForAck(c) /\ TimesOut(c)
  <2>1. /\ cpc[c] = "waitAck" /\ AckMissed(c) /\ toClient' = toClient
        /\ UNCHANGED <<nextPacketId, toServer>>
    BY <1>5 DEF TimeoutInWaitForAck
  <2>2. (NothingOnTheWay(c) /\ faults' = faults) \/ faults' = faults + 1
    BY <1>5 DEF TimesOut, Fault
  <2>3. LoadBound(c)' /\ AttemptsLeft(c)' /\ cpc'[c] \in {"send", "waitAck"}
    BY <1>1, <2>1, <2>2, MissedAck
  <2>4. AcksAreFollowed(c)'
    BY <1>1, <1>2, <2>1, AcksUntouched DEF Unfailing
  <2> QED BY <2>3, <2>4 DEF Unfailing, ReadsLeft
<1> QED BY <1>3, <1>4, <1>5 DEF ReceiveInWaitForAck

LEMMA RepairReceiveResponse ==
    ASSUME Repairs, TypeInv, ServerRuns, NEW c \in Clients, UNCHANGED serverVars, Unfailing(c),
           ReceiveInReceiveResponse(c) \/ (TimeoutInReceiveResponse(c) /\ TimesOut(c))
    PROVE  Unfailing(c)'
<1>1. faults' \in Nat /\ faults' >= faults /\ faults' <= MaxFaults
  BY FaultsGrow DEF Next, ClientStep
<1>2. Owed(c)' = Owed(c)
  BY OwedSame
<1>3. CASE ReceiveInReceiveResponse(c) /\ cpc' = [cpc EXCEPT ![c] = "idle"]
  <2>1. cpc[c] = "waitResp" /\ cpc'[c] = "idle" /\ UNCHANGED <<toServer, faults, serverVars>>
    BY <1>3 DEF ReceiveInReceiveResponse, TypeInv, TypeOK, ClientTypeOK
  <2>2. Len(toClient'[c]) = Len(toClient[c]) - 1 /\ TakeFromClientQueue(c)
    BY <1>3, Taken DEF ReceiveInReceiveResponse
  <2>3. Load(c)' = Load(c) - 1
    BY <2>1, <2>2, TakenLoad
  <2>4. LoadBound(c)'
    <3>1. Load(c) <= 2 * faults + 1 /\ Load(c) \in Nat /\ faults \in Nat
      BY <2>1, Measures DEF Unfailing, LoadBound
    <3>2. Load(c)' <= 2 * faults'
      BY <2>1, <2>3, <3>1
    <3> QED BY <2>1, <3>2 DEF LoadBound
  <2>5. AcksAreFollowed(c)'
    BY <2>1, <2>2, TakenKeepsFollowers DEF Unfailing
  <2> QED BY <2>1, <2>4, <2>5 DEF Unfailing, ReadsLeft, AttemptsLeft
<1>4. CASE /\ ReceiveInReceiveResponse(c)
           /\ ~ IsResponse(Head(toClient[c]), PacketId(c)) /\ ResponseMissed(c)
  <2>1. /\ TakeFromClientQueue(c) /\ cpc[c] = "waitResp"
        /\ UNCHANGED <<nextPacketId, toServer, faults, serverVars>>
    BY <1>4 DEF ReceiveInReceiveResponse
  <2>2. LoadBound(c)' /\ ReadsLeft(c)' /\ cpc'[c] = "waitResp"
    BY <1>1, <1>4, <2>1, MissedResponse DEF IsResponse
  <2>3. AcksAreFollowed(c)'
    BY <2>1, TakenKeepsFollowers DEF Unfailing
  <2> QED BY <2>2, <2>3 DEF Unfailing, AttemptsLeft
<1>5. CASE TimeoutInReceiveResponse(c) /\ TimesOut(c)
  <2>1. /\ cpc[c] = "waitResp" /\ ResponseMissed(c) /\ toClient' = toClient
        /\ UNCHANGED <<nextPacketId, toServer>>
    BY <1>5 DEF TimeoutInReceiveResponse
  <2>2. (NothingOnTheWay(c) /\ faults' = faults) \/ faults' = faults + 1
    BY <1>5 DEF TimesOut, Fault
  <2>3. LoadBound(c)' /\ ReadsLeft(c)' /\ cpc'[c] = "waitResp"
    BY <1>1, <2>1, <2>2, MissedResponse
  <2>4. AcksAreFollowed(c)'
    BY <1>1, <1>2, <2>1, AcksUntouched DEF Unfailing
  <2> QED BY <2>3, <2>4 DEF Unfailing, AttemptsLeft
<1> QED BY <1>3, <1>4, <1>5 DEF ReceiveInReceiveResponse

LEMMA RepairExit ==
    ASSUME TypeInv, NEW c \in Clients, UNCHANGED serverVars, Unfailing(c), Exit(c)
    PROVE  Unfailing(c)'
<1>1. cpc'[c] = "exited" /\ toClient' = toClient /\ faults' = faults
  BY DEF Exit, TypeInv, TypeOK, ClientTypeOK
<1>2. Owed(c)' = Owed(c) /\ faults \in Nat
  BY OwedSame, Measures
<1>3. AcksAreFollowed(c)'
  BY <1>1, <1>2, AcksUntouched DEF Unfailing
<1> QED BY <1>1, <1>3 DEF Unfailing, LoadBound, AttemptsLeft, ReadsLeft

(* The steps of a client, put together. *)
LEMMA RepairClientStep ==
    ASSUME Repairs, RepairInv, NEW c \in Clients, ClientStep(c) \/ SendRequest(c) \/ Exit(c),
           UNCHANGED serverVars
    PROVE  ServerRuns' /\ \A d \in Clients : Unfailing(d)'
<1>1. TypeInv /\ ServerRuns /\ Unfailing(c)
  BY DEF RepairInv, OrderInv, CausalInv
<1>2. ServerRuns'
  BY <1>1 DEF ServerRuns, serverVars
<1>3. Unfailing(c)'
  BY <1>1, RepairSendRequest, RepairSendData, RepairSendDataFails, RepairWaitForAck,
     RepairReceiveResponse, RepairExit DEF ClientStep
<1>4. ASSUME NEW d \in Clients, d # c PROVE Unfailing(d)'
  BY <1>1, <1>4, RepairClientElsewhere DEF RepairInv
<1> QED BY <1>2, <1>3, <1>4

(* A fault pays for one more leftover, and for more. *)
LEMMA FaultPays ==
    ASSUME TypeInv, NEW c \in Clients, NEW p \in Nat, NEW r \in Nat, UNCHANGED clientVars,
           Spent(c) + p <= InReads(faults),
           \/ faults' = faults /\ r <= p
           \/ faults' = faults + 1 /\ r <= p + 1
    PROVE  Spent(c)' + r <= InReads(faults') /\ attempt[c] <= faults
<1>1. faults \in Nat /\ attempt[c] \in Nat /\ reads[c] \in Nat /\ MaxAttempts \in Nat /\ MaxAttempts >= 1
  BY Measures
<1>2. /\ InReads(faults) \in Nat /\ InReads(faults + 1) = InReads(faults) + MaxAttempts
      /\ InReads(attempt[c]) \in Nat
  BY <1>1, AttemptArithmetic
<1>3. Spent(c)' = Spent(c)
  BY DEF Spent, clientVars
<1>4. Spent(c) \in Nat /\ Spent(c) >= InReads(attempt[c])
  <2>1. CASE cpc[c] = "waitAck"
    BY <1>1, <1>2, <2>1 DEF Spent
  <2>2. CASE cpc[c] # "waitAck"
    <3>1. Spent(c) = InReads(attempt[c]) + 0
      BY <2>2 DEF Spent
    <3> QED BY <1>2, <3>1
  <2> QED BY <2>1, <2>2
<1>5. attempt[c] <= faults
  <2>1. InReads(attempt[c]) <= InReads(faults)
    BY <1>2, <1>4
  <2> QED BY <1>1, <2>1, AttemptArithmetic
<1>6. CASE faults' = faults /\ r <= p
  BY <1>2, <1>3, <1>4, <1>5, <1>6
<1>7. CASE faults' = faults + 1 /\ r <= p + 1
  <2>1. InReads(faults') = InReads(faults) + MaxAttempts
    BY <1>2, <1>7
  <2> QED BY <1>1, <1>2, <1>3, <1>4, <1>5, <1>7, <2>1
<1> QED BY <1>6, <1>7

(* A request that is taken off a queue of n is two datagrams owed. *)
LEMMA RequestIsTwoDatagrams ==
    ASSUME NEW l \in Nat, NEW n \in Nat
    PROVE  l + 0 + 2 * n = l + 2 + 2 * (n - 1)
OBVIOUS

(* The server takes a request of c: two datagrams of c's load change place. *)
LEMMA RepairReceivePacket ==
    ASSUME Repairs, RepairInv, NEW c \in Clients, ReceivePacket(c), UNCHANGED clientVars
    PROVE  ServerRuns' /\ \A d \in Clients : Unfailing(d)'
<1>1. /\ TypeInv /\ ServerRuns /\ \A d \in Clients : Unfailing(d)
      /\ UNCHANGED <<toClient, faults, cpc, nextPacketId, attempt, reads>>
  BY DEF RepairInv, OrderInv, CausalInv, ReceivePacket, clientVars
<1> DEFINE q == toServer[c]
           s == toServer'[c]
<1>2. /\ spc = "poll" /\ spc' = "ack" /\ handling = {}
      /\ handling' = {[client |-> c, n |-> Head(q).n]}
  BY <1>1 DEF ServerRuns, ReceivePacket
<1>3. /\ q \in Seq(Packet) /\ q # << >> /\ Len(q) \in Nat /\ Len(toClient[c]) \in Nat
      /\ Load(c) \in Nat /\ faults \in Nat
      /\ DOMAIN q = 1 .. Len(q)
  BY <1>1, Measures DEF ReceivePacket, TakeFromServerQueue
<1>4. /\ Len(q) >= 1 /\ Head(q) = q[1] /\ Len(s) = Len(q) - 1 /\ DOMAIN s = 1 .. Len(q) - 1
      /\ \A i \in 1 .. Len(q) - 1 : s[i] = q[i + 1]
      /\ \A d \in Clients : d # c => toServer'[d] = toServer[d]
  <2>1. toServer' = [toServer EXCEPT ![c] = Tail(toServer[c])]
    BY DEF ReceivePacket, TakeFromServerQueue
  <2>2. s = Tail(q) /\ \A d \in Clients : d # c => toServer'[d] = toServer[d]
    BY <1>1, <2>1 DEF TypeInv, TypeOK, NetworkTypeOK
  <2>3. /\ Head(q) = q[1] /\ Tail(q) \in Seq(Packet) /\ Len(Tail(q)) = Len(q) - 1
        /\ \A i \in 1 .. Len(Tail(q)) : Tail(q)[i] = q[i + 1]
    BY <1>3, HeadTailProperties
  <2>4. DOMAIN Tail(q) = 1 .. Len(Tail(q)) /\ Len(q) # 0
    BY <1>3, <2>3, LenProperties, EmptySeq
  <2> QED BY <1>3, <2>2, <2>3, <2>4
<1>5. ServerRuns'
  BY <1>2 DEF ServerRuns
<1>6. ASSUME NEW d \in Clients, d # c PROVE Unfailing(d)'
  <2>1. Owed(d)' = Owed(d)
    BY <1>2, <1>6 DEF Owed, Handles
  <2>2. faults' \in Nat /\ faults' >= faults
    BY <1>1, <1>3
  <2> QED BY <1>1, <1>2, <1>4, <1>6, <2>1, <2>2, UnfailingUntouched
<1>7. Owed(c) = 0 /\ Owed(c)' = 2 /\ PacketId(c)' = PacketId(c)
  <2>1. ~ Handles(c) /\ Handles(c)'
    BY <1>2 DEF Handles
  <2> QED BY <1>1, <1>2, <2>1 DEF Owed, PacketId
<1>8. Load(c)' = Load(c)
  <2>1. Load(c) = Len(toClient[c]) + 0 + 2 * Len(q)
        /\ Load(c)' = Len(toClient[c]) + 2 + 2 * (Len(q) - 1)
    BY <1>1, <1>4, <1>7 DEF Load
  <2>2. Len(toClient[c]) \in Nat /\ Len(q) \in Nat
    BY <1>3
  <2> QED BY <2>1, <2>2, RequestIsTwoDatagrams
<1>9. LoadBound(c)'
  BY <1>1, <1>8 DEF Unfailing, LoadBound
<1>10. AttemptsLeft(c)'
  <2>1. SUFFICES ASSUME cpc[c] \in {"send", "waitAck"}
                 PROVE  \E p \in Nat :
                           /\ Spent(c)' + p <= InReads(faults')
                           /\ \/ AckComes(c, p)'
                              \/ p = Load(c)' /\ (cpc'[c] = "waitAck" => attempt'[c] + 1 <= faults')
    BY <1>1 DEF AttemptsLeft
  <2>2. PICK p \in Nat : /\ Spent(c) + p <= InReads(faults)
                         /\ \/ AckComes(c, p)
                            \/ p = Load(c) /\ (cpc[c] = "waitAck" => attempt[c] + 1 <= faults)
    BY <1>1, <2>1 DEF Unfailing, AttemptsLeft
  <2>3. Spent(c)' = Spent(c)
    BY <1>1 DEF Spent
  <2>4. AckComes(c, p) => AckComes(c, p)'
    <3> HAVE AckComes(c, p)
    <3>1. CASE p + 1 \in DOMAIN toClient[c] /\ toClient[c][p + 1] = AckPacket(PacketId(c))
      BY <1>1, <1>7, <3>1 DEF AckComes
    <3>2. CASE \E j \in DOMAIN q : q[j].n = PacketId(c) /\ p = Len(toClient[c]) + Owed(c) + 2 * (j - 1)
      <4>1. PICK j \in DOMAIN q : q[j].n = PacketId(c) /\ p = Len(toClient[c]) + Owed(c) + 2 * (j - 1)
        BY <3>2
      <4>2. CASE j = 1
        <5>1. p = Len(toClient[c]) /\ [client |-> c, n |-> PacketId(c)] \in handling'
          BY <1>2, <1>3, <1>4, <1>7, <4>1, <4>2
        <5> QED BY <1>1, <1>2, <1>7, <5>1 DEF AckComes
      <4>3. CASE j # 1
        <5>1. j - 1 \in DOMAIN s /\ s[j - 1] = q[j]
          <6>1. j - 1 \in 1 .. Len(q) - 1 /\ (j - 1) + 1 = j
            BY <1>3, <4>1, <4>3
          <6> QED BY <1>4, <6>1
        <5>2. p = Len(toClient[c]) + 2 + 2 * ((j - 1) - 1)
          <6>1. j - 1 \in Nat /\ p = Len(toClient[c]) + 0 + 2 * (j - 1)
            BY <1>3, <1>7, <4>1
          <6>2. Len(toClient[c]) \in Nat
            BY <1>3
          <6> QED BY <6>1, <6>2, RequestIsTwoDatagrams
        <5> QED BY <1>1, <1>7, <4>1, <5>1, <5>2 DEF AckComes
      <4> QED BY <4>2, <4>3
    <3> QED BY <1>2, <3>1, <3>2 DEF AckComes
  <2> QED BY <1>1, <1>8, <2>2, <2>3, <2>4
<1>11. AcksAreFollowed(c)'
  BY <1>1, <1>7 DEF Unfailing, AcksAreFollowed, DataFollows
<1>12. ReadsLeft(c)'
  BY <1>1, <1>7 DEF Unfailing, ReadsLeft
<1>13. Unfailing(c)'
  BY <1>1, <1>9, <1>10, <1>11, <1>12 DEF Unfailing
<1> QED BY <1>5, <1>6, <1>13

(* The server sends c a datagram it owes it, once, twice or not at all. *)
LEMMA RepairAnswer ==
    ASSUME Repairs, TypeInv, NEW c \in Clients, Unfailing(c), UNCHANGED clientVars,
           UNCHANGED toServer, NEW m \in Packet, NEW k, NEW r,
           Sent(toClient[c], m, k, r), toClient'[c] = r,
           Owed(c) >= 1, Owed(c)' = Owed(c) - 1
    PROVE  /\ LoadBound(c)' /\ Load(c)' = Load(c) - 1 + k
           /\ \A p \in Nat :
                 /\ Spent(c) + p <= InReads(faults)
                 /\ \/ p + 1 \in DOMAIN toClient[c] /\ toClient[c][p + 1] = AckPacket(PacketId(c))
                    \/ \E j \in DOMAIN toServer[c] :
                           /\ toServer[c][j].n = PacketId(c)
                           /\ p = Len(toClient[c]) + Owed(c) + 2 * (j - 1)
                    \/ p = Load(c) /\ (cpc[c] = "waitAck" => attempt[c] + 1 <= faults)
                 => AttemptsLeft(c)'
<1> DEFINE q == toClient[c]
<1>1. /\ Len(q) \in Nat /\ Len(toServer[c]) \in Nat /\ Owed(c) \in Nat /\ Load(c) \in Nat
      /\ faults \in Nat /\ DOMAIN q = 1 .. Len(q) /\ DOMAIN toServer[c] = 1 .. Len(toServer[c])
      /\ reads[c] \in Nat /\ attempt[c] \in Nat
  BY Measures
<1>2. /\ k \in 0 .. 2 /\ Len(r) = Len(q) + k /\ DOMAIN r = 1 .. Len(q) + k
      /\ \A i \in 1 .. Len(q) : r[i] = q[i]
      /\ (k = 1 /\ faults' = faults) \/ (k = 0 /\ faults' = faults + 1) \/ (k = 2 /\ faults' = faults + 1)
  <2>1. /\ k \in 0 .. 2 /\ r \in Seq(Packet) /\ Len(r) = Len(q) + k
        /\ \A i \in 1 .. Len(q) : r[i] = q[i]
        /\ faults' = IF k = 1 THEN faults ELSE faults + 1
    BY DEF Sent
  <2>2. DOMAIN r = 1 .. Len(r)
    BY <2>1, LenProperties
  <2> QED BY <2>1, <2>2
<1>3. /\ cpc' = cpc /\ reads' = reads /\ attempt' = attempt
      /\ PacketId(c)' = PacketId(c) /\ Spent(c)' = Spent(c)
  BY DEF clientVars, PacketId, Spent
<1>4. Load(c)' = Load(c) - 1 + k
  <2>1. Load(c) = Len(q) + Owed(c) + 2 * Len(toServer[c])
        /\ Load(c)' = (Len(q) + k) + (Owed(c) - 1) + 2 * Len(toServer[c])
    BY <1>2 DEF Load
  <2>2. k \in Nat
    BY <1>2
  <2> HIDE DEF q
  <2> QED BY <1>1, <2>1, <2>2
<1>5. LoadBound(c)'
  <2>1. Load(c) \in Nat /\ reads[c] \in Nat /\ faults \in Nat
    BY <1>1
  <2>2. CASE k = 1 /\ faults' = faults
    <3>1. Load(c)' = Load(c)
      BY <1>4, <2>1, <2>2
    <3> QED BY <1>3, <2>1, <2>2, <3>1 DEF Unfailing, LoadBound
  <2>3. CASE k = 0 /\ faults' = faults + 1
    <3>1. Load(c)' = Load(c) - 1
      BY <1>4, <2>1, <2>3
    <3> QED BY <1>3, <2>1, <2>3, <3>1 DEF Unfailing, LoadBound
  <2>4. CASE k = 2 /\ faults' = faults + 1
    <3>1. Load(c)' = Load(c) + 1
      BY <1>4, <2>1, <2>4
    <3> QED BY <1>3, <2>1, <2>4, <3>1 DEF Unfailing, LoadBound
  <2> QED BY <1>2, <2>2, <2>3, <2>4
<1>6. ASSUME NEW p \in Nat, Spent(c) + p <= InReads(faults),
             \/ p + 1 \in DOMAIN toClient[c] /\ toClient[c][p + 1] = AckPacket(PacketId(c))
             \/ \E j \in DOMAIN toServer[c] :
                    /\ toServer[c][j].n = PacketId(c)
                    /\ p = Len(toClient[c]) + Owed(c) + 2 * (j - 1)
             \/ p = Load(c) /\ (cpc[c] = "waitAck" => attempt[c] + 1 <= faults)
      PROVE  AttemptsLeft(c)'
  <2>1. CASE p + 1 \in DOMAIN q /\ q[p + 1] = AckPacket(PacketId(c))
    <3>1. p + 1 \in DOMAIN r /\ r[p + 1] = q[p + 1]
      BY <1>1, <1>2, <2>1
    <3>2. AckComes(c, p)'
      BY <1>3, <2>1, <3>1 DEF AckComes
    <3>3. Spent(c)' + p <= InReads(faults')
      BY <1>2, <1>6, FaultPays
    <3> QED BY <3>2, <3>3 DEF AttemptsLeft
  <2>2. CASE \E j \in DOMAIN toServer[c] :
                /\ toServer[c][j].n = PacketId(c)
                /\ p = Len(q) + Owed(c) + 2 * (j - 1)
    <3>1. PICK j \in DOMAIN toServer[c] : /\ toServer[c][j].n = PacketId(c)
                                          /\ p = Len(q) + Owed(c) + 2 * (j - 1)
      BY <2>2
    <3>2. k \in Nat /\ j \in Nat /\ j >= 1
      BY <1>1, <1>2
    <3>3. p - 1 + k \in Nat /\ p - 1 + k = (Len(q) + k) + (Owed(c) - 1) + 2 * (j - 1)
      <4>1. Len(q) \in Nat /\ Owed(c) \in Nat /\ p = Len(q) + Owed(c) + 2 * (j - 1)
        BY <1>1, <3>1
      <4> HIDE DEF q
      <4> QED BY <3>2, <4>1
    <3>4. AckComes(c, p - 1 + k)'
      BY <1>2, <1>3, <3>1, <3>3 DEF AckComes
    <3>5. \/ faults' = faults /\ p - 1 + k <= p
          \/ faults' = faults + 1 /\ p - 1 + k <= p + 1
      BY <1>2
    <3>6. Spent(c)' + (p - 1 + k) <= InReads(faults')
      BY <1>6, <3>3, <3>5, FaultPays
    <3> QED BY <3>3, <3>4, <3>6 DEF AttemptsLeft
  <2>3. CASE p = Load(c) /\ (cpc[c] = "waitAck" => attempt[c] + 1 <= faults)
    <3>1. p - 1 + k = Load(c)' /\ p - 1 + k \in Nat
      <4>1. p >= 1
        <5>1. p = Len(q) + Owed(c) + 2 * Len(toServer[c])
          BY <2>3 DEF Load
        <5> HIDE DEF q
        <5> QED BY <1>1, <5>1
      <4> QED BY <1>2, <1>4, <2>3, <4>1
    <3>2. \/ faults' = faults /\ p - 1 + k <= p
          \/ faults' = faults + 1 /\ p - 1 + k <= p + 1
      BY <1>2
    <3>3. Spent(c)' + (p - 1 + k) <= InReads(faults')
      BY <1>6, <3>1, <3>2, FaultPays
    <3>4. cpc'[c] = "waitAck" => attempt'[c] + 1 <= faults'
      BY <1>1, <1>2, <1>3, <2>3
    <3> QED BY <3>1, <3>3, <3>4 DEF AttemptsLeft
  <2> QED BY <1>6, <2>1, <2>2, <2>3
<1> QED BY <1>4, <1>5, <1>6

(* What the steps that send have in common: who is sent what. *)
LEMMA SentByServer ==
    ASSUME Repairs, RepairInv, NEW h \in handling, NEW m \in Packet, SendToClient(h.client, m),
           UNCHANGED <<clientVars, toServer>>,
           \/ spc = "ack" /\ spc' = "reply" /\ handling' = handling
           \/ spc = "reply" /\ handling' = {}
    PROVE  /\ h.client \in Clients /\ handling = {h}
           /\ \E k, r : /\ Sent(toClient[h.client], m, k, r) /\ toClient'[h.client] = r
                        /\ k = 0 => m.type = "ACK"
           /\ Owed(h.client) = (IF spc = "ack" THEN 2 ELSE 1)
           /\ Owed(h.client)' = Owed(h.client) - 1
           /\ \A d \in Clients : d # h.client => Unfailing(d)'
<1>1. TypeInv /\ NetworkTypeOK /\ ServerTypeOK /\ \A d \in Clients : Unfailing(d)
  BY DEF RepairInv, OrderInv, CausalInv, TypeInv, TypeOK
<1>2. h.client \in Clients /\ handling = {h}
  BY <1>1 DEF ServerTypeOK
<1>3. PICK k, r : /\ Sent(toClient[h.client], m, k, r)
                  /\ toClient' = [toClient EXCEPT ![h.client] = r]
                  /\ k = 0 => m.type = "ACK"
  BY <1>1, <1>2, SendToClientIsSent
<1>4. toClient'[h.client] = r /\ \A d \in Clients : d # h.client => toClient'[d] = toClient[d]
  BY <1>1, <1>2, <1>3 DEF NetworkTypeOK
<1>5. Owed(h.client) = (IF spc = "ack" THEN 2 ELSE 1) /\ Owed(h.client)' = Owed(h.client) - 1
  <2>1. Handles(h.client) /\ (handling' = handling => Handles(h.client)')
    BY DEF Handles
  <2>2. CASE spc = "ack" /\ spc' = "reply" /\ handling' = handling
    BY <2>1, <2>2 DEF Owed
  <2>3. CASE spc = "reply" /\ handling' = {}
    BY <2>1, <2>3 DEF Owed, Handles
  <2> QED BY <2>2, <2>3
<1>6. ASSUME NEW d \in Clients, d # h.client PROVE Unfailing(d)'
  <2>1. Owed(d)' = Owed(d)
    BY <1>2, <1>6 DEF Owed, Handles
  <2>2. faults' \in Nat /\ faults' >= faults
    <3>1. faults \in Nat
      BY <1>1, <1>2, Measures
    <3> QED BY <1>3, <3>1 DEF Sent
  <2>3. [client |-> d, n |-> PacketId(d)] \notin handling
    BY <1>2, <1>6
  <2>4. UNCHANGED <<toServer, cpc, nextPacketId, attempt, reads>>
    BY DEF clientVars
  <2> QED BY <1>1, <1>4, <1>6, <2>1, <2>2, <2>3, <2>4, UnfailingUntouched
<1>7. Sent(toClient[h.client], m, k, r) /\ (k = 0 => m.type = "ACK")
  BY <1>3
<1> QED BY <1>2, <1>4, <1>5, <1>6, <1>7

LEMMA RepairSendAck ==
    ASSUME Repairs, RepairInv, SendAck, UNCHANGED clientVars
    PROVE  ServerRuns' /\ \A d \in Clients : Unfailing(d)'
<1>1. TypeInv /\ ServerTypeOK /\ Causal /\ InOrder /\ \A d \in Clients : Unfailing(d)
  BY DEF RepairInv, OrderInv, CausalInv, TypeInv, TypeOK
<1>2. PICK h \in handling : SendToClient(h.client, AckPacket(h.n))
  BY DEF SendAck
<1> DEFINE c == h.client
           m == AckPacket(h.n)
           q == toClient[c]
<1>3. m \in Packet /\ m.type = "ACK" /\ h.n \in 1 .. MaxRequests
  BY <1>1, PacketTypes DEF ServerTypeOK
<1>4. spc = "ack" /\ spc' = "reply" /\ handling' = handling /\ toServer' = toServer
  BY DEF SendAck
<1>5. /\ c \in Clients /\ handling = {h} /\ Owed(c) = 2 /\ Owed(c)' = 1
      /\ \A d \in Clients : d # c => Unfailing(d)'
      /\ \E k, r : Sent(q, m, k, r) /\ toClient'[c] = r
  <2>1. SendToClient(h.client, m) /\ UNCHANGED <<clientVars, toServer>>
    BY <1>2, <1>4
  <2> HIDE DEF m
  <2> QED BY <1>3, <1>4, <2>1, SentByServer
<1>6. PICK k, r : Sent(q, m, k, r) /\ toClient'[c] = r
  BY <1>5
<1> HIDE DEF c, m
<1>7. /\ Len(q) \in Nat /\ DOMAIN q = 1 .. Len(q) /\ faults \in Nat /\ Load(c) \in Nat
      /\ DOMAIN toServer[c] = 1 .. Len(toServer[c]) /\ Len(toServer[c]) \in Nat /\ attempt[c] \in Nat
  BY <1>1, <1>5, Measures
<1>8. /\ k \in 0 .. 2 /\ Len(r) = Len(q) + k /\ DOMAIN r = 1 .. Len(q) + k
      /\ \A i \in 1 .. Len(q) : r[i] = q[i]
      /\ \A i \in Len(q) + 1 .. Len(q) + k : r[i] = m
      /\ (k = 1 /\ faults' = faults) \/ (k = 0 /\ faults' = faults + 1) \/ (k = 2 /\ faults' = faults + 1)
  <2>1. /\ k \in 0 .. 2 /\ r \in Seq(Packet) /\ Len(r) = Len(q) + k
        /\ \A i \in 1 .. Len(q) : r[i] = q[i]
        /\ \A i \in Len(q) + 1 .. Len(q) + k : r[i] = m
        /\ faults' = IF k = 1 THEN faults ELSE faults + 1
    BY <1>6 DEF Sent
  <2>2. DOMAIN r = 1 .. Len(r)
    BY <2>1, LenProperties
  <2> QED BY <2>1, <2>2
<1>9. /\ LoadBound(c)' /\ Load(c)' = Load(c) - 1 + k
      /\ \A p \in Nat :
            /\ Spent(c) + p <= InReads(faults)
            /\ \/ p + 1 \in DOMAIN toClient[c] /\ toClient[c][p + 1] = AckPacket(PacketId(c))
               \/ \E j \in DOMAIN toServer[c] :
                      /\ toServer[c][j].n = PacketId(c)
                      /\ p = Len(toClient[c]) + Owed(c) + 2 * (j - 1)
               \/ p = Load(c) /\ (cpc[c] = "waitAck" => attempt[c] + 1 <= faults)
            => AttemptsLeft(c)'
  <2>1. Owed(c) >= 1 /\ Owed(c)' = Owed(c) - 1
    BY <1>5
  <2> QED BY <1>1, <1>3, <1>4, <1>5, <1>6, <2>1, RepairAnswer
<1>10. PacketId(c)' = PacketId(c) /\ cpc' = cpc /\ reads' = reads /\ attempt' = attempt
  BY DEF PacketId, clientVars
<1>11. AttemptsLeft(c)'
  <2>1. SUFFICES ASSUME cpc[c] \in {"send", "waitAck"} PROVE AttemptsLeft(c)'
    BY <1>10 DEF AttemptsLeft
  <2>2. PICK p \in Nat : /\ Spent(c) + p <= InReads(faults)
                         /\ \/ AckComes(c, p)
                            \/ p = Load(c) /\ (cpc[c] = "waitAck" => attempt[c] + 1 <= faults)
    BY <1>1, <1>5, <2>1 DEF Unfailing, AttemptsLeft
  <2>3. CASE /\ [client |-> c, n |-> PacketId(c)] \in handling
             /\ p = Len(toClient[c])
    <3>1. h.n = PacketId(c) /\ m = AckPacket(PacketId(c))
      BY <1>5, <2>3 DEF m
    <3>2. CASE k >= 1
      <4>1. p + 1 \in DOMAIN r /\ r[p + 1] = m
        BY <1>7, <1>8, <2>3, <3>2
      <4>2. AckComes(c, p)'
        BY <1>6, <1>10, <3>1, <4>1 DEF AckComes
      <4>3. Spent(c)' + p <= InReads(faults')
        <5>1. (faults' = faults /\ p <= p) \/ (faults' = faults + 1 /\ p <= p + 1)
          BY <1>8
        <5> QED BY <1>1, <1>5, <2>2, <5>1, FaultPays
      <4> QED BY <4>2, <4>3 DEF AttemptsLeft
    <3>3. CASE k = 0
      <4>1. faults' = faults + 1 /\ p + 1 \in Nat
        BY <1>8, <3>3
      <4>2. Spent(c)' + (p + 1) <= InReads(faults') /\ attempt[c] <= faults
        <5>1. p + 1 <= p + 1
          OBVIOUS
        <5> QED BY <1>1, <1>5, <2>2, <4>1, <5>1, FaultPays
      <4>3. CASE toServer[c] = << >>
        <5>1. Len(toServer[c]) = 0
          BY <4>3
        <5>2. Load(c) = Len(toClient[c]) + 2 + 2 * Len(toServer[c])
          BY <1>5 DEF Load
        <5>3. Load(c)' = p + 1
          BY <1>7, <1>9, <2>3, <3>3, <5>1, <5>2
        <5>4. attempt'[c] + 1 <= faults'
          BY <1>7, <1>10, <4>1, <4>2
        <5> QED BY <4>1, <4>2, <5>3, <5>4 DEF AttemptsLeft
      <4>4. CASE toServer[c] # << >>
        <5>1. 1 \in DOMAIN toServer[c]
          <6>1. toServer[c] \in Seq(Packet)
            BY <1>1, <1>5, Measures
          <6>2. Len(toServer[c]) # 0
            BY <4>4, <6>1, EmptySeq
          <6> QED BY <1>7, <6>2
        <5>2. toServer[c][1].n = PacketId(c)
          <6>1. h.n <= toServer[c][1].n
            BY <1>1, <1>5, <5>1 DEF InOrder, c
          <6>2. toServer[c][1].n <= PacketId(c)
            BY <1>1, <1>5, <5>1 DEF Causal
          <6>3. toServer[c][1].n \in Nat
            <7>1. toServer[c] \in Seq(Packet)
              BY <1>1, <1>5, Measures
            <7>2. toServer[c][1].n \in 1 .. MaxRequests
              BY <5>1, <7>1, NumbersInQueue
            <7> QED BY <7>2
          <6>4. PacketId(c) \in Nat
            BY <1>3, <3>1
          <6> QED BY <3>1, <6>1, <6>2, <6>3, <6>4
        <5>3. p + 1 = Len(toClient'[c]) + Owed(c)' + 2 * (1 - 1)
          BY <1>5, <1>6, <1>7, <1>8, <2>3, <3>3
        <5>4. AckComes(c, p + 1)'
          BY <1>4, <1>10, <5>1, <5>2, <5>3 DEF AckComes
        <5> QED BY <4>1, <4>2, <5>4 DEF AttemptsLeft
      <4> QED BY <4>3, <4>4
    <3> QED BY <1>8, <3>2, <3>3
  <2> QED BY <1>9, <2>2, <2>3 DEF AckComes
<1>12. AcksAreFollowed(c)'
  <2>1. SUFFICES ASSUME NEW i \in DOMAIN r, r[i].type = "ACK" PROVE DataFollows(c, i)'
    BY <1>6 DEF AcksAreFollowed
  <2>2. CASE i <= Len(q)
    <3>1. i \in DOMAIN q /\ q[i].type = "ACK" /\ i \in Nat
      BY <1>7, <1>8, <2>1, <2>2
    <3>2. DataFollows(c, i)
      BY <1>1, <1>5, <3>1 DEF Unfailing, AcksAreFollowed
    <3>3. CASE i + 1 \in DOMAIN q /\ q[i + 1].type = "DATA"
      <4>1. i + 1 \in DOMAIN r /\ r[i + 1] = q[i + 1]
        BY <1>7, <1>8, <3>1, <3>3
      <4> QED BY <1>6, <3>3, <4>1 DEF DataFollows
    <3>4. CASE i + 2 \in DOMAIN q /\ q[i + 2].type = "DATA" /\ faults >= 1
      <4>1. i + 2 \in DOMAIN r /\ r[i + 2] = q[i + 2] /\ faults' >= 1
        BY <1>7, <1>8, <3>1, <3>4
      <4> QED BY <1>6, <3>4, <4>1 DEF DataFollows
    <3> QED BY <1>5, <3>2, <3>3, <3>4 DEF DataFollows
  <2>3. CASE i > Len(q)
    <3>1. i = Len(r) \/ (i = Len(r) - 1 /\ faults' >= 1)
      BY <1>7, <1>8, <2>1, <2>3, SMTT(30)
    <3> QED BY <1>5, <1>6, <3>1 DEF DataFollows
  <2> QED BY <1>7, <1>8, <2>2, <2>3
<1>13. ReadsLeft(c)'
  <2>1. SUFFICES ASSUME cpc[c] = "waitResp" PROVE ReadsLeft(c)'
    BY <1>10 DEF ReadsLeft
  <2>2. PICK j \in 1 .. Len(q) + 1 : reads[c] + j - 1 <= faults /\ j <= Len(q) /\ q[j].type = "DATA"
    BY <1>1, <1>5, <2>1 DEF Unfailing, ReadsLeft
  <2>3. j \in 1 .. Len(r) + 1 /\ j <= Len(r) /\ r[j] = q[j]
    <3>1. Len(q) \in Nat /\ k \in Nat /\ Len(r) = Len(q) + k /\ j \in 1 .. Len(q)
      BY <1>7, <1>8, <2>2
    <3> HIDE DEF q
    <3> QED BY <1>8, <3>1
  <2>4. reads'[c] + j - 1 <= faults'
    <3>1. reads[c] \in Nat
      BY <1>1, <1>5, Measures
    <3> QED BY <1>7, <1>8, <1>10, <2>2, <3>1
  <2> QED BY <1>6, <2>2, <2>3, <2>4 DEF ReadsLeft
<1>14. Unfailing(c)'
  BY <1>1, <1>5, <1>9, <1>10, <1>11, <1>12, <1>13 DEF Unfailing
<1>15. ServerRuns'
  BY <1>4 DEF ServerRuns
<1> QED BY <1>5, <1>14, <1>15

LEMMA RepairProcess ==
    ASSUME Repairs, RepairInv, ProcessUDPRequest, UNCHANGED clientVars
    PROVE  ServerRuns' /\ \A d \in Clients : Unfailing(d)'
<1>1. TypeInv /\ ServerTypeOK /\ \A d \in Clients : Unfailing(d)
  BY DEF RepairInv, OrderInv, CausalInv, TypeInv, TypeOK
<1>2. PICK h \in handling : SendToClient(h.client, DataPacket(h.n))
  BY DEF ProcessUDPRequest
<1> DEFINE c == h.client
           m == DataPacket(h.n)
           q == toClient[c]
<1>3. m \in Packet /\ m.type = "DATA"
  BY <1>1, PacketTypes DEF ServerTypeOK
<1>4. spc = "reply" /\ spc' = "check" /\ handling' = {} /\ toServer' = toServer
  BY DEF ProcessUDPRequest
<1>5. /\ c \in Clients /\ Owed(c) = 1 /\ Owed(c)' = 0
      /\ \A d \in Clients : d # c => Unfailing(d)'
      /\ \E k, r : Sent(q, m, k, r) /\ toClient'[c] = r /\ (k = 0 => m.type = "ACK")
  <2>1. SendToClient(h.client, m) /\ UNCHANGED <<clientVars, toServer>>
    BY <1>2, <1>4
  <2> HIDE DEF m
  <2> QED BY <1>3, <1>4, <2>1, SentByServer
<1>6. PICK k, r : Sent(q, m, k, r) /\ toClient'[c] = r /\ (k = 0 => m.type = "ACK")
  BY <1>5
<1> HIDE DEF c, m
<1>7. /\ Len(q) \in Nat /\ DOMAIN q = 1 .. Len(q) /\ faults \in Nat
  BY <1>1, <1>5, Measures
<1>8. /\ k \in 0 .. 2 /\ Len(r) = Len(q) + k /\ DOMAIN r = 1 .. Len(q) + k
      /\ \A i \in 1 .. Len(q) : r[i] = q[i]
      /\ \A i \in Len(q) + 1 .. Len(q) + k : r[i] = m
      /\ (k = 1 /\ faults' = faults) \/ (k = 2 /\ faults' = faults + 1)
  <2>1. /\ k \in 0 .. 2 /\ r \in Seq(Packet) /\ Len(r) = Len(q) + k
        /\ \A i \in 1 .. Len(q) : r[i] = q[i]
        /\ \A i \in Len(q) + 1 .. Len(q) + k : r[i] = m
        /\ faults' = IF k = 1 THEN faults ELSE faults + 1
    BY <1>6 DEF Sent
  <2>2. DOMAIN r = 1 .. Len(r)
    BY <2>1, LenProperties
  <2>3. k # 0
    BY <1>3, <1>6
  <2> QED BY <2>1, <2>2, <2>3
<1>9. /\ LoadBound(c)'
      /\ \A p \in Nat :
            /\ Spent(c) + p <= InReads(faults)
            /\ \/ p + 1 \in DOMAIN toClient[c] /\ toClient[c][p + 1] = AckPacket(PacketId(c))
               \/ \E j \in DOMAIN toServer[c] :
                      /\ toServer[c][j].n = PacketId(c)
                      /\ p = Len(toClient[c]) + Owed(c) + 2 * (j - 1)
               \/ p = Load(c) /\ (cpc[c] = "waitAck" => attempt[c] + 1 <= faults)
            => AttemptsLeft(c)'
  <2>1. Owed(c) >= 1 /\ Owed(c)' = Owed(c) - 1
    BY <1>5
  <2> QED BY <1>1, <1>3, <1>4, <1>5, <1>6, <2>1, RepairAnswer
<1>10. cpc' = cpc /\ reads' = reads
  BY DEF clientVars
<1>11. AttemptsLeft(c)'
  <2>1. SUFFICES ASSUME cpc[c] \in {"send", "waitAck"} PROVE AttemptsLeft(c)'
    BY <1>10 DEF AttemptsLeft
  <2>2. PICK p \in Nat : /\ Spent(c) + p <= InReads(faults)
                         /\ \/ AckComes(c, p)
                            \/ p = Load(c) /\ (cpc[c] = "waitAck" => attempt[c] + 1 <= faults)
    BY <1>1, <1>5, <2>1 DEF Unfailing, AttemptsLeft
  <2> QED BY <1>4, <1>9, <2>2 DEF AckComes
<1>12. AcksAreFollowed(c)'
  <2>1. SUFFICES ASSUME NEW i \in DOMAIN r, r[i].type = "ACK" PROVE DataFollows(c, i)'
    BY <1>6 DEF AcksAreFollowed
  <2>2. /\ Len(q) \in Nat /\ k \in Nat /\ k >= 1 /\ i \in Nat /\ i >= 1 /\ i <= Len(q) + k
        /\ r[Len(q) + 1] = m
    BY <1>7, <1>8
  <2>3. i <= Len(q)
    <3>1. ~ (i \in Len(q) + 1 .. Len(q) + k)
      BY <1>3, <1>8, <2>1
    <3> HIDE DEF q
    <3> QED BY <2>2, <3>1
  <2>4. i \in DOMAIN q /\ q[i].type = "ACK"
    BY <1>7, <1>8, <2>1, <2>2, <2>3
  <2>5. DataFollows(c, i)
    BY <1>1, <1>5, <2>4 DEF Unfailing, AcksAreFollowed
  <2>6. CASE i + 1 \in DOMAIN q /\ q[i + 1].type = "DATA"
    <3>1. i + 1 \in DOMAIN r /\ r[i + 1] = q[i + 1]
      BY <1>7, <1>8, <2>2, <2>6
    <3> QED BY <1>6, <2>6, <3>1 DEF DataFollows
  <2>7. CASE i + 2 \in DOMAIN q /\ q[i + 2].type = "DATA" /\ faults >= 1
    <3>1. i + 2 \in DOMAIN r /\ r[i + 2] = q[i + 2] /\ faults' >= 1
      BY <1>7, <1>8, <2>2, <2>7
    <3> QED BY <1>6, <2>7, <3>1 DEF DataFollows
  <2>8. CASE i = Len(q)
    <3>1. i + 1 \in DOMAIN r /\ r[i + 1] = m
      BY <1>8, <2>2, <2>8
    <3> QED BY <1>3, <1>6, <3>1 DEF DataFollows
  <2>9. CASE i = Len(q) - 1 /\ faults >= 1
    <3>1. i + 2 = Len(q) + 1 /\ Len(q) + 1 \in 1 .. Len(q) + k
      <4> HIDE DEF q
      <4> QED BY <2>2, <2>9
    <3>2. i + 2 \in DOMAIN r /\ r[i + 2] = m /\ faults' >= 1
      BY <1>7, <1>8, <2>2, <2>9, <3>1
    <3> QED BY <1>3, <1>6, <3>2 DEF DataFollows
  <2> QED BY <2>5, <2>6, <2>7, <2>8, <2>9 DEF DataFollows
<1>13. ReadsLeft(c)'
  <2>1. SUFFICES ASSUME cpc[c] = "waitResp" PROVE ReadsLeft(c)'
    BY <1>10 DEF ReadsLeft
  <2>2. PICK j \in 1 .. Len(q) + 1 : /\ reads[c] + j - 1 <= faults
                                     /\ \/ j <= Len(q) /\ q[j].type = "DATA"
                                        \/ j = Len(q) + 1 /\ Owed(c) = 1
    BY <1>1, <1>5, <2>1 DEF Unfailing, ReadsLeft
  <2>3. /\ Len(q) \in Nat /\ k \in Nat /\ k >= 1 /\ j \in Nat /\ j >= 1 /\ j <= Len(q) + 1
        /\ Len(r) = Len(q) + k
    BY <1>7, <1>8
  <2>4. j \in 1 .. Len(r) + 1 /\ j <= Len(r)
    <3> HIDE DEF q
    <3> QED BY <2>3
  <2>5. r[j].type = "DATA"
    <3>1. CASE j <= Len(q) /\ q[j].type = "DATA"
      <4>1. r[j] = q[j]
        BY <1>8, <2>3, <3>1
      <4> QED BY <3>1, <4>1
    <3>2. CASE j = Len(q) + 1
      <4>1. j \in Len(q) + 1 .. Len(q) + k
        <5> HIDE DEF q
        <5> QED BY <2>3, <3>2
      <4> QED BY <1>3, <1>8, <4>1
    <3> QED BY <2>2, <3>1, <3>2
  <2>6. reads'[c] + j - 1 <= faults'
    <3>1. reads[c] \in Nat
      BY <1>1, <1>5, Measures
    <3> QED BY <1>7, <1>8, <1>10, <2>2, <2>3, <3>1
  <2> QED BY <1>6, <2>4, <2>5, <2>6 DEF ReadsLeft
<1>14. Unfailing(c)'
  BY <1>1, <1>5, <1>9, <1>10, <1>11, <1>12, <1>13 DEF Unfailing
<1>15. ServerRuns'
  BY <1>4 DEF ServerRuns
<1> QED BY <1>5, <1>14, <1>15

(* The steps of the server, put together. *)
LEMMA RepairServerStep ==
    ASSUME Repairs, RepairInv, ServerStep \/ Tick \/ ServerStop \/ ServerStart, UNCHANGED clientVars
    PROVE  ServerRuns' /\ \A d \in Clients : Unfailing(d)'
<1>1. TypeInv /\ ServerRuns /\ \A d \in Clients : Unfailing(d)
  BY DEF RepairInv, OrderInv, CausalInv
<1>2. CASE \E c \in Clients : ReceivePacket(c)
  BY <1>2, RepairReceivePacket
<1>3. CASE SendAck
  BY <1>3, RepairSendAck
<1>4. CASE ProcessUDPRequest
  BY <1>4, RepairProcess
<1>5. CASE CheckClientTimeouts \/ Tick
  <2>1. /\ handling' = handling /\ (spc' = spc \/ (handling = {} /\ spc' = "poll"))
        /\ UNCHANGED <<toServer, toClient, faults>>
    BY <1>1, <1>5 DEF CheckClientTimeouts, Tick, ServerRuns
  <2>2. ServerRuns'
    BY <1>1, <2>1 DEF ServerRuns
  <2>3. ASSUME NEW d \in Clients PROVE Unfailing(d)'
    <3>1. Owed(d)' = Owed(d)
      BY <2>1 DEF Owed, Handles
    <3>2. faults' \in Nat /\ faults' >= faults
      BY <1>1, <2>1, Measures
    <3> QED BY <1>1, <2>1, <3>1, <3>2, UnfailingUntouched DEF clientVars
  <2> QED BY <2>2, <2>3
<1>6. CASE (\E c \in Clients : Undeliverable(c)) \/ ServerStop \/ ServerStart
  BY <1>1, <1>6 DEF Undeliverable, ServerStop, ServerStart, Fault, ServerRuns, Repairs
<1> QED BY <1>2, <1>3, <1>4, <1>5, <1>6 DEF ServerStep

LEMMA RepairInvInit == Repairs /\ Init => RepairInv
<1> SUFFICES ASSUME Repairs, Init PROVE RepairInv
  OBVIOUS
<1>1. OrderInv
  BY TypeInvInit, CausalInit, OrderInit DEF OrderInv, CausalInv
<1>2. ServerRuns
  BY DEF Init, ServerInit, ServerRuns
<1>3. ASSUME NEW c \in Clients PROVE Unfailing(c)
  <2>1. /\ cpc[c] = "idle" /\ toClient[c] = << >> /\ toServer[c] = << >> /\ faults = 0 /\ handling = {}
    BY DEF Init, NetworkInit, ClientInit, ServerInit
  <2>2. Load(c) = 0
    BY <2>1 DEF Load, Owed, Handles
  <2> QED BY <2>1, <2>2 DEF Unfailing, LoadBound, AttemptsLeft, AcksAreFollowed, ReadsLeft
<1> QED BY <1>1, <1>2, <1>3 DEF RepairInv

LEMMA RepairInvStep ==
    ASSUME Repairs
    PROVE  RepairInv /\ [Next]_vars => RepairInv'
<1> SUFFICES ASSUME RepairInv, [Next]_vars PROVE RepairInv'
  OBVIOUS
<1>1. OrderInv'
  BY OrderInvStep DEF RepairInv, Repairs
<1>2. CASE Next
  BY <1>1, <1>2, NextCases, RepairClientStep, RepairServerStep DEF RepairInv
<1>3. CASE UNCHANGED vars
  <2>1. ServerRuns'
    BY <1>3 DEF RepairInv, ServerRuns, vars, serverVars
  <2>2. ASSUME NEW d \in Clients PROVE Unfailing(d)'
    <3>1. UNCHANGED <<toServer, toClient, faults, serverVars, clientVars>>
      BY <1>3 DEF vars
    <3>2. TypeInv /\ Unfailing(d)
      BY DEF RepairInv, OrderInv, CausalInv
    <3>3. Owed(d)' = Owed(d) /\ faults \in Nat
      BY <3>1, <3>2, OwedSame, Measures
    <3>4. faults' \in Nat /\ faults' >= faults /\ UNCHANGED <<spc, handling>>
      BY <3>1, <3>3 DEF serverVars
    <3> QED BY <3>1, <3>2, <3>3, <3>4, UnfailingUntouched DEF clientVars
  <2> QED BY <1>1, <2>1, <2>2 DEF RepairInv
<1> QED BY <1>2, <1>3

(* When only requests and ACKs are lost, datagrams are doubled or late, and *)
(* sends fail, fewer of these than UDP_MAX_ATTEMPTS never fail a request,   *)
(* however many clients make however many requests: sendWithAck gets its    *)
(* ACK and receiveResponse its DATA in time, whatever earlier requests      *)
(* left behind.                                                             *)
THEOREM RequestsSucceed ==
    ASSUME Faults \cap {"reorder", "lossAnswer", "crash"} = {}, MaxFaults < MaxAttempts
    PROVE  Spec => []NeverGivesUp
<1>1. Repairs
  BY DEF Repairs
<1>2. RepairInv => NeverGivesUp
  BY DEF RepairInv, Unfailing, NeverGivesUp
<1>3. Init => RepairInv
  BY <1>1, RepairInvInit
<1>4. RepairInv /\ [Next]_vars => RepairInv'
  BY <1>1, RepairInvStep
<1> QED BY <1>2, <1>3, <1>4, PTL DEF Spec
=============================================================================

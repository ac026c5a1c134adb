------------------------------- MODULE WireFormat -------------------------------
(***************************************************************************)
(* The bytes of requests, edges, responses and UDP packets: the encoders   *)
(* and decoders of common/Protocol.cpp, common/UDPProtocol.h, and of       *)
(* client/Client.cpp and server/Server.cpp for edges and length prefixes.  *)
(*                                                                         *)
(* sizeof(int) is 4.  An int is copied as it lies in memory, the least     *)
(* byte first; a length prefix is sent in network byte order.  Base is     *)
(* the number of values of a byte, 256; a smaller one keeps the numbers of *)
(* a run small and changes nothing in the formats.                         *)
(***************************************************************************)
EXTENDS Integers, Sequences, SequencesExt

CONSTANT Base

ASSUME WireFormatAssumption == Base \in Nat /\ Base > 1 /\ Base % 2 = 0

Byte  == 0 .. Base - 1
Words == Base * (Base * (Base * Base))   \* 2^32
Int32 == - (Words \div 2) .. Words \div 2 - 1
-----------------------------------------------------------------------------
(* One int.  Unsigned values stand for themselves, negative ones for their *)
(* two's complement.                                                       *)
UnsignedBytes(n) ==
    << n % Base,
       (n \div Base) % Base,
       ((n \div Base) \div Base) % Base,
       ((n \div Base) \div Base) \div Base >>

Bytes(n) == UnsignedBytes(IF n < 0 THEN n + Words ELSE n)

Unsigned(b) == b[1] + Base * (b[2] + Base * (b[3] + Base * b[4]))

Signed(b) == IF Unsigned(b) < Words \div 2 THEN Unsigned(b) ELSE Unsigned(b) - Words

Htonl(n) == Reverse(UnsignedBytes(n))
Ntohl(b) == Unsigned(Reverse(b))

(* Ints one after the other, and the i-th int of a message. *)
Flat(ints) == [k \in 1 .. 4 * Len(ints) |-> Bytes(ints[(k + 3) \div 4])[((k - 1) % 4) + 1]]

WordAt(data, i) == << data[4 * i - 3], data[4 * i - 2], data[4 * i - 1], data[4 * i] >>
IntAt(data, i)  == Signed(WordAt(data, i))
-----------------------------------------------------------------------------
(* Requests: two ints. *)
ClientRequest == [start_node : Int32, end_node : Int32]

(* Wrong variant: the vertices change places. *)
RequestToBytesSwapped(r) == Flat(<<r.end_node, r.start_node>>)

RequestToBytes(r) == Flat(<<r.start_node, r.end_node>>)
BytesToRequest(data) == [start_node |-> IntAt(data, 1), end_node |-> IntAt(data, 2)]

(* A decoder reads that many bytes, whatever it is given. *)
RequestIsWhole(data) == Len(data) >= 8

(* Edges: their number, then two ints for each.  The loop that reads them  *)
(* ends after that number, or where no whole edge is left.                 *)
EdgeInts(edges) ==
    [k \in 1 .. 1 + 2 * Len(edges) |->
        IF k = 1 THEN Len(edges) ELSE edges[k \div 2][1 + (k % 2)]]

EdgesToBytes(edges) == Flat(EdgeInts(edges))

EdgesRead(data) ==
    LET numEdges == IntAt(data, 1)
        left     == (Len(data) - 4) \div 8
    IN  IF numEdges <= left THEN numEdges ELSE left

BytesToEdges(data) ==
    [k \in 1 .. EdgesRead(data) |-> <<IntAt(data, 2 * k), IntAt(data, 2 * k + 1)>>]

(* Responses: error code, length, number of vertices, vertices. *)
ServerResponse == [error_code : Int32, path_length : Int32, path : Seq(Int32)]

(* Wrong variant: the size of the path is not sent. *)
ResponseToBytesWithoutSize(r) == Flat(<<r.error_code, r.path_length>> \o r.path)

ResponseToBytes(r) == Flat(<<r.error_code, r.path_length, Len(r.path)>> \o r.path)

BytesToResponse(data) ==
    [error_code  |-> IntAt(data, 1),
     path_length |-> IntAt(data, 2),
     path        |-> [k \in 1 .. IntAt(data, 3) |-> IntAt(data, k + 3)]]

ResponseIsWhole(data) == Len(data) >= 12 /\ Len(data) >= 12 + 4 * IntAt(data, 3)
-----------------------------------------------------------------------------
(* UDP packets: the type in a byte, three bytes of padding, the packet id, *)
(* the length of the payload, and the payload.  No receiver looks at the   *)
(* padding, which is written as it lies in memory, nor at the length.      *)
PACKET_DATA == 0
PACKET_ACK  == 1
Header(type, packet_id, data_len) == <<type, 0, 0, 0>> \o Flat(<<packet_id, data_len>>)

CreateDataPacket(packet_id, payload) ==
    Header(PACKET_DATA, packet_id, Len(payload)) \o payload
CreateAckPacket(packet_id) == Header(PACKET_ACK, packet_id, 0)

(* A packet shorter than a header counts as DATA without a payload. *)
ParsePacket(packet) ==
    IF Len(packet) < 12
    THEN [type |-> PACKET_DATA, packet_id |-> 0, data_len |-> 0, payload |-> << >>]
    ELSE [type      |-> packet[1],
          packet_id |-> Unsigned(WordAt(packet, 2)),
          data_len  |-> Unsigned(WordAt(packet, 3)),
          payload   |-> SubSeq(packet, 13, Len(packet))]
=============================================================================

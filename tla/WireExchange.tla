------------------------------ MODULE WireExchange ------------------------------
(***************************************************************************)
(* One client and one server at the level of bytes: what send, recv,       *)
(* sendto and recvfrom move, from client/Client.cpp to server/Server.cpp   *)
(* and back.  Nothing is lost here and nobody is killed: that is the       *)
(* matter of UDPExchange and TCPService.  What is left is the byte stream, *)
(* whose pieces need not be those that were sent, and the buffers.         *)
(***************************************************************************)
EXTENDS WireFormat, ClientStart

CONSTANTS
    Arguments,    \* of the client's main: records of ip, protocol, port
    Requests,     \* what the user may ask: records of vertices and edges
    MaxRequests,  \* bound: how often
    ProcessRequest(_, _),   \* the server's answer to a request and its edges
    BUFFER_SIZE,  \* 4096
    MaxDatagram,  \* 65507: sendto refuses a larger packet
    Whole,        \* a recv of no more bytes is never cut short, ...
    Cuts          \* ... and a longer one may return one of these numbers

ASSUME WireExchangeAssumption ==
    /\ MaxRequests \in Nat /\ MaxRequests < Words
    /\ BUFFER_SIZE \in Nat /\ MaxDatagram \in Nat /\ Whole \in Nat
    /\ Cuts \subseteq Nat
    /\ 12 <= Whole
    /\ Whole + 20 <= BUFFER_SIZE /\ Whole + 20 <= MaxDatagram
    /\ BUFFER_SIZE < Base * (Base * Base)

(* The client's main numbers the vertices of a graph from 0 and takes no   *)
(* more than 20, so that the number of one fits into a byte.               *)
ASSUME InputAssumption ==
    /\ Requests # {}
    /\ \A r \in Requests :
           /\ r.start_node \in Byte /\ r.end_node \in Byte
           /\ r.edges \in Seq(Byte \X Byte)
           /\ 8 * Len(r.edges) + 12 < Words \div 2
    /\ \A a \in Arguments :
           a.ip \in Seq({"octet", "zeros", "large", "empty", "word"}) /\ a.ip # << >>

VARIABLES
    args,       \* the client's arguments, until it is connected
    protocol,   \* the client's protocol
    server,     \* the protocol of the server
    cpc,        \* where the client is, see ClientPlaces
    spc,        \* where the server is, see ServerPlaces
    toServer,   \* bytes on their way to the server; over UDP one packet
    toClient,   \* bytes on their way to the client
    expected,   \* at either end, the length prefix received last, or Nothing
    asked,      \* the number of requests so far
    request,    \* the client's request
    received,   \* the vertices the server decoded, ...
    graph,      \* ... and the edges
    response,   \* the response the client decoded
    large       \* history: an edges message was longer than Whole

vars == <<args, protocol, server, cpc, spc, toServer, toClient, expected, asked, request,
          received, graph, response, large>>

Nothing     == -1
NoArguments == [ip |-> << >>, protocol |-> "none", port |-> NotANumber]

ClientPlaces ==
    { "start",         \* main, before the checks
      "refused",       \* an argument was not accepted
      "unconnected",   \* connect failed
      "idle",          \* at the user's prompt
      "edges",         \* TCP: the vertices were sent
      "response",      \* receiveTCP, or waitForAck and receiveResponse
      "failed",        \* sendRequest returned false: the process ends
      "exited",
      "undefined" }    \* a decoder read behind the end of its message

ServerPlaces ==
    { "request", "edges",   \* TCP: handleTCPClient, at its two receives
      "packet",             \* UDP: runUDP
      "answer",             \* processRequest and after
      "closed",             \* TCP: the worker left its loop
      "undefined" }

Init ==
    /\ args \in Arguments
    /\ server \in {"tcp", "udp"}
    /\ protocol = "none"
    /\ cpc = "start"
    /\ spc = IF server = "tcp" THEN "request" ELSE "packet"
    /\ toServer = << >> /\ toClient = << >>
    /\ expected = [client |-> Nothing, server |-> Nothing]
    /\ asked = 0
    /\ request = CHOOSE r \in Requests : TRUE
    /\ received = [start_node |-> 0, end_node |-> 0]
    /\ graph = << >>
    /\ response = [error_code |-> 0, path_length |-> 0, path |-> << >>]
    /\ large = FALSE
-----------------------------------------------------------------------------
First(stream, n) == SubSeq(stream, 1, n)
Rest(stream, n)  == SubSeq(stream, n + 1, Len(stream))

(* What recv(n) may return of the bytes on their way. *)
Arrived(stream, n) ==
    LET there == IF Len(stream) < n THEN Len(stream) ELSE n
    IN  {there} \cup {k \in Cuts : Whole <= k /\ k < there}

(* Wrong variant: the limit of another buffer. *)
TooLargeForTwo(size) == size > 2 * BUFFER_SIZE

TooLarge(size) == size > BUFFER_SIZE

(* sendTCP: two sends, of the length and of the data. *)
Frame(data) == Htonl(Len(data)) \o data

ClientEnded == cpc \in {"failed", "exited", "undefined"}
ServerEnded == spc \in {"closed", "undefined"}

Start ==
    /\ cpc = "start"
    /\ \/ ~ Accepted(args) /\ cpc' = "refused" /\ UNCHANGED <<args, protocol>>
       \/ /\ Accepted(args) /\ ~ Connects(args, server)
          /\ cpc' = "unconnected" /\ UNCHANGED <<args, protocol>>
       \/ /\ Accepted(args) /\ Connects(args, server)
          /\ cpc' = "idle"
          /\ protocol' = Lower(args.protocol)
          /\ args' = NoArguments
    /\ UNCHANGED <<server, spc, toServer, toClient, expected, asked, request, received,
                   graph, response, large>>

Ask(r) ==
    /\ cpc = "idle"
    /\ asked < MaxRequests
    /\ asked' = asked + 1
    /\ request' = r
    /\ large' = (large \/ Len(EdgesToBytes(r.edges)) > Whole)

Exit ==
    /\ cpc = "idle"
    /\ cpc' = "exited"
    /\ UNCHANGED <<args, protocol, server, spc, toServer, toClient, expected, asked, request,
                   received, graph, response, large>>
-----------------------------------------------------------------------------
(* TCP, the client. *)

(* To an end that is closed a send succeeds or fails. *)
ClientSendTCP(data, next) ==
    \/ ~ ServerEnded /\ toServer' = toServer \o Frame(data) /\ cpc' = next
    \/ ServerEnded /\ UNCHANGED toServer /\ cpc' \in {next, "failed"}

SendRequestData ==
    /\ protocol = "tcp"
    /\ \E r \in Requests :
           /\ Ask(r)
           /\ ClientSendTCP(RequestToBytes(r), "edges")
    /\ UNCHANGED <<args, protocol, server, spc, toClient, expected, received, graph,
                   response>>

SendEdgesData ==
    /\ cpc = "edges"
    /\ ClientSendTCP(EdgesToBytes(request.edges), "response")
    /\ UNCHANGED <<args, protocol, server, spc, toClient, expected, asked, request, received,
                   graph, response, large>>

ClientTakes(data) ==
    IF ResponseIsWhole(data)
    THEN cpc' = "idle" /\ response' = BytesToResponse(data)
    ELSE cpc' = "undefined" /\ UNCHANGED response

ClientReceiveTCP ==
    /\ cpc = "response" /\ protocol = "tcp"
    /\ \/ /\ toClient = << >> /\ ServerEnded
          /\ cpc' = "failed" /\ UNCHANGED <<toClient, expected, response>>
       \/ /\ toClient # << >> /\ expected.client = Nothing
          /\ toClient' = Rest(toClient, 4)
          /\ expected' = [expected EXCEPT !.client = Ntohl(First(toClient, 4))]
          /\ cpc' = IF TooLarge(expected'.client) THEN "failed" ELSE cpc
          /\ UNCHANGED response
       \/ /\ toClient # << >> /\ expected.client # Nothing
          /\ \E n \in Arrived(toClient, expected.client) :
                 /\ toClient' = Rest(toClient, n)
                 /\ ClientTakes(First(toClient, n))
          /\ expected' = [expected EXCEPT !.client = Nothing]
    /\ UNCHANGED <<args, protocol, server, spc, toServer, asked, request, received, graph,
                   large>>
-----------------------------------------------------------------------------
(* TCP, the server. *)

(* Wrong variant: continue for break. *)
CloseWorkerContinues(unread) ==
    /\ spc' = "request"
    /\ toServer' = unread
    /\ UNCHANGED <<toClient, received, graph>>

(* break, close(clientSocket): when bytes are left unread the connection   *)
(* is reset, and what is on its way to the client may be lost with it.     *)
CloseWorker(unread) ==
    /\ spc' = "closed"
    /\ toServer' = << >>
    /\ toClient' \in IF unread = << >> THEN {toClient} ELSE {toClient, << >>}
    /\ UNCHANGED <<received, graph>>

(* Wrong variant: the order of the host. *)
NetworkSizeAsHost(stream) == Unsigned(First(stream, 4))

NetworkSize(stream) == Ntohl(First(stream, 4))

(* The first recv of receiveTCP.  What it does not fill of networkSize is  *)
(* not initialised.                                                        *)
ServerReceiveSize ==
    /\ protocol = "tcp"
    /\ spc \in {"request", "edges"} /\ expected.server = Nothing
    /\ \/ /\ toServer = << >> /\ ClientEnded
          /\ CloseWorker(<< >>) /\ UNCHANGED expected
       \/ /\ toServer # << >> /\ Len(toServer) < 4
          /\ spc' = "undefined" /\ UNCHANGED <<toServer, toClient, received, graph, expected>>
       \/ /\ Len(toServer) >= 4 /\ TooLarge(NetworkSize(toServer))
          /\ CloseWorker(Rest(toServer, 4)) /\ UNCHANGED expected
       \/ /\ Len(toServer) >= 4 /\ ~ TooLarge(NetworkSize(toServer))
          /\ expected' = [expected EXCEPT !.server = NetworkSize(toServer)]
          /\ toServer' = Rest(toServer, 4)
          /\ UNCHANGED <<spc, toClient, received, graph>>
    /\ UNCHANGED <<args, protocol, server, cpc, asked, request, response, large>>

ServerTakes(data) ==
    /\ UNCHANGED toClient
    /\ \/ /\ spc = "request"
          /\ IF RequestIsWhole(data)
             THEN spc' = "edges" /\ received' = BytesToRequest(data)
             ELSE spc' = "undefined" /\ UNCHANGED received
          /\ UNCHANGED graph
       \/ /\ spc = "edges"
          /\ spc' = "answer" /\ graph' = BytesToEdges(data)
          /\ UNCHANGED received

(* The second recv of receiveTCP, which is one of 0 bytes for the length 0. *)
ServerReceiveData ==
    /\ spc \in {"request", "edges"} /\ expected.server # Nothing
    /\ expected' = [expected EXCEPT !.server = Nothing]
    /\ \/ /\ expected.server = 0 \/ (toServer = << >> /\ ClientEnded)
          /\ CloseWorker(toServer)
       \/ /\ expected.server > 0 /\ toServer # << >>
          /\ \E n \in Arrived(toServer, expected.server) :
                 IF spc = "edges" /\ n < 4
                 THEN CloseWorker(Rest(toServer, n))
                 ELSE toServer' = Rest(toServer, n) /\ ServerTakes(First(toServer, n))
    /\ UNCHANGED <<args, protocol, server, cpc, asked, request, response, large>>

Response == ResponseToBytes(ProcessRequest(received, graph))

SendResponseTCP ==
    /\ spc = "answer" /\ server = "tcp"
    /\ toClient' = toClient \o Frame(Response)
    /\ spc' = "request"
    /\ UNCHANGED <<args, protocol, server, cpc, toServer, expected, asked, request, received,
                   graph, response, large>>
-----------------------------------------------------------------------------
(* UDP: one packet there, one back; recvfrom cuts a packet at the end of   *)
(* the buffer.  Acknowledgements and retries are left to UDPExchange.      *)
Payload(r) == RequestToBytes([start_node |-> r.start_node, end_node |-> r.end_node])
                  \o EdgesToBytes(r.edges)

Buffered(packet) ==
    IF Len(packet) > BUFFER_SIZE THEN First(packet, BUFFER_SIZE) ELSE packet

SendPacket ==
    /\ protocol = "udp"
    /\ \E r \in Requests :
           LET packet == CreateDataPacket(asked + 1, Payload(r)) IN
           /\ Ask(r)
           /\ toServer' = IF Len(packet) <= MaxDatagram /\ server = "udp" THEN packet
                                                                         ELSE << >>
           /\ cpc' = IF Len(packet) <= MaxDatagram THEN "response" ELSE "failed"
    /\ UNCHANGED <<args, protocol, server, spc, toClient, expected, received, graph,
                   response>>

(* processUDPRequest ignores a payload without vertices and a count. *)
ReceivePacket ==
    /\ spc = "packet" /\ toServer # << >>
    /\ LET payload == ParsePacket(Buffered(toServer)).payload IN
       \/ Len(payload) < 12 /\ UNCHANGED <<spc, received, graph>>
       \/ /\ Len(payload) >= 12
          /\ received' = BytesToRequest(First(payload, 8))
          /\ graph' = BytesToEdges(Rest(payload, 8))
          /\ spc' = "answer"
    /\ toServer' = << >>
    /\ UNCHANGED <<args, protocol, server, cpc, toClient, expected, asked, request, response,
                   large>>

SendResponsePacket ==
    /\ spc = "answer" /\ server = "udp"
    /\ toClient' = CreateDataPacket(asked, Response)
    /\ spc' = "packet"
    /\ UNCHANGED <<args, protocol, server, cpc, toServer, expected, asked, request, received,
                   graph, response, large>>

(* receiveResponse; or nothing comes, and the attempts are used up. *)
ClientReceivePacket ==
    /\ cpc = "response" /\ protocol = "udp"
    /\ \/ /\ toClient # << >>
          /\ toClient' = << >>
          /\ ClientTakes(ParsePacket(Buffered(toClient)).payload)
       \/ /\ toClient = << >> /\ toServer = << >> /\ spc # "answer"
          /\ cpc' = "failed"
          /\ UNCHANGED <<toClient, response>>
    /\ UNCHANGED <<args, protocol, server, spc, toServer, expected, asked, request, received,
                   graph, large>>
-----------------------------------------------------------------------------
ClientStep == SendEdgesData \/ ClientReceiveTCP \/ ClientReceivePacket
ServerStep ==
    \/ ServerReceiveSize
    \/ ServerReceiveData
    \/ SendResponseTCP
    \/ ReceivePacket
    \/ SendResponsePacket

Next == Start \/ SendRequestData \/ SendPacket \/ Exit \/ ClientStep \/ ServerStep

Spec == Init /\ [][Next]_vars

(* Both processes run; the user owes nothing. *)
LiveSpec == Spec /\ WF_vars(ClientStep) /\ WF_vars(ServerStep)
-----------------------------------------------------------------------------
TypeOK ==
    /\ args \in Arguments \cup {NoArguments}
    /\ protocol \in {"none", "tcp", "udp"} /\ server \in {"tcp", "udp"}
    /\ cpc \in ClientPlaces /\ spc \in ServerPlaces
    /\ toServer \in Seq(Byte) /\ toClient \in Seq(Byte)
    /\ expected \in [{"client", "server"} -> Nothing .. BUFFER_SIZE]
    /\ asked \in 0 .. MaxRequests
    /\ request \in Requests
    /\ received \in ClientRequest /\ graph \in Seq(Int32 \X Int32)
    /\ response \in ServerResponse
    /\ large \in BOOLEAN

(***************************************************************************)
(* No decoder reads behind the end of the message it is given, and no      *)
(* length prefix is used that was received in part: the sizes that         *)
(* handleTCPClient, processUDPRequest and sendRequest do not check are     *)
(* right because the peer sends them so and both ends stay in step.        *)
(***************************************************************************)
NeverReadsBehind == cpc # "undefined" /\ spc # "undefined"

(***************************************************************************)
(* The response that sendRequest hands out is the server's answer to the   *)
(* vertices and edges it was called with: the conversions to bytes and     *)
(* back, the length prefixes, messages cut short by recv and packets cut   *)
(* off at the end of the buffer change nothing in it.                      *)
(***************************************************************************)
AnswerIsForRequest ==
    cpc = "idle" /\ asked > 0 =>
        response = ProcessRequest([start_node |-> request.start_node,
                                   end_node   |-> request.end_node], request.edges)

(***************************************************************************)
(* A request fails only when it or an earlier one on the connection had a  *)
(* graph too large to be received whole, or when client and server were    *)
(* started with different protocols: a graph the server would accept is    *)
(* never at fault, but after one that it refused the connection may be     *)
(* dead.                                                                   *)
(***************************************************************************)
OnlyLargeGraphsFail == cpc = "failed" => large \/ protocol # server

(***************************************************************************)
(* What main accepts as an address, connect can use, unless the address    *)
(* has a dot at its end or zeros before a number: isValidIP and inet_pton  *)
(* differ in nothing else.                                                 *)
(***************************************************************************)
AcceptedAddressConnects ==
    cpc = "unconnected" =>
        \/ Lower(args.protocol) = "tcp" /\ server = "udp"
        \/ args.ip[Len(args.ip)] = "empty"
        \/ \E k \in DOMAIN args.ip : args.ip[k] = "zeros"

(***************************************************************************)
(* No request waits for ever for bytes that are not coming: every one ends *)
(* with a response or an error.                                            *)
(***************************************************************************)
EveryRequestEnds == cpc \in {"edges", "response"} ~> cpc \in {"idle", "failed"}
=============================================================================

# Verification of client_server_app

The program is a client and a server for shortest paths. A user types an
undirected graph (or names a file) and two of its vertices; the client sends
them to the server over TCP or UDP, the server runs a breadth first search and
returns the path, the client prints it. Over UDP the client retransmits until
the server acknowledges (three attempts, three seconds each); over TCP the
server runs one thread per client and is stopped with Ctrl+C.

This directory holds TLA+ modules translated from the sources, TLC runs on
small instances and TLAPS proofs for instances of every size. Module and
operator names follow the sources; `PROJECT.json` maps every definition to its
lines. Throughout, "client", "server", "common" and "utils" are the directories
of the sources; `source/` holds an older, nearly identical copy that nothing
builds, and is not modelled.

## 1. Inventory

| Component | State | Operations | Correct when |
|---|---|---|---|
| UDP client (`client/Client.cpp`) | packet counter, attempt and read counters of the nested loops, the response | `sendRequest` → `sendWithAck` → `waitForAck`, `receiveResponse` | the result is that of the request asked; an ACK means the server has the request; every call returns; a few faults are repaired |
| UDP server (`server/Server.cpp`) | the request in hand, `activeClients` with times | `runUDP` → `updateClientActivity`, `handleUDPDataPacket` (`sendAck`, `processUDPRequest`), `checkClientTimeouts` | answers follow requests, one client does not disturb another, an active client is never dropped |
| TCP client | one connection, requests of two messages | `connect`, `sendRequest`, `disconnect` | requests and responses stay in step; no wait lasts for ever |
| TCP server | `isRunning`, the accepted socket, `clientThreads`, a worker per client | `runTCP`, `handleTCPClient`, `stop` | workers are independent; `stop` ends the process, gracefully |
| Server process (`server/ServerMain.cpp`) | what each thread is in the middle of, two mutexes, the signals being handled | `main`, `start`, `signalHandler` → `Logger::info`, `stop`, `exit(0)`, the destructor | Ctrl+C stops the server, once |
| Logger | one non-recursive mutex | `log` | no thread waits for itself |
| Shortest path (`common/Dijkstra.h`, `common/Graph.cpp`, `Server::processRequest`) | distances, parents, queue | size and vertex checks, `findPath` | the path is a path, no shorter one exists, "no path" is true |
| Wire format (`common/Protocol.cpp`, `common/UDPProtocol.h`, `sendTCP`, `receiveTCP`) | bytes on their way, the length received last | encode, decode, length prefixes, buffers | what is decoded is what was encoded; a message is read whole |
| Client session (`client/ClientMain.cpp`) | names to indices | read graph, read vertices, checks, show response | the path shown is in the names typed; the session ends |
| Files and parsing (`utils/InputParser`, `utils/FileReader`) | none | two readers and two validators of graph files | a file accepted is read whole |
| Validator (`utils/Validator.cpp`) | none | sizes, port, address, protocol | client and server agree on what is acceptable |

How they interact: the client session calls `Client::sendRequest`; the sockets
join client and server; `signalHandler` runs on top of the server's main thread
wherever that is and calls `stop`, which waits for the workers; every part calls
the logger and its mutex.

Hard to test, and what the properties are for (`hazards` in `PROJECT.json` has
each at its line): datagrams that are lost, doubled, late or overtaken; nested
retry loops whose reads are used up by leftovers of earlier requests; a server
that ends between ACK and answer; a stop while workers block in `recv`; a signal
between any two steps of the main thread; a peer that goes away between two
sends; byte streams cut anywhere; a signal that arrives while another one is
being handled; five encodings written out by hand in three files.

## 2. Modules

| Module | Models |
|---|---|
| `UDPNetwork` | datagrams in flight, one queue per client and direction; each deviation from in-order delivery is a fault of a named kind |
| `UDPClient` | `Client.cpp` over UDP; a step is one `sendto` or `recvfrom` and the code up to the next |
| `UDPServer` | `runUDP` and its callees, with a clock, and an end and restart at any step |
| `RequestReply` | abstract: what `sendRequest` promises its caller, over either protocol |
| `UDPExchange` | composition of the three, properties, refinement of `RequestReply` |
| `UDPExchangeProofs` | theorems about `UDPExchange` |
| `TCPLink` | the connection of each client: states of its two ends, pieces in flight, outcomes of `send` |
| `TCPClient` | `Client.cpp` over TCP, dying anywhere |
| `TCPServer` | `runTCP`, the workers, `signalHandler`, `stop`, the log mutex where it can block |
| `TCPService` | composition, properties, refinement of `RequestReply` |
| `TCPServiceProofs` | theorems about `TCPService` |
| `ShortestPath` | `processRequest`: the checks of `Graph`, `findPath`, the response; a step is one iteration of one of its loops |
| `ShortestPathProofs` | theorems about `ShortestPath` |
| `ClientSession` | the client's main loop: lines, graph files, names and numbers, the checks, what is shown; the server is what `ShortestPath` promises |
| `ClientSessionProofs` | theorems about `ClientSession` |
| `GraphFiles` | the readers of `FileReader` and `InputParser` beside the client's own |
| `WireFormat` | every encoder and decoder, on sequences of bytes |
| `WireFormatProofs` | theorems about `WireFormat` |
| `ClientStart` | the checks of the client's `main`, `isValidIP` beside `inet_pton`, `connect` |
| `WireExchange` | one client and one server byte by byte, over TCP and UDP |
| `WireExchangeProofs` | theorems about `WireExchange` |
| `ServerProcess` | the threads of the server as stacks of functions, signals, `start`, `stop`, both mutexes |
| `ServerProcessProofs` | theorems about `ServerProcess` |
| `LeastNumber` | every nonempty set of naturals has a least element, for the proofs |
| `MCUDPExchange`, `MCTCPService`, `MCShortestPath`, `MCClientSession`, `MCWireExchange`, `MCServerProcess` | instances for TLC |

Conventions. An operator commented "wrong variant" is no part of the model: it
is a plausible bug, and substituting it for the definition after it must break
the property it is meant for. Variables commented "history" are read by
properties only. Deadlock is not checked: the system stops when every client
has ended and the server waits for work, and a poll that finds nothing is a
stuttering step.

### UDP

*Client.* `cpc` is the place in the nested loops, `attempt` the counter of
`sendWithAck`, `reads` that of `waitForAck` or `receiveResponse`. A packet is its
type and the number of the request it belongs to. For a request and an ACK that
is the packet id; an answer carries an id of the server's own counter, at which
no client ever looks, so the model keeps the request whose result the payload
holds instead, which is what the properties need. `receiveResponse` takes any
DATA (`IsResponse`); `waitForAck` compares type and id (`IsAckFor`) and drops
DATA. A failed request ends the process, as `main` does.

*Server.* One thread: `ReceivePacket` (which notes the activity), `SendAck`,
`ProcessUDPRequest` (compute and answer), `CheckClientTimeouts`. `ServerStop`
loses its memory. The clients send no ACK, so that branch has no step.

*Network.* Loss, duplication and overtaking are chosen when a datagram is sent;
"delay" lets a receive time out although something is on its way, "senderr" is
a failed `sendto`, "crash" an end of the server. Without "delay" a receive
times out only when nothing is on its way for this client: three seconds are
longer than the server's 50 ms and the trip, an assumption about time and no line of the
code (`NothingOnTheWay`). `heard` and `served` record what
the server received and answered.

*Bounds.* `MaxRequests`, `MaxFaults`, `MaxTime`. Packet ids are 32 bits in the
code and do not wrap in any run. `MaxAttempts` is 3 in the code; `UDP_in_order`,
which has two clients, uses 2 to stay small.

### TCP

*Link.* A request is two messages, a response a length and a payload, each a
separate `send`. A `send` to an end that is closed succeeds, fails, or raises
SIGPIPE, which nobody handles; the first of two sends to a closed end is never
the one that raises it. Messages arrive whole here; `WireExchange` has the byte
stream. A message holds the number of its request in place of its data, a response
the numbers of the vertices and of the edges it was computed from (`inHand`): no code
looks at them, and a response to a mixture of two requests could be told apart.

*Server.* `mpc` is the main thread: `accept`, `logging` (holding the log mutex; of a
connection that was accepted, or of one that was gone before, when `accept` fails),
`spawn` and `register` (`emplace_back` starts the thread, then counts it), and
after a signal `stop`, `join`, `exited`, or `deadlock`. The handler runs on the
main thread: Linux delivers a signal for the process to its main thread when
that thread does not block it. `SignalPoints` says where in its loop the main
thread may be interrupted, so that each hazard has its own instance. `wpc[c]` is
the worker of `c`. A worker that logs needs the mutex (`LogMutexFree`).

*Refinement.* `heard` and `served` hold the pairs that were received and answered;
`Whole` takes those of one request. A client that is gone maps to "failed" if it
was waiting and to "exited" if not. A `send` that fails at once is an `Ask` of
`RequestReply` that fails.

### Shortest path

*State.* `pc` is the place in `processRequest`, `dist`, `parent`, the queue `q` and
`path` are the variables of `findPath`, `u`, `i` and `v` those of its loops;
`expanded`, a history, holds the vertices whose adjacency lists were gone
through. The list of a vertex holds the other ends of its edges in the order of
the edges, so the loop over the list is a loop over the edges (`OtherEnds`). `INF`
is compared for equality only and is -1 here, so that no distance equals it.
Vertices are not negative: the client numbers them from 0. `MinSize` and
`MaxSize` are 6 and 20 in the code; the limits apply to vertices and edges.

### Client session

*Lines.* A line is what `parseGraph` and `parseVertices` make of it: a list of
edges (one edge is also a vertices line, the empty line is a graph without
edges), blanks, a comment, `exit`, the name of a file, or anything else. `Scripts`
are sequences of pairs, a graph line and a vertices line, typed without looking at
the screen, as the expect scripts do; a vertices line names two words at most and
no file. When all is read, standard input stays open or is at its end.

*State.* `pc` is the place in `processClientRequest`; `stringEdges`, `names`, `request`
and `response` are its variables, `vertexMap` is the operator `Index`; `shown` is what was
printed. The histories `graphPair` and `verticesPair` say which pair the lines in
use came from.

*Surroundings.* Other programs rewrite the file between any two steps (`Rewrite`).
`SendRequest` returns any response that satisfies `ResponseIsRight` of `ShortestPath`,
instantiated for the request at hand, or fails, which ends the client. What the
network does to the response is the matter of `UDPExchange` and `TCPService`.

*Files.* `ValidateGraphFile` and `ReadFile` of `ClientSession` are the client's own
readers. `GraphFiles` has the ones of `FileReader` and `InputParser`, and `ReadersAgree` says which
files the two accept alike and of which they read the same graph. A line may end
with a comma: `parseGraph` accepts one there, and `FileReader`, which joins the lines by
commas before it parses them, only behind the last line (`CommaWithin`).

### Bytes

*Format.* `WireFormat` writes an int as four digits of a byte's `Base` values, 256 in the
code; the runs use 16, which changes no format and keeps numbers within TLC's
range. What `receiveTCP` leaves of `networkSize` when less than four bytes come, and
what a decoder reads behind the end of a message, is undefined: the place
"undefined", which `NeverReadsBehind` shows to be unreachable.

*Exchange.* `cpc` and `spc` are the places of client and server between two calls of
`send`, `recv`, `sendto` or `recvfrom`; `toServer` and `toClient` are the bytes on their way, over
UDP one packet. `expected` is the length that `receiveTCP` holds between its two calls
of `recv`. A `recv` of at most `Whole` bytes is never cut short; a longer one may return
one of `Cuts`. `Whole` stands for the size of a segment: a request is sent when nothing
of the one before is on its way, so its lengths and vertices lie in its first
segment, and only the edges can reach beyond it. Retries and losses are left out:
they are in `UDPExchange`. `ProcessRequest` is a parameter; `MCWireExchange` gives it a server with
limits of one edge, so that graphs refused and graphs accepted both occur.

*End of a worker.* It leaves its loop at an error; the bytes it has not read make
the kernel reset the connection, which may take a response with it (`CloseWorker`).

### Server process

*Stacks.* A function call pushes a place on the stack of its thread, a return pops it;
a signal pushes "handler" on whatever is there. So a handler on top of `log`, of
`stop` or of another handler needs no action of its own. `Call` names the place at
which the caller goes on.

*Signals.* While `signalHandler` runs, its own signal is blocked on that thread. Linux
gives a signal for the process to the main thread if it can, else to another
thread: a second Ctrl+C during the first is handled by a worker, a SIGTERM by the
main thread on top of the first (`Takes`). `MaxSignals` bounds how many arrive.

*Errors.* `createSocket` fails at `socket`, `bind` or `listen`, or logs a warning and goes
on (`CreateSocket`, `BindSocket`); a worker leaves its loop with its client still
connected when a message is too large or has no edges, or a response cannot be sent
(`WorkerBreaks`); a failed `accept` is logged and tried again; `std::thread` throws, which
leaves `runTCP`, is caught in `main` and runs the destructor. `join` throws when a
thread joins itself or one that another `stop` is joining; nobody catches that, and
the process aborts (`JoinThrows`). Receives are abstract: a client is connected or
gone, and gone too for a worker that has closed its connection. The closed socket does not wake `accept`; the main thread leaves it by the
handler's `exit(0)` only.

### Fairness

Threads and processes are scheduled; users, operators and signals
owe nothing; `send` and `recv` return when they can. Over UDP a receive ends by
`SO_RCVTIMEO` at the latest. In `ServerProcess` each thread has its own weak fairness,
and accepting, receiving, leaving and signals have none. `lock` is fair in no sense: a
thread that waits for a mutex is held up only while another one holds it, and the
weak fairness of that one lets it go. Strong fairness is assumed nowhere.

## 3. Runs

| Run | Instance | Shows |
|---|---|---|
| `UDP_in_order` | 2 clients, 3 requests, 2 attempts, 2 faults of all kinds but overtaking, clock of 2 s with a 1 s timeout | the result is the request's own (`AnswerIsForRequest`), although no id is compared; the reason, an order on everything in flight (`InOrder`); refinement with a shared server thread (`KeepsPromise`); `RecentClientIsKnown` |
| `UDP_any_network` | 1 client, 3 requests, 4 faults of every kind | `AckedMeansReceived`, `Causal`; every call returns (`EveryRequestEnds`) |
| `UDP_repair` | 1 client, 4 requests, 2 faults | no request fails (`NeverGivesUp`), each is answered (`EveryRequestIsAnswered`) |
| `UDP_overtaken` | violation | a doubled request and one overtaken datagram: the result of request 1 is handed out for request 2 |
| `TCP_service` | 2 clients, 2 requests, signal in `accept` | `GracefulStop`, `OneMoreRequest`, `RequestResponseInStep`, refinement (`KeepsPromise`), `EveryRequestEnds`, what alone keeps a stopped server from its end (`StopWaitsOnlyForSilence`) |
| `TCP_sigpipe` | violation | a client that leaves before its response ends the server, and every other client's worker |
| `TCP_log_mutex` | violation | a signal while the main thread logs deadlocks the server |
| `ShortestPath` | all lists of up to 4 edges among 5 vertices, limits 2 and 4 | the response is right (`ResponseIsRight`), a path has no more vertices than the limit (`PathFits`), the queue is ordered (`QueueByDistance`), the loops end (`EveryRequestIsProcessed`) |
| `Client_session` | 2 pairs of lines (10 graph lines, 4 vertices lines), 8 files, 1 rewriting, limits 3 and 4 | requests pair what was typed together (`InStep`), the path shown is right in names (`ShownPathIsRight`), the two size checks agree on vertices (`RefusedForItsEdges`), where the client ends, waits or spins (`OnlyTheEndSpins`), which files two readers read alike (`ReadersAgree`) |
| `Wire_exchange` | 37 sets of arguments, 10 graphs of 0 to 8 edges, 3 requests, a buffer that holds 7 edges, receives cut between ints | the answer is the request's own, byte by byte (`AnswerIsForRequest`); no decoder reads past its message (`NeverReadsBehind`); which requests fail (`OnlyLargeGraphsFail`); which addresses `main` accepts and `connect` refuses (`AcceptedAddressConnects`); every call returns (`EveryRequestEnds`) |
| `Wire_cut` | violation | a receive cut within an int: the rest of a graph is read as the next messages, and answered |
| `Server_process` | 2 workers, 2 signals, good and bad arguments, TCP and UDP | which workers an exit cuts off (`GracefulExit`), what alone can abort the server (`AbortNeedsSameSignalTwice`) or make a thread wait for itself (`DeadlockNeedsSignal`), Ctrl+C ends it (`StopEnds`) |

Why the bounds are enough. The client keeps nothing from one request to the
next but its counter and what is left in the queues, so two requests make every
pair of a late datagram and a current request, and three let leftovers pile up.
With three attempts of three reads the fourth fault can still decide the last
attempt. Two clients are enough for any exchange through the server, which
handles one request at a time. Over TCP workers share only `isRunning`, the log
mutex and the life of the process. `MCShortestPath` takes the lists of edges in
which vertices are numbered in the order they are named, as `main` numbers them;
four edges give cycles, chords, self-loops, repeated edges and two components,
and with limits of 2 and 4 requests fall below, within and above them. What holds
for larger graphs is proved. In `Client_session` a second pair is all that a line left
over from the first can meet, and one rewriting falls between validation and
reading; the least size must exceed 2, as 6 does, for a single edge to be refused.

In `Wire_exchange` the edges take from 4 to 68 bytes: within a segment (20), within the
buffer (64) and beyond it; as a packet, they are cut off at the buffer from the sixth
edge on and refused by `sendto` from the eighth. The proportions are those of
1448, 4096 and 65507 only in their order, which is all that the code compares. A
third request follows whatever the second leaves on the connection. Two workers
are enough in `Server_process`: one handles a signal while another is joined. Two
signals give every pair of handlers: one on top of the other, or on two threads; a
third at the same time is beyond the run.

"Fewer faults than attempts" in `UDP_repair` excludes a lost answer and a crash:
the answer is sent once and not acknowledged, so one loss fails the request
unless a retransmission was answered as well. That is the code's design, and the
reason these kinds are not in `RepairedFaults`.

What is excepted in a property, and why the code needs it:

* `GracefulExit`: a signal inside `emplace_back` finds a worker that runs and is not
  yet an element of `clientThreads`, so `stop` does not join it and `exit(0)` cuts it off,
  it and no other one; a second signal finds `isRunning` false, skips the joins and exits under the first
  handler; so does one that interrupts the destructor.
* `AbortNeedsSameSignalTwice`: `stop` tests `isRunning` and clears it after a line in the
  log. Two threads that pass the test join the same workers, one of which may be
  the thread itself, and `std::thread::join` throws. This takes two handlers on two
  threads, which one signal, or two different ones, never give.
* `StopEnds`: `signalHandler` waits for a mutex that the thread beneath it holds. `TCP_log_mutex`
  shows it for the log; over UDP `updateClientActivity` and `checkClientTimeouts`
  hold `clientsMutex`, and `stop` wants it. `DeadlockNeedsSignal` says that these are the only
  places and that a thread never waits for itself without a signal there.
* `StopEnds` and `StopWaitsOnlyForSilence`: a client that stays connected and sends nothing
  keeps its worker in `recv`, and the worker keeps `stop` in `join`. `stop` does not close the
  connections, although `Server.h:58` says that it closes all of them. Both properties
  name this client, so they assume of the others neither that they leave nor that
  they are silent.
* `OnlyTheEndSpins`: no test of `cin` ends the main loop. Behind the end of the input
  the client takes an empty line for a graph and refuses it, without end: only `exit`
  or a failed request before that ends it.
* `OnlyLargeGraphsFail`: the server refuses edges of more than 4096 bytes and closes
  the connection with those bytes unread. The call that sent them fails, or is given no
  answer; the connection is of no more use either way. Over UDP the packet is cut
  off and the smaller graph is answered; it is still above the server's limit of
  edges, so the answer is right.
* `AnswerIsForRequest` over TCP needs cuts between ints. On a segment of 1448 bytes they are; on
  one whose size is 2 modulo 4, as in some tunnels, `Wire_cut` applies.

More that the modelling showed, for which no run is kept.

* `waitForAck` drops a DATA packet, although its comment says that it is left for
  `receiveResponse` (`Client.cpp:231`); the request is then sent again and answered again.
* `runUDP` checks for lost clients only after a datagram arrived: with no other
  traffic a client that left stays in `activeClients` for ever.
* `parseGraph` clears its result, so a graph file with one edge per line, the format
  `utils/InputParser.h` describes, passes validation line by line, and
  `readGraphFromFile` then keeps its last line only. `FileReader` keeps them all
  (`ReadersAgree`).
* The calls in `README.md:9` and `architecture.txt:42`, with `localhost` for an address,
  are refused by `isValidIP`, and the one in `README.md:15`, without a protocol, by the server's
  `main` (`ServerAccepts`). The server wants its protocol in small letters, the client does not
  care.

## 4. Proofs

Seven modules prove theorems about the modules they are named after, for every value
of the constants that satisfies the assumptions below; `LeastNumber` serves them.
Each invariant that a run above checks and that holds is stated by a theorem, and so
are the two refinements. Proofs are laid out alike: an invariant as a conjunction of
named parts, a lemma per action or group of actions, a last step in temporal logic.

### UDP (`UDPExchangeProofs`)

* `TypeCorrect`: `TypeOK` is not inductive, because the counters are kept in range
  by where the loops are. `LoopBounds` adds that: in "send" an attempt is left, in a
  wait a read is left.
* `AckIsSound`, `CausalityHolds`: on any network. The invariant is `CausalInv`:
  whatever is on its way to a client belongs to a request the server received
  (`heard`), an answer to one it answered (`served`), and no number exceeds the
  client's counter. An ACK with the current id can then only exist when the current
  request was received.
* `OrderHolds`, `AnswersMatch`: assuming that "reorder" is not in `Faults`. The
  invariant is `OrderInv`. Read from the client's end, the answers, the request in
  hand and the requests on their way belong to ever later requests, and once the ACK
  of the current request was read nothing older can follow. This is the whole reason
  why `receiveResponse` may ignore packet ids, and the run `UDP_overtaken` shows
  that it is needed.
* `ExchangeKeepsPromise`: under the same assumption `UDPExchange` implements
  `RequestReply`; the step lemmas map each action to a step or a stutter.
* `RecentClientsAreKept`: `KnownInv` relates the history `lastHeard` to the times in
  `activeClients`.
* `RequestsSucceed`: assuming that `Faults` leaves out overtaking, lost answers and
  crashes, and that `MaxFaults` is below `MaxAttempts`, no request of any client
  fails. A read is lost to what an earlier transmission left over, to a datagram
  that is late, or because nothing comes, and the invariant `RepairInv` counts all
  three. `LoadBound`: between requests, no more is left over than two datagrams per
  fault. `AttemptsLeft`: the reads spent on a request, an attempt counted as
  `MaxAttempts` of them, and those that leftovers will take before its ACK comes,
  are paid for by faults, `MaxAttempts` each; when no ACK is to come, the fault that
  took it pays for the attempt under way. `AcksAreFollowed`: behind an ACK comes
  DATA, with at most a doubled ACK between them. `ReadsLeft`: DATA comes to
  `receiveResponse` before its reads are used up. `UDP_overtaken` and the argument
  for `RepairedFaults` above say what the hypotheses leave out.

### TCP (`TCPServiceProofs`)

* `TypeCorrect`; `StopTakesEffect` (wherever a signal strikes; `StopInv` says which
  workers may still answer after `isRunning` fell); `StopIsGraceful` (assuming the
  signal finds the main thread in `accept`; `JoinInv` says that every worker that
  runs is an element of `clientThreads` or about to become one).
* `ServiceStaysInStep` and `ServiceKeepsPromise`, wherever clients die and signals
  strike. The invariant `StepInv` says for every client (`InStep`), by where the
  client is, what can be in either direction, where its worker can be, and what the
  worker holds: `AtPrompt` nothing is on its way, `AtEdges` the vertices at most,
  `AtResponse` what is left of both messages, or what there is of the response. An
  end that is closed may leave anything behind it, but nobody reads that. The second
  theorem adds the refinement mapping, in which a pair that was received whole
  (`Whole`) is one request heard.

### Shortest path (`ShortestPathProofs`)

* `TypeCorrect`, `QueueStaysOrdered`, `ResponseCorrect`, for every graph.
  `SearchInv` is the invariant of the search: the visited vertices form a `Tree`
  with the start as its root; every neighbour of an expanded vertex was reached at
  most one step further (`Expansion`); the queue and the vertex in hand are no more
  than one step apart and no visited vertex is further than one step from them
  (`Front`); what was visited is expanded, queued or in hand, and when the search is
  over everything nearer than the end is expanded (`Cover`). `NoShorterWalk` then
  takes the first vertex of a walk that is further than its position in it: its
  predecessor was expanded, so it is not. `Traced` says what is left to trace is as
  long as the distance of `v`.
* `ResponseFits`: no path is longer than the greatest number of vertices, so that a
  response fits into the buffer `Client.cpp` gives it. A walk that passed a vertex
  twice could be cut short (`NoDetour`), so the path passes each once, and there are
  no more (`ShortPath`).

### Client session (`ClientSessionProofs`)

* `TypeCorrect`, `SessionStaysInStep`, `ShownPathCorrect`, `ChecksAgree`, for every
  script of pairs and every graph. `SessionInv` has three parts besides types.
  `Paired`: of the lines not yet read, all but perhaps the first come in whole
  pairs. `Placed`: where vertices are asked for, the next line is the one typed with
  the graph in hand; at the graph prompt a vertices line may be next, but it holds
  one edge at most and `MinVertices` exceeds 2 (`OneEdgeIsTooSmall`). `Requested`:
  the request is the numbering of the graph in hand. `IndexFacts` shows the
  numbering to be injective, from which `JoinedNumbers` carries walks from names to
  numbers and `RightPathInNames` back.

### Bytes (`WireFormatProofs`, `WireExchangeProofs`)

* `IntSurvives`, `PrefixSurvives`, `RequestSurvives`, `EdgesSurvive`,
  `ResponseSurvives`, `PacketSurvives`, for every even `Base`, every int, every
  number of edges and vertices that fits in one, and every payload. `Digits` divides
  three times and bounds each quotient (`DivBound`); `FlatKeepsBytes` finds the four
  bytes of every int at its place, by arithmetic on positions and so without an
  induction.
* `TypeCorrect`, `DecodersStayInside`, `AnswersMatch`, `SmallGraphsDoNotFail`, for
  every size of buffer, packet and segment. `ExchangeInv` says, by where client and
  server are between two calls, what the streams hold, to the byte: `OverTCP`,
  `OverUDP`, `Unheard` (a UDP client and a TCP server) or `NotConnected`. The
  exception is a server that is `Dying`: it received a part of a large graph and
  takes the rest of it for the next message. That rest is `Broken`: it is cut
  between ints and begins with a vertex, whose bytes, read as a length, are one of
  more than 4096 or are 0; either ends the worker before it decodes anything.
* These four have two hypotheses. `WholeInts`: a receive is cut at a multiple of
  four bytes; `Wire_cut` shows what happens otherwise. `ServerAnswers`: all graphs
  too large to be received whole get the same response, and no response is longer
  than a segment. `LimitsSuffice` derives the second from the limits of the server,
  20 edges and 20 vertices, for segments of 172 bytes and more, and `ResponseFits`
  proves the limit on the path.
* `AddressesConnect`, without any hypothesis: `isValidIP` and `inet_pton` word by
  word.

### Server process (`ServerProcessProofs`)

* `TypeCorrect`: `TypeOK` holds `MutexesOK`, that a mutex is held by the thread that
  has it locked in its stack. Each of some thirty actions is first reduced to what
  it does to one stack: go on to a place, call, return, take a signal (`Steps`,
  `NextTakesStep`). The invariant `ProcessInv` then needs five kinds of steps only:
  `Shape` (which place may lie on which), `WorkersInv` (a worker that runs is an
  element of `clientThreads` or about to become one), `MutexInv` (`HeldBy`).
* `AbortIsRare`: `SignalInv` says that a worker that is in `stop` is in a handler of
  a signal that the main thread is handling too, that `isRunning` is false behind
  `stopFlag`, and that on the main thread no second `stop` gets past its check above
  the first. Two threads in `join`, which it takes to throw, are then the main
  thread and a worker.
* `ExitIsGraceful`: what `GracefulExit` excepts is an excuse that does not go away
  (`HandlerStays`, `ExcusedStays`). `GracefulInv` follows `stop` on each stack: its
  call (`StopCalled`), behind the joins (`AfterJoin`), behind its return
  (`AfterStop`), and says when `isRunning` may be false (`NotRunning`) and when a
  worker can still be accepted (`StillAccepting`). The joins leave no worker
  (`JoinLeavesNone`), and what starts one later is an excuse. A worker that runs and
  is no element of the vector is the one in `accepted` (`WorkersInv`), so that the signal
  inside `emplace_back`, where only the main thread ever is (`CutOffBase`), excuses this
  one alone.
* `SelfDeadlockNeedsSignal`: the mutex is held by a place on the thread's own stack
  (`MutexInv`). `log` and `updateClientActivity` call nothing while they hold theirs, so
  that only a handler lies upon them (`Covered`); above `checkClientTimeouts`, which
  logs, `clientsMutex` is wanted by a `stop` only, which a handler calls (`StopCalled`);
  and upon the end of a `stop` no second one gets as far (`SignalInv`).

### Assumptions on the constants

They are named in the modules, and TLC evaluates them in the runs.

* At least one request and one attempt (`NetworkAssumption`, `ClientAssumption`,
  `TCPClientAssumption`), natural bounds, known kinds of faults, and signals in the
  main thread's loop (`TCPServerAssumption`).
* `RequestsAssumption`, `SessionAssumption`: requests and lines are what the parser
  makes of what is typed, and the sizes are ordered as 2 < 6 and 6 <= 20 are.
* `WireFormatAssumption`: `Base` is even, as 256 is. `WireExchangeAssumption`:
  packet numbers do not wrap, a buffer of less than 2^24 bytes, so that the length
  of a cut-off graph is recognised, and a segment that is at least 20 bytes smaller
  than the buffer and than the largest datagram (1448, 4096 and 65507).
  `InputAssumption`: vertices are numbers that fit into a byte, as 20 do, and a
  graph is no longer than an int can count in bytes.
* `ServerProcessAssumption`: a natural number of signals, threads that are distinct.

### Only model-checked

* The liveness properties `EveryRequestEnds` (of three modules),
  `EveryRequestIsAnswered`, `StopWaitsOnlyForSilence`, `EveryRequestIsProcessed`,
  `OnlyTheEndSpins` and `StopEnds`: fairness is out of the prover's reach.
* `ReadersAgree`, on all files of the run: the readers are folds over the lines of a
  file, and what they compute for every file needs an induction over data, which
  none of the provers can instantiate.

## 5. Plan

Done: the exchange over UDP, the service over TCP, the shortest path, the client
session, graph files, the bytes, the process of the server; theorems for each invariant
and both refinements. What could follow:

1. `TCPService` as an abstraction of `ServerProcess`: both model `stop` and the workers, one
   with the clients' messages, the other with the stacks.
2. `RequestsSucceed` with lost answers: how many faults a request survives when the
   answer to a retransmission can stand in for a lost one.
3. Errors of `accept` that leave the connection in the backlog.

Not modelled:

* the older copy under `source/`, which no build file names;
* the build, the expect scripts and the log's text and levels;
* what nobody calls and no result depends on: `Dijkstra::findShortestPaths`,
  `Graph::getNeighbors`, `clear`, `isEmpty`, `Validator::isValidVertex`, `hasFileInput`, and
  `InputParser::readGraphFromFile` on lines that are not one pair;
* vertices below 0 and graphs beyond the range of an int, which no client of this
  repository sends;
* the terminal: prompts, `printUsage`, the layout of what is shown.

--------------------------- MODULE WireExchangeProofs ---------------------------
(***************************************************************************)
(* Theorems about WireExchange, for every size of a byte, of the buffer    *)
(* and of what a receive returns at once, any requests and any number of   *)
(* them.                                                                   *)
(*                                                                         *)
(* What a stream holds is never looked at byte by byte here: it is a frame *)
(* or a message with something behind it, or it is Broken, the rest of a   *)
(* graph that was cut short.  ExchangeInv says which of these is where at  *)
(* every place of the client and the server.                               *)
(***************************************************************************)
EXTENDS WireExchange, WireFormatProofs, SequenceTheorems

(***************************************************************************)
(* What the theorems take of Server::processRequest: a response is never   *)
(* cut short (a path has no more vertices than the graph, at most 20), and *)
(* all graphs of which an encoding longer than Whole may leave something   *)
(* are refused alike (more than 20 edges, error INVALID_REQUEST).          *)
(***************************************************************************)
Graphs == Seq(Int32 \X Int32)

TooMany(edges) == 8 * Len(edges) + 12 > Whole

ServerAnswers ==
    \A v \in ClientRequest, g \in Graphs :
        /\ ProcessRequest(v, g) \in ServerResponse
        /\ Len(ResponseToBytes(ProcessRequest(v, g))) <= Whole
        /\ \A h \in Graphs : TooMany(g) /\ TooMany(h) => ProcessRequest(v, g) = ProcessRequest(v, h)

(* A receive that is cut short returns a number of whole ints, as it does  *)
(* when TCP's segments hold a multiple of four bytes.                      *)
WholeInts == \A k \in Cuts : k % 4 = 0

-----------------------------------------------------------------------------
(***************************************************************************)
(* Streams of bytes.                                                       *)
(***************************************************************************)
LEMMA Pieces ==
    ASSUME NEW S, NEW s \in Seq(S), NEW n \in 0 .. Len(s)
    PROVE  /\ First(s, n) \in Seq(S) /\ Len(First(s, n)) = n
           /\ \A i \in 1 .. n : First(s, n)[i] = s[i]
           /\ Rest(s, n) \in Seq(S) /\ Len(Rest(s, n)) = Len(s) - n
           /\ \A i \in 1 .. Len(s) - n : Rest(s, n)[i] = s[n + i]
<1>1. Len(s) \in Nat /\ n \in Nat /\ n <= Len(s)
  BY LenProperties
<1>2. \A i \in 1 .. Len(s) : s[i] \in S
  BY <1>1, ElementOfSeq
<1>3. (\A i \in 1 .. n : s[i] \in S) /\ (\A i \in n + 1 .. Len(s) : s[i] \in S)
  BY <1>1, <1>2
<1>4. /\ First(s, n) \in Seq(S)
      /\ Len(First(s, n)) = IF 1 <= n THEN n - 1 + 1 ELSE 0
      /\ \A i \in 1 .. n - 1 + 1 : First(s, n)[i] = s[1 + i - 1]
  <2>1. 1 \in Int /\ n \in Int
    BY <1>1
  <2> QED BY <1>3, <2>1, SubSeqProperties DEF First
<1>5. /\ Rest(s, n) \in Seq(S)
      /\ Len(Rest(s, n)) = IF n + 1 <= Len(s) THEN Len(s) - (n + 1) + 1 ELSE 0
      /\ \A i \in 1 .. Len(s) - (n + 1) + 1 : Rest(s, n)[i] = s[(n + 1) + i - 1]
  <2>1. n + 1 \in Int /\ Len(s) \in Int
    BY <1>1
  <2> QED BY <1>3, <2>1, SubSeqProperties DEF Rest
<1>6. /\ n - 1 + 1 = n /\ Len(s) - (n + 1) + 1 = Len(s) - n
      /\ (IF 1 <= n THEN n - 1 + 1 ELSE 0) = n
      /\ (IF n + 1 <= Len(s) THEN Len(s) - (n + 1) + 1 ELSE 0) = Len(s) - n
      /\ \A i \in Int : 1 + i - 1 = i /\ (n + 1) + i - 1 = n + i
  BY <1>1
<1>7. \A i \in 1 .. n : First(s, n)[i] = s[i]
  <2> SUFFICES ASSUME NEW i \in 1 .. n PROVE First(s, n)[i] = s[i]
    OBVIOUS
  <2>1. First(s, n)[i] = s[1 + i - 1]
    BY <1>4, <1>6
  <2>2. 1 + i - 1 = i
    BY <1>1
  <2> QED BY <2>1, <2>2, Zenon
<1>8. \A i \in 1 .. Len(s) - n : Rest(s, n)[i] = s[n + i]
  <2> SUFFICES ASSUME NEW i \in 1 .. Len(s) - n PROVE Rest(s, n)[i] = s[n + i]
    OBVIOUS
  <2>1. Rest(s, n)[i] = s[(n + 1) + i - 1]
    BY <1>5, <1>6
  <2>2. (n + 1) + i - 1 = n + i
    BY <1>1
  <2> QED BY <2>1, <2>2, Zenon
<1>9. Len(First(s, n)) = n /\ Len(Rest(s, n)) = Len(s) - n
  BY <1>4, <1>5, <1>6, Zenon
<1> QED BY <1>4, <1>5, <1>7, <1>8, <1>9

(* A message is cut off where it ends.                                     *)
LEMMA CutMessage ==
    ASSUME NEW S, NEW s \in Seq(S), NEW t \in Seq(S)
    PROVE  First(s \o t, Len(s)) = s /\ Rest(s \o t, Len(s)) = t
<1>1. /\ s \o t \in Seq(S) /\ Len(s \o t) = Len(s) + Len(t)
      /\ \A i \in 1 .. Len(s) + Len(t) :
             (s \o t)[i] = IF i <= Len(s) THEN s[i] ELSE t[i - Len(s)]
  BY ConcatProperties
<1>2. Len(s) \in Nat /\ Len(t) \in Nat
  BY LenProperties
<1> DEFINE c == s \o t
<1>3. Len(s) \in 0 .. Len(c) /\ Len(c) - Len(s) = Len(t)
  BY <1>1, <1>2
<1>4. \A i \in 1 .. Len(s) : c[i] = s[i]
  BY <1>1, <1>2
<1>5. \A i \in 1 .. Len(t) : c[Len(s) + i] = t[i]
  BY <1>1, <1>2
<1>6. c \in Seq(S)
  BY <1>1
<1> HIDE DEF c
<1>7. /\ First(c, Len(s)) \in Seq(S) /\ Len(First(c, Len(s))) = Len(s)
      /\ \A i \in 1 .. Len(s) : First(c, Len(s))[i] = c[i]
      /\ Rest(c, Len(s)) \in Seq(S) /\ Len(Rest(c, Len(s))) = Len(t)
      /\ \A i \in 1 .. Len(t) : Rest(c, Len(s))[i] = c[Len(s) + i]
  <2> DEFINE n == Len(s)
  <2>1. n \in 0 .. Len(c) /\ Len(c) - n = Len(t)
    BY <1>3
  <2> HIDE DEF n
  <2>2. /\ First(c, n) \in Seq(S) /\ Len(First(c, n)) = n
        /\ \A i \in 1 .. n : First(c, n)[i] = c[i]
        /\ Rest(c, n) \in Seq(S) /\ Len(Rest(c, n)) = Len(c) - n
        /\ \A i \in 1 .. Len(c) - n : Rest(c, n)[i] = c[n + i]
    BY <1>6, <2>1, Pieces
  <2> QED BY <2>1, <2>2 DEF n
<1>8. First(c, Len(s)) = s
  BY <1>4, <1>7, SeqEqual
<1>9. Rest(c, Len(s)) = t
  BY <1>5, <1>7, SeqEqual
<1> QED BY <1>8, <1>9 DEF c

LEMMA CutAll ==
    ASSUME NEW S, NEW s \in Seq(S)
    PROVE  First(s, Len(s)) = s /\ Rest(s, Len(s)) = << >>
<1>1. s \o << >> = s /\ << >> \in Seq(S)
  BY ConcatEmptySeq, EmptySeq
<1> QED BY <1>1, CutMessage

(* Sizes.                                                                  *)
LEMMA Sizes ==
    /\ Base \in Nat /\ Base > 1 /\ Words \in Nat
    /\ BUFFER_SIZE \in Nat /\ Whole \in Nat /\ MaxDatagram \in Nat
    /\ BUFFER_SIZE < Words /\ BUFFER_SIZE < Words \div 2
    /\ Byte \subseteq Int32 /\ 0 \in Byte
    /\ Words \div 2 \in Nat /\ Words = 2 * (Words \div 2)
<1>1. /\ Base \in Nat /\ Base > 1 /\ BUFFER_SIZE < Base * (Base * Base)
      /\ BUFFER_SIZE \in Nat /\ Whole \in Nat /\ MaxDatagram \in Nat
  BY WireFormatAssumption, WireExchangeAssumption
<1>2. /\ Words \in Nat /\ Words \div 2 \in Nat /\ Words = 2 * (Words \div 2)
  BY WordsIsEven
<1> DEFINE c == Base * (Base * Base)
<1>3. c \in Nat /\ Words = Base * c
  BY <1>1 DEF Words
<1>4. Base - 1 < c
  <2>1. Base * Base >= Base
    BY <1>1
  <2>2. Base * Base \in Nat
    BY <1>1
  <2> HIDE DEF c
  <2>3. c >= Base * Base
    <3> DEFINE q == Base * Base
    <3>1. c = Base * q /\ q \in Nat
      BY <2>2 DEF c
    <3> HIDE DEF q
    <3>2. Base * q >= q
      BY <1>1, <3>1
    <3> QED BY <3>1, <3>2 DEF q
  <2> QED BY <1>1, <1>3, <2>1, <2>2, <2>3
<1>5. Base * c >= 2 * c
  <2> HIDE DEF c
  <2> QED BY <1>1, <1>3
<1> HIDE DEF c
<1>6. c <= Words \div 2
  BY <1>2, <1>3, <1>5
<1>7. BUFFER_SIZE < c
  BY <1>1 DEF c
<1>8. Byte \subseteq Int32 /\ 0 \in Byte
  BY <1>1, <1>2, <1>3, <1>4, <1>6 DEF Byte, Int32
<1> QED BY <1>1, <1>2, <1>3, <1>6, <1>7, <1>8

-----------------------------------------------------------------------------
(***************************************************************************)
(* The messages.                                                           *)
(***************************************************************************)
Vertices(r) == [start_node |-> r.start_node, end_node |-> r.end_node]

(* The vertices are 8 bytes, and arrive as they are.                       *)
LEMMA RequestFacts ==
    ASSUME NEW r \in Requests
    PROVE  /\ Vertices(r) \in ClientRequest
           /\ RequestToBytes(r) \in Seq(Byte) /\ Len(RequestToBytes(r)) = 8
           /\ RequestIsWhole(RequestToBytes(r))
           /\ BytesToRequest(RequestToBytes(r)) = Vertices(r)
<1>1. r.start_node \in Int32 /\ r.end_node \in Int32
  BY InputAssumption, Sizes
<1>2. Vertices(r) \in ClientRequest
  BY <1>1 DEF Vertices, ClientRequest
<1>3. RequestToBytes(r) = RequestToBytes(Vertices(r))
  BY DEF RequestToBytes, Vertices
<1>4. BytesToRequest(RequestToBytes(r)) = Vertices(r) /\ RequestIsWhole(RequestToBytes(r))
  BY <1>2, <1>3, RequestSurvives
<1>5. RequestToBytes(r) \in Seq(Byte) /\ Len(RequestToBytes(r)) = 8
  <2> DEFINE ints == <<r.start_node, r.end_node>>
  <2>1. ints \in Seq(Int32) /\ Len(ints) = 2
    BY <1>1
  <2> HIDE DEF ints
  <2>2. Flat(ints) \in Seq(Byte) /\ Len(Flat(ints)) = 4 * 2
    BY <2>1, FlatKeepsInts
  <2> QED BY <2>2 DEF RequestToBytes, ints
<1> QED BY <1>2, <1>4, <1>5

(* The ints of a graph.                                                    *)
LEMMA EdgeIntsFacts ==
    ASSUME NEW edges \in Seq(Byte \X Byte), 8 * Len(edges) + 12 < Words \div 2
    PROVE  LET ints == EdgeInts(edges) IN
           /\ ints \in Seq(Int32) /\ Len(ints) = 1 + 2 * Len(edges)
           /\ ints[1] = Len(edges)
           /\ \A i \in 2 .. 1 + 2 * Len(edges) : ints[i] \in Byte
<1> DEFINE ints == EdgeInts(edges)
           n    == Len(edges)
<1>1. n \in Nat /\ n \in Int32
  BY Sizes DEF Int32
<1>2. ints = [k \in 1 .. 1 + 2 * n |-> IF k = 1 THEN n ELSE edges[k \div 2][1 + (k % 2)]]
  BY DEF EdgeInts
<1>3. ASSUME NEW i \in 2 .. 1 + 2 * n PROVE edges[i \div 2][1 + (i % 2)] \in Byte
  <2>1. i \div 2 \in 1 .. n /\ (i % 2 = 0 \/ i % 2 = 1)
    BY <1>1
  <2>2. edges[i \div 2] \in Byte \X Byte
    BY <2>1
  <2>3. edges[i \div 2][1] \in Byte /\ edges[i \div 2][2] \in Byte
    BY <2>2
  <2> QED BY <2>1, <2>3
<1>4. \A i \in 2 .. 1 + 2 * n : ints[i] \in Byte
  BY <1>1, <1>2, <1>3
<1>5. ints[1] = n
  BY <1>1, <1>2
<1>6. \A i \in 1 .. 1 + 2 * n : ints[i] \in Int32
  BY <1>1, <1>4, <1>5, Sizes
<1>7. ints \in Seq(Int32) /\ Len(ints) = 1 + 2 * n
  BY <1>1, <1>2, <1>6
<1> QED BY <1>4, <1>5, <1>7

(* A small number is a byte and three zeros.                               *)
LEMMA SmallInt ==
    ASSUME NEW x \in Byte
    PROVE  Bytes(x)[2] = 0 /\ Bytes(x)[3] = 0 /\ Bytes(x)[4] = 0
<1>1. x \in Nat /\ x < Base /\ Base \in Nat /\ Base > 1
  BY Sizes DEF Byte
<1>2. x \div Base = 0 /\ 0 % Base = 0 /\ 0 \div Base = 0
  BY <1>1
<1>3. Bytes(x) = UnsignedBytes(x)
  BY <1>1 DEF Bytes
<1> QED BY <1>2, <1>3 DEF UnsignedBytes

(* What a graph that was cut short leaves in the stream: its first int is  *)
(* a vertex.                                                               *)
Broken(stream) == Len(stream) >= 4 /\ stream[2] = 0 /\ stream[3] = 0 /\ stream[4] = 0

LEMMA EdgesFacts ==
    ASSUME NEW r \in Requests
    PROVE  LET data == EdgesToBytes(r.edges) IN
           /\ r.edges \in Graphs
           /\ data \in Seq(Byte) /\ Len(data) = 4 + 8 * Len(r.edges)
           /\ Len(data) + 8 < Words \div 2
           /\ BytesToEdges(data) = r.edges
           /\ Len(data) > Whole => TooMany(r.edges)
<1> DEFINE edges == r.edges
           data  == EdgesToBytes(edges)
<1>1. edges \in Seq(Byte \X Byte) /\ 8 * Len(edges) + 12 < Words \div 2
  BY InputAssumption
<1>2. Len(edges) \in Nat
  BY <1>1
<1>3. edges \in Graphs
  <2>1. Byte \X Byte \subseteq Int32 \X Int32
    BY Sizes
  <2> QED BY <1>1, <2>1, SeqMonotonic DEF Graphs
<1> HIDE DEF edges
<1>4. EdgeInts(edges) \in Seq(Int32) /\ Len(EdgeInts(edges)) = 1 + 2 * Len(edges)
  BY <1>1, EdgeIntsFacts
<1>5. data \in Seq(Byte) /\ Len(data) = 4 * (1 + 2 * Len(edges))
  <2> DEFINE ints == EdgeInts(edges)
  <2>1. ints \in Seq(Int32) /\ Len(ints) = 1 + 2 * Len(edges)
    BY <1>4
  <2> HIDE DEF ints
  <2>2. Flat(ints) \in Seq(Byte) /\ Len(Flat(ints)) = 4 * Len(ints)
    BY <2>1, FlatKeepsInts
  <2> QED BY <2>1, <2>2 DEF EdgesToBytes, ints
<1>6. BytesToEdges(data) = edges
  <2>1. Len(edges) < Words \div 2
    BY <1>1, <1>2, Sizes
  <2> QED BY <1>3, <2>1, EdgesSurvive DEF Graphs
<1> HIDE DEF data
<1>7. Len(data) = 4 + 8 * Len(edges) /\ Len(data) + 8 < Words \div 2
  BY <1>1, <1>2, <1>5
<1>8. Len(data) > Whole => TooMany(edges)
  BY <1>2, <1>7, Sizes DEF TooMany
<1> QED BY <1>3, <1>5, <1>6, <1>7, <1>8 DEF data, edges

(* Of a graph that is cut short at k bytes, whole edges are decoded.       *)
LEMMA CutEdges ==
    ASSUME NEW r \in Requests, NEW k \in Nat, 12 <= k, Whole <= k,
           k < Len(EdgesToBytes(r.edges))
    PROVE  LET data  == EdgesToBytes(r.edges)
               graph1 == BytesToEdges(First(data, k))
           IN  /\ graph1 \in Graphs /\ TooMany(graph1)
               /\ k % 4 = 0 => Broken(Rest(data, k))
<1> DEFINE edges == r.edges
           data  == EdgesToBytes(edges)
           ints  == EdgeInts(edges)
           n     == Len(edges)
           part  == First(data, k)
           m     == (k - 4) \div 8
<1>1. edges \in Seq(Byte \X Byte) /\ 8 * Len(edges) + 12 < Words \div 2
  BY InputAssumption
<1>2. n \in Nat /\ data \in Seq(Byte) /\ Len(data) = 4 + 8 * n /\ Byte \subseteq Int32
  BY <1>1, EdgesFacts, Sizes
<1>3. /\ ints \in Seq(Int32) /\ Len(ints) = 1 + 2 * n /\ ints[1] = n
      /\ \A i \in 2 .. 1 + 2 * n : ints[i] \in Byte
  BY <1>1, EdgeIntsFacts
<1>4. /\ \A i \in 1 .. 1 + 2 * n : IntAt(data, i) = ints[i]
      /\ \A i \in 1 .. 1 + 2 * n : WordAt(data, i) = Bytes(ints[i])
  <2>1. data = Flat(ints)
    BY DEF EdgesToBytes
  <2> HIDE DEF ints, data
  <2>2. \A i \in 1 .. 1 + 2 * n : IntAt(data, i) = ints[i]
    BY <1>3, <2>1, FlatKeepsInts
  <2>3. ints \in Seq(Int) /\ \A i \in 1 .. Len(ints) :
            Bytes(ints[i]) \in Seq(Byte) /\ Len(Bytes(ints[i])) = 4
    <3>1. \A i \in 1 .. Len(ints) : ints[i] \in Int32
      BY <1>3, ElementOfSeq
    <3>2. Int32 \subseteq Int
      BY Sizes DEF Int32
    <3> QED BY <1>3, <3>1, <3>2, IntSurvives, SeqMonotonic
  <2>4. \A i \in 1 .. 1 + 2 * n : WordAt(data, i) = Bytes(ints[i])
    BY <1>3, <2>1, <2>3, FlatKeepsBytes
  <2> QED BY <2>2, <2>4
<1> HIDE DEF data, ints, n, edges
<1>5. /\ part \in Seq(Byte) /\ Len(part) = k
      /\ \A i \in 1 .. k : part[i] = data[i]
  <2>1. k \in 0 .. Len(data)
    BY <1>2 DEF data, edges
  <2> QED BY <1>2, <2>1, Pieces
<1>6. k < 4 + 8 * n
  BY <1>2 DEF data, edges
<1>7. m \in Nat /\ m < n /\ 8 * m + 12 > k /\ 4 + 8 * m <= k
  BY <1>2, <1>6
<1> HIDE DEF part, m
<1>8. ASSUME NEW i \in 1 .. 1 + 2 * m PROVE IntAt(part, i) = ints[i] /\ ints[i] \in Int32
  <2>1. i \in 1 .. 1 + 2 * n /\ 4 * i <= k /\ i \in Nat
    BY <1>2, <1>7
  <2>2. 4 * i - 3 \in 1 .. k /\ 4 * i - 2 \in 1 .. k /\ 4 * i - 1 \in 1 .. k /\ 4 * i \in 1 .. k
    BY <2>1
  <2>3. WordAt(part, i) = WordAt(data, i)
    BY <1>5, <2>2 DEF WordAt
  <2>4. IntAt(part, i) = ints[i]
    BY <1>4, <2>1, <2>3 DEF IntAt
  <2> QED BY <1>3, <2>1, <2>4, ElementOfSeq
<1>9. EdgesRead(part) = m
  <2>1. IntAt(part, 1) = n
    BY <1>3, <1>7, <1>8
  <2>2. (Len(part) - 4) \div 8 = m
    BY <1>5 DEF m
  <2> QED BY <1>2, <1>7, <2>1, <2>2 DEF EdgesRead
<1>10. BytesToEdges(part) \in Graphs /\ Len(BytesToEdges(part)) = m
  <2>1. BytesToEdges(part) = [j \in 1 .. m |-> <<IntAt(part, 2 * j), IntAt(part, 2 * j + 1)>>]
    BY <1>9 DEF BytesToEdges
  <2>2. ASSUME NEW j \in 1 .. m PROVE IntAt(part, 2 * j) \in Int32 /\ IntAt(part, 2 * j + 1) \in Int32
    <3>1. 2 * j \in 1 .. 1 + 2 * m /\ 2 * j + 1 \in 1 .. 1 + 2 * m
      BY <1>7
    <3> QED BY <1>8, <3>1
  <2>3. \A j \in 1 .. m : <<IntAt(part, 2 * j), IntAt(part, 2 * j + 1)>> \in Int32 \X Int32
    BY <2>2
  <2> QED BY <1>7, <2>1, <2>3 DEF Graphs
<1>11. TooMany(BytesToEdges(part))
  BY <1>7, <1>10, Sizes DEF TooMany
<1>12. ASSUME k % 4 = 0 PROVE Broken(Rest(data, k))
  <2> DEFINE i == k \div 4 + 1
  <2>1. i \in 2 .. 1 + 2 * n /\ 4 * i = k + 4 /\ k + 4 <= Len(data)
    BY <1>2, <1>6, <1>12
  <2>2. ints[i] \in Byte /\ WordAt(data, i) = Bytes(ints[i])
    BY <1>2, <1>3, <1>4, <2>1
  <2> HIDE DEF i
  <2>3. WordAt(data, i)[2] = 0 /\ WordAt(data, i)[3] = 0 /\ WordAt(data, i)[4] = 0
    BY <2>2, SmallInt
  <2>4. data[4 * i - 2] = 0 /\ data[4 * i - 1] = 0 /\ data[4 * i] = 0
    BY <2>3 DEF WordAt
  <2>5. k \in 0 .. Len(data) /\ Len(data) - k \in Nat /\ Len(data) - k >= 4
    BY <1>2, <2>1
  <2>6. /\ Len(Rest(data, k)) = Len(data) - k
        /\ \A j \in 1 .. Len(data) - k : Rest(data, k)[j] = data[k + j]
    BY <1>2, <2>5, Pieces
  <2>7. k + 2 = 4 * i - 2 /\ k + 3 = 4 * i - 1 /\ k + 4 = 4 * i
    BY <2>1
  <2>8. Rest(data, k)[2] = data[k + 2] /\ Rest(data, k)[3] = data[k + 3] /\ Rest(data, k)[4] = data[k + 4]
    BY <2>5, <2>6
  <2> QED BY <2>4, <2>5, <2>6, <2>7, <2>8 DEF Broken
<1> QED BY <1>10, <1>11, <1>12 DEF part, data, edges

(* The first bytes of two messages, as far as they reach into the second.  *)
LEMMA CutLater ==
    ASSUME NEW S, NEW s \in Seq(S), NEW t \in Seq(S), NEW n \in 0 .. Len(t)
    PROVE  /\ First(t, n) \in Seq(S) /\ Len(First(t, n)) = n
           /\ First(s \o t, Len(s) + n) = s \o First(t, n)
<1>1. /\ s \o t \in Seq(S) /\ Len(s \o t) = Len(s) + Len(t)
      /\ \A i \in 1 .. Len(s) + Len(t) :
             (s \o t)[i] = IF i <= Len(s) THEN s[i] ELSE t[i - Len(s)]
  BY ConcatProperties
<1>2. Len(s) \in Nat /\ Len(t) \in Nat /\ n \in Nat /\ n <= Len(t)
  BY LenProperties
<1> DEFINE c == s \o t
           f == First(t, n)
           m == Len(s) + n
<1>3. f \in Seq(S) /\ Len(f) = n /\ \A i \in 1 .. n : f[i] = t[i]
  BY Pieces
<1>4. /\ s \o f \in Seq(S) /\ Len(s \o f) = Len(s) + n
      /\ \A i \in 1 .. Len(s) + n :
             (s \o f)[i] = IF i <= Len(s) THEN s[i] ELSE f[i - Len(s)]
  <2> HIDE DEF f
  <2> QED BY <1>3, ConcatProperties
<1>5. c \in Seq(S) /\ m \in 0 .. Len(c)
  BY <1>1, <1>2
<1> HIDE DEF c, m
<1>6. First(c, m) \in Seq(S) /\ Len(First(c, m)) = m /\ \A i \in 1 .. m : First(c, m)[i] = c[i]
  BY <1>5, Pieces
<1>7. ASSUME NEW i \in 1 .. m PROVE c[i] = (s \o f)[i]
  <2>1. i \in 1 .. Len(s) + n /\ i \in 1 .. Len(s) + Len(t)
    BY <1>2 DEF m
  <2>2. c[i] = IF i <= Len(s) THEN s[i] ELSE t[i - Len(s)]
    BY <1>1, <2>1 DEF c
  <2>3. (s \o f)[i] = IF i <= Len(s) THEN s[i] ELSE f[i - Len(s)]
    BY <1>4, <2>1
  <2> HIDE DEF f
  <2>4. CASE i <= Len(s)
    BY <2>2, <2>3, <2>4
  <2>5. CASE ~ (i <= Len(s))
    <3>1. i - Len(s) \in 1 .. n
      BY <1>2, <2>1, <2>5
    <3>2. f[i - Len(s)] = t[i - Len(s)]
      BY <1>3, <3>1
    <3> QED BY <2>2, <2>3, <2>5, <3>2
  <2> QED BY <2>4, <2>5
<1>8. First(c, m) = s \o f
  <2>1. Len(s \o f) = m
    BY <1>4 DEF m
  <2>2. \A i \in 1 .. m : First(c, m)[i] = (s \o f)[i]
    BY <1>6, <1>7
  <2> DEFINE x == First(c, m)
             y == s \o f
  <2>3. x \in Seq(S) /\ y \in Seq(S) /\ Len(x) = Len(y) /\ \A i \in 1 .. Len(x) : x[i] = y[i]
    BY <1>4, <1>6, <2>1, <2>2
  <2> HIDE DEF x, y
  <2>4. x = y
    BY <2>3, SeqEqual
  <2> QED BY <2>4 DEF x, y
<1> QED BY <1>3, <1>8 DEF c, m

(* Four bytes in reverse order are bytes.                                  *)
LEMMA ReverseFour ==
    ASSUME NEW b \in Seq(Byte), Len(b) = 4
    PROVE  Reverse(b) \in Seq(Byte)
<1>1. Reverse(b) = [i \in 1 .. 4 |-> b[(4 - i) + 1]]
  BY DEF Reverse
<1>2. \A i \in 1 .. 4 : (4 - i) + 1 \in 1 .. Len(b)
  OBVIOUS
<1>3. \A i \in 1 .. 4 : b[(4 - i) + 1] \in Byte
  BY <1>2, ElementOfSeq
<1> QED BY <1>1, <1>3

(* A frame: the length prefix, then the message.                           *)
LEMMA FrameFacts ==
    ASSUME NEW data \in Seq(Byte), Len(data) < Words, NEW t \in Seq(Byte)
    PROVE  /\ Frame(data) \in Seq(Byte)
           /\ Frame(data) \o t \in Seq(Byte) /\ Len(Frame(data) \o t) >= 4
           /\ NetworkSize(Frame(data) \o t) = Len(data)
           /\ Ntohl(First(Frame(data) \o t, 4)) = Len(data)
           /\ Rest(Frame(data) \o t, 4) = data \o t
<1> DEFINE n == Len(data)
           b == UnsignedBytes(n)
           h == Htonl(n)
<1>1. n \in 0 .. Words - 1
  BY LenProperties, Sizes
<1> HIDE DEF n
<1>2. b \in Seq(Byte) /\ Len(b) = 4
  BY <1>1, Digits
<1>3. Ntohl(h) = n /\ Len(h) = 4
  BY <1>1, PrefixSurvives
<1>15. h = Reverse(b)
  BY DEF Htonl
<1> HIDE DEF b
<1>4. h \in Seq(Byte)
  BY <1>2, <1>15, ReverseFour
<1> HIDE DEF h
<1>5. Frame(data) = h \o data
  BY DEF Frame, h, n
<1>6. data \o t \in Seq(Byte) /\ h \o data \in Seq(Byte) /\ (h \o data) \o t \in Seq(Byte)
  BY <1>4, ConcatProperties
<1>7. (h \o data) \o t = h \o (data \o t)
  BY <1>4, ConcatAssociative
<1> DEFINE rest == data \o t
<1>8. rest \in Seq(Byte)
  BY <1>6
<1> HIDE DEF rest
<1>9. First(h \o rest, 4) = h /\ Rest(h \o rest, 4) = rest
  <2>1. First(h \o rest, Len(h)) = h /\ Rest(h \o rest, Len(h)) = rest
    BY <1>4, <1>8, CutMessage
  <2> QED BY <1>3, <2>1, Zenon
<1>10. Len(h \o rest) >= 4
  <2>1. Len(h \o rest) = Len(h) + Len(rest) /\ Len(rest) \in Nat
    BY <1>4, <1>8, ConcatProperties, LenProperties
  <2> QED BY <1>3, <2>1
<1>11. Frame(data) \o t = h \o rest
  BY <1>5, <1>7, Zenon DEF rest
<1>12. First(Frame(data) \o t, 4) = h /\ Rest(Frame(data) \o t, 4) = rest /\ Len(Frame(data) \o t) >= 4
  BY <1>9, <1>10, <1>11, Zenon
<1>13. Ntohl(First(Frame(data) \o t, 4)) = Len(data)
  BY <1>3, <1>12, Zenon DEF n
<1>14. Frame(data) \in Seq(Byte) /\ Frame(data) \o t \in Seq(Byte)
  BY <1>5, <1>6, Zenon
<1> QED BY <1>12, <1>13, <1>14, Zenon DEF NetworkSize, rest

(* A frame alone in the stream.                                            *)
LEMMA FrameAlone ==
    ASSUME NEW data \in Seq(Byte), Len(data) < Words
    PROVE  /\ Frame(data) \in Seq(Byte) /\ Len(Frame(data)) >= 4
           /\ NetworkSize(Frame(data)) = Len(data)
           /\ Ntohl(First(Frame(data), 4)) = Len(data)
           /\ Rest(Frame(data), 4) = data
<1>1. << >> \in Seq(Byte)
  BY EmptySeq
<1>2. /\ Frame(data) \in Seq(Byte)
      /\ Len(Frame(data) \o << >>) >= 4
      /\ NetworkSize(Frame(data) \o << >>) = Len(data)
      /\ Ntohl(First(Frame(data) \o << >>, 4)) = Len(data)
      /\ Rest(Frame(data) \o << >>, 4) = data \o << >>
  BY <1>1, FrameFacts
<1>3. Frame(data) \o << >> = Frame(data) /\ data \o << >> = data
  BY <1>2, ConcatEmptySeq
<1> QED BY <1>2, <1>3, Zenon

(* The rest of a graph is no frame: read as a length prefix, its first     *)
(* bytes are 0 or more than the buffer holds.                              *)
LEMMA BrokenFacts ==
    ASSUME NEW s \in Seq(Byte), Broken(s)
    PROVE  /\ s # << >>
           /\ NetworkSize(s) = 0 \/ TooLarge(NetworkSize(s))
           /\ Rest(s, 4) \in Seq(Byte)
           /\ \A t \in Seq(Byte) : s \o t \in Seq(Byte) /\ Broken(s \o t)
<1>1. Len(s) >= 4 /\ s[2] = 0 /\ s[3] = 0 /\ s[4] = 0 /\ Len(s) \in Nat
  BY LenProperties DEF Broken
<1>2. s[1] \in Byte
  BY <1>1, ElementOfSeq
<1> DEFINE f == First(s, 4)
<1>3. /\ f \in Seq(Byte) /\ Len(f) = 4 /\ \A i \in 1 .. 4 : f[i] = s[i]
      /\ Rest(s, 4) \in Seq(Byte)
  <2>1. 4 \in 0 .. Len(s)
    BY <1>1
  <2> QED BY <2>1, Pieces
<1> HIDE DEF f
<1>4. Reverse(f) = [i \in 1 .. 4 |-> f[(4 - i) + 1]]
  BY <1>3 DEF Reverse
<1>5. Reverse(f)[1] = 0 /\ Reverse(f)[2] = 0 /\ Reverse(f)[3] = 0 /\ Reverse(f)[4] = s[1]
  BY <1>1, <1>3, <1>4
<1>6. NetworkSize(s) = 0 + Base * (0 + Base * (0 + Base * s[1]))
  BY <1>5, Zenon DEF NetworkSize, Ntohl, Unsigned, f
<1>7. NetworkSize(s) = 0 \/ TooLarge(NetworkSize(s))
  <2>1. Base \in Nat /\ Base > 1 /\ s[1] \in Nat
    BY <1>2, Sizes DEF Byte
  <2> DEFINE x == s[1]
  <2>2. NetworkSize(s) = Base * (Base * (Base * x)) /\ x \in Nat
    BY <1>6, <2>1
  <2>3. CASE x = 0
    BY <2>1, <2>2, <2>3
  <2>4. CASE x # 0
    <3>1. x >= 1
      BY <2>2, <2>4
    <3> HIDE DEF x
    <3>2. Base * x >= Base /\ Base * x \in Nat
      BY <2>1, <2>2, <3>1
    <3> DEFINE y == Base * x
               z == Base * y
    <3>3. y >= Base /\ y \in Nat
      BY <3>2
    <3> HIDE DEF y
    <3>4. z >= Base * Base /\ z \in Nat /\ Base * Base \in Nat
      BY <2>1, <3>3
    <3> HIDE DEF z
    <3> DEFINE q == Base * Base
    <3>5. q \in Nat /\ z >= q
      BY <3>4
    <3> HIDE DEF q
    <3>6. Base * z >= Base * q /\ Base * z \in Nat /\ Base * q \in Nat
      BY <2>1, <3>4, <3>5
    <3>7. NetworkSize(s) = Base * z
      BY <2>2 DEF z, y
    <3>8. BUFFER_SIZE < Base * q /\ BUFFER_SIZE \in Nat
      BY WireExchangeAssumption DEF q
    <3> QED BY <3>6, <3>7, <3>8 DEF TooLarge
  <2> QED BY <2>3, <2>4
<1>8. ASSUME NEW t \in Seq(Byte) PROVE s \o t \in Seq(Byte) /\ Broken(s \o t)
  <2>1. /\ s \o t \in Seq(Byte) /\ Len(s \o t) = Len(s) + Len(t)
        /\ \A i \in 1 .. Len(s) + Len(t) :
               (s \o t)[i] = IF i <= Len(s) THEN s[i] ELSE t[i - Len(s)]
    BY ConcatProperties
  <2>2. Len(t) \in Nat
    BY LenProperties
  <2> QED BY <1>1, <2>1, <2>2 DEF Broken
<1>9. s # << >>
  BY <1>1
<1> QED BY <1>3, <1>7, <1>8, <1>9

(* A response is three ints and one for each vertex of the path.           *)
LEMMA ResponseLength ==
    ASSUME NEW r \in ServerResponse
    PROVE  Len(ResponseToBytes(r)) = 4 * (3 + Len(r.path))
<1> DEFINE data == ResponseToBytes(r)
           n    == Len(r.path)
           ints == <<r.error_code, r.path_length, n>> \o r.path
<1>1. n \in Nat /\ n \in Int /\ r.path \in Seq(Int32)
  BY LenProperties DEF ServerResponse
<1>2. Len(ints) = 3 + n
  BY <1>1
<1>3. data = Flat(ints)
  BY DEF ResponseToBytes
<1>4. Len(data) = 4 * (3 + n)
  <2> HIDE DEF ints, n
  <2> DEFINE m == 4 * Len(ints)
             at(k) == Bytes(ints[(k + 3) \div 4])[((k - 1) % 4) + 1]
             F == [k \in 1 .. m |-> at(k)]
  <2>1. m \in Nat
    BY <1>1, <1>2
  <2>2. Flat(ints) = F
    BY DEF Flat
  <2> HIDE DEF m, at
  <2>3. F \in Seq({at(k) : k \in 1 .. m})
    BY <2>1
  <2>4. DOMAIN F = 1 .. m
    OBVIOUS
  <2>5. Len(F) = m
    <3> HIDE DEF F
    <3> QED BY <2>1, <2>3, <2>4, LenProperties
  <2> HIDE DEF F, data
  <2>6. Len(data) = 4 * Len(ints)
    BY <1>3, <2>2, <2>5, Zenon DEF m
  <2> QED BY <1>2, <2>6
<1> QED BY <1>4

(* An answer is received at once, is whole, and is decoded as it was.      *)
LEMMA AnswerFacts ==
    ASSUME ServerAnswers, NEW v \in ClientRequest, NEW g \in Graphs
    PROVE  LET r    == ProcessRequest(v, g)
               data == ResponseToBytes(r)
           IN  /\ r \in ServerResponse
               /\ data \in Seq(Byte) /\ Len(data) \in 12 .. Whole /\ Len(data) < Words
               /\ ~ TooLarge(Len(data))
               /\ ResponseIsWhole(data) /\ BytesToResponse(data) = r
<1> DEFINE r    == ProcessRequest(v, g)
           data == ResponseToBytes(r)
           n    == Len(r.path)
           ints == <<r.error_code, r.path_length, n>> \o r.path
<1>1. r \in ServerResponse /\ Len(data) <= Whole
  BY DEF ServerAnswers
<1> HIDE DEF r
<1>2. r.path \in Seq(Int32) /\ r.error_code \in Int32 /\ r.path_length \in Int32
  BY <1>1 DEF ServerResponse
<1>3. n \in Nat /\ n \in Int
  BY <1>2, LenProperties
<1>4. Len(ints) = 3 + n
  BY <1>2, <1>3
<1>5. data = Flat(ints)
  BY DEF ResponseToBytes
<1>6. Len(data) = 4 * (3 + n)
  BY <1>1, ResponseLength
<1> HIDE DEF n
<1>7. n < Words \div 2 /\ n \in Int32
  <2>1. Len(data) <= Whole /\ Whole + 20 <= BUFFER_SIZE
    BY <1>1, WireExchangeAssumption
  <2> HIDE DEF data
  <2>2. Len(data) = 4 * (3 + n)
    BY <1>6
  <2> QED BY <1>3, <2>1, <2>2, Sizes DEF Int32
<1>8. ints \in Seq(Int32)
  <2>1. <<r.error_code, r.path_length, n>> \in Seq(Int32)
    BY <1>2, <1>7
  <2> QED BY <1>2, <2>1, ConcatProperties
<1>9. data \in Seq(Byte)
  <2> HIDE DEF ints, data
  <2> QED BY <1>5, <1>8, FlatKeepsInts
<1>10. ResponseIsWhole(data) /\ BytesToResponse(data) = r
  <2> HIDE DEF data
  <2>1. ResponseIsWhole(ResponseToBytes(r)) /\ BytesToResponse(ResponseToBytes(r)) = r
    BY <1>1, <1>7, ResponseSurvives DEF n
  <2> QED BY <2>1 DEF data
<1> HIDE DEF data
<1>11. /\ Len(data) \in 12 .. Whole /\ Len(data) < Words
       /\ ~ TooLarge(Len(data))
  BY <1>1, <1>3, <1>6, Sizes, WireExchangeAssumption DEF TooLarge
<1> QED BY <1>1, <1>9, <1>10, <1>11 DEF data, r

(* What is read of a packet: its payload, or what the buffer holds of it.  *)
LEMMA PacketFacts ==
    ASSUME NEW id \in 0 .. Words - 1, NEW payload \in Seq(Byte), Len(payload) < Words
    PROVE  LET packet == CreateDataPacket(id, payload) IN
           /\ packet \in Seq(Byte) /\ packet # << >>
           /\ Len(packet) = 12 + Len(payload)
           /\ Len(packet) <= BUFFER_SIZE => ParsePacket(Buffered(packet)).payload = payload
           /\ Len(packet) > BUFFER_SIZE =>
                  ParsePacket(Buffered(packet)).payload = First(payload, BUFFER_SIZE - 12)
<1> DEFINE packet == CreateDataPacket(id, payload)
           h      == Header(PACKET_DATA, id, Len(payload))
<1>1. h \in Seq(Byte) /\ Len(h) = 12
  <2>1. Len(payload) \in 0 .. Words - 1
    BY LenProperties, Sizes
  <2>2. PACKET_DATA \in Byte
    BY Sizes DEF PACKET_DATA
  <2> DEFINE n == Len(payload)
  <2> HIDE DEF n
  <2>3. n \in 0 .. Words - 1
    BY <2>1 DEF n
  <2>4. Header(PACKET_DATA, id, n) \in Seq(Byte) /\ Len(Header(PACKET_DATA, id, n)) = 12
    BY <2>2, <2>3, HeaderWords
  <2> QED BY <2>4 DEF n
<1>2. packet = h \o payload
  BY DEF CreateDataPacket
<1> HIDE DEF packet, h
<1>3. /\ packet \in Seq(Byte) /\ Len(packet) = 12 + Len(payload)
      /\ Len(payload) \in Nat
  <2>1. h \o payload \in Seq(Byte) /\ Len(h \o payload) = Len(h) + Len(payload)
    BY <1>1, ConcatProperties
  <2>2. Len(payload) \in Nat
    BY LenProperties
  <2> QED BY <1>1, <1>2, <2>1, <2>2, Zenon
<1>4. packet # << >>
  BY <1>3
<1>5. ASSUME NEW q \in Seq(Byte) PROVE ParsePacket(h \o q).payload = q
  <2>1. Rest(h \o q, Len(h)) = q
    BY <1>1, CutMessage
  <2>2. Len(h \o q) = Len(h) + Len(q) /\ Len(q) \in Nat
    BY <1>1, ConcatProperties, LenProperties
  <2>3. ~ (Len(h \o q) < 12)
    BY <1>1, <2>2
  <2>4. ParsePacket(h \o q).payload = SubSeq(h \o q, 13, Len(h \o q))
    BY <2>3 DEF ParsePacket
  <2>5. Rest(h \o q, 12) = SubSeq(h \o q, 12 + 1, Len(h \o q)) /\ 12 + 1 = 13
    BY DEF Rest
  <2> QED BY <1>1, <2>1, <2>4, <2>5, Zenon
<1>6. ASSUME Len(packet) <= BUFFER_SIZE PROVE ParsePacket(Buffered(packet)).payload = payload
  <2>1. Buffered(packet) = packet
    BY <1>3, <1>6, Sizes DEF Buffered
  <2> QED BY <1>2, <1>5, <2>1
<1>7. ASSUME Len(packet) > BUFFER_SIZE
      PROVE  ParsePacket(Buffered(packet)).payload = First(payload, BUFFER_SIZE - 12)
  <2> DEFINE n == BUFFER_SIZE - 12
  <2>1. n \in 0 .. Len(payload) /\ 12 + n = BUFFER_SIZE
    BY <1>3, <1>7, Sizes, WireExchangeAssumption
  <2> HIDE DEF n
  <2>2. First(payload, n) \in Seq(Byte) /\ First(h \o payload, Len(h) + n) = h \o First(payload, n)
    <3>1. h \in Seq(Byte) /\ n \in 0 .. Len(payload)
      BY <1>1, <2>1, Zenon
    <3> QED BY <3>1, CutLater
  <2>3. Buffered(packet) = First(packet, BUFFER_SIZE)
    BY <1>7 DEF Buffered
  <2>4. Buffered(packet) = h \o First(payload, n)
    BY <1>1, <1>2, <2>1, <2>2, <2>3, Zenon
  <2>5. ParsePacket(h \o First(payload, n)).payload = First(payload, n)
    BY <1>5, <2>2
  <2> QED BY <2>4, <2>5, Zenon DEF n
<1> QED BY <1>3, <1>4, <1>6, <1>7 DEF packet

(* The vertices and the edges of a request in one payload.                 *)
LEMMA PayloadFacts ==
    ASSUME NEW r \in Requests
    PROVE  LET edges == EdgesToBytes(r.edges) IN
           /\ Payload(r) \in Seq(Byte) /\ Len(Payload(r)) = 8 + Len(edges)
           /\ Len(Payload(r)) + 12 < Words
           /\ \A n \in 0 .. Len(edges) :
                  /\ BytesToRequest(First(First(Payload(r), 8 + n), 8)) = Vertices(r)
                  /\ Rest(First(Payload(r), 8 + n), 8) = First(edges, n)
                  /\ Len(First(Payload(r), 8 + n)) = 8 + n
           /\ BytesToRequest(First(Payload(r), 8)) = Vertices(r)
           /\ Rest(Payload(r), 8) = edges
<1> DEFINE edges == EdgesToBytes(r.edges)
           ends  == RequestToBytes(r)
<1>1. edges \in Seq(Byte) /\ Len(edges) \in Nat /\ Len(edges) + 8 < Words \div 2
  <2>1. edges \in Seq(Byte) /\ Len(edges) + 8 < Words \div 2
    BY EdgesFacts
  <2> HIDE DEF edges
  <2> QED BY <2>1, LenProperties
<1>2. ends \in Seq(Byte) /\ Len(ends) = 8 /\ BytesToRequest(ends) = Vertices(r)
  BY RequestFacts
<1>3. Payload(r) = ends \o edges
  BY DEF Payload, RequestToBytes
<1> HIDE DEF edges, ends
<1>4. Payload(r) \in Seq(Byte) /\ Len(Payload(r)) = 8 + Len(edges)
  <2>1. ends \o edges \in Seq(Byte) /\ Len(ends \o edges) = Len(ends) + Len(edges)
    BY <1>1, <1>2, ConcatProperties
  <2> QED BY <1>2, <1>3, <2>1, Zenon
<1>5. Len(Payload(r)) + 12 < Words
  <2>1. Words = 2 * (Words \div 2) /\ Words \div 2 \in Nat /\ Words \div 2 > 12
    BY Sizes, WireExchangeAssumption
  <2> QED BY <1>1, <1>4, <2>1
<1>6. ASSUME NEW q \in Seq(Byte)
      PROVE  First(ends \o q, 8) = ends /\ Rest(ends \o q, 8) = q /\ Len(ends \o q) = 8 + Len(q)
  <2>1. First(ends \o q, Len(ends)) = ends /\ Rest(ends \o q, Len(ends)) = q
    BY <1>2, CutMessage
  <2>2. Len(ends \o q) = Len(ends) + Len(q)
    BY <1>2, ConcatProperties
  <2> QED BY <1>2, <2>1, <2>2, Zenon
<1>7. ASSUME NEW n \in 0 .. Len(edges)
      PROVE  /\ BytesToRequest(First(First(Payload(r), 8 + n), 8)) = Vertices(r)
             /\ Rest(First(Payload(r), 8 + n), 8) = First(edges, n)
             /\ Len(First(Payload(r), 8 + n)) = 8 + n
  <2>1. /\ First(edges, n) \in Seq(Byte) /\ Len(First(edges, n)) = n
        /\ First(ends \o edges, Len(ends) + n) = ends \o First(edges, n)
    <3>1. edges \in Seq(Byte) /\ ends \in Seq(Byte)
      BY <1>1, <1>2
    <3> QED BY <3>1, CutLater
  <2>2. First(Payload(r), 8 + n) = ends \o First(edges, n)
    BY <1>2, <1>3, <2>1, Zenon
  <2> DEFINE q == First(edges, n)
  <2>3. q \in Seq(Byte) /\ Len(q) = n
    BY <2>1
  <2> HIDE DEF q
  <2>4. First(ends \o q, 8) = ends /\ Rest(ends \o q, 8) = q /\ Len(ends \o q) = 8 + Len(q)
    BY <1>6, <2>3
  <2> QED BY <1>2, <2>2, <2>3, <2>4, Zenon DEF q
<1>8. BytesToRequest(First(Payload(r), 8)) = Vertices(r) /\ Rest(Payload(r), 8) = edges
  BY <1>1, <1>2, <1>3, <1>6
<1> QED BY <1>4, <1>5, <1>7, <1>8 DEF edges

(* A message that is never cut short is received alone and whole.          *)
LEMMA TakesMessage ==
    ASSUME NEW data \in Seq(Byte), Len(data) <= Whole, NEW more \in Seq(Byte),
           NEW n \in Arrived(data \o more, Len(data))
    PROVE  First(data \o more, n) = data /\ Rest(data \o more, n) = more
<1>1. Len(data \o more) = Len(data) + Len(more)
  BY ConcatProperties
<1>2. Len(data) \in Nat /\ Len(more) \in Nat
  BY LenProperties
<1>3. n = Len(data)
  <2> DEFINE d == Len(data)
             s == data \o more
  <2>1. ~ (Len(s) < d)
    BY <1>1, <1>2
  <2>2. n \in {d} \cup {k \in Cuts : Whole <= k /\ k < d}
    BY <2>1 DEF Arrived
  <2>3. ASSUME NEW k \in Cuts, Whole <= k, k < d PROVE FALSE
    <3>1. k \in Nat /\ Whole \in Nat
      BY WireExchangeAssumption
    <3> QED BY <1>2, <2>3, <3>1
  <2> QED BY <2>2, <2>3
<1>4. First(data \o more, Len(data)) = data /\ Rest(data \o more, Len(data)) = more
  BY CutMessage
<1> QED BY <1>3, <1>4, Zenon

(* Of the edges the server receives all, or so many that the answer is the *)
(* same and something that is no frame is left.                            *)
LEMMA TakesEdges ==
    ASSUME ServerAnswers, WholeInts, NEW r \in Requests,
           NEW n \in Arrived(EdgesToBytes(r.edges), Len(EdgesToBytes(r.edges)))
    PROVE  LET data == EdgesToBytes(r.edges)
               part == BytesToEdges(First(data, n))
           IN  /\ n \in Nat /\ ~ (n < 4)
               /\ part \in Graphs
               /\ ProcessRequest(Vertices(r), part) = ProcessRequest(Vertices(r), r.edges)
               /\ Rest(data, n) \in Seq(Byte)
               /\ Rest(data, n) = << >> \/ (Len(data) > Whole /\ Broken(Rest(data, n)))
<1> DEFINE data == EdgesToBytes(r.edges)
           part == BytesToEdges(First(data, n))
<1>1. /\ r.edges \in Graphs /\ data \in Seq(Byte) /\ BytesToEdges(data) = r.edges
      /\ Len(data) = 4 + 8 * Len(r.edges)
      /\ Len(data) > Whole => TooMany(r.edges)
  BY EdgesFacts
<1>2. Len(r.edges) \in Nat /\ Len(data) \in Nat /\ Len(data) >= 4
  <2>1. Len(r.edges) \in Nat
    BY <1>1, LenProperties DEF Graphs
  <2> HIDE DEF data
  <2> QED BY <1>1, <2>1
<1>3. n = Len(data) \/ (n \in Cuts /\ Whole <= n /\ n < Len(data))
  <2> HIDE DEF data
  <2>1. n \in Arrived(data, Len(data))
    BY DEF data
  <2> QED BY <1>2, <2>1 DEF Arrived
<1>4. CASE n = Len(data)
  <2>1. First(data, n) = data /\ Rest(data, n) = << >>
    <3> HIDE DEF data
    <3> QED BY <1>1, <1>4, CutAll
  <2>2. n \in Nat /\ ~ (n < 4)
    BY <1>2, <1>4
  <2>3. part = r.edges
    BY <1>1, <2>1, Zenon
  <2>4. << >> \in Seq(Byte)
    BY EmptySeq
  <2> QED BY <1>1, <2>1, <2>2, <2>3, <2>4, Zenon
<1>5. CASE n # Len(data)
  <2>1. n \in Cuts /\ Whole <= n /\ n < Len(data)
    BY <1>3, <1>5
  <2>2. n \in Nat /\ n % 4 = 0 /\ 12 <= n /\ ~ (n < 4) /\ Len(data) > Whole /\ n \in 0 .. Len(data)
    <3> HIDE DEF data
    <3> QED BY <1>2, <2>1, WireExchangeAssumption DEF WholeInts
  <2>3. part \in Graphs /\ TooMany(part) /\ Broken(Rest(data, n))
    BY <2>1, <2>2, CutEdges
  <2>4. Rest(data, n) \in Seq(Byte)
    <3> HIDE DEF data
    <3> QED BY <1>1, <2>2, Pieces
  <2>5. Vertices(r) \in ClientRequest
    BY RequestFacts
  <2> HIDE DEF part, data
  <2>6. ProcessRequest(Vertices(r), part) = ProcessRequest(Vertices(r), r.edges)
    BY <1>1, <2>2, <2>3, <2>5, Zenon DEF ServerAnswers
  <2> QED BY <2>2, <2>3, <2>4, <2>6 DEF part, data
<1> QED BY <1>4, <1>5

(* Of a request in a packet too.                                           *)
LEMMA TakesPacket ==
    ASSUME ServerAnswers, NEW r \in Requests, NEW id \in 0 .. Words - 1
    PROVE  LET payload == ParsePacket(Buffered(CreateDataPacket(id, Payload(r)))).payload
               part    == BytesToEdges(Rest(payload, 8))
           IN  /\ ~ (Len(payload) < 12)
               /\ BytesToRequest(First(payload, 8)) = Vertices(r)
               /\ part \in Graphs
               /\ ProcessRequest(Vertices(r), part) = ProcessRequest(Vertices(r), r.edges)
<1> DEFINE sent    == Payload(r)
           packet  == CreateDataPacket(id, sent)
           payload == ParsePacket(Buffered(packet)).payload
           data    == EdgesToBytes(r.edges)
           part    == BytesToEdges(Rest(payload, 8))
<1>1. /\ r.edges \in Graphs /\ data \in Seq(Byte) /\ BytesToEdges(data) = r.edges
      /\ Len(data) = 4 + 8 * Len(r.edges)
      /\ Len(data) > Whole => TooMany(r.edges)
  BY EdgesFacts
<1>2. Len(r.edges) \in Nat /\ Len(data) \in Nat /\ Len(data) >= 4
  <2>1. Len(r.edges) \in Nat
    BY <1>1, LenProperties DEF Graphs
  <2> HIDE DEF data
  <2> QED BY <1>1, <2>1
<1>3. /\ sent \in Seq(Byte) /\ Len(sent) = 8 + Len(data) /\ Len(sent) + 12 < Words
      /\ \A k \in 0 .. Len(data) :
             /\ BytesToRequest(First(First(sent, 8 + k), 8)) = Vertices(r)
             /\ Rest(First(sent, 8 + k), 8) = First(data, k)
             /\ Len(First(sent, 8 + k)) = 8 + k
      /\ BytesToRequest(First(sent, 8)) = Vertices(r)
      /\ Rest(sent, 8) = data
  BY PayloadFacts
<1> HIDE DEF sent, data
<1>4. Len(sent) \in Nat /\ Len(sent) < Words
  BY <1>2, <1>3, Sizes
<1>5. /\ Len(packet) = 12 + Len(sent)
      /\ Len(packet) <= BUFFER_SIZE => payload = sent
      /\ Len(packet) > BUFFER_SIZE => payload = First(sent, BUFFER_SIZE - 12)
  BY <1>3, <1>4, PacketFacts
<1> HIDE DEF packet, payload
<1>6. CASE Len(packet) <= BUFFER_SIZE
  <2>1. payload = sent
    BY <1>5, <1>6
  <2>2. part = r.edges
    BY <1>1, <1>3, <2>1, Zenon
  <2>3. ~ (Len(payload) < 12)
    BY <1>2, <1>3, <2>1
  <2> HIDE DEF part
  <2>4. BytesToRequest(First(payload, 8)) = Vertices(r)
    BY <1>3, <2>1, Zenon
  <2> QED BY <1>1, <2>2, <2>3, <2>4 DEF payload, packet, sent, part
<1>7. CASE Len(packet) > BUFFER_SIZE
  <2> DEFINE k == BUFFER_SIZE - 20
  <2>1. k \in Nat /\ k < Len(data) /\ Whole <= k /\ 12 <= k /\ BUFFER_SIZE - 12 = 8 + k
    BY <1>2, <1>3, <1>5, <1>7, Sizes, WireExchangeAssumption
  <2> HIDE DEF k
  <2>2. payload = First(sent, 8 + k)
    BY <1>5, <1>7, <2>1
  <2>3. k \in 0 .. Len(data)
    BY <1>2, <2>1
  <2>4. /\ BytesToRequest(First(payload, 8)) = Vertices(r)
        /\ Rest(payload, 8) = First(data, k)
        /\ Len(payload) = 8 + k
    BY <1>3, <2>2, <2>3
  <2>5. part \in Graphs /\ TooMany(part)
    <3>1. BytesToEdges(First(data, k)) \in Graphs /\ TooMany(BytesToEdges(First(data, k)))
      BY <2>1, CutEdges DEF data
    <3> QED BY <2>4, <3>1, Zenon
  <2>6. TooMany(r.edges) /\ ~ (Len(payload) < 12)
    <3>1. Len(data) > Whole
      BY <1>2, <2>1, Sizes
    <3> QED BY <1>1, <2>1, <2>4, <3>1
  <2>7. Vertices(r) \in ClientRequest
    BY RequestFacts
  <2> HIDE DEF part
  <2>8. ProcessRequest(Vertices(r), part) = ProcessRequest(Vertices(r), r.edges)
    BY <1>1, <2>5, <2>6, <2>7, Zenon DEF ServerAnswers
  <2> QED BY <2>4, <2>5, <2>6, <2>8 DEF payload, packet, sent, part
<1>8. Len(packet) \in Nat
  BY <1>4, <1>5
<1> QED BY <1>6, <1>7, <1>8, Sizes

-----------------------------------------------------------------------------
(***************************************************************************)
(* What is taken of the server follows from the limits of its checks: a    *)
(* graph of more than 20 edges is refused, always with the same response,  *)
(* and a path has no more than 20 vertices (ShortestPath proves it,        *)
(* ResponseFits), when receives of up to 172 bytes are not cut short.      *)
(***************************************************************************)
THEOREM LimitsSuffice ==
    ASSUME Whole >= 12 + 8 * 20, NEW refusal,
           \A v \in ClientRequest, g \in Graphs :
               /\ ProcessRequest(v, g) \in ServerResponse
               /\ Len(ProcessRequest(v, g).path) <= 20
               /\ Len(g) > 20 => ProcessRequest(v, g) = refusal
    PROVE  ServerAnswers
<1>1. ASSUME NEW g \in Graphs, TooMany(g) PROVE Len(g) > 20
  <2>1. Len(g) \in Nat
    BY LenProperties DEF Graphs
  <2> QED BY <1>1, <2>1, Sizes DEF TooMany
<1> SUFFICES ASSUME NEW v \in ClientRequest, NEW g \in Graphs
             PROVE  /\ ProcessRequest(v, g) \in ServerResponse
                    /\ Len(ResponseToBytes(ProcessRequest(v, g))) <= Whole
                    /\ \A h \in Graphs :
                           TooMany(g) /\ TooMany(h) => ProcessRequest(v, g) = ProcessRequest(v, h)
  BY Zenon DEF ServerAnswers
<1> DEFINE r == ProcessRequest(v, g)
<1>2. r \in ServerResponse /\ Len(r.path) <= 20
  OBVIOUS
<1>3. \A h \in Graphs : TooMany(g) /\ TooMany(h) => r = ProcessRequest(v, h)
  <2> SUFFICES ASSUME NEW h \in Graphs, TooMany(g), TooMany(h) PROVE r = ProcessRequest(v, h)
    OBVIOUS
  <2>1. Len(g) > 20 /\ Len(h) > 20
    BY <1>1
  <2> QED BY <2>1
<1> HIDE DEF r
<1>4. Len(ResponseToBytes(r)) = 4 * (3 + Len(r.path)) /\ Len(r.path) \in Nat
  BY <1>2, ResponseLength, LenProperties DEF ServerResponse
<1>5. Len(ResponseToBytes(r)) <= Whole
  BY <1>2, <1>4, Sizes
<1> QED BY <1>2, <1>3, <1>5 DEF r

-----------------------------------------------------------------------------
(***************************************************************************)
(* The inductive invariant.  Over TCP both ends are in step: where each is *)
(* says what is in the streams, to the byte.  The exception is a server    *)
(* that is Dying: it has received a part of a graph that was too large and *)
(* takes, or took, the rest of it for a length prefix.                     *)
(***************************************************************************)
Answer   == ProcessRequest(Vertices(request), request.edges)
Asked    == RequestToBytes(request)
Edges    == EdgesToBytes(request.edges)
Answered == ResponseToBytes(Answer)

AtRest == expected.server = Nothing /\ toServer = << >>

Dying ==
    /\ large
    /\ \/ spc = "request" /\ expected.server = Nothing /\ Broken(toServer)
       \/ spc = "request" /\ expected.server = 0
       \/ spc = "closed"

(* Nothing of a request is on its way to the server.                       *)
Waits == (spc = "request" /\ AtRest) \/ Dying

(* The server is to read the vertices, with more behind them, or has.      *)
Reads(more) ==
    \/ spc = "request" /\ expected.server = Nothing /\ toServer = Frame(Asked) \o more
    \/ spc = "request" /\ expected.server = 8 /\ toServer = Asked \o more
    \/ /\ spc = "edges" /\ expected.server = Nothing /\ toServer = more
       /\ received = Vertices(request)

ReadsEdges ==
    /\ spc = "edges" /\ received = Vertices(request)
    /\ expected.server = Len(Edges) /\ Len(Edges) <= BUFFER_SIZE
    /\ toServer = Edges

Answers ==
    /\ spc = "answer" /\ expected.server = Nothing
    /\ toServer = << >> \/ (large /\ Broken(toServer))
    /\ ProcessRequest(received, graph) = Answer

Quiet == expected.client = Nothing /\ toClient = << >>

OnTheWay ==
    \/ expected.client = Nothing /\ toClient = Frame(Answered)
    \/ expected.client = Len(Answered) /\ toClient = Answered

OverTCP ==
    \/ /\ cpc = "idle" /\ Quiet /\ Waits
       /\ asked > 0 => response = Answer
    \/ cpc = "edges" /\ Quiet /\ (Reads(<< >>) \/ Dying)
    \/ /\ cpc = "response"
       /\ \/ Quiet /\ (Reads(Frame(Edges)) \/ ReadsEdges \/ Answers \/ Dying)
          \/ OnTheWay /\ Waits
          \/ toClient = << >> /\ Dying /\ spc = "closed"
    \/ cpc = "failed" /\ large /\ spc = "closed"
    \/ /\ cpc = "exited"
       /\ Waits \/ spc = "closed"

OverUDP ==
    /\ expected.server = Nothing
    /\ \/ /\ cpc = "idle" /\ Quiet /\ spc = "packet" /\ toServer = << >>
          /\ asked > 0 => response = Answer
       \/ /\ cpc = "response"
          /\ \/ /\ Quiet /\ spc = "packet"
                /\ toServer = CreateDataPacket(asked, Payload(request))
             \/ /\ Quiet /\ spc = "answer" /\ toServer = << >>
                /\ ProcessRequest(received, graph) = Answer
             \/ /\ expected.client = Nothing /\ spc = "packet" /\ toServer = << >>
                /\ toClient = CreateDataPacket(asked, Answered)
       \/ cpc = "failed" /\ large /\ spc = "packet" /\ toServer = << >>
       \/ cpc = "exited" /\ spc = "packet" /\ toServer = << >>

(* A client that speaks UDP to a server that speaks TCP.                   *)
Unheard ==
    /\ spc = "request" /\ AtRest /\ toClient = << >>
    /\ cpc = "idle" => asked = 0
    /\ cpc \in {"idle", "response", "failed", "exited"}

NotConnected ==
    /\ cpc \in {"start", "refused", "unconnected"}
    /\ asked = 0 /\ AtRest /\ Quiet
    /\ spc = IF server = "tcp" THEN "request" ELSE "packet"

(* What a long edges message leaves behind it.                             *)
Sending  == cpc \in {"edges", "response"}
Measured == large \/ Len(Edges) <= Whole

ExchangeInv ==
    /\ TypeOK
    /\ Sending => Measured
    /\ \/ protocol = "none" /\ NotConnected
       \/ protocol = "tcp" /\ server = "tcp" /\ OverTCP
       \/ protocol = "udp" /\ server = "udp" /\ OverUDP
       \/ protocol = "udp" /\ server = "tcp" /\ Unheard

LEMMA ExchangeInit == Init => ExchangeInv
<1> SUFFICES ASSUME Init PROVE ExchangeInv
  OBVIOUS
<1> USE DEF Init
<1>1. request \in Requests
  BY InputAssumption
<1>2. received \in ClientRequest /\ response \in ServerResponse /\ graph \in Seq(Int32 \X Int32)
  <2>1. 0 \in Int32
    BY Sizes
  <2> QED BY <2>1 DEF ClientRequest, ServerResponse
<1>3. expected \in [{"client", "server"} -> Nothing .. BUFFER_SIZE]
  BY Sizes DEF Nothing
<1>4. toServer \in Seq(Byte) /\ toClient \in Seq(Byte)
  BY EmptySeq
<1>5. asked \in 0 .. MaxRequests
  BY WireExchangeAssumption
<1>6. TypeOK
  BY <1>1, <1>2, <1>3, <1>4, <1>5 DEF TypeOK, ClientPlaces, ServerPlaces
<1>7. NotConnected
  BY DEF NotConnected, AtRest, Quiet
<1> QED BY <1>6, <1>7 DEF ExchangeInv, Sending

(* The messages of the present request.                                    *)
LEMMA MessageFacts ==
    ASSUME TypeOK
    PROVE  /\ Vertices(request) \in ClientRequest /\ request.edges \in Graphs
           /\ Asked \in Seq(Byte) /\ Len(Asked) = 8
           /\ RequestIsWhole(Asked) /\ BytesToRequest(Asked) = Vertices(request)
           /\ Edges \in Seq(Byte) /\ Len(Edges) \in Nat /\ Len(Edges) >= 4 /\ Len(Edges) < Words
           /\ Frame(Asked) \in Seq(Byte) /\ Frame(Edges) \in Seq(Byte)
<1>1. request \in Requests
  BY DEF TypeOK
<1>2. /\ Vertices(request) \in ClientRequest
      /\ Asked \in Seq(Byte) /\ Len(Asked) = 8
      /\ RequestIsWhole(Asked) /\ BytesToRequest(Asked) = Vertices(request)
  BY <1>1, RequestFacts DEF Asked
<1>3. /\ request.edges \in Graphs
      /\ Edges \in Seq(Byte) /\ Len(Edges) = 4 + 8 * Len(request.edges)
      /\ Len(Edges) + 8 < Words \div 2
  BY <1>1, EdgesFacts DEF Edges
<1>4. Len(request.edges) \in Nat /\ Len(Edges) \in Nat
  BY <1>3, LenProperties DEF Graphs
<1>5. Len(Edges) >= 4 /\ Len(Edges) < Words
  BY <1>3, <1>4, Sizes
<1>6. Len(Asked) < Words
  BY <1>2, Sizes, WireExchangeAssumption
<1>7. Frame(Asked) \in Seq(Byte) /\ Frame(Edges) \in Seq(Byte)
  BY <1>2, <1>3, <1>5, <1>6, FrameAlone
<1> QED BY <1>2, <1>3, <1>4, <1>5, <1>7

LEMMA AnswerMessage ==
    ASSUME TypeOK, ServerAnswers
    PROVE  /\ Answer \in ServerResponse
           /\ Answered \in Seq(Byte) /\ Len(Answered) \in 12 .. Whole /\ Len(Answered) < Words
           /\ ~ TooLarge(Len(Answered))
           /\ ResponseIsWhole(Answered) /\ BytesToResponse(Answered) = Answer
<1>1. Vertices(request) \in ClientRequest /\ request.edges \in Graphs
  BY MessageFacts
<1> QED BY <1>1, AnswerFacts DEF Answer, Answered

(* As long as the request is the same, so are its messages.                *)
LEMMA SameMessages ==
    ASSUME request' = request
    PROVE  /\ Answer' = Answer /\ Asked' = Asked /\ Edges' = Edges /\ Answered' = Answered
           /\ large' = large => Measured' = Measured
<1>1. Answer' = Answer /\ Asked' = Asked /\ Edges' = Edges /\ Answered' = Answered
  BY DEF Answer, Asked, Edges, Answered
<1> QED BY <1>1 DEF Measured

-----------------------------------------------------------------------------
(***************************************************************************)
(* The steps of the client.                                                *)
(***************************************************************************)
LEMMA StartStep ==
    ASSUME ExchangeInv, Start
    PROVE  ExchangeInv'
<1>1. /\ cpc = "start"
      /\ UNCHANGED <<server, spc, toServer, toClient, expected, asked, request, received,
                     graph, response, large>>
  BY DEF Start
<1>2. protocol = "none" /\ NotConnected /\ TypeOK
  BY <1>1 DEF ExchangeInv, OverTCP, OverUDP, Unheard
<1>3. asked' = 0 /\ ~ (asked' > 0)
  BY <1>1, <1>2 DEF NotConnected
<1>4. CASE cpc' \in {"refused", "unconnected"} /\ UNCHANGED <<args, protocol>>
  <2>1. TypeOK'
    BY <1>1, <1>2, <1>4 DEF TypeOK, ClientPlaces
  <2>2. NotConnected'
    BY <1>1, <1>2, <1>4 DEF NotConnected, AtRest, Quiet
  <2> QED BY <1>2, <1>3, <1>4, <2>1, <2>2 DEF ExchangeInv, Sending
<1>5. CASE /\ Accepted(args) /\ Connects(args, server)
           /\ cpc' = "idle"
           /\ protocol' = Lower(args.protocol)
           /\ args' = NoArguments
  <2>1. protocol' \in {"tcp", "udp"} /\ (protocol' = "tcp" => server = "tcp")
    BY <1>5 DEF Accepted, IsValidProtocol, Connects
  <2>2. TypeOK'
    BY <1>1, <1>2, <1>5, <2>1 DEF TypeOK, ClientPlaces
  <2>3. server \in {"tcp", "udp"}
    BY <1>2 DEF TypeOK
  <2>4. /\ AtRest' /\ Quiet' /\ server' = server
        /\ spc' = IF server = "tcp" THEN "request" ELSE "packet"
    BY <1>1, <1>2 DEF NotConnected, AtRest, Quiet
  <2>5. CASE protocol' = "tcp"
    <3>1. Waits'
      BY <2>1, <2>4, <2>5 DEF Waits
    <3>2. OverTCP'
      BY <1>3, <1>5, <2>4, <3>1 DEF OverTCP
    <3> QED BY <1>3, <1>5, <2>1, <2>2, <2>4, <2>5, <3>2 DEF ExchangeInv, Sending
  <2>6. CASE protocol' = "udp" /\ server = "udp"
    <3>1. OverUDP'
      BY <1>3, <1>5, <2>4, <2>6 DEF OverUDP, AtRest
    <3> QED BY <1>3, <1>5, <2>2, <2>4, <2>6, <3>1 DEF ExchangeInv, Sending
  <2>7. CASE protocol' = "udp" /\ server = "tcp"
    <3>1. Unheard'
      BY <1>3, <1>5, <2>4, <2>7 DEF Unheard, Quiet
    <3> QED BY <1>3, <1>5, <2>2, <2>4, <2>7, <3>1 DEF ExchangeInv, Sending
  <2> QED BY <2>1, <2>3, <2>5, <2>6, <2>7
<1> QED BY <1>4, <1>5 DEF Start

LEMMA ExitStep ==
    ASSUME ExchangeInv, Exit
    PROVE  ExchangeInv'
<1>1. /\ cpc = "idle" /\ cpc' = "exited"
      /\ UNCHANGED <<args, protocol, server, spc, toServer, toClient, expected, asked, request,
                     received, graph, response, large>>
  BY DEF Exit
<1>2. TypeOK'
  BY <1>1 DEF ExchangeInv, TypeOK, ClientPlaces
<1>3. Measured' = Measured
  BY <1>1, SameMessages
<1>4. ASSUME OverTCP PROVE OverTCP'
  <2>1. Waits
    BY <1>1, <1>4 DEF OverTCP
  <2>2. Waits'
    BY <1>1, <2>1 DEF Waits, AtRest, Dying
  <2> QED BY <1>1, <2>2 DEF OverTCP
<1>5. OverUDP => OverUDP'
  BY <1>1 DEF OverUDP
<1>6. Unheard => Unheard'
  BY <1>1 DEF Unheard, AtRest
<1>7. ~ NotConnected
  BY <1>1 DEF NotConnected
<1> QED BY <1>1, <1>2, <1>3, <1>4, <1>5, <1>6, <1>7 DEF ExchangeInv, Sending

(* What a new request changes, whatever it is sent over.                   *)
LEMMA AskFacts ==
    ASSUME TypeOK, NEW r \in Requests, Ask(r)
    PROVE  /\ asked' \in 0 .. MaxRequests /\ asked' = asked + 1 /\ asked' \in 0 .. Words - 1
           /\ asked' > 0 /\ request' = r /\ request' \in Requests /\ large' \in BOOLEAN
           /\ Edges' = EdgesToBytes(r.edges) /\ Asked' = RequestToBytes(r)
           /\ Measured' /\ (large => large')
           /\ Len(Edges') > Whole => large'
<1>1. /\ asked < MaxRequests /\ asked' = asked + 1 /\ request' = r
      /\ large' = (large \/ Len(EdgesToBytes(r.edges)) > Whole)
  BY DEF Ask
<1>2. asked \in 0 .. MaxRequests /\ large \in BOOLEAN
  BY DEF TypeOK
<1>3. /\ asked' \in 0 .. MaxRequests /\ asked' = asked + 1 /\ asked' \in 0 .. Words - 1
      /\ asked' > 0
  BY <1>1, <1>2, Sizes, WireExchangeAssumption
<1>4. Edges' = EdgesToBytes(r.edges) /\ Asked' = RequestToBytes(r)
  BY <1>1 DEF Edges, Asked
<1>5. Len(EdgesToBytes(r.edges)) \in Nat
  <2>1. EdgesToBytes(r.edges) \in Seq(Byte)
    BY EdgesFacts
  <2> QED BY <2>1, LenProperties
<1>6. large' \in BOOLEAN /\ (large => large')
  BY <1>1, <1>2
<1>7. Len(Edges') > Whole => large'
  BY <1>1, <1>4, Zenon
<1>8. Measured'
  BY <1>4, <1>5, <1>7, Sizes DEF Measured
<1> QED BY <1>1, <1>3, <1>4, <1>6, <1>7, <1>8

LEMMA SendRequestDataStep ==
    ASSUME ExchangeInv, SendRequestData
    PROVE  ExchangeInv'
<1>1. PICK r \in Requests : Ask(r) /\ ClientSendTCP(RequestToBytes(r), "edges")
  BY DEF SendRequestData
<1>2. /\ protocol = "tcp" /\ cpc = "idle"
      /\ UNCHANGED <<args, protocol, server, spc, toClient, expected, received, graph,
                     response>>
  BY <1>1 DEF SendRequestData, Ask
<1>3. TypeOK /\ server = "tcp" /\ Quiet /\ Waits
  BY <1>2 DEF ExchangeInv, OverTCP
<1>4. /\ asked' \in 0 .. MaxRequests /\ request' = r /\ request' \in Requests
      /\ large' \in BOOLEAN /\ Asked' = RequestToBytes(r) /\ Measured' /\ (large => large')
  BY <1>1, <1>3, AskFacts
<1>5. Frame(Asked') \in Seq(Byte) /\ Frame(Asked') \o << >> = Frame(Asked')
  <2>1. Asked' \in Seq(Byte) /\ Len(Asked') = 8
    BY <1>4, RequestFacts
  <2>2. Len(Asked') < Words
    BY <2>1, Sizes, WireExchangeAssumption
  <2> DEFINE data == Asked'
  <2>3. data \in Seq(Byte) /\ Len(data) < Words
    BY <2>1, <2>2
  <2> HIDE DEF data
  <2>4. Frame(data) \in Seq(Byte)
    BY <2>3, FrameAlone
  <2>5. Frame(data) \o << >> = Frame(data)
    BY <2>4, ConcatEmptySeq
  <2> QED BY <2>4, <2>5 DEF data
<1>6. Quiet'
  BY <1>2, <1>3 DEF Quiet
<1>7. CASE ~ ServerEnded /\ toServer' = toServer \o Frame(Asked') /\ cpc' = "edges"
  <2>1. toServer' \in Seq(Byte)
    BY <1>3, <1>5, <1>7, ConcatProperties DEF TypeOK
  <2>2. TypeOK'
    BY <1>2, <1>3, <1>4, <1>7, <2>1 DEF TypeOK, ClientPlaces
  <2>3. CASE spc = "request" /\ AtRest
    <3>1. toServer' = Frame(Asked')
      BY <1>5, <1>7, <2>3, ConcatEmptySeq DEF AtRest
    <3>2. Reads(<< >>)'
      <4>1. spc' = "request" /\ expected.server' = Nothing
        BY <1>2, <2>3 DEF AtRest
      <4>2. toServer' = Frame(Asked') \o << >>
        BY <1>5, <3>1, Zenon
      <4> QED BY <4>1, <4>2 DEF Reads
    <3>3. OverTCP'
      BY <1>6, <1>7, <3>2 DEF OverTCP
    <3> QED BY <1>2, <1>3, <1>4, <2>2, <3>3 DEF ExchangeInv, Sending
  <2>4. CASE Dying
    <3>1. Dying'
      <4>1. spc # "closed"
        BY <1>7 DEF ServerEnded
      <4>2. ASSUME Broken(toServer) PROVE Broken(toServer')
        <5>1. toServer \in Seq(Byte)
          BY <1>3 DEF TypeOK
        <5>2. Broken(toServer \o Frame(Asked'))
          BY <1>5, <4>2, <5>1, BrokenFacts
        <5> QED BY <1>7, <5>2, Zenon
      <4> QED BY <1>2, <1>4, <2>4, <4>1, <4>2 DEF Dying
    <3>2. OverTCP'
      BY <1>6, <1>7, <3>1 DEF OverTCP
    <3> QED BY <1>2, <1>3, <1>4, <2>2, <3>2 DEF ExchangeInv, Sending
  <2> QED BY <1>3, <2>3, <2>4 DEF Waits
<1>8. CASE ServerEnded /\ UNCHANGED toServer /\ cpc' \in {"edges", "failed"}
  <2>1. spc = "closed" /\ large /\ large'
    BY <1>3, <1>4, <1>8 DEF ServerEnded, Waits, Dying
  <2>2. TypeOK'
    BY <1>2, <1>3, <1>4, <1>8 DEF TypeOK, ClientPlaces
  <2>3. Dying'
    BY <1>2, <2>1 DEF Dying
  <2>4. OverTCP'
    BY <1>2, <1>6, <1>8, <2>1, <2>3 DEF OverTCP
  <2> QED BY <1>2, <1>3, <1>4, <2>2, <2>4 DEF ExchangeInv, Sending
<1> QED BY <1>1, <1>4, <1>7, <1>8 DEF ClientSendTCP

LEMMA SendEdgesDataStep ==
    ASSUME ExchangeInv, SendEdgesData
    PROVE  ExchangeInv'
<1>1. /\ cpc = "edges" /\ ClientSendTCP(Edges, "response")
      /\ UNCHANGED <<args, protocol, server, spc, toClient, expected, asked, request, received,
                     graph, response, large>>
  BY DEF SendEdgesData, Edges
<1>2. /\ TypeOK /\ protocol = "tcp" /\ server = "tcp" /\ Quiet /\ (Reads(<< >>) \/ Dying)
      /\ Sending => Measured
  BY <1>1 DEF ExchangeInv, OverTCP, OverUDP, Unheard, NotConnected
<1>3. Measured' = Measured /\ Edges' = Edges /\ Asked' = Asked
  BY <1>1, SameMessages
<1>4. Quiet'
  BY <1>1, <1>2 DEF Quiet
<1>5. /\ Edges \in Seq(Byte) /\ Asked \in Seq(Byte)
      /\ Frame(Edges) \in Seq(Byte) /\ Frame(Asked) \in Seq(Byte)
  BY <1>2, MessageFacts
<1>6. CASE ~ ServerEnded /\ toServer' = toServer \o Frame(Edges) /\ cpc' = "response"
  <2>1. toServer' \in Seq(Byte)
    BY <1>2, <1>5, <1>6, ConcatProperties DEF TypeOK
  <2>2. TypeOK'
    BY <1>1, <1>2, <1>6, <2>1 DEF TypeOK, ClientPlaces
  <2>3. ASSUME Reads(<< >>) PROVE Reads(Frame(Edges))'
    <3>1. /\ Frame(Asked) \o << >> = Frame(Asked) /\ Asked \o << >> = Asked
          /\ << >> \o Frame(Edges) = Frame(Edges)
      BY <1>5, ConcatEmptySeq
    <3>2. CASE spc = "request" /\ expected.server = Nothing /\ toServer = Frame(Asked) \o << >>
      <4>1. toServer' = Frame(Asked) \o Frame(Edges)
        BY <1>6, <3>1, <3>2, Zenon
      <4> QED BY <1>1, <1>3, <3>2, <4>1 DEF Reads
    <3>3. CASE spc = "request" /\ expected.server = 8 /\ toServer = Asked \o << >>
      <4>1. toServer' = Asked \o Frame(Edges)
        BY <1>6, <3>1, <3>3, Zenon
      <4> QED BY <1>1, <1>3, <3>3, <4>1 DEF Reads
    <3>4. CASE /\ spc = "edges" /\ expected.server = Nothing /\ toServer = << >>
               /\ received = Vertices(request)
      <4>1. toServer' = Frame(Edges)
        BY <1>6, <3>1, <3>4, Zenon
      <4>2. received' = Vertices(request')
        BY <1>1, <3>4
      <4> QED BY <1>1, <1>3, <3>4, <4>1, <4>2 DEF Reads
    <3> QED BY <2>3, <3>2, <3>3, <3>4 DEF Reads
  <2>4. ASSUME Dying PROVE Dying'
    <3>1. spc # "closed"
      BY <1>6 DEF ServerEnded
    <3>2. ASSUME Broken(toServer) PROVE Broken(toServer')
      <4>1. toServer \in Seq(Byte)
        BY <1>2 DEF TypeOK
      <4>2. Broken(toServer \o Frame(Edges))
        BY <1>5, <3>2, <4>1, BrokenFacts
      <4> QED BY <1>6, <4>2, Zenon
    <3> QED BY <1>1, <2>4, <3>1, <3>2 DEF Dying
  <2>5. OverTCP'
    BY <1>2, <1>4, <1>6, <2>3, <2>4 DEF OverTCP
  <2> QED BY <1>1, <1>2, <1>3, <2>2, <2>5 DEF ExchangeInv, Sending
<1>7. CASE ServerEnded /\ UNCHANGED toServer /\ cpc' \in {"response", "failed"}
  <2>1. spc = "closed" /\ large
    BY <1>2, <1>7 DEF ServerEnded, Reads, Dying
  <2>2. TypeOK'
    BY <1>1, <1>2, <1>7 DEF TypeOK, ClientPlaces
  <2>3. Dying'
    BY <1>1, <2>1 DEF Dying
  <2>4. OverTCP'
    BY <1>1, <1>4, <1>7, <2>1, <2>3 DEF OverTCP
  <2> QED BY <1>1, <1>2, <1>3, <2>2, <2>4 DEF ExchangeInv, Sending
<1> QED BY <1>1, <1>6, <1>7 DEF ClientSendTCP

(* The client's receives, in a connection that is in step.                 *)
LEMMA ClientReceiveTCPStep ==
    ASSUME ServerAnswers, ExchangeInv, ClientReceiveTCP
    PROVE  ExchangeInv'
<1>1. /\ cpc = "response" /\ protocol = "tcp"
      /\ UNCHANGED <<args, protocol, server, spc, toServer, asked, request, received, graph,
                     large>>
  BY DEF ClientReceiveTCP
<1>2. TypeOK /\ server = "tcp" /\ OverTCP /\ (Sending => Measured)
  BY <1>1 DEF ExchangeInv, Sending
<1>3. Measured' = Measured /\ Answer' = Answer /\ Answered' = Answered
  BY <1>1, SameMessages
<1>4. /\ Answer \in ServerResponse
      /\ Answered \in Seq(Byte) /\ Len(Answered) \in 12 .. Whole /\ Len(Answered) < Words
      /\ ~ TooLarge(Len(Answered))
      /\ ResponseIsWhole(Answered) /\ BytesToResponse(Answered) = Answer
  BY <1>2, AnswerMessage
<1>5. /\ expected \in [{"client", "server"} -> Nothing .. BUFFER_SIZE]
      /\ Len(Answered) \in Nothing .. BUFFER_SIZE /\ Len(Answered) # Nothing
      /\ Nothing \in Nothing .. BUFFER_SIZE
  BY <1>2, <1>4, Sizes, WireExchangeAssumption DEF TypeOK, Nothing
<1>6. CASE /\ toClient = << >> /\ ServerEnded
           /\ cpc' = "failed" /\ UNCHANGED <<toClient, expected, response>>
  <2>1. ~ OnTheWay
    <3>1. Len(Frame(Answered)) >= 4
      BY <1>4, FrameAlone
    <3>2. Frame(Answered) # << >> /\ Answered # << >>
      BY <1>4, <3>1
    <3> QED BY <1>6, <3>2 DEF OnTheWay
  <2>2. spc = "closed" /\ large
    BY <1>1, <1>2, <1>6, <2>1 DEF OverTCP, ServerEnded, Reads, ReadsEdges, Answers, Dying
  <2>3. TypeOK'
    BY <1>1, <1>2, <1>6 DEF TypeOK, ClientPlaces
  <2>4. OverTCP'
    BY <1>1, <1>6, <2>2 DEF OverTCP
  <2> QED BY <1>1, <1>2, <1>3, <2>3, <2>4 DEF ExchangeInv, Sending
<1>7. ASSUME Waits PROVE expected'.server = expected.server => Waits'
  BY <1>1, <1>7 DEF Waits, AtRest, Dying
<1>8. CASE /\ toClient # << >> /\ expected.client = Nothing
           /\ toClient' = Rest(toClient, 4)
           /\ expected' = [expected EXCEPT !.client = Ntohl(First(toClient, 4))]
           /\ cpc' = IF TooLarge(expected'.client) THEN "failed" ELSE cpc
           /\ UNCHANGED response
  <2>1. OnTheWay /\ Waits /\ toClient = Frame(Answered)
    BY <1>1, <1>2, <1>5, <1>8 DEF OverTCP, Quiet, OnTheWay
  <2>2. Ntohl(First(toClient, 4)) = Len(Answered) /\ Rest(toClient, 4) = Answered
    <3>1. Ntohl(First(Frame(Answered), 4)) = Len(Answered) /\ Rest(Frame(Answered), 4) = Answered
      BY <1>4, FrameAlone
    <3> QED BY <2>1, <3>1, Zenon
  <2>3. /\ expected' \in [{"client", "server"} -> Nothing .. BUFFER_SIZE]
        /\ expected'.client = Len(Answered) /\ expected'.server = expected.server
    BY <1>5, <1>8, <2>2
  <2>4. cpc' = "response" /\ toClient' = Answered
    BY <1>1, <1>4, <1>8, <2>2, <2>3
  <2>5. TypeOK'
    BY <1>1, <1>2, <1>4, <1>8, <2>3, <2>4 DEF TypeOK, ClientPlaces
  <2>6. OnTheWay' /\ Waits'
    BY <1>3, <1>7, <2>1, <2>3, <2>4 DEF OnTheWay
  <2>7. OverTCP'
    BY <2>4, <2>6 DEF OverTCP
  <2> QED BY <1>1, <1>2, <1>3, <2>5, <2>7 DEF ExchangeInv, Sending
<1>9. CASE /\ toClient # << >> /\ expected.client # Nothing
           /\ \E n \in Arrived(toClient, expected.client) :
                  /\ toClient' = Rest(toClient, n)
                  /\ ClientTakes(First(toClient, n))
           /\ expected' = [expected EXCEPT !.client = Nothing]
  <2>1. Waits /\ toClient = Answered /\ expected.client = Len(Answered)
    BY <1>1, <1>2, <1>9 DEF OverTCP, Quiet, OnTheWay
  <2>2. PICK n \in Arrived(toClient, expected.client) :
            toClient' = Rest(toClient, n) /\ ClientTakes(First(toClient, n))
    BY <1>9
  <2>3. First(Answered, n) = Answered /\ Rest(Answered, n) = << >>
    <3>1. Answered \o << >> = Answered /\ << >> \in Seq(Byte)
      BY <1>4, ConcatEmptySeq, EmptySeq
    <3>2. n \in Arrived(Answered \o << >>, Len(Answered))
      BY <2>1, <2>2, <3>1, Zenon
    <3>3. Len(Answered) <= Whole
      BY <1>4
    <3>4. First(Answered \o << >>, n) = Answered /\ Rest(Answered \o << >>, n) = << >>
      BY <1>4, <3>1, <3>2, <3>3, TakesMessage
    <3> QED BY <3>1, <3>4, Zenon
  <2>4. toClient' = << >> /\ ClientTakes(Answered)
    BY <2>1, <2>2, <2>3, Zenon
  <2>5. cpc' = "idle" /\ response' = Answer
    BY <1>4, <2>4, Zenon DEF ClientTakes
  <2>6. /\ expected' \in [{"client", "server"} -> Nothing .. BUFFER_SIZE]
        /\ expected'.client = Nothing /\ expected'.server = expected.server
    BY <1>5, <1>9
  <2>7. TypeOK'
    BY <1>1, <1>2, <1>4, <2>4, <2>5, <2>6, EmptySeq DEF TypeOK, ClientPlaces
  <2>8. Quiet' /\ Waits'
    BY <1>7, <2>1, <2>4, <2>6 DEF Quiet
  <2>9. OverTCP'
    BY <1>3, <2>5, <2>8 DEF OverTCP
  <2> QED BY <1>1, <1>2, <1>3, <2>7, <2>9 DEF ExchangeInv, Sending
<1> QED BY <1>6, <1>8, <1>9 DEF ClientReceiveTCP

-----------------------------------------------------------------------------
(***************************************************************************)
(* The steps of the server over TCP.                                       *)
(***************************************************************************)

(* A server that waits does nothing until the client is gone; one that is  *)
(* dying dies.                                                             *)
LEMMA WaitsStep ==
    ASSUME TypeOK, Waits, ServerReceiveSize \/ ServerReceiveData
    PROVE  /\ toServer' \in Seq(Byte) /\ spc' \in ServerPlaces
           /\ expected' \in [{"client", "server"} -> Nothing .. BUFFER_SIZE]
           /\ expected'.client = expected.client
           /\ UNCHANGED <<received, graph>>
           /\ toClient' \in {toClient, << >>}
           /\ \/ Dying' /\ (toClient' = toClient \/ spc' = "closed")
              \/ spc' = "closed" /\ ClientEnded
<1>1. UNCHANGED <<args, protocol, server, cpc, asked, request, response, large>>
  BY DEF ServerReceiveSize, ServerReceiveData
<1>2. /\ expected \in [{"client", "server"} -> Nothing .. BUFFER_SIZE]
      /\ 0 \in Nothing .. BUFFER_SIZE /\ Nothing \in Nothing .. BUFFER_SIZE
      /\ toServer \in Seq(Byte) /\ toClient \in Seq(Byte)
  BY Sizes DEF TypeOK, Nothing
<1>3. "closed" \in ServerPlaces /\ "request" \in ServerPlaces
  BY DEF ServerPlaces
<1>4. ASSUME NEW unread, CloseWorker(unread)
      PROVE  /\ toServer' \in Seq(Byte) /\ spc' = "closed"
             /\ UNCHANGED <<received, graph>>
             /\ toClient' \in {toClient, << >>}
  BY <1>4, EmptySeq DEF CloseWorker
<1>5. CASE ServerReceiveSize
  <2>1. /\ spc \in {"request", "edges"} /\ expected.server = Nothing
    BY <1>5 DEF ServerReceiveSize
  <2>2. CASE toServer = << >> /\ ClientEnded /\ CloseWorker(<< >>) /\ UNCHANGED expected
    BY <1>2, <1>3, <1>4, <2>2
  <2>3. ASSUME toServer # << >> PROVE large /\ spc = "request" /\ Broken(toServer)
    BY <2>1, <2>3 DEF Waits, AtRest, Dying, Nothing
  <2>4. CASE toServer # << >> /\ Len(toServer) < 4
    <3>1. Len(toServer) >= 4 /\ Len(toServer) \in Nat
      BY <1>2, <2>3, <2>4, LenProperties DEF Broken
    <3> QED BY <2>4, <3>1
  <2>5. CASE /\ Len(toServer) >= 4 /\ TooLarge(NetworkSize(toServer))
             /\ CloseWorker(Rest(toServer, 4)) /\ UNCHANGED expected
    <3>1. toServer # << >>
      BY <2>5
    <3>2. Dying'
      BY <1>1, <1>4, <2>3, <2>5, <3>1 DEF Dying
    <3> QED BY <1>2, <1>3, <1>4, <2>5, <3>2
  <2>6. CASE /\ Len(toServer) >= 4 /\ ~ TooLarge(NetworkSize(toServer))
             /\ expected' = [expected EXCEPT !.server = NetworkSize(toServer)]
             /\ toServer' = Rest(toServer, 4)
             /\ UNCHANGED <<spc, toClient, received, graph>>
    <3>1. toServer # << >>
      BY <2>6
    <3>2. large /\ spc = "request" /\ Broken(toServer)
      BY <2>3, <3>1
    <3>3. NetworkSize(toServer) = 0 /\ Rest(toServer, 4) \in Seq(Byte)
      BY <1>2, <2>6, <3>2, BrokenFacts
    <3>4. /\ expected' \in [{"client", "server"} -> Nothing .. BUFFER_SIZE]
          /\ expected'.client = expected.client /\ expected'.server = 0
      BY <1>2, <2>6, <3>3
    <3>5. Dying'
      BY <1>1, <2>6, <3>2, <3>4 DEF Dying
    <3> QED BY <1>3, <2>6, <3>2, <3>3, <3>4, <3>5
  <2> QED BY <1>5, <2>2, <2>4, <2>5, <2>6 DEF ServerReceiveSize
<1>6. CASE ServerReceiveData
  <2>1. /\ spc \in {"request", "edges"} /\ expected.server # Nothing
        /\ expected' = [expected EXCEPT !.server = Nothing]
    BY <1>6 DEF ServerReceiveData
  <2>2. large /\ expected.server = 0
    BY <2>1 DEF Waits, AtRest, Dying
  <2>3. CloseWorker(toServer)
    BY <1>6, <2>2 DEF ServerReceiveData
  <2>4. /\ toServer' \in Seq(Byte) /\ spc' = "closed"
        /\ UNCHANGED <<received, graph>>
        /\ toClient' \in {toClient, << >>}
    BY <1>4, <2>3
  <2>5. /\ expected' \in [{"client", "server"} -> Nothing .. BUFFER_SIZE]
        /\ expected'.client = expected.client
    BY <1>2, <2>1
  <2>6. Dying'
    BY <1>1, <2>2, <2>4 DEF Dying
  <2> QED BY <1>3, <2>4, <2>5, <2>6
<1> QED BY <1>5, <1>6

(* So a receive of a server that waits for a request keeps the invariant.  *)
LEMMA WaitingServerStep ==
    ASSUME ExchangeInv, ServerReceiveSize \/ ServerReceiveData, Waits
    PROVE  ExchangeInv'
<1>1. UNCHANGED <<args, protocol, server, cpc, asked, request, response, large>>
  BY DEF ServerReceiveSize, ServerReceiveData
<1>2. TypeOK /\ (Sending => Measured)
  BY DEF ExchangeInv, Sending
<1>3. /\ toServer' \in Seq(Byte) /\ spc' \in ServerPlaces
      /\ expected' \in [{"client", "server"} -> Nothing .. BUFFER_SIZE]
      /\ expected'.client = expected.client
      /\ UNCHANGED <<received, graph>>
      /\ toClient' \in {toClient, << >>}
      /\ \/ Dying' /\ (toClient' = toClient \/ spc' = "closed")
         \/ spc' = "closed" /\ ClientEnded
  BY <1>2, WaitsStep
<1>4. TypeOK'
  BY <1>1, <1>2, <1>3, EmptySeq DEF TypeOK
<1>5. Measured' = Measured /\ Answer' = Answer /\ Answered' = Answered
  BY <1>1, SameMessages
<1>6. protocol = "tcp" /\ server = "tcp" /\ OverTCP
  <2>1. ServerReceiveSize => protocol = "tcp"
    BY DEF ServerReceiveSize
  <2>2. ServerReceiveData => expected.server # Nothing
    BY DEF ServerReceiveData
  <2> QED BY <2>1, <2>2 DEF ExchangeInv, NotConnected, AtRest, OverUDP, Unheard
<1>7. spc \in {"request", "edges"}
  BY DEF ServerReceiveSize, ServerReceiveData
<1>8. Dying' => Waits'
  BY DEF Waits
<1>9. Quiet => Quiet'
  BY <1>3 DEF Quiet
<1>10. OnTheWay /\ toClient' = toClient => OnTheWay'
  BY <1>3, <1>5 DEF OnTheWay
<1>11. CASE cpc = "idle"
  <2>1. Dying' /\ Quiet' /\ (asked' > 0 => response' = Answer')
    BY <1>1, <1>3, <1>5, <1>6, <1>9, <1>11 DEF OverTCP, ClientEnded
  <2>2. OverTCP'
    BY <1>1, <1>8, <1>11, <2>1 DEF OverTCP
  <2> QED BY <1>1, <1>2, <1>4, <1>5, <1>6, <2>2 DEF ExchangeInv, Sending
<1>12. CASE cpc = "edges"
  <2>1. Dying' /\ Quiet'
    BY <1>3, <1>6, <1>9, <1>12 DEF OverTCP, ClientEnded
  <2>2. OverTCP'
    BY <1>1, <1>12, <2>1 DEF OverTCP
  <2> QED BY <1>1, <1>2, <1>4, <1>5, <1>6, <2>2 DEF ExchangeInv, Sending
<1>13. CASE cpc = "response"
  <2>1. Dying' /\ (toClient' = toClient \/ spc' = "closed")
    BY <1>3, <1>13 DEF ClientEnded
  <2>2. Quiet \/ OnTheWay
    BY <1>6, <1>7, <1>13 DEF OverTCP
  <2>3. OverTCP'
    BY <1>1, <1>3, <1>8, <1>9, <1>10, <1>13, <2>1, <2>2 DEF OverTCP
  <2> QED BY <1>1, <1>2, <1>4, <1>5, <1>6, <2>3 DEF ExchangeInv, Sending
<1>14. CASE cpc = "exited"
  <2>1. OverTCP'
    BY <1>1, <1>3, <1>8, <1>14 DEF OverTCP
  <2> QED BY <1>1, <1>2, <1>4, <1>5, <1>6, <2>1 DEF ExchangeInv, Sending
<1>15. cpc \in {"idle", "edges", "response", "exited"}
  BY <1>6, <1>7 DEF OverTCP
<1> QED BY <1>11, <1>12, <1>13, <1>14, <1>15

(* A receive of a server in the middle of a request keeps it too.          *)
LEMMA ServerReceiveSizeStep ==
    ASSUME ExchangeInv, ServerReceiveSize
    PROVE  ExchangeInv'
<1>1. /\ protocol = "tcp" /\ spc \in {"request", "edges"} /\ expected.server = Nothing
      /\ UNCHANGED <<args, protocol, server, cpc, asked, request, response, large>>
  BY DEF ServerReceiveSize
<1>2. TypeOK /\ server = "tcp" /\ OverTCP /\ (Sending => Measured)
  BY <1>1 DEF ExchangeInv, Sending
<1> SUFFICES ASSUME ~ Waits PROVE ExchangeInv'
  BY WaitingServerStep
<1>3. Measured' = Measured /\ Answer' = Answer /\ Asked' = Asked /\ Edges' = Edges
  BY <1>1, SameMessages
<1>4. /\ Asked \in Seq(Byte) /\ Len(Asked) = 8 /\ Len(Asked) < Words
      /\ Edges \in Seq(Byte) /\ Len(Edges) \in Nat /\ Len(Edges) >= 4 /\ Len(Edges) < Words
      /\ Frame(Edges) \in Seq(Byte)
  <2>1. /\ Asked \in Seq(Byte) /\ Len(Asked) = 8
        /\ Edges \in Seq(Byte) /\ Len(Edges) \in Nat /\ Len(Edges) >= 4 /\ Len(Edges) < Words
        /\ Frame(Edges) \in Seq(Byte)
    BY <1>2, MessageFacts
  <2>2. 8 < Words
    BY Sizes, WireExchangeAssumption
  <2> QED BY <2>1, <2>2
<1>5. /\ expected \in [{"client", "server"} -> Nothing .. BUFFER_SIZE]
      /\ 8 \in Nothing .. BUFFER_SIZE /\ ~ TooLarge(8)
      /\ toServer \in Seq(Byte) /\ toClient \in Seq(Byte)
  BY <1>2, Sizes, WireExchangeAssumption DEF TypeOK, Nothing, TooLarge
<1>6. ~ Dying /\ ~ (spc = "request" /\ AtRest)
  BY DEF Waits
(* The vertices' length is read. *)
<1>7. ASSUME NEW more \in Seq(Byte), spc = "request", toServer = Frame(Asked) \o more
      PROVE  /\ UNCHANGED <<spc, toClient, received, graph>>
             /\ expected' = [expected EXCEPT !.server = 8] /\ toServer' = Asked \o more
  <2>1. /\ Len(Frame(Asked) \o more) >= 4
        /\ NetworkSize(Frame(Asked) \o more) = Len(Asked)
        /\ Rest(Frame(Asked) \o more, 4) = Asked \o more
    BY <1>4, FrameFacts
  <2>2. /\ Len(toServer) >= 4 /\ NetworkSize(toServer) = 8
        /\ Rest(toServer, 4) = Asked \o more
    BY <1>4, <1>7, <2>1, Zenon
  <2>3. toServer # << >> /\ ~ (Len(toServer) < 4)
    BY <1>5, <2>2, LenProperties
  <2> QED BY <1>5, <2>2, <2>3 DEF ServerReceiveSize
<1>8. ASSUME NEW more \in Seq(Byte), spc = "request", toServer = Frame(Asked) \o more
      PROVE  TypeOK' /\ Reads(more)' /\ (Quiet => Quiet')
  <2>1. /\ UNCHANGED <<spc, toClient, received, graph>>
        /\ expected' = [expected EXCEPT !.server = 8] /\ toServer' = Asked \o more
    BY <1>7, <1>8
  <2>2. /\ expected' \in [{"client", "server"} -> Nothing .. BUFFER_SIZE]
        /\ expected'.client = expected.client /\ expected'.server = 8
    BY <1>5, <2>1
  <2>3. toServer' \in Seq(Byte)
    BY <1>4, <2>1, ConcatProperties
  <2>4. TypeOK'
    BY <1>1, <1>2, <2>1, <2>2, <2>3 DEF TypeOK
  <2>5. spc' = "request" /\ expected'.server = 8 /\ toServer' = Asked' \o more
    BY <1>3, <1>8, <2>1, <2>2
  <2> QED BY <2>1, <2>2, <2>4, <2>5 DEF Reads, Quiet
<1>9. CASE cpc = "edges"
  <2>1. Quiet /\ Reads(<< >>) /\ << >> \in Seq(Byte)
    BY <1>2, <1>6, <1>9, EmptySeq DEF OverTCP
  <2>2. CASE spc = "request"
    <3>1. toServer = Frame(Asked) \o << >>
      BY <1>1, <2>1, <2>2 DEF Reads, Nothing
    <3>2. TypeOK' /\ Reads(<< >>)' /\ Quiet'
      BY <1>8, <2>1, <2>2, <3>1
    <3>3. OverTCP'
      BY <1>1, <1>9, <3>2 DEF OverTCP
    <3> QED BY <1>1, <1>2, <1>3, <3>2, <3>3 DEF ExchangeInv, Sending
  <2>3. CASE spc = "edges"
    <3>1. toServer = << >> /\ ~ ClientEnded
      BY <1>1, <1>9, <2>1, <2>3 DEF Reads, ClientEnded
    <3>2. ~ (Len(toServer) >= 4)
      BY <3>1
    <3> QED BY <3>1, <3>2 DEF ServerReceiveSize
  <2> QED BY <1>1, <2>2, <2>3
<1>10. CASE cpc = "response"
  <2>1. Quiet /\ Reads(Frame(Edges))
    <3>1. ~ ReadsEdges /\ ~ Answers
      BY <1>1, <1>4 DEF ReadsEdges, Answers, Nothing
    <3> QED BY <1>1, <1>2, <1>6, <1>10, <3>1 DEF OverTCP, Waits
  <2>2. CASE spc = "request"
    <3>1. toServer = Frame(Asked) \o Frame(Edges)
      BY <1>1, <2>1, <2>2 DEF Reads, Nothing
    <3>2. TypeOK' /\ Reads(Frame(Edges))' /\ Quiet'
      <4> DEFINE more == Frame(Edges)
      <4>1. more \in Seq(Byte) /\ toServer = Frame(Asked) \o more /\ more' = more
        BY <1>3, <1>4, <3>1
      <4> HIDE DEF more
      <4>2. TypeOK' /\ Reads(more)' /\ Quiet'
        BY <1>8, <2>1, <2>2, <4>1
      <4> QED BY <4>1, <4>2 DEF more
    <3>3. OverTCP'
      BY <1>1, <1>10, <3>2 DEF OverTCP
    <3> QED BY <1>1, <1>2, <1>3, <3>2, <3>3 DEF ExchangeInv, Sending
  <2>3. CASE spc = "edges"
    <3>1. toServer = Frame(Edges) /\ received = Vertices(request)
      BY <1>1, <2>1, <2>3 DEF Reads
    <3>2. /\ Len(toServer) >= 4 /\ NetworkSize(toServer) = Len(Edges)
          /\ Rest(toServer, 4) = Edges
      <4>1. /\ Len(Frame(Edges)) >= 4 /\ NetworkSize(Frame(Edges)) = Len(Edges)
            /\ Rest(Frame(Edges), 4) = Edges
        BY <1>4, FrameAlone
      <4> QED BY <3>1, <4>1, Zenon
    <3>3. toServer # << >> /\ ~ (Len(toServer) < 4)
      BY <1>5, <3>2, LenProperties
    <3>4. CASE TooLarge(Len(Edges))
      <4>1. CloseWorker(Rest(toServer, 4)) /\ UNCHANGED expected
        BY <3>2, <3>3, <3>4 DEF ServerReceiveSize
      <4>2. /\ spc' = "closed" /\ toServer' = << >> /\ toClient' = << >>
            /\ UNCHANGED <<received, graph>>
        BY <2>1, <4>1 DEF CloseWorker, Quiet
      <4>3. large
        <5>1. ~ (Len(Edges) <= Whole)
          BY <1>4, <3>4, Sizes, WireExchangeAssumption DEF TooLarge
        <5> QED BY <1>2, <1>10, <5>1 DEF Measured, Sending
      <4>4. TypeOK'
        BY <1>1, <1>2, <4>1, <4>2, EmptySeq DEF TypeOK, ServerPlaces
      <4>5. Dying'
        BY <1>1, <4>2, <4>3 DEF Dying
      <4>6. OverTCP'
        BY <1>1, <1>10, <4>2, <4>5 DEF OverTCP
      <4> QED BY <1>1, <1>2, <1>3, <4>4, <4>6 DEF ExchangeInv, Sending
    <3>5. CASE ~ TooLarge(Len(Edges))
      <4>1. /\ expected' = [expected EXCEPT !.server = Len(Edges)]
            /\ toServer' = Edges
            /\ UNCHANGED <<spc, toClient, received, graph>>
        BY <3>2, <3>3, <3>5 DEF ServerReceiveSize
      <4>2. Len(Edges) <= BUFFER_SIZE /\ Len(Edges) \in Nothing .. BUFFER_SIZE
        BY <1>4, <3>5, Sizes DEF TooLarge, Nothing
      <4>3. /\ expected' \in [{"client", "server"} -> Nothing .. BUFFER_SIZE]
            /\ expected'.client = expected.client /\ expected'.server = Len(Edges)
        BY <1>5, <4>1, <4>2
      <4>4. TypeOK'
        BY <1>1, <1>2, <1>4, <4>1, <4>3 DEF TypeOK
      <4>5. ReadsEdges'
        <5>1. received' = Vertices(request')
          BY <1>1, <3>1, <4>1
        <5>2. spc' = "edges" /\ expected'.server = Len(Edges') /\ Len(Edges') <= BUFFER_SIZE
              /\ toServer' = Edges'
          BY <1>3, <2>3, <4>1, <4>2, <4>3
        <5> QED BY <5>1, <5>2 DEF ReadsEdges
      <4>6. Quiet'
        BY <2>1, <4>1, <4>3 DEF Quiet
      <4>7. OverTCP'
        BY <1>1, <1>10, <4>5, <4>6 DEF OverTCP
      <4> QED BY <1>1, <1>2, <1>3, <4>4, <4>7 DEF ExchangeInv, Sending
    <3> QED BY <3>4, <3>5
  <2> QED BY <1>1, <2>2, <2>3
<1> QED BY <1>1, <1>2, <1>6, <1>9, <1>10 DEF OverTCP, Waits

LEMMA ServerReceiveDataStep ==
    ASSUME ServerAnswers, WholeInts, ExchangeInv, ServerReceiveData
    PROVE  ExchangeInv'
<1>1. /\ spc \in {"request", "edges"} /\ expected.server # Nothing
      /\ expected' = [expected EXCEPT !.server = Nothing]
      /\ UNCHANGED <<args, protocol, server, cpc, asked, request, response, large>>
  BY DEF ServerReceiveData
<1>2. /\ TypeOK /\ protocol = "tcp" /\ server = "tcp" /\ OverTCP /\ (Sending => Measured)
  BY <1>1 DEF ExchangeInv, NotConnected, AtRest, OverUDP, Unheard
<1> SUFFICES ASSUME ~ Waits PROVE ExchangeInv'
  BY WaitingServerStep
<1>3. Measured' = Measured /\ Answer' = Answer /\ Asked' = Asked /\ Edges' = Edges
  BY <1>1, SameMessages
<1>4. /\ Vertices(request) \in ClientRequest /\ request \in Requests
      /\ Asked \in Seq(Byte) /\ Len(Asked) = 8
      /\ RequestIsWhole(Asked) /\ BytesToRequest(Asked) = Vertices(request)
      /\ Edges \in Seq(Byte) /\ Len(Edges) \in Nat /\ Len(Edges) >= 4
      /\ Frame(Edges) \in Seq(Byte)
  BY <1>2, MessageFacts DEF TypeOK
<1>5. /\ expected' \in [{"client", "server"} -> Nothing .. BUFFER_SIZE]
      /\ expected'.client = expected.client /\ expected'.server = Nothing
  <2>1. expected \in [{"client", "server"} -> Nothing .. BUFFER_SIZE] /\ Nothing \in Nothing .. BUFFER_SIZE
    BY <1>2, Sizes DEF TypeOK, Nothing
  <2> QED BY <1>1, <2>1
<1>6. ~ Dying
  BY DEF Waits
<1>7. ~ ClientEnded /\ toServer # << >> /\ expected.server > 0 =>
          \E n \in Arrived(toServer, expected.server) :
              IF spc = "edges" /\ n < 4
              THEN CloseWorker(Rest(toServer, n))
              ELSE toServer' = Rest(toServer, n) /\ ServerTakes(First(toServer, n))
  BY DEF ServerReceiveData
(* The vertices are received. *)
<1>8. ASSUME NEW more \in Seq(Byte), spc = "request", expected.server = 8,
             toServer = Asked \o more, ~ ClientEnded
      PROVE  TypeOK' /\ Reads(more)' /\ (Quiet => Quiet')
  <2>1. toServer # << >>
    <3>1. Len(Asked \o more) = Len(Asked) + Len(more) /\ Len(more) \in Nat
      BY <1>4, ConcatProperties, LenProperties
    <3> QED BY <1>4, <1>8, <3>1
  <2>2. PICK n \in Arrived(toServer, 8) :
            toServer' = Rest(toServer, n) /\ ServerTakes(First(toServer, n))
    BY <1>7, <1>8, <2>1
  <2>3. First(Asked \o more, n) = Asked /\ Rest(Asked \o more, n) = more
    <3>1. n \in Arrived(Asked \o more, Len(Asked))
      BY <1>4, <1>8, <2>2, Zenon
    <3>2. Len(Asked) <= Whole
      BY <1>4, WireExchangeAssumption
    <3> QED BY <1>4, <3>1, <3>2, TakesMessage
  <2>4. toServer' = more /\ ServerTakes(Asked)
    BY <1>8, <2>2, <2>3, Zenon
  <2>5. spc' = "edges" /\ received' = Vertices(request) /\ UNCHANGED <<graph, toClient>>
    BY <1>4, <1>8, <2>4 DEF ServerTakes
  <2>6. TypeOK'
    BY <1>1, <1>2, <1>4, <1>5, <2>4, <2>5 DEF TypeOK, ServerPlaces
  <2>7. received' = Vertices(request')
    BY <1>1, <2>5
  <2> QED BY <1>5, <2>4, <2>5, <2>6, <2>7 DEF Reads, Quiet
<1>9. CASE cpc = "edges"
  <2>1. Quiet /\ Reads(<< >>) /\ << >> \in Seq(Byte) /\ ~ ClientEnded
    BY <1>2, <1>6, <1>9, EmptySeq DEF OverTCP, ClientEnded
  <2>2. spc = "request" /\ expected.server = 8 /\ toServer = Asked \o << >>
    BY <1>1, <2>1 DEF Reads
  <2>3. TypeOK' /\ Reads(<< >>)' /\ Quiet'
    BY <1>8, <2>1, <2>2
  <2>4. OverTCP'
    BY <1>1, <1>9, <2>3 DEF OverTCP
  <2> QED BY <1>1, <1>2, <1>3, <2>3, <2>4 DEF ExchangeInv, Sending
<1>10. CASE cpc = "response"
  <2>1. Quiet /\ (Reads(Frame(Edges)) \/ ReadsEdges) /\ ~ ClientEnded
    <3>1. ~ Answers
      BY <1>1 DEF Answers
    <3> QED BY <1>2, <1>6, <1>10, <3>1 DEF OverTCP, Waits, ClientEnded
  <2>2. CASE Reads(Frame(Edges))
    <3>1. spc = "request" /\ expected.server = 8 /\ toServer = Asked \o Frame(Edges)
      BY <1>1, <2>2 DEF Reads
    <3>2. TypeOK' /\ Reads(Frame(Edges))' /\ Quiet'
      <4> DEFINE more == Frame(Edges)
      <4>1. more \in Seq(Byte) /\ toServer = Asked \o more /\ more' = more
        BY <1>3, <1>4, <3>1
      <4> HIDE DEF more
      <4>2. TypeOK' /\ Reads(more)' /\ Quiet'
        BY <1>8, <2>1, <3>1, <4>1
      <4> QED BY <4>1, <4>2 DEF more
    <3>3. OverTCP'
      BY <1>1, <1>10, <3>2 DEF OverTCP
    <3> QED BY <1>1, <1>2, <1>3, <3>2, <3>3 DEF ExchangeInv, Sending
  <2>3. CASE ReadsEdges
    <3>1. spc = "edges" /\ received = Vertices(request) /\ expected.server = Len(Edges) /\ toServer = Edges
      BY <2>3 DEF ReadsEdges
    <3>2. PICK n \in Arrived(Edges, Len(Edges)) :
              IF n < 4
              THEN CloseWorker(Rest(Edges, n))
              ELSE toServer' = Rest(Edges, n) /\ ServerTakes(First(Edges, n))
      <4>1. toServer # << >> /\ expected.server > 0
        BY <1>4, <3>1
      <4>2. \E n \in Arrived(toServer, expected.server) :
                IF n < 4
                THEN CloseWorker(Rest(toServer, n))
                ELSE toServer' = Rest(toServer, n) /\ ServerTakes(First(toServer, n))
        BY <1>7, <2>1, <3>1, <4>1
      <4> QED BY <3>1, <4>2, Zenon
    <3>3. /\ n \in Nat /\ ~ (n < 4)
          /\ BytesToEdges(First(Edges, n)) \in Graphs
          /\ ProcessRequest(Vertices(request), BytesToEdges(First(Edges, n))) = Answer
          /\ Rest(Edges, n) \in Seq(Byte)
          /\ Rest(Edges, n) = << >> \/ (Len(Edges) > Whole /\ Broken(Rest(Edges, n)))
      <4>1. n \in Arrived(EdgesToBytes(request.edges), Len(EdgesToBytes(request.edges)))
        BY <3>2 DEF Edges
      <4> QED BY <1>4, <4>1, TakesEdges DEF Edges, Answer
    <3>4. /\ toServer' = Rest(Edges, n) /\ spc' = "answer" /\ graph' = BytesToEdges(First(Edges, n))
          /\ UNCHANGED <<toClient, received>>
      BY <3>1, <3>2, <3>3 DEF ServerTakes
    <3>5. Len(Edges) > Whole => large
      BY <1>2, <1>4, <1>10, Sizes DEF Measured, Sending
    <3>6. Answers'
      <4>1. ProcessRequest(received', graph') = Answer'
        BY <1>3, <3>1, <3>3, <3>4
      <4>2. toServer' = << >> \/ (large' /\ Broken(toServer'))
        BY <1>1, <3>3, <3>4, <3>5
      <4> QED BY <1>5, <3>4, <4>1, <4>2 DEF Answers
    <3>7. TypeOK'
      BY <1>1, <1>2, <1>5, <3>3, <3>4 DEF TypeOK, ServerPlaces, Graphs
    <3>8. Quiet'
      BY <1>5, <2>1, <3>4 DEF Quiet
    <3>9. OverTCP'
      BY <1>1, <1>10, <3>6, <3>8 DEF OverTCP
    <3> QED BY <1>1, <1>2, <1>3, <3>7, <3>9 DEF ExchangeInv, Sending
  <2> QED BY <2>1, <2>2, <2>3
<1> QED BY <1>1, <1>2, <1>6, <1>9, <1>10 DEF OverTCP, Waits

LEMMA SendResponseTCPStep ==
    ASSUME ServerAnswers, ExchangeInv, SendResponseTCP
    PROVE  ExchangeInv'
<1>1. /\ spc = "answer" /\ server = "tcp"
      /\ toClient' = toClient \o Frame(Response)
      /\ spc' = "request"
      /\ UNCHANGED <<args, protocol, server, cpc, toServer, expected, asked, request, received,
                     graph, response, large>>
  BY DEF SendResponseTCP
<1>2. /\ TypeOK /\ protocol = "tcp" /\ cpc = "response" /\ Quiet /\ Answers
      /\ Sending => Measured
  BY <1>1 DEF ExchangeInv, OverTCP, Unheard, NotConnected, Waits, Dying, Reads, ReadsEdges
<1>3. /\ Measured' = Measured /\ Answered' = Answered
  BY <1>1, SameMessages
<1>4. /\ Answered \in Seq(Byte) /\ Len(Answered) < Words
  BY <1>2, AnswerMessage
<1>5. Frame(Answered) \in Seq(Byte)
  BY <1>4, FrameAlone
<1>6. toClient' = Frame(Answered)
  <2>1. Response = Answered
    BY <1>2 DEF Answers, Response, Answered
  <2>2. toClient = << >>
    BY <1>2 DEF Quiet
  <2>3. << >> \o Frame(Answered) = Frame(Answered)
    BY <1>5, ConcatEmptySeq
  <2> QED BY <1>1, <2>1, <2>2, <2>3, Zenon
<1>7. TypeOK'
  BY <1>1, <1>2, <1>5, <1>6 DEF TypeOK, ServerPlaces
<1>8. OnTheWay'
  BY <1>1, <1>2, <1>3, <1>6 DEF OnTheWay, Quiet
<1>9. Waits'
  BY <1>1, <1>2 DEF Waits, Answers, AtRest, Dying
<1>10. OverTCP'
  BY <1>1, <1>2, <1>8, <1>9 DEF OverTCP
<1> QED BY <1>1, <1>2, <1>3, <1>7, <1>10 DEF ExchangeInv, Sending

-----------------------------------------------------------------------------
(***************************************************************************)
(* UDP.                                                                    *)
(***************************************************************************)
LEMMA SendPacketStep ==
    ASSUME ExchangeInv, SendPacket
    PROVE  ExchangeInv'
<1> DEFINE packet(r) == CreateDataPacket(asked + 1, Payload(r))
<1>1. PICK r \in Requests :
          /\ Ask(r)
          /\ toServer' = IF Len(packet(r)) <= MaxDatagram /\ server = "udp" THEN packet(r)
                                                                           ELSE << >>
          /\ cpc' = IF Len(packet(r)) <= MaxDatagram THEN "response" ELSE "failed"
  BY DEF SendPacket
<1>2. /\ protocol = "udp" /\ cpc = "idle"
      /\ UNCHANGED <<args, protocol, server, spc, toClient, expected, received, graph,
                     response>>
  BY <1>1 DEF SendPacket, Ask
<1>3. TypeOK /\ ((server = "udp" /\ OverUDP) \/ (server = "tcp" /\ Unheard))
  BY <1>2 DEF ExchangeInv
<1>4. /\ asked' \in 0 .. MaxRequests /\ asked' = asked + 1 /\ asked' \in 0 .. Words - 1
      /\ request' = r /\ request' \in Requests
      /\ large' \in BOOLEAN /\ Measured' /\ (Len(Edges') > Whole => large')
      /\ Edges' = EdgesToBytes(r.edges)
  BY <1>1, <1>3, AskFacts
<1>5. /\ packet(r) \in Seq(Byte) /\ Len(packet(r)) = 20 + Len(Edges')
      /\ Len(Edges') \in Nat
  <2> DEFINE id == asked + 1
             sent == Payload(r)
             data == EdgesToBytes(r.edges)
  <2>1. sent \in Seq(Byte) /\ Len(sent) = 8 + Len(data) /\ Len(sent) + 12 < Words
    BY PayloadFacts
  <2>2. data \in Seq(Byte)
    BY EdgesFacts
  <2>3. id \in 0 .. Words - 1
    BY <1>4
  <2> HIDE DEF id, sent, data
  <2>4. Len(data) \in Nat /\ Len(sent) < Words
    BY <2>1, <2>2, LenProperties, Sizes
  <2>5. CreateDataPacket(id, sent) \in Seq(Byte) /\ Len(CreateDataPacket(id, sent)) = 12 + Len(sent)
    BY <2>1, <2>3, <2>4, PacketFacts
  <2>6. packet(r) = CreateDataPacket(id, sent) /\ Edges' = data
    BY <1>4 DEF id, sent, data
  <2> QED BY <2>1, <2>4, <2>5, <2>6
<1>6. packet(r) = CreateDataPacket(asked', Payload(request'))
  BY <1>4
<1> HIDE DEF packet
<1>7. toServer' \in Seq(Byte) /\ cpc' \in {"response", "failed"}
  BY <1>1, <1>5, EmptySeq
<1>8. TypeOK'
  BY <1>2, <1>3, <1>4, <1>7 DEF TypeOK, ClientPlaces
<1>9. CASE server = "udp"
  <2>1. expected'.server = Nothing /\ Quiet' /\ spc' = "packet"
    BY <1>2, <1>3, <1>9 DEF OverUDP, Quiet
  <2>2. CASE Len(packet(r)) <= MaxDatagram
    <3>1. cpc' = "response" /\ toServer' = CreateDataPacket(asked', Payload(request'))
      BY <1>1, <1>6, <1>9, <2>2
    <3>2. OverUDP'
      BY <2>1, <3>1 DEF OverUDP
    <3> QED BY <1>2, <1>4, <1>8, <1>9, <3>2 DEF ExchangeInv
  <2>3. CASE ~ (Len(packet(r)) <= MaxDatagram)
    <3>1. cpc' = "failed" /\ toServer' = << >>
      BY <1>1, <2>3
    <3>2. large'
      BY <1>4, <1>5, <2>3, Sizes, WireExchangeAssumption
    <3>3. OverUDP'
      BY <2>1, <3>1, <3>2 DEF OverUDP
    <3> QED BY <1>2, <1>4, <1>8, <1>9, <3>3 DEF ExchangeInv
  <2> QED BY <2>2, <2>3
<1>10. CASE server = "tcp"
  <2>1. Unheard /\ toServer' = << >>
    BY <1>1, <1>3, <1>10
  <2>2. Unheard'
    BY <1>2, <1>7, <2>1 DEF Unheard, AtRest
  <2> QED BY <1>2, <1>4, <1>8, <1>10, <2>2 DEF ExchangeInv
<1> QED BY <1>3, <1>9, <1>10

LEMMA ReceivePacketStep ==
    ASSUME ServerAnswers, ExchangeInv, ReceivePacket
    PROVE  ExchangeInv'
<1> DEFINE payload == ParsePacket(Buffered(toServer)).payload
<1>1. /\ spc = "packet" /\ toServer # << >> /\ toServer' = << >>
      /\ UNCHANGED <<args, protocol, server, cpc, toClient, expected, asked, request, response,
                     large>>
      /\ \/ Len(payload) < 12 /\ UNCHANGED <<spc, received, graph>>
         \/ /\ Len(payload) >= 12
            /\ received' = BytesToRequest(First(payload, 8))
            /\ graph' = BytesToEdges(Rest(payload, 8))
            /\ spc' = "answer"
  BY DEF ReceivePacket
<1>2. /\ TypeOK /\ protocol = "udp" /\ server = "udp" /\ OverUDP /\ (Sending => Measured)
  BY <1>1 DEF ExchangeInv, OverTCP, Unheard, NotConnected, AtRest, Waits, Dying, Reads,
              ReadsEdges, Answers
<1>3. /\ cpc = "response" /\ Quiet /\ expected.server = Nothing
      /\ toServer = CreateDataPacket(asked, Payload(request))
  BY <1>1, <1>2 DEF OverUDP
<1>4. Measured' = Measured /\ Answer' = Answer
  BY <1>1, SameMessages
<1>5. asked \in 0 .. Words - 1 /\ request \in Requests
  BY <1>2, Sizes, WireExchangeAssumption DEF TypeOK
<1>6. /\ ~ (Len(payload) < 12)
      /\ BytesToRequest(First(payload, 8)) = Vertices(request)
      /\ BytesToEdges(Rest(payload, 8)) \in Graphs
      /\ ProcessRequest(Vertices(request), BytesToEdges(Rest(payload, 8))) = Answer
  BY <1>3, <1>5, TakesPacket DEF Answer
<1> HIDE DEF payload
<1>7. /\ received' = Vertices(request) /\ graph' = BytesToEdges(Rest(payload, 8))
      /\ spc' = "answer"
  BY <1>1, <1>6, Zenon
<1>8. Vertices(request) \in ClientRequest
  BY <1>2, MessageFacts
<1>9. TypeOK'
  BY <1>1, <1>2, <1>6, <1>7, <1>8, EmptySeq DEF TypeOK, ServerPlaces, Graphs
<1>10. ProcessRequest(received', graph') = Answer'
  BY <1>4, <1>6, <1>7, Zenon
<1>11. OverUDP'
  BY <1>1, <1>3, <1>7, <1>10 DEF OverUDP, Quiet
<1> QED BY <1>1, <1>2, <1>4, <1>9, <1>11 DEF ExchangeInv, Sending

LEMMA SendResponsePacketStep ==
    ASSUME ServerAnswers, ExchangeInv, SendResponsePacket
    PROVE  ExchangeInv'
<1>1. /\ spc = "answer" /\ server = "udp"
      /\ toClient' = CreateDataPacket(asked, Response)
      /\ spc' = "packet"
      /\ UNCHANGED <<args, protocol, server, cpc, toServer, expected, asked, request, received,
                     graph, response, large>>
  BY DEF SendResponsePacket
<1>2. /\ TypeOK /\ protocol = "udp" /\ OverUDP /\ (Sending => Measured)
  BY <1>1 DEF ExchangeInv, NotConnected
<1>3. /\ cpc = "response" /\ Quiet /\ expected.server = Nothing /\ toServer = << >>
      /\ ProcessRequest(received, graph) = Answer
  BY <1>1, <1>2 DEF OverUDP
<1>4. Measured' = Measured /\ Answered' = Answered
  BY <1>1, SameMessages
<1>5. asked \in 0 .. Words - 1
  BY <1>2, Sizes, WireExchangeAssumption DEF TypeOK
<1>6. /\ Answered \in Seq(Byte) /\ Len(Answered) < Words
  BY <1>2, AnswerMessage
<1>7. CreateDataPacket(asked, Answered) \in Seq(Byte)
  BY <1>5, <1>6, PacketFacts
<1>8. toClient' = CreateDataPacket(asked, Answered)
  <2>1. Response = Answered
    BY <1>3 DEF Response, Answered
  <2> QED BY <1>1, <2>1, Zenon
<1>9. TypeOK'
  BY <1>1, <1>2, <1>7, <1>8 DEF TypeOK, ServerPlaces
<1>10. OverUDP'
  <2>1. toClient' = CreateDataPacket(asked', Answered')
    BY <1>1, <1>4, <1>8
  <2> QED BY <1>1, <1>3, <2>1 DEF OverUDP, Quiet
<1> QED BY <1>1, <1>2, <1>4, <1>9, <1>10 DEF ExchangeInv, Sending

LEMMA ClientReceivePacketStep ==
    ASSUME ServerAnswers, ExchangeInv, ClientReceivePacket
    PROVE  ExchangeInv'
<1>1. /\ cpc = "response" /\ protocol = "udp"
      /\ UNCHANGED <<args, protocol, server, spc, toServer, expected, asked, request, received,
                     graph, large>>
  BY DEF ClientReceivePacket
<1>2. /\ TypeOK /\ ((server = "udp" /\ OverUDP) \/ (server = "tcp" /\ Unheard))
      /\ Sending => Measured
  BY <1>1 DEF ExchangeInv
<1>3. Measured' = Measured /\ Answer' = Answer
  BY <1>1, SameMessages
<1>4. asked \in 0 .. Words - 1 /\ request \in Requests
  BY <1>2, Sizes, WireExchangeAssumption DEF TypeOK
<1>5. CASE /\ toClient # << >>
           /\ toClient' = << >>
           /\ ClientTakes(ParsePacket(Buffered(toClient)).payload)
  <2>1. /\ server = "udp" /\ expected.client = Nothing /\ expected.server = Nothing
        /\ spc = "packet" /\ toServer = << >>
        /\ toClient = CreateDataPacket(asked, Answered)
    BY <1>1, <1>2, <1>5 DEF OverUDP, Unheard, Quiet
  <2>2. /\ Answer \in ServerResponse
        /\ Answered \in Seq(Byte) /\ Len(Answered) \in 12 .. Whole /\ Len(Answered) < Words
        /\ ResponseIsWhole(Answered) /\ BytesToResponse(Answered) = Answer
    BY <1>2, AnswerMessage
  <2>3. ParsePacket(Buffered(toClient)).payload = Answered
    <3> DEFINE packet == CreateDataPacket(asked, Answered)
    <3>1. /\ Len(packet) = 12 + Len(Answered)
          /\ Len(packet) <= BUFFER_SIZE => ParsePacket(Buffered(packet)).payload = Answered
      BY <1>4, <2>2, PacketFacts
    <3> HIDE DEF packet
    <3>2. Len(packet) <= BUFFER_SIZE
      BY <2>2, <3>1, Sizes, WireExchangeAssumption
    <3>3. packet = toClient
      BY <2>1 DEF packet
    <3> QED BY <3>1, <3>2, <3>3, Zenon
  <2>4. cpc' = "idle" /\ response' = Answer
    BY <1>5, <2>2, <2>3, Zenon DEF ClientTakes
  <2>5. TypeOK'
    BY <1>1, <1>2, <1>5, <2>2, <2>4, EmptySeq DEF TypeOK, ClientPlaces
  <2>6. OverUDP'
    BY <1>1, <1>3, <1>5, <2>1, <2>4 DEF OverUDP, Quiet
  <2> QED BY <1>1, <1>2, <1>3, <2>1, <2>5, <2>6 DEF ExchangeInv, Sending
<1>6. CASE /\ toClient = << >> /\ toServer = << >> /\ spc # "answer"
           /\ cpc' = "failed"
           /\ UNCHANGED <<toClient, response>>
  <2>1. ~ (server = "udp" /\ OverUDP)
    <3>1. CreateDataPacket(asked, Payload(request)) # << >>
      <4>1. /\ Payload(request) \in Seq(Byte) /\ Len(Payload(request)) + 12 < Words
        BY <1>4, PayloadFacts
      <4> DEFINE sent == Payload(request)
      <4> HIDE DEF sent
      <4>2. sent \in Seq(Byte) /\ Len(sent) < Words
        <5>1. sent \in Seq(Byte) /\ Len(sent) + 12 < Words
          BY <4>1 DEF sent
        <5> QED BY <5>1, LenProperties, Sizes
      <4>3. CreateDataPacket(asked, sent) # << >>
        BY <1>4, <4>2, PacketFacts
      <4> QED BY <4>3 DEF sent
    <3>2. CreateDataPacket(asked, Answered) # << >>
      <4>1. Answered \in Seq(Byte) /\ Len(Answered) < Words
        BY <1>2, AnswerMessage
      <4> QED BY <1>4, <4>1, PacketFacts
    <3> QED BY <1>1, <1>6, <3>1, <3>2 DEF OverUDP
  <2>2. Unheard /\ server = "tcp"
    BY <1>2, <2>1
  <2>3. Unheard'
    BY <1>1, <1>6, <2>2 DEF Unheard, AtRest
  <2>4. TypeOK'
    BY <1>1, <1>2, <1>6 DEF TypeOK, ClientPlaces
  <2> QED BY <1>1, <1>2, <1>3, <2>2, <2>3, <2>4 DEF ExchangeInv, Sending
<1> QED BY <1>5, <1>6 DEF ClientReceivePacket

-----------------------------------------------------------------------------
(***************************************************************************)
(* Every step, and the theorems.                                           *)
(***************************************************************************)
LEMMA ExchangeStep ==
    ASSUME ServerAnswers, WholeInts, ExchangeInv, [Next]_vars
    PROVE  ExchangeInv'
<1>1. CASE Start
  BY <1>1, StartStep
<1>2. CASE SendRequestData
  BY <1>2, SendRequestDataStep
<1>3. CASE SendPacket
  BY <1>3, SendPacketStep
<1>4. CASE Exit
  BY <1>4, ExitStep
<1>5. CASE SendEdgesData
  BY <1>5, SendEdgesDataStep
<1>6. CASE ClientReceiveTCP
  BY <1>6, ClientReceiveTCPStep
<1>7. CASE ClientReceivePacket
  BY <1>7, ClientReceivePacketStep
<1>8. CASE ServerReceiveSize
  BY <1>8, ServerReceiveSizeStep
<1>9. CASE ServerReceiveData
  BY <1>9, ServerReceiveDataStep
<1>10. CASE SendResponseTCP
  BY <1>10, SendResponseTCPStep
<1>11. CASE ReceivePacket
  BY <1>11, ReceivePacketStep
<1>12. CASE SendResponsePacket
  BY <1>12, SendResponsePacketStep
<1>13. CASE UNCHANGED vars
  <2>1. ExchangeInv' = ExchangeInv
    BY <1>13 DEF vars, ExchangeInv, TypeOK, Sending, Measured, Edges, NotConnected, AtRest,
                 Quiet, OverTCP, OverUDP, Unheard, Waits, Dying, Reads, ReadsEdges, Answers,
                 OnTheWay, Answer, Answered, Asked
  <2> QED BY <2>1
<1> QED BY <1>1, <1>2, <1>3, <1>4, <1>5, <1>6, <1>7, <1>8, <1>9, <1>10, <1>11, <1>12, <1>13
       DEF Next, ClientStep, ServerStep

LEMMA ExchangeIsInvariant ==
    ASSUME ServerAnswers, WholeInts
    PROVE  Spec => []ExchangeInv
<1>1. Init => ExchangeInv
  BY ExchangeInit
<1>2. ExchangeInv /\ [Next]_vars => ExchangeInv'
  BY ExchangeStep
<1> QED BY <1>1, <1>2, PTL DEF Spec

(* Every variable keeps its type: in particular every length prefix that   *)
(* is used fits into the buffer, and every decoded value is an int.        *)
THEOREM TypeCorrect ==
    ASSUME ServerAnswers, WholeInts
    PROVE  Spec => []TypeOK
<1>1. ExchangeInv => TypeOK
  BY DEF ExchangeInv
<1> QED BY <1>1, ExchangeIsInvariant, PTL

(* No decoder reads behind its message, and no length prefix is used that  *)
(* was received in part, although neither handleTCPClient,                 *)
(* processUDPRequest nor sendRequest checks it.                            *)
THEOREM DecodersStayInside ==
    ASSUME ServerAnswers, WholeInts
    PROVE  Spec => []NeverReadsBehind
<1>1. ExchangeInv => NeverReadsBehind
  BY DEF ExchangeInv, NeverReadsBehind, NotConnected, OverTCP, OverUDP, Unheard, Waits, Dying,
         Reads, ReadsEdges, Answers
<1> QED BY <1>1, ExchangeIsInvariant, PTL

(* What sendRequest hands out is the server's answer to the vertices and   *)
(* edges it was called with, whatever was cut off on the way.              *)
THEOREM AnswersMatch ==
    ASSUME ServerAnswers, WholeInts
    PROVE  Spec => []AnswerIsForRequest
<1>1. ASSUME ExchangeInv PROVE AnswerIsForRequest
  <2> SUFFICES ASSUME cpc = "idle", asked > 0 PROVE response = Answer
    BY DEF AnswerIsForRequest, Answer, Vertices
  <2>1. ~ NotConnected
    BY DEF NotConnected
  <2>2. ~ Unheard
    BY DEF Unheard
  <2> QED BY <1>1, <2>1, <2>2 DEF ExchangeInv, OverTCP, OverUDP
<1> QED BY <1>1, ExchangeIsInvariant, PTL

(* A request fails only after a graph too large to be received whole, or   *)
(* when client and server were started with different protocols.           *)
THEOREM SmallGraphsDoNotFail ==
    ASSUME ServerAnswers, WholeInts
    PROVE  Spec => []OnlyLargeGraphsFail
<1>1. ASSUME ExchangeInv PROVE OnlyLargeGraphsFail
  <2> SUFFICES ASSUME cpc = "failed" PROVE large \/ protocol # server
    BY DEF OnlyLargeGraphsFail
  <2> QED BY <1>1 DEF ExchangeInv, NotConnected, OverTCP, OverUDP
<1> QED BY <1>1, ExchangeIsInvariant, PTL

-----------------------------------------------------------------------------
(***************************************************************************)
(* The address.  Nothing is taken of the server here.                      *)
(***************************************************************************)
LEMMA RefusedAddress ==
    ASSUME args \in Arguments, server \in {"tcp", "udp"},
           Accepted(args), ~ Connects(args, server)
    PROVE  \/ Lower(args.protocol) = "tcp" /\ server = "udp"
           \/ args.ip[Len(args.ip)] = "empty"
           \/ \E k \in DOMAIN args.ip : args.ip[k] = "zeros"
<1> DEFINE ip == args.ip
<1> SUFFICES ASSUME ip[Len(ip)] # "empty", \A k \in DOMAIN ip : ip[k] # "zeros"
             PROVE  Lower(args.protocol) = "tcp" /\ server = "udp"
  OBVIOUS
<1>1. ip \in Seq({"octet", "zeros", "large", "empty", "word"})
  BY InputAssumption
<1>2. IsValidIP(ip)
  BY DEF Accepted
<1> HIDE DEF ip
<1>3. Segments(ip) = ip
  BY DEF Segments
<1>4. Len(ip) = 4 /\ \A k \in 1 .. 4 : ip[k] \in {"octet", "zeros"}
  BY <1>2, <1>3 DEF IsValidIP
<1>5. \A k \in 1 .. 4 : k \in DOMAIN ip
  BY <1>1, <1>4
<1>6. InetPton(ip)
  BY <1>4, <1>5 DEF InetPton
<1> QED BY <1>6 DEF Connects, ip

AddressInv ==
    /\ server \in {"tcp", "udp"}
    /\ cpc \in {"start", "unconnected"} => args \in Arguments
    /\ AcceptedAddressConnects

(* What isValidIP accepts, inet_pton can use, unless a dot stands at its   *)
(* end or zeros before one of its numbers.                                 *)
THEOREM AddressesConnect == Spec => []AcceptedAddressConnects
<1>1. Init => AddressInv
  BY DEF Init, AddressInv, AcceptedAddressConnects
<1>2. ASSUME AddressInv, [Next]_vars PROVE AddressInv'
  <2>1. CASE Start
    <3>1. cpc = "start" /\ server' = server
      BY <2>1 DEF Start
    <3>2. CASE cpc' = "unconnected"
      <4>1. Accepted(args) /\ ~ Connects(args, server) /\ args' = args
        BY <2>1, <3>2 DEF Start
      <4>2. args \in Arguments /\ server \in {"tcp", "udp"}
        BY <1>2, <3>1 DEF AddressInv
      <4>3. \/ Lower(args.protocol) = "tcp" /\ server = "udp"
            \/ args.ip[Len(args.ip)] = "empty"
            \/ \E k \in DOMAIN args.ip : args.ip[k] = "zeros"
        BY <4>1, <4>2, RefusedAddress
      <4> QED BY <3>1, <4>1, <4>2, <4>3 DEF AddressInv, AcceptedAddressConnects
    <3>3. CASE cpc' # "unconnected"
      <4>1. cpc' \notin {"start", "unconnected"}
        BY <2>1, <3>3 DEF Start
      <4> QED BY <1>2, <3>1, <4>1 DEF AddressInv, AcceptedAddressConnects
    <3> QED BY <3>2, <3>3
  <2>2. CASE ~ Start
    <3>1. /\ server' = server /\ args' = args
          /\ cpc' = cpc \/ cpc' \notin {"start", "unconnected"}
      <4>1. CASE SendRequestData
        BY <4>1 DEF SendRequestData, ClientSendTCP
      <4>2. CASE SendPacket
        BY <4>2 DEF SendPacket
      <4>3. CASE Exit
        BY <4>3 DEF Exit
      <4>4. CASE SendEdgesData
        BY <4>4 DEF SendEdgesData, ClientSendTCP
      <4>5. CASE ClientReceiveTCP
        BY <4>5 DEF ClientReceiveTCP, ClientTakes
      <4>6. CASE ClientReceivePacket
        BY <4>6 DEF ClientReceivePacket, ClientTakes
      <4>7. CASE ServerStep
        BY <4>7 DEF ServerStep, ServerReceiveSize, ServerReceiveData, SendResponseTCP,
                    ReceivePacket, SendResponsePacket
      <4>8. CASE UNCHANGED vars
        BY <4>8 DEF vars
      <4> QED BY <1>2, <2>2, <4>1, <4>2, <4>3, <4>4, <4>5, <4>6, <4>7, <4>8 DEF Next, ClientStep
    <3> QED BY <1>2, <3>1 DEF AddressInv, AcceptedAddressConnects
  <2> QED BY <2>1, <2>2
<1>3. AddressInv => AcceptedAddressConnects
  BY DEF AddressInv
<1> QED BY <1>1, <1>2, <1>3, PTL DEF Spec
=============================================================================

---------------------------- MODULE WireFormatProofs ----------------------------
(***************************************************************************)
(* What the decoders of WireFormat return is what the encoders were given, *)
(* for every int, every number of edges and vertices and every base.  The  *)
(* induction that a byte string seems to ask for is avoided by the form of *)
(* Flat: every byte is given by its position, and so is the int that is    *)
(* read back.                                                              *)
(***************************************************************************)
EXTENDS WireFormat, TLAPS

(* Division by b leaves a digit below b, from which the dividend is        *)
(* recovered.                                                              *)
LEMMA DivMod ==
    ASSUME NEW n \in Nat, NEW b \in Nat, b > 1
    PROVE  /\ n \div b \in Nat
           /\ n % b \in 0 .. b - 1
           /\ n = b * (n \div b) + (n % b)
BY SMT

(* A product that is smaller by the same factor has a smaller other one. *)
LEMMA Monotone ==
    ASSUME NEW b \in Nat, NEW q \in Nat, NEW m \in Nat, b * q < b * m
    PROVE  q < m
BY SMT

(* Dividing by b takes a factor b off a bound. *)
LEMMA DivBound ==
    ASSUME NEW n \in Nat, NEW b \in Nat, NEW m \in Nat, b > 1, n < b * m
    PROVE  n \div b < m
<1>1. /\ n \div b \in Nat
      /\ n % b \in 0 .. b - 1
      /\ n = b * (n \div b) + (n % b)
    BY DivMod
<1> DEFINE q == n \div b
           r == n % b
<1>2. b * q \in Nat /\ b * m \in Nat
    BY <1>1, SMT
<1>3. b * q < b * m
    <2> HIDE DEF q, r
    <2> QED BY <1>1, <1>2, SMT DEF q, r
<1> HIDE DEF q
<1>4. QED BY <1>1, <1>3, Monotone DEF q
-----------------------------------------------------------------------------
(* The dividend written as Unsigned writes it, its digit first. *)
LEMMA DigitFirst ==
    ASSUME NEW n, NEW b \in Nat, NEW m \in Nat, NEW r \in 0 .. b - 1, n = b * m + r
    PROVE  r + b * m = n
BY SMT

(* The negative ints are exactly half of the words. *)
LEMMA WordsIsEven ==
    /\ Words \in Nat
    /\ Words \div 2 \in Nat
    /\ Words = 2 * (Words \div 2)
    /\ Words > 1
<1>1. Base \in Nat /\ Base > 1 /\ Base % 2 = 0
    BY WireFormatAssumption
<1>2. PICK h \in Nat : Base = 2 * h
    BY <1>1, SMT
<1> DEFINE c == Base * (Base * Base)
<1>3. c \in Nat /\ c > 0
    <2>1. Base * Base \in Nat /\ Base * Base > 0
        BY <1>1, SMT
    <2>2. QED
        BY <1>1, <2>1, SMT
<1>4. Words = Base * c
    BY DEF Words
<1> HIDE DEF c
<1>5. Words = 2 * (h * c) /\ h * c \in Nat
    BY <1>2, <1>3, <1>4, SMT
<1>6. Words > 1
    BY <1>1, <1>3, <1>4, SMT
<1> DEFINE k == h * c
<1>7. Words = 2 * k /\ k \in Nat
    BY <1>5
<1> HIDE DEF k
<1>8. QED
    BY <1>6, <1>7, SMT

(* Four digits hold every word. *)
LEMMA Digits ==
    ASSUME NEW n \in 0 .. Words - 1
    PROVE  /\ UnsignedBytes(n) \in Seq(Byte)
           /\ Len(UnsignedBytes(n)) = 4
           /\ Unsigned(UnsignedBytes(n)) = n
<1>1. Base \in Nat /\ Base > 1 /\ n \in Nat
    BY WireFormatAssumption, WordsIsEven, SMT
<1> DEFINE n1 == n \div Base
           n2 == n1 \div Base
           n3 == n2 \div Base
           b2 == Base * Base
           b3 == Base * b2
<1>2. b2 \in Nat /\ b3 \in Nat
    <2>1. b2 \in Nat
        BY <1>1, SMT
    <2> HIDE DEF b2
    <2>2. QED
        BY <1>1, <2>1, SMT
<1>3. n < Base * b3
    BY WordsIsEven, SMT DEF Words
<1>4. n1 \in Nat /\ n % Base \in Byte /\ n = Base * n1 + (n % Base) /\ n1 < b3
    <2> HIDE DEF b3
    <2>1. n1 < b3
        BY <1>1, <1>2, <1>3, DivBound
    <2>2. QED
        BY <1>1, <2>1, DivMod DEF Byte
<1> HIDE DEF n1
<1>5. n2 \in Nat /\ n1 % Base \in Byte /\ n1 = Base * n2 + (n1 % Base) /\ n2 < b2
    <2>0. n1 < Base * b2
        BY <1>4
    <2> HIDE DEF b2, b3
    <2>1. n2 < b2
        BY <1>1, <1>2, <1>4, <2>0, DivBound
    <2>2. QED
        BY <1>1, <1>4, <2>1, DivMod DEF Byte
<1> HIDE DEF n2
<1>6. n3 \in Nat /\ n2 % Base \in Byte /\ n2 = Base * n3 + (n2 % Base) /\ n3 < Base
    <2>1. n3 < Base
        BY <1>1, <1>5, DivBound
    <2>2. QED
        BY <1>1, <1>5, <2>1, DivMod DEF Byte
<1> HIDE DEF n3
<1> DEFINE digits == <<n % Base, n1 % Base, n2 % Base, n3>>
<1>7. UnsignedBytes(n) = digits
    BY DEF UnsignedBytes, n1, n2, n3
<1>8. n3 \in Byte
    BY <1>1, <1>6, SMT DEF Byte
<1>9. Unsigned(digits) = n
    <2>1. Unsigned(digits) = (n % Base) + Base * ((n1 % Base) + Base * ((n2 % Base) + Base * n3))
        BY DEF Unsigned
    <2>2. (n2 % Base) + Base * n3 = n2
        BY <1>1, <1>6, DigitFirst DEF Byte
    <2>3. (n1 % Base) + Base * n2 = n1
        BY <1>1, <1>5, DigitFirst DEF Byte
    <2>4. (n % Base) + Base * n1 = n
        BY <1>1, <1>4, DigitFirst DEF Byte
    <2>5. QED
        BY <2>1, <2>2, <2>3, <2>4
<1>10. digits \in Seq(Byte) /\ Len(digits) = 4
    BY <1>4, <1>5, <1>6, <1>8
<1>11. QED
    BY <1>7, <1>9, <1>10

(* An int that is copied out of a message is the one copied into it. *)
THEOREM IntSurvives ==
    ASSUME NEW n \in Int32
    PROVE  /\ Bytes(n) \in Seq(Byte)
           /\ Len(Bytes(n)) = 4
           /\ Signed(Bytes(n)) = n
<1> DEFINE u == IF n < 0 THEN n + Words ELSE n
<1>1. /\ u \in 0 .. Words - 1
      /\ n \in Int
      /\ u < Words \div 2 <=> ~ (n < 0)
    BY WordsIsEven, SMT DEF Int32
<1>2. Bytes(n) = UnsignedBytes(u)
    BY DEF Bytes
<1> HIDE DEF u
<1>3. Bytes(n) \in Seq(Byte) /\ Len(Bytes(n)) = 4 /\ Unsigned(Bytes(n)) = u
    BY <1>1, <1>2, Digits
<1>4. Signed(Bytes(n)) = IF ~ (n < 0) THEN u ELSE u - Words
    BY <1>1, <1>3 DEF Signed
<1>5. Signed(Bytes(n)) = n
    BY <1>1, <1>4, WordsIsEven, SMT DEF u
<1>6. QED
    BY <1>3, <1>5

(* A length prefix of any size is read as it was sent. *)
THEOREM PrefixSurvives ==
    ASSUME NEW n \in 0 .. Words - 1
    PROVE  Ntohl(Htonl(n)) = n /\ Len(Htonl(n)) = 4
<1>1. /\ UnsignedBytes(n) \in Seq(Byte)
      /\ Len(UnsignedBytes(n)) = 4
      /\ Unsigned(UnsignedBytes(n)) = n
    BY Digits
<1> DEFINE b == UnsignedBytes(n)
<1>2. Reverse(b) = [i \in 1 .. 4 |-> b[(4 - i) + 1]]
    BY <1>1 DEF Reverse
<1> HIDE DEF b
<1>3. Len(Reverse(b)) = 4
    BY <1>2
<1>4. Reverse(Reverse(b)) = [i \in 1 .. 4 |-> b[i]]
    BY <1>2, <1>3 DEF Reverse
<1>5. Unsigned(Reverse(Reverse(b))) = Unsigned(b)
    BY <1>4 DEF Unsigned
<1>6. QED
    BY <1>1, <1>3, <1>5 DEF Htonl, Ntohl, b
-----------------------------------------------------------------------------
(* Of n ints laid one after the other, the j-th byte of the i-th. *)
LEMMA Position ==
    ASSUME NEW n \in Nat, NEW i \in 1 .. n, NEW j \in 1 .. 4
    PROVE  /\ 4 * i - 4 + j \in 1 .. 4 * n
           /\ ((4 * i - 4 + j) + 3) \div 4 = i
           /\ (((4 * i - 4 + j) - 1) % 4) + 1 = j
BY SMT

(* What stands where when a message is put together of two parts. *)
LEMMA Parts ==
    ASSUME NEW s \in Seq(Byte), NEW t \in Seq(Byte)
    PROVE  /\ s \o t \in Seq(Byte)
           /\ Len(s \o t) = Len(s) + Len(t)
           /\ \A k \in 1 .. Len(s) : (s \o t)[k] = s[k]
           /\ \A k \in 1 .. Len(t) : (s \o t)[Len(s) + k] = t[k]
OBVIOUS

(* Ints laid one after the other take four bytes each, which are found     *)
(* together at their place.                                                *)
LEMMA FlatKeepsBytes ==
    ASSUME NEW ints \in Seq(Int),
           \A i \in 1 .. Len(ints) : Bytes(ints[i]) \in Seq(Byte) /\ Len(Bytes(ints[i])) = 4
    PROVE  /\ Flat(ints) \in Seq(Byte)
           /\ Len(Flat(ints)) = 4 * Len(ints)
           /\ \A i \in 1 .. Len(ints) : WordAt(Flat(ints), i) = Bytes(ints[i])
<1> DEFINE F == Flat(ints)
<1>1. F = [k \in 1 .. 4 * Len(ints) |-> Bytes(ints[(k + 3) \div 4])[((k - 1) % 4) + 1]]
    BY DEF Flat
<1>2. \A k \in 1 .. 4 * Len(ints) :
          /\ (k + 3) \div 4 \in 1 .. Len(ints)
          /\ ((k - 1) % 4) + 1 \in 1 .. 4
    BY SMT
<1>3. \A k \in 1 .. 4 * Len(ints) : F[k] \in Byte
    BY <1>1, <1>2
<1>4. F \in Seq(Byte) /\ Len(F) = 4 * Len(ints)
    BY <1>1, <1>3
<1>5. ASSUME NEW i \in 1 .. Len(ints)
      PROVE  WordAt(F, i) = Bytes(ints[i])
    <2>1. \A j \in 1 .. 4 : /\ 4 * i - 4 + j \in 1 .. 4 * Len(ints)
                            /\ ((4 * i - 4 + j) + 3) \div 4 = i
                            /\ (((4 * i - 4 + j) - 1) % 4) + 1 = j
        <3>1. Len(ints) \in Nat
            OBVIOUS
        <3>2. QED
            BY <3>1, Position, Zenon
    <2>2. \A j \in 1 .. 4 : F[4 * i - 4 + j] = Bytes(ints[i])[j]
        BY <1>1, <2>1
    <2>3. /\ 4 * i - 4 + 1 = 4 * i - 3
          /\ 4 * i - 4 + 2 = 4 * i - 2
          /\ 4 * i - 4 + 3 = 4 * i - 1
          /\ 4 * i - 4 + 4 = 4 * i
          /\ 1 \in 1 .. 4 /\ 2 \in 1 .. 4 /\ 3 \in 1 .. 4 /\ 4 \in 1 .. 4
        BY SMT
    <2> HIDE DEF F
    <2>4. WordAt(F, i) =
              <<Bytes(ints[i])[1], Bytes(ints[i])[2], Bytes(ints[i])[3], Bytes(ints[i])[4]>>
        BY <2>2, <2>3 DEF WordAt
    <2>5. QED
        BY <2>4
<1>6. QED
    BY <1>4, <1>5

(* Every int is read back from its place. *)
LEMMA FlatKeepsInts ==
    ASSUME NEW ints \in Seq(Int32)
    PROVE  /\ Flat(ints) \in Seq(Byte)
           /\ Len(Flat(ints)) = 4 * Len(ints)
           /\ \A i \in 1 .. Len(ints) : IntAt(Flat(ints), i) = ints[i]
<1>1. ints \in Seq(Int)
    BY WordsIsEven, SMT DEF Int32
<1>2. \A i \in 1 .. Len(ints) :
          /\ Bytes(ints[i]) \in Seq(Byte)
          /\ Len(Bytes(ints[i])) = 4
          /\ Signed(Bytes(ints[i])) = ints[i]
    BY IntSurvives
<1>3. QED
    BY <1>1, <1>2, FlatKeepsBytes DEF IntAt

(* The server decodes the request that the client encoded. *)
THEOREM RequestSurvives ==
    ASSUME NEW r \in ClientRequest
    PROVE  /\ RequestIsWhole(RequestToBytes(r))
           /\ BytesToRequest(RequestToBytes(r)) = r
<1> DEFINE ints == <<r.start_node, r.end_node>>
<1>1. r.start_node \in Int32 /\ r.end_node \in Int32
    BY DEF ClientRequest
<1>2. ints \in Seq(Int32) /\ Len(ints) = 2
    BY <1>1
<1>3. ints[1] = r.start_node /\ ints[2] = r.end_node
    OBVIOUS
<1>4. RequestToBytes(r) = Flat(ints)
    BY DEF RequestToBytes
<1> HIDE DEF ints
<1>5. /\ Len(Flat(ints)) = 8
      /\ IntAt(Flat(ints), 1) = r.start_node
      /\ IntAt(Flat(ints), 2) = r.end_node
    <2>1. Len(Flat(ints)) = 4 * 2 /\ \A i \in 1 .. 2 : IntAt(Flat(ints), i) = ints[i]
        BY <1>2, FlatKeepsInts
    <2>2. 4 * 2 = 8 /\ 1 \in 1 .. 2 /\ 2 \in 1 .. 2
        BY SMT
    <2>3. QED
        BY <1>3, <2>1, <2>2
<1>6. r = [start_node |-> r.start_node, end_node |-> r.end_node]
    BY DEF ClientRequest
<1>7. QED
    BY <1>4, <1>5, <1>6 DEF BytesToRequest, RequestIsWhole

(* The server decodes the edges that the client encoded, all of them and   *)
(* in their order.                                                         *)
THEOREM EdgesSurvive ==
    ASSUME NEW edges \in Seq(Int32 \X Int32), Len(edges) < Words \div 2
    PROVE  BytesToEdges(EdgesToBytes(edges)) = edges
<1> DEFINE ints == EdgeInts(edges)
           data == EdgesToBytes(edges)
           n    == Len(edges)
<1>1. n \in Nat /\ n \in Int32
    BY WordsIsEven, SMT DEF Int32
<1>2. ints = [k \in 1 .. 1 + 2 * n |-> IF k = 1 THEN n ELSE edges[k \div 2][1 + (k % 2)]]
    BY DEF EdgeInts
<1>3. \A k \in 1 .. 1 + 2 * n : k # 1 => /\ k \div 2 \in 1 .. n
                                        /\ 1 + (k % 2) \in {1, 2}
    BY <1>1, SMT
<1>4. \A k \in 1 .. n : /\ edges[k] \in Int32 \X Int32
                        /\ edges[k] = <<edges[k][1], edges[k][2]>>
                        /\ edges[k][1] \in Int32
                        /\ edges[k][2] \in Int32
    OBVIOUS
<1>5. \A k \in 1 .. 1 + 2 * n : ints[k] \in Int32
    BY <1>1, <1>2, <1>3, <1>4
<1>6. ints \in Seq(Int32) /\ Len(ints) = 1 + 2 * n
    BY <1>1, <1>2, <1>5
<1>7. data = Flat(ints)
    BY DEF EdgesToBytes
<1>8. /\ ints[1] = n
      /\ \A k \in 1 .. n : ints[2 * k] = edges[k][1] /\ ints[2 * k + 1] = edges[k][2]
    <2>1. ints[1] = n
        BY <1>1, <1>2, SMT
    <2>2. ASSUME NEW k \in 1 .. n
          PROVE  ints[2 * k] = edges[k][1] /\ ints[2 * k + 1] = edges[k][2]
        <3>1. /\ 2 * k \in 1 .. 1 + 2 * n /\ 2 * k # 1
              /\ (2 * k) \div 2 = k /\ 1 + ((2 * k) % 2) = 1
              /\ 2 * k + 1 \in 1 .. 1 + 2 * n /\ 2 * k + 1 # 1
              /\ (2 * k + 1) \div 2 = k /\ 1 + ((2 * k + 1) % 2) = 2
            BY <1>1, SMT
        <3>2. QED
            BY <1>2, <3>1
    <2>3. QED
        BY <2>1, <2>2
<1> HIDE DEF ints, data
<1>9. /\ Len(data) = 4 + 8 * n
      /\ IntAt(data, 1) = n
      /\ \A k \in 1 .. n : /\ IntAt(data, 2 * k) = edges[k][1]
                           /\ IntAt(data, 2 * k + 1) = edges[k][2]
    <2>1. /\ Len(data) = 4 * (1 + 2 * n)
          /\ \A i \in 1 .. 1 + 2 * n : IntAt(data, i) = ints[i]
        BY <1>6, <1>7, FlatKeepsInts
    <2>2. Len(data) = 4 + 8 * n /\ IntAt(data, 1) = n
        <3>1. 4 * (1 + 2 * n) = 4 + 8 * n /\ 1 \in 1 .. 1 + 2 * n
            BY <1>1, SMT
        <3>2. QED
            BY <1>8, <2>1, <3>1
    <2>3. ASSUME NEW k \in 1 .. n
          PROVE  IntAt(data, 2 * k) = edges[k][1] /\ IntAt(data, 2 * k + 1) = edges[k][2]
        <3>1. 2 * k \in 1 .. 1 + 2 * n /\ 2 * k + 1 \in 1 .. 1 + 2 * n
            BY <1>1, SMT
        <3>2. IntAt(data, 2 * k) = ints[2 * k] /\ IntAt(data, 2 * k + 1) = ints[2 * k + 1]
            BY <2>1, <3>1, Zenon
        <3>3. QED
            BY <1>8, <3>2, Zenon
    <2>4. QED
        BY <2>2, <2>3, Zenon
<1>10. EdgesRead(data) = n
    <2>1. ((4 + 8 * n) - 4) \div 8 = n
        BY <1>1, SMT
    <2>2. QED
        BY <1>1, <1>9, <2>1 DEF EdgesRead
<1>11. BytesToEdges(data) = [k \in 1 .. n |-> edges[k]]
    BY <1>4, <1>9, <1>10 DEF BytesToEdges
<1>12. QED
    BY <1>11 DEF data

(* The client decodes the response that the server encoded. *)
THEOREM ResponseSurvives ==
    ASSUME NEW r \in ServerResponse, Len(r.path) < Words \div 2
    PROVE  /\ ResponseIsWhole(ResponseToBytes(r))
           /\ BytesToResponse(ResponseToBytes(r)) = r
<1> DEFINE n    == Len(r.path)
           ints == <<r.error_code, r.path_length, n>> \o r.path
           data == ResponseToBytes(r)
<1>1. r.error_code \in Int32 /\ r.path_length \in Int32 /\ r.path \in Seq(Int32)
    BY DEF ServerResponse
<1>2. n \in Nat /\ n \in Int32
    BY <1>1, WordsIsEven, SMT DEF Int32
<1>3. /\ ints \in Seq(Int32)
      /\ Len(ints) = 3 + n
      /\ ints[1] = r.error_code /\ ints[2] = r.path_length /\ ints[3] = n
      /\ \A k \in 1 .. n : ints[k + 3] = r.path[k]
    BY <1>1, <1>2
<1>4. data = Flat(ints)
    BY DEF ResponseToBytes
<1> HIDE DEF ints, data
<1>5. /\ Len(data) = 12 + 4 * n
      /\ IntAt(data, 1) = r.error_code
      /\ IntAt(data, 2) = r.path_length
      /\ IntAt(data, 3) = n
      /\ \A k \in 1 .. n : IntAt(data, k + 3) = r.path[k]
    <2>1. /\ Len(data) = 4 * (3 + n)
          /\ \A i \in 1 .. 3 + n : IntAt(data, i) = ints[i]
        BY <1>2, <1>3, <1>4, FlatKeepsInts
    <2>2. /\ 1 \in 1 .. 3 + n /\ 2 \in 1 .. 3 + n /\ 3 \in 1 .. 3 + n
          /\ \A k \in 1 .. n : k + 3 \in 1 .. 3 + n
          /\ 4 * (3 + n) = 12 + 4 * n
        BY <1>2, SMT
    <2>3. \A k \in 1 .. n : IntAt(data, k + 3) = r.path[k]
        BY <1>3, <2>1, <2>2, Zenon
    <2>4. QED
        BY <1>3, <2>1, <2>2, <2>3, Zenon
<1>6. [k \in 1 .. n |-> IntAt(data, k + 3)] = r.path
    <2>1. r.path = [k \in 1 .. n |-> r.path[k]]
        BY <1>1
    <2>2. QED
        BY <1>5, <2>1, Zenon
<1>7. r = [error_code |-> r.error_code, path_length |-> r.path_length, path |-> r.path]
    BY DEF ServerResponse
<1>8. BytesToResponse(data) = r
    BY <1>5, <1>6, <1>7 DEF BytesToResponse
<1>9. ResponseIsWhole(data)
    BY <1>2, <1>5 DEF ResponseIsWhole
<1>10. QED
    BY <1>8, <1>9 DEF data
-----------------------------------------------------------------------------
(* A word without a sign is read back by Unsigned. *)
LEMMA WordSurvives ==
    ASSUME NEW n \in 0 .. Words - 1
    PROVE  /\ n \in Int
           /\ Bytes(n) \in Seq(Byte)
           /\ Len(Bytes(n)) = 4
           /\ Unsigned(Bytes(n)) = n
<1>1. n \in Int /\ ~ (n < 0)
    BY WordsIsEven, SMT
<1>2. Bytes(n) = UnsignedBytes(n)
    BY <1>1 DEF Bytes
<1>3. QED
    BY <1>1, <1>2, Digits

(* The header of a packet, and what stands where in it. *)
LEMMA HeaderWords ==
    ASSUME NEW type \in Byte, NEW id \in 0 .. Words - 1, NEW n \in 0 .. Words - 1
    PROVE  /\ Header(type, id, n) \in Seq(Byte)
           /\ Len(Header(type, id, n)) = 12
           /\ Header(type, id, n)[1] = type
           /\ WordAt(Header(type, id, n), 2) = Bytes(id)
           /\ WordAt(Header(type, id, n), 3) = Bytes(n)
<1> DEFINE ints == <<id, n>>
           F    == Flat(ints)
<1>1. /\ ints \in Seq(Int) /\ Len(ints) = 2
      /\ \A i \in 1 .. 2 : Bytes(ints[i]) \in Seq(Byte) /\ Len(Bytes(ints[i])) = 4
    <2>1. \A i \in 1 .. 2 : ints[i] \in 0 .. Words - 1
        OBVIOUS
    <2>2. QED
        BY <2>1, WordSurvives
<1>2. ints[1] = id /\ ints[2] = n
    OBVIOUS
<1> HIDE DEF ints
<1>3. /\ F \in Seq(Byte) /\ Len(F) = 8
      /\ WordAt(F, 1) = Bytes(id) /\ WordAt(F, 2) = Bytes(n)
    <2>1. /\ F \in Seq(Byte) /\ Len(F) = 4 * 2
          /\ \A i \in 1 .. 2 : WordAt(F, i) = Bytes(ints[i])
        BY <1>1, FlatKeepsBytes
    <2>2. 4 * 2 = 8 /\ 1 \in 1 .. 2 /\ 2 \in 1 .. 2
        BY SMT
    <2> HIDE DEF F
    <2>3. QED
        BY <1>2, <2>1, <2>2
<1>4. Header(type, id, n) = <<type, 0, 0, 0>> \o F
    BY DEF Header, ints
<1>5. <<type, 0, 0, 0>> \in Seq(Byte)
    BY WireFormatAssumption, SMT DEF Byte
<1> HIDE DEF F
<1>6. /\ Header(type, id, n) \in Seq(Byte)
      /\ Len(Header(type, id, n)) = 12
      /\ Header(type, id, n)[1] = type
      /\ \A k \in 1 .. 8 : Header(type, id, n)[4 + k] = F[k]
    <2> DEFINE front == <<type, 0, 0, 0>>
    <2>1. Len(front) = 4 /\ front[1] = type /\ front \in Seq(Byte)
        BY <1>5
    <2> HIDE DEF front
    <2>2. /\ front \o F \in Seq(Byte) /\ Len(front \o F) = Len(front) + Len(F)
          /\ \A k \in 1 .. Len(front) : (front \o F)[k] = front[k]
          /\ \A k \in 1 .. Len(F) : (front \o F)[Len(front) + k] = F[k]
        BY <1>3, <2>1, Parts
    <2>3. 4 + 8 = 12 /\ 1 \in 1 .. 4
        BY SMT
    <2>4. QED
        BY <1>3, <1>4, <2>1, <2>2, <2>3 DEF front
<1>7. /\ WordAt(Header(type, id, n), 2) = WordAt(F, 1)
      /\ WordAt(Header(type, id, n), 3) = WordAt(F, 2)
    BY <1>6 DEF WordAt
<1>8. QED
    BY <1>3, <1>6, <1>7

(* A packet arrives with the type, the id and the payload it was made of,  *)
(* and no payload is too long for its length field.                        *)
THEOREM PacketSurvives ==
    ASSUME NEW id \in 0 .. Words - 1, NEW payload \in Seq(Byte), Len(payload) < Words
    PROVE  /\ ParsePacket(CreateDataPacket(id, payload)) =
                  [type |-> PACKET_DATA, packet_id |-> id,
                   data_len |-> Len(payload), payload |-> payload]
           /\ ParsePacket(CreateAckPacket(id)) =
                  [type |-> PACKET_ACK, packet_id |-> id, data_len |-> 0, payload |-> << >>]
<1>1. ASSUME NEW type \in Byte, NEW p \in Seq(Byte), Len(p) < Words
      PROVE  ParsePacket(Header(type, id, Len(p)) \o p) =
                 [type |-> type, packet_id |-> id, data_len |-> Len(p), payload |-> p]
    <2> DEFINE n      == Len(p)
               header == Header(type, id, n)
               packet == header \o p
    <2>1. n \in 0 .. Words - 1 /\ n \in Nat
        BY <1>1, WordsIsEven, SMT
    <2>2. /\ header \in Seq(Byte) /\ Len(header) = 12 /\ header[1] = type
          /\ WordAt(header, 2) = Bytes(id) /\ WordAt(header, 3) = Bytes(n)
        <3> HIDE DEF n
        <3>1. QED
            BY <2>1, HeaderWords
    <2> HIDE DEF header
    <2>3. /\ Len(packet) = 12 + n
          /\ \A k \in 1 .. 12 : packet[k] = header[k]
          /\ \A k \in 1 .. n : packet[12 + k] = p[k]
          /\ packet \in Seq(Byte)
        <3>1. /\ Len(packet) = Len(header) + Len(p)
              /\ \A k \in 1 .. Len(header) : packet[k] = header[k]
              /\ \A k \in 1 .. Len(p) : packet[Len(header) + k] = p[k]
              /\ packet \in Seq(Byte)
            BY <1>1, <2>2, Parts
        <3> HIDE DEF packet
        <3>2. QED
            BY <2>2, <3>1
    <2>4. p = [k \in 1 .. n |-> p[k]]
        OBVIOUS
    <2> HIDE DEF packet, n
    <2>5. packet[1] = type /\ ~ (Len(packet) < 12)
        BY <2>1, <2>2, <2>3
    <2>6. WordAt(packet, 2) = Bytes(id) /\ WordAt(packet, 3) = Bytes(n)
        BY <2>2, <2>3 DEF WordAt
    <2>7. Unsigned(WordAt(packet, 2)) = id /\ Unsigned(WordAt(packet, 3)) = n
        BY <2>1, <2>6, WordSurvives
    <2>8. SubSeq(packet, 13, Len(packet)) = p
        <3>1. SubSeq(packet, 13, 12 + n) = [k \in 1 .. n |-> packet[12 + k]]
            BY <2>1, <2>3, SMTT(30)
        <3>2. QED
            BY <2>3, <2>4, <3>1, Zenon
    <2>9. ParsePacket(packet) =
              [type |-> type, packet_id |-> id, data_len |-> n, payload |-> p]
        BY <2>5, <2>7, <2>8, Zenon DEF ParsePacket
    <2>10. QED
        BY <2>9 DEF n, packet, header
<1>2. PACKET_DATA \in Byte /\ PACKET_ACK \in Byte
    BY WireFormatAssumption, SMT DEF Byte, PACKET_DATA, PACKET_ACK
<1>3. ParsePacket(CreateDataPacket(id, payload)) =
          [type |-> PACKET_DATA, packet_id |-> id,
           data_len |-> Len(payload), payload |-> payload]
    BY <1>1, <1>2 DEF CreateDataPacket
<1>4. ParsePacket(CreateAckPacket(id)) =
          [type |-> PACKET_ACK, packet_id |-> id, data_len |-> 0, payload |-> << >>]
    <2>1. 0 \in 0 .. Words - 1
        BY WordsIsEven, SMT
    <2>2. Header(PACKET_ACK, id, 0) \in Seq(Byte)
        BY <1>2, <2>1, HeaderWords
    <2>3. CreateAckPacket(id) = Header(PACKET_ACK, id, 0) \o << >>
        BY <2>2 DEF CreateAckPacket
    <2>4. << >> \in Seq(Byte) /\ Len(<< >>) = 0 /\ Len(<< >>) < Words
        BY WordsIsEven, SMT
    <2>5. QED
        BY <1>1, <1>2, <2>3, <2>4
<1>5. QED
    BY <1>3, <1>4
=============================================================================

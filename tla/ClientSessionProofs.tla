--------------------------- MODULE ClientSessionProofs ---------------------------
(***************************************************************************)
(* Theorems about ClientSession, for every script, graph and limits.       *)
(***************************************************************************)
EXTENDS ClientSession, LeastNumber, SequenceTheorems, FiniteSetTheorems, TLAPS

-----------------------------------------------------------------------------
(***************************************************************************)
(* The numbering of the vertices.                                          *)
(***************************************************************************)
LEMMA EndsFacts ==
    ASSUME stringEdges \in Seq(Names \X Names)
    PROVE  /\ Len(stringEdges) \in Nat /\ DOMAIN stringEdges = 1 .. Len(stringEdges)
           /\ Ends \in [1 .. 2 * Len(stringEdges) -> Names]
           /\ \A e \in DOMAIN stringEdges :
                  /\ stringEdges[e] = <<stringEdges[e][1], stringEdges[e][2]>>
                  /\ stringEdges[e][1] \in Vertices
                  /\ stringEdges[e][2] \in Vertices
           /\ \A x \in Vertices : \E e \in DOMAIN stringEdges :
                  x \in {stringEdges[e][1], stringEdges[e][2]}
<1>1. Len(stringEdges) \in Nat /\ DOMAIN stringEdges = 1 .. Len(stringEdges)
  BY LenProperties
<1>2. \A e \in DOMAIN stringEdges : stringEdges[e] \in Names \X Names
  BY ElementOfSeq, <1>1
<1>3. ASSUME NEW k \in 1 .. 2 * Len(stringEdges)
      PROVE  /\ (k + 1) \div 2 \in DOMAIN stringEdges
             /\ 2 - (k % 2) \in {1, 2}
             /\ Ends[k] = stringEdges[(k + 1) \div 2][2 - (k % 2)]
  <2>1. (k + 1) \div 2 \in 1 .. Len(stringEdges)
    BY <1>1
  <2>2. k % 2 \in {0, 1}
    OBVIOUS
  <2>3. Ends[k] = stringEdges[(k + 1) \div 2][2 - (k % 2)]
    BY DEF Ends
  <2> QED BY <1>1, <2>1, <2>2, <2>3
<1>4. ASSUME NEW k \in 1 .. 2 * Len(stringEdges)
      PROVE  /\ Ends[k] \in Names
             /\ \E e \in DOMAIN stringEdges : Ends[k] \in {stringEdges[e][1], stringEdges[e][2]}
  <2>1. PICK e \in DOMAIN stringEdges : Ends[k] \in {stringEdges[e][1], stringEdges[e][2]}
    BY <1>3
  <2>2. stringEdges[e][1] \in Names /\ stringEdges[e][2] \in Names
    BY <1>2
  <2> QED BY <2>1, <2>2
<1>5. Ends \in [1 .. 2 * Len(stringEdges) -> Names]
  BY <1>4 DEF Ends
<1>6. ASSUME NEW e \in DOMAIN stringEdges
      PROVE  /\ stringEdges[e][1] \in Vertices
             /\ stringEdges[e][2] \in Vertices
  <2>1. /\ 2 * e - 1 \in 1 .. 2 * Len(stringEdges) /\ 2 * e \in 1 .. 2 * Len(stringEdges)
    BY <1>1
  <2>2. e \in Nat
    BY <1>1
  <2>3. (2 * e - 1 + 1) \div 2 = e /\ (2 * e - 1) % 2 = 1
    BY <2>2
  <2>4. (2 * e + 1) \div 2 = e /\ (2 * e) % 2 = 0
    BY <2>2
  <2>5. Ends[2 * e - 1] = stringEdges[e][2 - 1]
    BY <1>3, <2>1, <2>3
  <2>6. Ends[2 * e] = stringEdges[e][2 - 0]
    BY <1>3, <2>1, <2>4
  <2>7. Ends[2 * e - 1] = stringEdges[e][1] /\ Ends[2 * e] = stringEdges[e][2]
    BY <2>5, <2>6
  <2>8. Ends[2 * e - 1] \in Vertices /\ Ends[2 * e] \in Vertices
    BY <1>5, <2>1 DEF Vertices
  <2> QED BY <2>7, <2>8
<1>7. ASSUME NEW x \in Vertices
      PROVE  \E e \in DOMAIN stringEdges : x \in {stringEdges[e][1], stringEdges[e][2]}
  <2>1. PICK k \in 1 .. 2 * Len(stringEdges) : x = Ends[k]
    BY <1>5 DEF Vertices
  <2> QED BY <1>4, <2>1
<1>8. \A e \in DOMAIN stringEdges : stringEdges[e] = <<stringEdges[e][1], stringEdges[e][2]>>
  BY <1>2
<1> QED BY <1>1, <1>5, <1>6, <1>7, <1>8

LEMMA FirstFacts ==
    ASSUME stringEdges \in Seq(Names \X Names), NEW x \in Vertices
    PROVE  /\ First(x) \in DOMAIN Ends /\ First(x) \in Nat /\ First(x) >= 1
           /\ Ends[First(x)] = x
           /\ \A j \in 1 .. First(x) - 1 : Ends[j] # x
<1>1. DOMAIN Ends = 1 .. 2 * Len(stringEdges) /\ Len(stringEdges) \in Nat
  BY EndsFacts
<1> DEFINE T == {k \in DOMAIN Ends : Ends[k] = x}
<1>2. T \subseteq Nat /\ T # {}
  BY <1>1 DEF Vertices
<1>3. PICK k \in T : \A j \in T : k <= j
  BY <1>2, LeastElement
<1>4. k \in DOMAIN Ends /\ Ends[k] = x /\ \A j \in 1 .. k - 1 : Ends[j] # x
  BY <1>1, <1>3
<1>5. First(x) \in DOMAIN Ends /\ Ends[First(x)] = x /\ \A j \in 1 .. First(x) - 1 : Ends[j] # x
  BY <1>4 DEF First
<1> QED BY <1>1, <1>5

LEMMA VerticesFinite ==
    ASSUME stringEdges \in Seq(Names \X Names)
    PROVE  /\ IsFiniteSet(Vertices)
           /\ \A k \in Nat : k <= 2 * Len(stringEdges) + 1 => Before(k) \subseteq Vertices
<1>1. Len(stringEdges) \in Nat /\ DOMAIN Ends = 1 .. 2 * Len(stringEdges)
  BY EndsFacts
<1>2. IsFiniteSet(1 .. 2 * Len(stringEdges))
  BY <1>1, FS_Interval
<1>3. Ends \in Surjection(1 .. 2 * Len(stringEdges), Vertices)
  BY <1>1, EndsFacts DEF Surjection, Vertices
<1>4. IsFiniteSet(Vertices)
  BY <1>2, <1>3, FS_Surjection
<1>5. ASSUME NEW k \in Nat, k <= 2 * Len(stringEdges) + 1 PROVE Before(k) \subseteq Vertices
  BY <1>1, <1>5 DEF Before, Vertices
<1> QED BY <1>4, <1>5

(* A name that comes first earlier has the smaller index. *)
LEMMA IndexGrows ==
    ASSUME stringEdges \in Seq(Names \X Names),
           NEW x \in Vertices, NEW y \in Vertices, First(x) < First(y)
    PROVE  Index(x) < Index(y)
<1>1. /\ First(x) \in Nat /\ First(y) \in Nat /\ First(x) >= 1
      /\ First(y) <= 2 * Len(stringEdges) + 1
      /\ Ends[First(x)] = x
      /\ \A j \in 1 .. First(x) - 1 : Ends[j] # x
  <2>1. DOMAIN Ends = 1 .. 2 * Len(stringEdges) /\ Len(stringEdges) \in Nat
    BY EndsFacts
  <2>2. First(y) \in 1 .. 2 * Len(stringEdges)
    BY <2>1, FirstFacts
  <2> QED BY <2>1, <2>2, FirstFacts
<1>2. Before(First(y)) \subseteq Vertices /\ IsFiniteSet(Vertices)
  BY <1>1, VerticesFinite
<1>3. Before(First(x)) \subseteq Before(First(y)) /\ x \in Before(First(y)) /\ x \notin Before(First(x))
  BY <1>1 DEF Before
<1>4. IsFiniteSet(Before(First(y)))
  BY <1>2, FS_Subset
<1>5. /\ Cardinality(Before(First(x))) <= Cardinality(Before(First(y)))
      /\ Cardinality(Before(First(x))) # Cardinality(Before(First(y)))
  BY <1>3, <1>4, FS_Subset
<1>6. Cardinality(Before(First(x))) \in Nat /\ Cardinality(Before(First(y))) \in Nat
  BY <1>3, <1>4, FS_Subset, FS_CardinalityType
<1> QED BY <1>5, <1>6 DEF Index

LEMMA IndexFacts ==
    ASSUME stringEdges \in Seq(Names \X Names)
    PROVE  /\ IsFiniteSet(Vertices) /\ Cardinality(Vertices) \in Nat
           /\ \A x \in Vertices : Index(x) \in 0 .. Cardinality(Vertices) - 1
           /\ \A x, y \in Vertices : Index(x) = Index(y) => x = y
           /\ \A x \in Vertices : NameOf(Index(x)) = x
<1>1. IsFiniteSet(Vertices) /\ Cardinality(Vertices) \in Nat
  BY VerticesFinite, FS_CardinalityType
<1>2. ASSUME NEW x \in Vertices PROVE Index(x) \in 0 .. Cardinality(Vertices) - 1
  <2>1. Before(First(x)) \subseteq Vertices /\ x \notin Before(First(x))
    <3>1. First(x) \in Nat /\ First(x) <= 2 * Len(stringEdges) + 1
      BY FirstFacts, EndsFacts
    <3> QED BY <3>1, FirstFacts, VerticesFinite DEF Before
  <2>2. /\ IsFiniteSet(Before(First(x)))
        /\ Cardinality(Before(First(x))) <= Cardinality(Vertices)
        /\ Cardinality(Before(First(x))) # Cardinality(Vertices)
    BY <1>1, <2>1, FS_Subset
  <2>3. Cardinality(Before(First(x))) \in Nat
    BY <2>2, FS_CardinalityType
  <2> QED BY <1>1, <2>2, <2>3 DEF Index
<1>3. ASSUME NEW x \in Vertices, NEW y \in Vertices, Index(x) = Index(y) PROVE x = y
  <2>1. First(x) \in Nat /\ First(y) \in Nat /\ Ends[First(x)] = x /\ Ends[First(y)] = y
    BY FirstFacts
  <2>2. Index(x) \in Nat /\ Index(y) \in Nat
    BY <1>1, <1>2
  <2>3. ~ (First(x) < First(y)) /\ ~ (First(y) < First(x))
    <3>1. ASSUME First(x) < First(y) PROVE FALSE
      BY <1>3, <2>2, <3>1, IndexGrows
    <3>2. ASSUME First(y) < First(x) PROVE FALSE
      BY <1>3, <2>2, <3>2, IndexGrows
    <3> QED BY <3>1, <3>2
  <2> QED BY <2>1, <2>3
<1>4. ASSUME NEW x \in Vertices PROVE NameOf(Index(x)) = x
  BY <1>3 DEF NameOf
<1> QED BY <1>1, <1>2, <1>3, <1>4
-----------------------------------------------------------------------------
(***************************************************************************)
(* The lines.  An even number of them is left at the prompt for a graph,   *)
(* unless the graph before was not accepted; then the next line is one for *)
(* vertices, which is never accepted as a graph.                           *)
(***************************************************************************)
Odd(n) == n % 2 = 1

Paired ==
    \A k \in DOMAIN typed :
        IF Odd(Len(typed) - k)
        THEN k + 1 \in DOMAIN typed /\ typed[k + 1].pair = typed[k].pair
        ELSE typed[k].line.kind # "file" /\ Len(typed[k].line.edges) <= 1

(* The next line is the one that was typed with the graph in hand. *)
AtItsVertices == typed # << >> /\ Odd(Len(typed)) /\ typed[1].pair = graphPair

Placed ==
    /\ pc \in {"read", "vertices"} => AtItsVertices
    /\ pc = "number" => AtItsVertices \/ Len(stringEdges) <= 1

Requested ==
    /\ pc \in {"vertices", "send", "show"} => ValidGraphSize
    /\ pc \in {"send", "show"} =>
           /\ names \in Vertices \X Vertices
           /\ request = NumericRequest(names[1], names[2])
    /\ pc = "show" =>
           /\ Server!ResponseIsRight
           /\ response.error_code # "none"
           /\ response.error_code = "SUCCESS" => response.path # << >>
    /\ shown # << >> => pc = "graph" /\ names \in Vertices \X Vertices

SessionInv ==
    /\ TypeOK
    /\ Paired
    /\ Placed
    /\ InStep
    /\ Requested
    /\ ShownPathIsRight

LEMMA FunctionIsSeq ==
    ASSUME NEW S, NEW n \in Nat, NEW f \in [1 .. n -> S]
    PROVE  f \in Seq(S) /\ Len(f) = n /\ DOMAIN f = 1 .. n
<1>1. f \in Seq(S)
  BY SeqDef
<1> QED BY <1>1, LenProperties

LEMMA GetLineFacts ==
    ASSUME TypeOK, Paired, NEW item \in Item, GetLine(item)
    PROVE  /\ item.pair \in Nat /\ item.line \in Line
           /\ typed' \in Seq([pair : Nat, line : Line])
           /\ Paired'
           /\ \/ item.line = EmptyLine
              \/ item.line.kind # "file" /\ Len(item.line.edges) <= 1
              \/ typed' # << >> /\ Odd(Len(typed')) /\ typed'[1].pair = item.pair
           /\ typed # << >> => item = typed[1]
<1>1. /\ typed \in Seq([pair : Nat, line : Line])
      /\ Len(typed) \in Nat /\ DOMAIN typed = 1 .. Len(typed)
      /\ \A k \in DOMAIN typed : typed[k].pair \in Nat /\ typed[k].line \in Line
  <2>1. typed \in Seq([pair : Nat, line : Line])
    BY DEF TypeOK
  <2>2. \A k \in DOMAIN typed : typed[k] \in [pair : Nat, line : Line]
    BY <2>1, ElementOfSeq, LenProperties
  <2> QED BY <2>1, <2>2, LenProperties
<1>2. EmptyLine \in Line
  BY DEF EmptyLine, Line
<1>3. CASE typed = << >>
  BY <1>1, <1>2, <1>3 DEF GetLine, Paired
<1>4. CASE typed # << >>
  <2>1. /\ item = typed[1] /\ 1 \in DOMAIN typed
        /\ typed' = Tail(typed) /\ typed' \in Seq([pair : Nat, line : Line])
        /\ Len(typed') = Len(typed) - 1 /\ DOMAIN typed' = 1 .. Len(typed) - 1
        /\ \A k \in DOMAIN typed' : typed'[k] = typed[k + 1]
    <3>1. item = Head(typed) /\ typed' = Tail(typed)
      BY <1>4 DEF GetLine
    <3>2. /\ Tail(typed) \in Seq([pair : Nat, line : Line]) /\ Len(Tail(typed)) = Len(typed) - 1
          /\ \A k \in 1 .. Len(typed) - 1 : Tail(typed)[k] = typed[k + 1]
      BY <1>1, <1>4, HeadTailProperties
    <3>3. Head(typed) = typed[1] /\ 1 \in DOMAIN typed
      BY <1>1, <1>4, EmptySeq
    <3>4. DOMAIN Tail(typed) = 1 .. Len(typed) - 1
      BY <3>2, LenProperties
    <3> QED BY <3>1, <3>2, <3>3, <3>4
  <2>2. ASSUME NEW k \in DOMAIN typed'
        PROVE  IF Odd(Len(typed') - k)
               THEN k + 1 \in DOMAIN typed' /\ typed'[k + 1].pair = typed'[k].pair
               ELSE typed'[k].line.kind # "file" /\ Len(typed'[k].line.edges) <= 1
    <3>1. k + 1 \in DOMAIN typed /\ Len(typed') - k = Len(typed) - (k + 1)
      BY <1>1, <2>1
    <3>2. k + 1 + 1 \in DOMAIN typed => k + 1 \in DOMAIN typed'
      BY <1>1, <2>1
    <3> QED BY <2>1, <3>1, <3>2 DEF Paired
  <2>3. CASE Odd(Len(typed) - 1)
    <3>1. 2 \in DOMAIN typed /\ typed[2].pair = typed[1].pair
      BY <2>1, <2>3 DEF Paired
    <3>2. 1 \in DOMAIN typed' /\ typed'[1] = typed[2]
      BY <1>1, <2>1, <3>1
    <3> QED BY <1>1, <2>1, <2>2, <2>3, <3>1, <3>2 DEF Paired
  <2>4. CASE ~ Odd(Len(typed) - 1)
    BY <1>1, <2>1, <2>2, <2>4 DEF Paired
  <2> QED BY <2>3, <2>4
<1> QED BY <1>3, <1>4

LEMMA SessionInit == Init => SessionInv
<1> SUFFICES ASSUME Init PROVE SessionInv
  OBVIOUS
<1> DEFINE Item0 == [pair : Nat, line : Line]
<1>1. PICK script \in Scripts : typed = Input(script)
  BY DEF Init
<1>2. /\ script \in Seq(Line \X {l \in Line : l.kind # "file" /\ Len(l.edges) <= 1})
      /\ Len(script) \in Nat /\ DOMAIN script = 1 .. Len(script)
  BY SessionAssumption, LenProperties
<1>3. \A m \in 1 .. Len(script) : /\ script[m][1] \in Line /\ script[m][2] \in Line
                                  /\ script[m][2].kind # "file" /\ Len(script[m][2].edges) <= 1
  <2>1. \A m \in 1 .. Len(script) :
            script[m] \in Line \X {l \in Line : l.kind # "file" /\ Len(l.edges) <= 1}
    BY <1>2, ElementOfSeq
  <2> QED BY <2>1
<1>4. ASSUME NEW k \in 1 .. 2 * Len(script)
      PROVE  \E m \in 1 .. Len(script) :
                 /\ k \in {2 * m - 1, 2 * m}
                 /\ typed[k] \in Item0 /\ typed[k].pair = m
                 /\ k = 2 * m => typed[k].line = script[m][2]
  <2>1. PICK m \in 1 .. Len(script) : m = (k + 1) \div 2
    BY <1>2
  <2>2. k \in {2 * m - 1, 2 * m} /\ (k = 2 * m <=> k % 2 = 0) /\ k % 2 \in {0, 1}
    <3>1. k \in Nat /\ m \in Nat /\ m = (k + 1) \div 2
      BY <1>2, <2>1
    <3>2. k % 2 \in {0, 1}
      BY <3>1
    <3>3. k % 2 = 0 => k = 2 * m
      BY <3>1
    <3>4. k % 2 = 1 => k = 2 * m - 1
      BY <3>1
    <3> QED BY <3>1, <3>2, <3>3, <3>4
  <2>3. typed[k] = [pair |-> m, line |-> script[m][2 - (k % 2)]]
    BY <1>1, <2>1 DEF Input
  <2>4. CASE k % 2 = 0
    <3>1. typed[k] = [pair |-> m, line |-> script[m][2]]
      BY <2>3, <2>4
    <3>2. script[m][2] \in Line /\ m \in Nat
      BY <1>2, <1>3
    <3> QED BY <2>2, <2>4, <3>1, <3>2
  <2>5. CASE k % 2 = 1
    <3>1. typed[k] = [pair |-> m, line |-> script[m][1]]
      BY <2>3, <2>5
    <3>2. script[m][1] \in Line /\ m \in Nat
      BY <1>2, <1>3
    <3> QED BY <2>2, <2>5, <3>1, <3>2
  <2> QED BY <2>2, <2>4, <2>5
<1>5. typed \in [1 .. 2 * Len(script) -> Item0]
  <2>1. \A k \in 1 .. 2 * Len(script) : typed[k] \in Item0
    BY <1>4
  <2> QED BY <1>1, <2>1 DEF Input
<1>6. typed \in Seq(Item0) /\ Len(typed) = 2 * Len(script) /\ DOMAIN typed = 1 .. 2 * Len(script)
  <2>1. 2 * Len(script) \in Nat
    BY <1>2
  <2> QED BY <1>5, <2>1, FunctionIsSeq
<1>7. Paired
  <2>1. ASSUME NEW k \in DOMAIN typed, Odd(Len(typed) - k)
        PROVE  k + 1 \in DOMAIN typed /\ typed[k + 1].pair = typed[k].pair
    <3>1. k \in 1 .. 2 * Len(script)
      BY <1>6
    <3>2. PICK m \in 1 .. Len(script) : k \in {2 * m - 1, 2 * m} /\ typed[k].pair = m
      BY <1>4, <3>1
    <3>3. k = 2 * m - 1
      BY <1>2, <1>6, <2>1, <3>2 DEF Odd
    <3>4. k + 1 \in 1 .. 2 * Len(script)
      BY <1>2, <3>3
    <3>5. PICK l \in 1 .. Len(script) : k + 1 \in {2 * l - 1, 2 * l} /\ typed[k + 1].pair = l
      BY <1>4, <3>4
    <3>6. l = m
      BY <3>3, <3>5
    <3> QED BY <1>6, <3>2, <3>4, <3>5, <3>6
  <2>2. ASSUME NEW k \in DOMAIN typed, ~ Odd(Len(typed) - k)
        PROVE  typed[k].line.kind # "file" /\ Len(typed[k].line.edges) <= 1
    <3>1. PICK m \in 1 .. Len(script) : /\ k \in {2 * m - 1, 2 * m}
                                        /\ k = 2 * m => typed[k].line = script[m][2]
      BY <1>4, <1>6
    <3>2. k = 2 * m
      BY <1>2, <1>6, <2>2, <3>1 DEF Odd
    <3> QED BY <1>3, <3>1, <3>2
  <2> QED BY <2>1, <2>2 DEF Paired
<1>8. TypeOK
  <2>1. NoRequest \in Server!Request
    BY SessionAssumption DEF NoRequest, Server!Request, Server!Node, MaxIndex
  <2>2. NoResponse \in Server!Response
    BY DEF NoResponse, Server!Failure, Server!Response
  <2> QED BY <1>6, <2>1, <2>2, SessionAssumption DEF Init, TypeOK, Places
<1> QED BY <1>7, <1>8
        DEF Init, SessionInv, Placed, InStep, Requested, ShownPathIsRight
-----------------------------------------------------------------------------
(***************************************************************************)
(* The steps.  Numbering depends on the graph only, and one edge does not  *)
(* make a graph that is accepted.                                          *)
(***************************************************************************)
LEMMA SameGraph ==
    ASSUME stringEdges' = stringEdges
    PROVE  /\ Vertices' = Vertices /\ (ValidGraphSize' <=> ValidGraphSize)
           /\ \A x : Index(x)' = Index(x)
           /\ \A x, y : NumericRequest(x, y)' = NumericRequest(x, y)
           /\ \A x, y : JoinsNames(x, y)' <=> JoinsNames(x, y)
<1>1. Ends' = Ends
  BY DEF Ends
<1>2. Vertices' = Vertices
  BY <1>1 DEF Vertices
<1>3. \A x : First(x)' = First(x)
  BY <1>1 DEF First
<1>4. \A x : Index(x)' = Index(x)
  BY <1>1, <1>3 DEF Index, Before
<1> QED BY <1>2, <1>4 DEF ValidGraphSize, NumericRequest, JoinsNames

LEMMA OneEdgeIsTooSmall ==
    ASSUME stringEdges \in Seq(Names \X Names), Len(stringEdges) <= 1
    PROVE  ~ ValidGraphSize
<1>1. Len(stringEdges) \in Nat /\ DOMAIN stringEdges = 1 .. Len(stringEdges)
  BY EndsFacts
<1> DEFINE e == stringEdges[1]
<1>2. Vertices \subseteq {e[1], e[2]}
  <2>1. ASSUME NEW x \in Vertices PROVE x \in {e[1], e[2]}
    <3>1. PICK k \in DOMAIN stringEdges : x \in {stringEdges[k][1], stringEdges[k][2]}
      BY EndsFacts
    <3>2. k = 1
      BY <1>1
    <3> QED BY <3>1, <3>2
  <2> QED BY <2>1
<1>3. IsFiniteSet({e[1], e[2]}) /\ Cardinality({e[1], e[2]}) <= 2
  <2>1. IsFiniteSet({e[1]}) /\ Cardinality({e[1]}) = 1
    BY FS_Singleton
  <2>2. {e[1], e[2]} = {e[1]} \cup {e[2]}
    OBVIOUS
  <2>3. /\ IsFiniteSet({e[1]} \cup {e[2]})
        /\ Cardinality({e[1]} \cup {e[2]}) = IF e[2] \in {e[1]} THEN 1 ELSE 1 + 1
    BY <2>1, FS_AddElement
  <2> QED BY <2>2, <2>3
<1>4. Cardinality(Vertices) <= Cardinality({e[1], e[2]})
  BY <1>2, <1>3, FS_Subset
<1>5. Cardinality(Vertices) \in Nat /\ Cardinality({e[1], e[2]}) \in Nat
  BY <1>3, IndexFacts, FS_CardinalityType
<1> QED BY <1>3, <1>4, <1>5, SessionAssumption DEF ValidGraphSize

(* Away from the prompt for the graph no path is on the screen. *)
LEMMA NothingShown == SessionInv /\ pc # "graph" => shown = << >>
BY DEF SessionInv, Requested

LEMMA StepEnterGraph == SessionInv /\ EnterGraph => SessionInv'
<1> SUFFICES ASSUME SessionInv, EnterGraph PROVE SessionInv'
  OBVIOUS
<1>1. TypeOK /\ Paired
  BY DEF SessionInv
<1>2. PICK item \in Item :
          /\ GetLine(item) /\ graphPair' = item.pair
          /\ \/ pc' \in {"exited", "graph"} /\ stringEdges' = << >>
             \/ item.line.kind = "file" /\ pc' = "read" /\ stringEdges' = << >>
             \/ /\ item.line.kind \in {"edges", "comma"}
                /\ pc' = "number" /\ stringEdges' = item.line.edges
  BY DEF EnterGraph, ParsesAsGraph
<1>3. /\ item.pair \in Nat /\ item.line \in Line
      /\ typed' \in Seq([pair : Nat, line : Line])
      /\ Paired'
      /\ \/ item.line = EmptyLine
         \/ item.line.kind # "file" /\ Len(item.line.edges) <= 1
         \/ typed' # << >> /\ Odd(Len(typed')) /\ typed'[1].pair = item.pair
  BY <1>1, <1>2, GetLineFacts
<1>4. shown' = << >> /\ UNCHANGED <<stdin, file, writes, names, request, response, verticesPair>>
  BY DEF EnterGraph
<1>5. stringEdges' \in Seq(Names \X Names)
  <2>1. item.line.edges \in Seq(Names \X Names)
    BY <1>3 DEF Line
  <2> QED BY <1>2, <2>1, EmptySeq
<1>6. TypeOK'
  BY <1>1, <1>2, <1>3, <1>4, <1>5 DEF TypeOK, Places
<1>7. Placed'
  BY <1>2, <1>3 DEF Placed, AtItsVertices, EmptyLine
<1>8. InStep' /\ Requested' /\ ShownPathIsRight'
  BY <1>2, <1>4 DEF InStep, Requested, ShownPathIsRight
<1> QED BY <1>3, <1>6, <1>7, <1>8 DEF SessionInv

LEMMA StepReadFile == SessionInv /\ ReadFile => SessionInv'
<1> SUFFICES ASSUME SessionInv, ReadFile PROVE SessionInv'
  OBVIOUS
<1>1. TypeOK /\ Paired /\ AtItsVertices /\ shown = << >> /\ pc' \in {"number", "graph"}
      /\ UNCHANGED <<typed, stdin, file, writes, names, request, response, shown,
                     graphPair, verticesPair>>
  BY NothingShown DEF SessionInv, Placed, ReadFile
<1>2. stringEdges' \in Seq(Names \X Names)
  <2>1. CASE UNCHANGED stringEdges
    BY <1>1, <2>1 DEF TypeOK
  <2>2. CASE \E k \in LinesToRead : ParsesAsGraph(file[k]) /\ stringEdges' = file[k].edges
    <3>1. PICK k \in LinesToRead :
              file[k].kind \in {"edges", "comma"} /\ stringEdges' = file[k].edges
      BY <2>2 DEF ParsesAsGraph
    <3>2. k \in DOMAIN file
      BY DEF LinesToRead
    <3>3. file # Missing
      BY <3>1, <3>2 DEF Missing
    <3>4. file[k] \in Line
      BY <1>1, <3>2, <3>3, SessionAssumption, ElementOfSeq, LenProperties DEF TypeOK
    <3> QED BY <3>1, <3>4 DEF Line
  <2> QED BY <2>1, <2>2 DEF ReadFile
<1>3. TypeOK'
  BY <1>1, <1>2 DEF TypeOK, Places
<1>4. Paired' /\ Placed'
  BY <1>1 DEF Paired, Placed, AtItsVertices
<1>5. InStep' /\ Requested' /\ ShownPathIsRight'
  BY <1>1 DEF InStep, Requested, ShownPathIsRight
<1> QED BY <1>3, <1>4, <1>5 DEF SessionInv

LEMMA StepNumberVertices == SessionInv /\ NumberVertices => SessionInv'
<1> SUFFICES ASSUME SessionInv, NumberVertices PROVE SessionInv'
  OBVIOUS
<1>1. TypeOK /\ Paired /\ shown = << >>
      /\ (AtItsVertices \/ Len(stringEdges) <= 1)
      /\ pc' = (IF ValidGraphSize THEN "vertices" ELSE "graph")
      /\ UNCHANGED <<typed, stdin, file, writes, stringEdges, names, request, response, shown,
                     graphPair, verticesPair>>
  BY NothingShown DEF SessionInv, Placed, NumberVertices
<1>2. pc' = "vertices" => ValidGraphSize /\ AtItsVertices
  BY <1>1, OneEdgeIsTooSmall DEF TypeOK
<1>3. TypeOK'
  BY <1>1 DEF TypeOK, Places
<1>4. Paired' /\ Placed'
  BY <1>1, <1>2 DEF Paired, Placed, AtItsVertices
<1>5. InStep' /\ Requested' /\ ShownPathIsRight'
  BY <1>1, <1>2, SameGraph DEF InStep, Requested, ShownPathIsRight
<1> QED BY <1>3, <1>4, <1>5 DEF SessionInv

(* The numbers of an accepted graph are those of the server's vertices. *)
LEMMA NumericRequestTypes ==
    ASSUME stringEdges \in Seq(Names \X Names), ValidGraphSize,
           NEW x \in Vertices, NEW y \in Vertices
    PROVE  /\ \A z \in Vertices : Index(z) \in Server!Node
           /\ NumericRequest(x, y) \in Server!Request
<1>1. ASSUME NEW z \in Vertices PROVE Index(z) \in Server!Node
  <2>1. Index(z) \in 0 .. Cardinality(Vertices) - 1 /\ Cardinality(Vertices) \in Nat
    BY IndexFacts
  <2> QED BY <2>1, SessionAssumption DEF Server!Node, MaxIndex, ValidGraphSize
<1> DEFINE es == NumericRequest(x, y).edges
<1>2. Len(stringEdges) \in Nat /\ DOMAIN stringEdges = 1 .. Len(stringEdges)
  BY EndsFacts
<1>3. es = [k \in 1 .. Len(stringEdges) |-> <<Index(stringEdges[k][1]), Index(stringEdges[k][2])>>]
  BY <1>2 DEF NumericRequest
<1>4. \A k \in 1 .. Len(stringEdges) :
          <<Index(stringEdges[k][1]), Index(stringEdges[k][2])>> \in Server!Node \X Server!Node
  BY <1>1, <1>2, EndsFacts
<1>5. es \in [1 .. Len(stringEdges) -> Server!Node \X Server!Node]
  BY <1>3, <1>4
<1>6. es \in Seq(Server!Node \X Server!Node)
  BY <1>2, <1>5, FunctionIsSeq
<1> QED BY <1>1, <1>6 DEF NumericRequest, Server!Request

LEMMA StepEnterVertices == SessionInv /\ EnterVertices => SessionInv'
<1> SUFFICES ASSUME SessionInv, EnterVertices PROVE SessionInv'
  OBVIOUS
<1>1. /\ TypeOK /\ Paired /\ AtItsVertices /\ ValidGraphSize /\ shown = << >>
      /\ stringEdges \in Seq(Names \X Names)
      /\ UNCHANGED <<stdin, file, writes, stringEdges, response, shown, graphPair>>
  BY NothingShown DEF SessionInv, Placed, Requested, EnterVertices, TypeOK
<1>2. PICK item \in Item :
          /\ GetLine(item) /\ verticesPair' = item.pair
          /\ LET l == item.line IN
             IF ParsesAsVertices(l) /\ {l.edges[1][1], l.edges[1][2]} \subseteq Vertices
             THEN /\ pc' = "send" /\ names' = l.edges[1]
                  /\ request' = NumericRequest(l.edges[1][1], l.edges[1][2])
             ELSE pc' = "graph" /\ UNCHANGED <<names, request>>
  BY DEF EnterVertices
<1>3. /\ item.pair \in Nat /\ item.line \in Line
      /\ typed' \in Seq([pair : Nat, line : Line])
      /\ Paired'
      /\ item = typed[1] /\ item.pair = graphPair
  BY <1>1, <1>2, GetLineFacts DEF AtItsVertices
<1>4. CASE pc' = "graph" /\ UNCHANGED <<names, request>>
  <2>1. TypeOK'
    BY <1>1, <1>2, <1>3, <1>4 DEF TypeOK, Places
  <2> QED BY <1>1, <1>3, <1>4, <2>1
          DEF SessionInv, Placed, InStep, Requested, ShownPathIsRight
<1>5. ASSUME ParsesAsVertices(item.line),
             {item.line.edges[1][1], item.line.edges[1][2]} \subseteq Vertices,
             pc' = "send", names' = item.line.edges[1],
             request' = NumericRequest(item.line.edges[1][1], item.line.edges[1][2])
      PROVE  SessionInv'
  <2>1. names' \in Names \X Names
    <3>1. item.line.edges \in Seq(Names \X Names) /\ Len(item.line.edges) = 1
      BY <1>3, <1>5 DEF Line, ParsesAsVertices
    <3> QED BY <1>5, <3>1, ElementOfSeq
  <2>2. names' \in Vertices \X Vertices /\ request' = NumericRequest(names'[1], names'[2])
    BY <1>5, <2>1
  <2>3. request' \in Server!Request
    BY <1>1, <2>2, NumericRequestTypes
  <2>4. TypeOK'
    BY <1>1, <1>2, <1>3, <1>5, <2>1, <2>3 DEF TypeOK, Places
  <2>5. InStep' /\ Placed'
    BY <1>1, <1>2, <1>3, <1>5 DEF InStep, Placed
  <2>6. Requested' /\ ShownPathIsRight'
    BY <1>1, <1>5, <2>2, SameGraph DEF Requested, ShownPathIsRight
  <2> QED BY <1>3, <2>4, <2>5, <2>6 DEF SessionInv
<1> QED BY <1>2, <1>4, <1>5

LEMMA StepSendRequest == SessionInv /\ SendRequest => SessionInv'
<1> SUFFICES ASSUME SessionInv, SendRequest PROVE SessionInv'
  OBVIOUS
<1>1. /\ TypeOK /\ Paired /\ ValidGraphSize /\ shown = << >> /\ InStep
      /\ names \in Vertices \X Vertices
      /\ request = NumericRequest(names[1], names[2])
      /\ pc = "send" /\ pc' \in {"show", "exited"}
      /\ UNCHANGED <<typed, stdin, file, writes, stringEdges, names, request, shown,
                     graphPair, verticesPair>>
  BY NothingShown DEF SessionInv, Requested, SendRequest
<1>2. ASSUME pc' = "show"
      PROVE  /\ Server!ResponseIsRight' /\ response' \in Server!Response
             /\ response'.error_code # "none"
             /\ response'.error_code = "SUCCESS" => response'.path # << >>
  <2>1. Server!ResponseIsRight'
    BY <1>2 DEF SendRequest
  <2>2. CASE \E n \in 1 .. MaxVertices : \E p \in [1 .. n -> Server!Node] :
                 response' = [error_code |-> "SUCCESS", path_length |-> Len(p) - 1, path |-> p]
    <3>0. PICK n \in 1 .. MaxVertices : \E p \in [1 .. n -> Server!Node] :
              response' = [error_code |-> "SUCCESS", path_length |-> Len(p) - 1, path |-> p]
      BY <2>2
    <3>1. PICK p \in [1 .. n -> Server!Node] :
              response' = [error_code |-> "SUCCESS", path_length |-> Len(p) - 1, path |-> p]
      BY <3>0
    <3>2. n \in Nat /\ n >= 1
      BY SessionAssumption
    <3>3. p \in Seq(Server!Node) /\ Len(p) = n
      BY <3>2, FunctionIsSeq
    <3>4. p # << >> /\ Len(p) - 1 \in Nat
      BY <3>2, <3>3
    <3> QED BY <2>1, <3>1, <3>3, <3>4 DEF Server!Response
  <2>3. CASE response' \in {Server!Failure("NO_PATH"), Server!Failure("INVALID_REQUEST")}
    <3>1. << >> \in Seq(Server!Node)
      BY EmptySeq
    <3>2. Server!Failure("NO_PATH") \in Server!Response
      BY <3>1 DEF Server!Failure, Server!Response
    <3>3. Server!Failure("INVALID_REQUEST") \in Server!Response
      BY <3>1 DEF Server!Failure, Server!Response
    <3>4. response'.error_code \in {"NO_PATH", "INVALID_REQUEST"}
      BY <2>3 DEF Server!Failure
    <3> QED BY <2>1, <2>3, <3>2, <3>3, <3>4
  <2> QED BY <1>2, <2>2, <2>3 DEF SendRequest
<1>3. pc' = "exited" => UNCHANGED response
  BY DEF SendRequest
<1>4. TypeOK'
  BY <1>1, <1>2, <1>3 DEF TypeOK, Places
<1>5. Paired' /\ Placed' /\ InStep'
  BY <1>1 DEF Paired, Placed, InStep
<1>6. Requested' /\ ShownPathIsRight'
  BY <1>1, <1>2, SameGraph DEF Requested, ShownPathIsRight
<1> QED BY <1>4, <1>5, <1>6 DEF SessionInv

(* An edge of the request joins the numbers of two names that are joined.  *)
LEMMA JoinedNumbers ==
    ASSUME stringEdges \in Seq(Names \X Names), NEW s \in Vertices, NEW t \in Vertices,
           request = NumericRequest(s, t)
    PROVE  /\ \A x, y \in Vertices : JoinsNames(x, y) => Server!Adjacent(Index(x), Index(y))
           /\ \A m, n : Server!Adjacent(m, n) =>
                  \E x, y \in Vertices : m = Index(x) /\ n = Index(y) /\ JoinsNames(x, y)
<1>1. /\ DOMAIN Server!edges = DOMAIN stringEdges
      /\ \A k \in DOMAIN stringEdges :
             Server!edges[k] = <<Index(stringEdges[k][1]), Index(stringEdges[k][2])>>
  BY DEF NumericRequest, Server!edges
<1>2. \A k \in DOMAIN stringEdges : /\ stringEdges[k] = <<stringEdges[k][1], stringEdges[k][2]>>
                                    /\ stringEdges[k][1] \in Vertices
                                    /\ stringEdges[k][2] \in Vertices
  BY EndsFacts
<1>3. ASSUME NEW x \in Vertices, NEW y \in Vertices, JoinsNames(x, y)
      PROVE  Server!Adjacent(Index(x), Index(y))
  <2>1. PICK k \in DOMAIN stringEdges : stringEdges[k] \in {<<x, y>>, <<y, x>>}
    BY <1>3 DEF JoinsNames
  <2>2. Server!edges[k] \in {<<Index(x), Index(y)>>, <<Index(y), Index(x)>>}
    BY <1>1, <2>1
  <2> QED BY <1>1, <2>2 DEF Server!Adjacent
<1>4. ASSUME NEW m, NEW n, Server!Adjacent(m, n)
      PROVE  \E x, y \in Vertices : m = Index(x) /\ n = Index(y) /\ JoinsNames(x, y)
  <2>1. PICK k \in DOMAIN stringEdges : Server!edges[k] \in {<<m, n>>, <<n, m>>}
    BY <1>1, <1>4 DEF Server!Adjacent
  <2> DEFINE x == stringEdges[k][1]
             y == stringEdges[k][2]
  <2>2. <<Index(x), Index(y)>> \in {<<m, n>>, <<n, m>>}
    BY <1>1, <2>1
  <2>3. x \in Vertices /\ y \in Vertices /\ stringEdges[k] = <<x, y>>
    BY <1>2
  <2>4. JoinsNames(x, y) /\ JoinsNames(y, x)
    BY <2>3 DEF JoinsNames
  <2>5. \/ m = Index(x) /\ n = Index(y)
        \/ m = Index(y) /\ n = Index(x)
    BY <2>2
  <2> QED BY <2>3, <2>4, <2>5
<1> QED BY <1>3, <1>4

(* A right path of numbers is a right path of names. *)
LEMMA RightPathInNames ==
    ASSUME SessionInv, pc = "show", response.error_code = "SUCCESS",
           NEW p, p = [k \in DOMAIN response.path |-> NameOf(response.path[k])]
    PROVE  /\ p \in Seq(Names)
           /\ Connects(p, Len(p))
           /\ \A n \in 1 .. Len(p) - 1 : ~ \E w \in [1 .. n -> Vertices] : Connects(w, n)
<1> DEFINE r == response.path
<1>1. /\ stringEdges \in Seq(Names \X Names) /\ ValidGraphSize
      /\ names \in Vertices \X Vertices
      /\ request = NumericRequest(names[1], names[2])
      /\ r \in Seq(Server!Node) /\ r # << >>
      /\ Server!ResponseIsRight
  BY DEF SessionInv, TypeOK, Requested, Server!Response
<1>2. /\ names[1] \in Vertices /\ names[2] \in Vertices
      /\ Server!start = Index(names[1]) /\ Server!end = Index(names[2])
  BY <1>1 DEF NumericRequest, Server!start, Server!end
<1>3. /\ r[1] = Index(names[1]) /\ r[Len(r)] = Index(names[2])
      /\ \A k \in 1 .. Len(r) - 1 : Server!Adjacent(r[k], r[k + 1])
      /\ \A n \in 1 .. Len(r) - 1 : ~ Server!WalkExists(n)
  BY <1>1, <1>2 DEF Server!ResponseIsRight, Server!IsWalk
<1>4. Len(r) \in Nat /\ Len(r) >= 1 /\ DOMAIN r = 1 .. Len(r)
  <2>1. Len(r) \in Nat /\ DOMAIN r = 1 .. Len(r)
    BY <1>1, LenProperties
  <2>2. Len(r) # 0
    BY <1>1, EmptySeq
  <2> QED BY <2>1, <2>2
<1>5. ASSUME NEW k \in 1 .. Len(r) PROVE p[k] \in Vertices /\ Index(p[k]) = r[k]
  <2>1. \E x \in Vertices : r[k] = Index(x)
    <3>1. CASE k = Len(r)
      BY <1>2, <1>3, <3>1
    <3>2. CASE k # Len(r)
      <4>1. k \in 1 .. Len(r) - 1
        BY <1>4, <3>2
      <4> QED BY <1>1, <1>2, <1>3, <4>1, JoinedNumbers
    <3> QED BY <3>1, <3>2
  <2>2. PICK x \in Vertices : r[k] = Index(x)
    BY <2>1
  <2>3. p[k] = NameOf(r[k])
    BY <1>4
  <2> QED BY <1>1, <2>2, <2>3, IndexFacts
<1>6. Vertices \subseteq Names
  BY <1>1, EndsFacts DEF Vertices
<1>7. p \in Seq(Names) /\ Len(p) = Len(r)
  <2>1. p \in [1 .. Len(r) -> Names]
    BY <1>4, <1>5, <1>6
  <2> QED BY <1>4, <2>1, FunctionIsSeq
<1>8. Connects(p, Len(p))
  <2>1. p[1] = names[1] /\ p[Len(r)] = names[2]
    BY <1>1, <1>2, <1>3, <1>4, <1>5, IndexFacts
  <2>2. ASSUME NEW k \in 1 .. Len(r) - 1 PROVE JoinsNames(p[k], p[k + 1])
    <3>1. k \in 1 .. Len(r) /\ k + 1 \in 1 .. Len(r)
      BY <1>4
    <3>2. PICK x \in Vertices, y \in Vertices :
              r[k] = Index(x) /\ r[k + 1] = Index(y) /\ JoinsNames(x, y)
      BY <1>1, <1>2, <1>3, JoinedNumbers
    <3>3. x = p[k] /\ y = p[k + 1]
      BY <1>1, <1>5, <3>1, <3>2, IndexFacts
    <3> QED BY <3>2, <3>3
  <2> QED BY <1>7, <2>1, <2>2 DEF Connects
<1>9. ASSUME NEW n \in 1 .. Len(p) - 1, NEW w \in [1 .. n -> Vertices], Connects(w, n)
      PROVE  FALSE
  <2> DEFINE q == [k \in 1 .. n |-> Index(w[k])]
  <2>1. n \in Nat /\ n >= 1 /\ n \in 1 .. Len(r) - 1
    BY <1>7
  <2>2. q \in [1 .. n -> Server!Node]
    BY <1>1, <1>2, NumericRequestTypes
  <2>3. Len(q) = n
    BY <2>1, <2>2, FunctionIsSeq
  <2>4. q[1] = Index(names[1]) /\ q[n] = Index(names[2])
    BY <1>9, <2>1 DEF Connects
  <2>5. ASSUME NEW k \in 1 .. n - 1 PROVE Server!Adjacent(q[k], q[k + 1])
    <3>1. k \in 1 .. n /\ k + 1 \in 1 .. n /\ JoinsNames(w[k], w[k + 1])
      BY <1>9, <2>1 DEF Connects
    <3>2. Server!Adjacent(Index(w[k]), Index(w[k + 1]))
      BY <1>1, <1>2, <3>1, JoinedNumbers
    <3> QED BY <3>1, <3>2
  <2>6. Server!IsWalk(q, Server!start, Server!end)
    BY <1>2, <2>3, <2>4, <2>5 DEF Server!IsWalk
  <2>7. Server!WalkExists(n)
    BY <2>2, <2>6 DEF Server!WalkExists
  <2> QED BY <1>3, <2>1, <2>7
<1> QED BY <1>7, <1>8, <1>9

LEMMA StepShowResponse == SessionInv /\ ShowResponse => SessionInv'
<1> SUFFICES ASSUME SessionInv, ShowResponse PROVE SessionInv'
  OBVIOUS
<1>1. /\ TypeOK /\ Paired /\ pc = "show" /\ pc' = "graph"
      /\ names \in Vertices \X Vertices
      /\ UNCHANGED <<typed, stdin, file, writes, stringEdges, names, request, response,
                     graphPair, verticesPair>>
  BY DEF SessionInv, Requested, ShowResponse
<1>2. \/ response.error_code = "SUCCESS"
         /\ shown' = [k \in DOMAIN response.path |-> NameOf(response.path[k])]
      \/ shown' = << >>
  BY DEF ShowResponse
<1>3. /\ shown' \in Seq(Names)
      /\ shown' # << >> =>
             /\ Connects(shown', Len(shown'))
             /\ \A n \in 1 .. Len(shown') - 1 : ~ \E w \in [1 .. n -> Vertices] : Connects(w, n)
  BY <1>1, <1>2, RightPathInNames, EmptySeq
<1>4. TypeOK'
  BY <1>1, <1>3 DEF TypeOK, Places
<1>5. Paired' /\ Placed' /\ InStep' /\ Requested'
  BY <1>1, SameGraph DEF Paired, Placed, InStep, Requested
<1>6. ShownPathIsRight'
  BY <1>1, <1>3, SameGraph DEF ShownPathIsRight, Connects
<1> QED BY <1>4, <1>5, <1>6 DEF SessionInv

LEMMA StepElsewhere ==
    ASSUME SessionInv, TypeOK',
           UNCHANGED <<pc, typed, stdin, stringEdges, names, request, response, shown,
                       graphPair, verticesPair>>
    PROVE  SessionInv'
<1>1. Paired' /\ Placed' /\ InStep'
  BY DEF SessionInv, Paired, Placed, AtItsVertices, InStep
<1>2. Server!ResponseIsRight' <=> Server!ResponseIsRight
  BY DEF Server!ResponseIsRight, Server!IsWalk, Server!WalkExists, Server!Adjacent,
         Server!Acceptable, Server!HasMinimumSize, Server!HasMaximumSize,
         Server!ContainsVertices, Server!Vertices, Server!edges, Server!start, Server!end
<1>3. Requested'
  BY <1>2, SameGraph DEF SessionInv, Requested
<1>4. ShownPathIsRight'
  BY SameGraph DEF SessionInv, ShownPathIsRight, Connects
<1> QED BY <1>1, <1>3, <1>4 DEF SessionInv

LEMMA SessionStep == SessionInv /\ [Next]_vars => SessionInv'
<1> SUFFICES ASSUME SessionInv, [Next]_vars PROVE SessionInv'
  OBVIOUS
<1>1. CASE EnterGraph
  BY <1>1, StepEnterGraph
<1>2. CASE ReadFile
  BY <1>2, StepReadFile
<1>3. CASE NumberVertices
  BY <1>3, StepNumberVertices
<1>4. CASE EnterVertices
  BY <1>4, StepEnterVertices
<1>5. CASE SendRequest
  BY <1>5, StepSendRequest
<1>6. CASE ShowResponse
  BY <1>6, StepShowResponse
<1>7. CASE Rewrite
  <2>1. TypeOK'
    BY <1>7, SessionAssumption DEF SessionInv, TypeOK, Rewrite
  <2> QED BY <1>7, <2>1, StepElsewhere DEF Rewrite
<1>8. CASE UNCHANGED vars
  <2>1. TypeOK'
    BY <1>8 DEF SessionInv, TypeOK, vars
  <2> QED BY <1>8, <2>1, StepElsewhere DEF vars
<1> QED BY <1>1, <1>2, <1>3, <1>4, <1>5, <1>6, <1>7, <1>8 DEF Next, Session

(* Every variable keeps its type: what is prompted for, the names and the   *)
(* request made of a line, and the response shown.                          *)
THEOREM TypeCorrect == Spec => []TypeOK
<1>1. SessionInv => TypeOK
  BY DEF SessionInv
<1> QED BY <1>1, SessionInit, SessionStep, PTL DEF Spec

(* Lines and prompts never get out of step, whatever is typed in pairs. *)
THEOREM SessionStaysInStep == Spec => []InStep
<1>1. SessionInv => InStep
  BY DEF SessionInv
<1> QED BY <1>1, SessionInit, SessionStep, PTL DEF Spec

(* The path shown is a shortest one of the graph typed, for every graph.   *)
THEOREM ShownPathCorrect == Spec => []ShownPathIsRight
<1>1. SessionInv => ShownPathIsRight
  BY DEF SessionInv
<1> QED BY <1>1, SessionInit, SessionStep, PTL DEF Spec

(* What passes the client's check is refused for its edges only. *)
LEMMA OnlyEdgesAreRefused == SessionInv => RefusedForItsEdges
<1> SUFFICES ASSUME SessionInv, pc = "show", response.error_code = "INVALID_REQUEST",
                    Len(stringEdges) \in MinSize .. MaxSize
             PROVE  FALSE
  BY DEF RefusedForItsEdges
<1>1. /\ stringEdges \in Seq(Names \X Names) /\ ValidGraphSize
      /\ names \in Vertices \X Vertices
      /\ request = NumericRequest(names[1], names[2])
      /\ ~ Server!Acceptable
  BY DEF SessionInv, TypeOK, Requested, Server!ResponseIsRight
<1>2. /\ Len(stringEdges) \in Nat /\ DOMAIN stringEdges = 1 .. Len(stringEdges)
      /\ names[1] \in Vertices /\ names[2] \in Vertices
  BY <1>1, EndsFacts
<1>3. /\ Server!start = Index(names[1]) /\ Server!end = Index(names[2])
      /\ DOMAIN Server!edges = DOMAIN stringEdges
      /\ \A k \in DOMAIN stringEdges :
             /\ Server!edges[k][1] = Index(stringEdges[k][1])
             /\ Server!edges[k][2] = Index(stringEdges[k][2])
  BY <1>1 DEF NumericRequest, Server!start, Server!end, Server!edges
<1>4. Len(Server!edges) = Len(stringEdges)
  <2>1. Server!edges \in Seq(Server!Node \X Server!Node)
    BY <1>1, <1>2, NumericRequestTypes DEF Server!Request, Server!edges
  <2> QED BY <1>2, <1>3, <2>1, LenProperties
<1>5. Server!Vertices = {Index(x) : x \in Vertices}
  <2>1. ASSUME NEW n \in Server!Vertices PROVE n \in {Index(x) : x \in Vertices}
    <3>1. PICK k \in DOMAIN stringEdges : n \in {Server!edges[k][1], Server!edges[k][2]}
      BY <1>3 DEF Server!Vertices
    <3> QED BY <1>1, <1>3, <3>1, EndsFacts
  <2>2. ASSUME NEW x \in Vertices PROVE Index(x) \in Server!Vertices
    <3>1. PICK k \in DOMAIN stringEdges : x \in {stringEdges[k][1], stringEdges[k][2]}
      BY <1>1, EndsFacts
    <3>2. Index(x) \in {Server!edges[k][1], Server!edges[k][2]}
      BY <1>3, <3>1
    <3> QED BY <1>3, <3>2 DEF Server!Vertices
  <2> QED BY <2>1, <2>2
<1>6. Cardinality(Server!Vertices) = Cardinality(Vertices)
  <2> DEFINE f == [x \in Vertices |-> Index(x)]
  <2>1. IsFiniteSet(Vertices)
    BY <1>1, IndexFacts
  <2>2. f \in Surjection(Vertices, Server!Vertices)
    BY <1>5 DEF Surjection
  <2>3. f \in Injection(Vertices, Server!Vertices)
    <3>1. \A x, y \in Vertices : f[x] = f[y] => x = y
      BY <1>1, IndexFacts
    <3>2. IsInjective(f)
      BY <3>1 DEF IsInjective
    <3> QED BY <2>2, <3>2 DEF Surjection, Injection
  <2> QED BY <2>1, <2>2, <2>3, FS_Surjection
<1>7. /\ Cardinality(Server!Vertices) >= MinSize /\ Cardinality(Server!Vertices) <= MaxSize
      /\ Len(Server!edges) >= MinSize /\ Len(Server!edges) <= MaxSize
  <2>1. /\ MinVertices \in Nat /\ MaxVertices \in Nat /\ MinSize \in Nat /\ MaxSize \in Nat
        /\ MinSize <= MinVertices /\ MaxVertices <= MaxSize
    BY SessionAssumption
  <2>2. Cardinality(Vertices) \in MinVertices .. MaxVertices
    BY <1>1 DEF ValidGraphSize
  <2> QED BY <1>4, <1>6, <2>1, <2>2
<1>8. Server!Cardinality(Server!Vertices) = Cardinality(Server!Vertices)
  BY DEF Server!Cardinality, Cardinality
<1>9. Server!ContainsVertices
  BY <1>2, <1>3, <1>5 DEF Server!ContainsVertices
<1>10. Server!HasMinimumSize
  BY <1>7, <1>8 DEF Server!HasMinimumSize
<1>11. Server!HasMaximumSize
  BY <1>7, <1>8 DEF Server!HasMaximumSize
<1> QED BY <1>1, <1>9, <1>10, <1>11 DEF Server!Acceptable

(* The two checks of size agree on vertices, for every graph. *)
THEOREM ChecksAgree == Spec => []RefusedForItsEdges
BY OnlyEdgesAreRefused, SessionInit, SessionStep, PTL DEF Spec
=============================================================================

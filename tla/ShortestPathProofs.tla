--------------------------- MODULE ShortestPathProofs ---------------------------
(***************************************************************************)
(* Theorems about ShortestPath, for every graph and every two vertices.    *)
(***************************************************************************)
EXTENDS ShortestPath, LeastNumber, SequenceTheorems, FiniteSetTheorems, TLAPS

-----------------------------------------------------------------------------
(***************************************************************************)
(* Facts about requests and edges.                                         *)
(***************************************************************************)
LEMMA RequestTypes ==
    ASSUME TypeOK
    PROVE  /\ edges \in Seq(Node \X Node)
           /\ start \in Node /\ end \in Node
           /\ DOMAIN edges = 1 .. Len(edges) /\ Len(edges) \in Nat
           /\ \A k \in DOMAIN edges : edges[k] \in Node \X Node
<1>1. edges \in Seq(Node \X Node) /\ start \in Node /\ end \in Node
  BY DEF TypeOK, Request, edges, start, end
<1> QED BY <1>1, LenProperties, ElementOfSeq

(* The other ends of an edge are the vertices it joins to n. *)
LEMMA OtherEndsAreJoined ==
    ASSUME NEW e \in Node \X Node, NEW n \in Node
    PROVE  /\ OtherEnds(e, n) \subseteq Node
           /\ \A m \in Node : m \in OtherEnds(e, n) <=> e \in {<<n, m>>, <<m, n>>}
BY DEF OtherEnds

-----------------------------------------------------------------------------
(***************************************************************************)
(* Type correctness.  The path is traced only when the end was reached,    *)
(* which is why its distance is a length.                                  *)
(***************************************************************************)
TypeInv == TypeOK /\ (pc = "trace" => dist[end] # INF)

LEMMA NodeNumbers == Node \subseteq Nat /\ None \notin Node /\ INF \notin Nat
BY RequestsAssumption DEF Node, None, INF

LEMMA Distances ==
    ASSUME TypeOK
    PROVE  /\ \A n \in Node : dist[n] \in Int /\ (dist[n] # INF => dist[n] \in Nat)
           /\ DOMAIN queue = 1 .. Len(queue) /\ Len(queue) \in Nat
           /\ \A k \in DOMAIN queue : queue[k] \in Node
<1>1. \A n \in Node : dist[n] \in Int /\ (dist[n] # INF => dist[n] \in Nat)
  BY DEF TypeOK, INF
<1>2. queue \in Seq(Node)
  BY DEF TypeOK
<1> QED BY <1>1, <1>2, LenProperties, ElementOfSeq

LEMMA TypeInit == Init => TypeInv
BY RequestsAssumption
   DEF Init, TypeInv, TypeOK, Request, Failure, Response, States, start

LEMMA TypeStep == TypeInv /\ [Next]_vars => TypeInv'
<1> SUFFICES ASSUME TypeInv, [Next]_vars PROVE TypeInv'
  OBVIOUS
<1> USE DEF TypeInv, TypeOK, end
<1>1. start \in Node /\ end \in Node /\ \A k \in DOMAIN edges : edges[k] \in Node \X Node
  BY RequestTypes
<1>2. ASSUME NEW n \in Node
      PROVE  /\ Append(queue, n) \in Seq(Node)
             /\ <<n>> \in Seq(Node)
             /\ <<n>> \o path \in Seq(Node)
  BY AppendProperties, ConcatProperties
<1>3. CASE Refuse
  BY <1>3 DEF Refuse, Failure, Response, States
<1>4. CASE Accept
  BY <1>1, <1>2, <1>4 DEF Accept, States
<1>5. CASE Dequeue
  <2>1. queue # << >>
    BY <1>5 DEF Dequeue
  <2>2. Head(queue) \in Node /\ Tail(queue) \in Seq(Node)
    BY <2>1, HeadTailProperties
  <2> QED BY <1>5, <2>2 DEF Dequeue, States
<1>6. CASE SearchEnds
  BY <1>6 DEF SearchEnds, States
<1>7. CASE Visit
  <2>1. OtherEnds(edges[i], u) \subseteq Node
    BY <1>1, <1>7, OtherEndsAreJoined DEF Visit
  <2>2. ASSUME NEW n \in OtherEnds(edges[i], u), dist[n] = INF,
               dist' = [dist EXCEPT ![n] = dist[u] + 1],
               parent' = [parent EXCEPT ![n] = u],
               Push(n)
        PROVE  /\ dist' \in [Node -> Nat \cup {INF}]
               /\ parent' \in [Node -> Node \cup {None}]
               /\ queue' \in Seq(Node)
    <3>1. dist[u] + 1 \in Nat
      BY DEF INF
    <3> QED BY <1>2, <2>1, <2>2, <3>1 DEF Push
  <2>3. i + 1 \in Nat
    OBVIOUS
  <2> QED BY <1>7, <2>2, <2>3 DEF Visit
<1>8. CASE VisitEnds
  BY <1>8 DEF VisitEnds, States
<1>9. CASE NoPath
  BY <1>9 DEF NoPath, Failure, Response, States
<1>10. CASE TraceBegins
  BY <1>1, <1>10 DEF TraceBegins, States
<1>11. CASE Trace
  BY <1>2, <1>11 DEF Trace
<1>12. CASE TraceEnds
  <2>1. dist[end] \in Nat
    BY <1>1, <1>12 DEF TraceEnds
  <2>2. [error_code |-> "SUCCESS", path_length |-> dist[end], path |-> path] \in Response
    BY <2>1 DEF Response
  <2> QED BY <1>12, <2>2 DEF TraceEnds, States
<1>13. CASE UNCHANGED vars
  BY <1>13 DEF vars
<1> QED BY <1>3, <1>4, <1>5, <1>6, <1>7, <1>8, <1>9, <1>10, <1>11, <1>12, <1>13 DEF Next

(* Type correctness, for every request. *)
THEOREM TypeCorrect == Spec => []TypeOK
<1>1. TypeInv => TypeOK
  BY DEF TypeInv
<1> QED BY <1>1, TypeInit, TypeStep, PTL DEF Spec
-----------------------------------------------------------------------------
(***************************************************************************)
(* The search.  Searching is everything after the checks were passed.      *)
(***************************************************************************)
Searching == pc \in {"search", "visit", "found", "trace"}

Visited(n) == dist[n] # INF
Queued(n)  == \E k \in DOMAIN queue : queue[k] = n

(* The start is the root of a tree, whose other vertices are one step      *)
(* further away than their parents.                                        *)
Tree ==
    /\ dist[start] = 0
    /\ \A n \in Node : Visited(n) =>
           \/ n = start /\ parent[n] = None
           \/ /\ parent[n] \in Node
              /\ Adjacent(parent[n], n)
              /\ Visited(parent[n])
              /\ dist[n] = dist[parent[n]] + 1

(* All the neighbours of an expanded vertex were reached in one step more. *)
Expansion ==
    \A n \in expanded :
        /\ n # end
        /\ Visited(n)
        /\ \A m \in Node : Adjacent(n, m) => Visited(m) /\ dist[m] <= dist[n] + 1

(* The queue, and the vertex taken from it, are the front of the search.   *)
Front ==
    /\ QueueByDistance
    /\ \A k \in DOMAIN queue : Visited(queue[k])
    /\ pc = "search" =>
           \A n \in Node, k \in DOMAIN queue : Visited(n) => dist[n] <= dist[queue[k]] + 1
    /\ pc = "visit" =>
           /\ u # end /\ Visited(u)
           /\ i >= 1
           /\ \A j \in DOMAIN edges : j < i =>
                  \A m \in OtherEnds(edges[j], u) : Visited(m)
           /\ \A k \in DOMAIN queue : dist[u] <= dist[queue[k]]
           /\ \A n \in Node : Visited(n) => dist[n] <= dist[u] + 1

(* What was reached is in the queue, in hand, or expanded; and when the    *)
(* search is over, all that is nearer than the end was expanded.           *)
Cover ==
    /\ pc \in {"search", "visit"} =>
           \A n \in Node : Visited(n) =>
               n \in expanded \/ Queued(n) \/ (pc = "visit" /\ n = u)
    /\ pc \in {"found", "trace"} =>
           \A n \in Node : Visited(n) /\ (Visited(end) => dist[n] < dist[end])
               => n \in expanded

(* Before the checks were passed nothing was reached. *)
Fresh ==
    /\ queue = << >> /\ expanded = {}
    /\ \A n \in Node : dist[n] = INF /\ parent[n] = None

SearchInv ==
    /\ TypeInv
    /\ QueueByDistance
    /\ pc = "check" => Fresh
    /\ Searching => Tree /\ Expansion /\ Front /\ Cover

LEMMA SearchInit == Init => SearchInv
<1> SUFFICES ASSUME Init PROVE SearchInv
  OBVIOUS
<1>1. TypeInv
  BY TypeInit
<1>2. DOMAIN queue = {}
  BY DEF Init
<1> QED BY <1>1, <1>2 DEF Init, SearchInv, QueueByDistance, Fresh, Searching

LEMMA SearchAccept == SearchInv /\ TypeInv' /\ Accept => SearchInv'
<1> SUFFICES ASSUME SearchInv, TypeInv', Accept PROVE SearchInv'
  OBVIOUS
<1>1. /\ start \in Node /\ start' = start /\ end' = end /\ edges' = edges /\ expanded' = {}
      /\ \A n \in Node : dist[n] = INF /\ parent[n] = None
      /\ \A n \in Node : dist'[n] = IF n = start THEN 0 ELSE INF
      /\ parent' = parent /\ queue' = <<start>> /\ pc' = "search"
  BY RequestTypes DEF SearchInv, TypeInv, TypeOK, Accept, Fresh, start, end, edges
<1>2. DOMAIN queue' = {1} /\ queue'[1] = start
  BY <1>1
<1>3. 0 # INF
  BY NodeNumbers
<1>4. Tree'
  BY <1>1, <1>3 DEF Tree, Visited
<1>5. Expansion'
  BY <1>1 DEF Expansion
<1>6. QueueByDistance'
  BY <1>2 DEF QueueByDistance
<1>7. Front'
  BY <1>1, <1>2, <1>3, <1>6 DEF Front, Visited
<1>8. Cover'
  BY <1>1, <1>2 DEF Cover, Visited, Queued
<1> QED BY <1>1, <1>4, <1>5, <1>6, <1>7, <1>8 DEF SearchInv, Searching

LEMMA SearchDequeue == SearchInv /\ TypeInv' /\ Dequeue => SearchInv'
<1> SUFFICES ASSUME SearchInv, TypeInv', Dequeue PROVE SearchInv'
  OBVIOUS
<1>1. /\ start' = start /\ end' = end /\ edges' = edges /\ expanded' = expanded
      /\ dist' = dist /\ parent' = parent
      /\ pc = "search" /\ pc' \in {"found", "visit"} /\ (pc' = "found" <=> u' = end)
      /\ i' = 1
  BY DEF Dequeue, start, end, edges
<1>2. /\ queue \in Seq(Node) /\ queue # << >> /\ Len(queue) \in Nat /\ Len(queue) >= 1
      /\ DOMAIN queue = 1 .. Len(queue)
      /\ u' = queue[1] /\ u' \in Node
  BY HeadTailProperties, LenProperties, EmptySeq, ElementOfSeq
     DEF Dequeue, SearchInv, TypeInv, TypeOK
<1>3. /\ DOMAIN queue' = 1 .. Len(queue) - 1
      /\ \A k \in DOMAIN queue' : k + 1 \in DOMAIN queue /\ queue'[k] = queue[k + 1]
  <2>1. /\ Tail(queue) \in Seq(Node) /\ Len(Tail(queue)) = Len(queue) - 1
        /\ \A k \in 1 .. Len(queue) - 1 : Tail(queue)[k] = queue[k + 1]
    BY <1>2, HeadTailProperties
  <2> QED BY <1>2, <2>1, LenProperties DEF Dequeue
<1>4. Tree /\ Expansion /\ Front /\ Cover
  BY <1>1 DEF SearchInv, Searching
<1>5. Tree' /\ Expansion'
  BY <1>1, <1>4 DEF Tree, Expansion, Visited, Adjacent
<1>6. QueueByDistance'
  BY <1>1, <1>2, <1>3, <1>4 DEF Front, QueueByDistance
<1>7. \A k \in DOMAIN queue : dist[u'] <= dist[queue[k]]
  <2>1. \A k \in DOMAIN queue : dist[queue[k]] \in Int
    BY Distances DEF SearchInv, TypeInv
  <2>2. ASSUME NEW k \in DOMAIN queue PROVE dist[u'] <= dist[queue[k]]
    <3>1. CASE k = 1
      BY <1>2, <2>1, <3>1
    <3>2. CASE k # 1
      BY <1>2, <1>4, <3>2 DEF Front, QueueByDistance
    <3> QED BY <3>1, <3>2
  <2> QED BY <2>2
<1>8. Visited(u')
  BY <1>2, <1>4 DEF Front
<1>9. Front'
  BY <1>1, <1>2, <1>3, <1>4, <1>6, <1>7, <1>8 DEF Front, Visited
<1>10. Cover'
  <2>1. ASSUME NEW n \in Node, Visited(n), n \notin expanded, n # u'
        PROVE  Queued(n)' /\ dist[u'] <= dist[n]
    <3>1. PICK k \in DOMAIN queue : queue[k] = n
      BY <1>1, <1>4, <2>1 DEF Cover, Queued
    <3>2. k # 1 /\ k - 1 \in DOMAIN queue' /\ queue'[k - 1] = n
      BY <1>2, <1>3, <2>1, <3>1
    <3> QED BY <1>7, <3>1, <3>2 DEF Queued
  <2>2. CASE pc' = "visit"
    BY <1>1, <2>1, <2>2 DEF Cover, Visited
  <2>3. CASE pc' = "found"
    <3>1. ASSUME NEW n \in Node, Visited(n), dist[n] < dist[end]
          PROVE  n \in expanded
      <4>1. dist[n] \in Int /\ dist[end] \in Int
        BY RequestTypes, <3>1 DEF SearchInv, TypeInv, TypeOK, INF
      <4> QED BY <1>1, <2>1, <2>3, <3>1, <4>1
    <3> QED BY <1>1, <1>8, <2>3, <3>1 DEF Cover, Visited
  <2> QED BY <1>1, <2>2, <2>3
<1> QED BY <1>1, <1>5, <1>6, <1>9, <1>10 DEF SearchInv, Searching

LEMMA SearchSearchEnds == SearchInv /\ TypeInv' /\ SearchEnds => SearchInv'
<1> SUFFICES ASSUME SearchInv, TypeInv', SearchEnds PROVE SearchInv'
  OBVIOUS
<1>1. /\ start' = start /\ end' = end /\ edges' = edges /\ expanded' = expanded
      /\ dist' = dist /\ parent' = parent /\ queue' = queue
      /\ DOMAIN queue = {}
      /\ pc = "search" /\ pc' = "found"
  BY DEF SearchEnds, start, end, edges
<1>2. Tree /\ Expansion /\ Front /\ Cover
  BY <1>1 DEF SearchInv, Searching
<1>3. Tree' /\ Expansion' /\ QueueByDistance'
  BY <1>1, <1>2 DEF Tree, Expansion, Front, QueueByDistance, Visited, Adjacent
<1>4. Front' /\ Cover'
  BY <1>1, <1>2, <1>3 DEF Front, Cover, Visited, Queued
<1> QED BY <1>1, <1>3, <1>4 DEF SearchInv, Searching

LEMMA SearchVisit == SearchInv /\ TypeInv' /\ Visit => SearchInv'
<1> SUFFICES ASSUME SearchInv, TypeInv', Visit PROVE SearchInv'
  OBVIOUS
<1>1. /\ start' = start /\ end' = end /\ edges' = edges /\ expanded' = expanded /\ u' = u
      /\ pc = "visit" /\ pc' = "visit" /\ i' = i + 1 /\ i \in DOMAIN edges
  BY DEF Visit, start, end, edges
<1>2. TypeOK /\ TypeOK' /\ Tree /\ Expansion /\ Front /\ Cover
  BY <1>1 DEF SearchInv, Searching, TypeInv
<1>3. /\ u \in Node /\ start \in Node /\ end \in Node /\ i \in Nat
      /\ DOMAIN edges \subseteq Int /\ edges[i] \in Node \X Node
      /\ OtherEnds(edges[i], u) \subseteq Node
      /\ \A n \in Node : dist[n] \in Int /\ (dist[n] # INF => dist[n] \in Nat)
      /\ expanded \subseteq Node
  <2>1. u \in Node /\ i \in Nat /\ expanded \subseteq Node
    BY <1>2 DEF TypeOK
  <2>2. DOMAIN edges \subseteq Int /\ edges[i] \in Node \X Node
    BY <1>1, <1>2, RequestTypes
  <2>3. OtherEnds(edges[i], u) \subseteq Node
    BY <2>1, <2>2, OtherEndsAreJoined
  <2> QED BY <1>2, <2>1, <2>2, <2>3, RequestTypes, Distances
<1>4. Visited(u) /\ dist[u] \in Nat /\ u # end
  BY <1>1, <1>2, <1>3 DEF Front, Visited
<1>5. \A j \in DOMAIN edges : \A m : OtherEnds(edges[j], m)' = OtherEnds(edges[j], m)
  BY <1>1 DEF OtherEnds
<1>6. \A a, b : Adjacent(a, b)' <=> Adjacent(a, b)
  BY <1>1 DEF Adjacent
<1>7. CASE /\ \A n \in OtherEnds(edges[i], u) : dist[n] # INF
           /\ UNCHANGED <<dist, parent, queue>>
  <2>1. Tree' /\ Expansion' /\ Cover' /\ QueueByDistance'
    BY <1>1, <1>2, <1>6, <1>7 DEF Tree, Expansion, Cover, Front, QueueByDistance, Visited, Queued
  <2>2. Front'
    BY <1>1, <1>2, <1>3, <1>4, <1>5, <1>7, <2>1 DEF Front, Visited
  <2> QED BY <1>1, <2>1, <2>2 DEF SearchInv, Searching
<1>8. ASSUME NEW n \in OtherEnds(edges[i], u), dist[n] = INF,
             dist' = [dist EXCEPT ![n] = dist[u] + 1],
             parent' = [parent EXCEPT ![n] = u],
             Push(n)
      PROVE  SearchInv'
  <2>1. n \in Node /\ n # u /\ ~ Visited(n) /\ Adjacent(u, n)
    <3>1. n \in Node /\ edges[i] \in {<<u, n>>, <<n, u>>}
      BY <1>3, <1>8, OtherEndsAreJoined
    <3>2. Adjacent(u, n)
      BY <1>1, <3>1 DEF Adjacent
    <3> QED BY <1>4, <1>8, <3>1, <3>2 DEF Visited
  <2>2. /\ dist'[n] = dist[u] + 1 /\ dist'[n] \in Nat /\ dist'[n] # INF /\ parent'[n] = u
        /\ \A m \in Node : m # n => dist'[m] = dist[m] /\ parent'[m] = parent[m]
    <3>1. /\ dist' = [m \in Node |-> IF m = n THEN dist[u] + 1 ELSE dist[m]]
          /\ parent' = [m \in Node |-> IF m = n THEN u ELSE parent[m]]
      BY <1>2, <1>8 DEF TypeOK
    <3>2. dist[u] + 1 \in Nat /\ dist[u] + 1 # INF
      BY <1>4 DEF INF
    <3> QED BY <2>1, <3>1, <3>2
  <2>3. /\ \A m \in Node : Visited(m) => Visited(m)' /\ dist'[m] = dist[m] /\ parent'[m] = parent[m]
        /\ \A m \in Node : Visited(m)' => m = n \/ Visited(m)
        /\ Visited(n)'
    BY <2>1, <2>2 DEF Visited
  <2>4. /\ DOMAIN queue = 1 .. Len(queue) /\ Len(queue) \in Nat
        /\ \A k \in DOMAIN queue : queue[k] \in Node /\ Visited(queue[k])
    BY <1>2, Distances DEF Front
  <2>5. /\ DOMAIN queue' = 1 .. Len(queue) + 1
        /\ queue'[Len(queue) + 1] = n
        /\ \A k \in DOMAIN queue : k \in DOMAIN queue' /\ queue'[k] = queue[k]
    BY <1>2, <1>8, <2>1, <2>4, AppendProperties DEF Push, TypeOK
  <2>6. Tree'
    <3>1. dist'[start] = 0
      BY <1>2, <1>3, <2>3, NodeNumbers DEF Tree, Visited
    <3>2. ASSUME NEW m \in Node, Visited(m)'
          PROVE  \/ m = start /\ parent'[m] = None
                 \/ /\ parent'[m] \in Node
                    /\ Adjacent(parent'[m], m)
                    /\ Visited(parent[m])'
                    /\ dist'[m] = dist'[parent'[m]] + 1
      <4>1. CASE m = n
        BY <1>3, <1>4, <2>1, <2>2, <2>3, <4>1 DEF Visited
      <4>2. CASE m # n
        BY <1>2, <2>3, <3>2, <4>2 DEF Tree, Visited
      <4> QED BY <4>1, <4>2
    <3> QED BY <1>1, <1>6, <3>1, <3>2 DEF Tree
  <2>7. Expansion'
    BY <1>1, <1>2, <1>3, <1>6, <2>3 DEF Expansion
  <2>8. \A k \in DOMAIN queue : /\ dist'[queue'[k]] = dist[queue[k]]
                                /\ dist[queue[k]] \in Nat
                                /\ dist[u] <= dist[queue[k]]
                                /\ dist[queue[k]] <= dist[u] + 1
                                /\ queue'[k] # n
    BY <1>1, <1>2, <1>3, <2>1, <2>3, <2>4, <2>5 DEF Front, Visited
  <2>9. QueueByDistance'
    <3>1. ASSUME NEW j \in DOMAIN queue', NEW k \in DOMAIN queue', j < k
          PROVE  /\ queue'[j] # queue'[k]
                 /\ dist'[queue'[j]] <= dist'[queue'[k]]
                 /\ dist'[queue'[k]] <= dist'[queue'[j]] + 1
      <4>1. j \in DOMAIN queue
        BY <2>4, <2>5, <3>1
      <4>2. CASE k \in DOMAIN queue
        BY <1>2, <2>5, <2>8, <3>1, <4>1, <4>2 DEF Front, QueueByDistance
      <4>3. CASE k \notin DOMAIN queue
        <5>1. k = Len(queue) + 1
          BY <2>4, <2>5, <4>3
        <5> QED BY <1>4, <2>2, <2>5, <2>8, <4>1, <5>1
      <4> QED BY <4>2, <4>3
    <3> QED BY <3>1 DEF QueueByDistance
  <2>10. Front'
    <3>1. ASSUME NEW k \in DOMAIN queue'
          PROVE  Visited(queue[k])' /\ dist'[u] <= dist'[queue'[k]]
      <4>1. CASE k \in DOMAIN queue
        BY <1>3, <1>4, <2>3, <2>4, <2>5, <2>8, <4>1 DEF Visited
      <4>2. CASE k = Len(queue) + 1
        BY <1>3, <1>4, <2>2, <2>3, <2>5, <4>2 DEF Visited
      <4> QED BY <2>4, <2>5, <4>1, <4>2
    <3>2. ASSUME NEW j \in DOMAIN edges, j < i + 1, NEW m \in OtherEnds(edges[j], u)
          PROVE  Visited(m)'
      <4>1. m \in Node
        BY <1>2, <1>3, RequestTypes, OtherEndsAreJoined
      <4>2. CASE j < i
        BY <1>1, <1>2, <2>3, <4>1, <4>2 DEF Front
      <4>3. CASE j = i
        <5>1. m = n
          BY <1>3, <1>8, <2>1, <3>2, <4>3 DEF OtherEnds
        <5> QED BY <2>3, <5>1
      <4> QED BY <1>3, <3>2, <4>2, <4>3
    <3>3. ASSUME NEW m \in Node, Visited(m)'
          PROVE  dist'[m] <= dist'[u] + 1
      BY <1>1, <1>2, <1>3, <1>4, <2>1, <2>2, <2>3, <3>3 DEF Front
    <3> QED BY <1>1, <1>3, <1>4, <1>5, <2>3, <2>9, <3>1, <3>2, <3>3 DEF Front
  <2>11. Cover'
    BY <1>1, <1>2, <2>3, <2>4, <2>5 DEF Cover, Queued
  <2> QED BY <1>1, <2>6, <2>7, <2>9, <2>10, <2>11 DEF SearchInv, Searching
<1> QED BY <1>7, <1>8 DEF Visit

LEMMA SearchVisitEnds == SearchInv /\ TypeInv' /\ VisitEnds => SearchInv'
<1> SUFFICES ASSUME SearchInv, TypeInv', VisitEnds PROVE SearchInv'
  OBVIOUS
<1>1. /\ start' = start /\ end' = end /\ edges' = edges /\ expanded' = expanded \cup {u}
      /\ dist' = dist /\ parent' = parent /\ queue' = queue
      /\ pc = "visit" /\ pc' = "search" /\ i \notin DOMAIN edges
  BY DEF VisitEnds, start, end, edges
<1>2. TypeOK /\ Tree /\ Expansion /\ Front /\ Cover
  BY <1>1 DEF SearchInv, Searching, TypeInv
<1>3. /\ u \in Node /\ i \in Nat /\ i >= 1 /\ Visited(u) /\ u # end
      /\ \A n \in Node : dist[n] \in Int /\ (dist[n] # INF => dist[n] \in Nat)
      /\ \A k \in DOMAIN queue : queue[k] \in Node
  BY <1>1, <1>2, Distances DEF Front, TypeOK
<1>4. \A j \in DOMAIN edges : j < i
  BY <1>1, <1>2, <1>3, RequestTypes
<1>5. ASSUME NEW m \in Node, Adjacent(u, m) PROVE Visited(m) /\ dist[m] <= dist[u] + 1
  <2>1. PICK j \in DOMAIN edges : edges[j] \in {<<u, m>>, <<m, u>>}
    BY <1>5 DEF Adjacent
  <2>2. edges[j] \in Node \X Node
    BY <1>2, RequestTypes
  <2>3. m \in OtherEnds(edges[j], u)
    BY <1>3, <2>1, <2>2, OtherEndsAreJoined
  <2> QED BY <1>1, <1>2, <1>4, <2>3 DEF Front
<1>6. Tree'
  BY <1>1, <1>2 DEF Tree, Visited, Adjacent
<1>7. Expansion'
  <2>1. ASSUME NEW n \in expanded'
        PROVE  /\ n # end
               /\ Visited(n)
               /\ \A m \in Node : Adjacent(n, m) => Visited(m) /\ dist[m] <= dist[n] + 1
    <3>1. CASE n \in expanded
      BY <1>2, <3>1 DEF Expansion
    <3>2. CASE n = u
      BY <1>3, <1>5, <3>2
    <3> QED BY <1>1, <2>1, <3>1, <3>2
  <2> QED BY <1>1, <2>1 DEF Expansion, Visited, Adjacent
<1>8. Front'
  <2>1. QueueByDistance'
    BY <1>1, <1>2 DEF Front, QueueByDistance
  <2>2. ASSUME NEW n \in Node, NEW k \in DOMAIN queue, Visited(n)
        PROVE  dist[n] <= dist[queue[k]] + 1
    <3>1. dist[n] <= dist[u] + 1 /\ dist[u] <= dist[queue[k]]
      BY <1>1, <1>2, <2>2 DEF Front
    <3> QED BY <1>3, <3>1
  <2> QED BY <1>1, <1>2, <2>1, <2>2 DEF Front, Visited
<1>9. Cover'
  BY <1>1, <1>2 DEF Cover, Visited, Queued
<1> QED BY <1>1, <1>6, <1>7, <1>8, <1>9 DEF SearchInv, Searching, Front

(* After the search nothing of it changes any more. *)
LEMMA SearchIsOver ==
    ASSUME SearchInv, TypeInv',
           UNCHANGED <<request, dist, parent, queue, u, i, expanded>>,
           \/ pc = "found" /\ pc' = "trace"
           \/ pc' \in {pc, "done"} /\ (Searching' => Searching)
    PROVE  SearchInv'
<1>1. start' = start /\ end' = end /\ edges' = edges
  BY DEF start, end, edges
<1>2. QueueByDistance'
  BY DEF SearchInv, QueueByDistance
<1>3. pc' = "check" => Fresh'
  BY DEF SearchInv, Fresh
<1>4. ASSUME Searching' PROVE (Tree /\ Expansion /\ Front /\ Cover)'
  <2>1. Tree /\ Expansion /\ Front /\ Cover
    BY <1>4 DEF SearchInv, Searching
  <2>2. Tree' /\ Expansion'
    BY <1>1, <2>1 DEF Tree, Expansion, Visited, Adjacent
  <2>3. Front'
    BY <1>1, <1>2, <1>4, <2>1 DEF Front, Visited, OtherEnds, Searching
  <2>4. Cover'
    BY <1>1, <1>4, <2>1 DEF Cover, Visited, Queued, Searching
  <2> QED BY <2>2, <2>3, <2>4
<1> QED BY <1>2, <1>3, <1>4 DEF SearchInv

LEMMA SearchStep == SearchInv /\ [Next]_vars => SearchInv'
<1> SUFFICES ASSUME SearchInv, [Next]_vars PROVE SearchInv'
  OBVIOUS
<1>1. TypeInv'
  BY TypeStep DEF SearchInv
<1>2. CASE Refuse
  BY <1>1, <1>2, SearchIsOver DEF Refuse, Searching
<1>3. CASE Accept
  BY <1>1, <1>3, SearchAccept
<1>4. CASE Dequeue
  BY <1>1, <1>4, SearchDequeue
<1>5. CASE SearchEnds
  BY <1>1, <1>5, SearchSearchEnds
<1>6. CASE Visit
  BY <1>1, <1>6, SearchVisit
<1>7. CASE VisitEnds
  BY <1>1, <1>7, SearchVisitEnds
<1>8. CASE NoPath
  BY <1>1, <1>8, SearchIsOver DEF NoPath, Searching
<1>9. CASE TraceBegins
  BY <1>1, <1>9, SearchIsOver DEF TraceBegins, Searching
<1>10. CASE Trace
  BY <1>1, <1>10, SearchIsOver DEF Trace, Searching
<1>11. CASE TraceEnds
  BY <1>1, <1>11, SearchIsOver DEF TraceEnds, Searching
<1>12. CASE UNCHANGED vars
  BY <1>1, <1>12, SearchIsOver DEF vars, Searching
<1> QED BY <1>2, <1>3, <1>4, <1>5, <1>6, <1>7, <1>8, <1>9, <1>10, <1>11, <1>12 DEF Next

(* An ordinary queue keeps the vertices by distance, on every graph. *)
THEOREM QueueStaysOrdered == Spec => []QueueByDistance
<1>1. SearchInv => QueueByDistance
  BY DEF SearchInv
<1> QED BY <1>1, SearchInit, SearchStep, PTL DEF Spec
-----------------------------------------------------------------------------
(***************************************************************************)
(* The path.  It is traced from the end, along the parents; what is left   *)
(* to trace is as long as the distance of v says.                          *)
(***************************************************************************)
Joined(p) == \A k \in 1 .. Len(p) - 1 : Adjacent(p[k], p[k + 1])

Untraced == pc \in {"check", "search", "visit", "found"} => path = << >>

Traced ==
    pc = "trace" =>
        /\ Joined(path)
        /\ path # << >> => path[Len(path)] = end
        /\ v # None => /\ Visited(v)
                       /\ Len(path) = dist[end] - dist[v]
                       /\ IF path = << >> THEN v = end ELSE Adjacent(v, path[1])
        /\ v = None => /\ path # << >>
                       /\ path[1] = start
                       /\ Len(path) = dist[end] + 1

(* A function on 1 .. n that goes from the start to the end: what dist     *)
(* says of the end is a lower bound of the steps it takes.                 *)
LEMMA NoShorterWalk ==
    ASSUME SearchInv, pc \in {"found", "trace"},
           NEW n \in Nat, n >= 1, NEW w \in [1 .. n -> Node], IsWalk(w, start, end)
    PROVE  Visited(end) /\ dist[end] <= n - 1
<1>1. TypeOK /\ Tree /\ Expansion /\ Cover
  BY DEF SearchInv, Searching, TypeInv
<1>2. /\ start \in Node /\ end \in Node /\ dist[start] = 0 /\ Visited(start)
      /\ \A m \in Node : dist[m] \in Int /\ (dist[m] # INF => dist[m] \in Nat)
  BY <1>1, RequestTypes, Distances DEF Tree, Visited, INF
<1>3. Len(w) = n /\ DOMAIN w = 1 .. n /\ w \in Seq(Node)
  <2>1. w \in Seq(Node)
    BY SeqDef
  <2> QED BY <2>1, LenProperties
<1>4. /\ w[1] = start /\ w[n] = end
      /\ \A k \in 1 .. n - 1 : Adjacent(w[k], w[k + 1])
      /\ \A k \in 1 .. n : w[k] \in Node
  BY <1>3 DEF IsWalk
<1> DEFINE Near(k) == Visited(w[k]) /\ dist[w[k]] <= k - 1
           Far == {k \in 1 .. n : ~ Near(k)}
<1>5. SUFFICES ASSUME ~ (Visited(end) /\ dist[end] <= n - 1) PROVE FALSE
  OBVIOUS
<1>6. n \in Far /\ Far \subseteq Nat /\ Far # {}
  BY <1>4, <1>5
<1>7. PICK k \in Far : \A l \in Far : k <= l
  BY <1>6, LeastElement
<1>8. k # 1
  BY <1>2, <1>4, <1>7
<1>9. k \in 1 .. n /\ k - 1 \in 1 .. n - 1 /\ k <= n
  BY <1>7, <1>8
<1>10. Near(k - 1)
  <2>1. k - 1 \notin Far
    BY <1>7, <1>9
  <2> QED BY <1>9, <2>1
<1>11. w[k - 1] \in Node /\ Adjacent(w[k - 1], w[k]) /\ w[k] \in Node
  BY <1>4, <1>9
<1>12. Visited(end) => dist[w[k - 1]] < dist[end]
  <2>1. Visited(end) => dist[end] > n - 1
    BY <1>2, <1>5
  <2> QED BY <1>2, <1>9, <1>10, <1>11, <2>1
<1>13. w[k - 1] \in expanded
  BY <1>1, <1>10, <1>11, <1>12 DEF Cover
<1>14. Visited(w[k]) /\ dist[w[k]] <= dist[w[k - 1]] + 1
  BY <1>1, <1>11, <1>13 DEF Expansion
<1>15. Near(k)
  BY <1>2, <1>9, <1>10, <1>11, <1>14
<1> QED BY <1>7, <1>15

ResponseInv ==
    /\ SearchInv
    /\ Untraced
    /\ Traced
    /\ ResponseIsRight

LEMMA ResponseInit == Init => ResponseInv
BY SearchInit DEF Init, ResponseInv, Untraced, Traced, ResponseIsRight

LEMMA ResponseTraceBegins == ResponseInv /\ SearchInv' /\ TraceBegins => ResponseInv'
<1> SUFFICES ASSUME ResponseInv, SearchInv', TraceBegins PROVE ResponseInv'
  OBVIOUS
<1>1. /\ end' = end /\ dist' = dist /\ path' = << >> /\ v' = end
      /\ pc' = "trace" /\ dist[end] # INF
  BY DEF TraceBegins, end, ResponseInv, Untraced
<1>2. end \in Node /\ end # None /\ dist[end] - dist[end] = 0
  <2>1. end \in Node /\ dist[end] \in Int
    BY RequestTypes, Distances DEF ResponseInv, SearchInv, TypeInv
  <2> QED BY <2>1, NodeNumbers
<1>3. Traced'
  BY <1>1, <1>2 DEF Traced, Joined, Visited
<1> QED BY <1>1, <1>3 DEF ResponseInv, Untraced, ResponseIsRight

LEMMA ResponseTrace == ResponseInv /\ SearchInv' /\ Trace => ResponseInv'
<1> SUFFICES ASSUME ResponseInv, SearchInv', Trace PROVE ResponseInv'
  OBVIOUS
<1>1. /\ end' = end /\ start' = start /\ edges' = edges /\ dist' = dist
      /\ path' = <<v>> \o path /\ v' = parent[v] /\ v # None
      /\ pc = "trace" /\ pc' = "trace"
  BY DEF Trace, end, start, edges
<1>2. TypeOK /\ Tree /\ Traced
  BY <1>1 DEF ResponseInv, SearchInv, TypeInv, Searching
<1>3. /\ v \in Node /\ end \in Node /\ start \in Node
      /\ path \in Seq(Node) /\ Len(path) \in Nat
      /\ \A m \in Node : dist[m] \in Int
  BY <1>1, <1>2, RequestTypes, Distances, LenProperties DEF TypeOK
<1>4. /\ Len(path') = Len(path) + 1 /\ path' # << >> /\ path'[1] = v
      /\ \A k \in 1 .. Len(path) : path'[k + 1] = path[k]
  BY <1>1, <1>3
<1>5. Visited(v) /\ Len(path) = dist[end] - dist[v]
  BY <1>1, <1>2 DEF Traced
<1>6. Joined(path')
  <2>1. ASSUME NEW k \in 1 .. Len(path) PROVE Adjacent(path'[k], path'[k + 1])
    <3>1. CASE k = 1
      <4>1. path # << >>
        BY <1>3, <2>1
      <4>2. Adjacent(v, path[1])
        BY <1>1, <1>2, <4>1 DEF Traced
      <4> QED BY <1>3, <1>4, <2>1, <3>1, <4>2
    <3>2. CASE k # 1
      <4>1. /\ k - 1 \in 1 .. Len(path) - 1 /\ k - 1 \in 1 .. Len(path) /\ k \in 1 .. Len(path)
            /\ (k - 1) + 1 = k
        BY <1>3, <2>1, <3>2
      <4>2. Adjacent(path[k - 1], path[k])
        BY <1>1, <1>2, <4>1 DEF Traced, Joined
      <4>3. path'[k] = path[k - 1] /\ path'[k + 1] = path[k]
        BY <1>4, <4>1
      <4> QED BY <4>2, <4>3
    <3> QED BY <3>1, <3>2
  <2> QED BY <1>3, <1>4, <2>1 DEF Joined
<1>7. path'[Len(path')] = end
  <2>1. CASE path = << >>
    BY <1>1, <1>2, <1>4, <2>1 DEF Traced
  <2>2. CASE path # << >>
    <3>1. Len(path) \in 1 .. Len(path)
      BY <1>3, <2>2, EmptySeq
    <3> QED BY <1>1, <1>2, <1>4, <2>2, <3>1 DEF Traced
  <2> QED BY <2>1, <2>2
<1>8. \/ v = start /\ v' = None
      \/ /\ v' \in Node /\ Adjacent(v', v) /\ Visited(v') /\ dist[v] = dist[v'] + 1
  BY <1>1, <1>2, <1>3, <1>5 DEF Tree
<1>9. v' # None => /\ Visited(v')
                   /\ Len(path') = dist[end] - dist[v']
                   /\ Adjacent(v', path'[1])
  BY <1>3, <1>4, <1>5, <1>8
<1>10. v' = None => path'[1] = start /\ Len(path') = dist[end] + 1
  BY <1>2, <1>3, <1>4, <1>5, <1>8, NodeNumbers DEF Tree
<1>11. Traced'
  BY <1>1, <1>4, <1>6, <1>7, <1>9, <1>10 DEF Traced, Joined, Adjacent, Visited
<1> QED BY <1>1, <1>11 DEF ResponseInv, Untraced, ResponseIsRight

LEMMA ResponseNoPath == ResponseInv /\ SearchInv' /\ NoPath => ResponseInv'
<1> SUFFICES ASSUME ResponseInv, SearchInv', NoPath PROVE ResponseInv'
  OBVIOUS
<1>1. /\ pc = "found" /\ pc' = "done" /\ ~ Visited(end)
      /\ response'.error_code = "NO_PATH"
      /\ start' = start /\ end' = end /\ edges' = edges
  BY DEF NoPath, Failure, Visited, start, end, edges
<1>2. ASSUME NEW n \in 1 .. MaxIndex + 1, WalkExists(n) PROVE FALSE
  <2>1. PICK w \in [1 .. n -> Node] : IsWalk(w, start, end)
    BY <1>2 DEF WalkExists
  <2>2. n \in Nat /\ n >= 1
    OBVIOUS
  <2> QED BY <1>1, <2>1, <2>2, NoShorterWalk DEF ResponseInv
<1>3. ResponseIsRight'
  BY <1>1, <1>2 DEF ResponseIsRight, WalkExists, IsWalk, Adjacent
<1> QED BY <1>1, <1>3 DEF ResponseInv, Untraced, Traced

LEMMA ResponseTraceEnds == ResponseInv /\ SearchInv' /\ TraceEnds => ResponseInv'
<1> SUFFICES ASSUME ResponseInv, SearchInv', TraceEnds PROVE ResponseInv'
  OBVIOUS
<1>1. /\ pc = "trace" /\ pc' = "done" /\ v = None
      /\ response'.error_code = "SUCCESS"
      /\ response'.path_length = dist[end] /\ response'.path = path
      /\ start' = start /\ end' = end /\ edges' = edges
  BY DEF TraceEnds, start, end, edges
<1>2. /\ Joined(path) /\ path[1] = start /\ path[Len(path)] = end
      /\ Len(path) = dist[end] + 1
  BY <1>1 DEF ResponseInv, Traced
<1>3. IsWalk(path, start, end)
  BY <1>2 DEF IsWalk, Joined
<1>4. dist[end] \in Int /\ Len(path) \in Nat
  BY RequestTypes, Distances, LenProperties DEF ResponseInv, SearchInv, TypeInv, TypeOK
<1>5. ASSUME NEW n \in 1 .. Len(path) - 1, WalkExists(n) PROVE FALSE
  <2>1. PICK w \in [1 .. n -> Node] : IsWalk(w, start, end)
    BY <1>5 DEF WalkExists
  <2>2. n \in Nat /\ n >= 1 /\ n <= dist[end]
    BY <1>2, <1>4
  <2>3. dist[end] <= n - 1
    BY <1>1, <2>1, <2>2, NoShorterWalk DEF ResponseInv
  <2> QED BY <1>4, <2>2, <2>3
<1>6. ResponseIsRight'
  BY <1>1, <1>2, <1>3, <1>5 DEF ResponseIsRight, WalkExists, IsWalk, Adjacent
<1> QED BY <1>1, <1>6 DEF ResponseInv, Untraced, Traced

LEMMA ResponseRefuse == ResponseInv /\ SearchInv' /\ Refuse => ResponseInv'
<1> SUFFICES ASSUME ResponseInv, SearchInv', Refuse PROVE ResponseInv'
  OBVIOUS
<1>1. /\ pc' = "done" /\ response'.error_code = "INVALID_REQUEST" /\ ~ Acceptable
      /\ request' = request
  BY DEF Refuse, Failure
<1>2. ~ Acceptable'
  BY <1>1 DEF Acceptable, HasMinimumSize, HasMaximumSize, ContainsVertices, Vertices,
              start, end, edges
<1> QED BY <1>1, <1>2 DEF ResponseInv, Untraced, Traced, ResponseIsRight

LEMMA ResponseStep == ResponseInv /\ [Next]_vars => ResponseInv'
<1> SUFFICES ASSUME ResponseInv, [Next]_vars PROVE ResponseInv'
  OBVIOUS
<1>1. SearchInv'
  BY SearchStep DEF ResponseInv
<1>2. ASSUME pc' \in {"search", "visit", "found"},
             pc \in {"check", "search", "visit", "found"}, path' = path
      PROVE  ResponseInv'
  BY <1>1, <1>2 DEF ResponseInv, Untraced, Traced, ResponseIsRight
<1>3. CASE Refuse
  BY <1>1, <1>3, ResponseRefuse
<1>4. CASE Accept
  BY <1>2, <1>4 DEF Accept
<1>5. CASE Dequeue
  BY <1>2, <1>5 DEF Dequeue
<1>6. CASE SearchEnds
  BY <1>2, <1>6 DEF SearchEnds
<1>7. CASE Visit
  BY <1>2, <1>7 DEF Visit
<1>8. CASE VisitEnds
  BY <1>2, <1>8 DEF VisitEnds
<1>9. CASE NoPath
  BY <1>1, <1>9, ResponseNoPath
<1>10. CASE TraceBegins
  BY <1>1, <1>10, ResponseTraceBegins
<1>11. CASE Trace
  BY <1>1, <1>11, ResponseTrace
<1>12. CASE TraceEnds
  BY <1>1, <1>12, ResponseTraceEnds
<1>13. CASE UNCHANGED vars
  <2>1. /\ start' = start /\ end' = end /\ edges' = edges /\ pc' = pc /\ path' = path
        /\ v' = v /\ dist' = dist /\ response' = response
    BY <1>13 DEF vars, start, end, edges
  <2>2. (Untraced /\ Traced)'
    BY <2>1 DEF ResponseInv, Untraced, Traced, Joined, Adjacent, Visited
  <2>3. ResponseIsRight'
    BY <2>1 DEF ResponseInv, ResponseIsRight, IsWalk, WalkExists, Adjacent, Acceptable,
                HasMinimumSize, HasMaximumSize, ContainsVertices, Vertices
  <2> QED BY <1>1, <2>2, <2>3 DEF ResponseInv
<1> QED BY <1>3, <1>4, <1>5, <1>6, <1>7, <1>8, <1>9, <1>10, <1>11, <1>12, <1>13 DEF Next

(* The response is right, for every request: a SUCCESS comes with a        *)
(* shortest walk, and NO_PATH is said only when there is none.             *)
THEOREM ResponseCorrect == Spec => []ResponseIsRight
<1>1. ResponseInv => ResponseIsRight
  BY DEF ResponseInv
<1> QED BY <1>1, ResponseInit, ResponseStep, PTL DEF Spec

-----------------------------------------------------------------------------
(***************************************************************************)
(* The size of a response.  A walk that no walk undercuts passes no vertex *)
(* twice, and there are no more vertices than the checks let pass.         *)
(***************************************************************************)
AcceptedInv ==
    /\ Searching \/ (pc = "done" /\ response.error_code = "SUCCESS") => Acceptable
    /\ response.error_code # "SUCCESS" => response.path = << >>

LEMMA AcceptedStep == AcceptedInv /\ ResponseInv /\ [Next]_vars => AcceptedInv'
<1> SUFFICES ASSUME AcceptedInv, ResponseInv, [Next]_vars PROVE AcceptedInv'
  OBVIOUS
<1>1. request' = request => Acceptable' = Acceptable
  BY DEF Acceptable, HasMinimumSize, HasMaximumSize, ContainsVertices, Vertices, edges, start, end
<1>2. request' = request
  BY DEF Next, Refuse, Accept, Dequeue, SearchEnds, Visit, VisitEnds, NoPath, TraceBegins,
         Trace, TraceEnds, vars
<1>3. CASE Refuse
  BY <1>3 DEF Refuse, Failure, AcceptedInv, Searching
<1>4. CASE Accept
  BY <1>1, <1>2, <1>4 DEF Accept, AcceptedInv, Searching
<1>5. CASE NoPath
  BY <1>5 DEF NoPath, Failure, AcceptedInv, Searching
<1>6. CASE TraceEnds
  BY <1>1, <1>2, <1>6 DEF TraceEnds, AcceptedInv, Searching
<1>7. CASE Dequeue \/ SearchEnds \/ Visit \/ VisitEnds \/ TraceBegins \/ Trace \/ UNCHANGED vars
  <2>1. response' = response /\ ((Searching /\ pc' # "done") \/ pc' = pc)
    BY <1>7 DEF Dequeue, SearchEnds, Visit, VisitEnds, TraceBegins, Trace, vars, Searching
  <2> QED BY <1>1, <1>2, <2>1 DEF AcceptedInv, Searching
<1> QED BY <1>3, <1>4, <1>5, <1>6, <1>7 DEF Next

(* What lies between two visits of a vertex can be left out.               *)
LEMMA NoDetour ==
    ASSUME NEW w \in Seq(Node), w # << >>, IsWalk(w, start, end),
           NEW a \in 1 .. Len(w), NEW b \in 1 .. Len(w), a < b, w[a] = w[b]
    PROVE  \E n \in 1 .. Len(w) - 1 : WalkExists(n)
<1> DEFINE m == Len(w)
           d == b - a
           n == m - d
           x == [k \in 1 .. n |-> IF k <= a THEN w[k] ELSE w[k + d]]
<1>1. m \in Nat /\ a \in Nat /\ b \in Nat /\ a >= 1 /\ b <= m
      /\ d \in Nat /\ d >= 1 /\ n \in Nat /\ n >= a /\ n <= m - 1
  BY LenProperties
<1>2. \A k \in 1 .. m : w[k] \in Node
  BY ElementOfSeq
<1>3. w[1] = start /\ w[m] = end /\ \A k \in 1 .. m - 1 : Adjacent(w[k], w[k + 1])
  BY DEF IsWalk
<1>4. a + d = b /\ n + d = m
  BY <1>1
<1> HIDE DEF m, d, n
<1>5. \A k \in 1 .. n : IF k <= a THEN k \in 1 .. m ELSE k + d \in 1 .. m
  BY <1>1, <1>4
<1>6. x \in [1 .. n -> Node]
  BY <1>2, <1>5
<1>7. Len(x) = n
  <2>1. x \in Seq(Node) /\ DOMAIN x = 1 .. n
    BY <1>1, <1>6, SeqDef
  <2> QED BY <1>1, <2>1, LenProperties
<1>8. x[1] = start
  BY <1>1, <1>3
<1>9. x[n] = end
  <2>1. CASE n <= a
    <3>1. n = a /\ b = m
      BY <1>1, <1>4, <2>1
    <3> QED BY <1>1, <1>3, <3>1
  <2>2. CASE ~ (n <= a)
    <3>1. x[n] = w[n + d]
      BY <1>1, <2>2
    <3> QED BY <1>3, <1>4, <3>1, Zenon
  <2> QED BY <2>1, <2>2
<1>10. ASSUME NEW k \in 1 .. n - 1 PROVE Adjacent(x[k], x[k + 1])
  <2>1. k \in 1 .. n /\ k + 1 \in 1 .. n
    BY <1>1
  <2>2. CASE k + 1 <= a
    <3>1. x[k] = w[k] /\ x[k + 1] = w[k + 1] /\ k \in 1 .. m - 1
      BY <1>1, <2>1, <2>2
    <3> QED BY <1>3, <3>1
  <2>3. CASE k = a
    <3>1. x[k] = w[b] /\ x[k + 1] = w[b + 1] /\ b \in 1 .. m - 1
      <4>1. k + 1 + d = b + 1 /\ ~ (k + 1 <= a) /\ k <= a
        BY <1>1, <1>4, <2>3
      <4>2. x[k] = w[a] /\ x[k + 1] = w[k + 1 + d]
        BY <2>1, <2>3, <4>1
      <4> QED BY <1>1, <1>4, <2>1, <2>3, <4>1, <4>2
    <3> QED BY <1>3, <3>1
  <2>4. CASE k > a
    <3>1. ~ (k <= a) /\ ~ (k + 1 <= a) /\ (k + 1) + d = (k + d) + 1 /\ k + d \in 1 .. m - 1
      BY <1>1, <1>4, <2>1, <2>4
    <3>2. x[k] = w[k + d] /\ x[k + 1] = w[(k + 1) + d]
      BY <2>1, <3>1
    <3> QED BY <1>3, <3>1, <3>2
  <2> QED BY <1>1, <2>1, <2>2, <2>3, <2>4
<1> HIDE DEF x
<1>11. IsWalk(x, start, end)
  BY <1>7, <1>8, <1>9, <1>10 DEF IsWalk
<1>12. WalkExists(n)
  BY <1>6, <1>11 DEF WalkExists
<1>13. n \in 1 .. Len(w) - 1
  BY <1>1 DEF m
<1> QED BY <1>12, <1>13

LEMMA ShortPath ==
    ASSUME ResponseInv, AcceptedInv, pc = "done"
    PROVE  Len(response.path) <= MaxSize
<1>1. TypeOK /\ ResponseIsRight
  BY DEF ResponseInv, SearchInv, TypeInv
<1> DEFINE w == response.path
<1>2. w \in Seq(Node) /\ Len(w) \in Nat
  <2>1. w \in Seq(Node)
    BY <1>1 DEF TypeOK, Response
  <2> QED BY <2>1, LenProperties
<1>3. MaxSize \in Nat
  BY RequestsAssumption
<1>4. CASE w = << >>
  BY <1>3, <1>4
<1>5. CASE w # << >> /\ response.error_code = "SUCCESS"
  <2> DEFINE m == Len(w)
  <2>1. Acceptable /\ IsWalk(w, start, end) /\ \A n \in 1 .. m - 1 : ~ WalkExists(n)
    BY <1>1, <1>5 DEF AcceptedInv, ResponseIsRight
  <2>2. \A a, b \in 1 .. m : a < b => w[a] # w[b]
    BY <1>2, <1>5, <2>1, NoDetour
  <2>3. edges \in Seq(Node \X Node) /\ DOMAIN edges = 1 .. Len(edges) /\ start \in Vertices
    BY <1>1, <2>1, RequestTypes DEF Acceptable, ContainsVertices
  <2>4. \A k \in DOMAIN edges : edges[k][1] \in Vertices /\ edges[k][2] \in Vertices
    BY DEF Vertices
  <2>5. ASSUME NEW k \in 1 .. m PROVE w[k] \in Vertices
    <3>1. CASE k = 1
      BY <2>1, <2>3, <3>1 DEF IsWalk
    <3>2. CASE k # 1
      <4>1. k - 1 \in 1 .. m - 1 /\ (k - 1) + 1 = k
        BY <1>2, <3>2
      <4>2. Adjacent(w[k - 1], w[k])
        BY <2>1, <4>1 DEF IsWalk
      <4>3. PICK j \in DOMAIN edges : edges[j] \in {<<w[k - 1], w[k]>>, <<w[k], w[k - 1]>>}
        BY <4>2 DEF Adjacent
      <4> QED BY <2>4, <4>3
    <3> QED BY <3>1, <3>2
  <2>6. IsFiniteSet(Vertices) /\ Cardinality(Vertices) <= MaxSize
    <3>1. Cardinality(Vertices) <= MaxSize
      BY <2>1 DEF Acceptable, HasMaximumSize
    <3>2. Vertices \subseteq Node
      BY <1>1, RequestTypes DEF Vertices
    <3>3. IsFiniteSet(Node)
      BY FS_Interval, RequestsAssumption DEF Node
    <3> QED BY <3>1, <3>2, <3>3, FS_Subset
  <2> DEFINE f == [k \in 1 .. m |-> w[k]]
  <2>7. Cardinality(1 .. m) = m /\ IsFiniteSet(1 .. m)
    <3>1. 1 \in Int /\ m \in Int /\ m \in Nat
      BY <1>2
    <3> HIDE DEF m
    <3>2. /\ Cardinality(1 .. m) = IF 1 > m THEN 0 ELSE m - 1 + 1
          /\ IsFiniteSet(1 .. m)
      BY <3>1, FS_Interval
    <3> QED BY <3>1, <3>2
  <2>8. f \in [1 .. m -> Vertices] /\ \A k \in 1 .. m : f[k] = w[k]
    BY <2>5
  <2>9. ~ (Cardinality(Vertices) < Cardinality(1 .. m))
    <3> SUFFICES ASSUME Cardinality(Vertices) < Cardinality(1 .. m) PROVE FALSE
      OBVIOUS
    <3>1. \E a, b \in 1 .. m : a # b /\ f[a] = f[b]
      <4>1. f \in [1 .. m -> Vertices] /\ IsFiniteSet(1 .. m)
        BY <2>7, <2>8
      <4> HIDE DEF f, m
      <4> QED BY <2>6, <4>1, FS_PigeonHole, Zenon
    <3>2. PICK a \in 1 .. m, b \in 1 .. m : a # b /\ w[a] = w[b]
      BY <2>8, <3>1
    <3>3. a < b \/ b < a
      BY <1>2, <3>2
    <3> QED BY <2>2, <3>2, <3>3
  <2>10. Cardinality(Vertices) \in Nat
    BY <2>6, FS_CardinalityType
  <2> QED BY <1>2, <1>3, <2>6, <2>7, <2>9, <2>10
<1> QED BY <1>4, <1>5 DEF AcceptedInv

(* A response is never longer than a graph of MaxSize vertices needs.      *)
THEOREM ResponseFits == Spec => []PathFits
<1>1. Init => ResponseInv /\ AcceptedInv
  BY ResponseInit DEF Init, AcceptedInv, Searching, Failure
<1>2. ResponseInv /\ AcceptedInv /\ [Next]_vars => (ResponseInv /\ AcceptedInv)'
  BY ResponseStep, AcceptedStep
<1>3. ResponseInv /\ AcceptedInv => PathFits
  BY ShortPath DEF PathFits
<1> QED BY <1>1, <1>2, <1>3, PTL DEF Spec
=============================================================================

------------------------------ MODULE ShortestPath ------------------------------
(***************************************************************************)
(* Server::processRequest (server/Server.cpp): the checks of common/Graph, *)
(* the breadth first search of Dijkstra::findPath (common/Dijkstra.h) and  *)
(* the response.  A step is one iteration of one of its loops.             *)
(*                                                                         *)
(* The adjacency list of a vertex holds the other ends of its edges in the *)
(* order of the edges, so the loop over the list is a loop over the edges  *)
(* here.  INF is only ever compared for equality in the code and stands    *)
(* for "not visited"; -1, which is no distance either, is used for it.     *)
(***************************************************************************)
EXTENDS Integers, Sequences, FiniteSets

CONSTANTS
    MaxIndex,   \* bound: the largest vertex of a request
    MinSize,    \* 6: the least number of vertices, and of edges
    MaxSize,    \* 20: the largest number of vertices, and of edges
    Requests    \* the requests that may arrive

Node == 0 .. MaxIndex

Request == [edges : Seq(Node \X Node), start_node : Node, end_node : Node]

ASSUME RequestsAssumption ==
    /\ MaxIndex \in Nat /\ MinSize \in Nat /\ MaxSize \in Nat
    /\ Requests \subseteq Request

INF  == -1
None == -1   \* the parent of the start

VARIABLES
    request,
    pc,         \* where processRequest is, see States
    dist,
    parent,
    queue,      \* q
    u,          \* the vertex taken from the queue last
    i,          \* the loop over the edges of u, and ...
    v,          \* ... the one from the end to the start
    path,
    response,
    expanded    \* history: the vertices all of whose edges were looked at

vars == <<request, pc, dist, parent, queue, u, i, v, path, response, expanded>>

edges == request.edges
start == request.start_node
end   == request.end_node

States ==
    { "check",     \* the checks of processRequest
      "search",    \* findPath: while the queue is not empty
      "visit",     \* findPath: for the neighbours of u
      "found",     \* findPath: after the search
      "trace",     \* findPath: from the end back to the start
      "done" }

Response == [error_code : {"none", "SUCCESS", "INVALID_REQUEST", "NO_PATH"},
             path_length : Nat, path : Seq(Node)]

Failure(code) == [error_code |-> code, path_length |-> 0, path |-> << >>]

TypeOK ==
    /\ request \in Request
    /\ pc \in States
    /\ dist \in [Node -> Nat \cup {INF}]
    /\ parent \in [Node -> Node \cup {None}]
    /\ queue \in Seq(Node)
    /\ u \in Node
    /\ i \in Nat
    /\ v \in Node \cup {None}
    /\ path \in Seq(Node)
    /\ response \in Response
    /\ expanded \subseteq Node

Init ==
    /\ request \in Requests
    /\ pc = "check"
    /\ dist = [n \in Node |-> INF]
    /\ parent = [n \in Node |-> None]
    /\ queue = << >>
    /\ u = start
    /\ i = 1
    /\ v = None
    /\ path = << >>
    /\ response = Failure("none")
    /\ expanded = {}
-----------------------------------------------------------------------------
(* The graph of the request: a self-loop counts as one edge. *)
Vertices == UNION { {edges[k][1], edges[k][2]} : k \in DOMAIN edges }

HasMinimumSize == Cardinality(Vertices) >= MinSize /\ Len(edges) >= MinSize

(* Wrong variant: only the edges are counted. *)
HasMaximumEdges == Len(edges) <= MaxSize

HasMaximumSize == Cardinality(Vertices) <= MaxSize /\ Len(edges) <= MaxSize
ContainsVertices == start \in Vertices /\ end \in Vertices

Acceptable == HasMinimumSize /\ HasMaximumSize /\ ContainsVertices

Refuse ==
    /\ pc = "check"
    /\ ~ Acceptable
    /\ response' = Failure("INVALID_REQUEST")
    /\ pc' = "done"
    /\ UNCHANGED <<request, dist, parent, queue, u, i, v, path, expanded>>

Accept ==
    /\ pc = "check"
    /\ Acceptable
    /\ dist' = [dist EXCEPT ![start] = 0]
    /\ queue' = <<start>>
    /\ pc' = "search"
    /\ UNCHANGED <<request, parent, u, i, v, path, response, expanded>>

Dequeue ==
    /\ pc = "search"
    /\ queue # << >>
    /\ u' = Head(queue)
    /\ queue' = Tail(queue)
    /\ i' = 1
    /\ pc' = IF Head(queue) = end THEN "found" ELSE "visit"
    /\ UNCHANGED <<request, dist, parent, v, path, response, expanded>>

SearchEnds ==
    /\ pc = "search"
    /\ queue = << >>
    /\ pc' = "found"
    /\ UNCHANGED <<request, dist, parent, queue, u, i, v, path, response, expanded>>

(* Wrong variant: the edge is added in one direction only. *)
OtherEndsDirected(e, n) == IF e[1] = n THEN {e[2]} ELSE {}

(* What edge e adds to the adjacency list of n. *)
OtherEnds(e, n) == (IF e[1] = n THEN {e[2]} ELSE {}) \cup (IF e[2] = n THEN {e[1]} ELSE {})

(* Wrong variants: a stack; the loop does not pass a visited neighbour. *)
PushOnTop(n) == queue' = <<n>> \o queue

Push(n) == queue' = Append(queue, n)

VisitStuckOnVisited ==
    /\ pc = "visit"
    /\ i \in DOMAIN edges
    /\ \E n \in OtherEnds(edges[i], u) :
           /\ dist[n] = INF
           /\ dist' = [dist EXCEPT ![n] = dist[u] + 1]
           /\ parent' = [parent EXCEPT ![n] = u]
           /\ Push(n)
    /\ i' = i + 1
    /\ UNCHANGED <<request, pc, u, v, path, response, expanded>>

Visit ==
    /\ pc = "visit"
    /\ i \in DOMAIN edges
    /\ \/ \E n \in OtherEnds(edges[i], u) :
              /\ dist[n] = INF
              /\ dist' = [dist EXCEPT ![n] = dist[u] + 1]
              /\ parent' = [parent EXCEPT ![n] = u]
              /\ Push(n)
       \/ /\ \A n \in OtherEnds(edges[i], u) : dist[n] # INF
          /\ UNCHANGED <<dist, parent, queue>>
    /\ i' = i + 1
    /\ UNCHANGED <<request, pc, u, v, path, response, expanded>>

VisitEnds ==
    /\ pc = "visit"
    /\ i \notin DOMAIN edges
    /\ expanded' = expanded \cup {u}
    /\ pc' = "search"
    /\ UNCHANGED <<request, dist, parent, queue, u, i, v, path, response>>

(* Wrong variant: the length findPath returns is passed on. *)
NoPathWithItsLength ==
    /\ pc = "found"
    /\ dist[end] = INF
    /\ response' = [Failure("NO_PATH") EXCEPT !.path_length = dist[end]]
    /\ pc' = "done"
    /\ UNCHANGED <<request, dist, parent, queue, u, i, v, path, expanded>>

NoPath ==
    /\ pc = "found"
    /\ dist[end] = INF
    /\ response' = Failure("NO_PATH")
    /\ pc' = "done"
    /\ UNCHANGED <<request, dist, parent, queue, u, i, v, path, expanded>>

TraceBegins ==
    /\ pc = "found"
    /\ dist[end] # INF
    /\ v' = end
    /\ pc' = "trace"
    /\ UNCHANGED <<request, dist, parent, queue, u, i, path, response, expanded>>

(* The path is built from its end and reversed afterwards: v goes in front. *)
Trace ==
    /\ pc = "trace"
    /\ v # None
    /\ path' = <<v>> \o path
    /\ v' = parent[v]
    /\ UNCHANGED <<request, pc, dist, parent, queue, u, i, response, expanded>>

TraceEnds ==
    /\ pc = "trace"
    /\ v = None
    /\ response' = [error_code |-> "SUCCESS", path_length |-> dist[end], path |-> path]
    /\ pc' = "done"
    /\ UNCHANGED <<request, dist, parent, queue, u, i, v, path, expanded>>

Next ==
    \/ Refuse
    \/ Accept
    \/ Dequeue
    \/ SearchEnds
    \/ Visit
    \/ VisitEnds
    \/ NoPath
    \/ TraceBegins
    \/ Trace
    \/ TraceEnds

Spec == Init /\ [][Next]_vars

(* The worker thread that runs processRequest is scheduled. *)
LiveSpec == Spec /\ WF_vars(Next)
-----------------------------------------------------------------------------
Adjacent(a, b) == \E k \in DOMAIN edges : edges[k] \in {<<a, b>>, <<b, a>>}

(* A walk of n vertices is a function on 1 .. n; MaxIndex + 1 vertices are *)
(* enough to reach whatever can be reached.                                *)
IsWalk(w, a, b) ==
    /\ w[1] = a
    /\ w[Len(w)] = b
    /\ \A k \in 1 .. Len(w) - 1 : Adjacent(w[k], w[k + 1])

WalkExists(n) == \E w \in [1 .. n -> Node] : IsWalk(w, start, end)

(***************************************************************************)
(* The response tells the truth about the graph of the request.  SUCCESS   *)
(* comes with a walk from the start to the end that no walk undercuts, and *)
(* with its length; NO_PATH is said only when no walk exists; and no       *)
(* request within the limits is refused.  Stopping the search at the end   *)
(* vertex, before its distance is compared with anything, does no harm.    *)
(***************************************************************************)
ResponseIsRight ==
    pc = "done" =>
        CASE response.error_code = "SUCCESS" ->
                 /\ IsWalk(response.path, start, end)
                 /\ Len(response.path) = response.path_length + 1
                 /\ \A n \in 1 .. Len(response.path) - 1 : ~ WalkExists(n)
          [] response.error_code = "NO_PATH" ->
                 \A n \in 1 .. MaxIndex + 1 : ~ WalkExists(n)
          [] OTHER -> ~ Acceptable

(***************************************************************************)
(* A path has no more vertices than a graph may have, although no response *)
(* is checked: the client takes no more of it than its buffer holds, and   *)
(* receiveTCP and recvfrom count on one that is not cut short.             *)
(***************************************************************************)
PathFits == pc = "done" => Len(response.path) <= MaxSize

(***************************************************************************)
(* An ordinary queue is enough for edges of weight 1 (the comment at the   *)
(* head of Dijkstra.h): the vertices wait in it by distance, no two of     *)
(* them more than one step apart, and never the same one twice.            *)
(***************************************************************************)
QueueByDistance ==
    \A j, k \in DOMAIN queue :
        j < k => /\ queue[j] # queue[k]
                 /\ dist[queue[j]] <= dist[queue[k]]
                 /\ dist[queue[k]] <= dist[queue[j]] + 1

(* Every request gets its response: the three loops end on every graph. *)
EveryRequestIsProcessed == <>(pc = "done")
=============================================================================

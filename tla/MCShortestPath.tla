----------------------------- MODULE MCShortestPath -----------------------------
(***************************************************************************)
(* Small requests for ShortestPath.  The client numbers the vertices in    *)
(* the order in which the edges name them (ClientMain.cpp), so only such   *)
(* lists of edges are taken.                                               *)
(***************************************************************************)
EXTENDS ShortestPath

CONSTANT MaxEdges   \* bound: the edges of a request

NumberedInOrder(f) == \A j \in DOMAIN f : f[j] = 0 \/ \E h \in 1 .. j - 1 : f[h] = f[j] - 1

EdgeLists(n) ==
    { [k \in 1 .. n |-> <<f[2 * k - 1], f[2 * k]>>] :
          f \in {g \in [1 .. 2 * n -> 0 .. MaxIndex] : NumberedInOrder(g)} }

SmallRequests ==
    [edges : UNION {EdgeLists(n) : n \in 1 .. MaxEdges}, start_node : Node, end_node : Node]
=============================================================================

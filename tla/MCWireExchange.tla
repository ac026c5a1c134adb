---------------------------- MODULE MCWireExchange ----------------------------
(***************************************************************************)
(* Instances of WireExchange for TLC.  The server takes graphs of a single *)
(* edge; an edges message of more than two is longer than Whole, one of    *)
(* more than seven longer than the buffer.                                 *)
(***************************************************************************)
EXTENDS WireExchange

(* What Server::processRequest returns, with limits of one edge. *)
OneEdge(vertices, edges) ==
    LET ends == {vertices.start_node, vertices.end_node} IN
    CASE Len(edges) # 1
           -> [error_code |-> 1, path_length |-> 0, path |-> << >>]
      [] Len(edges) = 1 /\ ends = {edges[1][1], edges[1][2]}
           -> [error_code |-> 0, path_length |-> 1,
               path |-> <<vertices.start_node, vertices.end_node>>]
      [] OTHER
           -> [error_code |-> 2, path_length |-> 0, path |-> << >>]

Graph(edges, s, e) == [edges |-> edges, start_node |-> s, end_node |-> e]
Many(n, edge) == Graph([k \in 1 .. n |-> edge], 0, 1)

GraphsOfAllSizes ==
    { Graph(<< <<0, 1>> >>, 0, 1), Graph(<< <<1, 0>> >>, 1, 0), Graph(<< <<2, 3>> >>, 1, 2),
      Graph(<< >>, 0, 1) }
    \cup {Many(n, <<0, 1>>) : n \in {2, 3, 5, 6, 7, 8}}

LargeAndSmall == {Graph(<< <<0, 1>> >>, 0, 1), Many(6, <<1, 1>>)}

Plain == <<"octet", "octet", "octet", "octet">>

(* One part of an address changed, one missing, one too many. *)
Addresses ==
    {[Plain EXCEPT ![k] = kind] : k \in 1 .. 4, kind \in {"octet", "zeros", "large", "empty", "word"}}
    \cup { <<"octet", "octet", "octet">>, <<"octet", "octet", "octet", "empty", "octet">>,
           Append(Plain, "empty"), Append(Plain, "octet"), <<"empty">> }

AllArguments ==
    { [ip |-> a, protocol |-> "tcp", port |-> 8080] : a \in Addresses }
    \cup { [ip |-> Plain, protocol |-> p, port |-> n] :
               p \in {"tcp", "UDP", "http"}, n \in {NotANumber, 80, 1024, 65535, 65536} }

TCPArguments == {[ip |-> Plain, protocol |-> "tcp", port |-> 8080]}
=============================================================================

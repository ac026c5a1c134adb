------------------------------ MODULE ClientSession ------------------------------
(***************************************************************************)
(* The client's main loop and processClientRequest (client/ClientMain.cpp) *)
(* with parseGraph and parseVertices (utils/InputParser.cpp): two lines of *)
(* input, or one and a file, make a request; the response is shown in the  *)
(* names that were typed.  The server keeps what ShortestPath promises, or *)
(* the request fails.                                                      *)
(*                                                                         *)
(* A line is what the two parsers make of it.  Lines are typed in pairs, a *)
(* graph and its vertices, without a look at the screen in between, as the *)
(* scripts of tests/ do; other programs may rewrite the file meanwhile.    *)
(***************************************************************************)
EXTENDS Integers, Sequences, FiniteSets

CONSTANTS
    Names,         \* of vertices, as typed
    Scripts,       \* what may be typed: sequences of pairs of lines
    Contents,      \* what the file may hold: sequences of lines
    MaxWrites,     \* bound: how often the file is rewritten
    MinVertices,   \* 6: MIN_VERTICES of the client
    MaxVertices,   \* 20: MAX_VERTICES of the client
    MinSize,       \* 6: the server's least number of vertices, and of edges
    MaxSize        \* 20: the server's largest number of vertices, and of edges

(* "edges" is a list of pairs of words, the empty line included; "comma"   *)
(* is one with a comma behind its last pair; "spaces" are blanks only; a   *)
(* "comment" begins with #, in files; "file" names the file; "bad" is      *)
(* anything else.                                                          *)
Line == [kind : {"edges", "comma", "spaces", "comment", "bad", "exit", "file"},
         edges : Seq(Names \X Names)]

(* The second line of a pair is meant for the vertices: two words at most. *)
ASSUME SessionAssumption ==
    /\ Scripts \subseteq Seq(Line \X {l \in Line : l.kind # "file" /\ Len(l.edges) <= 1})
    /\ Contents \subseteq Seq(Line)
    /\ MaxWrites \in Nat
    /\ {MinVertices, MaxVertices, MinSize, MaxSize} \subseteq Nat
    /\ 2 < MinVertices /\ MinVertices <= MaxVertices
    /\ MinSize <= MinVertices /\ MaxVertices <= MaxSize

Missing == << [kind |-> "missing", edges |-> << >>] >>   \* no such file

VARIABLES
    pc,            \* where processClientRequest is, see Places
    typed,         \* the lines typed and not yet read, each with its pair
    stdin,         \* "open", or "closed": getline fails when nothing is left
    file,          \* the file's content, or Missing
    writes,        \* how often the file may still be rewritten
    stringEdges,   \* the graph, in names
    names,         \* startVertexName and endVertexName
    request,       \* the request, with its numeric edges
    response,
    shown,         \* the path shown last, in names
    graphPair,     \* history: the pair whose line the graph was read from, ...
    verticesPair   \* ... and the vertices

vars == <<pc, typed, stdin, file, writes, stringEdges, names, request, response, shown,
          graphPair, verticesPair>>

Places ==
    { "graph",      \* the prompt for the graph
      "read",       \* a file was validated, and is read next
      "number",     \* the graph was read
      "vertices",   \* the prompt for the vertices
      "send",       \* the request is made
      "show",       \* the response has arrived
      "exited" }

MaxIndex == MaxVertices - 1
Server == INSTANCE ShortestPath WITH
              Requests <- {}, pc <- "done", dist <- << >>, parent <- << >>, queue <- << >>,
              u <- 0, i <- 0, v <- 0, path <- << >>, expanded <- {}

NoRequest  == [edges |-> << >>, start_node |-> 0, end_node |-> 0]
NoResponse == Server!Failure("none")

Input(script) ==
    [k \in 1 .. 2 * Len(script) |->
        [pair |-> (k + 1) \div 2, line |-> script[(k + 1) \div 2][2 - (k % 2)]]]

Init ==
    /\ pc = "graph"
    /\ \E script \in Scripts : typed = Input(script)
    /\ stdin \in {"open", "closed"}
    /\ file \in Contents \cup {Missing}
    /\ writes = MaxWrites
    /\ stringEdges = << >> /\ names = << >>
    /\ request = NoRequest /\ response = NoResponse
    /\ shown = << >>
    /\ graphPair = 0 /\ verticesPair = 0
-----------------------------------------------------------------------------
(* Input. *)
EmptyLine == [kind |-> "edges", edges |-> << >>]

(* Wrong variant: the line is not used up. *)
GetLineAgain(item) ==
    \/ typed # << >> /\ item = Head(typed) /\ UNCHANGED typed
    \/ typed = << >> /\ stdin = "closed" /\ item = [pair |-> 0, line |-> EmptyLine]
                     /\ UNCHANGED typed

(* getline(cin): the next line, or an empty one at the end of the input. *)
GetLine(item) ==
    \/ typed # << >> /\ item = Head(typed) /\ typed' = Tail(typed)
    \/ typed = << >> /\ stdin = "closed" /\ item = [pair |-> 0, line |-> EmptyLine]
                     /\ UNCHANGED typed

Item == [pair : {0}, line : {EmptyLine}] \cup {typed[k] : k \in DOMAIN typed}

(* split finds nothing behind a last comma: there parseGraph accepts it. *)
ParsesAsGraph(l) == l.kind \in {"edges", "comma"}
ParsesAsVertices(l) == l.kind = "edges" /\ Len(l.edges) = 1

Skipped(l) == l = EmptyLine \/ l.kind = "comment"

(* Wrong variant: one good line is enough. *)
ValidateGraphFileAnyLine ==
    file # Missing /\ \E k \in DOMAIN file : ~ Skipped(file[k]) /\ ParsesAsGraph(file[k])

(* Every other line must parse, and the last one leaves testEdges behind. *)
ValidateGraphFile ==
    /\ file # Missing
    /\ \A k \in DOMAIN file : Skipped(file[k]) \/ ParsesAsGraph(file[k])
    /\ \E k \in DOMAIN file : ~ Skipped(file[k])

(* readGraphFromFile also skips lines of spaces. *)
LinesToRead == {k \in DOMAIN file : ~ Skipped(file[k]) /\ file[k].kind # "spaces"}

Rewrite ==
    /\ writes > 0
    /\ file' \in (Contents \cup {Missing}) \ {file}
    /\ writes' = writes - 1
    /\ UNCHANGED <<pc, typed, stdin, stringEdges, names, request, response, shown,
                   graphPair, verticesPair>>
-----------------------------------------------------------------------------
(* processClientRequest. *)
EnterGraph ==
    /\ pc = "graph"
    /\ \E item \in Item :
           /\ GetLine(item)
           /\ graphPair' = item.pair
           /\ LET l == item.line IN
              \/ l.kind = "exit" /\ pc' = "exited" /\ stringEdges' = << >>
              \/ l.kind = "file" /\ ValidateGraphFile /\ pc' = "read" /\ stringEdges' = << >>
              \/ l.kind = "file" /\ ~ ValidateGraphFile /\ pc' = "graph" /\ stringEdges' = << >>
              \/ ParsesAsGraph(l) /\ pc' = "number" /\ stringEdges' = l.edges
              \/ /\ ~ ParsesAsGraph(l) /\ l.kind \notin {"exit", "file"}
                 /\ pc' = "graph" /\ stringEdges' = << >>
    /\ shown' = << >>
    /\ UNCHANGED <<stdin, file, writes, names, request, response, verticesPair>>

(* parseGraph clears its result before each line, so the last one remains. *)
ReadFile ==
    /\ pc = "read"
    /\ \/ /\ \A k \in LinesToRead : ParsesAsGraph(file[k])
          /\ \E k \in LinesToRead :
                 (\A j \in LinesToRead : j <= k) /\ stringEdges' = file[k].edges
          /\ pc' = "number"
       \/ /\ LinesToRead = {} \/ \E k \in LinesToRead : ~ ParsesAsGraph(file[k])
          /\ pc' = "graph" /\ UNCHANGED stringEdges
    /\ UNCHANGED <<typed, stdin, file, writes, names, request, response, shown,
                   graphPair, verticesPair>>

Ends == [k \in 1 .. 2 * Len(stringEdges) |-> stringEdges[(k + 1) \div 2][2 - (k % 2)]]

(* Wrong variant: an edge, and not a vertex, takes the next index. *)
IndexByEdge(x) ==
    CHOOSE n \in 0 .. Len(stringEdges) - 1 :
        /\ x \in {stringEdges[n + 1][1], stringEdges[n + 1][2]}
        /\ \A m \in 1 .. n : x \notin {stringEdges[m][1], stringEdges[m][2]}

(* vertexMap: a name's index is the number of names that came before it. *)
First(x)  == CHOOSE k \in DOMAIN Ends : Ends[k] = x /\ \A j \in 1 .. k - 1 : Ends[j] # x
Before(k) == {Ends[j] : j \in 1 .. k - 1}
Index(x)  == Cardinality(Before(First(x)))

Vertices == {Ends[k] : k \in DOMAIN Ends}

(* Wrong variants: the limits are off by one; the least size is not checked. *)
ValidGraphSizeTooLarge == Cardinality(Vertices) \in MinVertices .. MaxVertices + 1
ValidGraphSizeTooSmall == Cardinality(Vertices) <= MaxVertices

ValidGraphSize == Cardinality(Vertices) \in MinVertices .. MaxVertices

NumberVertices ==
    /\ pc = "number"
    /\ pc' = IF ValidGraphSize THEN "vertices" ELSE "graph"
    /\ UNCHANGED <<typed, stdin, file, writes, stringEdges, names, request, response, shown,
                   graphPair, verticesPair>>

NumericRequest(startVertexName, endVertexName) ==
    [edges |-> [k \in DOMAIN stringEdges |->
                    <<Index(stringEdges[k][1]), Index(stringEdges[k][2])>>],
     start_node |-> Index(startVertexName),
     end_node   |-> Index(endVertexName)]

EnterVertices ==
    /\ pc = "vertices"
    /\ \E item \in Item :
           /\ GetLine(item)
           /\ verticesPair' = item.pair
           /\ LET l == item.line IN
              IF ParsesAsVertices(l) /\ {l.edges[1][1], l.edges[1][2]} \subseteq Vertices
              THEN /\ pc' = "send"
                   /\ names' = l.edges[1]
                   /\ request' = NumericRequest(l.edges[1][1], l.edges[1][2])
              ELSE pc' = "graph" /\ UNCHANGED <<names, request>>
    /\ UNCHANGED <<stdin, file, writes, stringEdges, response, shown, graphPair>>

(* The server's response is right; or none arrives, and the client ends. *)
SendRequest ==
    /\ pc = "send"
    /\ UNCHANGED <<typed, stdin, file, writes, stringEdges, names, request, shown,
                   graphPair, verticesPair>>
    /\ \/ /\ response' \in { [error_code |-> "SUCCESS", path_length |-> Len(p) - 1, path |-> p] :
                              p \in UNION {[1 .. n -> Server!Node] : n \in 1 .. MaxVertices} }
                           \cup {Server!Failure("NO_PATH"), Server!Failure("INVALID_REQUEST")}
          /\ Server!ResponseIsRight'
          /\ pc' = "show"
       \/ pc' = "exited" /\ UNCHANGED response

(* indexToName: the last name with that index. *)
NameOf(n) == CHOOSE x \in Vertices : Index(x) = n

ShowResponse ==
    /\ pc = "show"
    /\ shown' = IF response.error_code = "SUCCESS"
                THEN [k \in DOMAIN response.path |-> NameOf(response.path[k])]
                ELSE << >>
    /\ pc' = "graph"
    /\ UNCHANGED <<typed, stdin, file, writes, stringEdges, names, request, response,
                   graphPair, verticesPair>>

Session ==
    \/ EnterGraph
    \/ ReadFile
    \/ NumberVertices
    \/ EnterVertices
    \/ SendRequest
    \/ ShowResponse

Next == Session \/ Rewrite

Spec == Init /\ [][Next]_vars

(* The client is scheduled, and the exchange with the server returns. *)
LiveSpec == Spec /\ WF_vars(Session)
-----------------------------------------------------------------------------
TypeOK ==
    /\ pc \in Places
    /\ typed \in Seq([pair : Nat, line : Line])
    /\ stdin \in {"open", "closed"}
    /\ file \in Contents \cup {Missing}
    /\ writes \in 0 .. MaxWrites
    /\ stringEdges \in Seq(Names \X Names)
    /\ names \in (Names \X Names) \cup {<< >>}
    /\ request \in Server!Request
    /\ response \in Server!Response
    /\ shown \in Seq(Names)
    /\ graphPair \in Nat /\ verticesPair \in Nat

(***************************************************************************)
(* The graph and the vertices of a request were typed together.  After a   *)
(* graph that is not accepted the next prompt takes the vertices line for  *)
(* a graph; that such a line names too few vertices is all that brings     *)
(* lines and prompts together again.                                       *)
(***************************************************************************)
InStep == pc \in {"send", "show"} => graphPair = verticesPair

(***************************************************************************)
(* The path shown is one in the graph as it was typed or read, in its      *)
(* names, from the one vertex asked for to the other, and none is shorter: *)
(* the way to numbers (vertexMap), to the server and back (indexToName)    *)
(* loses nothing.                                                          *)
(***************************************************************************)
JoinsNames(x, y) == \E k \in DOMAIN stringEdges : stringEdges[k] \in {<<x, y>>, <<y, x>>}

Connects(w, n) ==
    /\ w[1] = names[1] /\ w[n] = names[2]
    /\ \A k \in 1 .. n - 1 : JoinsNames(w[k], w[k + 1])

ShownPathIsRight ==
    shown # << >> =>
        /\ Connects(shown, Len(shown))
        /\ \A n \in 1 .. Len(shown) - 1 : ~ \E w \in [1 .. n -> Vertices] : Connects(w, n)

(***************************************************************************)
(* The client checks the number of vertices, the server both numbers and   *)
(* the two vertices: what passes the client's check is refused only for    *)
(* its number of edges.                                                    *)
(***************************************************************************)
RefusedForItsEdges ==
    pc = "show" /\ response.error_code = "INVALID_REQUEST" =>
        Len(stringEdges) \notin MinSize .. MaxSize

(***************************************************************************)
(* The main loop tests no state of cin.  The client ends by exit or a      *)
(* failed request; or it reads all lines, whatever they are, and waits for *)
(* more at the prompt for a graph.  If the input has an end and neither of *)
(* the two ends the client before, it refuses the graph of no edges there  *)
(* for ever, and nowhere else.                                             *)
(***************************************************************************)
Spins ==
    /\ <>[](typed = << >> /\ stringEdges = << >> /\ pc \in {"graph", "number"})
    /\ []<>(pc = "number")

OnlyTheEndSpins ==
    \/ <>[](pc = "exited")
    \/ stdin = "open" /\ <>[](typed = << >> /\ pc = "graph")
    \/ stdin = "closed" /\ Spins
=============================================================================

------------------------------- MODULE GraphFiles -------------------------------
(***************************************************************************)
(* The readers of graph files in utils/FileReader.cpp and                  *)
(* utils/InputParser.cpp, beside those that the client has for itself      *)
(* (ValidateGraphFile and ReadFile of ClientSession).  The programs do not *)
(* call them; parseGraphFromFile is offered by InputParser.h.              *)
(*                                                                         *)
(* FileReader puts a comma between the lines and parses the whole, so that *)
(* a line's own last comma leaves an empty edge behind, unless the line is *)
(* the last one.                                                           *)
(***************************************************************************)
EXTENDS ClientSession, SequencesExt

(* FileReader::readGraphFileLines: what is no comment and not empty. *)
Kept(lines) == SelectSeq(lines, LAMBDA l : ~ Skipped(l))

CommaWithin(lines) ==
    \E k \in 1 .. Len(Kept(lines)) - 1 : Kept(lines)[k].kind = "comma"

(* FileReader::validateGraphFile: all lines, joined by commas, are parsed. *)
FileReaderValidates(lines) ==
    /\ lines # Missing
    /\ Kept(lines) # << >>
    /\ \A k \in DOMAIN Kept(lines) : ParsesAsGraph(Kept(lines)[k])
    /\ ~ CommaWithin(lines)

(* FileReader::readGraphFromFile: the edges, ... *)
FileReaderEdges(lines) ==
    IF FileReaderValidates(lines)
    THEN FlattenSeq([k \in DOMAIN Kept(lines) |-> Kept(lines)[k].edges])
    ELSE << >>

(* ... the names in the order in which its vertexMap takes them in, ...    *)
TakeIn(seen, name) == IF name \in ToSet(seen) THEN seen ELSE Append(seen, name)

VertexMap(edges) ==
    FoldLeft(LAMBDA seen, edge : TakeIn(TakeIn(seen, edge[1]), edge[2]), << >>, edges)

(* ... and the numeric edges, which are given to the graph. *)
FileReaderGraph(lines) ==
    LET edges     == FileReaderEdges(lines)
        number[x \in Names] == CHOOSE n \in 0 .. Len(VertexMap(edges)) - 1 :
                                   VertexMap(edges)[n + 1] = x
    IN  [k \in DOMAIN edges |-> <<number[edges[k][1]], number[edges[k][2]]>>]

(* InputParser::parseGraphFromFile throws, or returns FileReader's graph. *)
Thrown == [error |-> "invalid_argument"]
ParseGraphFromFile(lines) ==
    IF FileReaderValidates(lines) THEN [graph |-> FileReaderGraph(lines)] ELSE Thrown

(* InputParser::readGraphFromFile takes the first two words of each line   *)
(* that is not blank: a pair, where each line is one, as its comment asks. *)
OneEdgePerLine(lines) ==
    \A k \in DOMAIN lines :
        lines[k].kind = "spaces" \/ (lines[k].kind = "edges" /\ Len(lines[k].edges) <= 1)

InputParserEdges(lines) ==
    FlattenSeq([k \in DOMAIN lines |-> IF lines[k].kind = "spaces" THEN << >> ELSE lines[k].edges])
-----------------------------------------------------------------------------
EndsWith(s, t) == Len(t) <= Len(s) /\ SubSeq(s, Len(s) - Len(t) + 1, Len(s)) = t

(* The client's numbers for the graph it has read, whatever will be asked. *)
ClientGraph == NumericRequest(stringEdges[1][1], stringEdges[1][1]).edges

(***************************************************************************)
(* FileReader accepts the files that the client accepts, but for those in  *)
(* which a line that is not the last ends with a comma.  From a file with  *)
(* a single line of edges both read the same edges and give their vertices *)
(* the same numbers; of one with several lines the client keeps the last   *)
(* line only, although it has checked them all, and so loses edges of      *)
(* every file in the format that InputParser.h gives, an edge in a line.   *)
(***************************************************************************)
FileIsNamed == pc = "graph" /\ typed' # typed /\ Head(typed).line.kind = "file"

ReadersAgree ==
    [][ /\ FileIsNamed =>
               (ParseGraphFromFile(file) # Thrown <=> pc' = "read" /\ ~ CommaWithin(file))
        /\ pc = "read" /\ pc' = "number" /\ FileReaderValidates(file) =>
               LET edges == FileReaderEdges(file) IN
               /\ EndsWith(edges, stringEdges')
               /\ stringEdges' = edges <=> Len(Kept(file)) = 1
               /\ Len(Kept(file)) = 1 => ParseGraphFromFile(file).graph = ClientGraph'
               /\ OneEdgePerLine(file) => InputParserEdges(file) = edges ]_vars
=============================================================================

----------------------------- MODULE MCClientSession -----------------------------
(***************************************************************************)
(* Lines and files for ClientSession: graphs of every size around the      *)
(* limits, with a cycle, a self-loop, repeated edges, two components; one  *)
(* vertices line that a next graph line could be mistaken for.             *)
(***************************************************************************)
EXTENDS GraphFiles

CONSTANTS a, b, c, d, e

Edges(s) == [kind |-> "edges", edges |-> s]
Comma(l) == [l EXCEPT !.kind = "comma"]
Word(k)  == [kind |-> k, edges |-> << >>]

Cycle     == Edges(<< <<a, b>>, <<b, c>>, <<c, a>> >>)
Tree      == Edges(<< <<a, b>>, <<c, a>> >>)
Apart     == Edges(<< <<c, d>>, <<c, c>>, <<a, b>> >>)
Chain     == Edges(<< <<d, c>>, <<c, b>>, <<b, a>>, <<b, a>> >>)
Large     == Edges(<< <<a, b>>, <<c, d>>, <<d, e>> >>)
Repeated  == Edges(<< <<a, b>>, <<b, a>>, <<a, b>> >>)
Single    == Edges(<< <<a, b>> >>)

GraphLines ==
    {Cycle, Comma(Tree), Apart, Chain, Large, Repeated, Single,
     Word("file"), Word("exit"), Word("bad")}
VerticesLines ==
    {Single, Edges(<< <<d, a>> >>), Edges(<< <<c, c>> >>), EmptyLine}

Pairs == GraphLines \X VerticesLines
TwoPairs == [1 .. 2 -> Pairs]

FileContents ==
    { << Cycle >>, << Word("comment"), Chain, EmptyLine >>, << Cycle, Word("bad") >>,
      << Apart, Chain >>, << Chain, Word("spaces") >>,
      << Comma(Apart), Chain >>, << Single, Comma(Cycle) >>,
      << Single, Edges(<< <<b, c>> >>), EmptyLine, Edges(<< <<c, d>> >>) >> }
=============================================================================

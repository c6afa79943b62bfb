--------------------------- MODULE MCDirtyTracker ---------------------------
(***************************************************************************)
(* Single cells, a group of two cells, a range and a range over two        *)
(* sheets.  Among the links there are chains, a self-reference and cycles  *)
(* of two and three ranges, and two listeners of one destination.          *)
(***************************************************************************)
EXTENDS DirtyTracker

Cell(s, r, c) == [sheet |-> s, row |-> r, column |-> c]
Span(a, b) == [first |-> a, last |-> b]

A1 == At(Cell(0, 0, 0))
A2 == At(Cell(0, 1, 0))
A3 == At(Cell(0, 2, 0))
B2 == At(Cell(0, 1, 1))
A1A2 == Span(Cell(0, 0, 0), Cell(0, 1, 0))
Group == Span(Cell(0, 0, 1), Cell(0, 1, 1))          \* B1:B2
Other == At(Cell(1, 0, 1))                           \* Sheet2!B1
BothSheets == Span(Cell(0, 0, 1), Cell(1, 0, 1))     \* Sheet1:Sheet2!B1

MCClients ==
  {<<A2, A1>>, <<A3, A1A2>>, <<A3, A3>>, <<A1, A3>>, <<Group, A1>>,
   <<A2, B2>>, <<A1, BothSheets>>}

MCVolatiles == {A2}

Query(modified, formulas, inOrder) ==
  [modified |-> modified, formulas |-> formulas, sorted |-> inOrder]

MCRequests ==
  {Query({A1}, {}, TRUE), Query({A1}, {}, FALSE), Query({Other}, {A2}, TRUE),
   Query({A2}, {A3, Group}, TRUE), Query({Group, A3}, {}, FALSE),
   Query({}, {A1}, TRUE)}
=============================================================================

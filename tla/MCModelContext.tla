--------------------------- MODULE MCModelContext ---------------------------
(***************************************************************************)
(* Behaviours start with an empty context, with a sheet that has a bit of  *)
(* everything, and, without calls left, with every sheet of two columns of *)
(* three rows made of four kinds of cells: what the queries are checked    *)
(* on.                                                                     *)
(***************************************************************************)
EXTENDS ModelContext

CONSTANT RichCalls    \* calls before the sheet with everything is there

MCNumbers == {0, 7}
MCTexts == {"", "x", "y"}
MCSheetNames == {"", "A", "B"}
MCExpressionNames == {<< >>, << "a" >>, << "a", ".", "1" >>, << "1", "a" >>, << "a", " " >>}
MCExpressions == {"1+1", "2"}

Tall  == [rows |-> 3, columns |-> 2]
Small == [rows |-> 2, columns |-> 1]
MCSizes == {Tall, Small}

MCGroups == {[rows |-> 2, columns |-> 1], [rows |-> 1, columns |-> 2]}
MCCellResults == {Number(7), Boolean(TRUE), Text("x"), Error}
MCGroupResults == {Matrix(<< << Boolean(TRUE), Text("x") >> >>), Matrix(<< << Number(7) >>, << Nothing >> >>),
                   Matrix(<< << Error >> >>), Number(7)}

EmptyContext == [sheets |-> << >>, names |-> << >>, statuses |-> << >>, pool |-> << >>, shown |-> << >>, calls |-> 0]

\* A number above a text, a group of two, a formula and two free cells.
RichContext ==
  [sheets   |-> << << << Number(7), StringCell(1), Nothing >>,
                      << FormulaCell(1, 0, 0), FormulaCell(1, 1, 0), FormulaCell(2, Ungrouped, Ungrouped) >> >> >>,
   names    |-> << "A" >>,
   statuses |-> << [rows |-> 2, columns |-> 1, result |-> NoResult],
                   [rows |-> 0, columns |-> 0, result |-> Text("x")] >>,
   pool     |-> << "x", "y" >>,
   shown    |-> << << << Number(7), Text("x"), Nothing >>, << NoResult, NoResult, Text("x") >> >> >>,
   calls    |-> RichCalls]

Kinds == {"empty", "numeric", "number", "text"}
Position(c, r) == (c - 1) * 3 + r
Contents(k) ==
  [sheets   |-> << [c \in 1..2 |-> [r \in 1..3 |->
                     CASE k[Position(c, r)] = "empty"   -> Nothing
                       [] k[Position(c, r)] = "numeric" -> Number(7)
                       [] OTHER -> FormulaCell(Position(c, r), Ungrouped, Ungrouped)]] >>,
   names    |-> << "A" >>,
   statuses |-> [p \in 1..6 |-> [rows |-> 0, columns |-> 0,
                     result |-> IF k[p] = "text" THEN Text("x") ELSE Number(7)]],
   pool     |-> << >>,
   shown    |-> << [c \in 1..2 |-> [r \in 1..3 |->
                     CASE k[Position(c, r)] = "empty" -> Nothing
                       [] k[Position(c, r)] = "text"  -> Text("x")
                       [] OTHER -> Number(7)]] >>,
   calls    |-> MaxCalls + 1]

MCInitialModels == {EmptyContext, RichContext} \cup { Contents(k) : k \in [1..6 -> Kinds] }

OnlyEmptyContext == {EmptyContext}

=============================================================================

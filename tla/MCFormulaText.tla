--------------------------- MODULE MCFormulaText ---------------------------
(***************************************************************************)
(* Four letters, three digits, numbers of up to nine digits, four sheets   *)
(* whose names need quotes or not, and every notation.  References: cells  *)
(* with every mixture of absolute and relative parts, ranges over one or   *)
(* two sheets, whole rows and whole columns.  Formulas: two operands, with *)
(* and without an operator between, and arrays.                            *)
(***************************************************************************)
EXTENDS FormulaText

MCLetters == << "A", "B", "C", "R" >>
MCDigits == << "0", "1", "2" >>
MCSheetNames == << << "B" >>, << "A", " ", "B" >>, << "A", "'", "'", "1" >>, << "A", "1" >> >>
MCSheetSize == [rows |-> 10, columns |-> 10]
MCFunctionNames == { << "SUM" >> }
MCErrorNames == {"REF!", "N/A"}

Notations == {"excel_a1", "excel_r1c1", "calc_a1", "odf_cra", "odff"}
Displays == {"always", "never", "only_if_different"}
CommaSeparated == [argument |-> ",", row |-> ";"]
SemicolonSeparated == [argument |-> ";", row |-> "|"]

Setting(notation, position, display, separators) ==
  [notation |-> notation, position |-> position, display |-> display, separators |-> separators]

At0 == [sheet |-> 0, row |-> 1, column |-> 1]
At1 == [sheet |-> 1, row |-> 3, column |-> 5]

\* The address of this cell with these parts absolute, in a formula at pos.
RefTo(sheet, row, column, abs, pos) ==
  [sheet  |-> IF "sheet" \in abs THEN sheet ELSE sheet - pos.sheet,
   row    |-> IF "row" \in abs \/ row = RowUnset THEN row ELSE row - pos.row,
   column |-> IF "column" \in abs \/ column = ColumnUnset THEN column ELSE column - pos.column,
   abs_sheet |-> "sheet" \in abs,
   abs_row |-> "row" \in abs /\ row # RowUnset, abs_column |-> "column" \in abs /\ column # ColumnUnset]

Flags == SUBSET {"sheet", "row", "column"}
Kinds == {<< 0, 0 >>, << 3, 5 >>, << 3, 1 >>, << RowUnset, 5 >>, << 2, ColumnUnset >>}

Cells(pos) ==
  { Token("cell_reference", RefTo(s, k[1], k[2], f, pos)) : s \in 0..3, k \in Kinds, f \in Flags }

Corners == { << << 0, 0 >>, << 3, 5 >> >>,
             << << RowUnset, 1 >>, << RowUnset, 4 >> >>, << << 1, ColumnUnset >>, << 9, ColumnUnset >> >> }

RangeRefs(pos) ==
  { Token("range_reference", [first |-> RefTo(s, c[1][1], c[1][2], f, pos),
                              last  |-> RefTo(t, c[2][1], c[2][2], g, pos)]) :
        s \in 0..1, t \in 1..2, c \in Corners, f \in Flags, g \in Flags }

MCReferences ==
  UNION { { [setting |-> Setting(n, p, d, CommaSeparated), token |-> t] :
              t \in Cells(p) \union (IF d = "never" THEN {} ELSE RangeRefs(p)) } :
             n \in Notations, d \in Displays, p \in {At0, At1} }

\* Numbers at and beyond what is printed exactly.
Numbers == { << "2", "2", "2", "2", "2", "2" >>, << "2", "0", "0", "0", "0", "0", "0" >>,
             << "1", "2", "2", "2", "2", "2", "2" >>, << "2", ".", "0", "1", "2", "0", "1", "1", "2" >>,
             << "0", ".", "0", "0", "0", "1" >>, << "0", ".", "0", "0", "0", "0", "1", "2" >>, << "0" >> }

\* Names in formulas, for each notation some of its own.
Common == { << "2", ".", "1", "0" >>, << "\"", "A", ",", "\"" >>, << "#", "REF!" >>, << "#", "1" >>, << "SUM" >>, << "x" >>,
            << "1", ":", "2" >>, << "{", "1", ";", "#", "N/A", "}" >>, << "1", ".", "1", "." >> }
Names(n) ==
  CASE n = "excel_a1" -> { << "A", "$", "1" >>, << "'", "A", " ", "B", "'", "!", "B", "1", ":", "C", "2" >>,
                           << "B", ":", "A", "1", "!", "A", "1" >>, << "'", "B", ":", "A", " ", "B", "'", "!", "A", "1" >>,
                           << "T", "[", "x", "]" >>, << "[", "x", "]" >>, << "T", "[", "#", "All", "]" >>,
                           << "T", "[", "[", "#", "Headers", "]", ",", "[", "#", "Data", "]", "]" >>,
                           << "T", "[", "[", "#", "Totals", "]", ",", "[", "x", "]", ":", "[", "y", "]", "]" >>,
                           << "A", "A", "A", "1" >>, << "x", "!", "A", "1" >>, << "A", "1", ":" >> }
    [] n = "excel_r1c1" -> { << "R", "[", "-", "1", "]", "C", "2" >>, << "R", "1", "C", ":", "R", "[", "1", "]", "C", "1" >>,
                             << "A", "1", "!", "R", "2" >>, << "C", "[", "1", "]", ":", "C", "2" >>, << "R", "C" >> }
    [] n = "calc_a1" -> { << "$", "'", "A", " ", "B", "'", ".", "B", "1", ":", "C", "2" >>, << "A", "1", ".", "A", "1" >>,
                          << "$", "B", ".", "A", "1", ":", "$", "A", "1", ".", "$", "A", "2" >>, << "x", ".", "A" >> }
    [] n = "odf_cra" -> { << ".", "A", "1" >>, << "$", "B", ".", "A", "1", ":", ".", "$", "B", "2" >>, << "A", "1" >> }
    [] n = "odff" -> { << "[", ".", "A", "1", "]" >>, << "[", "$", "A", "1", ".", "A", "1", ":", ".", "B", "$", "2", "]" >>,
                       << "[", "'", "A", " ", "B", "'", ".", "A", "1", "]" >>, << "[", "x" >> }

Between == { << >>, << " " >>, << "+" >>, << "<", "=" >>, << "<", ">" >>, << ">", "=" >>, << "<" >>, << ">" >>,
             << "," >>, << ";" >>, << "(" >> }

\* Two operands with something between, or one of them alone.
Texts(n) ==
  LET operands == Common \union Numbers \union Names(n)
      last     == CHOOSE name \in Names(n) : TRUE
  IN  operands \union { a \o << "+" >> \o b : a \in operands, b \in operands }
               \union { a \o b \o c : a \in operands, b \in Between, c \in {<< "2", ".", "1" >>, last} }

MCFormulas ==
  UNION { { [setting |-> Setting(n, At1, d, IF d = "always" THEN CommaSeparated ELSE SemicolonSeparated), text |-> t] :
              t \in Texts(n) } : n \in Notations, d \in {"always", "only_if_different"} }

=============================================================================

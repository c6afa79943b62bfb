----------------------------- MODULE MCDocument -----------------------------
(***************************************************************************)
(* Three cells of a column.  A formula is worth the sum of what it reads   *)
(* and, when it is volatile, of the time; modulo 3.                        *)
(***************************************************************************)
EXTENDS Document, FiniteSetsExt

A(row) == [sheet |-> 0, row |-> row - 1, column |-> 0]
Rows(first, last) == [first |-> A(first), last |-> A(last)]
WholeColumn ==
  [first |-> [A(1) EXCEPT !.row = RowUnset], last |-> [A(1) EXCEPT !.row = RowUnset]]

MCPositions == {A(1), A(2), A(3)}
MCSheetSize == [rows |-> 3, columns |-> 1]
MCValues == 0..2
NoResult == -1
RefError == -2
DefaultResult == 0

\* "A3:A2" is written with its bounds in the wrong order, "A:A" without rows;
\* "MAX()" is the call that throws; "NOW" is volatile.
MCFormulas ==
  {"A1", "A2", "A3", "A1:A2", "A2:A3", "NOW", "NOW+A1", "MAX()", "A3:A2", "A:A"}

MCTokens(f) ==
  CASE f \in {"A1", "NOW+A1"} -> <<Rows(1, 1)>>
    [] f = "A2" -> <<Rows(2, 2)>>
    [] f = "A3" -> <<Rows(3, 3)>>
    [] f = "A1:A2" -> <<Rows(1, 2)>>
    [] f = "A2:A3" -> <<Rows(2, 3)>>
    [] f = "A3:A2" -> <<Rows(3, 3), Rows(3, 2)>>
    [] f = "A:A" -> <<WholeColumn>>
    [] OTHER -> <<>>

MCVolatile(f) == f \in {"NOW", "NOW+A1"}
MCThrows(f) == f = "MAX()"

MCCompute(f, inputs, t) ==
  (MapThenSumSet(LAMBDA q : inputs[q], DOMAIN inputs)
     + IF MCVolatile(f) THEN t ELSE 1) % 3

\* Some of these throw when they are edited, or interpreted.
AllFormulasAt(p) ==
  CASE p = A(1) -> {"A2", "NOW", "MAX()"}
    [] p = A(2) -> {"A1", "A3", "A:A"}
    [] p = A(3) -> {"A1:A2", "NOW+A1", "A3:A2"}

\* What unregisters as it was registered.
PlainFormulas(p) ==
  CASE p = A(1) -> {"A2", "NOW", "MAX()"}
    [] p = A(2) -> {"A1", "A3"}
    [] p = A(3) -> {"A1:A2", "NOW+A1"}

\* Also what does not.
AnyFormulas(p) ==
  CASE p = A(1) -> {"A2", "NOW", "A3:A2"}
    [] p = A(2) -> {"A1", "A:A"}
    [] p = A(3) -> {"A1:A2", "A2"}
=============================================================================

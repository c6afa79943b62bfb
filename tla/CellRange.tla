----------------------------- MODULE CellRange -----------------------------
(***************************************************************************)
(* Absolute cell addresses and ranges (abs_address_t and abs_range_t in    *)
(* address.cpp).  A row or column equal to the "unset" value stands for    *)
(* all rows or all columns of the sheet.                                   *)
(***************************************************************************)
EXTENDS Integers

CONSTANTS
  RowUnset,      \* row_unset
  ColumnUnset    \* column_unset

ASSUME UnsetAssumption == RowUnset \in Nat /\ ColumnUnset \in Nat

Address   == [sheet : Int, row : Int, column : Int]
CellRanges == [first : Address, last : Address]

ValidAddress(a) ==
  /\ a.sheet >= 0
  /\ a.row \in 0..RowUnset
  /\ a.column \in 0..ColumnUnset

ValidRange(r) ==
  /\ ValidAddress(r.first) /\ ValidAddress(r.last)
  /\ r.first.sheet <= r.last.sheet
  /\ r.first.row <= r.last.row
  /\ r.first.column <= r.last.column

AllRows(r)    == r.first.row = RowUnset /\ r.last.row = RowUnset
AllColumns(r) == r.first.column = ColumnUnset /\ r.last.column = ColumnUnset

\* A single cell, as a range.
At(a) == [first |-> a, last |-> a]

Contains(r, a) ==
  /\ a.sheet \in r.first.sheet..r.last.sheet
  /\ a.row \in r.first.row..r.last.row
  /\ a.column \in r.first.column..r.last.column

\* Each pair of bounds in ascending order.
Reorder(r) ==
  LET low(x, y) == IF x <= y THEN x ELSE y
      high(x, y) == IF x <= y THEN y ELSE x
  IN  [first |-> [sheet  |-> low(r.first.sheet, r.last.sheet),
                  row    |-> low(r.first.row, r.last.row),
                  column |-> low(r.first.column, r.last.column)],
       last  |-> [sheet  |-> high(r.first.sheet, r.last.sheet),
                  row    |-> high(r.first.row, r.last.row),
                  column |-> high(r.first.column, r.last.column)]]

\* All rows and all columns made explicit, for sheets of this size.
Clip(r, size) ==
  LET rows == AllRows(r)
      columns == AllColumns(r)
  IN  [first |-> [r.first EXCEPT !.row    = IF rows THEN 0 ELSE @,
                                 !.column = IF columns THEN 0 ELSE @],
       last  |-> [r.last EXCEPT !.row    = IF rows THEN size.rows - 1 ELSE @,
                                !.column = IF columns THEN size.columns - 1 ELSE @]]

(***************************************************************************)
(* The orders of std::set<abs_range_t>: by first address, then by last;    *)
(* addresses by sheet, row and column.                                     *)
(***************************************************************************)
AddressBefore(a, b) ==
  \/ a.sheet < b.sheet
  \/ a.sheet = b.sheet /\ a.row < b.row
  \/ a.sheet = b.sheet /\ a.row = b.row /\ a.column < b.column

RangeBefore(r, s) ==
  \/ AddressBefore(r.first, s.first)
  \/ r.first = s.first /\ AddressBefore(r.last, s.last)
=============================================================================

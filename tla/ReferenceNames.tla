--------------------------- MODULE ReferenceNames ---------------------------
(***************************************************************************)
(* References and the names they are written with                          *)
(* (formula_name_resolver.cpp, address_t in address.cpp): the notations    *)
(* Excel A1 and R1C1, Calc A1, ODF cell range addresses and OpenFormula.   *)
(*                                                                         *)
(* A text is a sequence of characters.  Columns are written with the       *)
(* letters and numbers with the digits that the constants give, 26 and 10  *)
(* in the code.  An unset row or column is beyond the bound of what can be *)
(* added up.                                                               *)
(***************************************************************************)
EXTENDS CellRange, Sequences

CONSTANTS
    Letters, Digits,         \* sequences of characters; the first digit is 0
    RowBound, ColumnBound,   \* row_upper_bound, column_upper_bound
    SheetNames,              \* the texts that name the sheets, from sheet 0 on
    SheetSize,               \* [rows, columns]
    FunctionNames            \* the texts that are functions

ASSUME NamesAssumption ==
    /\ Len(Letters) > 0 /\ Len(Digits) > 1
    /\ RowBound \in 0..(RowUnset - 1) /\ ColumnBound \in 0..(ColumnUnset - 1)

LOCAL SX == INSTANCE SequencesExt

NoSheet == -2

(***************************************************************************)
(* A reference (address_t): a sheet, a row and a column, each absolute or  *)
(* relative to the cell it is in.                                          *)
(***************************************************************************)
ToAbs(ref, origin) ==
    [sheet  |-> IF origin.sheet < 0 THEN origin.sheet
                ELSE IF ref.abs_sheet THEN ref.sheet ELSE ref.sheet + origin.sheet,
     row    |-> IF ref.abs_row \/ ref.row > RowBound THEN ref.row ELSE ref.row + origin.row,
     column |-> IF ref.abs_column \/ ref.column > ColumnBound THEN ref.column
                ELSE ref.column + origin.column]

ToRelative(ref, pos, sheet) ==
    [ref EXCEPT !.sheet  = IF ~ref.abs_sheet /\ sheet THEN @ - pos.sheet ELSE @,
                !.row    = IF ~ref.abs_row /\ @ <= RowBound THEN @ - pos.row ELSE @,
                !.column = IF ~ref.abs_column /\ @ <= ColumnBound THEN @ - pos.column ELSE @]

AbsValue(n) == IF n < 0 THEN -n ELSE n

InSheetBounds(ref) ==
    LET size == IF ref.sheet \in 0..(Len(SheetNames) - 1) THEN SheetSize
                ELSE [rows |-> RowBound, columns |-> ColumnBound]
    IN  /\ ref.row = RowUnset \/ AbsValue(ref.row) < size.rows
        /\ ref.column = ColumnUnset \/ AbsValue(ref.column) < size.columns

-----------------------------------------------------------------------------
(* Writing                                                                 *)

Written(cond, text) == IF cond THEN text ELSE << >>

Numeral(n) ==
    LET base == Len(Digits)
        Of[k \in Nat] == IF k < base THEN << Digits[k + 1] >>
                         ELSE Append(Of[k \div base], Digits[(k % base) + 1])
    IN  IF n < 0 THEN << "-" >> \o Of[-n] ELSE Of[n]

ColumnName(column) ==
    LET base == Len(Letters)
        Of[c \in Nat] == IF c < base THEN << Letters[c + 1] >>
                         ELSE Append(Of[(c - (c % base)) \div base - 1], Letters[(c % base) + 1])
    IN  Of[column]

(* append_sheet_name(): quotes are doubled, and nothing but these three    *)
(* characters makes quotes needed.                                         *)
SheetText(sheet) ==
    LET name   == SheetNames[sheet + 1]
        quote  == \E k \in DOMAIN name : name[k] \in {" ", "\"", "'"}
        doubled == SX!FlattenSeq([k \in DOMAIN name |->
                      IF name[k] = "'" THEN << "'", "'" >> ELSE << name[k] >>])
    IN  IF sheet < 0 THEN << >> ELSE Written(quote, << "'" >>) \o doubled \o Written(quote, << "'" >>)

SheetOf(ref, pos) == IF ref.abs_sheet THEN ref.sheet ELSE ref.sheet + pos.sheet

ColumnText(ref, pos) ==
    IF ref.column = ColumnUnset THEN << >>
    ELSE Written(ref.abs_column, << "$" >>)
           \o ColumnName(IF ref.abs_column THEN ref.column ELSE ref.column + pos.column)

RowText(ref, pos) ==
    IF ref.row = RowUnset THEN << >>
    ELSE Written(ref.abs_row, << "$" >>)
           \o Numeral((IF ref.abs_row THEN ref.row ELSE ref.row + pos.row) + 1)

(* append_address_a1(), which does not look for unset rows and columns.    *)
AddressText(ref, pos, named, separator) ==
    Written(named, Append(SheetText(SheetOf(ref, pos)), separator))
      \o Written(ref.abs_column, << "$" >>)
      \o ColumnName(IF ref.abs_column THEN ref.column ELSE ref.column + pos.column)
      \o Written(ref.abs_row, << "$" >>)
      \o Numeral((IF ref.abs_row THEN ref.row ELSE ref.row + pos.row) + 1)

R1C1Part(letter, value, absolute) ==
    << letter >> \o (IF absolute THEN Numeral(value + 1)
                     ELSE Written(value # 0, << "[" >> \o Numeral(value) \o << "]" >>))

R1C1Text(ref) ==
    Written(ref.row # RowUnset, R1C1Part("R", ref.row, ref.abs_row))
      \o Written(ref.column # ColumnUnset, R1C1Part("C", ref.column, ref.abs_column))

R1C1Sheet(ref, pos) == Append(SheetText(SheetOf(ref, pos)), "!")

(* append_sheet_name_calc_a1() and append_sheet_name_odf_cra().            *)
DotSheet(notation, ref, pos, named) ==
    IF named THEN Written(ref.abs_sheet, << "$" >>) \o SheetText(SheetOf(ref, pos)) \o << "." >>
    ELSE Written(notation = "odf_cra", << "." >>)

CellName(notation, ref, pos, named) ==
    CASE notation = "excel_a1" -> AddressText(ref, pos, named, "!")
      [] notation = "excel_r1c1" -> Written(named, R1C1Sheet(ref, pos)) \o R1C1Text(ref)
      [] notation \in {"calc_a1", "odf_cra"} ->
            Written(named /\ ref.abs_sheet, << "$" >>)
              \o Written(~named /\ notation = "odf_cra", << "." >>) \o AddressText(ref, pos, named, ".")
      [] notation = "odff" ->
            << "[" >> \o (IF named THEN Written(ref.abs_sheet, << "$" >>) ELSE << "." >>)
              \o AddressText(ref, pos, named, ".") \o << "]" >>

(* Mutant for ShowsLastSheet. *)
ShowsAnotherSheet(range, pos) == ToAbs(range.first, pos).sheet # ToAbs(range.last, pos).sheet

(* The last sheet of a range is not written in Excel's notations, and in   *)
(* the others only when it is another one.                                 *)
ShowsLastSheet(range, pos) ==
    \/ range.first.abs_sheet # range.last.abs_sheet
    \/ ToAbs(range.first, pos).sheet # ToAbs(range.last, pos).sheet

RangeText(range, pos, before, between) ==
    before \o ColumnText(range.first, pos) \o RowText(range.first, pos) \o << ":" >>
      \o between \o ColumnText(range.last, pos) \o RowText(range.last, pos)

OdffRange(range, pos, named) ==
    LET other == range.first.sheet # range.last.sheet \/ range.first.abs_sheet # range.last.abs_sheet
    IN  IF ~named
        THEN << "." >> \o AddressText(range.first, pos, FALSE, ".") \o << ":", "." >>
               \o AddressText(range.last, pos, FALSE, ".")
        ELSE Written(range.first.abs_sheet, << "$" >>) \o AddressText(range.first, pos, TRUE, ".")
               \o << ":" >> \o (IF other THEN Written(range.last.abs_sheet, << "$" >>) ELSE << "." >>)
               \o AddressText(range.last, pos, other, ".")

RangeName(notation, range, pos, named) ==
    CASE notation = "excel_a1" -> RangeText(range, pos, Written(named, R1C1Sheet(range.first, pos)), << >>)
      [] notation = "excel_r1c1" ->
            Written(named, R1C1Sheet(range.first, pos)) \o R1C1Text(range.first) \o << ":" >> \o R1C1Text(range.last)
      [] notation \in {"calc_a1", "odf_cra"} ->
            RangeText(range, pos, DotSheet(notation, range.first, pos, named),
                      DotSheet(notation, range.last, pos, named /\ ShowsLastSheet(range, pos)))
      [] notation = "odff" -> << "[" >> \o OdffRange(range, pos, named) \o << "]" >>

(* Tables (append_table_areas(), to_string()), in Excel's notations only.  *)
TableAreas == {"Headers", "Data", "Totals"}

AreasText(areas) ==
    LET listed == SX!FoldLeft(LAMBDA text, area :
                        IF area \notin areas THEN text
                        ELSE text \o Written(text # << >>, << "," >>) \o << "[", "#", area, "]" >>,
                     << >>, << "Headers", "Data", "Totals" >>)
    IN  IF areas = TableAreas THEN << "[", "#", "All", "]" >> ELSE listed

Bracketed(text) == << "[" >> \o text \o << "]" >>

TableText(table) ==
    LET areas == Written(table.areas \notin {{}, {"Data"}}, Append(AreasText(table.areas), ","))
    IN  table.name \o
        (IF table.first = << >>
         THEN IF \E a \in TableAreas : table.areas = TableAreas \ {a}
              THEN Bracketed(AreasText(table.areas)) ELSE AreasText(table.areas)
         ELSE Bracketed(areas \o
                (IF table.last # << >>
                 THEN Bracketed(table.first) \o << ":" >> \o Bracketed(table.last)
                 ELSE IF areas = << >> THEN table.first ELSE Bracketed(table.first))))

TableName(notation, table) == Written(notation \in {"excel_a1", "excel_r1c1"}, TableText(table))

=============================================================================

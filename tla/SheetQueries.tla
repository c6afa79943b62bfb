---------------------------- MODULE SheetQueries ----------------------------
(***************************************************************************)
(* What is asked of a sheet: counting, walking, emptiness, the data range, *)
(* and the iterators over cells and addresses (model_context_impl.cpp,     *)
(* model_iterator.cpp, address_iterator.cpp).                              *)
(*                                                                         *)
(* A sheet is a sequence of columns and a column a sequence of cells, both *)
(* from position 0 at index 1; a cell has its type and, as "counts", the   *)
(* type of the value it shows.  The code goes through a column by blocks,  *)
(* the longest runs of cells of one type; these come from the container    *)
(* that keeps a column.                                                    *)
(***************************************************************************)
EXTENDS CellRange, Sequences, FiniteSets

FX == INSTANCE FiniteSetsExt

CONSTANTS
    Threw,         \* what an operation gives that throws
    Undefined      \* what is read where nothing was put, or past an assertion

LastColumn(sheet) == Len(sheet) - 1
LastRow(sheet)    == IF sheet = << >> THEN -1 ELSE Len(sheet[1]) - 1

Least(m, n) == IF m < n THEN m ELSE n

-----------------------------------------------------------------------------
(* Blocks                                                                  *)

TypeAt(column, row) == column[row + 1].type

(* The block that holds a row.                                             *)
BlockFirst(column, row) ==
    FX!Min({ r \in 0..row : \A k \in r..row : TypeAt(column, k) = TypeAt(column, row) })
BlockLast(column, row) ==
    FX!Max({ r \in row..(Len(column) - 1) : \A k \in row..r : TypeAt(column, k) = TypeAt(column, row) })

(* The parts of blocks that lie in the rows from first to last.            *)
Pieces(column, first, last) ==
    LET From[row \in 0..Len(column)] ==
            IF row > last \/ row = Len(column) THEN << >>
            ELSE << [first |-> row, last |-> Least(BlockLast(column, row), last),
                     type |-> TypeAt(column, row)] >> \o From[BlockLast(column, row) + 1]
    IN  From[first]

(* walk(), with a callback that does not end it: what it is shown.         *)
Shown(column, pieces) == [p \in DOMAIN pieces |-> [column |-> column, piece |-> pieces[p]]]

Walked(sheet, range) ==
    LET Walk[c \in 0..Len(sheet)] ==     \* in the first c columns
            IF c <= range.first.column THEN << >>
            ELSE Walk[c - 1] \o Shown(c - 1, Pieces(sheet[c], range.first.row, range.last.row))
    IN  Walk[range.last.column + 1]

-----------------------------------------------------------------------------
(* Counting and emptiness                                                  *)

(* clip_range(): rows only, and each bound for itself.                     *)
ClipRows(range, sheet) ==
    [range EXCEPT !.first.row = IF @ = RowUnset THEN 0 ELSE @,
                  !.last.row  = IF @ = RowUnset THEN LastRow(sheet) ELSE @]

(* A block counts as a whole, formula cells one by one by their results.   *)
PieceCount(column, piece, types) ==
    IF piece.type # "formula"
    THEN IF piece.type \in types THEN piece.last - piece.first + 1 ELSE 0
    ELSE Cardinality({ r \in piece.first..piece.last : column[r + 1].counts \in types })

ColumnCount(column, range, types) ==
    LET pieces == Pieces(column, range.first.row, range.last.row)
        Count[n \in 0..Len(pieces)] ==
            IF n = 0 THEN 0 ELSE Count[n - 1] + PieceCount(column, pieces[n], types)
    IN  IF range.first.row = Len(column) THEN 0 ELSE Count[Len(pieces)]

(* The result of a formula cell that was not calculated yet is not there   *)
(* to be counted.                                                          *)
Uncounted(sheet, range) ==
    \E c \in range.first.column..range.last.column, r \in range.first.row..range.last.row :
       r <= LastRow(sheet) /\ sheet[c + 1][r + 1].counts = Threw

CountRange(sheet, range, types) ==
    LET clipped == ClipRows(range, sheet)
        Count[c \in 0..Len(sheet)] ==    \* in the first c columns
            IF c <= range.first.column THEN 0
            ELSE Count[c - 1] + ColumnCount(sheet[c], clipped, types)
    IN  IF range.last.column > LastColumn(sheet) \/ clipped.first.row > LastRow(sheet) + 1 THEN Threw
        ELSE IF Uncounted(sheet, clipped) THEN Threw
        ELSE Count[range.last.column + 1]

(* shrink_to_workbook() on a workbook with this sheet.                     *)
Shrunk(sheet, range) ==
    LET r == Reorder(range)
    IN  IF r.first.column > LastColumn(sheet) \/ r.first.row > LastRow(sheet) THEN Threw
        ELSE [r EXCEPT !.last.column = Least(@, LastColumn(sheet)),
                       !.last.row    = Least(@, LastRow(sheet))]

(* Mutant for RangeQueries.                                                *)
ColumnIsEmptyAtTheTop(column, range) == TypeAt(column, range.first.row) = "empty"

(* One block at the top must reach the last row.                           *)
ColumnIsEmpty(column, range) ==
    /\ TypeAt(column, range.first.row) = "empty"
    /\ BlockLast(column, range.first.row) >= range.last.row

IsEmptyRange(sheet, range) ==
    LET r == Shrunk(sheet, range)
    IN  IF r = Threw THEN Threw
        ELSE \A c \in r.first.column..r.last.column : ColumnIsEmpty(sheet[c + 1], r)

-----------------------------------------------------------------------------
(* The data range                                                          *)

(* One column, with the bounds found so far.  The last column stays -1     *)
(* until a column with data is met, and the first one grows until then.    *)
NoData(d) == IF d.last_column < 0 THEN [d EXCEPT !.first_column = @ + 1] ELSE d

AfterColumn(d, c, column) ==
    LET size  == Len(column)
        empty == \A r \in 0..(size - 1) : TypeAt(column, r) = "empty"
        top   == IF TypeAt(column, 0) = "empty" THEN BlockLast(column, 0) + 1 ELSE 0
        foot  == IF TypeAt(column, size - 1) = "empty" THEN BlockFirst(column, size - 1) - 1
                 ELSE size - 1
    IN  IF empty /\ (d.first_row > 0 \/ d.last_row < size - 1) THEN NoData(d)
        ELSE [d EXCEPT !.first_row   = IF d.first_row > 0 /\ top < @ THEN top ELSE @,
                       !.last_row    = IF d.last_row < size - 1 /\ foot > @ THEN foot ELSE @,
                       !.last_column = IF empty THEN @ ELSE c]

DataRange(sheet) ==
    LET Found[c \in 0..Len(sheet)] ==    \* in the first c columns
            IF c = 0 THEN [first_column |-> 0, first_row |-> LastRow(sheet), last_column |-> -1, last_row |-> 0]
            ELSE AfterColumn(Found[c - 1], c - 1, sheet[c])
        d == Found[Len(sheet)]
    IN  IF LastRow(sheet) < 0 \/ d.last_column < 0 THEN << >> ELSE d

-----------------------------------------------------------------------------
(* abs_address_iterator                                                    *)

(* An iterator is an address and whether it is past the last one.  It      *)
(* moves along "fast" first, then "slow", then through the sheets.         *)
Begin(range)   == [position |-> range.first, end |-> FALSE]
PastEnd(range) == [position |-> range.last, end |-> TRUE]

NextSheet(range, it) ==
    IF it.position.sheet < range.last.sheet
    THEN [it EXCEPT !.position = [range.first EXCEPT !.sheet = it.position.sheet + 1]]
    ELSE [it EXCEPT !.end = TRUE]

PreviousSheet(range, it) ==
    IF range.first.sheet < it.position.sheet
    THEN [it EXCEPT !.position = [range.last EXCEPT !.sheet = it.position.sheet - 1]]
    ELSE Threw

Increment(range, it, fast, slow) ==
    LET p == it.position
    IN  IF it.end THEN Threw
        ELSE IF p[fast] < range.last[fast] THEN [it EXCEPT !.position[fast] = @ + 1]
        ELSE IF p[slow] < range.last[slow]
        THEN [it EXCEPT !.position[slow] = @ + 1, !.position[fast] = range.first[fast]]
        ELSE NextSheet(range, it)

Decrement(range, it, fast, slow) ==
    LET p == it.position
    IN  IF it.end THEN [it EXCEPT !.end = FALSE]
        ELSE IF range.first[fast] < p[fast] THEN [it EXCEPT !.position[fast] = @ - 1]
        ELSE IF range.first[slow] < p[slow]
        THEN [it EXCEPT !.position[slow] = @ - 1, !.position[fast] = range.last[fast]]
        ELSE PreviousSheet(range, it)

IncVertical(range, it)   == Increment(range, it, "row", "column")
DecVertical(range, it)   == Decrement(range, it, "row", "column")
IncHorizontal(range, it) == Increment(range, it, "column", "row")
DecHorizontal(range, it) == Decrement(range, it, "column", "row")

-----------------------------------------------------------------------------
(* model_iterator                                                          *)

(* abs_rc_range_t::valid(): the sheets of a range do not matter, and an    *)
(* unset bound is in order with every other.                               *)
ValidRcRange(r) ==
    /\ {r.first.row, r.last.row} \subseteq 0..RowUnset
    /\ {r.first.column, r.last.column} \subseteq 0..ColumnUnset
    /\ RowUnset \in {r.first.row, r.last.row} \/ r.first.row <= r.last.row
    /\ ColumnUnset \in {r.first.column, r.last.column} \/ r.first.column <= r.last.column

Bound(value, unset, default) == IF value = unset THEN default ELSE value

CellAt(sheet, row, column) == [row |-> row, column |-> column, cell |-> sheet[column + 1][row + 1]]

(* The horizontal iterator narrows a collection of all columns, first to   *)
(* the columns and then to the rows asked for, and goes row by row.  It    *)
(* asserts that the first is not past the last, which it is when the first *)
(* is beyond the sheet and the last is unset: without assertions the size  *)
(* it passes on means nothing.  The collection throws if the narrower one  *)
(* does not lie within it.                                                 *)
HorizontalCells(sheet, range) ==
    LET valid == ValidRcRange(range)
        c1 == IF valid THEN Bound(range.first.column, ColumnUnset, 0) ELSE 0
        c2 == IF valid THEN Bound(range.last.column, ColumnUnset, LastColumn(sheet)) ELSE LastColumn(sheet)
        r1 == IF valid THEN Bound(range.first.row, RowUnset, 0) ELSE 0
        r2 == IF valid THEN Bound(range.last.row, RowUnset, LastRow(sheet)) ELSE LastRow(sheet)
        width == c2 - c1 + 1
    IN  IF sheet = << >> THEN << >>
        ELSE IF c1 > c2 THEN Undefined
        ELSE IF c2 > LastColumn(sheet) THEN Threw
        ELSE IF r1 > r2 THEN Undefined
        ELSE IF r2 > LastRow(sheet) THEN Threw
        ELSE [k \in 1..(width * (r2 - r1 + 1)) |->
                CellAt(sheet, r1 + (k - 1) \div width, c1 + ((k - 1) % width))]

(* The vertical iterator is where it is (column and row), the column it    *)
(* ends before, and its first and last row.  It clips the range to the     *)
(* sheet.  With a first column or row past the last one it sets the column *)
(* it began with, which nothing looks at afterwards: it still has a cell,  *)
(* and no position.                                                        *)
StartVertical(sheet, range) ==
    LET valid == ValidRcRange(range)
        last_column == IF valid /\ range.last.column # ColumnUnset
                       THEN Least(range.last.column, LastColumn(sheet)) ELSE LastColumn(sheet)
        last_row == IF valid /\ range.last.row # RowUnset
                    THEN Least(range.last.row, LastRow(sheet)) ELSE LastRow(sheet)
        column == IF valid THEN Bound(range.first.column, ColumnUnset, 0) ELSE 0
        row == IF valid THEN Bound(range.first.row, RowUnset, 0) ELSE 0
        whole == [column |-> 0, end |-> last_column + 1, row |-> Undefined, first |-> 0, last |-> last_row]
    IN  IF column > last_column THEN whole
        ELSE IF row > last_row THEN [whole EXCEPT !.column = column]
        ELSE [whole EXCEPT !.column = column, !.row = row, !.first = row]

Has(it) == it.column # it.end

(* Mutant for IteratorsComplete.                                           *)
NextVerticalFromTheTop(it) ==
    IF it.row < it.last THEN [it EXCEPT !.row = @ + 1]
    ELSE [it EXCEPT !.column = @ + 1, !.row = 0]

NextVertical(it) ==
    IF it.row < it.last THEN [it EXCEPT !.row = @ + 1]
    ELSE [it EXCEPT !.column = @ + 1, !.row = it.first]

(* Where it can come to.                                                   *)
PlacesFrom(it) ==
    [column : 0..it.end, end : {it.end}, row : 0..it.last, first : {it.first}, last : {it.last}]

(* What has(), get() and next() show.                                      *)
VerticalCells(sheet, range) ==
    LET start == StartVertical(sheet, range)
        From[it \in PlacesFrom(start)] ==
            IF Has(it) THEN << CellAt(sheet, it.row, it.column) >> \o From[NextVertical(it)]
            ELSE << >>
    IN  IF start.row # Undefined THEN From[start]
        ELSE IF Has(start) THEN Undefined ELSE << >>

=============================================================================

--------------------------- MODULE FormulaFunctions ---------------------------
(***************************************************************************)
(* The built-in functions (formula_functions.cpp) on numbers, truth values *)
(* and cells, and their dispatch.  PI and NOW, whose values are no         *)
(* fractions, are left out.                                                *)
(***************************************************************************)
EXTENDS TextFunctions

CONSTANTS
    Place,       \* address -> its [sheet, column, row], from 0
    SheetNames   \* the names of the sheets

Takes(n, args, v) == IF Len(args) # n THEN Escaped ELSE v

-----------------------------------------------------------------------------
(* References                                                              *)

IsReference(v) == v.type \in {"single_ref", "range_ref"}

(* pop_range_ref() and pop_single_ref(): rows of addresses, and an address.*)
Rows(v)   == IF v.type = "range_ref" THEN v.range ELSE << << v.address >> >>
Corner(v) == Rows(v)[1][1]

ContentType(a) == Cells[a].content.type

(* The cells of the column blocks that count_range() counts.               *)
CountCells(v, types) ==
    LET cells == SX!FlattenSeq(Rows(v))
    IN  Cardinality({ k \in DOMAIN cells : ContentType(cells[k]) \in types })

-----------------------------------------------------------------------------
(* Numbers                                                                 *)

(* The sum of a sequence of numbers.                                       *)
Total(values) ==
    LET T[n \in 0..Len(values), sum \in Int \X Int] ==
            IF n = 0 THEN sum
            ELSE T[n - 1, Operate("+", sum, values[n].number).number]
    IN  Value(T[Len(values), Zero])

(* SUM and AVERAGE take a range cell by cell, everything else as a number. *)
NumbersOf(v) ==
    IF v.type # "range_ref" THEN << Numeric(v) >>
    ELSE [k \in DOMAIN SX!FlattenSeq(v.range) |-> CellNumber(SX!FlattenSeq(v.range)[k])]

(* The arguments are popped from the last to the first.                    *)
PoppedNumbers(args) == SX!FlattenSeq(SX!Reverse([i \in DOMAIN args |-> NumbersOf(args[i])]))

SumOf(popped) == After(popped, Total(popped))
Sum(args) == IF args = << >> THEN Escaped ELSE SumOf(PoppedNumbers(args))

AverageOf(popped) == After(popped, Operate("/", Total(popped).number, << Len(popped), 1 >>))
Average(args) == IF args = << >> THEN Escaped ELSE AverageOf(PoppedNumbers(args))

Below(p, q) == NumberHolds("<", p, q)

(* MAX and MIN keep the first of equal numbers.                            *)
ExtremeOf(popped, op) ==
    LET better(v, w) == IF NumberHolds(op, w.number, v.number) THEN w ELSE v
    IN  After(popped, SX!FoldLeft(better, popped[1], Tail(popped)))
Extreme(args, op) ==
    IF args = << >> THEN Escaped
    ELSE ExtremeOf(SX!Reverse([i \in DOMAIN args |-> Numeric(args[i])]), op)

(* append_values_from_stack(): what has no number is passed over.          *)
AppendedValues(v) ==
    LET cells   == SX!FlattenSeq(Rows(v))
        content == [k \in DOMAIN cells |-> Cells[cells[k]].content]
        numbers(s) == [k \in DOMAIN s |-> ElementNumber(s[k])]
    IN  CASE v.type \in {"boolean", "value"} -> << ElementNumber(v) >>
          [] IsReference(v) ->
                numbers(SelectSeq(content, LAMBDA c : c.type \in {"boolean", "value"}))
          [] OTHER -> << >>

SortedValues(args) ==
    SX!SortSeq(SX!FlattenSeq([i \in DOMAIN args |-> AppendedValues(args[i])]), Below)

(* (No formula of the instances asks for the median of no number, where    *)
(* the code reads before the first element of an empty vector.)            *)
Middle(seq, mid) ==
    IF Len(seq) % 2 = 1 THEN Value(seq[mid + 1])
    ELSE Operate("/", Operate("+", seq[mid], seq[mid + 1]).number, << 2, 1 >>)
MedianOf(seq) == Middle(seq, Len(seq) \div 2)
Median(args) == IF args = << >> THEN Escaped ELSE MedianOf(SortedValues(args))

CountOf(seq, q) == Cardinality({ k \in DOMAIN seq : seq[k] = q })

(* As if the last of the longest runs came first.                          *)
LastLongestRun(seq) ==
    seq[CHOOSE k \in DOMAIN seq :
          \A j \in DOMAIN seq : /\ CountOf(seq, seq[j]) <= CountOf(seq, seq[k])
                                /\ CountOf(seq, seq[j]) = CountOf(seq, seq[k]) => k >= j]

(* The lengths of the runs of equal numbers, and the number of the longest.*)
(* The comparison that orders the runs is no order (of two numbers both    *)
(* can come first); it gives the first of the longest runs as long as      *)
(* std::sort inserts, which it does for up to 16 of them.                  *)
LongestRun(seq) ==
    seq[CHOOSE k \in DOMAIN seq :
          \A j \in DOMAIN seq : /\ CountOf(seq, seq[j]) <= CountOf(seq, seq[k])
                                /\ CountOf(seq, seq[j]) = CountOf(seq, seq[k]) => k <= j]

ModeOf(seq) ==
    IF \A k \in DOMAIN seq : CountOf(seq, seq[k]) = 1 THEN ErrorOf("no_value_available")
    ELSE Value(LongestRun(seq))
Mode(args) == IF args = << >> THEN Escaped ELSE ModeOf(SortedValues(args))

(* COUNT and COUNTA: a boolean, an error and a matrix are not counted.     *)
Count(args, literals, types) ==
    LET counted(v) == CASE v.type \in literals -> 1
                        [] IsReference(v) -> CountCells(v, types)
                        [] OTHER -> 0
    IN  Number(SX!FoldLeft(LAMBDA n, v : n + counted(v), 0, args))

CountBlank(args) ==
    Takes(1, args, IF IsReference(args[1]) THEN Number(CountCells(args[1], {"empty"})) ELSE Escaped)

OfOneNumber(v, F(_)) == After(<< v >>, F(v.number))
OfNumber(args, F(_)) == Takes(1, args, OfOneNumber(Numeric(args[1]), F))

Abs(args)    == OfNumber(args, LAMBDA q : Value(<< Size(q[1]), q[2] >>))
Int_(args)   == OfNumber(args, LAMBDA q : Number(Floor(q)))
N(args)      == OfNumber(args, LAMBDA q : Value(q))
IsOdd(args)  == OfNumber(args, LAMBDA q : Boolean(Size(Truncate(q)) % 2 = 1))
IsEven(args) == OfNumber(args, LAMBDA q : Boolean(Size(Truncate(q)) % 2 = 0))

(* maybe_pop_matrix().                                                     *)
MatrixOf(v) ==
    CASE v.type = "matrix"    -> v
      [] v.type = "range_ref" -> RangeValue(v.range)
      [] OTHER -> Escaped

IsNumericMatrix(m) ==
    \A i \in DOMAIN m.rows : \A j \in DOMAIN m.rows[i] : m.rows[i][j].type \in {"value", "boolean"}

Product(l, r) ==
    LET term(i, j, k) == Operate("*", ElementNumber(l[i][k]), ElementNumber(r[k][j]))
        entry(i, j) == Total([k \in DOMAIN r |-> term(i, j, k)])
    IN  Matrix([i \in DOMAIN l |-> [j \in DOMAIN r[1] |-> entry(i, j)]])

MmultOf(popped, count) ==
    After(popped,
      IF count # 2 \/ ~IsNumericMatrix(popped[1]) \/ ~IsNumericMatrix(popped[2]) THEN Escaped
      ELSE IF Len(popped[2].rows[1]) # Len(popped[1].rows) THEN Thrown("invalid_expression")
      ELSE Product(popped[2].rows, popped[1].rows))
Mmult(args) ==
    MmultOf([k \in 1..Least(2, Len(args)) |-> MatrixOf(args[Len(args) + 1 - k])], Len(args))

(* SUBTOTAL knows the sum (109) only.                                      *)
SubtotalOf(subtype, range) ==
    After(<< subtype >>, IF Truncate(subtype.number) # 109 THEN Escaped ELSE SumOf(NumbersOf(range)))
Subtotal(args) ==
    Takes(2, args,
      IF ~IsReference(args[2]) THEN Thrown("stack_error")
      ELSE SubtotalOf(Numeric(args[1]), RangeRef(Rows(args[2]))))

-----------------------------------------------------------------------------
(* Truth values                                                            *)

IsLogical(c) == c.type \in {"boolean", "value"}
Truth(c) == ElementNumber(c) # Zero

(* pop_boolean().                                                          *)
Logical(v) ==
    LET c == Cells[v.address].content IN
    CASE v.type \in {"boolean", "value"} -> Boolean(Truth(v))
      [] v.type = "matrix" -> Boolean(MatrixNumber(v.rows) # Zero)
      [] v.type = "single_ref" /\ c.type = "empty" -> Boolean(FALSE)
      [] v.type = "single_ref" /\ IsLogical(c) -> Boolean(Truth(c))
      [] OTHER -> Thrown("invalid_value_type")

(* What walk() shows of a range: column by column, the runs of cells that  *)
(* the column stores as one block.                                         *)
BlockType(a) == IF Cells[a].formula THEN "formula" ELSE ContentType(a)
Blocks(rows) ==
    LET column(j) == [i \in DOMAIN rows |-> rows[i][j]]
        starts(c) == { i \in DOMAIN c : i = 1 \/ BlockType(c[i]) # BlockType(c[i - 1]) }
        ends(c) == { i \in DOMAIN c : i = Len(c) \/ i + 1 \in starts(c) }
        block(c, i) == SubSeq(c, i, CHOOSE e \in ends(c) : e >= i /\ \A f \in ends(c) : f >= i => e <= f)
    IN  UNION { { block(column(j), i) : i \in starts(column(j)) } : j \in DOMAIN rows[1] }

(* The places in a block that have a truth value, and it.                  *)
LogicalPlaces(block) == { k \in DOMAIN block : IsLogical(Cells[block[k]].content) }
TruthAt(block, k) == Truth(Cells[block[k]].content)

(* AND over one block: of formula cells only the last with a truth value   *)
(* counts.                                                                 *)
BlockAnd(block) ==
    LET places == LogicalPlaces(block)
    IN  IF BlockType(block[1]) = "formula" /\ places # {}
        THEN TruthAt(block, CHOOSE k \in places : \A j \in places : j <= k)
        ELSE \A k \in places : TruthAt(block, k)

(* As if the formula cells of a block were passed over.                    *)
BlockOrOfConstants(block) ==
    BlockType(block[1]) # "formula" /\ \E k \in LogicalPlaces(block) : TruthAt(block, k)

BlockOr(block) == \E k \in LogicalPlaces(block) : TruthAt(block, k)

(* One argument of AND (neutral TRUE) or OR (neutral FALSE).  The walk     *)
(* ends at the first block that decides.                                   *)
JunctionArgument(v, neutral) ==
    LET c == Cells[v.address].content IN
    CASE v.type = "value" -> Boolean(Truth(v))
      [] v.type = "string" -> Boolean(neutral)
      [] v.type = "single_ref" -> Boolean(IF IsLogical(c) THEN Truth(c) ELSE neutral)
      [] v.type = "range_ref" ->
            Boolean(IF neutral THEN \A b \in Blocks(v.range) : BlockAnd(b)
                    ELSE \E b \in Blocks(v.range) : BlockOr(b))
      [] OTHER -> Thrown("general_error")

(* AND and OR: the arguments are popped until one decides.                 *)
Junction(args, neutral) ==
    LET result(k) == JunctionArgument(args[k], neutral)
        deciding == { k \in DOMAIN args : result(k) # Boolean(neutral) }
    IN  IF deciding = {} THEN Boolean(neutral)
        ELSE result(CHOOSE k \in deciding : \A j \in deciding : j <= k)

Negation(v) == After(<< v >>, Boolean(~v.boolean))
Not(args) == Takes(1, args, Negation(Logical(args[1])))

TruthConstant(args, b) == Takes(0, args, Boolean(b))

(* IF keeps the argument it chooses as it is, a reference included.        *)
Choice(c, v, w) == After(<< c >>, IF c.number # Zero THEN v ELSE w)
If(args) == Takes(3, args, Choice(Numeric(args[1]), args[2], args[3]))

-----------------------------------------------------------------------------
(* Questions about an argument                                             *)

(* What a value or the cell it refers to is; a range is only a range.      *)
TypeOf(v) == IF v.type = "single_ref" THEN ContentType(v.address) ELSE v.type

IsType(args, types) == Takes(1, args, Boolean(TypeOf(args[1]) \in types))

(* A formula cell is not blank, whatever its result is.                    *)
IsBlankCell(a) == ~Cells[a].formula /\ ContentType(a) = "empty"
IsBlank(args) ==
    Takes(1, args,
      Boolean(/\ IsReference(args[1])
              /\ \A i \in DOMAIN Rows(args[1]) : \A j \in DOMAIN Rows(args[1])[i] :
                    IsBlankCell(Rows(args[1])[i][j])))

(* The error of a value or of a formula cell.                              *)
ErrorIn(v) ==
    CASE v.type = "error" -> v.error
      [] v.type = "single_ref" /\ ContentType(v.address) = "error" -> Cells[v.address].content.error
      [] OTHER -> "no_error"

(* As if a missing value were one of the errors ISERR is about.            *)
IsErrOrNa(args) == Takes(1, args, Boolean(ErrorIn(args[1]) # "no_error"))

(* ISERR is about the errors 1 to 6: not about a value that is missing.    *)
IsErr(args) ==
    Takes(1, args, Boolean(ErrorIn(args[1]) \notin {"no_error", "no_value_available"} \cup InternalErrors))
IsError(args) == Takes(1, args, Boolean(TypeOf(args[1]) = "error"))
IsNa(args)    == Takes(1, args, Boolean(ErrorIn(args[1]) = "no_value_available"))

IsFormula(args) ==
    Takes(1, args, Boolean(args[1].type = "single_ref" /\ Cells[args[1].address].formula))

IsRef(args) == Takes(1, args, Boolean(IsReference(args[1])))

TypeCode == [empty |-> 1, value |-> 1, string |-> 2, boolean |-> 4, error |-> 16,
             matrix |-> 64, range_ref |-> 64]
Type(args) == Takes(1, args, Number(TypeCode[TypeOf(args[1])]))

Na(args) == Takes(0, args, ErrorOf("no_value_available"))

-----------------------------------------------------------------------------
(* Where a reference points                                                *)

(* COLUMN and ROW: of the formula cell without an argument.                *)
Coordinate(args, field) ==
    CASE args = << >> -> Number(Place[Position][field] + 1)
      [] Len(args) > 1 -> Escaped
      [] Len(args) = 1 /\ IsReference(args[1]) -> Number(Place[Corner(args[1])][field] + 1)
      [] OTHER -> Thrown("invalid_value_type")

(* COLUMNS and ROWS add up over all their arguments.                       *)
Extent(args, Of(_)) ==
    IF \E k \in DOMAIN args : ~IsReference(args[k]) THEN Thrown("invalid_value_type")
    ELSE Number(SX!FoldLeft(LAMBDA n, v : n + Of(Rows(v)), 0, args))

Columns(args)   == Extent(args, LAMBDA rows : Len(rows[1]))
RowCount(args)  == Extent(args, LAMBDA rows : Len(rows))

Sheet(args) ==
    IF Len(args) = 1 /\ args[1].type = "string"
    THEN LET named == { k \in DOMAIN SheetNames : SheetNames[k] = args[1].text /\ SheetNames[k] # << >> }
         IN  IF named = {} THEN Thrown("no_value_available")
             ELSE Number(CHOOSE k \in named : \A j \in named : k <= j)
    ELSE Coordinate(args, "sheet")

(* A range of the instances is on one sheet.                               *)
Sheets(args) ==
    CASE args = << >> -> Number(Len(SheetNames))
      [] Len(args) > 1 -> Escaped
      [] Len(args) = 1 /\ IsReference(args[1]) -> Number(1)
      [] OTHER -> Thrown("no_value_available")

(* TEXTJOIN reads its ranges row by row; the text of an empty cell is      *)
(* joined unless the second argument says otherwise.                       *)
TextOfError == << 35 >>
CellText(a) == IF ContentType(a) = "error" THEN TextOfError ELSE ElementText(Cells[a].content)

JoinedCells(delimiter, skip_empty, cells) ==
    LET kept == SelectSeq(cells, LAMBDA a : ~(skip_empty.boolean /\ IsBlankCell(a)))
    IN  After(<< skip_empty, delimiter >>,
              Text(Joined([k \in DOMAIN kept |-> CellText(kept[k])], delimiter.text)))
TextJoin(args) ==
    IF Len(args) < 3 THEN Escaped
    ELSE IF \E k \in 3..Len(args) : ~IsReference(args[k]) THEN Thrown("stack_error")
    ELSE JoinedCells(Textual(args[1]), Logical(args[2]),
                     SX!FlattenSeq([k \in 1..(Len(args) - 2) |-> SX!FlattenSeq(Rows(args[k + 2]))]))

(* WAIT sleeps for a second and drops its arguments.                       *)
Wait(args) == Number(1)

-----------------------------------------------------------------------------
(* formula_functions::interpret                                            *)

NumberFunctions == {"ABS", "AVERAGE", "COUNT", "COUNTA", "COUNTBLANK", "INT", "MAX", "MEDIAN",
                    "MIN", "MMULT", "MODE", "N", "SUBTOTAL", "SUM"}
TextFunctionNames == {"CONCATENATE", "EXACT", "FIND", "LEFT", "LEN", "MID", "REPLACE", "REPT",
                      "RIGHT", "SUBSTITUTE", "T", "TEXTJOIN", "TRIM"}
LogicalFunctions == {"AND", "OR", "NOT", "IF", "TRUE", "FALSE", "ISEVEN", "ISODD"}

NumberFunction(f, args) ==
    CASE f = "ABS"        -> Abs(args)
      [] f = "AVERAGE"    -> Average(args)
      [] f = "COUNT"      -> Count(args, {"value"}, {"value", "boolean"})
      [] f = "COUNTA"     -> Count(args, {"value", "string"}, {"value", "boolean", "string"})
      [] f = "COUNTBLANK" -> CountBlank(args)
      [] f = "INT"        -> Int_(args)
      [] f = "MAX"        -> Extreme(args, ">")
      [] f = "MEDIAN"     -> Median(args)
      [] f = "MIN"        -> Extreme(args, "<")
      [] f = "MMULT"      -> Mmult(args)
      [] f = "MODE"       -> Mode(args)
      [] f = "N"          -> N(args)
      [] f = "SUBTOTAL"   -> Subtotal(args)
      [] f = "SUM"        -> Sum(args)

TextFunction(f, args) ==
    CASE f = "CONCATENATE" -> Concatenate(args)
      [] f = "EXACT"       -> Exact(args)
      [] f = "FIND"        -> Find(args)
      [] f = "LEFT"        -> Left(args)
      [] f = "LEN"         -> Length(args)
      [] f = "MID"         -> Mid(args)
      [] f = "REPLACE"     -> Replace(args)
      [] f = "REPT"        -> Repeat(args)
      [] f = "RIGHT"       -> Right(args)
      [] f = "SUBSTITUTE"  -> Substitute(args)
      [] f = "T"           -> TextOrNothing(args)
      [] f = "TEXTJOIN"    -> TextJoin(args)
      [] f = "TRIM"        -> Trim(args)

LogicalFunction(f, args) ==
    CASE f = "AND"    -> Junction(args, TRUE)
      [] f = "OR"     -> Junction(args, FALSE)
      [] f = "NOT"    -> Not(args)
      [] f = "IF"     -> If(args)
      [] f = "TRUE"   -> TruthConstant(args, TRUE)
      [] f = "FALSE"  -> TruthConstant(args, FALSE)
      [] f = "ISEVEN" -> IsEven(args)
      [] f = "ISODD"  -> IsOdd(args)

CellFunction(f, args) ==
    CASE f = "COLUMN"    -> Coordinate(args, "column")
      [] f = "COLUMNS"   -> Columns(args)
      [] f = "ROW"       -> Coordinate(args, "row")
      [] f = "ROWS"      -> RowCount(args)
      [] f = "SHEET"     -> Sheet(args)
      [] f = "SHEETS"    -> Sheets(args)
      [] f = "ISBLANK"   -> IsBlank(args)
      [] f = "ISERR"     -> IsErr(args)
      [] f = "ISERROR"   -> IsError(args)
      [] f = "ISFORMULA" -> IsFormula(args)
      [] f = "ISLOGICAL" -> IsType(args, {"boolean"})
      [] f = "ISNA"      -> IsNa(args)
      [] f = "ISNONTEXT" -> IsType(args, DOMAIN TypeCode \ {"string"})
      [] f = "ISNUMBER"  -> IsType(args, {"value"})
      [] f = "ISREF"     -> IsRef(args)
      [] f = "ISTEXT"    -> IsType(args, {"string"})
      [] f = "NA"        -> Na(args)
      [] f = "TYPE"      -> Type(args)
      [] f = "WAIT"      -> Wait(args)
      [] OTHER -> Escaped     \* a name no function is implemented for

FunctionValue(f, args) ==
    CASE f \in NumberFunctions   -> NumberFunction(f, args)
      [] f \in TextFunctionNames -> TextFunction(f, args)
      [] f \in LogicalFunctions  -> LogicalFunction(f, args)
      [] OTHER -> CellFunction(f, args)

(* An error of the formula becomes the value of the call, an internal one  *)
(* is thrown on.                                                           *)
AsValue(v) == IF v.type = "thrown" /\ v.error \notin InternalErrors THEN ErrorOf(v.error) ELSE v

(* What a call in a formula gives.                                         *)
Called(f, args) == AsValue(FunctionValue(f, args))

=============================================================================

---------------------------- MODULE MCInterpreter ----------------------------
(***************************************************************************)
(* Instances of Interpreter: the cells a formula can refer to, and the     *)
(* formulas, all token strings over small alphabets up to a length.        *)
(***************************************************************************)
EXTENDS FormulaGrammar, FunctionLaws

LOCAL INSTANCE SequencesExt

CONSTANTS
    ArithmeticLength, CallLength, ArrayLength,   \* longest formula of each kind
    NameLength                                   \* longest formula with names

Op(o) == [op |-> o]
Ops(os) == { Op(o) : o \in os }
Literal(n) == [op |-> "value", value |-> Value(<< n, 1 >>)]
TextLiteral == [op |-> "string", value |-> Text(<< 97 >>)]
ErrorLiteral == [op |-> "error", value |-> ErrorOf("no_value_available")]
CellRef(a) == [op |-> "single_ref", address |-> a]
CellRangeRef(r) == [op |-> "range_ref", range |-> r]
Function(f) == [op |-> "function", name |-> f]
Name(m) == [op |-> "name", name |-> m]

NoNames == [m \in {} |-> << >>]
Unnamed(formulas) == [formula : formulas, names : {NoNames}]

-----------------------------------------------------------------------------
(* The document around the formula: an empty cell, a number, a text and a  *)
(* boolean, and formula cells whose results are a text, a number, an       *)
(* error.  "self" is the cell of the formula.                              *)
MCPosition == "self"
MCCells ==
    LET cell(f, c) == [formula |-> f, content |-> c] IN
    [ blank   |-> cell(FALSE, Empty),
      number  |-> cell(FALSE, Value(<< 3, 1 >>)),
      flag    |-> cell(FALSE, Boolean(TRUE)),
      text    |-> cell(FALSE, Text(<< 97 >>)),
      ftext   |-> cell(TRUE,  Text(<< 98 >>)),
      fnumber |-> cell(TRUE,  Value(<< 5, 1 >>)),
      fflag   |-> cell(TRUE,  Boolean(FALSE)),
      failed  |-> cell(TRUE,  ErrorOf("division_by_zero")),
      missing |-> cell(TRUE,  ErrorOf("no_value_available")),
      broken  |-> cell(TRUE,  ErrorOf("general_error")),
      partial |-> cell(TRUE,  ErrorOf("no_error")),
      zero    |-> cell(FALSE, Value(<< 0, 1 >>)) ]

(* Where they are, and the sheets.                                         *)
MCPlace == [a \in DOMAIN MCCells \cup {MCPosition} |->
              [sheet |-> IF a \in {"blank", MCPosition} THEN 1 ELSE 0,
               column |-> IF a \in {"number", "flag"} THEN 2 ELSE 4, row |-> IF a = "failed" THEN 7 ELSE 6]]
MCFunctions(f, args) == Called(f, args)
MCSheetNames == << << 98 >>, << 97 >> >>

-----------------------------------------------------------------------------
(* Formulas                                                                *)

(* Precedence, association, signs and parentheses.                         *)
ArithmeticFormulas ==
    BoundedSeq(Ops({"-", "*", "/", "(", ")"}) \cup {Literal(2), Literal(3)}, ArithmeticLength)

(* The argument loop, with calls inside calls.                             *)
CallFormulas ==
    BoundedSeq(Ops({"(", ")", ","}) \cup {Literal(2), Function("SUM")}, CallLength)

(* The array loop, texts in shorter ones.                                  *)
ArrayOps == Ops({"{", "}", ",", ";", "-"})
ArrayFormulas ==
    { << Op("{") >> \o s : s \in BoundedSeq(ArrayOps \cup {Literal(2)}, ArrayLength)
                               \cup BoundedSeq(ArrayOps \cup {TextLiteral}, ArrayLength - 1)
                               \cup BoundedSeq({Op("-"), Op("}"), Op(","), Literal(2), TextLiteral}, ArrayLength - 1) }

(* Every kind of operand, alone, signed, in pairs under the operators and  *)
(* as the arguments of the functions.                                      *)
Array(es) == << Op("{") >> \o es \o << Op("}") >>
Call(f, args) ==
    << Function(f), Op("(") >>
      \o FlattenSeq([k \in DOMAIN args |-> IF k = 1 THEN args[k] ELSE << Op(",") >> \o args[k]])
      \o << Op(")") >>

SimpleOperands ==
    { << Literal(2) >>, << TextLiteral >>, << ErrorLiteral >>, << CellRef("number") >>,
      << CellRef("blank") >>, << CellRef("failed") >>, << CellRangeRef(<< << "number", "text" >> >>) >> }
Operands ==
    SimpleOperands
    \cup { << CellRef(a) >> : a \in {"self", "flag", "text", "ftext", "fnumber", "fflag"} }
    \cup { << CellRangeRef(r) >> : r \in { << << "number", "failed" >> >>, << << "blank" >>, << "self" >> >> } }
    \cup { << Literal(0) >>, << [op |-> "table_ref"] >>, Call("ISERROR", << << Literal(2) >> >>),
           Array(<< Literal(2), Op(","), TextLiteral >>), Array(<< Literal(2), Op(";"), Literal(3) >>) }

(* Ranges with every kind of column block: formula cells whose truth       *)
(* values follow one another in both orders, constants and blank cells.    *)
Ranges ==
    { << CellRangeRef([i \in DOMAIN r |-> << r[i] >>]) >> :
        r \in { << "blank" >> } \cup {"number", "blank", "fnumber", "fflag"} \X {"text", "fnumber", "fflag", "failed", "zero"} }
    \cup { << CellRangeRef(r) >> : r \in { << << "fnumber", "number" >>, << "fflag", "flag" >> >>,
             << << "fflag", "number" >>, << "fnumber", "number" >>, << "ftext", "blank" >> >>,
             << << "flag", "blank", "zero" >> >>, << << "ftext" >>, << "fflag" >> >> } }
Matrices == { Array(<< Literal(1), Op(","), Literal(2) >>),
              Array(<< Literal(1), Op(","), Literal(2), Op(";"), Literal(3), Op(","), Literal(4) >>),
              Array(<< Literal(1), Op(";"), Literal(2) >>), Array(<< TextLiteral >>) }

Signed_(o) == << Op("-") >> \o o
Signed(os) == os \cup { Signed_(o) : o \in os }
PairFormulas ==
    Signed(Operands) \cup
    { l \o << Op(o) >> \o r : l \in Operands, r \in Signed(Operands),
                             o \in {"+", "=", "<", ">=", "*", "/", "&"} }
FunctionFormulas ==
    { Call(f, args) : f \in {"SUM", "IF"}, args \in BoundedSeq(SimpleOperands, 3) }
    \cup { Call(f, args) : f \in {"ISERROR", "NA", "CONCATENATE"}, args \in BoundedSeq(SimpleOperands, 2) }

(* Texts with spaces and with characters of two bytes, and one that is not *)
(* UTF-8.                                                                  *)
TextOf_(bytes) == << [op |-> "string", value |-> Text(bytes)] >>
Texts == { TextOf_(s) : s \in { << >>, << 97 >>, << 195, 169 >>, << 97, 195, 169, 97 >>,
                               << 32, 97, 98, 32, 32, 195, 169, 32 >>, << 97, 97, 97 >>, << 97, 255 >> } }
Numbers == { << Literal(n) >> : n \in 0..3 } \cup { << CellRef("failed") >> }
PartTexts == { TextOf_(s) : s \in { << 97 >>, << 195, 169 >>, << 169 >>, << >> } }

TextFormulas ==
    { Call(f, << t >>) : f \in {"LEN", "LEFT", "TRIM", "T", "SHEET"}, t \in Texts }
    \cup { Call(f, << t, n >>) : f \in {"LEFT", "RIGHT", "REPT"}, t \in Texts, n \in Numbers }
    \cup { Call("MID", << t, n, m >>) : t \in Texts, n \in Numbers, m \in Numbers }
    \cup { Call("REPLACE", << t, n, m, << TextLiteral >> >>) : t \in Texts, n \in Numbers, m \in Numbers }
    \cup { Call(f, << u, t >>) : f \in {"FIND", "EXACT"}, u \in PartTexts \cup {<< CellRef("text") >>}, t \in Texts }
    \cup { Call("FIND", << u, t, n >>) : u \in PartTexts, t \in Texts, n \in Numbers }
    \cup { Call("SUBSTITUTE", << t, u, v >>) : t \in Texts, u \in PartTexts, v \in PartTexts }
    \cup { Call("SUBSTITUTE", << t, u, << TextLiteral >>, n >>) : t \in Texts, u \in PartTexts, n \in Numbers }
    \cup { Call("TEXTJOIN", << << TextLiteral >>, << CellRef(e) >>, r >>) :
              e \in {"flag", "fflag", "text"}, r \in Ranges \cup {<< CellRef("blank") >>} }
    \cup { Call("TEXTJOIN", << << TextLiteral >>, << Literal(1) >>, r, << CellRangeRef(<< << "flag", "blank" >> >>) >> >>) : r \in Ranges }

CellFormulas ==
    { Call(f, << o >>) :
        f \in {"ABS", "COLUMN", "INT", "ISERR", "ISEVEN", "ISFORMULA", "ISLOGICAL", "ISNA", "ISNONTEXT",
               "ISNUMBER", "ISODD", "ISREF", "ISTEXT", "MIN", "N", "NOT", "ROW", "SHEET", "SHEETS", "TYPE",
               "T", "LEN", "WAIT", "FACT"},
        o \in Operands }
    \cup { Call(f, << o >>) :
             f \in {"AND", "AVERAGE", "COLUMNS", "COUNT", "COUNTA", "COUNTBLANK", "ISBLANK", "MODE", "OR", "ROWS"},
             o \in Operands \cup Ranges }
    \cup { Call(f, << << CellRef(a) >> >>) :
             f \in {"ISERR", "ISERROR", "ISNA", "ISTEXT", "ISNUMBER", "TYPE", "AND", "SUM"},
             a \in {"missing", "broken", "partial"} }
    \cup { Call(f, << >>) : f \in {"AND", "OR", "TRUE", "FALSE", "COLUMN", "ROW", "SHEET", "SHEETS", "COUNT", "MAX"} }
    \cup { Call(f, << o, p >>) : f \in {"AND", "OR", "AVERAGE", "COUNT", "MAX", "MIN", "MMULT"},
                                o \in { << Literal(2) >>, << CellRef("failed") >>, << CellRef("fflag") >> },
                                p \in Operands \cup Ranges }
    \cup { Call("SUBTOTAL", << << Literal(n) >>, o >>) : n \in {9, 109}, o \in Operands }
    \cup { Call("MEDIAN", << << Literal(n) >>, o >>) : n \in {2, 4}, o \in Operands \cup Ranges }
    \cup { Call("MODE", << << Literal(3) >>, << Literal(i) >>, << Literal(j) >>, o >>) :
             i \in {2, 5}, j \in {2, 3}, o \in SimpleOperands \cup Ranges }
    \cup { Call("MMULT", << l, r >>) : l \in Matrices \cup Ranges, r \in Matrices }

(* Names that stand for a number, a product, nothing, or each other.       *)
NameTables ==
    [{"A", "B"} -> { << >>, << Literal(2) >>, << Name("A") >>,
                     << Name("B"), Op("*"), Literal(3) >>, << Name("A"), Op("+"), Name("B") >> }]
NamedJobs ==
    [formula : BoundedSeq({Name("A"), Name("B"), Name("C"), Op("+")}, NameLength),
     names : NameTables]

MCJobs ==
    NamedJobs \cup
    Unnamed(ArithmeticFormulas \cup CallFormulas \cup ArrayFormulas
              \cup PairFormulas \cup FunctionFormulas \cup TextFormulas \cup CellFormulas)

=============================================================================

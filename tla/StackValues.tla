----------------------------- MODULE StackValues -----------------------------
(***************************************************************************)
(* The values of libixion's formula value stack and what the interpreter   *)
(* computes with them: the pops that convert (formula_value_stack.cpp),    *)
(* and the operators (the first half of formula_interpreter.cpp).          *)
(* Everything here is a pure operator; Interpreter decides when each one   *)
(* is called.                                                              *)
(*                                                                         *)
(* A value is a record: a number (a fraction in lowest terms <<n, d>>, for *)
(* a C++ double), a text (a sequence of bytes), a boolean, an              *)
(* error, a reference to a cell or to a range (its rows of addresses), or  *)
(* a matrix (its rows of elements).  An operation that throws returns      *)
(* Thrown(e), and one whose exception interpret() does not catch returns   *)
(* Escaped.                                                                *)
(***************************************************************************)
EXTENDS Integers, Sequences, FiniteSets

SX == INSTANCE SequencesExt

CONSTANTS
    Cells,     \* address -> [formula : BOOLEAN, content : a value or Empty]
    Position   \* the address of the formula cell, m_pos

-----------------------------------------------------------------------------
(* Values                                                                  *)

Value(q)     == [type |-> "value", number |-> q]
Text(s)      == [type |-> "string", text |-> s]
Boolean(b)   == [type |-> "boolean", boolean |-> b]
ErrorOf(e)   == [type |-> "error", error |-> e]
SingleRef(a) == [type |-> "single_ref", address |-> a]
RangeRef(r)  == [type |-> "range_ref", range |-> r]
Matrix(rows) == [type |-> "matrix", rows |-> rows]
Empty        == [type |-> "empty"]

Thrown(e) == [type |-> "thrown", error |-> e]
Escaped   == [type |-> "escaped"]

(* What a function that does not return gives.                             *)
Endless == [type |-> "endless"]

(* A range of addresses, row by row, and what a value stack may hold.      *)
IsRange(rows, addresses) ==
    /\ rows \in Seq(Seq(addresses)) /\ rows # << >> /\ rows[1] # << >>
    /\ \A i \in DOMAIN rows : Len(rows[i]) = Len(rows[1])
IsStackValue(v) ==
    \/ v.type \in {"value", "string", "boolean", "error", "matrix"}
    \/ v.type = "single_ref" /\ v.address \in DOMAIN Cells
    \/ v.type = "range_ref" /\ IsRange(v.range, DOMAIN Cells)

(* What a cell holds, the result of a formula cell included.               *)
ASSUME CellsAssumption ==
    \A a \in DOMAIN Cells :
        Cells[a].content.type \in {"empty", "value", "string", "boolean", "error"}

Failed(v) == v.type \in {"thrown", "escaped"}

(* Error codes from 200 on are internal: a function call does not turn     *)
(* them into a value.                                                      *)
InternalErrors == {"no_result_error", "stack_error", "general_error"}

-----------------------------------------------------------------------------
(* Numbers and texts                                                       *)

Size(n) == IF n < 0 THEN -n ELSE n

Gcd[a \in Nat, b \in Nat] == IF b = 0 THEN a ELSE Gcd[b, a % b]

Fraction[n \in Int, d \in Int] ==
    LET g == Gcd[Size(n), Size(d)]
    IN  IF d > 0 THEN << n \div g, d \div g >> ELSE << (-n) \div g, (-d) \div g >>

Zero   == << 0, 1 >>
Flag(b) == << IF b THEN 1 ELSE 0, 1 >>
Negated(q) == << -q[1], q[2] >>

(* The text a number is streamed as: its sign, numerator and denominator.  *)
TextOf(q) ==
    (IF q[1] < 0 THEN << 45 >> ELSE << >>) \o << 48 + Size(q[1]) >>
      \o (IF q[2] = 1 THEN << >> ELSE << 47, 48 + q[2] >>)
TextOfBoolean(b) == IF b THEN << 116 >> ELSE << 102 >>

TextBelow(s, t) ==
    \/ s # t /\ SX!IsPrefix(s, t)
    \/ \E k \in DOMAIN s \cap DOMAIN t :
          s[k] < t[k] /\ \A j \in 1..(k - 1) : s[j] = t[j]

Holds(op, below, same) ==
    \/ op \in {"=", "<=", ">="} /\ same
    \/ op \in {"<>", "<", "<="} /\ below
    \/ op \in {"<>", ">", ">="} /\ ~below /\ ~same

NumberHolds(op, p, q) == Holds(op, p[1] * q[2] < q[1] * p[2], p = q)

(* The function objects add_op .. exponent_op, which give a number, a      *)
(* boolean or an error.  equal_op alone of the comparisons gives a number. *)
Operate(op, p, q) ==
    CASE op = "+" -> Value(Fraction[p[1] * q[2] + q[1] * p[2], p[2] * q[2]])
      [] op = "-" -> Value(Fraction[p[1] * q[2] - q[1] * p[2], p[2] * q[2]])
      [] op = "*" -> Value(Fraction[p[1] * q[1], p[2] * q[2]])
      [] op = "/" -> IF q[1] = 0 THEN ErrorOf("division_by_zero")
                     ELSE Value(Fraction[p[1] * q[2], p[2] * q[1]])
      [] op = "=" -> Value(Flag(p = q))
      [] OTHER    -> Boolean(NumberHolds(op, p, q))

-----------------------------------------------------------------------------
(* Cells and ranges                                                        *)

CellNumber(a) ==
    LET c == Cells[a].content IN
    CASE c.type = "value"   -> c
      [] c.type = "boolean" -> Value(Flag(c.boolean))
      [] Cells[a].formula /\ c.type = "error"  -> Thrown(c.error)
      [] Cells[a].formula /\ c.type = "string" -> Thrown("invalid_value_type")
      [] OTHER -> Value(Zero)

(* The first failure of a sequence of results, if there is one.            *)
FirstFailure(rs) ==
    rs[CHOOSE i \in DOMAIN rs :
          Failed(rs[i]) /\ \A j \in 1..(i - 1) : ~Failed(rs[j])]

RangeValue(range) ==
    LET rows == [i \in DOMAIN range |-> [j \in DOMAIN range[i] |-> CellNumber(range[i][j])]]
        all  == SX!FlattenSeq(rows)
    IN  IF \E i \in DOMAIN all : Failed(all[i]) THEN FirstFailure(all) ELSE Matrix(rows)

-----------------------------------------------------------------------------
(* Pops that convert                                                       *)

ElementNumber(e) ==
    CASE e.type = "value"   -> e.number
      [] e.type = "boolean" -> Flag(e.boolean)
      [] OTHER -> Zero

(* matrix::get_numeric(0, 0).  A matrix keeps an error as the negative of  *)
(* its code.  (No formula of the instances asks it of an array without     *)
(* elements, where the read is out of bounds.)                             *)
ErrorCode == [division_by_zero |-> 2, invalid_value_type |-> 6]
MatrixNumber(rows) ==
    LET e == IF rows[1] = << >> THEN Empty ELSE rows[1][1]
    IN  IF e.type = "error" THEN << -ErrorCode[e.error], 1 >> ELSE ElementNumber(e)

(* pop_value().                                                            *)
Numeric(v) ==
    CASE v.type = "value"      -> v
      [] v.type = "boolean"    -> Value(Flag(v.boolean))
      [] v.type = "string"     -> Value(Zero)
      [] v.type = "matrix"     -> Value(MatrixNumber(v.rows))
      [] v.type = "single_ref" -> CellNumber(v.address)
      [] OTHER -> Thrown("invalid_value_type")

(* pop_string().                                                           *)
Textual(v) ==
    LET c == Cells[v.address].content IN
    CASE v.type = "string"  -> v
      [] v.type = "boolean" -> Text(TextOfBoolean(v.boolean))
      [] v.type = "value"   -> Text(TextOf(v.number))
      [] v.type = "single_ref" ->
            CASE c.type = "empty"  -> Text(<< >>)
              [] c.type = "string" -> c
              [] c.type = "value"  -> Text(TextOf(c.number))
              [] c.type = "boolean" /\ Cells[v.address].formula ->
                    Text(TextOfBoolean(c.boolean))
              [] c.type = "error"  -> Thrown(c.error)
              [] OTHER -> Thrown("stack_error")
      [] OTHER -> Thrown("stack_error")

(* pop_matrix_or_numeric() and pop_matrix_or_string().                     *)
MatrixOr(Convert(_), v) ==
    CASE v.type = "matrix"    -> v
      [] v.type = "range_ref" -> RangeValue(v.range)
      [] OTHER -> Convert(v)

TermOperand(op, v) == IF op = "&" THEN MatrixOr(Textual, v) ELSE MatrixOr(Numeric, v)

(* pop_stack_value(), and the general_error its caller throws for a value  *)
(* it does not take.                                                       *)
ExpressionOperand(v) ==
    LET c == Cells[v.address].content IN
    CASE v.type = "boolean" -> Value(Flag(v.boolean))
      [] v.type \in {"value", "string", "matrix", "error"} -> v
      [] v.type = "single_ref" ->
            CASE c.type = "empty"   -> Value(Zero)
              [] c.type = "boolean" -> Value(Flag(c.boolean))
              [] c.type \in {"value", "string", "error"} -> c
              [] OTHER -> Thrown("general_error")
      [] OTHER -> Thrown("general_error")

-----------------------------------------------------------------------------
(* Operators                                                               *)

MapMatrix(F(_), m) ==
    Matrix([i \in DOMAIN m.rows |-> [j \in DOMAIN m.rows[i] |-> F(m.rows[i][j])]])

(* operate_all_elements with a number: numbers and booleans are operated   *)
(* on, the other elements stay.                                            *)
OnNumbers(F(_), e) ==
    CASE e.type = "value"   -> F(e.number)
      [] e.type = "boolean" -> F(Flag(e.boolean))
      [] OTHER -> e

MatrixAndNumber(op, m, q) == MapMatrix(LAMBDA e : OnNumbers(LAMBDA p : Operate(op, p, q), e), m)
NumberAndMatrix(op, q, m) == MapMatrix(LAMBDA e : OnNumbers(LAMBDA p : Operate(op, q, p), e), m)

SameSize(m, n) ==
    /\ DOMAIN m.rows = DOMAIN n.rows
    /\ \A i \in DOMAIN m.rows : DOMAIN m.rows[i] = DOMAIN n.rows[i]

Elementwise(F(_, _), m, n) ==
    IF ~SameSize(m, n) THEN Thrown("invalid_expression")
    ELSE Matrix([i \in DOMAIN m.rows |->
                   [j \in DOMAIN m.rows[i] |-> F(m.rows[i][j], n.rows[i][j])]])

OperateElements(op, e, f) ==
    IF e.type \in {"string", "error"} \/ f.type \in {"string", "error"}
    THEN ErrorOf("invalid_value_type")
    ELSE Operate(op, ElementNumber(e), ElementNumber(f))

(* op_matrix_or_numeric.                                                   *)
OpMatrixOrNumeric(op, l, r) ==
    CASE l.type = "matrix" /\ r.type = "matrix" ->
            Elementwise(LAMBDA e, f : OperateElements(op, e, f), l, r)
      [] l.type = "matrix" /\ r.type = "value" ->
            MatrixAndNumber(op, l, r.number)
      [] l.type = "value" /\ r.type = "matrix" ->
            NumberAndMatrix(op, l.number, r)
      [] OTHER -> LET v == Operate(op, l.number, r.number)
                  IN  IF v.type = "error" THEN Thrown(v.error) ELSE v

(* What an element is streamed as when it is concatenated.                 *)
ElementText(e) ==
    CASE e.type = "value"   -> TextOf(e.number)
      [] e.type = "string"  -> e.text
      [] e.type = "boolean" -> TextOfBoolean(e.boolean)
      [] OTHER -> << >>

(* operate_all_elements with a text: what has a text is concatenated.      *)
OnTexts(F(_), e) == IF e.type \in {"empty", "error"} THEN e ELSE Text(F(ElementText(e)))

MatrixAndText(m, t) == MapMatrix(LAMBDA e : OnTexts(LAMBDA s : s \o t, e), m)
TextAndMatrix(t, m) == MapMatrix(LAMBDA e : OnTexts(LAMBDA s : t \o s, e), m)

(* concat_matrix_or_string.                                                *)
ConcatMatrixOrString(l, r) ==
    CASE l.type = "matrix" /\ r.type = "matrix" ->
            Elementwise(LAMBDA e, f : Text(ElementText(e) \o ElementText(f)), l, r)
      [] l.type = "matrix" /\ r.type = "string" -> MatrixAndText(l, r.text)
      [] l.type = "string" /\ r.type = "matrix" -> TextAndMatrix(l.text, r)
      [] OTHER -> Text(l.text \o r.text)

TermResult(op, l, r) ==
    IF op = "&" THEN ConcatMatrixOrString(l, r) ELSE OpMatrixOrNumeric(op, l, r)

(* compare_values, compare_strings and their mixed forms: arithmetic on a  *)
(* text is invalid, and a text is above every number.                      *)
Compare(op, l, r) ==
    LET below == CASE l.type = "string" /\ r.type = "string" -> TextBelow(l.text, r.text)
                   [] OTHER -> l.type = "value"
        same  == l.type = r.type /\ l.text = r.text
    IN  IF op \in {"+", "-"} THEN Thrown("invalid_expression")
        ELSE Value(Flag(Holds(op, below, same)))

(* The switch of expression() over the types of its two operands.          *)
ExpressionResult(op, l, r) ==
    CASE l.type = "error" -> l
      [] l.type = "value" /\ r.type = "value" ->
            LET v == Operate(op, l.number, r.number)
            IN  IF v.type = "boolean" THEN Value(Flag(v.boolean)) ELSE v
      [] l.type = "value" /\ r.type = "error" -> r
      [] l.type = "value" /\ r.type = "matrix" -> OpMatrixOrNumeric(op, l, r)
      [] l.type = "matrix" /\ r.type = "value" -> OpMatrixOrNumeric(op, l, r)
      [] l.type \in {"value", "string"} /\ r.type \in {"value", "string"} ->
            Compare(op, l, r)
      [] OTHER -> Thrown("general_error")

=============================================================================

---------------------------- MODULE ModelContext ----------------------------
(***************************************************************************)
(* The model context (model_context_impl.cpp): sheets and their names,     *)
(* cells of every type, grouped formula cells, the string pool and named   *)
(* expressions.  One action per public operation that changes the model.   *)
(*                                                                         *)
(* A formula cell has a calc_status, which the cells of a group share: the *)
(* matrix of results is kept there once, and a cell picks its element.     *)
(* A cell of a string type has the identifier of a string of the pool.     *)
(***************************************************************************)
EXTENDS SheetQueries

CONSTANTS
    Numbers, Texts,    \* what is put into cells; Texts contains NoText
    NoText,            \* the empty string
    SheetNames,        \* names a sheet may get
    Sizes,             \* [rows, columns] of a sheet
    ExpressionNames,   \* names of named expressions, sequences of characters
    Expressions,
    InitialModels,     \* what a behaviour starts with, and after how many calls:
                       \* [sheets, names, statuses, pool, shown, calls]
    Groups,            \* [rows, columns] of the groups that are set
    CellResults,       \* results of a formula cell
    GroupResults,      \* results of a group: matrices, and what CellResults has
    MaxCalls           \* bound on the operations in a behaviour

ASSUME ContextAssumption ==
    /\ NoText \in Texts
    /\ MaxCalls \in Nat
    /\ \A s \in Sizes : s.rows \in Nat \ {0} /\ s.columns \in Nat \ {0}

VARIABLES
    sheets,        \* m_sheets: sequences of columns
    names,         \* m_sheet_names
    size,          \* m_sheet_size
    statuses,      \* the calc_status of every formula cell or group there was
    pool,          \* m_strings
    string_map,    \* m_string_map: text -> its identifier
    expressions,   \* m_named_expressions: the global ones at 0, then by sheet
    outcome,       \* "ok", or what the last operation threw
    calls,         \* operations so far
    shown          \* for every cell, what was put there last (history)

vars == << sheets, names, size, statuses, pool, string_map, expressions, outcome, calls, shown >>

-----------------------------------------------------------------------------
(* Values and cells                                                        *)

Number(n)  == [type |-> "numeric", number |-> n]
Boolean(b) == [type |-> "boolean", boolean |-> b]
Text(s)    == [type |-> "string", text |-> s]
Error      == [type |-> "error"]
Nothing    == [type |-> "empty"]
NoResult   == [type |-> "no_result"]
Matrix(rows) == [type |-> "matrix", rows |-> rows]

EmptyId == 0      \* empty_string_id; the strings of the pool are from 1 on

StringCell(id)  == [type |-> "string", id |-> id]
FormulaCell(k, row, column) == [type |-> "formula", status |-> k, row |-> row, column |-> column]
Ungrouped == -1

Cell(a) == sheets[a.sheet + 1][a.column + 1][a.row + 1]
Addresses(s) ==
    [sheet : {s - 1}, column : 0..(Len(sheets[s]) - 1), row : 0..(Len(sheets[s][1]) - 1)]
AllAddresses == UNION { Addresses(s) : s \in DOMAIN sheets }

(* column_store_t::set of the cells of a column from a row on.             *)
With(contents, s, c, row, cells) ==
    [contents EXCEPT ![s][c] = [k \in DOMAIN @ |->
        IF k - row \in DOMAIN cells THEN cells[k - row] ELSE @[k]]]

Fits(row, count, s) == row + count <= Len(sheets[s][1])

-----------------------------------------------------------------------------
(* Reading                                                                 *)

(* Mutant for ReadsWhatWasPut.                                             *)
PickedAsItIs(e) == e

(* get_single_formula_result(): a truth value of the matrix comes out as a *)
(* number, and an element nothing was put into as 0.                       *)
Picked(e) ==
    CASE e.type = "boolean" -> Number(IF e.boolean THEN 1 ELSE 0)
      [] e.type = "empty"   -> Number(0)
      [] OTHER -> e

InMatrix(cell, rows) == cell.row < Len(rows) /\ cell.column < Len(rows[1])

(* get_result_cache() outside of a calculation.                            *)
Result(cell) ==
    LET r == statuses[cell.status].result
    IN  IF r.type # "matrix" \/ cell.row = Ungrouped THEN r
        ELSE IF InMatrix(cell, r.rows) THEN Picked(r.rows[cell.row + 1][cell.column + 1])
        ELSE Error

(* fetch_value_from_result().                                              *)
ResultNumber(cell) ==
    LET r == Result(cell)
    IN  CASE r.type = "numeric" -> r.number
          [] r.type = "boolean" -> IF r.boolean THEN 1 ELSE 0
          [] OTHER -> Threw

NumericValue(cell) ==
    CASE cell.type = "numeric" -> cell.number
      [] cell.type = "boolean" -> IF cell.boolean THEN 1 ELSE 0
      [] cell.type = "formula" -> ResultNumber(cell)
      [] OTHER -> 0

BooleanValue(cell) ==
    LET n == NumericValue(cell) IN IF n = Threw THEN Threw ELSE n # 0

(* safe_string_pool::get_string; an identifier it does not know is no text.*)
PoolString(id) == IF id \in DOMAIN pool THEN pool[id] ELSE NoText

StringValue(cell) ==
    CASE cell.type = "string"  -> PoolString(cell.id)
      [] cell.type = "formula" ->
            IF Result(cell).type = "string" THEN Result(cell).text ELSE Threw
      [] OTHER -> NoText

CellValueType(cell) ==
    IF cell.type # "formula" THEN cell.type
    ELSE IF Result(cell).type = "no_result" THEN Threw ELSE Result(cell).type

-----------------------------------------------------------------------------
(* Operations                                                              *)

Init ==
    \E m \in InitialModels :
      /\ sheets = m.sheets /\ names = m.names /\ statuses = m.statuses /\ pool = m.pool /\ shown = m.shown
      /\ size \in Sizes
      /\ \A s \in DOMAIN sheets : Len(sheets[s]) = size.columns /\ Len(sheets[s][1]) = size.rows
      /\ string_map = [t \in {pool[k] : k \in DOMAIN pool} |-> CHOOSE k \in DOMAIN pool : pool[k] = t]
      /\ expressions = [s \in 0..Len(sheets) |-> << >>]
      /\ outcome = "ok"
      /\ calls = m.calls

(* Every operation is one call, and may throw.                             *)
Call == calls < MaxCalls /\ calls' = calls + 1
Succeeds == outcome' = "ok"
Throws(e) == outcome' = e

NoCellChanges == UNCHANGED << sheets, statuses, shown >>

(* Mutant for LookupsAgree.                                                *)
AppendToPoolAnew(s) ==
    /\ pool' = Append(pool, s)
    /\ string_map' = [t \in DOMAIN string_map \cup {s} |-> IF t = s THEN Len(pool) + 1 ELSE string_map[t]]

(* m_string_map.insert() keeps the entry that is there.                    *)
AppendToPool(s) ==
    /\ pool' = Append(pool, s)
    /\ string_map' = IF s \in DOMAIN string_map THEN string_map
                     ELSE [t \in DOMAIN string_map \cup {s} |->
                             IF t = s THEN Len(pool) + 1 ELSE string_map[t]]

IdOf(s) == IF s = NoText THEN EmptyId
           ELSE IF s \in DOMAIN string_map THEN string_map[s] ELSE Len(pool) + 1

AddToPool(s) ==
    IF s = NoText \/ s \in DOMAIN string_map THEN UNCHANGED << pool, string_map >>
    ELSE AppendToPool(s)

AppendString(s) ==
    /\ Call /\ Succeeds
    /\ AppendToPool(s)
    /\ NoCellChanges /\ UNCHANGED << names, size, expressions >>

AddString(s) ==
    /\ Call /\ Succeeds
    /\ AddToPool(s)
    /\ NoCellChanges /\ UNCHANGED << names, size, expressions >>

-----------------------------------------------------------------------------
(* Cells                                                                   *)

Put(a, cells, values) ==
    /\ sheets' = With(sheets, a.sheet + 1, a.column + 1, a.row, cells)
    /\ shown' = With(shown, a.sheet + 1, a.column + 1, a.row, values)

OtherwiseUnchanged == UNCHANGED << names, size, expressions >>
NoNewString == UNCHANGED << pool, string_map >>

EmptyCell(a) ==
    /\ Call /\ Succeeds
    /\ Put(a, << Nothing >>, << Nothing >>)
    /\ UNCHANGED statuses /\ NoNewString /\ OtherwiseUnchanged

SetNumericCell(a, n) ==
    /\ Call /\ Succeeds
    /\ Put(a, << Number(n) >>, << Number(n) >>)
    /\ UNCHANGED statuses /\ NoNewString /\ OtherwiseUnchanged

SetBooleanCell(a, b) ==
    /\ Call /\ Succeeds
    /\ Put(a, << Boolean(b) >>, << Boolean(b) >>)
    /\ UNCHANGED statuses /\ NoNewString /\ OtherwiseUnchanged

SetStringCell(a, s) ==
    /\ Call /\ Succeeds
    /\ AddToPool(s)
    /\ Put(a, << StringCell(IdOf(s)) >>, << Text(s) >>)
    /\ UNCHANGED statuses /\ OtherwiseUnchanged

SetStringCellById(a, id) ==
    /\ Call /\ Succeeds
    /\ Put(a, << StringCell(id) >>, << Text(PoolString(id)) >>)
    /\ UNCHANGED statuses /\ NoNewString /\ OtherwiseUnchanged

(* Filling down (not of no cell, which returns at once) takes the whole    *)
(* stretch or, beyond the last row, nothing.                               *)
FillDownCells(a, count) ==
    /\ Call
    /\ IF Cell(a).type = "formula" THEN Throws("not_implemented") /\ UNCHANGED << sheets, shown >>
       ELSE IF ~Fits(a.row + 1, count, a.sheet + 1)
       THEN Throws("out_of_range") /\ UNCHANGED << sheets, shown >>
       ELSE /\ Succeeds
            /\ Put([a EXCEPT !.row = @ + 1], [k \in 1..count |-> Cell(a)],
                   [k \in 1..count |-> shown[a.sheet + 1][a.column + 1][a.row + 1]])
    /\ UNCHANGED statuses /\ NoNewString /\ OtherwiseUnchanged

-----------------------------------------------------------------------------
(* Formula cells                                                           *)

NewStatus(rows, columns, result) ==
    statuses' = Append(statuses, [rows |-> rows, columns |-> columns, result |-> result])

(* set_formula_cell(), without a result or with a cached one.              *)
SetFormulaCell(a, result) ==
    /\ Call /\ Succeeds
    /\ NewStatus(0, 0, result)
    /\ Put(a, << FormulaCell(Len(statuses) + 1, Ungrouped, Ungrouped) >>, << result >>)
    /\ NoNewString /\ OtherwiseUnchanged

(* Of an element nothing was put into, 0 is shown.                         *)
Kept(v) == IF v = Nothing THEN Number(0) ELSE v

Element(matrix, row, column) == matrix.rows[row + 1][column + 1]
Shape(matrix) == << Len(matrix.rows), Len(matrix.rows[1]) >>

(* The cells of a group are set column by column; the first one outside of *)
(* the sheet ends that with an exception, and the cells before it stay.    *)
Reached(a, rows, columns) ==
    LET inside(r, c) == a.row + r < size.rows /\ a.column + c < size.columns
    IN  { p \in (0..(rows - 1)) \X (0..(columns - 1)) :
            \A q \in (0..(rows - 1)) \X (0..(columns - 1)) :
              (q[2] < p[2] \/ (q[2] = p[2] /\ q[1] <= p[1])) => inside(q[1], q[2]) }

(* "cells" is what each position of the group gets.                        *)
SetGroup(contents, a, cells) ==
    LET position(r, c) == << r - 1 - a.row, c - 1 - a.column >>
    IN  [contents EXCEPT ![a.sheet + 1] = [c \in DOMAIN @ |-> [r \in DOMAIN @[c] |->
            IF position(r, c) \in DOMAIN cells THEN cells[position(r, c)] ELSE @[c][r]]]]

(* "result" is NoResult or the matrix that is given as cached result.      *)
SetGroupedFormulaCells(a, rows, columns, result) ==
    LET reached == Reached(a, rows, columns)
        cell(p)  == FormulaCell(Len(statuses) + 1, p[1], p[2])
        value(p) == IF result = NoResult THEN NoResult ELSE Kept(Element(result, p[1], p[2]))
    IN  /\ Call
        /\ IF result # NoResult /\ (result.type # "matrix" \/ Shape(result) # << rows, columns >>)
           THEN Throws("invalid_argument") /\ NoCellChanges
           ELSE /\ IF Cardinality(reached) = rows * columns THEN Succeeds ELSE Throws("out_of_range")
                /\ NewStatus(rows, columns, result)
                /\ sheets' = SetGroup(sheets, a, [p \in reached |-> cell(p)])
                /\ shown' = SetGroup(shown, a, [p \in reached |-> value(p)])
        /\ NoNewString /\ OtherwiseUnchanged

(* The cells that share a calc_status, and what they show from now on.     *)
Sharing(k) == { Cell(a) : a \in { b \in AllAddresses : Cell(b).type = "formula" /\ Cell(b).status = k } }

ShowOf(values) ==
    shown' = [s \in DOMAIN sheets |-> [c \in DOMAIN sheets[s] |-> [r \in DOMAIN sheets[s][c] |->
                 IF sheets[s][c][r] \in DOMAIN values THEN values[sheets[s][c][r]] ELSE shown[s][c][r]]]]

EmptyMatrix(status) == Matrix([r \in 1..status.rows |-> [c \in 1..status.columns |-> Nothing]])

(* formula_cell::set_result_cache() on a cell.  The first result of a      *)
(* member of a group makes the matrix, in which the others are empty; a    *)
(* matrix as the result of a member is refused after that.                 *)
SetResultCache(a, v) ==
    LET cell == Cell(a)
        old  == statuses[cell.status].result
        base == IF old = NoResult THEN EmptyMatrix(statuses[cell.status]) ELSE old
        show(value) ==
            IF old = NoResult
            THEN ShowOf([other \in Sharing(cell.status) |-> IF other = cell THEN value ELSE Number(0)])
            ELSE shown' = [shown EXCEPT ![a.sheet + 1][a.column + 1][a.row + 1] = value]
    IN  /\ Call
        /\ cell.type = "formula"
        /\ CASE cell.row = Ungrouped ->
                   /\ v.type # "matrix" /\ Succeeds
                   /\ statuses' = [statuses EXCEPT ![cell.status].result = v]
                   /\ ShowOf([other \in Sharing(cell.status) |-> v])
             [] cell.row # Ungrouped /\ base.type # "matrix" ->
                   Throws("bad_variant_access") /\ UNCHANGED << statuses, shown >>
             [] cell.row # Ungrouped /\ base.type = "matrix" /\ v.type = "matrix" ->
                   /\ Throws("logic_error")
                   /\ statuses' = [statuses EXCEPT ![cell.status].result = base]
                   /\ show(IF old = NoResult THEN Number(0) ELSE shown[a.sheet + 1][a.column + 1][a.row + 1])
             [] OTHER ->
                   /\ InMatrix(cell, base.rows)
                   /\ Succeeds
                   /\ statuses' = [statuses EXCEPT ![cell.status].result =
                         Matrix([base.rows EXCEPT ![cell.row + 1][cell.column + 1] = v])]
                   /\ show(v)
        /\ UNCHANGED sheets /\ NoNewString /\ OtherwiseUnchanged

(* formula_cell::interpret(), which the cell at the top left of a group    *)
(* does for all of them.                                                   *)
Interpret(a, v) ==
    LET cell == Cell(a) IN
    /\ Call /\ Succeeds
    /\ cell.type = "formula" /\ statuses[cell.status].result = NoResult
    /\ cell.row \in {Ungrouped, 0} /\ cell.column \in {Ungrouped, 0}
    /\ v.type = "matrix" => cell.row = 0
    /\ statuses' = [statuses EXCEPT ![cell.status].result = v]
    /\ ShowOf([other \in Sharing(cell.status) |->
          IF v.type # "matrix" THEN v
          ELSE IF InMatrix(other, v.rows) THEN Kept(Element(v, other.row, other.column)) ELSE Error])
    /\ UNCHANGED sheets /\ NoNewString /\ OtherwiseUnchanged

-----------------------------------------------------------------------------
(* Sheets and names                                                        *)

SetSheetSize(new) ==
    /\ Call
    /\ IF sheets # << >> THEN Throws("sheet_size_locked") /\ UNCHANGED size
       ELSE Succeeds /\ size' = new
    /\ NoCellChanges /\ NoNewString /\ UNCHANGED << names, expressions >>

(* Mutant for TypeOK.                                                      *)
EmptySheetOnItsSide == [c \in 1..size.rows |-> [r \in 1..size.columns |-> Nothing]]

EmptySheet == [c \in 1..size.columns |-> [r \in 1..size.rows |-> Nothing]]

AppendSheet(name) ==
    /\ Call
    /\ IF \E s \in DOMAIN names : names[s] = name
       THEN Throws("sheet_name_conflict") /\ UNCHANGED << sheets, names, expressions, shown >>
       ELSE /\ Succeeds
            /\ sheets' = Append(sheets, EmptySheet) /\ shown' = Append(shown, EmptySheet)
            /\ names' = Append(names, name)
            /\ expressions' = [s \in 0..Len(sheets') |-> IF s \in DOMAIN expressions THEN expressions[s] ELSE << >>]
    /\ UNCHANGED << size, statuses >> /\ NoNewString

(* The name a sheet has already is no conflict.                            *)
SetSheetName(s, name) ==
    /\ Call
    /\ IF s \notin DOMAIN names THEN Throws("invalid_argument") /\ UNCHANGED names
       ELSE IF \E t \in DOMAIN names : t # s /\ names[t] = name
       THEN Throws("sheet_name_conflict") /\ UNCHANGED names
       ELSE Succeeds /\ names' = [names EXCEPT ![s] = name]
    /\ NoCellChanges /\ NoNewString /\ UNCHANGED << size, expressions >>

Letters == {"a", "B", "_"}
Digits  == {"1"}

(* check_named_exp_name_or_throw().                                        *)
IsExpressionName(n) ==
    /\ n # << >>
    /\ n[1] \notin Digits \cup {"."}
    /\ \A k \in DOMAIN n : n[k] \in Letters \cup Digits \cup {"."}

(* Scope 0 is the global one.  A name that is there keeps its expression.  *)
SetNamedExpression(scope, n, e) ==
    /\ Call
    /\ IF ~IsExpressionName(n) THEN Throws("invalid_named_expression") /\ UNCHANGED expressions
       ELSE IF scope \notin DOMAIN expressions THEN Throws("out_of_range") /\ UNCHANGED expressions
       ELSE /\ Succeeds
            /\ expressions' = [expressions EXCEPT ![scope] =
                 [m \in DOMAIN @ \cup {n} |-> IF m \in DOMAIN @ THEN @[m] ELSE e]]
    /\ NoCellChanges /\ NoNewString /\ UNCHANGED << names, size >>

SheetIndex(name) ==
    LET found == { s \in DOMAIN names : names[s] # NoText /\ names[s] = name }
    IN  IF found = {} THEN -1 ELSE CHOOSE s \in found : \A t \in found : s <= t

(* named_expressions_iterator: the names of one scope.                     *)
NamesIn(scope) == DOMAIN expressions[scope]

NoExpression == "none"

GetNamedExpression(s, n) ==
    LET scope == IF s \in DOMAIN sheets /\ n \in NamesIn(s) THEN s ELSE 0
    IN  IF n \in NamesIn(scope) THEN expressions[scope][n] ELSE NoExpression

-----------------------------------------------------------------------------

SetCell(a) ==
    \/ EmptyCell(a)
    \/ \E n \in Numbers : SetNumericCell(a, n)
    \/ \E b \in BOOLEAN : SetBooleanCell(a, b)
    \/ \E s \in Texts : SetStringCell(a, s)
    \/ \E id \in {EmptyId} \cup DOMAIN pool : SetStringCellById(a, id)
    \/ \E n \in 1..2 : FillDownCells(a, n)

SetFormula(a) ==
    \/ \E v \in {NoResult} \cup CellResults : SetFormulaCell(a, v)
    \/ \E g \in Groups, v \in {NoResult} \cup GroupResults :
          SetGroupedFormulaCells(a, g.rows, g.columns, v)
    \/ \E v \in CellResults \cup GroupResults : SetResultCache(a, v) \/ Interpret(a, v)

ChangeStrings == \E s \in Texts : AppendString(s) \/ AddString(s)

ChangeNames ==
    \/ \E new \in Sizes : SetSheetSize(new)
    \/ \E name \in SheetNames : AppendSheet(name) \/ \E s \in 0..2 : SetSheetName(s, name)
    \/ \E scope \in 0..2, n \in ExpressionNames, e \in Expressions : SetNamedExpression(scope, n, e)

Next ==
    \/ \E a \in AllAddresses : SetCell(a) \/ SetFormula(a)
    \/ ChangeStrings
    \/ ChangeNames

Spec == Init /\ [][Next]_vars

-----------------------------------------------------------------------------
(* What a model consists of                                                *)

Values == [type : {"numeric"}, number : Int] \cup [type : {"boolean"}, boolean : BOOLEAN]
            \cup [type : {"string"}, text : Texts] \cup {Error, Nothing, NoResult}
StoredCells ==
    [type : {"numeric"}, number : Int] \cup [type : {"boolean"}, boolean : BOOLEAN] \cup {Nothing}
      \cup [type : {"string"}, id : Nat]
      \cup [type : {"formula"}, status : Nat \ {0}, row : Nat \cup {Ungrouped}, column : Nat \cup {Ungrouped}]

Grids(sz, contents) == [1..sz.columns -> [1..sz.rows -> contents]]

(* A result of one cell, and a matrix of them, which may have gaps.        *)
PlainResults == Values \ {Nothing, NoResult}
IsMatrix(v) ==
    /\ v.type = "matrix" /\ v = Matrix(v.rows)
    /\ Len(v.rows) \in Nat \ {0} /\ Len(v.rows[1]) \in Nat \ {0}
    /\ v.rows \in [1..Len(v.rows) -> [1..Len(v.rows[1]) -> Values \ {NoResult}]]

IsStatus(status) ==
    /\ status = [rows |-> status.rows, columns |-> status.columns, result |-> status.result]
    /\ status.rows \in Nat /\ status.columns \in Nat
    /\ status.result \in PlainResults \cup {NoResult} \/ IsMatrix(status.result)

(* What a formula cell shows of the result that its calc_status has.       *)
ShowsResult(cell, v, status) ==
    IF cell.row = Ungrouped
    THEN status.rows = 0 /\ status.result.type # "matrix" /\ v = status.result
    ELSE /\ cell.row \in 0..(status.rows - 1) /\ cell.column \in 0..(status.columns - 1)
         /\ v = IF status.result.type # "matrix" THEN status.result
                ELSE IF InMatrix(cell, status.result.rows)
                THEN Kept(Element(status.result, cell.row, cell.column)) ELSE Error

Shows(cell, v, st, pl) ==
    CASE cell.type = "formula" -> cell.status \in DOMAIN st /\ ShowsResult(cell, v, st[cell.status])
      [] cell.type = "string"  -> /\ cell.id \in {EmptyId} \cup DOMAIN pl
                                  /\ v = Text(IF cell.id = EmptyId THEN NoText ELSE pl[cell.id])
      [] OTHER -> v = cell

(* Of the cells of a group no two show the same element.                   *)
SameElement(cell, other) ==
    /\ cell.type = "formula" /\ other.type = "formula"
    /\ cell.status = other.status /\ cell.row # Ungrouped
    /\ cell.row = other.row /\ cell.column = other.column

IsContents(sz, sh, sw, st, pl) ==
    /\ sh \in Seq(Grids(sz, StoredCells)) /\ sw \in Seq(Grids(sz, Values)) /\ Len(sw) = Len(sh)
    /\ Len(st) \in Nat /\ DOMAIN st = 1..Len(st) /\ \A k \in DOMAIN st : IsStatus(st[k])
    /\ \A s \in DOMAIN sh, c \in 1..sz.columns, r \in 1..sz.rows :
         /\ Shows(sh[s][c][r], sw[s][c][r], st, pl)
         /\ \A t \in DOMAIN sh, d \in 1..sz.columns, q \in 1..sz.rows :
              SameElement(sh[s][c][r], sh[t][d][q]) => s = t /\ c = d /\ r = q

AllDifferent(list) == \A i, j \in DOMAIN list : list[i] = list[j] => i = j

IsModel(m) ==
    /\ \E sz \in Sizes : IsContents(sz, m.sheets, m.shown, m.statuses, m.pool)
    /\ m.names \in Seq(SheetNames) /\ Len(m.names) = Len(m.sheets) /\ AllDifferent(m.names)
    /\ m.pool \in Seq(Texts) /\ AllDifferent(m.pool)
    /\ m.calls \in Nat

(* What is put into cells and what a behaviour starts with.                *)
ASSUME ModelAssumption ==
    /\ Numbers \subseteq Int /\ NoExpression \notin Expressions
    /\ CellResults \subseteq PlainResults
    /\ \A v \in GroupResults : v \in PlainResults \/ IsMatrix(v)
    /\ \A g \in Groups : g.rows \in Nat \ {0} /\ g.columns \in Nat \ {0}
    /\ \A m \in InitialModels : IsModel(m)

-----------------------------------------------------------------------------
(* Properties                                                              *)

(* Sheets of one size, texts and names of the model, and the history in    *)
(* the shape of the sheets (set_*_cell, append_sheet and the string pool). *)
TypeOK ==
    /\ DOMAIN shown = DOMAIN sheets
    /\ \A s \in DOMAIN sheets :
         /\ Len(sheets[s]) = size.columns /\ Len(shown[s]) = size.columns
         /\ \A c \in 1..size.columns : \A r \in 1..size.rows :
              /\ sheets[s][c][r] \in StoredCells /\ shown[s][c][r] \in Values
              /\ sheets[s][c][r].type = "formula" => sheets[s][c][r].status \in DOMAIN statuses
    /\ size \in Sizes
    /\ names \in Seq(SheetNames) /\ Len(names) = Len(sheets)
    /\ pool \in Seq(Texts)
    /\ string_map \in [{pool[k] : k \in DOMAIN pool} -> DOMAIN pool]
    /\ DOMAIN expressions = 0..Len(sheets)
    /\ calls \in Nat

Truth(v) == IF v.boolean THEN 1 ELSE 0
ShownNumber(cell, v) ==
    CASE v.type = "numeric" -> v.number
      [] v.type = "boolean" -> Truth(v)
      [] OTHER -> IF cell.type = "formula" THEN Threw ELSE 0
(* A truth value in the matrix of a group has become a number.             *)
ShownType(cell, v) ==
    CASE v.type = "no_result" -> Threw
      [] v.type = "boolean" /\ cell.type = "formula" /\ statuses[cell.status].result.type = "matrix" -> "numeric"
      [] OTHER -> v.type

(* What there is to read of a cell: a formula cell without a result has no *)
(* number, and only a text is one.                                         *)
HasNumber(cell, v) == ~(cell.type = "formula" /\ v.type = "no_result")
HasText(cell, v)   == cell.type # "formula" \/ v.type = "string"

(* Of a text a cell of a string type has an identifier and of a group only *)
(* one matrix is kept, but every reader (get_numeric_value,                *)
(* get_boolean_value, get_string_value, get_cell_value_type) shows what    *)
(* was put into the cell last, or what a result put before it has become,  *)
(* whatever was appended to the pool, filled down, set in a group or       *)
(* overwritten in a part of a group since.  (What is read where there is   *)
(* no number or no text: see SomeReadAsDocumented.)                        *)
ReadsWhatWasPut ==
    \A s \in DOMAIN sheets : \A c \in DOMAIN sheets[s] : \A r \in DOMAIN sheets[s][c] :
      LET cell == sheets[s][c][r]
          v    == shown[s][c][r]
          n    == ShownNumber(cell, v)
      IN  /\ HasNumber(cell, v) =>
               /\ NumericValue(cell) = n
               /\ BooleanValue(cell) = IF n = Threw THEN Threw ELSE n # 0
          /\ HasText(cell, v) => StringValue(cell) = IF v.type = "string" THEN v.text ELSE NoText
          /\ CellValueType(cell) = ShownType(cell, v)

(* Names and identifiers lead back: a sheet's name to the sheet (the empty *)
(* name to none), a text of the pool to its first identifier, every cell's *)
(* identifier to a text, and an expression is found from the sheet that    *)
(* has it and, unless it is local, from all others; also when the same     *)
(* text was appended twice or a name was given away and taken again        *)
(* (get_sheet_index, safe_string_pool, get_named_expression).              *)
LookupsAgree ==
    /\ \A s \in DOMAIN names : SheetIndex(names[s]) = IF names[s] = NoText THEN -1 ELSE s
    /\ \A k \in DOMAIN pool : /\ pool[k] \in DOMAIN string_map
                              /\ pool[string_map[pool[k]]] = pool[k]
                              /\ string_map[pool[k]] <= k
    /\ \A a \in AllAddresses : Cell(a).type = "string" => Cell(a).id \in {EmptyId} \cup DOMAIN pool
    /\ \A s \in 0..Len(sheets) + 1, n \in ExpressionNames :
         GetNamedExpression(s, n) # NoExpression
           <=> \E scope \in {0, s} \cap DOMAIN expressions : n \in NamesIn(scope)

(* A sheet as the queries see it, and the cells of it in a range.          *)
View(s) == [c \in DOMAIN sheets[s] |-> [r \in DOMAIN sheets[s][c] |->
              [type |-> sheets[s][c][r].type, counts |-> CellValueType(sheets[s][c][r])]]]

SheetRange(r1, r2, c1, c2) == [first |-> [sheet |-> 0, row |-> r1, column |-> c1],
                               last  |-> [sheet |-> 0, row |-> r2, column |-> c2]]
Within(sheet, range) ==
    { p \in (range.first.row..range.last.row) \X (range.first.column..range.last.column) :
        p[1] <= LastRow(sheet) /\ p[2] <= LastColumn(sheet) }
At0(sheet, p) == sheet[p[2] + 1][p[1] + 1]

CountsCells(sheet, range) ==
    LET every == [range EXCEPT !.first.row = RowUnset, !.last.row = RowUnset]
        whole == [range EXCEPT !.first.row = 0, !.last.row = LastRow(sheet)]
        count(r, type) == IF Threw \in { At0(sheet, p).counts : p \in Within(sheet, r) } THEN Threw
                          ELSE Cardinality({ p \in Within(sheet, r) : At0(sheet, p).counts = type })
    IN  \A type \in {"numeric", "string", "empty"} :
          /\ CountRange(sheet, range, {type}) = count(range, type)
          /\ CountRange(sheet, every, {type}) = count(whole, type)

WalksOverCells(sheet, range) ==
    LET walked == Walked(sheet, range)
        before(w, v) == \/ w.column < v.column
                        \/ w.column = v.column /\ w.piece.last < v.piece.first
    IN  /\ \A k \in 1..(Len(walked) - 1) :
             /\ before(walked[k], walked[k + 1])
             /\ walked[k].column = walked[k + 1].column => walked[k].piece.type # walked[k + 1].piece.type
        /\ Within(sheet, range) =
             UNION { { <<r, walked[k].column>> : r \in walked[k].piece.first..walked[k].piece.last } :
                       k \in DOMAIN walked }
        /\ \A k \in DOMAIN walked : \A r \in walked[k].piece.first..walked[k].piece.last :
             At0(sheet, << r, walked[k].column >>).type = walked[k].piece.type

NonEmpty(sheet) == { p \in (0..LastRow(sheet)) \X (0..LastColumn(sheet)) : At0(sheet, p).type # "empty" }
BoundingBox(cells) ==
    [first_column |-> CHOOSE c \in {p[2] : p \in cells} : \A p \in cells : c <= p[2],
     first_row    |-> CHOOSE r \in {p[1] : p \in cells} : \A p \in cells : r <= p[1],
     last_column  |-> CHOOSE c \in {p[2] : p \in cells} : \A p \in cells : c >= p[2],
     last_row     |-> CHOOSE r \in {p[1] : p \in cells} : \A p \in cells : r >= p[1]]

QueriesAgree(sheet) ==
    /\ DataRange(sheet) = IF NonEmpty(sheet) = {} THEN << >> ELSE BoundingBox(NonEmpty(sheet))
    /\ \A r1, r2 \in 0..LastRow(sheet) + 1, c1, c2 \in 0..LastColumn(sheet) + 1 :
         LET range == SheetRange(r1, r2, c1, c2) IN
         /\ IsEmptyRange(sheet, range) =
              IF Within(sheet, Reorder(range)) = {} THEN Threw
              ELSE Within(sheet, Reorder(range)) \cap NonEmpty(sheet) = {}
         /\ r1 <= r2 /\ c1 <= c2 /\ r2 <= LastRow(sheet) /\ c2 <= LastColumn(sheet)
              => CountsCells(sheet, range) /\ WalksOverCells(sheet, range)

(* Going through columns by blocks says what looking at every cell would:  *)
(* count_range() counts each cell of the range that shows a value of the   *)
(* type, formula cells by their results, walk() shows each cell once and   *)
(* in order, is_empty() is true when no cell is there, also when the range *)
(* goes beyond the sheet, and get_data_range() is the bounding box of the  *)
(* cells, however the blocks lie in the columns.  A sheet has more than    *)
(* one row here: in one row the bounds are locked before a cell is met.    *)
(* Looked at in the sheets that took more than MaxCalls calls to fill.     *)
RangeQueries ==
    \A s \in DOMAIN sheets : calls > MaxCalls /\ size.rows > 1 => QueriesAgree(View(s))

(* A sequence that goes through a set, each element once and in an order.  *)
Sweeps(list, set, Before(_, _)) ==
    /\ { list[k] : k \in DOMAIN list } = set
    /\ \A k \in 1..(Len(list) - 1) : Before(list[k], list[k + 1])

ByColumn(p, q) == p.column < q.column \/ (p.column = q.column /\ p.row < q.row)
ByRow(p, q)    == p.row < q.row \/ (p.row = q.row /\ p.column < q.column)

(* The rows or the columns that a range asks for, and the cells in some.   *)
Asked(valid, lo, hi, unset, last) ==
    IF valid THEN Bound(lo, unset, 0)..Bound(hi, unset, last) ELSE 0..last
CellsIn(sheet, rows, columns) == { CellAt(sheet, r, c) : r \in rows, c \in columns }

AskedRanges(sheet) ==
    { SheetRange(r1, r2, c1, c2) :
        r1, r2 \in (0..LastRow(sheet) + 1) \cup {RowUnset},
        c1, c2 \in (0..LastColumn(sheet) + 1) \cup {ColumnUnset} }

AskedRows(sheet, range) ==
    Asked(ValidRcRange(range), range.first.row, range.last.row, RowUnset, LastRow(sheet))
AskedColumns(sheet, range) ==
    Asked(ValidRcRange(range), range.first.column, range.last.column, ColumnUnset, LastColumn(sheet))
AskedCells(sheet, range) ==
    CellsIn(sheet, AskedRows(sheet, range) \cap 0..LastRow(sheet),
            AskedColumns(sheet, range) \cap 0..LastColumn(sheet))

CellIteratorsAgree(sheet) ==
    \A range \in AskedRanges(sheet) :
      LET rows    == AskedRows(sheet, range)
          columns == AskedColumns(sheet, range)
          cells   == AskedCells(sheet, range)
      IN  /\ rows # {} /\ columns # {} =>
               IF rows \subseteq 0..LastRow(sheet) /\ columns \subseteq 0..LastColumn(sheet)
               THEN Sweeps(HorizontalCells(sheet, range), cells, ByRow)
               ELSE HorizontalCells(sheet, range) = Threw
          /\ cells # {} => Sweeps(VerticalCells(sheet, range), cells, ByColumn)

(* Where an address iterator is after moves from its first position.       *)
Moves(range, count, Inc(_, _)) ==
    LET From[k \in 0..count] == IF k = 0 THEN Begin(range) ELSE Inc(range, From[k - 1])
    IN  From

(* The addresses of a range, and those that are next to it.                *)
Around(range) ==
    [sheet  : (range.first.sheet - 1)..(range.last.sheet + 1),
     row    : (range.first.row - 1)..(range.last.row + 1),
     column : (range.first.column - 1)..(range.last.column + 1)]

AddressIteratorAgrees(range, Inc(_, _), Dec(_, _)) ==
    LET total == (range.last.row - range.first.row + 1) * (range.last.column - range.first.column + 1)
                   * (range.last.sheet - range.first.sheet + 1)
        at    == Moves(range, total, Inc)
    IN  /\ { at[k].position : k \in 0..total } = { a \in Around(range) : Contains(range, a) }
        /\ at[total] = PastEnd(range) /\ \A k \in 0..(total - 1) : ~at[k].end
        /\ Inc(range, at[total]) = Threw /\ Dec(range, at[0]) = Threw
        /\ \A k \in 1..total : Dec(range, at[k]) = at[k - 1]

(* The iterators come to every cell or address of their range once and in  *)
(* the order of their direction, whether bounds are unset, unordered or    *)
(* beyond the sheet (which the vertical one clips and the horizontal one   *)
(* refuses); an address iterator leads back the way it came and throws at  *)
(* both ends (model_iterator, abs_address_iterator).  Of a range without   *)
(* any cell see SomeReadAsDocumented.  Looked at in the first states: the  *)
(* contents do not matter to them.                                         *)
IteratorsComplete ==
    calls <= 1 =>
      /\ \A s \in DOMAIN sheets : CellIteratorsAgree(sheets[s])
      /\ \A first, last \in [sheet : 0..1, row : 0..2, column : 0..1] :
           ValidRange([first |-> first, last |-> last]) =>
             /\ AddressIteratorAgrees([first |-> first, last |-> last], IncVertical, DecVertical)
             /\ AddressIteratorAgrees([first |-> first, last |-> last], IncHorizontal, DecHorizontal)

-----------------------------------------------------------------------------
(* Promises about reading what is not there                                *)

StoredIn(s) == { sheets[s][c][r] : c \in 1..size.columns, r \in 1..size.rows }

(* model_context.hpp:127, "If the cell at the specified position is a      *)
(* formula cell and its result has not yet been computed, it will block    *)
(* until the result becomes available" (get_numeric_value).                *)
NumericWaits(s) ==
    \A cell \in StoredIn(s) :
      cell.type = "formula" /\ Result(cell) = NoResult => NumericValue(cell) # Threw

(* model_context.hpp:143, "It returns a valid string value only when the   *)
(* cell is a string cell, or is a formula cell containing a string result. *)
(* Otherwise, it returns a nullptr" (get_string_value).                    *)
StringOrNothing(s) ==
    \A cell \in StoredIn(s) : StringValue(cell) \in Texts

(* model_iterator.cpp:267, "First column is past the last column.  Nothing *)
(* to parse", and 285, "First row is past the last row.  Set it to an      *)
(* empty range and bail out": such an iterator has no cell.                *)
EmptyRangesHaveNothing(s) ==
    \A range \in AskedRanges(sheets[s]) :
      AskedCells(sheets[s], range) = {} => ~Has(StartVertical(sheets[s], range))

(* model_iterator.cpp:133, assert(c1 <= c2), and 145, assert(r1 <= r2).    *)
BoundsInOrder(s) ==
    \A range \in AskedRanges(sheets[s]) : HorizontalCells(sheets[s], range) # Undefined

(* That of these four at least one is kept on every sheet is the weakest   *)
(* thing they promise together: a sheet on which none is kept refutes each *)
(* of them (get_numeric_value, get_string_value, model_iterator).          *)
SomeReadAsDocumented ==
    \A s \in DOMAIN sheets :
      NumericWaits(s) \/ StringOrNothing(s) \/ EmptyRangesHaveNothing(s) \/ BoundsInOrder(s)

=============================================================================

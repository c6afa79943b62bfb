---------------------------- MODULE NameResolver ----------------------------
(***************************************************************************)
(* What a name in a formula stands for (formula_name_resolver.cpp): a      *)
(* function, a cell, a range, a table, or else a named expression.         *)
(*                                                                         *)
(* Letters are upper case here.  The readers move a pointer through the    *)
(* text; "rest" is the text from there on.  A name that is no reference is *)
(* looked up once more from where the reader stopped, which can not find   *)
(* a function: what follows a name is never part of one.                   *)
(***************************************************************************)
EXTENDS ReferenceNames

LOCAL SX == INSTANCE SequencesExt

Among(seq) == { seq[k] : k \in DOMAIN seq }

From(text, k) == SubSeq(text, k, Len(text))

\* The place of the first of these characters, 0 when there is none.
FirstOf(text, chars) == SX!SelectInSeq(text, LAMBDA c : c \in chars)

\* How many characters at the start are among these.
RunOf(text, chars) ==
    LET k == SX!SelectInSeq(text, LAMBDA c : c \notin chars)
    IN  IF k = 0 THEN Len(text) ELSE k - 1

StartsWith(text, chars) == text # << >> /\ text[1] \in chars

PlaceIn(seq, c) == CHOOSE k \in DOMAIN seq : seq[k] = c

NumberOf(digits) ==
    SX!FoldLeft(LAMBDA sum, c : sum * Len(Digits) + PlaceIn(Digits, c) - 1, 0, digits)

ColumnOf(letters) ==
    SX!FoldLeft(LAMBDA sum, c : sum * Len(Letters) + PlaceIn(Letters, c), 0, letters)

\* parse_number(): a sign and digits.
SignedNumber(text) ==
    LET body   == IF StartsWith(text, {"+", "-"}) THEN Tail(text) ELSE text
        digits == RunOf(body, Among(Digits))
        n      == NumberOf(SubSeq(body, 1, digits))
    IN  [value |-> IF StartsWith(text, {"-"}) THEN -n ELSE n, rest |-> From(body, digits + 1)]

-----------------------------------------------------------------------------
(* Addresses.  "range" stands for an address that a colon follows.         *)

Invalid == [result |-> "invalid", rest |-> << >>]

NewReference(sheet, abs_sheet) ==
    [sheet |-> sheet, row |-> 0, column |-> 0,
     abs_sheet |-> abs_sheet, abs_row |-> FALSE, abs_column |-> FALSE]

(* parse_address_a1(): "$"s, letters, "$" and digits, up to a colon.  A "$" *)
(* before any letter makes the column absolute, also where none follows.   *)
A1Address(ref, letters, abs_row, digits, rest) ==
    LET row   == NumberOf(digits)
        valid == /\ Among(digits) \subseteq Among(Digits)
                 /\ ColumnOf(letters) <= ColumnBound
                 /\ abs_row \/ ~StartsWith(digits, {Digits[1]})
                 /\ abs_row => row > 0
                 /\ letters # << >> \/ digits # << >>
    IN  IF ~valid THEN Invalid
        ELSE [result |-> IF rest = << >> THEN "address" ELSE "range", rest |-> rest,
              ref |-> [ref EXCEPT !.row = IF digits = << >> THEN RowUnset ELSE row - 1,
                                  !.column = IF letters = << >> THEN ColumnUnset ELSE ColumnOf(letters) - 1,
                                  !.abs_row = abs_row]]

A1Row(ref, letters, tail, rest) ==
    LET abs_row == letters # << >> /\ StartsWith(tail, {"$"})
    IN  A1Address(ref, letters, abs_row, IF abs_row THEN Tail(tail) ELSE tail, rest)

A1Column(ref, body, rest) ==
    LET length == RunOf(body, Among(Letters))
    IN  A1Row(ref, SubSeq(body, 1, length), From(body, length + 1), rest)

A1Head(ref, head, rest) ==
    A1Column([ref EXCEPT !.abs_column = StartsWith(head, {"$"})], From(head, RunOf(head, {"$"}) + 1), rest)

ParseA1(text, ref) ==
    LET length == RunOf(text, Among(text) \ {":"})
    IN  A1Head(ref, SubSeq(text, 1, length), From(text, length + 1))

(* A row or a column in R1C1 notation, from the character after its        *)
(* letter: relative in brackets, absolute as a number, or neither.  The    *)
(* character that closes the brackets is only looked at where it is last.  *)
R1C1Relative(body, number) ==
    [valid    |-> /\ StartsWith(body, Among(Digits) \union {"+", "-"})
                  /\ number.rest # << >>
                  /\ Len(number.rest) = 1 => number.rest[1] = "]",
     value    |-> number.value, absolute |-> FALSE, rest |-> From(number.rest, 2)]

R1C1Absolute(number) ==
    [valid |-> number.value > 0, value |-> number.value - 1, absolute |-> TRUE, rest |-> number.rest]

R1C1Number(text) ==
    IF StartsWith(text, {"["}) THEN R1C1Relative(Tail(text), SignedNumber(Tail(text)))
    ELSE IF StartsWith(text, Among(Digits)) THEN R1C1Absolute(SignedNumber(text))
    ELSE [valid |-> TRUE, value |-> 0, absolute |-> FALSE, rest |-> text]

R1C1Row(text) ==
    IF ~StartsWith(text, {"R"})
    THEN [valid |-> TRUE, value |-> RowUnset, absolute |-> FALSE, rest |-> text]
    ELSE IF Len(text) = 1 THEN [valid |-> FALSE, value |-> 0, absolute |-> FALSE, rest |-> << >>]
    ELSE LET number == R1C1Number(Tail(text))
         IN  [number EXCEPT !.absolute = @ \/ ~StartsWith(Tail(text), {"C", "["})]

R1C1Column(text) ==
    IF ~StartsWith(text, {"C"})
    THEN [valid |-> TRUE, value |-> ColumnUnset, absolute |-> FALSE, rest |-> text]
    ELSE R1C1Number(Tail(text))

R1C1Address(text, ref, row, column) ==
    LET nothing == row.value = RowUnset \/ (row.value = 0 /\ ~row.absolute)
        read    == [ref EXCEPT !.row = row.value, !.abs_row = row.absolute,
                               !.column = column.value, !.abs_column = column.absolute]
    IN  IF \/ text = << >> \/ ~row.valid \/ ~column.valid
           \/ row.rest = << "C" >> /\ nothing
        THEN Invalid
        ELSE IF column.rest = << >> THEN [result |-> "address", rest |-> << >>, ref |-> read]
        ELSE IF column.rest[1] = ":" /\ Len(column.rest) > 1
        THEN [result |-> "range", rest |-> column.rest, ref |-> read]
        ELSE Invalid

R1C1After(text, ref, row) == R1C1Address(text, ref, row, R1C1Column(row.rest))

ParseR1C1(text, ref) == R1C1After(text, ref, R1C1Row(text))

-----------------------------------------------------------------------------
(* Sheet names before an address.  A name that is not found is a sheet too *)
(* (invalid_sheet); "rest" begins with the separator.                      *)

SheetIndex(name) ==
    IF name \in Among(SheetNames) THEN PlaceIn(SheetNames, name) - 1 ELSE NoSheet

\* The place of the quote that closes a quoted name, 0 when none does.
ClosingQuote(text) ==
    LET Closing[k \in Nat] == IF k > Len(text) THEN 0
                              ELSE IF text[k] # "'" THEN Closing[k + 1]
                              ELSE IF k < Len(text) /\ text[k + 1] = "'" THEN Closing[k + 2]
                              ELSE k
    IN  Closing[2]

Undoubled(text) ==
    LET step(st, c) == [name |-> IF c = "'" /\ st.second THEN st.name ELSE Append(st.name, c),
                        second |-> c = "'" /\ ~st.second]
    IN  SX!FoldLeft(step, [name |-> << >>, second |-> FALSE], text).name

(* parse_sheet_name() and parse_sheet_name_quoted(), before a dot.         *)
SheetBefore(dot, text, body, name) ==
    IF dot \in DOMAIN body /\ body[dot] = "."
    THEN [found |-> TRUE, rest |-> From(body, dot), sheet |-> SheetIndex(name)]
    ELSE [found |-> FALSE, rest |-> text, sheet |-> NoSheet]

QuotedSheet(text, body, close) ==
    SheetBefore(IF close = 0 THEN 0 ELSE close + 1, text, body, Undoubled(SubSeq(body, 2, close - 1)))

UnquotedSheet(text, body, dot) == SheetBefore(dot, text, body, SubSeq(body, 1, dot - 1))

SheetBody(text, body) ==
    IF StartsWith(body, {"'"}) THEN QuotedSheet(text, body, ClosingQuote(body))
    ELSE UnquotedSheet(text, body, FirstOf(body, {"."}))

ParseSheetName(text) == SheetBody(text, IF StartsWith(text, {"$"}) THEN Tail(text) ELSE text)

NoSheets(text, present) == [present |-> present, first |-> NoSheet, last |-> NoSheet, rest |-> text]

\* The parts of a text between colons.
ColonParts(text) ==
    SX!FoldLeft(LAMBDA parts, c : IF c = ":" THEN Append(parts, << >>)
                                  ELSE SX!Front(parts) \o << Append(SX!Last(parts), c) >>,
                << << >> >>, text)

(* parse_excel_sheet_name(): one sheet, or two with a colon between.       *)
ExcelNames(text, stop, names) ==
    LET m == Len(names)
    IN  IF stop = 0 \/ \E k \in 1..(m - 2) : SheetIndex(names[k]) # NoSheet THEN NoSheets(text, FALSE)
        ELSE IF text[stop] # "!" THEN NoSheets(text, FirstOf(From(text, stop + 1), {"!"}) # 0)
        ELSE [present |-> TRUE, last |-> SheetIndex(names[m]), rest |-> From(text, stop),
              first |-> IF m > 1 THEN SheetIndex(names[m - 1]) ELSE NoSheet]

ExcelSheets(text, stop) == ExcelNames(text, stop, ColonParts(SubSeq(text, 1, stop - 1)))

(* parse_excel_sheet_name_quoted(): a quote is doubled unless it ends the  *)
(* name, and the colon is inside of the quotes.                            *)
QuotedStep(st, c) ==
    IF st.status # "name" THEN st
    ELSE CASE c = "!" -> IF st.quote THEN [st EXCEPT !.status = "read"] ELSE [st EXCEPT !.status = "failed"]
           [] c = ":" -> IF st.first # NoSheet THEN [st EXCEPT !.status = "failed"]
                         ELSE [st EXCEPT !.first = SheetIndex(st.name), !.name = << >>,
                                         !.quote = FALSE, !.length = @ + 1]
           [] c = "'" -> [st EXCEPT !.name = IF st.quote THEN @ ELSE Append(@, c),
                                    !.quote = ~@, !.length = @ + 1]
           [] OTHER   -> [st EXCEPT !.name = Append(@, c), !.quote = FALSE, !.length = @ + 1]

QuotedSheets(text, read) ==
    IF read.status # "read" THEN NoSheets(text, FALSE)
    ELSE [present |-> TRUE, first |-> read.first, rest |-> From(text, read.length + 1),
          last |-> SheetIndex(SubSeq(read.name, 1, Len(read.name) - 1))]

ParseExcelSheets(text) ==
    IF StartsWith(text, {"'"})
    THEN QuotedSheets(text, SX!FoldLeft(QuotedStep, [status |-> "name", name |-> << >>, quote |-> FALSE,
                                                     first |-> NoSheet, length |-> 1], Tail(text)))
    ELSE ExcelSheets(text, FirstOf(text, {"!", " ", "'", "\""}))

-----------------------------------------------------------------------------
(* Tables (resolve_table()): Table[Column], [Column], and areas and two    *)
(* columns in a second pair of brackets.                                   *)

TableStep(st, c) ==
    LET pending == st.buf # << >>
        failed  == [st EXCEPT !.ok = FALSE]
    IN  IF ~st.ok THEN st
        ELSE CASE c = "[" -> IF st.scope >= 2 \/ (pending /\ st.scope # 0) THEN failed
                             ELSE [st EXCEPT !.scope = @ + 1, !.opened = TRUE, !.buf = << >>,
                                             !.table = IF pending THEN st.buf ELSE @]
               [] c = "]" -> IF st.scope <= 0 THEN failed
                             ELSE [st EXCEPT !.scope = @ - 1, !.buf = << >>,
                                             !.names = IF pending THEN Append(@, st.buf) ELSE @]
               [] c = "," -> IF pending THEN failed ELSE st
               [] c = ":" -> IF st.scope # 1 \/ pending \/ st.names = << >> THEN failed
                             ELSE [st EXCEPT !.colon = Len(st.names)]
               [] OTHER   -> [st EXCEPT !.buf = Append(@, c)]

\* One name in the brackets: an area, the first column or the last.
NameInTable(t, name) ==
    IF ~t.ok THEN t
    ELSE IF name[1] = "#"
    THEN [t EXCEPT !.areas = IF name = << "#", "All" >> THEN TableAreas
                             ELSE IF Len(name) = 2 THEN @ \union ({name[2]} \cap TableAreas) ELSE @,
                   !.read = @ + 1]
    ELSE IF t.first = << >>
    THEN [t EXCEPT !.first = name, !.read = @ + 1,
                   !.areas = IF @ = {} THEN {"Data"} ELSE @]
    ELSE [t EXCEPT !.last = name, !.read = @ + 1, !.ok = t.last = << >> /\ t.read = t.colon]

NoTable == [ok |-> FALSE]

NamesInTable(brackets) ==
    LET start == [ok |-> TRUE, name |-> brackets.table, areas |-> {}, first |-> << >>, last |-> << >>,
                  read |-> 0, colon |-> brackets.colon]
    IN  IF brackets.ok /\ brackets.buf = << >> /\ brackets.opened /\ brackets.names # << >>
        THEN SX!FoldLeft(NameInTable, start, brackets.names)
        ELSE NoTable

ResolveTable(text) ==
    NamesInTable(SX!FoldLeft(TableStep,
        [ok |-> TRUE, opened |-> FALSE, scope |-> 0, buf |-> << >>, table |-> << >>,
         names |-> << >>, colon |-> -1], text))

-----------------------------------------------------------------------------
(* The readers of one address of each notation.                            *)

ParseExcel(notation, text, sheet) ==
    IF notation = "excel_a1" THEN ParseA1(text, NewReference(sheet, TRUE))
    ELSE ParseR1C1(text, NewReference(sheet, TRUE))

\* The sheet and whether it is absolute carry over from "ref".
Unnamed(text, ref) == [named |-> FALSE, parse |-> ParseA1(text, NewReference(ref.sheet, ref.abs_sheet))]
Named(text, sheet, abs_sheet) == [named |-> TRUE, parse |-> ParseA1(text, NewReference(sheet, abs_sheet))]

DotAddress(text, ref, sheet) ==
    IF sheet.found THEN Named(Tail(sheet.rest), sheet.sheet, text[1] = "$") ELSE Unnamed(text, ref)

ParseDot(notation, text, ref) ==
    IF notation = "odf_cra" /\ StartsWith(text, {"."}) THEN Unnamed(Tail(text), ref)
    ELSE DotAddress(text, ref, ParseSheetName(text))

OdffAddress(sheet, abs_sheet) ==
    Named(IF sheet.found THEN Tail(sheet.rest) ELSE sheet.rest, sheet.sheet, abs_sheet)

ParseOdff(text, ref) ==
    IF StartsWith(text, {"."}) THEN Unnamed(Tail(text), ref)
    ELSE IF StartsWith(text, {"$"}) THEN OdffAddress(ParseSheetName(Tail(text)), TRUE)
    ELSE OdffAddress(ParseSheetName(text), FALSE)

ParseAddress(notation, text, ref) ==
    IF notation = "odff" THEN ParseOdff(text, ref) ELSE ParseDot(notation, text, ref)

-----------------------------------------------------------------------------
(* What a name stands for.                                                 *)

Unresolved == [type |-> "invalid"]
FunctionName(text) == [type |-> "function", value |-> text]
NamedExpression(text) == [type |-> "named_expression", value |-> text]
CellReference(ref) == [type |-> "cell_reference", value |-> ref]
RangeReference(first, last) == [type |-> "range_reference", value |-> [first |-> first, last |-> last]]
TableReference(t) ==
    [type |-> "table_reference", value |-> [name |-> t.name, areas |-> t.areas, first |-> t.first, last |-> t.last]]

\* Both ends on the sheets that were named.
OnSheets(first, last, sheets) ==
    LET sheet == IF sheets.first # NoSheet THEN sheets.first ELSE sheets.last
    IN  IF sheets.present THEN RangeReference([first EXCEPT !.sheet = sheet], [last EXCEPT !.sheet = sheets.last])
        ELSE RangeReference(first, last)

\* Rows and columns of Excel A1 are read as absolute ones.
ExcelRelative(notation, ref, pos) == IF notation = "excel_a1" THEN ToRelative(ref, pos, FALSE) ELSE ref

(* excel_a1::resolve() and excel_r1c1::resolve(): the sheets come first    *)
(* and apply to both ends.  Only the first address is kept within the      *)
(* sheet, and only in A1; a row or a column alone is no cell in A1.        *)
ExcelCell(ref, sheets) ==
    IF sheets.first # NoSheet THEN OnSheets(ref, ref, sheets)
    ELSE CellReference(IF sheets.present THEN [ref EXCEPT !.sheet = sheets.last] ELSE ref)

ExcelRange(notation, pos, sheets, first, two) ==
    IF two.result = "address" THEN OnSheets(first, ExcelRelative(notation, two.ref, pos), sheets)
    ELSE Unresolved

ExcelAddress(notation, text, pos, sheets, one) ==
    IF one.result = "invalid" \/ (notation = "excel_a1" /\ ~InSheetBounds(one.ref)) THEN NamedExpression(text)
    ELSE IF one.result = "range"
    THEN ExcelRange(notation, pos, sheets, ExcelRelative(notation, one.ref, pos),
                    ParseExcel(notation, Tail(one.rest), pos.sheet))
    ELSE IF notation = "excel_a1" /\ one.ref.row = RowUnset THEN NamedExpression(text)
    ELSE ExcelCell(ExcelRelative(notation, one.ref, pos), sheets)

ExcelBody(notation, text, pos, sheets) ==
    IF sheets.present /\ sheets.last = NoSheet THEN Unresolved
    ELSE ExcelAddress(notation, text, pos, sheets,
            ParseExcel(notation, IF sheets.present THEN Tail(sheets.rest) ELSE sheets.rest, pos.sheet))

ResolveExcel(notation, text, pos, table) ==
    IF notation = "excel_a1" /\ table.ok THEN TableReference(table)
    ELSE ExcelBody(notation, text, pos, ParseExcelSheets(text))

(* dot_a1_resolver::resolve() and, between the brackets,                   *)
(* odff_resolver::resolve(), which does not look for the sheet and its     *)
(* size.                                                                   *)
DotRange(pos, first, two) ==
    IF two.parse.result = "address" THEN RangeReference(first, ToRelative(two.parse.ref, pos, two.named))
    ELSE Unresolved

DotFirst(notation, text, pos, one, first) ==
    IF one.result = "range"
    THEN IF Len(one.rest) = 1 THEN Unresolved
         ELSE DotRange(pos, first, ParseAddress(notation, Tail(one.rest), first))
    ELSE IF one.ref.row = RowUnset THEN NamedExpression(text)
    ELSE CellReference(first)

DotBody(notation, text, pos, one) ==
    IF one.result = "invalid" THEN NamedExpression(text)
    ELSE IF notation # "odff" /\ one.ref.sheet = NoSheet THEN Unresolved
    ELSE IF notation # "odff" /\ ~InSheetBounds(one.ref) THEN NamedExpression(text)
    ELSE DotFirst(notation, text, pos, one, ToRelative(one.ref, pos, TRUE))

ResolveDot(notation, text, body, pos, abs_sheet) ==
    DotBody(notation, text, pos, ParseAddress(notation, body, NewReference(pos.sheet, abs_sheet)).parse)

Resolve(notation, text, pos) ==
    IF text \in FunctionNames THEN FunctionName(text)
    ELSE IF notation \in {"excel_a1", "excel_r1c1"} THEN ResolveExcel(notation, text, pos, ResolveTable(text))
    ELSE IF notation # "odff" THEN ResolveDot(notation, text, text, pos, FALSE)
    ELSE IF text[1] # "[" THEN NamedExpression(text)
    ELSE IF text[Len(text)] # "]" THEN Unresolved
    ELSE ResolveDot(notation, text, SubSeq(text, 2, Len(text) - 1), pos, TRUE)

=============================================================================

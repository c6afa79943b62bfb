---------------------------- MODULE FormulaText ----------------------------
(***************************************************************************)
(* Formulas as texts: the lexer (formula_lexer.cpp), the parser            *)
(* (formula_parser.cpp) and what prints tokens as a formula again          *)
(* (print_token() and print_formula_tokens() in formula.cpp), one token at *)
(* a time.  A formula is read, printed and read once more.                 *)
(***************************************************************************)
EXTENDS NameResolver

LOCAL SX == INSTANCE SequencesExt

CONSTANTS
    ErrorNames,   \* what follows the "#" of an error
    Formulas,     \* texts to read, as [setting, text]
    References,   \* references to print, as [setting, token]
    NoTokens

VARIABLES
    setting,   \* the notation, the position of the formula, display_sheet_t and the
               \* separators (sep_function_arg and sep_matrix_row): the same throughout
    stage,     \* "read", "print", "done", or "threw"
    text,      \* what the lexer has not read yet
    lexed,     \* tokens of the lexer that are not parsed yet
    tokens,    \* formula tokens
    before     \* the formula tokens that were printed, NoTokens until then

vars == << setting, stage, text, lexed, tokens, before >>

Primitives == {"&", "(", ")", "*", "+", "-", "/", "=", "^", "{", "}", "sep", "row_sep"}
Operators == (Primitives \ {"sep", "row_sep"}) \union {"<", ">"}

Token(opcode, value) == [opcode |-> opcode, value |-> value]
Plain(opcode) == Token(opcode, << >>)

Started(s, st, tx, tk, b) ==
    /\ setting = s /\ stage = st /\ text = tx /\ lexed = << >> /\ tokens = tk /\ before = b

Init ==
    \/ \E f \in Formulas   : Started(f.setting, "read", f.text, << >>, NoTokens)
    \/ \E r \in References : Started(r.setting, "print", << >>, << r.token >>, << r.token >>)

-----------------------------------------------------------------------------
(* The lexer: what a token is depends on its first character.              *)

\* tokenizer::is_op(), which does not know of the separator of rows.
IsOp(c) == c = setting.separators.argument \/ c \in Operators \/ c \in {" ", "\""}

\* tokenizer::name(): brackets and quotes keep operators together.
NameStep(st, c) ==
    IF st.ended THEN st
    ELSE IF st.scopes # << >> /\ st.scopes[Len(st.scopes)] = c
    THEN [st EXCEPT !.scopes = SubSeq(@, 1, Len(@) - 1), !.length = @ + 1]
    ELSE IF c \in {"[", "'"}
    THEN [st EXCEPT !.scopes = Append(@, IF c = "[" THEN "]" ELSE c), !.length = @ + 1]
    ELSE IF st.scopes = << >> /\ IsOp(c) THEN [st EXCEPT !.ended = TRUE]
    ELSE [st EXCEPT !.length = @ + 1]

NameLength(from) ==
    SX!FoldLeft(NameStep, [ended |-> FALSE, scopes |-> << >>, length |-> 0], from).length

\* The value that digits and one decimal point stand for.
Numeric(digits) ==
    LET point    == FirstOf(digits, {"."})
        fraction == IF point = 0 THEN << >> ELSE From(digits, point + 1)
        ended    == Len(fraction) - RunOf(SX!Reverse(fraction), {Digits[1]})
    IN  [whole |-> NumberOf(IF point = 0 THEN digits ELSE SubSeq(digits, 1, point - 1)),
         fraction |-> SubSeq(fraction, 1, ended)]

\* The digits of a number with at most one decimal point among them.
NumeralLength(from) ==
    LET whole == RunOf(from, Among(Digits))
    IN  IF StartsWith(From(from, whole + 1), {"."})
        THEN whole + 1 + RunOf(From(from, whole + 2), Among(Digits)) ELSE whole

IsNumeral == text # << >> /\ text[1] \in Among(Digits)

(* Mutant for NumeralIsName. *)
TwoPointsAreAName == StartsWith(From(text, NumeralLength(text) + 1), {"."})

\* A number a colon or another decimal point follows is a name.
NumeralIsName == StartsWith(From(text, NumeralLength(text) + 1), {":", "."})

Lexed(token, length) ==
    /\ lexed' = Append(lexed, token)
    /\ text' = From(text, length + 1)
    /\ UNCHANGED << setting, stage, tokens, before >>

Lexing(chars) == stage = "read" /\ StartsWith(text, chars)

LexNumeral ==
    /\ stage = "read" /\ IsNumeral
    /\ IF NumeralIsName THEN Lexed(Token("name", SubSeq(text, 1, NameLength(text))), NameLength(text))
       ELSE Lexed(Token("value", Numeric(SubSeq(text, 1, NumeralLength(text)))), NumeralLength(text))

LexOperator == Lexing(Operators) /\ Lexed(Plain(text[1]), 1)

LexSpace == Lexing({" "}) /\ text' = Tail(text) /\ UNCHANGED << setting, stage, lexed, tokens, before >>

LexString ==
    /\ Lexing({"\""})
    /\ LET length == RunOf(Tail(text), Among(text) \ {"\""})
       IN  Lexed(Token("string", SubSeq(text, 2, length + 1)), length + 2)

LexError ==
    /\ Lexing({"#"})
    /\ IF StartsWith(Tail(text), ErrorNames) THEN Lexed(Token("error", text[2]), 2)
       ELSE stage' = "threw" /\ UNCHANGED << setting, text, lexed, tokens, before >>

LexSeparator ==
    \/ Lexing({setting.separators.argument}) /\ Lexed(Plain("sep"), 1)
    \/ Lexing({";"} \ {setting.separators.argument}) /\ Lexed(Plain("row_sep"), 1)

LexName ==
    /\ stage = "read" /\ text # << >> /\ ~IsNumeral
    /\ text[1] \notin Operators \union {" ", "\"", "#", ";", setting.separators.argument}
    /\ Lexed(Token("name", SubSeq(text, 1, NameLength(text))), NameLength(text))

-----------------------------------------------------------------------------
(* The parser: a handler for each kind of token.                           *)

Parsed(token, count) ==
    /\ tokens' = Append(tokens, token)
    /\ lexed' = From(lexed, count + 1)
    /\ UNCHANGED << setting, stage, text, before >>

Parsing(opcodes) == stage = "read" /\ text = << >> /\ lexed # << >> /\ lexed[1].opcode \in opcodes

ParsePrimitive == Parsing(Primitives) /\ Parsed(Plain(lexed[1].opcode), 1)

\* formula_parser::name(): what is no reference and no function is a name.
ParseName ==
    /\ Parsing({"name"})
    /\ \E name \in {Resolve(setting.notation, lexed[1].value, setting.position)} :
          IF name.type = "invalid"
          THEN stage' = "threw" /\ UNCHANGED << setting, text, lexed, tokens, before >>
          ELSE Parsed(Token(name.type, name.value), 1)

ParseAsItIs == Parsing({"error", "string", "value"}) /\ Parsed(lexed[1], 1)

Follows(opcodes) == Len(lexed) > 1 /\ lexed[2].opcode \in opcodes

ParseLess ==
    /\ Parsing({"<"})
    /\ IF Follows({"="}) THEN Parsed(Plain("<="), 2)
       ELSE IF Follows({">"}) THEN Parsed(Plain("<>"), 2)
       ELSE Parsed(Plain("<"), 1)

ParseGreater ==
    /\ Parsing({">"})
    /\ IF Follows({"="}) THEN Parsed(Plain(">="), 2) ELSE Parsed(Plain(">"), 1)

\* What was read is printed, and what was printed has been read again.
ReadEnd ==
    /\ stage = "read" /\ text = << >> /\ lexed = << >>
    /\ IF before = NoTokens
       THEN stage' = "print" /\ before' = tokens /\ UNCHANGED << setting, text, lexed, tokens >>
       ELSE stage' = "done" /\ UNCHANGED << setting, text, lexed, tokens, before >>

-----------------------------------------------------------------------------
(* The printer.                                                            *)

SheetToPrint(ref) ==
    CASE setting.display = "always" -> TRUE
      [] setting.display = "never"  -> FALSE
      [] setting.display = "only_if_different" ->
            ToAbs(ref, setting.position).sheet # setting.position.sheet

Base == Len(Digits)
Zeros(n) == [k \in 1..n |-> Digits[1]]
WithoutZeros(digits) == SubSeq(digits, 1, Len(digits) - RunOf(SX!Reverse(digits), {Digits[1]}))

\* A number as the digits from its first one that is not 0 on, and the
\* power of the base that the first of them stands for.
Scientific(value) ==
    LET whole == IF value.whole = 0 THEN << >> ELSE Numeral(value.whole)
        zeros == IF whole = << >> THEN RunOf(value.fraction, {Digits[1]}) ELSE 0
    IN  [digits |-> WithoutZeros(From(whole \o value.fraction, zeros + 1)),
         exponent |-> Len(whole) - 1 - zeros]

Precision == 6   \* of a stream that nothing was set on

\* To the nearest number of that many digits; what is carried over raises the exponent.
Rounded(number) ==
    LET rest    == From(number.digits, Precision + 1)
        twice   == 2 * NumberOf(rest)
        unit    == Base ^ Len(rest)
        kept    == NumberOf(SubSeq(number.digits, 1, Precision))
        up      == twice > unit \/ (twice = unit /\ kept % 2 = 1)
        rounded == Numeral(IF up THEN kept + 1 ELSE kept)
    IN  IF rest = << >> THEN number
        ELSE [digits |-> WithoutZeros(rounded),
              exponent |-> number.exponent + Len(rounded) - Precision]

\* No exponent is written for these.
IsFixed(number) == number.exponent \in -4..(Precision - 1)

\* Is what is written the number itself?
IsExact(value) ==
    LET number == Scientific(value)
    IN  number.digits = << >> \/ (IsFixed(number) /\ Len(number.digits) <= Precision)

Pointed(whole, fraction) == whole \o Written(fraction # << >>, << "." >> \o fraction)

\* What a stream writes for a double: six digits that count, no zeros at the
\* end, and large and small numbers with an exponent of two digits or more.
DoubleText(value) ==
    LET number   == Rounded(Scientific(value))
        digits   == number.digits
        exponent == number.exponent
        size     == AbsValue(exponent)
    IN  IF digits = << >> THEN Zeros(1)
        ELSE IF ~IsFixed(number)
        THEN Pointed(SubSeq(digits, 1, 1), Tail(digits)) \o << "e", IF exponent < 0 THEN "-" ELSE "+" >>
               \o Written(size < Base, Zeros(1)) \o Numeral(size)
        ELSE IF exponent < 0 THEN Pointed(Zeros(1), Zeros(size - 1) \o digits)
        ELSE Pointed(SubSeq(digits \o Zeros(exponent), 1, exponent + 1), From(digits, exponent + 2))

\* The sheet of a range is shown or not for its first cell.
TokenText(t) ==
    CASE t.opcode = "value" -> DoubleText(t.value)
      [] t.opcode = "sep" -> << setting.separators.argument >>
      [] t.opcode = "row_sep" -> << setting.separators.row >>
      [] t.opcode = "error" -> << "#", t.value >>
      [] t.opcode = "string" -> << "\"" >> \o t.value \o << "\"" >>
      [] t.opcode = "cell_reference" ->
            CellName(setting.notation, t.value, setting.position, SheetToPrint(t.value))
      [] t.opcode = "range_reference" ->
            RangeName(setting.notation, t.value, setting.position, SheetToPrint(t.value.first))
      [] t.opcode = "table_reference" -> TableName(setting.notation, t.value)
      [] t.opcode \in {"function", "named_expression"} -> t.value
      [] t.opcode = "<=" -> << "<", "=" >>
      [] t.opcode = "<>" -> << "<", ">" >>
      [] t.opcode = ">=" -> << ">", "=" >>
      [] OTHER -> << t.opcode >>

PrintFormulaTokens ==
    /\ stage = "print"
    /\ text' = SX!FlattenSeq([k \in DOMAIN tokens |-> TokenText(tokens[k])])
    /\ tokens' = << >> /\ stage' = "read"
    /\ UNCHANGED << setting, lexed, before >>

Next ==
    \/ LexNumeral \/ LexOperator \/ LexSpace \/ LexString \/ LexError
    \/ LexSeparator \/ LexName
    \/ ParsePrimitive \/ ParseName \/ ParseAsItIs \/ ParseLess \/ ParseGreater \/ ReadEnd
    \/ PrintFormulaTokens

Spec == Init /\ [][Next]_vars

-----------------------------------------------------------------------------
(* Properties                                                              *)

Excel == {"excel_a1", "excel_r1c1"}

IsReference(t) == t.opcode \in {"cell_reference", "range_reference"}
Ends(t) == IF t.opcode = "cell_reference" THEN << t.value >> ELSE << t.value.first, t.value.last >>
Sheet(ref) == ToAbs(ref, setting.position).sheet
IsWhole(ref) == ref.row = RowUnset \/ ref.column = ColumnUnset

Here(n, absolute, unset) == ~absolute /\ n \in {0, unset}
IsHere(ref) == Here(ref.row, ref.abs_row, RowUnset) /\ Here(ref.column, ref.abs_column, ColumnUnset)

(* References the notation has a form for that its reader knows.  In R1C1  *)
(* that is not the cell, row or column of the formula itself, at the end   *)
(* of the name, and not in OpenFormula whole rows and columns.  Excel's    *)
(* ranges have one sheet, sheets that are left out are the formula's own,  *)
(* and sheets have a name.                                                 *)
IsSayable(t) ==
    LET ends == Ends(t)
        last == ends[Len(ends)]
    IN  /\ \A k \in DOMAIN ends : Sheet(ends[k]) + 1 \in DOMAIN SheetNames
        /\ \A k \in DOMAIN ends : SheetToPrint(ends[1]) \/ Sheet(ends[k]) = setting.position.sheet
        /\ setting.notation \in Excel => Sheet(last) = Sheet(ends[1])
        /\ setting.notation = "excel_r1c1" =>
              ~IsHere(last) /\ \A k \in DOMAIN ends : IsWhole(ends[k]) => ~IsHere(ends[k])
        /\ \E k \in DOMAIN ends : IsWhole(ends[k]) =>
              setting.notation # "odff" /\ (t.opcode = "cell_reference" => setting.notation = "excel_r1c1")

(* Operands have an operator between them, and rows of arrays end with a   *)
(* number, a string or an error: names go on over the separator of rows.   *)
Punctuation == Operators \union {"sep", "row_sep", "<=", "<>", ">="}

IsSeparated(tks) ==
    \A k \in 1..(Len(tks) - 1) :
        /\ tks[k].opcode \in Punctuation \/ tks[k + 1].opcode \in Punctuation
        /\ tks[k + 1].opcode = "row_sep" => tks[k].opcode \in Punctuation \union {"value", "string", "error"}

IsPrintable(tks) ==
    /\ IsSeparated(tks)
    /\ \A k \in DOMAIN tks :
          /\ tks[k].opcode = "value" => IsExact(tks[k].value)
          /\ IsReference(tks[k]) => IsSayable(tks[k])
          /\ tks[k].opcode = "table_reference" =>
                setting.notation = "excel_a1" /\ ~StartsWith(tks[k].value.name, {";"})
          /\ tks[k].opcode = "row_sep" => setting.separators.row = ";"

(* A formula that is printed (print_formula_tokens()) can be read          *)
(* (parse_formula_string()), as the same tokens.  Not so for a number that *)
(* six digits do not say: 1000000 is printed as 1e+06, and that is read as *)
(* a 1, the name e, a plus and a 6.                                        *)
FormulasReadBack ==
    before # NoTokens /\ IsPrintable(before) =>
        /\ stage # "threw"
        /\ stage = "done" =>
              /\ Len(tokens) = Len(before)
              /\ \A k \in DOMAIN tokens :
                    /\ tokens[k].opcode = before[k].opcode
                    /\ ~IsReference(tokens[k]) => tokens[k] = before[k]

(* The references in a formula that is printed and read are to the same    *)
(* cells (formula_name_resolver::get_name() and resolve()) and move in the *)
(* same way when the formula does.  Excel's notations have no relative     *)
(* sheets, and whole rows and columns are read as relative ones in A1.     *)
SameReference(a, b, shown) ==
    /\ ToAbs(a, setting.position) = ToAbs(b, setting.position)
    /\ shown /\ setting.notation \notin Excel => a.abs_sheet = b.abs_sheet
    /\ (IsWhole(a) => setting.notation = "excel_r1c1") =>
           a.abs_row = b.abs_row /\ a.abs_column = b.abs_column

ReferencesReadBack ==
    stage = "done" /\ IsPrintable(before) =>
        \A k \in DOMAIN before :
            IsReference(before[k]) /\ tokens[k].opcode = before[k].opcode =>
                \A e \in DOMAIN Ends(before[k]) :
                    SameReference(Ends(before[k])[e], Ends(tokens[k])[e], SheetToPrint(Ends(before[k])[1]))

=============================================================================

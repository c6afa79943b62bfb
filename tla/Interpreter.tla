----------------------------- MODULE Interpreter -----------------------------
(***************************************************************************)
(* formula_interpreter: how one cell's formula becomes a result.           *)
(* init_tokens() replaces every named expression by its tokens, and a      *)
(* recursive descent over the expanded tokens (expression, term, factor,   *)
(* sign, paren, function, array) then computes on a stack of value stacks. *)
(*                                                                         *)
(* The C++ call stack is the variable calls: one frame per handler that    *)
(* has not returned, with the locals it still needs.  A step of the model  *)
(* is one handler between two calls.  An exception drops the frames and    *)
(* the interpretation is over.                                             *)
(*                                                                         *)
(* A token is a record with the field op: an operator, a separator, a      *)
(* parenthesis or a brace is only its op, "value", "string" and "error"    *)
(* carry a stack value, "single_ref" an absolute address, "range_ref" the  *)
(* rows of its addresses, "function" and "name" a name.                    *)
(***************************************************************************)
EXTENDS StackValues

CONSTANTS
    Jobs,       \* the [formula, names] pairs an interpretation may start from
    Functions(_, _)   \* the value of a call, by its name and arguments

ASSUME JobsAssumption == \A j \in Jobs : IsFiniteSet(DOMAIN j.names)

(* A token that carries a value, an address or a range carries a right one.*)
IsToken(t) ==
    /\ t.op \in {"value", "string", "error"} => t.value.type = t.op
    /\ t.op = "single_ref" => t.address \in DOMAIN Cells \cup {Position}
    /\ t.op = "range_ref" => IsRange(t.range, DOMAIN Cells \cup {Position})
IsSource(s) ==
    /\ s \in Seq({ s[k] : k \in DOMAIN s })
    /\ \A k \in DOMAIN s : IsToken(s[k])

ASSUME TokensAssumption ==
    \A j \in Jobs : IsSource(j.formula) /\ \A m \in DOMAIN j.names : IsSource(j.names[m])

VARIABLES
    job,        \* what is interpreted: the cell's tokens and the known names
    expanding,  \* frames of init_tokens() and expand_named_expression()
    used_names, \* names expanded so far
    tokens,     \* m_tokens
    cur,        \* m_cur_token_itr, an index into tokens
    calls,      \* frames of the descent, the innermost first
    at,         \* "expand", the handler to enter, "return", or "done"
    stacks,     \* m_stacks, the innermost first; a stack has its top first
    outcome     \* the value, "thrown" and its m_error, or "escaped"

vars == << job, expanding, used_names, tokens, cur, calls, at, stacks, outcome >>

SignOps       == {"+", "-"}
ExpressionOps == {"+", "-", "=", "<>", "<", "<=", ">", ">="}
TermOps       == {"*", "&", "/"}   \* and "^", which takes the way of "*"

Unfinished == [type |-> "unfinished"]

Init ==
    /\ job \in Jobs
    /\ expanding = << job.formula >>
    /\ used_names = {}
    /\ tokens = << >>
    /\ cur = 1
    /\ calls = << >>
    /\ at = "expand"
    /\ stacks = << << >> >>
    /\ outcome = Unfinished

(* Leaves the interpretation: with a result, or by an exception.           *)
Finish(result) ==
    /\ at' = "done"
    /\ outcome' = result
    /\ UNCHANGED << job, expanding, used_names, tokens, cur, calls, stacks >>

Throw(e) == Finish(Thrown(e))

-----------------------------------------------------------------------------
(* init_tokens() and expand_named_expression()                             *)

AtTopLevel == Len(expanding) = 1
NextSource == Head(Head(expanding))
RestOfSource == [expanding EXCEPT ![1] = Tail(@)]

(* An ordinary token is copied.                                            *)
ExpandToken ==
    /\ at = "expand"
    /\ Head(expanding) # << >> /\ NextSource.op # "name"
    /\ tokens' = Append(tokens, NextSource)
    /\ expanding' = RestOfSource
    /\ UNCHANGED << job, used_names, cur, calls, at, stacks, outcome >>

(* As if no name were ever looked up among the used ones.                  *)
AnyNameIsFree(name) == TRUE

(* A name inside a named expression must not have been used before; a      *)
(* name of the cell's own formula is not looked up among the used ones.    *)
NameIsFree(name) == AtTopLevel \/ name \notin used_names

EnterName ==
    /\ at = "expand"
    /\ Head(expanding) # << >> /\ NextSource.op = "name"
    /\ LET name == NextSource.name IN
       IF ~NameIsFree(name) THEN Throw("invalid_expression")
       ELSE IF name \notin DOMAIN job.names THEN Throw("name_not_found")
       ELSE /\ used_names' = used_names \cup {name}
            /\ expanding' = << job.names[name] >> \o RestOfSource
            /\ tokens' = Append(tokens, [op |-> "("])
            /\ UNCHANGED << job, cur, calls, at, stacks, outcome >>

(* As if the closing parenthesis were forgotten.                           *)
LeaveNameOpen ==
    /\ at = "expand"
    /\ Head(expanding) = << >> /\ ~AtTopLevel
    /\ expanding' = Tail(expanding)
    /\ UNCHANGED << job, used_names, tokens, cur, calls, at, stacks, outcome >>

LeaveName ==
    /\ at = "expand"
    /\ Head(expanding) = << >> /\ ~AtTopLevel
    /\ tokens' = Append(tokens, [op |-> ")"])
    /\ expanding' = Tail(expanding)
    /\ UNCHANGED << job, used_names, cur, calls, at, stacks, outcome >>

(* All tokens are there: the descent begins, unless there are none.  That  *)
(* and a descent that stops before the last token return false with        *)
(* m_error still no_error.                                                 *)
StartInterpretation ==
    /\ at = "expand"
    /\ Head(expanding) = << >> /\ AtTopLevel
    /\ IF tokens = << >> THEN Throw("no_error")
       ELSE /\ at' = "expression"
            /\ UNCHANGED << job, expanding, used_names, tokens, cur, calls, stacks, outcome >>

-----------------------------------------------------------------------------
(* The descent                                                             *)

HasToken == cur <= Len(tokens)
Token == tokens[cur]
TokenIn(ops) == HasToken /\ Token.op \in ops

Stack == Head(stacks)
Top == Head(Stack)
Pushed(v) == [stacks EXCEPT ![1] = << v >> \o @]
NotPopped == stacks      \* as if a value were read and left on the stack
Popped == [stacks EXCEPT ![1] = Tail(@)]
Replaced(v) == [stacks EXCEPT ![1] = << v >> \o Tail(@)]

Caller == Head(calls)
CalledBy(f) == << f >> \o calls
Resumed(f) == << f >> \o Tail(calls)

(* Every handler of the descent leaves these alone.                        *)
Descend == UNCHANGED << job, expanding, used_names, tokens, outcome >>

(* expression() calls term().                                              *)
EnterExpression ==
    /\ at = "expression"
    /\ calls' = CalledBy([in |-> "expression"])
    /\ at' = "term"
    /\ Descend /\ UNCHANGED << cur, stacks >>

(* term() calls factor().                                                  *)
EnterTerm ==
    /\ at = "term"
    /\ calls' = CalledBy([in |-> "term"])
    /\ at' = "factor"
    /\ Descend /\ UNCHANGED << cur, stacks >>

(* factor() calls sign(): one sign at most, which may not be the last      *)
(* token.  With a minus, factor() negates what it is about to push.        *)
Sign ==
    /\ at = "factor"
    /\ CASE ~HasToken -> Throw("invalid_expression")
         [] TokenIn(SignOps) /\ cur = Len(tokens) -> Throw("invalid_expression")
         [] OTHER ->
              /\ cur' = IF TokenIn(SignOps) THEN cur + 1 ELSE cur
              /\ calls' = IF TokenIn({"-"}) THEN CalledBy([in |-> "negate"]) ELSE calls
              /\ at' = "operand"
              /\ Descend /\ UNCHANGED stacks

(* constant(), literal(), error(), single_ref() and range_ref(), which     *)
(* refuse a reference to the cell itself, and table_ref() of a context     *)
(* without a table handler.                                                *)
OperandValue(t) ==
    CASE t.op = "single_ref" ->
            IF t.address = Position THEN Thrown("ref_result_not_available")
            ELSE SingleRef(t.address)
      [] t.op = "range_ref" ->
            IF \E i \in DOMAIN t.range : \E j \in DOMAIN t.range[i] : t.range[i][j] = Position
            THEN Thrown("ref_result_not_available")
            ELSE RangeRef(t.range)
      [] t.op = "table_ref" -> Thrown("ref_result_not_available")
      [] OTHER -> t.value

OperandOps == {"value", "string", "error", "single_ref", "range_ref", "table_ref"}

Operand ==
    /\ at = "operand" /\ Token.op \in OperandOps
    /\ \E v \in {OperandValue(Token)} :
       IF Failed(v) THEN Finish(v)
       ELSE /\ cur' = cur + 1
            /\ stacks' = Pushed(v)
            /\ at' = "return"
            /\ Descend /\ UNCHANGED calls

(* paren() calls expression().                                             *)
OpenParen ==
    /\ at = "operand" /\ Token.op = "("
    /\ cur' = cur + 1
    /\ calls' = CalledBy([in |-> "paren"])
    /\ at' = "expression"
    /\ Descend /\ UNCHANGED stacks

(* function() opens a value stack of its own for the arguments.            *)
OpenFunction ==
    /\ at = "operand" /\ Token.op = "function"
    /\ IF cur + 2 > Len(tokens) \/ tokens[cur + 1].op # "("
       THEN Throw("invalid_expression")
       ELSE /\ cur' = cur + 2
            /\ stacks' = << << >> >> \o stacks
            /\ calls' = CalledBy([in |-> "function", name |-> Token.name, expect_sep |-> FALSE])
            /\ at' = "arguments"
            /\ Descend

(* array() keeps the finished rows, the row it is in and the last op.      *)
OpenArray ==
    /\ at = "operand" /\ Token.op = "{"
    /\ cur' = cur + 1
    /\ calls' = CalledBy([in |-> "array", rows |-> << >>, row |-> << >>, prev_op |-> "{"])
    /\ at' = "array"
    /\ Descend /\ UNCHANGED stacks

NoOperand ==
    /\ at = "operand"
    /\ Token.op \notin OperandOps \cup {"(", "function", "{"}
    /\ Throw("invalid_expression")

-----------------------------------------------------------------------------
(* The argument loop of function()                                         *)

(* As if the separator were seen and not consumed.                         *)
NextArgumentStays ==
    /\ at = "arguments" /\ ~TokenIn({")"})
    /\ IF ~Caller.expect_sep
       THEN at' = "expression" /\ Descend /\ UNCHANGED << cur, calls, stacks >>
       ELSE IF TokenIn({","}) /\ cur < Len(tokens)
       THEN UNCHANGED vars
       ELSE Throw("invalid_expression")

NextArgument ==
    /\ at = "arguments" /\ ~TokenIn({")"})
    /\ IF ~Caller.expect_sep
       THEN at' = "expression" /\ Descend /\ UNCHANGED << cur, calls, stacks >>
       ELSE IF TokenIn({","}) /\ cur < Len(tokens)
       THEN /\ cur' = cur + 1
            /\ calls' = Resumed([Caller EXCEPT !.expect_sep = FALSE])
            /\ Descend /\ UNCHANGED << at, stacks >>
       ELSE Throw("invalid_expression")

(* The function takes its arguments, in the order they were pushed, and    *)
(* its value goes to the stack below.  A call that is endless does not     *)
(* return.                                                                 *)
CallResult == Functions(Caller.name, [i \in DOMAIN Stack |-> Stack[Len(Stack) + 1 - i]])
InEndlessCall == at = "arguments" /\ TokenIn({")"}) /\ CallResult = Endless

CallFunction ==
    /\ at = "arguments" /\ TokenIn({")"})
    /\ \E v \in {CallResult} \ {Endless} :
       IF Failed(v) THEN Finish(v)
       ELSE /\ cur' = cur + 1
            /\ stacks' = << << v >> \o stacks[2] >> \o Tail(Tail(stacks))
            /\ calls' = Tail(calls)
            /\ at' = "return"
            /\ Descend

-----------------------------------------------------------------------------
(* The loop of array()                                                     *)

AfterValue == Caller.prev_op \in {"value", "string"}
SameWidth == Caller.rows # << >> => Len(Caller.row) = Len(Caller.rows[1])

(* A sign is taken after a brace or a separator, whatever follows it.      *)
ArraySign == ~AfterValue /\ TokenIn(SignOps)
ArrayTokenAt == IF ArraySign THEN cur + 1 ELSE cur
ArrayToken == tokens[ArrayTokenAt]

(* The separator that ends a row is checked against the row before, the    *)
(* brace that ends the array too.                                          *)
ArrayTokenValid ==
    /\ ArrayTokenAt <= Len(tokens)
    /\ \/ ArrayToken.op \in {"string", "value"} /\ ~AfterValue
       \/ ArrayToken.op = "," /\ AfterValue
       \/ ArrayToken.op = ";" /\ AfterValue /\ SameWidth
       \/ ArrayToken.op = "}" /\ (AfterValue \/ Caller.prev_op = "{") /\ SameWidth

(* A minus negates a number and does nothing to a text.                    *)
ArrayElement ==
    IF ArraySign /\ Token.op = "-" /\ ArrayToken.op = "value"
    THEN Value(Negated(ArrayToken.value.number)) ELSE ArrayToken.value

ArrayStep ==
    /\ at = "array"
    /\ CASE ~ArrayTokenValid -> Throw("invalid_expression")
         [] ArrayTokenValid /\ ArrayToken.op = "}" ->
              /\ stacks' = Pushed(Matrix(Append(Caller.rows, Caller.row)))
              /\ calls' = Tail(calls)
              /\ cur' = ArrayTokenAt + 1
              /\ at' = "return"
              /\ Descend
         [] ArrayTokenValid /\ ArrayToken.op # "}" ->
              /\ calls' = Resumed(
                    [Caller EXCEPT
                       !.prev_op = ArrayToken.op,
                       !.rows = IF ArrayToken.op = ";" THEN Append(@, Caller.row) ELSE @,
                       !.row = CASE ArrayToken.op = ";" -> << >>
                                 [] ArrayToken.op = "," -> @
                                 [] OTHER -> Append(@, ArrayElement)])
              /\ cur' = ArrayTokenAt + 1
              /\ Descend /\ UNCHANGED << at, stacks >>

-----------------------------------------------------------------------------
(* Returns                                                                 *)

Returning(handler) == at = "return" /\ calls # << >> /\ Caller.in = handler

(* The end of factor() after a minus sign.                                 *)
Negate ==
    /\ Returning("negate")
    /\ \E v \in {Numeric(Top)} :
       IF Failed(v) THEN Finish(v)
       ELSE /\ stacks' = Replaced(Value(Negated(v.number)))
            /\ calls' = Tail(calls)
            /\ Descend /\ UNCHANGED << cur, at >>

(* As if term() went on with a factor and not with a term.                 *)
AfterFactorOneMore ==
    /\ Returning("term")
    /\ IF ~TokenIn(TermOps)
       THEN calls' = Tail(calls) /\ Descend /\ UNCHANGED << cur, at, stacks >>
       ELSE \E v \in {TermOperand(Token.op, Top)} :
            IF Failed(v) THEN Finish(v)
            ELSE /\ stacks' = Popped
                 /\ calls' = Resumed([in |-> "term_right", op |-> Token.op, left |-> v])
                 /\ cur' = cur + 1
                 /\ at' = "factor"
                 /\ Descend

(* term() after factor(): an operator takes the value pushed as its left   *)
(* operand and calls term() for everything to the right of it.             *)
AfterFactor ==
    /\ Returning("term")
    /\ IF ~TokenIn(TermOps)
       THEN calls' = Tail(calls) /\ Descend /\ UNCHANGED << cur, at, stacks >>
       ELSE \E v \in {TermOperand(Token.op, Top)} :
            IF Failed(v) THEN Finish(v)
            ELSE /\ stacks' = Popped
                 /\ calls' = Resumed([in |-> "term_right", op |-> Token.op, left |-> v])
                 /\ cur' = cur + 1
                 /\ at' = "term"
                 /\ Descend

(* An operand that fails to convert, or the result of the two.             *)
Applied(Operation(_, _, _), v) ==
    IF Failed(v) THEN v ELSE Operation(Caller.op, Caller.left, v)

AfterRightTerm ==
    /\ Returning("term_right")
    /\ \E v \in {Applied(TermResult, TermOperand(Caller.op, Top))} :
       IF Failed(v) THEN Finish(v)
       ELSE /\ stacks' = Replaced(v)
            /\ calls' = Tail(calls)
            /\ Descend /\ UNCHANGED << cur, at >>

(* The loop of expression(): while an operator follows, what is on the     *)
(* stack is the left operand of it and one more term.                      *)
AfterTerm ==
    /\ Returning("expression")
    /\ IF ~TokenIn(ExpressionOps)
       THEN calls' = Tail(calls) /\ Descend /\ UNCHANGED << cur, at, stacks >>
       ELSE \E v \in {ExpressionOperand(Top)} :
            IF Failed(v) THEN Finish(v)
            ELSE /\ stacks' = Popped
                 /\ calls' = Resumed([in |-> "expression_right", op |-> Token.op, left |-> v])
                 /\ cur' = cur + 1
                 /\ at' = "term"
                 /\ Descend

AfterNextTerm ==
    /\ Returning("expression_right")
    /\ \E v \in {Applied(ExpressionResult, ExpressionOperand(Top))} :
       IF Failed(v) THEN Finish(v)
       ELSE /\ stacks' = Replaced(v)
            /\ calls' = Resumed([in |-> "expression"])
            /\ Descend /\ UNCHANGED << cur, at >>

CloseParen ==
    /\ Returning("paren")
    /\ IF ~TokenIn({")"}) THEN Throw("invalid_expression")
       ELSE /\ cur' = cur + 1
            /\ calls' = Tail(calls)
            /\ Descend /\ UNCHANGED << at, stacks >>

(* An argument is complete; token_or_throw() wants a token after it.       *)
AfterArgument ==
    /\ Returning("function")
    /\ IF ~HasToken THEN Throw("invalid_expression")
       ELSE /\ calls' = Resumed([Caller EXCEPT !.expect_sep = TRUE])
            /\ at' = "arguments"
            /\ Descend /\ UNCHANGED << cur, stacks >>

(* As if the value on the stack were the result, whatever it is.           *)
ValueAsResult(v) == v

(* pop_result(): a reference becomes the result of the cell it names, the  *)
(* first cell of a range.  The result of an empty cell is 0.               *)
ResultOf(v) ==
    LET resultOfCell(a) == IF Cells[a].content.type = "empty" THEN Value(Zero)
                           ELSE Cells[a].content
    IN  CASE v.type = "single_ref" -> resultOfCell(v.address)
          [] v.type = "range_ref"  -> resultOfCell(v.range[1][1])
          [] OTHER -> v

(* interpret() after expression().                                         *)
EndInterpretation ==
    /\ at = "return" /\ calls = << >>
    /\ IF HasToken THEN Throw("no_error") ELSE Finish(ResultOf(Top))

-----------------------------------------------------------------------------

Next ==
    \/ ExpandToken \/ EnterName \/ LeaveName \/ StartInterpretation
    \/ EnterExpression \/ EnterTerm \/ Sign
    \/ Operand \/ OpenParen \/ OpenFunction \/ OpenArray \/ NoOperand
    \/ NextArgument \/ CallFunction \/ ArrayStep
    \/ Negate \/ AfterFactor \/ AfterRightTerm \/ AfterTerm \/ AfterNextTerm
    \/ CloseParen \/ AfterArgument \/ EndInterpretation

Spec == Init /\ [][Next]_vars /\ WF_vars(Next)

=============================================================================

---------------------------- MODULE FormulaGrammar ----------------------------
(***************************************************************************)
(* What Interpreter is checked against: the grammar that the comments of   *)
(* formula_interpreter.cpp give for each handler, with the value of every  *)
(* phrase, defined on the structure of the token string and not on the     *)
(* order the tokens are consumed in.                                       *)
(*                                                                         *)
(*   expression == <term> + <term> + ... + <term>           (line 1112)    *)
(*   term       == <factor> || <factor> op <term>           (line 1237)    *)
(*   factor     == [sign] <constant> || <error> || <variable> ||           *)
(*                 '(' <expression> ')' || <function>       (line 1324)    *)
(*   function   == <name> '(' <expression> ',' ... ')'       (line 1706)   *)
(*   array      == '{' <element> ',' or ';' <element> ... '}' (line 1531)   *)
(*                                                                         *)
(* The grammar below also has what the code accepts beyond the comments: a *)
(* separator after the last argument, an array without elements, with or   *)
(* without a sign in it, and a signed text in an array.                    *)
(***************************************************************************)
EXTENDS Interpreter, TLC

NoParse == [type |-> "no parse"]
Parses(m) == m.type # "no parse"

(* The values of an argument list.                                         *)
Arguments(vs) == [type |-> "arguments", values |-> vs]

(* The left operand is computed and converted before the right one.        *)
BothSides(l, r, Convert(_), Operation(_, _)) ==
    LET steps == << l, Convert(l), r, Convert(r) >>
    IN  IF \E k \in DOMAIN steps : Failed(steps[k]) THEN FirstFailure(steps)
        ELSE Operation(steps[2], steps[4])

(* A token string cut at every separator.                                  *)
Pieces(s, separator) ==
    LET cuts == SX!SetToSortSeq({0, Len(s) + 1} \cup { k \in DOMAIN s : s[k].op = separator }, <)
    IN  [n \in 1..(Len(cuts) - 1) |-> SubSeq(s, cuts[n] + 1, cuts[n + 1] - 1)]

(* The matrix between two braces.                                          *)
ArrayMeaning(s) ==
    LET rows == [n \in DOMAIN Pieces(s, ";") |-> Pieces(Pieces(s, ";")[n], ",")]
        literal(t) == t.op \in {"value", "string"}
        isElement(e) == \/ Len(e) = 1 /\ literal(e[1])
                        \/ Len(e) = 2 /\ e[1].op \in SignOps /\ literal(e[2])
        element(e) == IF e[1].op = "-" /\ e[2].op = "value"
                      THEN Value(Negated(e[2].value.number)) ELSE e[Len(e)].value
        isArray == \A n \in DOMAIN rows :
                      /\ Len(rows[n]) = Len(rows[1])
                      /\ \A k \in DOMAIN rows[n] : isElement(rows[n][k])
        noElement == Len(s) = 0 \/ (Len(s) = 1 /\ s[1].op \in SignOps)
    IN  CASE noElement -> Matrix(<< << >> >>)
          [] ~noElement /\ isArray -> 
               Matrix([n \in DOMAIN rows |-> [k \in DOMAIN rows[n] |-> element(rows[n][k])]])
          [] OTHER -> NoParse

SignedMeaning(sign, v) ==
    IF sign = "+" \/ ~Parses(v) \/ Failed(v) THEN v
    ELSE LET n == Numeric(v) IN IF Failed(n) THEN n ELSE Value(Negated(n.number))

CallMeaning(name, args) ==
    IF ~Parses(args) \/ Failed(args) THEN args ELSE Functions(name, args.values)

(* The value of the tokens i .. j - 1 of s as each kind of phrase, from    *)
(* the table T of what the shorter runs of tokens are.                     *)
NoPhrase == [operand |-> NoParse, factor |-> NoParse, term |-> NoParse,
             expression |-> NoParse, list |-> NoParse, arguments |-> Arguments(<< >>)]

(* Where an operator among ops cuts the run into two phrases.              *)
Splits(s, T, i, j, left, ops, right) ==
    { k \in (i + 1)..(j - 2) :
        s[k].op \in ops /\ Parses(T[i, k][left]) /\ Parses(T[k + 1, j][right]) }

OperandPhrase(s, T, i, j) ==
    CASE j = i + 1 -> IF s[i].op \in OperandOps THEN OperandValue(s[i]) ELSE NoParse
      [] s[i].op = "(" /\ s[j - 1].op = ")" -> T[i + 1, j - 1].expression
      [] s[i].op = "{" /\ s[j - 1].op = "}" -> ArrayMeaning(SubSeq(s, i + 1, j - 2))
      [] s[i].op = "function" /\ j > i + 2 /\ s[i + 1].op = "(" /\ s[j - 1].op = ")" ->
           CallMeaning(s[i].name, T[i + 2, j - 1].arguments)
      [] OTHER -> NoParse

TermPhrase(s, T, i, j, factor) ==
    LET ks == Splits(s, T, i, j, "factor", TermOps, "term")
    IN  IF ks = {} THEN factor
        ELSE LET k == CHOOSE k \in ks : TRUE
             IN  BothSides(T[i, k].factor, T[k + 1, j].term,
                           LAMBDA v : TermOperand(s[k].op, v),
                           LAMBDA a, b : TermResult(s[k].op, a, b))

ExpressionPhrase(s, T, i, j, term) ==
    LET ks == Splits(s, T, i, j, "expression", ExpressionOps, "term")
    IN  IF ks = {} THEN term
        ELSE LET k == CHOOSE k \in ks : TRUE
             IN  BothSides(T[i, k].expression, T[k + 1, j].term, ExpressionOperand,
                           LAMBDA a, b : ExpressionResult(s[k].op, a, b))

Appended(before, next) ==
    CASE Failed(before) -> before
      [] ~Failed(before) /\ (Failed(next) \/ ~Parses(next)) -> next
      [] OTHER -> Arguments(Append(before.values, next))

ListPhrase(s, T, i, j, expression) ==
    LET ks == Splits(s, T, i, j, "list", {","}, "expression")
    IN  IF ks = {} THEN Appended(Arguments(<< >>), expression)
        ELSE LET k == CHOOSE k \in ks : TRUE
             IN  Appended(T[i, k].list, T[k + 1, j].expression)

FactorPhrase(s, T, i, j, operand) ==
    IF s[i].op \in SignOps /\ j > i + 1 THEN SignedMeaning(s[i].op, T[i + 1, j].operand)
    ELSE operand

(* Each kind of phrase, by way of the simpler ones in p.                   *)
Phrase(kind, s, T, i, j, p) ==
    CASE kind = "operand"    -> OperandPhrase(s, T, i, j)
      [] kind = "factor"     -> FactorPhrase(s, T, i, j, p.operand)
      [] kind = "term"       -> TermPhrase(s, T, i, j, p.factor)
      [] kind = "expression" -> ExpressionPhrase(s, T, i, j, p.term)
      [] kind = "list"       -> ListPhrase(s, T, i, j, p.expression)
      [] kind = "arguments"  -> IF s[j - 1].op = "," /\ j > i + 1 THEN T[i, j - 1].list ELSE p.list

Phrases(s, T, i, j) ==
    SX!FoldLeft(LAMBDA p, kind : [p EXCEPT ![kind] = Phrase(kind, s, T, i, j, p)], NoPhrase,
             << "operand", "factor", "term", "expression", "list", "arguments" >>)

(* The table of a token string, built from the shortest runs to the        *)
(* longest.                                                                *)
PhraseTable(s) ==
    LET runs(n) == { r \in (1..(Len(s) + 1)) \X (1..(Len(s) + 1)) : r[2] = r[1] + n }
        longer(T, n) == T @@ [r \in runs(n) |-> Phrases(s, T, r[1], r[2])]
    IN  SX!FoldLeft(longer, [r \in runs(0) |-> NoPhrase], [n \in DOMAIN s |-> n])

Meaning(s) == PhraseTable(s)[1, Len(s) + 1].expression

(* A token string with every name replaced by its text in parentheses.     *)
Inserted(s, texts) ==
    SX!FlattenSeq([k \in DOMAIN s |->
      IF s[k].op # "name" \/ s[k].name \notin DOMAIN texts THEN << s[k] >>
      ELSE << [op |-> "("] >> \o texts[s[k].name] \o << [op |-> ")"] >>])

(* The texts of the names with n levels of names in them replaced; deep    *)
(* enough when no name leads back to itself.                               *)
NameTexts(names) ==
    LET S[n \in 0..Cardinality(DOMAIN names)] ==
            [m \in DOMAIN names |-> IF n = 0 THEN names[m] ELSE Inserted(names[m], S[n - 1])]
    IN  S
Substituted(formula, names) == Inserted(formula, NameTexts(names)[Cardinality(DOMAIN names)])

(* The names a formula leads to, and whether one leads back to itself.     *)
NamesIn(s) == { s[k].name : k \in { k \in DOMAIN s : s[k].op = "name" } }
NamesWithin(names, start) ==
    LET R[n \in 0..Cardinality(DOMAIN names)] ==
            IF n = 0 THEN start
            ELSE R[n - 1] \cup UNION { NamesIn(names[m]) : m \in R[n - 1] \cap DOMAIN names }
    IN  R[Cardinality(DOMAIN names)]
Circular(formula, names) ==
    \E m \in NamesWithin(names, NamesIn(formula)) \cap DOMAIN names :
        m \in NamesWithin(names, NamesIn(names[m]))

-----------------------------------------------------------------------------
(* Types                                                                   *)

(* The types of the state.                                                 *)
TypeOK ==
    /\ job \in Jobs
    /\ used_names \subseteq DOMAIN job.names
    /\ cur \in 1..(Len(tokens) + 1)
    /\ at \in {"expand", "expression", "term", "factor", "operand", "arguments", "array",
               "return", "done"}
    /\ \A k \in DOMAIN calls :
         calls[k].in \in {"expression", "expression_right", "term", "term_right", "negate",
                         "paren", "function", "array"}
    /\ stacks # << >>
    /\ \A k \in DOMAIN stacks : \A n \in DOMAIN stacks[k] : IsStackValue(stacks[k][n])
    /\ outcome.type \in {"unfinished", "value", "string", "boolean", "error", "matrix",
                         "thrown", "escaped"}
    /\ (at = "done") = (outcome # Unfinished)

-----------------------------------------------------------------------------
(* Safety                                                                  *)

(* The frames, counted from the outermost, those of function calls, and    *)
(* the value stack that belongs to one of them.                            *)
FrameAt(h) == calls[Len(calls) + 1 - h]
CalledFunctions == { h \in 1..Len(calls) : FrameAt(h).in = "function" }
StackOf(h) == stacks[Cardinality({ g \in CalledFunctions : g >= h })]

(* The class comment of formula_interpreter: one value is on the stack     *)
(* when a handler returns, more only among the arguments of a function.    *)
(* Every function that is being called has a stack of its own, the stack   *)
(* below them all holds nothing while a handler is at work and one value   *)
(* when it has returned, and a function that expects a separator has an    *)
(* argument.  The asserts of pop_result(), function() and pop_stack() are  *)
(* instances of this.                                                      *)
StackDiscipline ==
    at # "done" =>
      /\ Len(stacks) = 1 + Cardinality(CalledFunctions)
      /\ Len(stacks[Len(stacks)]) = IF at = "return" /\ CalledFunctions = {} THEN 1 ELSE 0
      /\ at = "return" => Stack # << >>
      /\ \A h \in CalledFunctions : FrameAt(h).expect_sep => StackOf(h) # << >>

(* What the descent computes is what the grammar says, for every token     *)
(* string: a string that is no phrase gives no result, and a phrase gives  *)
(* its value or the first error on the way to it.  It covers precedence,   *)
(* the side an operator binds to, which operand is converted first, signs, *)
(* argument lists and what is left over after the expression.              *)
FollowsGrammar ==
    at = "done" /\ Head(expanding) = << >> =>
      \A m \in {Meaning(tokens)} :
        CASE ~Parses(m) -> Failed(outcome)
          [] Parses(m)  -> outcome = IF Failed(m) THEN m ELSE ResultOf(m)

(* When init_tokens() is over, m_tokens is the formula with every name     *)
(* replaced, and the names it leads to are all known and not circular.     *)
NamesReplaced ==
    at \notin {"expand", "done"} =>
      /\ NamesWithin(job.names, NamesIn(job.formula)) \subseteq DOMAIN job.names
      /\ ~Circular(job.formula, job.names)
      /\ tokens = Substituted(job.formula, job.names)

(* A name is never expanded inside itself, so the recursion of             *)
(* expand_named_expression() is at most as deep as there are names.        *)
ExpansionBounded == Len(expanding) <= Cardinality(DOMAIN job.names) + 1

-----------------------------------------------------------------------------
(* Liveness                                                                *)

(* interpret() returns: every handler consumes a token or ends, whatever   *)
(* the tokens and the names are, and of the functions only SUBSTITUTE has  *)
(* arguments it does not return from: nothing to look for.                 *)
Terminates == <>(at = "done" \/ (InEndlessCall /\ Caller.name = "SUBSTITUTE"))

=============================================================================

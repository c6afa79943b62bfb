----------------------------- MODULE FunctionLaws -----------------------------
(***************************************************************************)
(* What the built-in functions are checked against, at every call that an  *)
(* interpretation makes: texts as sequences of characters, statistics by   *)
(* what they mean, and functions against one another.                      *)
(***************************************************************************)
EXTENDS Interpreter, FormulaFunctions

(* A function is about to be called, with these arguments.                 *)
Calling(functions) == at = "arguments" /\ TokenIn({")"}) /\ Caller.name \in functions
ArgumentsOfCall == [i \in DOMAIN Stack |-> Stack[Len(Stack) + 1 - i]]
ValueOf(f, args) == Functions(f, args)

-----------------------------------------------------------------------------
(* Texts                                                                   *)

(* A text cut before every byte that does not continue a character.        *)
IsText(v) == v.type = "string" /\ \A k \in DOMAIN v.text : v.text[k] < 248
CharactersOf(s) ==
    SX!FoldLeft(LAMBDA cs, b : IF b \in 128..191 /\ cs # << >>
                            THEN [cs EXCEPT ![Len(cs)] = Append(@, b)] ELSE Append(cs, << b >>),
             << >>, s)
Joining(cs) == Text(SX!FlattenSeq(cs))
Clipped(n, lowest, highest) == IF n < lowest THEN lowest ELSE IF n > highest THEN highest ELSE n

LeftLaw(cs, n)     == Joining(SubSeq(cs, 1, Clipped(n, 0, Len(cs))))
RightLaw(cs, n)    == Joining(SubSeq(cs, Len(cs) + 1 - Clipped(n, 0, Len(cs)), Len(cs)))
MidLaw(cs, i, n)   == Joining(SubSeq(cs, i, Clipped(i + n - 1, 0, Len(cs))))
ReplaceLaw(cs, i, n, new) ==
    Text(Joining(SubSeq(cs, 1, Clipped(i - 1, 0, Len(cs)))).text \o new
           \o Joining(SubSeq(cs, i + n, Len(cs))).text)
FindLaw(part, cs, i) ==
    LET places == { k \in i..(Len(cs) - Len(part) + 1) : SubSeq(cs, k, k + Len(part) - 1) = part }
    IN  IF i > Len(cs) \/ places = {} THEN InvalidValue
        ELSE Number(CHOOSE k \in places : \A j \in places : k <= j)

CharacterLaw(f, args, cs, n) ==
    CASE f = "LEN"   -> Number(Len(cs))
      [] f = "LEFT"  -> IF n[2] < 0 THEN InvalidValue ELSE LeftLaw(cs, n[2])
      [] f = "RIGHT" -> IF n[2] < 0 THEN InvalidValue ELSE RightLaw(cs, n[2])
      [] f = "MID"   -> IF n[2] < 1 \/ n[3] < 0 THEN InvalidValue ELSE MidLaw(cs, n[2], n[3])
      [] f = "REPLACE" ->
            IF n[2] < 1 \/ n[3] < 0 THEN InvalidValue
            ELSE ReplaceLaw(cs, n[2], n[3], args[4].text)
      [] f = "FIND"  -> IF n[3] < 1 THEN InvalidValue ELSE FindLaw(cs, CharactersOf(args[2].text), n[3])

(* The parameters that must be texts, and those that must be numbers; what *)
(* is left out is 1.                                                       *)
TextParameters   == [LEN |-> {1}, LEFT |-> {1}, RIGHT |-> {1}, MID |-> {1}, REPLACE |-> {1, 4}, FIND |-> {1, 2}]
NumberParameters == [LEN |-> {}, LEFT |-> {2}, RIGHT |-> {2}, MID |-> {2, 3}, REPLACE |-> {2, 3}, FIND |-> {3}]
AreTextAndNumbers(f, args) ==
    /\ ~Failed(ValueOf(f, args))
    /\ \A k \in DOMAIN args : \/ k \in TextParameters[f] /\ IsText(args[k])
                              \/ k \in NumberParameters[f] /\ args[k].type = "value"

(* LEN, LEFT, RIGHT, MID, REPLACE and FIND find their way through a text   *)
(* by the byte positions of its characters and switch between positions    *)
(* and counts, from 1 and from 0.  What they give is what the characters   *)
(* alone say, at the ends of the text and beyond them, for texts with      *)
(* characters of several bytes, and a character is never split.            *)
CharactersCounted ==
    Calling(DOMAIN TextParameters) =>
      \A args \in {ArgumentsOfCall} :
        AreTextAndNumbers(Caller.name, args) =>
          ValueOf(Caller.name, args) =
            CharacterLaw(Caller.name, args, CharactersOf(args[1].text),
                         [k \in 2..3 |-> IF k \in DOMAIN args /\ k \in NumberParameters[Caller.name]
                                         THEN Floor(args[k].number) ELSE 1])

-----------------------------------------------------------------------------
(* Statistics                                                              *)

AtMost(p, q) == ~Below(q, p)
HowMany(s, Test(_)) == Cardinality({ k \in DOMAIN s : Test(s[k]) })
Numeric_(args) == SX!FlattenSeq([i \in DOMAIN args |-> AppendedValues(args[i])])

ExtremeLaw(op, args, q) ==
    /\ \E k \in DOMAIN args : Numeric(args[k]).number = q
    /\ \A k \in DOMAIN args : ~NumberHolds(op, Numeric(args[k]).number, q)

MedianLaw(s, q) ==
    \E l, h \in DOMAIN s :
      /\ Operate("+", s[l], s[h]).number = Operate("+", q, q).number
      /\ 2 * HowMany(s, LAMBDA p : AtMost(p, s[l])) >= Len(s)
      /\ 2 * HowMany(s, LAMBDA p : AtMost(s[h], p)) >= Len(s)
      /\ 2 * HowMany(s, LAMBDA p : Below(p, s[l])) < Len(s)
      /\ 2 * HowMany(s, LAMBDA p : Below(s[h], p)) < Len(s)
      /\ AtMost(s[l], s[h])

ModeLaw(s, q) ==
    /\ HowMany(s, LAMBDA p : p = q) > 1
    /\ \A k \in DOMAIN s :
         \/ HowMany(s, LAMBDA p : p = s[k]) < HowMany(s, LAMBDA p : p = q)
         \/ HowMany(s, LAMBDA p : p = s[k]) = HowMany(s, LAMBDA p : p = q) /\ AtMost(q, s[k])

StatisticLaw(f, args, q) ==
    CASE f = "MAX"     -> ExtremeLaw(">", args, q)
      [] f = "MIN"     -> ExtremeLaw("<", args, q)
      [] f = "MEDIAN"  -> MedianLaw(Numeric_(args), q)
      [] f = "MODE"    -> ModeLaw(Numeric_(args), q)
      [] f = "AVERAGE" ->
            Value(Operate("*", q, << Len(PoppedNumbers(args)), 1 >>).number) = ValueOf("SUM", args)

(* MAX and MIN are among the arguments and beyond all of them, the median  *)
(* is in the middle of the numbers, the mode is the smallest of the most   *)
(* frequent ones although the comparison that sorts them is no order, and  *)
(* the average is the sum spread over the cells and arguments.             *)
Statistics ==
    Calling({"MAX", "MIN", "MEDIAN", "MODE", "AVERAGE"}) =>
      \A args \in {ArgumentsOfCall} : \A v \in {ValueOf(Caller.name, args)} :
        v.type = "value" => StatisticLaw(Caller.name, args, v.number)

-----------------------------------------------------------------------------
(* Truth values                                                            *)

TruthValues(v) ==
    IF IsReference(v)
    THEN { Truth(Cells[a].content) :
             a \in { b \in UNION { { Rows(v)[i][j] : j \in DOMAIN Rows(v)[i] } : i \in DOMAIN Rows(v) } :
                       IsLogical(Cells[b].content) } }
    ELSE IF v.type = "value" THEN {Truth(v)} ELSE {}

(* No column of the range has two formula cells.                           *)
SparseFormulas(v) ==
    v.type = "range_ref" =>
      \A j \in DOMAIN v.range[1] : Cardinality({ i \in DOMAIN v.range : Cells[v.range[i][j]].formula }) <= 1

AllTruthValues(args) == UNION { TruthValues(args[k]) : k \in DOMAIN args }

(* AND and OR walk their ranges block by block and stop when they have     *)
(* decided.  OR is true exactly if one of the truth values is; AND is      *)
(* false only if one of them is false, and true only if all of them are,   *)
(* as long as no column of a range has two formula cells: of those AND     *)
(* sees the last.                                                          *)
JunctionsByTruth ==
    Calling({"AND", "OR"}) =>
      \A args \in {ArgumentsOfCall} : \A v \in {ValueOf(Caller.name, args)} :
        v.type = "boolean" =>
          IF Caller.name = "OR" THEN v.boolean <=> TRUE \in AllTruthValues(args)
          ELSE /\ ~v.boolean => FALSE \in AllTruthValues(args)
               /\ v.boolean /\ (\A k \in DOMAIN args : SparseFormulas(args[k]))
                    => FALSE \notin AllTruthValues(args)

-----------------------------------------------------------------------------
(* Questions                                                               *)

Yes(f, args) == ValueOf(f, args) = Boolean(TRUE)

(* The questions one can ask about one argument fit together, although     *)
(* each function looks at the stack value or at the cell by its own way:   *)
(* at most one of the kinds, a number is counted, a text by COUNTA alone,  *)
(* what ISERR knows or is missing is an error, an error that is neither is *)
(* an internal one, and what is blank is not counted.                      *)
QuestionsAgree ==
    Calling({"ISERR", "ISNA", "ISTEXT", "ISNUMBER", "TYPE"}) =>
      \A args \in {ArgumentsOfCall} :
        Len(args) = 1 =>
          /\ Cardinality({ f \in {"ISNUMBER", "ISTEXT", "ISLOGICAL", "ISERROR"} : Yes(f, args) }) <= 1
          /\ Yes("ISNONTEXT", args) <=> ~Yes("ISTEXT", args)
          /\ Yes("ISERR", args) \/ Yes("ISNA", args) => Yes("ISERROR", args)
          /\ Yes("ISERROR", args) => \/ Yes("ISERR", args) \/ Yes("ISNA", args)
                                     \/ ErrorIn(args[1]) \in {"no_error"} \cup InternalErrors
          /\ ~(Yes("ISERR", args) /\ Yes("ISNA", args))
          /\ Yes("ISNUMBER", args) => ValueOf("COUNT", args) = Number(1)
          /\ Yes("ISTEXT", args) => /\ ValueOf("COUNTA", args) = Number(1)
                                    /\ ValueOf("COUNT", args) = Number(0)
          /\ ValueOf("TYPE", args) = Number(16) <=> Yes("ISERROR", args)
          /\ ValueOf("TYPE", args) = Number(2) <=> Yes("ISTEXT", args)
          /\ Yes("ISBLANK", args) =>
               /\ ValueOf("COUNTA", args) = Number(0)
               /\ Failed(ValueOf("COUNTBLANK", args)) \/ ValueOf("COUNTBLANK", args) # Number(0)

=============================================================================

-------------------------- MODULE InterpreterProofs --------------------------
(***************************************************************************)
(* Theorems about Interpreter, for every set of formulas, names and cells: *)
(* the expansion of names is no deeper than there are names and replaces   *)
(* each by its text (ExpansionIsBounded, NamesAreReplaced), the descent    *)
(* keeps its value stacks in order, whatever values are on them            *)
(* (StacksInOrder), the stacks hold values and the functions of            *)
(* formula_functions.cpp give some (TypesOfBuiltInFunctions), and what AND *)
(* and OR (JunctionsAreByTruth) and the questions about an argument        *)
(* (QuestionsAreAgreed) give is what FunctionLaws says.                    *)
(***************************************************************************)
EXTENDS FormulaGrammar, FunctionLaws, SequenceTheorems, FiniteSetTheorems, WellFoundedInduction, TLAPS

-----------------------------------------------------------------------------
(***************************************************************************)
(* Sequences of whatever elements.                                         *)
(***************************************************************************)

IsSequence(s) == \E S : s \in Seq(S)

\* An element in front of a sequence.
LEMMA ConsFacts ==
  ASSUME NEW s, IsSequence(s), NEW e
  PROVE  /\ IsSequence(<< e >> \o s)
         /\ Len(<< e >> \o s) = Len(s) + 1
         /\ (<< e >> \o s)[1] = e
         /\ \A k \in 1..Len(s) : (<< e >> \o s)[k + 1] = s[k]
<1>1. PICK S : s \in Seq(S)
  BY DEF IsSequence
<1> DEFINE T == S \cup {e}
<1>2. s \in Seq(T) /\ << e >> \in Seq(T)
  BY <1>1
<1>3. << e >> \o s \in Seq(T)
  BY <1>2
<1> HIDE DEF T
<1>4. IsSequence(<< e >> \o s)
  BY <1>3 DEF IsSequence
<1> QED
  BY <1>2, <1>4

\* A sequence without its first element.
LEMMA TailFacts ==
  ASSUME NEW s, IsSequence(s), s # << >>
  PROVE  /\ Head(s) = s[1]
         /\ IsSequence(Tail(s))
         /\ Len(s) \in Nat \ {0}
         /\ Len(Tail(s)) = Len(s) - 1
         /\ \A k \in 1..(Len(s) - 1) : Tail(s)[k] = s[k + 1]
<1>1. PICK S : s \in Seq(S)
  BY DEF IsSequence
<1>2. Tail(s) \in Seq(S)
  BY <1>1
<1>3. IsSequence(Tail(s))
  BY <1>2 DEF IsSequence
<1> QED
  BY <1>1, <1>3

\* A sequence with another first element.
LEMMA ReplaceFacts ==
  ASSUME NEW s, IsSequence(s), NEW e
  PROVE  /\ IsSequence([s EXCEPT ![1] = e])
         /\ Len([s EXCEPT ![1] = e]) = Len(s)
         /\ s # << >> => [s EXCEPT ![1] = e][1] = e
         /\ \A k \in 2..Len(s) : [s EXCEPT ![1] = e][k] = s[k]
<1>1. PICK S : s \in Seq(S)
  BY DEF IsSequence
<1> DEFINE T == S \cup {e}
           t == [s EXCEPT ![1] = e]
<1>2. Len(s) \in Nat /\ DOMAIN s = 1..Len(s) /\ s \in [1..Len(s) -> S]
  BY <1>1
<1>3. t \in [1..Len(s) -> T]
  BY <1>2
<1>4. t \in Seq(T)
  BY <1>2, <1>3
<1>5. DOMAIN t = 1..Len(s)
  BY <1>2
<1>6. Len(t) = Len(s)
  BY <1>2, <1>4, <1>5, LenProperties
<1>7. IsSequence(t)
  BY <1>4 DEF IsSequence
<1>8. s # << >> => 1 \in DOMAIN s
  BY <1>1
<1> QED
  BY <1>2, <1>6, <1>7, <1>8

\* Of an empty sequence and of any other.
LEMMA LenFacts ==
  ASSUME NEW s, IsSequence(s)
  PROVE  /\ Len(s) \in Nat /\ DOMAIN s = 1..Len(s)
         /\ (s = << >>) = (Len(s) = 0)
<1>1. PICK S : s \in Seq(S)
  BY DEF IsSequence
<1> QED
  BY <1>1
-----------------------------------------------------------------------------
(***************************************************************************)
(* The expansion of names.                                                 *)
(***************************************************************************)

\* Names are expanded inside the formula, each of them used, and no two of
\* those that are being expanded are the same: what the set of used names is
\* for in expand_named_expression().
ExpansionInv ==
  /\ job \in Jobs
  /\ IsSequence(expanding) /\ expanding # << >>
  /\ used_names \subseteq DOMAIN job.names
  /\ Len(expanding) - 1 <= Cardinality(used_names)

LEMMA ExpansionStarts == Init => ExpansionInv
<1> SUFFICES ASSUME Init PROVE ExpansionInv
  OBVIOUS
<1>1. expanding \in Seq({job.formula}) /\ expanding # << >> /\ Len(expanding) = 1
  BY DEF Init
<1>2. IsSequence(expanding)
  BY <1>1 DEF IsSequence
<1>3. Cardinality({}) = 0
  BY FS_EmptySet
<1> QED
  BY <1>1, <1>2, <1>3 DEF Init, ExpansionInv

\* A name that is entered is free, unless it is one of the formula's own.
LEMMA EnterNameKeepsExpansion ==
  ExpansionInv /\ EnterName => ExpansionInv'
<1> SUFFICES ASSUME ExpansionInv, EnterName PROVE ExpansionInv'
  OBVIOUS
<1> DEFINE name == NextSource.name
<1>1. CASE UNCHANGED << job, expanding, used_names >>
  BY <1>1 DEF ExpansionInv
<1>2. CASE ~UNCHANGED << job, expanding, used_names >>
  <2>1. /\ NameIsFree(name) /\ name \in DOMAIN job.names
        /\ used_names' = used_names \cup {name}
        /\ expanding' = << job.names[name] >> \o RestOfSource
        /\ job' = job
    BY <1>2 DEF EnterName, Throw, Finish
  <2> HIDE DEF name
  <2>2. IsSequence(RestOfSource) /\ Len(RestOfSource) = Len(expanding)
    BY ReplaceFacts DEF ExpansionInv, RestOfSource
  <2>3. IsSequence(expanding') /\ Len(expanding') = Len(expanding) + 1
    BY <2>1, <2>2, ConsFacts
  <2>4. IsFiniteSet(used_names) /\ Cardinality(used_names) \in Nat
    BY JobsAssumption, FS_Subset, FS_CardinalityType DEF ExpansionInv
  <2>5. Len(expanding) \in Nat /\ Len(expanding') \in Nat
    BY <2>3, LenFacts DEF ExpansionInv
  <2>6. Len(expanding') - 1 <= Cardinality(used_names')
    <3>1. CASE name \notin used_names
      <4>1. Cardinality(used_names') = Cardinality(used_names) + 1
        BY <2>1, <2>4, <3>1, FS_AddElement
      <4> QED
        BY <2>3, <2>4, <2>5, <4>1 DEF ExpansionInv
    <3>2. CASE name \in used_names
      <4>1. Len(expanding) = 1
        BY <2>1, <3>2 DEF NameIsFree, AtTopLevel
      <4>2. Cardinality(used_names) # 0
        BY <2>4, <3>2, FS_EmptySet
      <4>3. used_names' = used_names
        BY <2>1, <3>2
      <4> QED
        BY <2>3, <2>4, <4>1, <4>2, <4>3
    <3> QED
      BY <3>1, <3>2
  <2>7. expanding' # << >>
    BY <2>3, <2>5, LenFacts
  <2> QED
    BY <2>1, <2>3, <2>6, <2>7 DEF ExpansionInv
<1> QED
  BY <1>1, <1>2

\* Whatever else happens, no frame is added.
LEMMA ExpansionStep == ExpansionInv /\ [Next]_vars => ExpansionInv'
<1> SUFFICES ASSUME ExpansionInv, [Next]_vars PROVE ExpansionInv'
  OBVIOUS
<1>1. CASE UNCHANGED << job, expanding, used_names >>
  BY <1>1 DEF ExpansionInv
<1>2. CASE ExpandToken
  <2>1. IsSequence(expanding') /\ Len(expanding') = Len(expanding)
    BY <1>2, ReplaceFacts DEF ExpandToken, RestOfSource, ExpansionInv
  <2>2. expanding' # << >>
    BY <2>1, LenFacts DEF ExpansionInv
  <2> QED
    BY <1>2, <2>1, <2>2 DEF ExpandToken, ExpansionInv
<1>3. CASE EnterName
  BY <1>3, EnterNameKeepsExpansion
<1>4. CASE LeaveName
  <2>1. expanding' = Tail(expanding) /\ Len(expanding) # 1 /\ UNCHANGED << job, used_names >>
    BY <1>4 DEF LeaveName, AtTopLevel
  <2>2. /\ IsSequence(expanding') /\ Len(expanding) \in Nat \ {0}
        /\ Len(expanding') = Len(expanding) - 1
    BY <2>1, TailFacts DEF ExpansionInv
  <2>3. expanding' # << >>
    BY <2>1, <2>2, LenFacts
  <2>4. Cardinality(used_names) \in Nat
    BY JobsAssumption, FS_Subset, FS_CardinalityType DEF ExpansionInv
  <2> QED
    BY <2>1, <2>2, <2>3, <2>4 DEF ExpansionInv
<1>5. CASE UNCHANGED vars
  BY <1>1, <1>5 DEF vars
<1>6. ASSUME StartInterpretation PROVE UNCHANGED << job, expanding, used_names >>
  BY <1>6 DEF StartInterpretation, Throw, Finish
<1>7. ASSUME EnterExpression \/ EnterTerm \/ Sign
      PROVE  UNCHANGED << job, expanding, used_names >>
  BY <1>7 DEF EnterExpression, EnterTerm, Sign, Descend, Throw, Finish
<1>8. ASSUME Operand \/ OpenParen \/ OpenFunction \/ OpenArray \/ NoOperand
      PROVE  UNCHANGED << job, expanding, used_names >>
  BY <1>8 DEF Operand, OpenParen, OpenFunction, OpenArray, NoOperand, Descend, Throw, Finish
<1>9. ASSUME NextArgument \/ CallFunction \/ ArrayStep
      PROVE  UNCHANGED << job, expanding, used_names >>
  BY <1>9 DEF NextArgument, CallFunction, ArrayStep, Descend, Throw, Finish
<1>10. ASSUME Negate \/ AfterFactor \/ AfterRightTerm
       PROVE  UNCHANGED << job, expanding, used_names >>
  BY <1>10 DEF Negate, AfterFactor, AfterRightTerm, Descend, Throw, Finish
<1>11. ASSUME AfterTerm \/ AfterNextTerm \/ CloseParen \/ AfterArgument \/ EndInterpretation
       PROVE  UNCHANGED << job, expanding, used_names >>
  BY <1>11 DEF AfterTerm, AfterNextTerm, CloseParen, AfterArgument, EndInterpretation,
               Descend, Throw, Finish
<1> QED
  BY <1>1, <1>2, <1>3, <1>4, <1>5, <1>6, <1>7, <1>8, <1>9, <1>10, <1>11 DEF Next

\* expand_named_expression() calls itself at most once for every name there
\* is, however the named expressions refer to each other, circles included.
THEOREM ExpansionIsBounded == Spec => []ExpansionBounded
<1>1. ExpansionInv => ExpansionBounded
  <2> SUFFICES ASSUME ExpansionInv PROVE ExpansionBounded
    OBVIOUS
  <2>1. IsFiniteSet(DOMAIN job.names)
    BY JobsAssumption DEF ExpansionInv
  <2>2. /\ Cardinality(used_names) <= Cardinality(DOMAIN job.names)
        /\ Cardinality(used_names) \in Nat /\ Cardinality(DOMAIN job.names) \in Nat
    BY <2>1, FS_Subset, FS_CardinalityType DEF ExpansionInv
  <2>3. Len(expanding) \in Nat
    BY LenFacts DEF ExpansionInv
  <2> QED
    BY <2>2, <2>3 DEF ExpansionInv, ExpansionBounded
<1> QED
  BY <1>1, ExpansionStarts, ExpansionStep, PTL DEF Spec
-----------------------------------------------------------------------------
(***************************************************************************)
(* The frames of the descent and the value stacks.  c stands for calls, st *)
(* for stacks and a for at.                                                *)
(***************************************************************************)

\* The heights of the frames of function calls, the outermost frame is at 1.
FramesOf(c) == { h \in 1..Len(c) : c[Len(c) + 1 - h].in = "function" }

IsAFrame(f) == "in" \in DOMAIN f /\ (f.in = "function" => "expect_sep" \in DOMAIN f)
Expects(f) == f.in = "function" /\ f.expect_sep

\* No function waits for a separator.
Quiet(c) == \A k \in 1..Len(c) : ~Expects(c[k])

\* Only the innermost function may wait for a separator, and only at its
\* arguments, of which there is one by then.
InOrder(c, st, a) ==
  /\ IsSequence(c) /\ \A k \in 1..Len(c) : IsAFrame(c[k])
  /\ IsSequence(st) /\ \A k \in 1..Len(st) : IsSequence(st[k])
  /\ Len(st) = 1 + Cardinality(FramesOf(c))
  /\ Len(st[Len(st)]) = IF a = "return" /\ FramesOf(c) = {} THEN 1 ELSE 0
  /\ a = "return" => st[1] # << >>
  /\ Quiet(c) \/ (a = "arguments" /\ st[1] # << >>)
  /\ \A k \in 2..Len(c) : ~Expects(c[k])

\* The handlers of argument and array loops find their own frame.
DescentInv ==
  at # "done" =>
    /\ InOrder(calls, stacks, at)
    /\ at = "arguments" => calls # << >> /\ Caller.in = "function"
    /\ at = "array" => calls # << >> /\ Caller.in = "array"

\* Frames are finitely many.
LEMMA FrameCount ==
  ASSUME NEW c, IsSequence(c)
  PROVE  /\ IsFiniteSet(FramesOf(c)) /\ Cardinality(FramesOf(c)) \in Nat
         /\ (Cardinality(FramesOf(c)) = 0) = (FramesOf(c) = {})
<1>1. FramesOf(c) \subseteq 1..Len(c) /\ Len(c) \in Nat
  BY LenFacts DEF FramesOf
<1>2. IsFiniteSet(1..Len(c))
  BY <1>1, FS_Interval
<1>3. IsFiniteSet(FramesOf(c))
  BY <1>1, <1>2, FS_Subset
<1> QED
  BY <1>3, FS_CardinalityType, FS_EmptySet

\* A frame in front of the others is above them.
LEMMA FramesCons ==
  ASSUME NEW c, IsSequence(c), NEW f
  PROVE  /\ f.in # "function" => FramesOf(<< f >> \o c) = FramesOf(c)
         /\ f.in = "function" =>
              /\ FramesOf(<< f >> \o c) # {}
              /\ Cardinality(FramesOf(<< f >> \o c)) = Cardinality(FramesOf(c)) + 1
<1> DEFINE d == << f >> \o c
           top == Len(c) + 1
<1>1. /\ IsSequence(d) /\ Len(d) = Len(c) + 1 /\ d[1] = f
      /\ \A k \in 1..Len(c) : d[k + 1] = c[k]
  BY ConsFacts
<1>2. Len(c) \in Nat /\ top \notin FramesOf(c)
  BY <1>1, LenFacts DEF FramesOf
<1> HIDE DEF d
<1>3. \A h \in 1..Len(c) : d[Len(d) + 1 - h] = c[Len(c) + 1 - h]
  <2> SUFFICES ASSUME NEW h \in 1..Len(c) PROVE d[Len(d) + 1 - h] = c[Len(c) + 1 - h]
    OBVIOUS
  <2>1. Len(c) + 1 - h \in 1..Len(c) /\ Len(d) + 1 - h = (Len(c) + 1 - h) + 1
    BY <1>1, <1>2
  <2> QED
    BY <1>1, <2>1
<1>4. d[Len(d) + 1 - top] = f
  BY <1>1, <1>2
<1>5. FramesOf(d) = IF f.in = "function" THEN FramesOf(c) \cup {top} ELSE FramesOf(c)
  <2>1. \A h : h \in 1..Len(d) <=> h \in 1..Len(c) \/ h = top
    BY <1>1, <1>2
  <2> QED
    BY <1>3, <1>4, <2>1 DEF FramesOf
<1>6. Cardinality(FramesOf(c) \cup {top}) = Cardinality(FramesOf(c)) + 1
  BY <1>2, FrameCount, FS_AddElement
<1> QED
  BY <1>5, <1>6 DEF d

\* Without its first frame.
LEMMA FramesTail ==
  ASSUME NEW c, IsSequence(c), c # << >>
  PROVE  /\ IsSequence(Tail(c)) /\ Len(Tail(c)) = Len(c) - 1 /\ Len(c) \in Nat \ {0}
         /\ \A k \in 1..(Len(c) - 1) : Tail(c)[k] = c[k + 1]
         /\ c[1].in # "function" => FramesOf(Tail(c)) = FramesOf(c)
         /\ c[1].in = "function" =>
              /\ FramesOf(c) # {}
              /\ Cardinality(FramesOf(c)) = Cardinality(FramesOf(Tail(c))) + 1
<1>1. /\ IsSequence(Tail(c)) /\ Len(c) \in Nat \ {0} /\ Len(Tail(c)) = Len(c) - 1
      /\ \A k \in 1..(Len(c) - 1) : Tail(c)[k] = c[k + 1]
  BY TailFacts
<1>2. c = << c[1] >> \o Tail(c)
  <2>1. PICK S : c \in Seq(S)
    BY DEF IsSequence
  <2> QED
    BY <2>1
<1> DEFINE d == << c[1] >> \o Tail(c)
<1>3. /\ c[1].in # "function" => FramesOf(d) = FramesOf(Tail(c))
      /\ c[1].in = "function" =>
           /\ FramesOf(d) # {}
           /\ Cardinality(FramesOf(d)) = Cardinality(FramesOf(Tail(c))) + 1
  BY <1>1, FramesCons
<1> HIDE DEF d
<1>4. c = d
  BY <1>2 DEF d
<1> QED
  BY <1>1, <1>3, <1>4

\* The elements of a sequence with one more in front, and without the first.
LEMMA ConsElements ==
  ASSUME NEW s, IsSequence(s), NEW e, NEW k \in 1..Len(<< e >> \o s)
  PROVE  \/ k = 1 /\ (<< e >> \o s)[k] = e
         \/ k # 1 /\ k - 1 \in 1..Len(s) /\ (<< e >> \o s)[k] = s[k - 1]
<1>1. /\ Len(<< e >> \o s) = Len(s) + 1 /\ (<< e >> \o s)[1] = e /\ Len(s) \in Nat
      /\ \A j \in 1..Len(s) : (<< e >> \o s)[j + 1] = s[j]
  BY ConsFacts, LenFacts
<1>2. CASE k # 1
  <2>1. k - 1 \in 1..Len(s) /\ (k - 1) + 1 = k
    BY <1>1, <1>2
  <2> QED
    BY <1>1, <1>2, <2>1
<1> QED
  BY <1>1, <1>2

\* A handler calls another one.
LEMMA PushFrame ==
  ASSUME NEW c, NEW st, NEW a, InOrder(c, st, a), Quiet(c),
         NEW f, IsAFrame(f), f.in # "function",
         NEW b, (b = "return") = (a = "return")
  PROVE  InOrder(<< f >> \o c, st, b) /\ Quiet(<< f >> \o c)
<1> DEFINE d == << f >> \o c
<1>1. IsSequence(d) /\ FramesOf(d) = FramesOf(c)
  BY ConsFacts, FramesCons DEF InOrder
<1>2. ASSUME NEW k \in 1..Len(d) PROVE IsAFrame(d[k]) /\ ~Expects(d[k])
  BY <1>2, ConsElements DEF InOrder, Quiet, Expects
<1>3. \A k \in 2..Len(d) : k \in 1..Len(d)
  BY <1>1, LenFacts
<1> QED
  BY <1>1, <1>2, <1>3 DEF InOrder, Quiet

\* A handler returns to its caller.
LEMMA PopFrame ==
  ASSUME NEW c, NEW st, NEW a, InOrder(c, st, a), c # << >>, c[1].in # "function"
  PROVE  InOrder(Tail(c), st, a) /\ Quiet(Tail(c))
<1>1. /\ IsSequence(Tail(c)) /\ FramesOf(Tail(c)) = FramesOf(c)
      /\ Len(Tail(c)) = Len(c) - 1 /\ Len(c) \in Nat \ {0}
      /\ \A k \in 1..(Len(c) - 1) : Tail(c)[k] = c[k + 1]
  BY FramesTail DEF InOrder
<1>2. ASSUME NEW k \in 1..Len(Tail(c)) PROVE IsAFrame(Tail(c)[k]) /\ ~Expects(Tail(c)[k])
  <2>1. k + 1 \in 1..Len(c) /\ k + 1 \in 2..Len(c) /\ Tail(c)[k] = c[k + 1]
    BY <1>1
  <2> QED
    BY <2>1 DEF InOrder
<1>3. \A k \in 2..Len(Tail(c)) : k \in 1..Len(Tail(c))
  BY <1>1
<1> QED
  BY <1>1, <1>2, <1>3 DEF InOrder, Quiet

\* A handler goes on with another frame in the place of its own.
LEMMA ResumeFrame ==
  ASSUME NEW c, NEW st, NEW a, InOrder(c, st, a), c # << >>, c[1].in # "function",
         NEW f, IsAFrame(f), f.in # "function"
  PROVE  InOrder(<< f >> \o Tail(c), st, a) /\ Quiet(<< f >> \o Tail(c))
BY PopFrame, PushFrame

\* A handler enters another one, in the same frame.
LEMMA EnterHandler ==
  ASSUME NEW c, NEW st, NEW a, InOrder(c, st, a), Quiet(c),
         NEW b, (b = "return") = (a = "return")
  PROVE  InOrder(c, st, b)
BY DEF InOrder

\* The bottom of the stacks is the first of them when no function is called,
\* and another one otherwise.
LEMMA Bottom ==
  ASSUME NEW c, NEW st, NEW a, InOrder(c, st, a)
  PROVE  /\ Len(st) \in Nat \ {0} /\ st # << >> /\ IsSequence(st[1]) /\ Len(st[1]) \in Nat
         /\ FramesOf(c) = {} => Len(st) = 1
         /\ FramesOf(c) # {} => Len(st) # 1
<1>1. Len(st) \in Nat \ {0}
  BY FrameCount, LenFacts DEF InOrder
<1>2. st # << >>
  BY <1>1, LenFacts DEF InOrder
<1>3. IsSequence(st[1]) /\ Len(st[1]) \in Nat
  BY <1>1, LenFacts DEF InOrder
<1> QED
  BY <1>1, <1>2, <1>3, FrameCount DEF InOrder

\* Another first stack, with one value more or one value less.
LEMMA ChangeStack ==
  ASSUME NEW c, NEW st, NEW a, InOrder(c, st, a), Quiet(c), NEW t, IsSequence(t), NEW b,
         b = "return" => t # << >>,
         b = "return" /\ FramesOf(c) = {} => Len(t) = 1,
         b # "return" /\ FramesOf(c) = {} => Len(t) = 0
  PROVE  InOrder(c, [st EXCEPT ![1] = t], b)
<1> DEFINE s == [st EXCEPT ![1] = t]
<1>1. /\ IsSequence(s) /\ Len(s) = Len(st) /\ s[1] = t
      /\ \A k \in 2..Len(st) : s[k] = st[k]
  <2>1. st # << >>
    BY Bottom
  <2>2. IsSequence(st)
    BY DEF InOrder
  <2> QED
    BY <2>1, <2>2, ReplaceFacts
<1> HIDE DEF s
<1>2. Len(st) \in Nat \ {0}
  BY Bottom
<1>3. ASSUME NEW k \in 1..Len(s) PROVE IsSequence(s[k])
  <2>1. k = 1 \/ k \in 2..Len(st)
    BY <1>1, <1>2
  <2>2. k \in 1..Len(st)
    BY <1>1
  <2> QED
    BY <1>1, <2>1, <2>2 DEF InOrder
<1>4. Len(s[Len(s)]) = IF b = "return" /\ FramesOf(c) = {} THEN 1 ELSE 0
  <2>1. CASE FramesOf(c) = {}
    BY <1>1, <2>1, Bottom
  <2>2. CASE FramesOf(c) # {}
    <3>1. Len(st) # 1
      BY <2>2, Bottom
    <3>2. Len(st) \in 2..Len(st)
      <4> DEFINE n == Len(st)
      <4>1. n \in Nat \ {0} /\ n # 1
        BY <1>2, <3>1
      <4> HIDE DEF n
      <4>2. n \in 2..n
        BY <4>1
      <4> QED
        BY <4>2 DEF n
    <3> QED
      BY <1>1, <2>2, <3>2 DEF InOrder
  <2> QED
    BY <2>1, <2>2
<1> QED
  BY <1>1, <1>3, <1>4 DEF InOrder, s

\* function() opens a stack for the arguments.
LEMMA OpenStack ==
  ASSUME NEW c, NEW st, NEW a, InOrder(c, st, a), Quiet(c), a # "return",
         NEW f, IsAFrame(f), f.in = "function", ~f.expect_sep, NEW b, b # "return"
  PROVE  InOrder(<< f >> \o c, << << >> >> \o st, b)
<1> DEFINE d == << f >> \o c
           s == << << >> >> \o st
<1>1. /\ IsSequence(d) /\ FramesOf(d) # {}
      /\ Cardinality(FramesOf(d)) = Cardinality(FramesOf(c)) + 1
  BY ConsFacts, FramesCons DEF InOrder
<1>2. ASSUME NEW k \in 1..Len(d) PROVE IsAFrame(d[k]) /\ ~Expects(d[k])
  BY <1>2, ConsElements DEF InOrder, Quiet, Expects
<1>3. \A k \in 2..Len(d) : k \in 1..Len(d)
  BY <1>1, LenFacts
<1>4. /\ IsSequence(s) /\ Len(s) = Len(st) + 1
      /\ \A k \in 1..Len(st) : s[k + 1] = st[k]
  BY ConsFacts DEF InOrder
<1>5. IsSequence(<< >>)
  <2>1. << >> \in Seq({})
    OBVIOUS
  <2> QED
    BY <2>1 DEF IsSequence
<1>6. ASSUME NEW k \in 1..Len(s) PROVE IsSequence(s[k])
  BY <1>5, <1>6, ConsElements DEF InOrder
<1>7. Len(st) \in Nat \ {0}
  BY Bottom
<1> HIDE DEF d, s
<1>8. Len(s[Len(s)]) = 0
  <2>1. s[Len(s)] = st[Len(st)]
    BY <1>4, <1>7
  <2> QED
    BY <2>1 DEF InOrder
<1>9. Len(s) = 1 + Cardinality(FramesOf(d))
  BY <1>1, <1>4, FrameCount DEF InOrder
<1> QED
  BY <1>1, <1>2, <1>3, <1>4, <1>6, <1>8, <1>9 DEF InOrder, Quiet, d, s

\* A function call ends: its stack goes, its value is on the one below.
LEMMA CloseStack ==
  ASSUME NEW c, NEW st, NEW a, InOrder(c, st, a), a # "return",
         c # << >>, c[1].in = "function", NEW v
  PROVE  InOrder(Tail(c), << << v >> \o st[2] >> \o Tail(Tail(st)), "return")
<1> DEFINE d == Tail(c)
           s == << << v >> \o st[2] >> \o Tail(Tail(st))
<1>1. /\ IsSequence(d) /\ Len(d) = Len(c) - 1 /\ Len(c) \in Nat \ {0}
      /\ \A k \in 1..(Len(c) - 1) : d[k] = c[k + 1]
      /\ FramesOf(c) # {}
      /\ Cardinality(FramesOf(c)) = Cardinality(FramesOf(d)) + 1
  BY FramesTail DEF InOrder
<1>2. ASSUME NEW k \in 1..Len(d) PROVE IsAFrame(d[k]) /\ ~Expects(d[k])
  <2>1. k + 1 \in 1..Len(c) /\ k + 1 \in 2..Len(c) /\ d[k] = c[k + 1]
    BY <1>1
  <2> QED
    BY <2>1 DEF InOrder
<1>3. Cardinality(FramesOf(d)) \in Nat /\ (Cardinality(FramesOf(d)) = 0) = (FramesOf(d) = {})
  BY <1>1, FrameCount
<1>4. Len(st) = 2 + Cardinality(FramesOf(d)) /\ IsSequence(st) /\ 2 \in 1..Len(st)
  BY <1>1, <1>3 DEF InOrder
<1>5. IsSequence(st[2]) /\ Len(st[2]) \in Nat
  BY <1>4, LenFacts DEF InOrder
<1>6. IsSequence(<< v >> \o st[2]) /\ Len(<< v >> \o st[2]) = Len(st[2]) + 1
  BY <1>5, ConsFacts
<1> DEFINE w == << v >> \o st[2]
           r == Tail(st)
<1>7. /\ IsSequence(r) /\ Len(r) = Len(st) - 1
      /\ \A k \in 1..(Len(st) - 1) : r[k] = st[k + 1]
  BY <1>4, LenFacts, TailFacts
<1>8. /\ IsSequence(Tail(r)) /\ Len(Tail(r)) = Len(st) - 2
      /\ \A k \in 1..(Len(r) - 1) : Tail(r)[k] = r[k + 1]
  <2> HIDE DEF r
  <2>1. r # << >>
    BY <1>3, <1>4, <1>7, LenFacts
  <2> QED
    BY <1>3, <1>4, <1>7, <2>1, TailFacts
<1> HIDE DEF r, w
<1> DEFINE t == << w >> \o Tail(r)
<1>9. /\ IsSequence(t) /\ Len(t) = Len(st) - 1 /\ t[1] = w
      /\ \A k \in 1..(Len(st) - 2) : t[k + 1] = Tail(r)[k]
  BY <1>3, <1>4, <1>8, ConsFacts
<1> HIDE DEF t, d
<1>10. \A k \in 2..Len(t) : t[k] = st[k + 1] /\ k + 1 \in 1..Len(st)
  <2> SUFFICES ASSUME NEW k \in 2..Len(t) PROVE t[k] = st[k + 1] /\ k + 1 \in 1..Len(st)
    OBVIOUS
  <2>1. /\ k - 1 \in 1..(Len(st) - 2) /\ (k - 1) + 1 = k
        /\ k - 1 \in 1..(Len(r) - 1) /\ k \in 1..(Len(st) - 1)
        /\ k + 1 \in 1..Len(st)
    BY <1>3, <1>4, <1>7, <1>9
  <2>2. t[k] = Tail(r)[k - 1] /\ Tail(r)[k - 1] = r[k] /\ r[k] = st[k + 1]
    BY <1>7, <1>8, <1>9, <2>1
  <2> QED
    BY <2>1, <2>2
<1>11. \A k \in 1..Len(t) : IsSequence(t[k])
  <2> SUFFICES ASSUME NEW k \in 1..Len(t) PROVE IsSequence(t[k])
    OBVIOUS
  <2>1. k = 1 \/ k \in 2..Len(t)
    BY <1>3, <1>4, <1>9
  <2>2. IsSequence(w)
    BY <1>6 DEF w
  <2> QED
    BY <1>9, <1>10, <2>1, <2>2 DEF InOrder
<1>12. Len(t[Len(t)]) = IF FramesOf(d) = {} THEN 1 ELSE 0
  <2>1. Len(st[Len(st)]) = 0
    BY <1>1 DEF InOrder
  <2>2. CASE FramesOf(d) = {}
    <3>1. Len(t) = 1 /\ Len(st) = 2
      BY <1>3, <1>4, <1>9, <2>2
    <3> QED
      BY <1>6, <1>9, <2>1, <2>2, <3>1 DEF w
  <2>3. CASE FramesOf(d) # {}
    <3>1. Len(t) \in 2..Len(t) /\ Len(t) + 1 = Len(st)
      BY <1>3, <1>4, <1>9, <2>3
    <3> QED
      BY <1>10, <2>1, <2>3, <3>1
  <2> QED
    BY <2>2, <2>3
<1>13. t[1] # << >>
  BY <1>5, <1>6, <1>9, LenFacts DEF w
<1>14. \A k \in 2..Len(d) : k \in 1..Len(d)
  BY <1>1 DEF d
<1>15. Len(t) = 1 + Cardinality(FramesOf(d))
  BY <1>3, <1>4, <1>9
<1> QED
  BY <1>1, <1>2, <1>9, <1>11, <1>12, <1>13, <1>14, <1>15 DEF InOrder, Quiet, d, t, w, r

\* A function goes on with its arguments; it waits for a separator once it
\* has one.
LEMMA ResumeCall ==
  ASSUME NEW c, NEW st, NEW a, InOrder(c, st, a), c # << >>, c[1].in = "function",
         NEW f, IsAFrame(f), f.in = "function", f.expect_sep => st[1] # << >>
  PROVE  InOrder(<< f >> \o Tail(c), st, "arguments") /\ (<< f >> \o Tail(c))[1] = f
<1> DEFINE r == Tail(c)
           d == << f >> \o r
<1>1. /\ IsSequence(r) /\ Len(r) = Len(c) - 1 /\ Len(c) \in Nat \ {0}
      /\ \A k \in 1..(Len(c) - 1) : r[k] = c[k + 1]
      /\ FramesOf(c) # {}
      /\ Cardinality(FramesOf(c)) = Cardinality(FramesOf(r)) + 1
  BY FramesTail DEF InOrder
<1>2. ASSUME NEW k \in 1..Len(r) PROVE IsAFrame(r[k]) /\ ~Expects(r[k])
  <2>1. k + 1 \in 1..Len(c) /\ k + 1 \in 2..Len(c) /\ r[k] = c[k + 1]
    BY <1>1
  <2> QED
    BY <2>1 DEF InOrder
<1> HIDE DEF r
<1>3. /\ IsSequence(d) /\ FramesOf(d) # {} /\ d[1] = f
      /\ Cardinality(FramesOf(d)) = Cardinality(FramesOf(r)) + 1
  BY <1>1, ConsFacts, FramesCons
<1>4. ASSUME NEW k \in 1..Len(d) PROVE IsAFrame(d[k]) /\ (k # 1 => ~Expects(d[k]))
  BY <1>1, <1>2, <1>4, ConsElements
<1>5. \A k \in 2..Len(d) : k \in 1..Len(d) /\ k # 1
  BY <1>3, LenFacts
<1>6. Quiet(d) \/ st[1] # << >>
  <2>1. CASE f.expect_sep
    BY <2>1
  <2>2. CASE ~f.expect_sep
    BY <1>3, <1>4, <2>2 DEF Quiet, Expects
  <2> QED
    BY <2>1, <2>2
<1> HIDE DEF d
<1>7. Len(st[Len(st)]) = 0 /\ Len(st) = 1 + Cardinality(FramesOf(d))
  BY <1>1, <1>3 DEF InOrder
<1> QED
  BY <1>3, <1>4, <1>5, <1>6, <1>7 DEF InOrder, d, r

\* Steps that end the interpretation, or change no frame, stack or handler.
LEMMA DescentStays ==
  DescentInv /\ (at' = "done" \/ UNCHANGED << calls, stacks, at >>) => DescentInv'
BY DEF DescentInv, Caller

\* At a handler other than an argument loop no function waits.
LEMMA DescentFacts ==
  ASSUME DescentInv, at # "done"
  PROVE  /\ InOrder(calls, stacks, at) /\ IsSequence(calls)
         /\ at # "arguments" => Quiet(calls)
         /\ calls # << >> => Caller = calls[1] /\ IsAFrame(Caller)
         /\ Stack = stacks[1] /\ IsSequence(Stack) /\ Len(Stack) \in Nat
         /\ FramesOf(calls) = {} => Len(Stack) = IF at = "return" THEN 1 ELSE 0
         /\ at = "return" => Stack # << >>
<1>1. InOrder(calls, stacks, at)
  BY DEF DescentInv
<1>2. IsSequence(calls) /\ IsSequence(stacks) /\ (at # "arguments" => Quiet(calls))
  BY <1>1 DEF InOrder
<1>3. /\ Len(stacks) \in Nat \ {0} /\ stacks # << >> /\ IsSequence(stacks[1]) /\ Len(stacks[1]) \in Nat
      /\ FramesOf(calls) = {} => Len(stacks) = 1
  BY <1>1, Bottom
<1>4. Stack = stacks[1]
  BY <1>2, <1>3, TailFacts DEF Stack
<1>5. calls # << >> => Caller = calls[1] /\ IsAFrame(Caller)
  <2> SUFFICES ASSUME calls # << >> PROVE Caller = calls[1] /\ IsAFrame(Caller)
    OBVIOUS
  <2>1. Caller = calls[1] /\ 1 \in 1..Len(calls)
    BY <1>2, TailFacts DEF Caller
  <2> QED
    BY <1>1, <2>1 DEF InOrder
<1>6. /\ FramesOf(calls) = {} => Len(stacks[1]) = IF at = "return" THEN 1 ELSE 0
      /\ at = "return" => stacks[1] # << >>
  BY <1>1, <1>3 DEF InOrder
<1> QED
  BY <1>1, <1>2, <1>3, <1>4, <1>5, <1>6

\* The stacks begin in order.
LEMMA DescentStarts == Init => DescentInv
<1> SUFFICES ASSUME Init PROVE InOrder(calls, stacks, at)
  BY DEF Init, DescentInv
<1>1. calls = << >> /\ stacks = << << >> >> /\ at = "expand"
  BY DEF Init
<1>2. << >> \in Seq({}) /\ << << >> >> \in Seq({<< >>}) /\ Len(<< << >> >>) = 1
      /\ Len(<< >>) = 0 /\ << << >> >>[1] = << >>
  OBVIOUS
<1>3. IsSequence(<< >>) /\ IsSequence(<< << >> >>)
  BY <1>2 DEF IsSequence
<1>4. FramesOf(<< >>) = {}
  BY <1>2 DEF FramesOf
<1>5. Cardinality({}) = 0
  BY FS_EmptySet
<1>6. InOrder(<< >>, << << >> >>, "expand")
  <2>1. PICK c, st : c = << >> /\ st = << << >> >>
    OBVIOUS
  <2>2. /\ IsSequence(c) /\ IsSequence(st) /\ Len(c) = 0 /\ Len(st) = 1 /\ st[1] = << >>
        /\ Cardinality(FramesOf(c)) = 0 /\ Len(st[Len(st)]) = 0
    BY <1>2, <1>3, <1>4, <1>5, <2>1
  <2>3. \A k \in 1..Len(st) : IsSequence(st[k])
    BY <1>3, <2>2
  <2>4. Quiet(c)
    BY <2>2 DEF Quiet
  <2>5. InOrder(c, st, "expand")
    BY <2>2, <2>3, <2>4 DEF InOrder
  <2> QED
    BY <2>1, <2>5
<1> QED
  BY <1>1, <1>6
-----------------------------------------------------------------------------
(***************************************************************************)
(* The steps of the descent.                                               *)
(***************************************************************************)

\* The expansion of names leaves the stacks alone.
LEMMA ExpandingKeepsStacks ==
  ASSUME DescentInv, ExpandToken \/ EnterName \/ LeaveName PROVE DescentInv'
<1>1. at' = "done" \/ UNCHANGED << calls, stacks, at >>
  BY DEF ExpandToken, EnterName, LeaveName, Throw, Finish
<1> QED
  BY <1>1, DescentStays

\* init_tokens() is over.
LEMMA StartKeepsStacks ==
  ASSUME DescentInv, StartInterpretation PROVE DescentInv'
<1>1. CASE at' = "done"
  BY <1>1, DescentStays
<1>2. CASE at' # "done"
  <2>1. at = "expand" /\ at' = "expression" /\ UNCHANGED << calls, stacks >>
    BY <1>2 DEF StartInterpretation, Throw, Finish
  <2>2. InOrder(calls, stacks, at')
    BY <2>1, DescentFacts, EnterHandler
  <2> QED
    BY <2>1, <2>2 DEF DescentInv
<1> QED
  BY <1>1, <1>2

\* A handler that calls another one with a frame of its own.
LEMMA CallingKeepsStacks ==
  ASSUME DescentInv, at \notin {"done", "return", "arguments"},
         NEW f, IsAFrame(f), f.in # "function",
         calls' = << f >> \o calls, stacks' = stacks,
         at' \notin {"return", "arguments"},
         at' = "array" => f.in = "array"
  PROVE  DescentInv'
<1>1. InOrder(calls', stacks', at')
  BY DescentFacts, PushFrame
<1>2. calls' # << >> /\ calls'[1] = f
  BY DescentFacts, ConsFacts, LenFacts
<1>3. at' = "array" => Caller'.in = "array"
  <2>1. Caller' = calls'[1]
    <3>1. IsSequence(calls')
      BY <1>1 DEF InOrder
    <3> QED
      BY <1>2, <3>1, TailFacts DEF Caller
  <2> QED
    BY <1>2, <2>1
<1> QED
  BY <1>1, <1>2, <1>3 DEF DescentInv

LEMMA EnterKeepsStacks ==
  ASSUME DescentInv, EnterExpression \/ EnterTerm \/ OpenParen \/ OpenArray PROVE DescentInv'
<1>1. \E f : /\ IsAFrame(f) /\ f.in # "function" /\ (at' = "array" => f.in = "array")
             /\ calls' = << f >> \o calls
  <2>1. CASE EnterExpression
    <3>1. IsAFrame([in |-> "expression"])
      BY DEF IsAFrame
    <3> QED
      BY <2>1, <3>1 DEF EnterExpression, CalledBy
  <2>2. CASE EnterTerm
    <3>1. IsAFrame([in |-> "term"])
      BY DEF IsAFrame
    <3> QED
      BY <2>2, <3>1 DEF EnterTerm, CalledBy
  <2>3. CASE OpenParen
    <3>1. IsAFrame([in |-> "paren"])
      BY DEF IsAFrame
    <3> QED
      BY <2>3, <3>1 DEF OpenParen, CalledBy
  <2>4. CASE OpenArray
    <3>1. IsAFrame([in |-> "array", rows |-> << >>, row |-> << >>, prev_op |-> "{"])
      BY DEF IsAFrame
    <3> QED
      BY <2>4, <3>1 DEF OpenArray, CalledBy
  <2> QED
    BY <2>1, <2>2, <2>3, <2>4
<1>2. /\ at \in {"expression", "term", "operand"} /\ stacks' = stacks
      /\ at' \in {"term", "factor", "expression", "array"}
  BY DEF EnterExpression, EnterTerm, OpenParen, OpenArray
<1> QED
  BY <1>1, <1>2, CallingKeepsStacks

\* factor() before its operand.
LEMMA SignKeepsStacks ==
  ASSUME DescentInv, Sign PROVE DescentInv'
<1>1. CASE at' = "done"
  BY <1>1, DescentStays
<1>2. CASE at' # "done"
  <2>1. /\ at = "factor" /\ at' = "operand" /\ stacks' = stacks
        /\ calls' = IF TokenIn({"-"}) THEN CalledBy([in |-> "negate"]) ELSE calls
    BY <1>2, Zenon DEF Sign, Throw, Finish
  <2>2. CASE calls' = calls
    <3>1. InOrder(calls, stacks, at')
      BY <2>1, DescentFacts, EnterHandler
    <3> QED
      BY <2>1, <2>2, <3>1 DEF DescentInv
  <2>3. CASE calls' = << [in |-> "negate"] >> \o calls
    <3>1. IsAFrame([in |-> "negate"])
      BY DEF IsAFrame
    <3> QED
      BY <2>1, <2>3, <3>1, CallingKeepsStacks
  <2> QED
    BY <2>1, <2>2, <2>3 DEF CalledBy
<1> QED
  BY <1>1, <1>2

\* A handler that leaves a value, and returns.
LEMMA ValueKeepsStacks ==
  ASSUME DescentInv, at \notin {"done", "return", "arguments"}, NEW v,
         stacks' = Pushed(v), at' = "return",
         \/ calls' = calls
         \/ calls # << >> /\ calls[1].in # "function" /\ calls' = Tail(calls)
  PROVE  DescentInv'
<1>1. /\ InOrder(calls, stacks, at) /\ Quiet(calls)
      /\ Stack = stacks[1] /\ IsSequence(Stack) /\ Len(Stack) \in Nat
      /\ FramesOf(calls) = {} => Len(Stack) = 0
  BY DescentFacts
<1> DEFINE t == << v >> \o Stack
<1>2. IsSequence(t) /\ Len(t) = Len(Stack) + 1 /\ t # << >>
  BY <1>1, ConsFacts, LenFacts
<1>3. stacks' = [stacks EXCEPT ![1] = t]
  BY <1>1 DEF Pushed
<1> HIDE DEF t
<1>4. FramesOf(calls) = {} => Len(t) = 1
  BY <1>1, <1>2
<1>5. InOrder(calls, stacks', "return")
  <2>1. InOrder(calls, [stacks EXCEPT ![1] = t], "return")
    BY <1>1, <1>2, <1>4, ChangeStack
  <2> QED
    BY <1>3, <2>1
<1>6. CASE calls' = calls
  BY <1>5, <1>6 DEF DescentInv
<1>7. CASE calls # << >> /\ calls[1].in # "function" /\ calls' = Tail(calls)
  <2>1. InOrder(calls', stacks', "return")
    BY <1>5, <1>7, PopFrame
  <2> QED
    BY <2>1 DEF DescentInv
<1> QED
  BY <1>6, <1>7

LEMMA OperandKeepsStacks ==
  ASSUME DescentInv, Operand \/ NoOperand PROVE DescentInv'
<1>1. CASE at' = "done"
  BY <1>1, DescentStays
<1>2. CASE at' # "done"
  <2>1. Operand
    BY <1>2 DEF NoOperand, Throw, Finish
  <2>2. PICK v : IF Failed(v) THEN Finish(v)
                 ELSE stacks' = Pushed(v) /\ at' = "return" /\ calls' = calls
    BY <2>1 DEF Operand
  <2>3. stacks' = Pushed(v) /\ at' = "return" /\ calls' = calls
    BY <1>2, <2>2 DEF Finish
  <2>4. at = "operand"
    BY <2>1 DEF Operand
  <2> QED
    BY <2>3, <2>4, ValueKeepsStacks
<1> QED
  BY <1>1, <1>2

\* function() before its first argument, and a call that ends.
LEMMA OpenFunctionKeepsStacks ==
  ASSUME DescentInv, OpenFunction PROVE DescentInv'
<1>1. CASE at' = "done"
  BY <1>1, DescentStays
<1>2. CASE at' # "done"
  <2>1. /\ at = "operand" /\ at' = "arguments" /\ stacks' = << << >> >> \o stacks
        /\ calls' = << [in |-> "function", name |-> Token.name, expect_sep |-> FALSE] >> \o calls
    BY <1>2 DEF OpenFunction, Throw, Finish, CalledBy
  <2> DEFINE f == [in |-> "function", name |-> Token.name, expect_sep |-> FALSE]
  <2>2. IsAFrame(f) /\ f.in = "function" /\ ~f.expect_sep
    BY DEF IsAFrame
  <2>3. calls' = << f >> \o calls
    BY <2>1
  <2> HIDE DEF f
  <2>4. InOrder(calls', stacks', at')
    BY <2>1, <2>2, <2>3, DescentFacts, OpenStack
  <2>5. IsSequence(calls') /\ calls' # << >> /\ calls'[1] = f
    BY <2>1, <2>3, DescentFacts, ConsFacts, LenFacts
  <2>6. Caller' = f
    BY <2>5, TailFacts DEF Caller
  <2> QED
    BY <2>1, <2>2, <2>4, <2>5, <2>6 DEF DescentInv
<1> QED
  BY <1>1, <1>2

LEMMA CallFunctionKeepsStacks ==
  ASSUME DescentInv, CallFunction PROVE DescentInv'
<1>1. CASE at' = "done"
  BY <1>1, DescentStays
<1>2. CASE at' # "done"
  <2>1. PICK v : IF Failed(v) THEN Finish(v)
                 ELSE /\ stacks' = << << v >> \o stacks[2] >> \o Tail(Tail(stacks))
                      /\ calls' = Tail(calls) /\ at' = "return"
    BY DEF CallFunction
  <2>2. /\ stacks' = << << v >> \o stacks[2] >> \o Tail(Tail(stacks))
        /\ calls' = Tail(calls) /\ at' = "return"
    BY <1>2, <2>1 DEF Finish
  <2>3. at = "arguments"
    BY DEF CallFunction
  <2>4. calls # << >> /\ calls[1].in = "function" /\ InOrder(calls, stacks, at)
    BY <2>3, DescentFacts DEF DescentInv
  <2>5. InOrder(calls', stacks', "return")
    BY <2>2, <2>3, <2>4, CloseStack
  <2> QED
    BY <2>2, <2>5 DEF DescentInv
<1> QED
  BY <1>1, <1>2

\* A function goes on with its arguments.
LEMMA ArgumentsKeepStacks ==
  ASSUME DescentInv, at \in {"return", "arguments"}, calls # << >>, Caller.in = "function",
         NEW f, IsAFrame(f), f.in = "function", f.expect_sep => stacks[1] # << >>,
         calls' = << f >> \o Tail(calls), stacks' = stacks, at' = "arguments"
  PROVE  DescentInv'
<1>1. InOrder(calls, stacks, at) /\ Caller = calls[1]
  BY DescentFacts
<1>2. InOrder(calls', stacks', "arguments") /\ calls'[1] = f
  BY <1>1, ResumeCall
<1>3. IsSequence(calls') /\ IsSequence(Tail(calls))
  BY <1>1, <1>2, TailFacts DEF InOrder
<1>4. calls' # << >>
  BY <1>3, ConsFacts, LenFacts
<1>5. Caller' = f
  BY <1>2, <1>3, <1>4, TailFacts DEF Caller
<1> QED
  BY <1>2, <1>4, <1>5 DEF DescentInv

\* The loop of function() asks for an argument or a separator.
LEMMA NextArgumentKeepsStacks ==
  ASSUME DescentInv, NextArgument PROVE DescentInv'
<1>1. CASE at' = "done"
  BY <1>1, DescentStays
<1>2. CASE at' # "done"
  <2>1. at = "arguments" /\ stacks' = stacks
    BY <1>2 DEF NextArgument, Throw, Finish
  <2>2. /\ InOrder(calls, stacks, at) /\ Caller = calls[1] /\ calls # << >>
        /\ Caller.in = "function" /\ IsAFrame(Caller) /\ IsSequence(calls)
    BY <2>1, DescentFacts DEF DescentInv
  <2>3. CASE ~Caller.expect_sep
    <3>1. at' = "expression" /\ calls' = calls
      BY <2>3 DEF NextArgument
    <3>2. Len(calls) \in Nat \ {0}
      BY <2>2, TailFacts
    <3>3. \A k \in 1..Len(calls) : k = 1 \/ k \in 2..Len(calls)
      BY <3>2
    <3>4. Quiet(calls)
      BY <2>2, <2>3, <3>3 DEF InOrder, Quiet, Expects
    <3>5. InOrder(calls, stacks, at')
      BY <2>1, <2>2, <3>1, <3>4, EnterHandler
    <3> QED
      BY <2>1, <3>1, <3>5 DEF DescentInv
  <2>4. CASE Caller.expect_sep
    <3>1. at' = at /\ calls' = << [Caller EXCEPT !.expect_sep = FALSE] >> \o Tail(calls)
      BY <1>2, <2>4 DEF NextArgument, Throw, Finish, Resumed
    <3> DEFINE f == [Caller EXCEPT !.expect_sep = FALSE]
    <3>2. IsAFrame(f) /\ f.in = "function" /\ ~f.expect_sep
      BY <2>2 DEF IsAFrame
    <3>3. calls' = << f >> \o Tail(calls)
      BY <3>1
    <3> HIDE DEF f
    <3> QED
      BY <2>1, <2>2, <3>1, <3>2, <3>3, ArgumentsKeepStacks
  <2> QED
    BY <2>3, <2>4
<1> QED
  BY <1>1, <1>2

LEMMA AfterArgumentKeepsStacks ==
  ASSUME DescentInv, AfterArgument PROVE DescentInv'
<1>1. CASE at' = "done"
  BY <1>1, DescentStays
<1>2. CASE at' # "done"
  <2>1. /\ at = "return" /\ calls # << >> /\ Caller.in = "function" /\ at' = "arguments"
        /\ stacks' = stacks /\ calls' = << [Caller EXCEPT !.expect_sep = TRUE] >> \o Tail(calls)
    BY <1>2 DEF AfterArgument, Returning, Throw, Finish, Resumed
  <2>2. IsAFrame(Caller) /\ stacks[1] # << >>
    BY <2>1, DescentFacts
  <2> DEFINE f == [Caller EXCEPT !.expect_sep = TRUE]
  <2>3. IsAFrame(f) /\ f.in = "function"
    BY <2>1, <2>2 DEF IsAFrame
  <2>4. calls' = << f >> \o Tail(calls)
    BY <2>1
  <2> HIDE DEF f
  <2> QED
    BY <2>1, <2>2, <2>3, <2>4, ArgumentsKeepStacks
<1> QED
  BY <1>1, <1>2

\* A handler that was called returns as well, or goes on in another frame;
\* its value is that of the handler it called or takes the place of it.
LEMMA ReturnKeepsStacks ==
  ASSUME DescentInv, at = "return", calls # << >>, Caller.in # "function",
         \/ calls' = Tail(calls)
         \/ \E f : IsAFrame(f) /\ f.in # "function" /\ calls' = << f >> \o Tail(calls),
         stacks' = stacks \/ \E v : stacks' = Replaced(v),
         at' = "return"
  PROVE  DescentInv'
<1>1. /\ InOrder(calls, stacks, "return") /\ Quiet(calls) /\ Caller = calls[1]
      /\ Stack = stacks[1] /\ IsSequence(Stack) /\ Len(Stack) \in Nat /\ Stack # << >>
      /\ FramesOf(calls) = {} => Len(Stack) = 1
  BY DescentFacts
<1>2. InOrder(calls, stacks', "return")
  <2>1. CASE stacks' = stacks
    BY <1>1, <2>1
  <2>2. ASSUME NEW v, stacks' = Replaced(v) PROVE InOrder(calls, stacks', "return")
    <3> DEFINE t == << v >> \o Tail(Stack)
    <3>1. IsSequence(Tail(Stack)) /\ Len(Tail(Stack)) = Len(Stack) - 1
      BY <1>1, TailFacts
    <3>2. IsSequence(t) /\ Len(t) = Len(Stack) /\ t # << >>
      BY <1>1, <3>1, ConsFacts, LenFacts
    <3>3. stacks' = [stacks EXCEPT ![1] = t]
      BY <1>1, <2>2 DEF Replaced
    <3> HIDE DEF t
    <3>4. FramesOf(calls) = {} => Len(t) = 1
      BY <1>1, <3>2
    <3>5. InOrder(calls, [stacks EXCEPT ![1] = t], "return")
      BY <1>1, <3>2, <3>4, ChangeStack
    <3> QED
      BY <3>3, <3>5
  <2> QED
    BY <2>1, <2>2
<1>3. CASE calls' = Tail(calls)
  <2>1. InOrder(calls', stacks', "return")
    BY <1>1, <1>2, <1>3, PopFrame
  <2> QED
    BY <2>1 DEF DescentInv
<1>4. ASSUME NEW f, IsAFrame(f), f.in # "function", calls' = << f >> \o Tail(calls)
      PROVE  DescentInv'
  <2>1. InOrder(calls', stacks', "return")
    BY <1>1, <1>2, <1>4, ResumeFrame
  <2> QED
    BY <2>1 DEF DescentInv
<1> QED
  BY <1>3, <1>4

\* An operator takes its left operand off the stack.
LEMMA OperatorKeepsStacks ==
  ASSUME DescentInv, at = "return", calls # << >>, Caller.in # "function",
         NEW f, IsAFrame(f), f.in # "function", calls' = << f >> \o Tail(calls),
         stacks' = Popped, at' = "term"
  PROVE  DescentInv'
<1>1. /\ InOrder(calls, stacks, "return") /\ Quiet(calls) /\ Caller = calls[1]
      /\ Stack = stacks[1] /\ IsSequence(Stack) /\ Len(Stack) \in Nat /\ Stack # << >>
      /\ FramesOf(calls) = {} => Len(Stack) = 1
  BY DescentFacts
<1> DEFINE t == Tail(Stack)
<1>2. IsSequence(t) /\ Len(t) = Len(Stack) - 1
  BY <1>1, TailFacts
<1>3. stacks' = [stacks EXCEPT ![1] = t]
  BY <1>1 DEF Popped
<1> HIDE DEF t
<1>4. FramesOf(calls) = {} => Len(t) = 0
  BY <1>1, <1>2
<1>5. InOrder(calls, [stacks EXCEPT ![1] = t], "term")
  BY <1>1, <1>2, <1>4, ChangeStack
<1>6. InOrder(calls', stacks', "term")
  BY <1>1, <1>3, <1>5, ResumeFrame
<1> QED
  BY <1>6 DEF DescentInv

LEMMA NegateKeepsStacks ==
  ASSUME DescentInv, Negate PROVE DescentInv'
<1>1. CASE at' = "done"
  BY <1>1, DescentStays
<1>2. CASE at' # "done"
  <2>1. at = "return" /\ calls # << >> /\ Caller.in = "negate"
    BY DEF Negate, Returning
  <2>2. PICK v : IF Failed(v) THEN Finish(v)
                 ELSE stacks' = Replaced(Value(Negated(v.number))) /\ calls' = Tail(calls) /\ at' = at
    BY DEF Negate
  <2>3. /\ \E w : stacks' = Replaced(w)
        /\ calls' = Tail(calls) /\ at' = at
    BY <1>2, <2>2 DEF Finish
  <2> QED
    BY <2>1, <2>3, ReturnKeepsStacks
<1> QED
  BY <1>1, <1>2

LEMMA AfterFactorKeepsStacks ==
  ASSUME DescentInv, AfterFactor PROVE DescentInv'
<1>1. CASE at' = "done"
  BY <1>1, DescentStays
<1>2. CASE at' # "done"
  <2>1. at = "return" /\ calls # << >> /\ Caller.in = "term"
    BY DEF AfterFactor, Returning
  <2>2. CASE ~TokenIn(TermOps)
    <3>1. calls' = Tail(calls) /\ at' = at /\ stacks' = stacks
      BY <2>2 DEF AfterFactor
    <3> QED
      BY <2>1, <3>1, ReturnKeepsStacks
  <2>3. CASE TokenIn(TermOps)
    <3>1. PICK v : IF Failed(v) THEN Finish(v)
                   ELSE /\ stacks' = Popped /\ at' = "term"
                        /\ calls' = Resumed([in |-> "term_right", op |-> Token.op, left |-> v])
      BY <2>3 DEF AfterFactor
    <3> DEFINE f == [in |-> "term_right", op |-> Token.op, left |-> v]
    <3>2. stacks' = Popped /\ at' = "term" /\ calls' = << f >> \o Tail(calls)
      BY <1>2, <3>1 DEF Finish, Resumed
    <3>3. IsAFrame(f) /\ f.in # "function"
      BY DEF IsAFrame
    <3> HIDE DEF f
    <3> QED
      BY <2>1, <3>2, <3>3, OperatorKeepsStacks
  <2> QED
    BY <2>2, <2>3
<1> QED
  BY <1>1, <1>2

LEMMA AfterTermKeepsStacks ==
  ASSUME DescentInv, AfterTerm PROVE DescentInv'
<1>1. CASE at' = "done"
  BY <1>1, DescentStays
<1>2. CASE at' # "done"
  <2>1. at = "return" /\ calls # << >> /\ Caller.in = "expression"
    BY DEF AfterTerm, Returning
  <2>2. CASE ~TokenIn(ExpressionOps)
    <3>1. calls' = Tail(calls) /\ at' = at /\ stacks' = stacks
      BY <2>2 DEF AfterTerm
    <3> QED
      BY <2>1, <3>1, ReturnKeepsStacks
  <2>3. CASE TokenIn(ExpressionOps)
    <3>1. PICK v : IF Failed(v) THEN Finish(v)
                   ELSE /\ stacks' = Popped /\ at' = "term"
                        /\ calls' = Resumed([in |-> "expression_right", op |-> Token.op, left |-> v])
      BY <2>3 DEF AfterTerm
    <3> DEFINE f == [in |-> "expression_right", op |-> Token.op, left |-> v]
    <3>2. stacks' = Popped /\ at' = "term" /\ calls' = << f >> \o Tail(calls)
      BY <1>2, <3>1 DEF Finish, Resumed
    <3>3. IsAFrame(f) /\ f.in # "function"
      BY DEF IsAFrame
    <3> HIDE DEF f
    <3> QED
      BY <2>1, <3>2, <3>3, OperatorKeepsStacks
  <2> QED
    BY <2>2, <2>3
<1> QED
  BY <1>1, <1>2

LEMMA AfterRightTermKeepsStacks ==
  ASSUME DescentInv, AfterRightTerm PROVE DescentInv'
<1>1. CASE at' = "done"
  BY <1>1, DescentStays
<1>2. CASE at' # "done"
  <2>1. at = "return" /\ calls # << >> /\ Caller.in = "term_right"
    BY DEF AfterRightTerm, Returning
  <2>2. PICK v : IF Failed(v) THEN Finish(v)
                 ELSE stacks' = Replaced(v) /\ calls' = Tail(calls) /\ at' = at
    BY DEF AfterRightTerm
  <2>3. stacks' = Replaced(v) /\ calls' = Tail(calls) /\ at' = at
    BY <1>2, <2>2 DEF Finish
  <2> QED
    BY <2>1, <2>3, ReturnKeepsStacks
<1> QED
  BY <1>1, <1>2

LEMMA AfterNextTermKeepsStacks ==
  ASSUME DescentInv, AfterNextTerm PROVE DescentInv'
<1>1. CASE at' = "done"
  BY <1>1, DescentStays
<1>2. CASE at' # "done"
  <2>1. at = "return" /\ calls # << >> /\ Caller.in = "expression_right"
    BY DEF AfterNextTerm, Returning
  <2>2. PICK v : IF Failed(v) THEN Finish(v)
                 ELSE stacks' = Replaced(v) /\ calls' = Resumed([in |-> "expression"]) /\ at' = at
    BY DEF AfterNextTerm
  <2>3. stacks' = Replaced(v) /\ calls' = << [in |-> "expression"] >> \o Tail(calls) /\ at' = at
    BY <1>2, <2>2 DEF Finish, Resumed
  <2>4. IsAFrame([in |-> "expression"])
    BY DEF IsAFrame
  <2> QED
    BY <2>1, <2>3, <2>4, ReturnKeepsStacks
<1> QED
  BY <1>1, <1>2

LEMMA CloseParenKeepsStacks ==
  ASSUME DescentInv, CloseParen \/ EndInterpretation PROVE DescentInv'
<1>1. CASE at' = "done"
  BY <1>1, DescentStays
<1>2. CASE at' # "done"
  <2>1. CloseParen
    BY <1>2 DEF EndInterpretation, Throw, Finish
  <2>2. /\ at = "return" /\ calls # << >> /\ Caller.in = "paren"
        /\ calls' = Tail(calls) /\ at' = at /\ stacks' = stacks
    BY <1>2, <2>1 DEF CloseParen, Returning, Throw, Finish
  <2> QED
    BY <2>2, ReturnKeepsStacks
<1> QED
  BY <1>1, <1>2

\* The loop of array().
LEMMA ArrayStepKeepsStacks ==
  ASSUME DescentInv, ArrayStep PROVE DescentInv'
<1>1. CASE at' = "done"
  BY <1>1, DescentStays
<1>2. CASE at' # "done"
  <2>1. at = "array" /\ calls # << >> /\ Caller.in = "array" /\ Caller = calls[1]
        /\ InOrder(calls, stacks, at) /\ IsSequence(calls) /\ IsAFrame(Caller)
    BY DescentFacts DEF ArrayStep, DescentInv
  <2>2. CASE ~ArrayTokenValid
    BY <1>2, <2>2, Zenon DEF ArrayStep, Throw, Finish
  <2>3. CASE ArrayTokenValid /\ ArrayToken.op = "}"
    <3>1. /\ stacks' = Pushed(Matrix(Append(Caller.rows, Caller.row)))
          /\ calls' = Tail(calls) /\ at' = "return"
      BY <2>3, Zenon DEF ArrayStep
    <3> QED
      BY <2>1, <3>1, ValueKeepsStacks
  <2>4. CASE ArrayTokenValid /\ ArrayToken.op # "}"
    <3> DEFINE f == [Caller EXCEPT
                       !.prev_op = ArrayToken.op,
                       !.rows = IF ArrayToken.op = ";" THEN Append(@, Caller.row) ELSE @,
                       !.row = CASE ArrayToken.op = ";" -> << >>
                                 [] ArrayToken.op = "," -> @
                                 [] OTHER -> Append(@, ArrayElement)]
    <3>1. stacks' = stacks /\ calls' = Resumed(f) /\ at' = at
      BY <2>4, Zenon DEF ArrayStep
    <3>2. IsAFrame(f) /\ f.in = "array"
      BY <2>1 DEF IsAFrame
    <3> HIDE DEF f
    <3>3. calls' = << f >> \o Tail(calls) /\ IsSequence(Tail(calls))
      BY <2>1, <3>1, TailFacts DEF Resumed
    <3>4. InOrder(calls', stacks', at')
      BY <2>1, <3>1, <3>2, <3>3, ResumeFrame
    <3>5. IsSequence(calls') /\ calls' # << >> /\ calls'[1] = f
      BY <3>3, ConsFacts, LenFacts
    <3>6. Caller' = f
      BY <3>5, TailFacts DEF Caller
    <3> QED
      BY <2>1, <3>1, <3>2, <3>4, <3>5, <3>6 DEF DescentInv
  <2> QED
    BY <2>2, <2>3, <2>4
<1> QED
  BY <1>1, <1>2

LEMMA DescentStep == DescentInv /\ [Next]_vars => DescentInv'
<1> SUFFICES ASSUME DescentInv, [Next]_vars PROVE DescentInv'
  OBVIOUS
<1>1. CASE UNCHANGED vars
  BY <1>1, DescentStays DEF vars
<1>2. CASE ExpandToken \/ EnterName \/ LeaveName \/ StartInterpretation
  BY <1>2, ExpandingKeepsStacks, StartKeepsStacks
<1>3. CASE EnterExpression \/ EnterTerm \/ OpenParen \/ OpenArray \/ Sign
  BY <1>3, EnterKeepsStacks, SignKeepsStacks
<1>4. CASE Operand \/ NoOperand \/ OpenFunction
  BY <1>4, OperandKeepsStacks, OpenFunctionKeepsStacks
<1>5. CASE NextArgument \/ CallFunction \/ AfterArgument \/ ArrayStep
  BY <1>5, NextArgumentKeepsStacks, CallFunctionKeepsStacks, AfterArgumentKeepsStacks,
     ArrayStepKeepsStacks
<1>6. CASE Negate \/ AfterFactor \/ AfterRightTerm \/ AfterTerm \/ AfterNextTerm
  BY <1>6, NegateKeepsStacks, AfterFactorKeepsStacks, AfterRightTermKeepsStacks,
     AfterTermKeepsStacks, AfterNextTermKeepsStacks
<1>7. CASE CloseParen \/ EndInterpretation
  BY <1>7, CloseParenKeepsStacks
<1> QED
  BY <1>1, <1>2, <1>3, <1>4, <1>5, <1>6, <1>7 DEF Next

\* A function that expects a separator is the innermost frame, and the first
\* stack, which is its own, has an argument.
LEMMA DescentMeansDiscipline == DescentInv => StackDiscipline
<1> SUFFICES ASSUME DescentInv, at # "done"
             PROVE  /\ Len(stacks) = 1 + Cardinality(CalledFunctions)
                    /\ Len(stacks[Len(stacks)])
                         = IF at = "return" /\ CalledFunctions = {} THEN 1 ELSE 0
                    /\ at = "return" => Stack # << >>
                    /\ \A h \in CalledFunctions : FrameAt(h).expect_sep => StackOf(h) # << >>
  BY DEF StackDiscipline
<1>1. InOrder(calls, stacks, at) /\ Stack = stacks[1] /\ IsSequence(calls)
  BY DescentFacts
<1>2. CalledFunctions = FramesOf(calls)
  BY DEF CalledFunctions, FramesOf, FrameAt
<1>3. ASSUME NEW h \in CalledFunctions, FrameAt(h).expect_sep PROVE StackOf(h) # << >>
  <2>1. /\ h \in 1..Len(calls) /\ Len(calls) \in Nat
        /\ calls[Len(calls) + 1 - h].in = "function"
    BY <1>1, <1>3, LenFacts DEF CalledFunctions, FrameAt
  <2>2. Len(calls) + 1 - h \in 1..Len(calls)
    BY <2>1
  <2>3. Expects(calls[Len(calls) + 1 - h])
    BY <1>3, <2>1 DEF Expects, FrameAt
  <2>4. Len(calls) + 1 - h \notin 2..Len(calls) /\ stacks[1] # << >>
    BY <1>1, <2>2, <2>3 DEF InOrder, Quiet
  <2>5. h = Len(calls)
    BY <2>1, <2>2, <2>4
  <2>6. { g \in CalledFunctions : g >= h } = {h}
    BY <1>3, <2>1, <2>5 DEF CalledFunctions
  <2>7. Cardinality({h}) = 1
    BY FS_Singleton
  <2> QED
    BY <2>4, <2>6, <2>7 DEF StackOf
<1> QED
  BY <1>1, <1>2, <1>3 DEF InOrder

\* The recursive descent pops what it pushed: one value when a handler
\* returns, the arguments of every function that is being called on a stack
\* of its own, and nothing below them, so the asserts of pop_result(),
\* function() and pop_stack() hold for every token string.
THEOREM StacksInOrder == Spec => []StackDiscipline
BY DescentStarts, DescentStep, DescentMeansDiscipline, PTL DEF Spec

\* A set of natural numbers has a least member.
LEMMA LeastMember ==
  ASSUME NEW S \in SUBSET Nat, S # {}
  PROVE  \E m \in S : \A k \in S : m <= k
<1>1. PICK m \in S : \A k \in S : ~(<<k, m>> \in OpToRel(<, Nat))
  BY NatLessThanWellFounded, WFMin
<1>2. \A k \in S : ~(k < m)
  BY <1>1 DEF OpToRel
<1>3. m \in Nat /\ \A k \in S : k \in Nat
  OBVIOUS
<1>4. \A k \in S : m <= k
  BY <1>2, <1>3
<1> QED
  BY <1>4

\* Induction up to n, on the members of a set.
LEMMA UpTo ==
  ASSUME NEW n \in Nat, NEW S, 0 \in S, \A k \in 0..(n - 1) : k \in S => k + 1 \in S
  PROVE  \A k \in 0..n : k \in S
<1> SUFFICES ASSUME ~(0..n \subseteq S) PROVE FALSE
  OBVIOUS
<1>1. PICK B : B = { k \in 0..n : k \notin S }
  OBVIOUS
<1>2. B \in SUBSET Nat /\ B # {}
  BY <1>1
<1>3. PICK m \in B : \A k \in B : m <= k
  BY <1>2, LeastMember
<1>4. m \in 0..n /\ m \notin S /\ m # 0
  BY <1>1
<1>5. m - 1 \in 0..(n - 1) /\ (m - 1) + 1 = m /\ ~(m <= m - 1) /\ m - 1 \in 0..n
  BY <1>4
<1>6. m - 1 \in S
  BY <1>1, <1>3, <1>5
<1> QED
  BY <1>4, <1>5, <1>6

\* The function by which sequences are put together.
IsFlattening(f, s) ==
  f = [i \in 1..Len(s) |-> IF i = 1 THEN s[i] ELSE f[i - 1] \o s[i]]

IsFlatteningUpTo(f, s, S, n) ==
  /\ f \in [1..n -> Seq(S)]
  /\ \A i \in 1..n : f[i] = IF i = 1 THEN s[i] ELSE f[i - 1] \o s[i]

LEMMA FlattenOneMore ==
  ASSUME NEW S, NEW s \in Seq(Seq(S)), NEW n \in 0..(Len(s) - 1), NEW f, IsFlatteningUpTo(f, s, S, n)
  PROVE  \E g : IsFlatteningUpTo(g, s, S, n + 1)
<1>1. PICK e \in Seq(S) : e = IF n = 0 THEN s[1] ELSE f[n] \o s[n + 1]
  <2>1. s[n + 1] \in Seq(S) /\ n \in Nat
    OBVIOUS
  <2>2. n # 0 => f[n] \in Seq(S)
    BY <2>1 DEF IsFlatteningUpTo
  <2>3. (IF n = 0 THEN s[1] ELSE f[n] \o s[n + 1]) \in Seq(S)
    BY <2>1, <2>2
  <2> QED
    BY <2>3
<1>2. PICK g : g = [i \in 1..(n + 1) |-> IF i <= n THEN f[i] ELSE e]
  OBVIOUS
<1>3. n \in Nat /\ \A i \in 1..(n + 1) : i \in Nat /\ i >= 1 /\ (i \in 1..n \/ i = n + 1)
  OBVIOUS
<1>4. g[n + 1] = e /\ \A i \in 1..n : g[i] = f[i]
  BY <1>2, <1>3
<1>5. g \in [1..(n + 1) -> Seq(S)]
  BY <1>1, <1>2, <1>3 DEF IsFlatteningUpTo
<1>6. ASSUME NEW i \in 1..(n + 1) PROVE g[i] = IF i = 1 THEN s[i] ELSE g[i - 1] \o s[i]
  <2>1. CASE i \in 1..n
    <3>1. f[i] = IF i = 1 THEN s[i] ELSE f[i - 1] \o s[i]
      BY <2>1 DEF IsFlatteningUpTo
    <3>2. i # 1 => i - 1 \in 1..n
      BY <2>1
    <3> QED
      BY <1>4, <2>1, <3>1, <3>2
  <2>2. CASE i = n + 1
    <3>1. n # 0 => n \in 1..n /\ i # 1 /\ i - 1 = n
      BY <2>2
    <3> QED
      BY <1>1, <1>4, <2>2, <3>1
  <2> QED
    BY <1>3, <2>1, <2>2
<1> QED
  BY <1>5, <1>6 DEF IsFlatteningUpTo

LEMMA FlatteningExists ==
  ASSUME NEW S, NEW s \in Seq(Seq(S))
  PROVE  \E f : IsFlattening(f, s)
<1>1. PICK G : G = { n \in Nat : n <= Len(s) => \E f : IsFlatteningUpTo(f, s, S, n) }
  OBVIOUS
<1>2. Len(s) \in Nat
  OBVIOUS
<1>3. 0 \in G
  <2>1. IsFlatteningUpTo([i \in 1..0 |-> << >>], s, S, 0)
    BY DEF IsFlatteningUpTo
  <2> QED
    BY <1>1, <2>1
<1>4. ASSUME NEW n \in 0..(Len(s) - 1), n \in G PROVE n + 1 \in G
  <2>1. PICK f : IsFlatteningUpTo(f, s, S, n)
    BY <1>1, <1>2, <1>4
  <2>2. \E g : IsFlatteningUpTo(g, s, S, n + 1)
    BY <2>1, FlattenOneMore
  <2> QED
    BY <1>1, <2>2
<1>5. Len(s) \in G
  <2>1. PICK m \in Nat : m = Len(s)
    BY <1>2
  <2>2. \A k \in 0..m : k \in G
    BY <1>3, <1>4, <2>1, UpTo
  <2> QED
    BY <2>1, <2>2
<1>6. PICK f : IsFlatteningUpTo(f, s, S, Len(s))
  BY <1>1, <1>5
<1>7. f = [i \in 1..Len(s) |-> f[i]]
  BY <1>6 DEF IsFlatteningUpTo
<1>8. IsFlattening(f, s)
  BY <1>6, <1>7 DEF IsFlattening, IsFlatteningUpTo
<1> QED
  BY <1>8

LEMMA FlatteningIs ==
  ASSUME NEW S, NEW s \in Seq(Seq(S)), s # << >>
  PROVE  \E f : IsFlattening(f, s) /\ SX!FlattenSeq(s) = f[Len(s)]
<1>1. PICK f : f = CHOOSE h : IsFlattening(h, s)
  OBVIOUS
<1>2. IsFlattening(f, s)
  BY <1>1, FlatteningExists
<1>3. Len(s) # 0
  OBVIOUS
<1>4. SX!FlattenSeq(s) = f[Len(s)]
  BY <1>1, <1>3 DEF SX!FlattenSeq, IsFlattening
<1> QED
  BY <1>2, <1>4

\* One after the other, from the first to the k-th.
LEMMA FlatteningType ==
  ASSUME NEW S, NEW s \in Seq(Seq(S)), NEW f, IsFlattening(f, s)
  PROVE  \A k \in 1..Len(s) : f[k] \in Seq(S) /\ f[k] = IF k = 1 THEN s[k] ELSE f[k - 1] \o s[k]
<1>1. \A k \in 1..Len(s) : f[k] = IF k = 1 THEN s[k] ELSE f[k - 1] \o s[k]
  BY DEF IsFlattening
<1>2. PICK G : G = { k \in Nat : k \in 1..Len(s) => f[k] \in Seq(S) }
  OBVIOUS
<1>3. Len(s) \in Nat /\ \A k \in 1..Len(s) : s[k] \in Seq(S)
  OBVIOUS
<1>4. 0 \in G
  BY <1>2
<1>5. ASSUME NEW n \in 0..(Len(s) - 1), n \in G PROVE n + 1 \in G
  <2>1. n + 1 \in 1..Len(s) /\ s[n + 1] \in Seq(S) /\ (n = 0 \/ f[n] \in Seq(S))
    BY <1>2, <1>3, <1>5
  <2>2. f[n + 1] = IF n + 1 = 1 THEN s[n + 1] ELSE f[(n + 1) - 1] \o s[n + 1]
    BY <1>1, <2>1
  <2>3. f[n + 1] \in Seq(S)
    BY <2>1, <2>2
  <2> QED
    BY <1>2, <2>3
<1>6. \A k \in 0..Len(s) : k \in G
  BY <1>3, <1>4, <1>5, UpTo
<1> QED
  BY <1>1, <1>2, <1>3, <1>6

LEMMA FlattenType ==
  ASSUME NEW S, NEW s \in Seq(Seq(S))
  PROVE  SX!FlattenSeq(s) \in Seq(S)
<1>1. CASE s = << >>
  BY <1>1 DEF SX!FlattenSeq
<1>2. CASE s # << >>
  <2>1. PICK f : IsFlattening(f, s) /\ SX!FlattenSeq(s) = f[Len(s)]
    BY <1>2, FlatteningIs
  <2>2. Len(s) \in 1..Len(s)
    BY <1>2
  <2> QED
    BY <2>1, <2>2, FlatteningType
<1> QED
  BY <1>1, <1>2

-----------------------------------------------------------------------------
(***************************************************************************)
(* What the pops and the operators give, whatever they are given.          *)
(***************************************************************************)

\* The first failure of a sequence is one.
LEMMA FirstFailureFails ==
  ASSUME NEW rs, IsSequence(rs), \E i \in DOMAIN rs : Failed(rs[i])
  PROVE  FirstFailure(rs) \in { rs[k] : k \in DOMAIN rs } /\ Failed(FirstFailure(rs))
<1>1. PICK F : F = { i \in DOMAIN rs : Failed(rs[i]) }
  OBVIOUS
<1>2. DOMAIN rs = 1..Len(rs) /\ Len(rs) \in Nat
  BY LenFacts
<1>3. F \in SUBSET Nat /\ F # {}
  BY <1>1, <1>2
<1>4. PICK i \in F : \A j \in F : i <= j
  BY <1>3, LeastMember
<1>5. i \in DOMAIN rs /\ Failed(rs[i]) /\ \A j \in 1..(i - 1) : ~Failed(rs[j])
  <2>1. \A j \in 1..(i - 1) : j \in DOMAIN rs /\ ~(i <= j)
    BY <1>1, <1>2
  <2> QED
    BY <1>1, <1>4, <2>1
<1>6. PICK k : k = CHOOSE i_1 \in DOMAIN rs : Failed(rs[i_1]) /\ \A j \in 1..(i_1 - 1) : ~Failed(rs[j])
  OBVIOUS
<1>7. k \in DOMAIN rs /\ Failed(rs[k])
  BY <1>5, <1>6
<1>8. FirstFailure(rs) = rs[k]
  BY <1>6 DEF FirstFailure
<1> QED
  BY <1>7, <1>8

LEMMA CellNumberType ==
  \A a : CellNumber(a).type \in {"value", "thrown"}
BY Zenon DEF CellNumber, Value, Thrown

LEMMA NumericType ==
  \A v : Numeric(v).type \in {"value", "thrown"}
BY CellNumberType, Zenon DEF Numeric, Value, Thrown

LEMMA TextualType ==
  \A v : Textual(v).type \in {"string", "thrown"}
BY Zenon DEF Textual, Text, Thrown

LEMMA OperateType ==
  \A op, p, q : Operate(op, p, q).type \in {"value", "boolean", "error"}
BY ZenonT(60) DEF Operate, Value, Boolean, ErrorOf

\* A sequence of as many elements.
LEMMA MappedType ==
  ASSUME NEW s, IsSequence(s), NEW T, NEW t \in [DOMAIN s -> T]
  PROVE  t \in Seq(T) /\ Len(t) = Len(s) /\ IsSequence(t)
<1>1. Len(s) \in Nat /\ DOMAIN s = 1..Len(s)
  BY LenFacts
<1>2. t \in [1..Len(s) -> T]
  BY <1>1
<1>3. t \in Seq(T) /\ DOMAIN t = 1..Len(s)
  BY <1>1, <1>2
<1>4. Len(t) = Len(s)
  BY <1>1, <1>3, LenProperties
<1> QED
  BY <1>3, <1>4 DEF IsSequence

\* The numbers of a range's cells.
LEMMA RangeNumbers ==
  ASSUME NEW range, NEW A, range \in Seq(Seq(A)),
         NEW rows, rows = [i \in DOMAIN range |-> [j \in DOMAIN range[i] |-> CellNumber(range[i][j])]]
  PROVE  /\ rows \in Seq(Seq({ CellNumber(a) : a \in A }))
         /\ Len(rows) = Len(range)
         /\ \A i \in DOMAIN range : Len(rows[i]) = Len(range[i])
<1> DEFINE R == { CellNumber(a) : a \in A }
<1>1. ASSUME NEW i \in DOMAIN range PROVE rows[i] \in Seq(R) /\ Len(rows[i]) = Len(range[i])
  <2>1. range[i] \in Seq(A)
    OBVIOUS
  <2>2. IsSequence(range[i])
    BY <2>1 DEF IsSequence
  <2>3. rows[i] \in [DOMAIN range[i] -> R]
    <3>1. \A j \in DOMAIN range[i] : range[i][j] \in A
      BY <2>1
    <3> QED
      BY <3>1
  <2> HIDE DEF R
  <2> QED
    BY <2>2, <2>3, MappedType
<1> HIDE DEF R
<1>2. rows \in [DOMAIN range -> Seq(R)]
  BY <1>1
<1>3. IsSequence(range)
  BY DEF IsSequence
<1>4. rows \in Seq(Seq(R)) /\ Len(rows) = Len(range)
  BY <1>2, <1>3, MappedType
<1> QED
  BY <1>1, <1>4 DEF R

LEMMA RangeValueType ==
  ASSUME NEW range, NEW A, range \in Seq(Seq(A))
  PROVE  RangeValue(range).type \in {"matrix", "thrown", "escaped"}
<1>1. PICK rows : rows = [i \in DOMAIN range |-> [j \in DOMAIN range[i] |-> CellNumber(range[i][j])]]
  OBVIOUS
<1>2. PICK all : all = SX!FlattenSeq(rows)
  OBVIOUS
<1>3. RangeValue(range) = IF \E i \in DOMAIN all : Failed(all[i]) THEN FirstFailure(all) ELSE Matrix(rows)
  BY <1>1, <1>2 DEF RangeValue
<1>4. rows \in Seq(Seq({ CellNumber(a) : a \in A }))
  BY <1>1, RangeNumbers
<1>5. IsSequence(all)
  BY <1>2, <1>4, FlattenType DEF IsSequence
<1>6. CASE \E i \in DOMAIN all : Failed(all[i])
  BY <1>3, <1>5, <1>6, FirstFailureFails DEF Failed
<1>7. CASE ~ \E i \in DOMAIN all : Failed(all[i])
  BY <1>3, <1>7 DEF Matrix
<1> QED
  BY <1>6, <1>7

\* What an operand of term() and of expression() is taken as.
LEMMA TermOperandType ==
  ASSUME NEW v, IsStackValue(v), NEW op
  PROVE  TermOperand(op, v).type \in {"matrix", "value", "string", "thrown", "escaped"}
<1>1. v.type = "range_ref" => RangeValue(v.range).type \in {"matrix", "thrown", "escaped"}
  BY RangeValueType DEF IsStackValue, IsRange
<1>2. MatrixOr(Textual, v).type \in {"matrix", "value", "string", "thrown", "escaped"}
  BY <1>1, TextualType, Zenon DEF MatrixOr
<1>3. MatrixOr(Numeric, v).type \in {"matrix", "value", "string", "thrown", "escaped"}
  BY <1>1, NumericType, Zenon DEF MatrixOr
<1> QED
  BY <1>2, <1>3 DEF TermOperand

LEMMA OpMatrixOrNumericType ==
  ASSUME NEW op, NEW l, NEW r
  PROVE  OpMatrixOrNumeric(op, l, r).type \in {"matrix", "value", "boolean", "thrown"}
<1>1. Elementwise(LAMBDA e, f : OperateElements(op, e, f), l, r).type \in {"matrix", "thrown"}
  BY Zenon DEF Elementwise, Thrown, Matrix
<1>2. /\ MatrixAndNumber(op, l, r.number).type = "matrix"
      /\ NumberAndMatrix(op, l.number, r).type = "matrix"
  BY DEF MatrixAndNumber, NumberAndMatrix, MapMatrix, Matrix
<1>3. PICK v : v = Operate(op, l.number, r.number)
  OBVIOUS
<1>4. (IF v.type = "error" THEN Thrown(v.error) ELSE v).type \in {"value", "boolean", "thrown"}
  BY <1>3, OperateType DEF Thrown
<1> QED
  BY <1>1, <1>2, <1>3, <1>4, Zenon DEF OpMatrixOrNumeric

LEMMA ConcatType ==
  ASSUME NEW l, NEW r
  PROVE  ConcatMatrixOrString(l, r).type \in {"matrix", "string", "thrown"}
<1>1. Elementwise(LAMBDA e, f : Text(ElementText(e) \o ElementText(f)), l, r).type \in {"matrix", "thrown"}
  BY Zenon DEF Elementwise, Thrown, Matrix
<1>2. MatrixAndText(l, r.text).type = "matrix" /\ TextAndMatrix(l.text, r).type = "matrix"
  BY DEF MatrixAndText, TextAndMatrix, MapMatrix, Matrix
<1>3. Text(l.text \o r.text).type = "string"
  BY DEF Text
<1> QED
  BY <1>1, <1>2, <1>3, Zenon DEF ConcatMatrixOrString

\* A result is something that stays on the stack, or a failure.
IsOutcome(v) == IsStackValue(v) \/ v.type \in {"thrown", "escaped"}

LEMMA OutcomeOfType ==
  ASSUME NEW v, v.type \in {"value", "string", "boolean", "error", "matrix", "thrown", "escaped"}
  PROVE  IsOutcome(v)
BY DEF IsOutcome, IsStackValue

LEMMA TermResultType ==
  ASSUME NEW op, NEW l, NEW r PROVE IsOutcome(TermResult(op, l, r))
<1>1. TermResult(op, l, r).type \in {"matrix", "value", "string", "boolean", "thrown"}
  BY OpMatrixOrNumericType, ConcatType, Zenon DEF TermResult
<1> QED
  BY <1>1, OutcomeOfType

LEMMA ExpressionResultType ==
  ASSUME NEW op, NEW l, NEW r PROVE IsOutcome(ExpressionResult(op, l, r))
<1>1. PICK v : v = Operate(op, l.number, r.number)
  OBVIOUS
<1>2. (IF v.type = "boolean" THEN Value(Flag(v.boolean)) ELSE v).type \in {"value", "error"}
  BY <1>1, OperateType DEF Value
<1>3. Compare(op, l, r).type \in {"value", "thrown"}
  BY Zenon DEF Compare, Value, Thrown
<1>4. Thrown("general_error").type = "thrown"
  BY DEF Thrown
<1>5. ExpressionResult(op, l, r).type \in {"error", "value", "matrix", "boolean", "thrown"}
  BY <1>1, <1>2, <1>3, <1>4, OpMatrixOrNumericType, Zenon DEF ExpressionResult
<1> QED
  BY <1>5, OutcomeOfType

LEMMA OperandValueType ==
  ASSUME NEW t, IsToken(t), t.op \in OperandOps PROVE IsOutcome(OperandValue(t))
<1>1. CASE t.op = "single_ref"
  <2>1. OperandValue(t) = IF t.address = Position THEN Thrown("ref_result_not_available")
                          ELSE SingleRef(t.address)
    BY <1>1, Zenon DEF OperandValue
  <2>2. t.address \in DOMAIN Cells \cup {Position}
    BY <1>1 DEF IsToken
  <2>3. CASE t.address = Position
    BY <2>1, <2>3 DEF Thrown, IsOutcome
  <2>4. CASE t.address # Position
    BY <2>1, <2>2, <2>4 DEF SingleRef, IsOutcome, IsStackValue
  <2> QED
    BY <2>3, <2>4
<1>2. CASE t.op = "range_ref"
  <2> DEFINE self == \E i \in DOMAIN t.range : \E j \in DOMAIN t.range[i] : t.range[i][j] = Position
  <2>1. OperandValue(t) = IF self THEN Thrown("ref_result_not_available") ELSE RangeRef(t.range)
    BY <1>2, Zenon DEF OperandValue
  <2>2. CASE self
    BY <2>1, <2>2 DEF Thrown, IsOutcome
  <2>3. CASE ~self
    <3>1. PICK r : r = t.range
      OBVIOUS
    <3>2. /\ r \in Seq(Seq(DOMAIN Cells \cup {Position})) /\ r # << >> /\ r[1] # << >>
          /\ \A i \in DOMAIN r : Len(r[i]) = Len(r[1])
      BY <1>2, <3>1 DEF IsToken, IsRange
    <3>3. \A i \in DOMAIN r : \A j \in DOMAIN r[i] : r[i][j] # Position
      BY <2>3, <3>1
    <3>4. ASSUME NEW i \in DOMAIN r PROVE r[i] \in Seq(DOMAIN Cells)
      <4>1. r[i] \in Seq(DOMAIN Cells \cup {Position})
        BY <3>2
      <4>2. \A j \in 1..Len(r[i]) : r[i][j] \in DOMAIN Cells
        BY <3>3, <4>1
      <4>3. r[i] \in [1..Len(r[i]) -> DOMAIN Cells] /\ Len(r[i]) \in Nat
        BY <4>1, <4>2
      <4> QED
        BY <4>3
    <3>5. r \in [1..Len(r) -> Seq(DOMAIN Cells)] /\ Len(r) \in Nat
      BY <3>2, <3>4
    <3>6. r \in Seq(Seq(DOMAIN Cells))
      BY <3>5
    <3>7. IsRange(r, DOMAIN Cells)
      BY <3>2, <3>6 DEF IsRange
    <3>8. OperandValue(t) = RangeRef(r)
      BY <2>1, <2>3, <3>1
    <3> QED
      BY <3>7, <3>8 DEF RangeRef, IsOutcome, IsStackValue
  <2> QED
    BY <2>2, <2>3
<1>3. CASE t.op = "table_ref"
  <2>1. OperandValue(t) = Thrown("ref_result_not_available")
    BY <1>3, Zenon DEF OperandValue
  <2> QED
    BY <2>1 DEF Thrown, IsOutcome
<1>4. CASE t.op \in {"value", "string", "error"}
  <2>1. OperandValue(t) = t.value
    BY <1>4, Zenon DEF OperandValue
  <2>2. t.value.type = t.op
    BY <1>4 DEF IsToken
  <2> QED
    BY <1>4, <2>1, <2>2, OutcomeOfType
<1> QED
  BY <1>1, <1>2, <1>3, <1>4 DEF OperandOps

LEMMA NegatedType ==
  \A q : IsStackValue(Value(q))
BY DEF Value, IsStackValue

\* What becomes of the value that is left, a reference included.
LEMMA ResultOfType ==
  ASSUME NEW v, IsStackValue(v)
  PROVE  ResultOf(v).type \in {"value", "string", "boolean", "error", "matrix"}
<1> DEFINE cell(a) == IF Cells[a].content.type = "empty" THEN Value(Zero) ELSE Cells[a].content
<1>1. ASSUME NEW a \in DOMAIN Cells PROVE cell(a).type \in {"value", "string", "boolean", "error"}
  BY CellsAssumption DEF Value
<1>2. CASE v.type = "single_ref"
  BY <1>1, <1>2 DEF ResultOf, IsStackValue
<1>3. CASE v.type = "range_ref"
  <2>1. PICK r : r = v.range /\ r \in Seq(Seq(DOMAIN Cells)) /\ r # << >> /\ r[1] # << >>
    BY <1>3 DEF IsStackValue, IsRange
  <2>2. r[1] \in Seq(DOMAIN Cells)
    BY <2>1
  <2>3. r[1][1] \in DOMAIN Cells
    BY <2>1, <2>2
  <2>4. ResultOf(v) = cell(r[1][1])
    BY <1>3, <2>1 DEF ResultOf
  <2> QED
    BY <1>1, <2>3, <2>4
<1>4. CASE v.type \notin {"single_ref", "range_ref"}
  <2>1. ResultOf(v) = v
    BY <1>4, Zenon DEF ResultOf
  <2> QED
    BY <1>4, <2>1 DEF IsStackValue
<1> QED
  BY <1>2, <1>3, <1>4

-----------------------------------------------------------------------------
(***************************************************************************)
(* The types of the interpreter's state.                                   *)
(***************************************************************************)

\* The tokens an expanded formula is made of.
OwnTokens(j) == { j.formula[k] : k \in DOMAIN j.formula }
NameTokens(j) == UNION { { j.names[m][k] : k \in DOMAIN j.names[m] } : m \in DOMAIN j.names }
AddedTokens == {[op |-> "("], [op |-> ")"]}
TokensOf(j) == OwnTokens(j) \cup NameTokens(j) \cup AddedTokens

\* A sequence of a set's elements is one of a larger set's.
LEMMA LargerSeq ==
  ASSUME NEW S, NEW T, S \subseteq T, NEW s \in Seq(S)
  PROVE  s \in Seq(T)
<1>1. s \in [1..Len(s) -> S] /\ Len(s) \in Nat
  OBVIOUS
<1>2. s \in [1..Len(s) -> T]
  BY <1>1
<1> QED
  BY <1>1, <1>2

LEMMA JobTokens ==
  ASSUME NEW j \in Jobs
  PROVE  /\ \A t \in TokensOf(j) : IsToken(t)
         /\ j.formula \in Seq(TokensOf(j))
         /\ \A m \in DOMAIN j.names : j.names[m] \in Seq(TokensOf(j))
<1>1. IsSource(j.formula) /\ \A m \in DOMAIN j.names : IsSource(j.names[m])
  BY TokensAssumption
<1>2. IsToken([op |-> "("]) /\ IsToken([op |-> ")"])
  BY DEF IsToken
<1>3. ASSUME NEW t \in TokensOf(j) PROVE IsToken(t)
  <2>1. CASE \E k \in DOMAIN j.formula : t = j.formula[k]
    BY <1>1, <2>1 DEF IsSource
  <2>2. CASE \E m \in DOMAIN j.names : \E k \in DOMAIN j.names[m] : t = j.names[m][k]
    <3>1. PICK m \in DOMAIN j.names : \E k \in DOMAIN j.names[m] : t = j.names[m][k]
      BY <2>2
    <3>2. IsSource(j.names[m])
      BY <1>1
    <3> QED
      BY <3>1, <3>2 DEF IsSource
  <2>3. CASE t \in AddedTokens
    BY <1>2, <2>3, Zenon DEF AddedTokens
  <2>4. t \in OwnTokens(j) \/ t \in NameTokens(j) \/ t \in AddedTokens
    BY DEF TokensOf
  <2> QED
    BY <2>1, <2>2, <2>3, <2>4 DEF OwnTokens, NameTokens
<1>4. { j.formula[k] : k \in DOMAIN j.formula } \subseteq TokensOf(j)
  BY DEF TokensOf, OwnTokens
<1>5. j.formula \in Seq(TokensOf(j))
  BY <1>1, <1>4, LargerSeq DEF IsSource
<1>6. ASSUME NEW m \in DOMAIN j.names PROVE j.names[m] \in Seq(TokensOf(j))
  <2>1. { j.names[m][k] : k \in DOMAIN j.names[m] } \subseteq TokensOf(j)
    BY DEF TokensOf, NameTokens
  <2>2. PICK s : s = j.names[m]
    OBVIOUS
  <2>3. s \in Seq({ s[k] : k \in DOMAIN s })
    BY <1>1, <2>2 DEF IsSource
  <2> QED
    BY <2>1, <2>2, <2>3, LargerSeq
<1> QED
  BY <1>3, <1>5, <1>6

\* Only stack values are on the stacks.
HoldValues(st) == \E S : (\A v \in S : IsStackValue(v)) /\ st \in Seq(Seq(S))

LEMMA ValuesOnStacks ==
  ASSUME NEW st, HoldValues(st)
  PROVE  \A k \in DOMAIN st : \A n \in DOMAIN st[k] : IsStackValue(st[k][n])
<1>1. PICK S : (\A v \in S : IsStackValue(v)) /\ st \in Seq(Seq(S))
  BY DEF HoldValues
<1>2. ASSUME NEW k \in DOMAIN st, NEW n \in DOMAIN st[k] PROVE st[k][n] \in S
  <2>1. st[k] \in Seq(S)
    BY <1>1
  <2> QED
    BY <2>1
<1> QED
  BY <1>1, <1>2

LEMMA RoomForValue ==
  ASSUME NEW st, HoldValues(st), NEW v, IsStackValue(v)
  PROVE  \E S : (\A w \in S : IsStackValue(w)) /\ st \in Seq(Seq(S)) /\ v \in S
<1>1. PICK S : (\A w \in S : IsStackValue(w)) /\ st \in Seq(Seq(S))
  BY DEF HoldValues
<1>2. PICK T : T = S \cup {v}
  OBVIOUS
<1>3. Seq(S) \subseteq Seq(T)
  BY <1>2, LargerSeq
<1>4. st \in Seq(Seq(T))
  BY <1>1, <1>3, LargerSeq
<1> QED
  BY <1>1, <1>2, <1>4

\* A value is pushed, popped, or takes the place of the one on top.
LEMMA StackChanges ==
  ASSUME NEW st, HoldValues(st), st # << >>
  PROVE  /\ st[1] # << >> => HoldValues([st EXCEPT ![1] = Tail(@)])
         /\ \A v : IsStackValue(v) => HoldValues([st EXCEPT ![1] = << v >> \o @])
         /\ \A v : IsStackValue(v) /\ st[1] # << >> =>
              HoldValues([st EXCEPT ![1] = << v >> \o Tail(@)])
         /\ HoldValues(<< << >> >> \o st)
<1>1. PICK S : (\A w \in S : IsStackValue(w)) /\ st \in Seq(Seq(S))
  BY DEF HoldValues
<1>2. st[1] \in Seq(S)
  BY <1>1
<1>3. ASSUME st[1] # << >> PROVE HoldValues([st EXCEPT ![1] = Tail(@)])
  <2>1. Tail(st[1]) \in Seq(S)
    BY <1>2, <1>3
  <2>2. [st EXCEPT ![1] = Tail(@)] \in Seq(Seq(S))
    BY <1>1, <2>1
  <2> QED
    BY <1>1, <2>2 DEF HoldValues
<1>4. ASSUME NEW v, IsStackValue(v) PROVE HoldValues([st EXCEPT ![1] = << v >> \o @])
  <2>1. PICK T : (\A w \in T : IsStackValue(w)) /\ st \in Seq(Seq(T)) /\ v \in T
    BY <1>4, RoomForValue
  <2>2. << v >> \o st[1] \in Seq(T)
    BY <2>1
  <2>3. [st EXCEPT ![1] = << v >> \o @] \in Seq(Seq(T))
    BY <2>1, <2>2
  <2> QED
    BY <2>1, <2>3 DEF HoldValues
<1>5. ASSUME NEW v, IsStackValue(v), st[1] # << >>
      PROVE  HoldValues([st EXCEPT ![1] = << v >> \o Tail(@)])
  <2>1. PICK T : (\A w \in T : IsStackValue(w)) /\ st \in Seq(Seq(T)) /\ v \in T
    BY <1>5, RoomForValue
  <2>2. << v >> \o Tail(st[1]) \in Seq(T)
    BY <1>5, <2>1
  <2>3. [st EXCEPT ![1] = << v >> \o Tail(@)] \in Seq(Seq(T))
    BY <2>1, <2>2
  <2> QED
    BY <2>1, <2>3 DEF HoldValues
<1>6. HoldValues(<< << >> >> \o st)
  <2>1. << << >> >> \o st \in Seq(Seq(S))
    BY <1>1
  <2> QED
    BY <1>1, <2>1 DEF HoldValues
<1> QED
  BY <1>3, <1>4, <1>5, <1>6

\* The value of a call goes to the stack below.
LEMMA StackCloses ==
  ASSUME NEW st, HoldValues(st), Len(st) >= 2, NEW v, IsStackValue(v)
  PROVE  HoldValues(<< << v >> \o st[2] >> \o Tail(Tail(st)))
<1>1. PICK S : (\A w \in S : IsStackValue(w)) /\ st \in Seq(Seq(S)) /\ v \in S
  BY RoomForValue
<1>2. << v >> \o st[2] \in Seq(S)
  BY <1>1
<1>3. Tail(st) \in Seq(Seq(S)) /\ Tail(st) # << >>
  <2>1. st # << >> /\ Len(st) \in Nat
    BY <1>1
  <2>2. Tail(st) \in Seq(Seq(S))
    BY <1>1, <2>1
  <2>3. PICK t : t = Tail(st)
    OBVIOUS
  <2>4. t \in Seq(Seq(S)) /\ Len(t) = Len(st) - 1
    BY <1>1, <2>1, <2>2, <2>3
  <2>5. t # << >>
    BY <2>1, <2>4
  <2> QED
    BY <2>2, <2>3, <2>5
<1>4. Tail(Tail(st)) \in Seq(Seq(S))
  BY <1>3
<1>5. << << v >> \o st[2] >> \o Tail(Tail(st)) \in Seq(Seq(S))
  BY <1>2, <1>4
<1> QED
  BY <1>1, <1>5 DEF HoldValues

\* The handlers.
Steps ==
  {"expand", "expression", "term", "factor", "operand", "arguments", "array", "return", "done"}
Handlers ==
  {"expression", "expression_right", "term", "term_right", "negate", "paren", "function", "array"}

\* What a frame's handler pushes or throws next is of these types.
Endings == {"value", "string", "boolean", "error", "matrix", "thrown", "escaped"}

IsSourceOf(j, ex, ts) ==
  /\ ex \in Seq(Seq(TokensOf(j)))
  /\ ts \in Seq(TokensOf(j))

FramesInv ==
  /\ at \in Steps
  /\ \A k \in DOMAIN calls : calls[k].in \in Handlers
  /\ HoldValues(stacks) /\ stacks # << >>
  /\ IF at = "done" THEN outcome.type \in Endings ELSE outcome = Unfinished

PlaceInv ==
  /\ IsSourceOf(job, expanding, tokens)
  /\ cur \in 1..(Len(tokens) + 1)
  /\ at = "operand" => cur <= Len(tokens)

TypesInv == ExpansionInv /\ DescentInv /\ PlaceInv /\ FramesInv

LEMMA TypesMean == TypesInv => TypeOK
<1> SUFFICES ASSUME TypesInv PROVE TypeOK
  OBVIOUS
<1>1. \A k \in DOMAIN stacks : \A n \in DOMAIN stacks[k] : IsStackValue(stacks[k][n])
  BY ValuesOnStacks DEF TypesInv, FramesInv
<1>2. outcome.type \in Endings \cup {"unfinished"} /\ (at = "done") = (outcome # Unfinished)
  BY DEF TypesInv, FramesInv, Unfinished, Endings
<1> QED
  BY <1>1, <1>2 DEF TypesInv, FramesInv, PlaceInv, ExpansionInv, Steps, Handlers, Endings, TypeOK

LEMMA TypesStart == Init => TypesInv
<1> SUFFICES ASSUME Init PROVE TypesInv
  OBVIOUS
<1>1. ExpansionInv /\ DescentInv
  BY ExpansionStarts, DescentStarts
<1>2. job.formula \in Seq(TokensOf(job))
  BY JobTokens DEF Init
<1>3. IsSourceOf(job, expanding, tokens)
  BY <1>2 DEF Init, IsSourceOf
<1>4. PlaceInv
  BY <1>3 DEF Init, PlaceInv
<1>5. HoldValues(stacks) /\ stacks # << >>
  <2>1. stacks \in Seq(Seq({})) /\ stacks # << >>
    BY DEF Init
  <2> QED
    BY <2>1 DEF HoldValues
<1> QED
  BY <1>1, <1>4, <1>5 DEF Init, TypesInv, FramesInv, Steps

\* Where the descent is in the tokens.
LEMMA ExpansionKeepsPlace ==
  ASSUME TypesInv, ExpandToken \/ EnterName \/ LeaveName \/ StartInterpretation
  PROVE  PlaceInv'
<1>1. /\ job \in Jobs /\ expanding \in Seq(Seq(TokensOf(job))) /\ tokens \in Seq(TokensOf(job))
      /\ cur \in 1..(Len(tokens) + 1) /\ at = "expand" /\ expanding # << >>
  BY DEF TypesInv, PlaceInv, IsSourceOf, ExpansionInv, ExpandToken, EnterName, LeaveName, StartInterpretation
<1>2. PICK T : T = TokensOf(job)
  OBVIOUS
<1>3. [op |-> "("] \in T /\ [op |-> ")"] \in T
  <2>1. [op |-> "("] \in AddedTokens /\ [op |-> ")"] \in AddedTokens
    BY Zenon DEF AddedTokens
  <2> QED
    BY <1>2, <2>1 DEF TokensOf
<1>4. \A m \in DOMAIN job.names : job.names[m] \in Seq(T)
  BY <1>1, <1>2, JobTokens
<1>5. job' = job /\ cur' = cur
  BY DEF ExpandToken, EnterName, LeaveName, StartInterpretation, Throw, Finish
<1>6. /\ expanding' \in Seq(Seq(T)) /\ tokens' \in Seq(T)
      /\ Len(tokens') >= Len(tokens) /\ Len(tokens') \in Nat
  <2>1. CASE UNCHANGED << expanding, tokens >>
    BY <1>1, <1>2, <2>1
  <2>2. CASE ExpandToken
    <3>1. Head(expanding) \in Seq(T) /\ Head(expanding) # << >>
      BY <1>1, <1>2, <2>2 DEF ExpandToken
    <3>2. NextSource \in T /\ Tail(expanding[1]) \in Seq(T)
      BY <1>1, <1>2, <3>1 DEF NextSource
    <3>3. tokens' \in Seq(T) /\ Len(tokens') = Len(tokens) + 1
      BY <1>1, <1>2, <2>2, <3>2 DEF ExpandToken
    <3>4. expanding' \in Seq(Seq(T))
      BY <1>1, <1>2, <2>2, <3>2 DEF ExpandToken, RestOfSource
    <3> QED
      BY <1>1, <1>2, <3>3, <3>4
  <2>3. CASE EnterName /\ ~UNCHANGED << expanding, tokens >>
    <3>1. Head(expanding) \in Seq(T) /\ Head(expanding) # << >>
      BY <1>1, <1>2, <2>3 DEF EnterName
    <3>2. Tail(expanding[1]) \in Seq(T)
      BY <1>1, <1>2, <3>1
    <3>3. RestOfSource \in Seq(Seq(T))
      BY <1>1, <1>2, <3>2 DEF RestOfSource
    <3>4. PICK name \in DOMAIN job.names :
            expanding' = << job.names[name] >> \o RestOfSource /\ tokens' = Append(tokens, [op |-> "("])
      BY <2>3 DEF EnterName, Throw, Finish
    <3>5. expanding' \in Seq(Seq(T))
      BY <1>4, <3>3, <3>4
    <3> QED
      BY <1>1, <1>2, <1>3, <3>4, <3>5
  <2>4. CASE LeaveName
    <3>1. expanding' = Tail(expanding) /\ tokens' = Append(tokens, [op |-> ")"])
      BY <2>4 DEF LeaveName
    <3> QED
      BY <1>1, <1>2, <1>3, <3>1
  <2>5. CASE StartInterpretation
    BY <2>1, <2>5 DEF StartInterpretation, Throw, Finish
  <2> QED
    BY <2>1, <2>2, <2>3, <2>4, <2>5
<1>7. at' # "operand"
  BY <1>1 DEF ExpandToken, EnterName, LeaveName, StartInterpretation, Throw, Finish
<1>8. cur \in 1..(Len(tokens') + 1)
  BY <1>1, <1>6
<1> QED
  BY <1>2, <1>5, <1>6, <1>7, <1>8 DEF PlaceInv, IsSourceOf

\* A step of the descent consumes a token or two, or none.
LEMMA PlaceMoves ==
  ASSUME PlaceInv, UNCHANGED << job, expanding, tokens >>,
         cur' \in 1..(Len(tokens) + 1), at' = "operand" => cur' <= Len(tokens)
  PROVE  PlaceInv'
BY DEF PlaceInv, IsSourceOf

LEMMA DescentKeepsPlace ==
  ASSUME TypesInv, [Next]_vars,
         ~(ExpandToken \/ EnterName \/ LeaveName \/ StartInterpretation)
  PROVE  PlaceInv'
<1>1. PlaceInv /\ cur \in 1..(Len(tokens) + 1) /\ Len(tokens) \in Nat /\ (at = "operand" => cur <= Len(tokens))
  BY DEF TypesInv, PlaceInv, IsSourceOf
<1>2. CASE UNCHANGED << job, expanding, tokens, cur >> /\ at' # "operand"
  BY <1>1, <1>2, PlaceMoves
<1>3. CASE UNCHANGED << job, expanding, tokens >> /\ cur' = cur + 1 /\ cur <= Len(tokens) /\ at' # "operand"
  BY <1>1, <1>3, PlaceMoves
<1>4. CASE UNCHANGED vars
  BY <1>1, <1>4, PlaceMoves DEF vars
<1>5. CASE EnterExpression \/ EnterTerm \/ NoOperand \/ EndInterpretation
  BY <1>2, <1>5 DEF EnterExpression, EnterTerm, NoOperand, EndInterpretation, Descend, Throw, Finish
<1>6. CASE Sign
  <2>1. CASE Throw("invalid_expression")
    BY <1>2, <2>1 DEF Throw, Finish
  <2>2. CASE ~Throw("invalid_expression")
    <3>1. /\ HasToken /\ ~(TokenIn(SignOps) /\ cur = Len(tokens))
          /\ cur' = IF TokenIn(SignOps) THEN cur + 1 ELSE cur
          /\ Descend
      BY <1>6, <2>2, Zenon DEF Sign
    <3>2. cur <= Len(tokens)
      BY <3>1 DEF HasToken
    <3>3. cur' \in 1..(Len(tokens) + 1) /\ cur' <= Len(tokens)
      BY <1>1, <3>1, <3>2
    <3> QED
      BY <1>1, <3>1, <3>3, PlaceMoves DEF Descend
  <2> QED
    BY <2>1, <2>2
<1>7. CASE Operand
  <2>1. UNCHANGED << job, expanding, tokens >> /\ cur' \in {cur, cur + 1} /\ at' # "operand" /\ at = "operand"
    BY <1>7 DEF Operand, Descend, Finish
  <2> QED
    BY <1>1, <1>2, <1>3, <2>1
<1>8. CASE OpenParen \/ OpenArray
  BY <1>1, <1>3, <1>8 DEF OpenParen, OpenArray, Descend
<1>9. CASE OpenFunction
  <2>1. CASE Throw("invalid_expression")
    BY <1>2, <2>1 DEF Throw, Finish
  <2>2. CASE ~Throw("invalid_expression")
    <3>1. cur + 2 <= Len(tokens) /\ cur' = cur + 2 /\ at' = "arguments" /\ Descend
      BY <1>1, <1>9, <2>2 DEF OpenFunction
    <3>2. cur' \in 1..(Len(tokens) + 1)
      BY <1>1, <3>1
    <3> QED
      BY <1>1, <3>1, <3>2, PlaceMoves DEF Descend
  <2> QED
    BY <2>1, <2>2
<1>10. CASE NextArgument
  <2>1. \/ UNCHANGED << job, expanding, tokens, cur >> /\ at' # "operand"
        \/ UNCHANGED << job, expanding, tokens >> /\ cur' = cur + 1 /\ cur < Len(tokens) /\ at' # "operand"
    BY <1>10 DEF NextArgument, Descend, Throw, Finish
  <2> QED
    BY <1>1, <1>2, <1>3, <2>1
<1>11. CASE CallFunction
  <2>1. TokenIn({")"}) /\ UNCHANGED << job, expanding, tokens >> /\ cur' \in {cur, cur + 1} /\ at' # "operand"
    BY <1>11 DEF CallFunction, Descend, Finish
  <2>2. cur <= Len(tokens)
    BY <2>1 DEF TokenIn, HasToken
  <2> QED
    BY <1>1, <1>2, <1>3, <2>1, <2>2
<1>12. CASE ArrayStep
  <2>1. CASE ~ArrayTokenValid
    <3>1. Throw("invalid_expression")
      BY <1>12, <2>1, Zenon DEF ArrayStep
    <3> QED
      BY <1>2, <3>1 DEF Throw, Finish
  <2>2. CASE ArrayTokenValid
    <3>1. Descend /\ cur' = ArrayTokenAt + 1 /\ at' # "operand"
      BY <1>12, <2>2, Zenon DEF ArrayStep
    <3>2. ArrayTokenAt <= Len(tokens) /\ ArrayTokenAt \in {cur, cur + 1}
      BY <2>2 DEF ArrayTokenValid, ArrayTokenAt
    <3>3. cur' \in 1..(Len(tokens) + 1)
      BY <1>1, <3>1, <3>2
    <3> QED
      BY <1>1, <3>1, <3>3, PlaceMoves DEF Descend
  <2> QED
    BY <2>1, <2>2
<1>13. CASE Negate \/ AfterRightTerm \/ AfterNextTerm
  <2>1. UNCHANGED << job, expanding, tokens, cur >> /\ at' # "operand"
    BY <1>13 DEF Negate, AfterRightTerm, AfterNextTerm, Returning, Descend, Finish
  <2> QED
    BY <1>2, <2>1
<1>14. CASE AfterFactor \/ AfterTerm
  <2>1. \/ UNCHANGED << job, expanding, tokens, cur >> /\ at' # "operand"
        \/ UNCHANGED << job, expanding, tokens >> /\ cur' = cur + 1 /\ HasToken /\ at' # "operand"
    BY <1>14 DEF AfterFactor, AfterTerm, Returning, TokenIn, Descend, Finish
  <2> QED
    BY <1>1, <1>2, <1>3, <2>1 DEF HasToken
<1>15. CASE CloseParen \/ AfterArgument
  <2>1. \/ UNCHANGED << job, expanding, tokens, cur >> /\ at' # "operand"
        \/ UNCHANGED << job, expanding, tokens >> /\ cur' = cur + 1 /\ HasToken /\ at' # "operand"
    BY <1>15 DEF CloseParen, AfterArgument, Returning, TokenIn, Descend, Throw, Finish
  <2> QED
    BY <1>1, <1>2, <1>3, <2>1 DEF HasToken
<1> QED
  BY <1>4, <1>5, <1>6, <1>7, <1>8, <1>9, <1>10, <1>11, <1>12, <1>13, <1>14, <1>15 DEF Next

\* What is assumed of the functions: on values they give one, or an exception,
\* or do not return.
AreValues(args) == IsSequence(args) /\ \A k \in DOMAIN args : IsStackValue(args[k])
FunctionsGiveValues ==
  \A f, args : AreValues(args) => IsOutcome(Functions(f, args)) \/ Functions(f, args) = Endless

\* A handler calls, goes on or returns.
LEMMA FramesMove ==
  ASSUME TypesInv, at # "done", at' \in Steps \ {"done"}, outcome' = outcome,
         HoldValues(stacks'), stacks' # << >>,
         \/ calls' = calls \/ (calls # << >> /\ calls' = Tail(calls))
         \/ \E f : f.in \in Handlers /\ calls' = << f >> \o calls
         \/ calls # << >> /\ \E f : f.in \in Handlers /\ calls' = << f >> \o Tail(calls)
  PROVE  FramesInv'
<1>1. IsSequence(calls) /\ (\A k \in DOMAIN calls : calls[k].in \in Handlers) /\ outcome = Unfinished
  BY DescentFacts DEF TypesInv, FramesInv
<1>2. \A k \in 1..Len(calls) : calls[k].in \in Handlers
  BY <1>1, LenFacts
<1>3. calls # << >> => IsSequence(Tail(calls)) /\ \A k \in 1..Len(Tail(calls)) : Tail(calls)[k].in \in Handlers
  <2> SUFFICES ASSUME calls # << >> PROVE IsSequence(Tail(calls)) /\ \A k \in 1..Len(Tail(calls)) : Tail(calls)[k].in \in Handlers
    OBVIOUS
  <2>1. /\ IsSequence(Tail(calls)) /\ Len(Tail(calls)) = Len(calls) - 1 /\ Len(calls) \in Nat \ {0}
        /\ \A k \in 1..(Len(calls) - 1) : Tail(calls)[k] = calls[k + 1]
    BY <1>1, TailFacts
  <2>2. ASSUME NEW k \in 1..Len(Tail(calls)) PROVE Tail(calls)[k].in \in Handlers
    <3>1. k + 1 \in 1..Len(calls) /\ Tail(calls)[k] = calls[k + 1]
      BY <2>1
    <3> QED
      BY <1>2, <3>1
  <2> QED
    BY <2>1, <2>2
<1>4. ASSUME NEW c, IsSequence(c), \A k \in 1..Len(c) : c[k].in \in Handlers, NEW f, f.in \in Handlers
      PROVE  IsSequence(<< f >> \o c) /\ \A k \in 1..Len(<< f >> \o c) : (<< f >> \o c)[k].in \in Handlers
  <2>1. IsSequence(<< f >> \o c)
    BY <1>4, ConsFacts
  <2>2. ASSUME NEW k \in 1..Len(<< f >> \o c) PROVE (<< f >> \o c)[k].in \in Handlers
    BY <1>4, ConsElements
  <2> QED
    BY <2>1, <2>2
<1>5. IsSequence(calls') /\ \A k \in 1..Len(calls') : calls'[k].in \in Handlers
  BY <1>1, <1>2, <1>3, <1>4
<1>6. \A k \in DOMAIN calls' : calls'[k].in \in Handlers
  BY <1>5, LenFacts
<1> QED
  BY <1>1, <1>6 DEF FramesInv

LEMMA FramesEnd ==
  ASSUME FramesInv, NEW v, v.type \in Endings, Finish(v)
  PROVE  FramesInv'
BY DEF FramesInv, Finish, Steps

LEMMA FramesThrow ==
  ASSUME FramesInv, NEW e, Throw(e)
  PROVE  FramesInv'
<1>1. PICK v : v = Thrown(e)
  OBVIOUS
<1>2. v.type \in Endings
  BY <1>1 DEF Thrown, Endings
<1>3. Finish(v)
  BY <1>1 DEF Throw
<1> QED
  BY <1>2, <1>3, FramesEnd

LEMMA FramesFail ==
  ASSUME FramesInv, NEW v, Failed(v), Finish(v)
  PROVE  FramesInv'
BY FramesEnd DEF Failed, Endings

\* The stack a handler that was called leaves.
LEMMA TopValue ==
  ASSUME TypesInv, at = "return"
  PROVE  /\ IsStackValue(Top) /\ stacks[1] # << >> /\ HoldValues(stacks) /\ stacks # << >>
         /\ HoldValues(Popped) /\ Popped # << >>
         /\ \A v : IsStackValue(v) => HoldValues(Replaced(v)) /\ Replaced(v) # << >>
<1>1. Stack = stacks[1] /\ IsSequence(Stack) /\ Stack # << >> /\ HoldValues(stacks) /\ stacks # << >>
  BY DescentFacts DEF TypesInv, FramesInv
<1>2. PICK S : (\A w \in S : IsStackValue(w)) /\ stacks \in Seq(Seq(S))
  BY <1>1 DEF HoldValues
<1>3. Top \in S
  <2>1. stacks[1] \in Seq(S) /\ stacks[1] # << >>
    BY <1>1, <1>2
  <2> QED
    BY <1>1, <2>1 DEF Top
<1>4. HoldValues(Popped) /\ \A v : IsStackValue(v) => HoldValues(Replaced(v))
  BY <1>1, StackChanges DEF Popped, Replaced
<1>5. Popped # << >> /\ \A v : Replaced(v) # << >>
  <2>1. 1 \in DOMAIN stacks
    BY <1>1, <1>2
  <2> QED
    BY <2>1 DEF Popped, Replaced
<1> QED
  BY <1>1, <1>2, <1>3, <1>4, <1>5

LEMMA PushValue ==
  ASSUME TypesInv, NEW v, IsStackValue(v)
  PROVE  HoldValues(Pushed(v)) /\ Pushed(v) # << >>
<1>1. HoldValues(stacks) /\ stacks # << >>
  BY DEF TypesInv, FramesInv
<1>2. 1 \in DOMAIN stacks
  BY <1>1 DEF HoldValues
<1>3. Pushed(v) # << >>
  BY <1>2 DEF Pushed
<1>4. HoldValues(Pushed(v))
  BY <1>1, StackChanges DEF Pushed
<1> QED
  BY <1>3, <1>4

LEMMA ExpandKeepsFrames ==
  ASSUME TypesInv, ExpandToken \/ EnterName \/ LeaveName \/ StartInterpretation
  PROVE  FramesInv'
<1>1. FramesInv /\ at = "expand"
  BY DEF TypesInv, ExpandToken, EnterName, LeaveName, StartInterpretation
<1>2. CASE \E e : Throw(e)
  BY <1>1, <1>2, FramesThrow
<1>3. CASE ~ \E e : Throw(e)
  <2>1. UNCHANGED << calls, stacks, outcome >> /\ at' \in {"expand", "expression"}
    BY <1>1, <1>3 DEF ExpandToken, EnterName, LeaveName, StartInterpretation
  <2> QED
    BY <1>1, <2>1 DEF FramesInv, Steps
<1> QED
  BY <1>2, <1>3

LEMMA EnterKeepsFrames ==
  ASSUME TypesInv, EnterExpression \/ EnterTerm \/ OpenParen \/ OpenArray \/ Sign \/ NoOperand
  PROVE  FramesInv'
<1>1. FramesInv /\ at \in {"expression", "term", "factor", "operand"}
  BY DEF TypesInv, EnterExpression, EnterTerm, OpenParen, OpenArray, Sign, NoOperand
<1>2. CASE \E e : Throw(e)
  BY <1>1, <1>2, FramesThrow
<1>3. CASE ~ \E e : Throw(e)
  <2>1. /\ UNCHANGED << stacks, outcome >> /\ at' \in {"term", "factor", "operand", "expression", "array"}
        /\ \/ calls' = calls
           \/ \E f : f.in \in Handlers /\ calls' = << f >> \o calls
    <3>1. CASE EnterExpression
      <4>1. [in |-> "expression"].in \in Handlers
        BY DEF Handlers
      <4> QED
        BY <3>1, <4>1 DEF EnterExpression, Descend, CalledBy
    <3>2. CASE EnterTerm
      <4>1. [in |-> "term"].in \in Handlers
        BY DEF Handlers
      <4> QED
        BY <3>2, <4>1 DEF EnterTerm, Descend, CalledBy
    <3>3. CASE OpenParen
      <4>1. [in |-> "paren"].in \in Handlers
        BY DEF Handlers
      <4> QED
        BY <3>3, <4>1 DEF OpenParen, Descend, CalledBy
    <3>4. CASE OpenArray
      <4>1. PICK f : f = [in |-> "array", rows |-> << >>, row |-> << >>, prev_op |-> "{"]
        OBVIOUS
      <4>2. f.in \in Handlers
        BY <4>1 DEF Handlers
      <4> QED
        BY <3>4, <4>1, <4>2 DEF OpenArray, Descend, CalledBy
    <3>5. CASE Sign
      <4>1. PICK f : f = [in |-> "negate"]
        OBVIOUS
      <4>2. f.in \in Handlers
        BY <4>1 DEF Handlers
      <4>3. /\ calls' = IF TokenIn({"-"}) THEN CalledBy([in |-> "negate"]) ELSE calls
            /\ at' = "operand" /\ Descend /\ stacks' = stacks
        BY <1>3, <3>5, Zenon DEF Sign
      <4> QED
        BY <4>1, <4>2, <4>3 DEF Descend, CalledBy
    <3>6. ~NoOperand
      BY <1>3 DEF NoOperand
    <3> QED
      BY <3>1, <3>2, <3>3, <3>4, <3>5, <3>6
  <2>2. HoldValues(stacks) /\ stacks # << >>
    BY <1>1 DEF FramesInv
  <2>3. at # "done" /\ at' \in Steps \ {"done"}
    BY <1>1, <2>1 DEF Steps
  <2> QED
    BY <2>1, <2>2, <2>3, FramesMove
<1> QED
  BY <1>2, <1>3

LEMMA OperandKeepsFrames ==
  ASSUME TypesInv, Operand
  PROVE  FramesInv'
<1>1. FramesInv /\ at = "operand" /\ Token.op \in OperandOps
  BY DEF TypesInv, Operand
<1>2. IsToken(Token)
  <2>1. cur \in 1..Len(tokens) /\ tokens \in Seq(TokensOf(job)) /\ job \in Jobs
    BY <1>1 DEF TypesInv, PlaceInv, IsSourceOf, ExpansionInv
  <2>2. Token \in TokensOf(job)
    BY <2>1 DEF Token
  <2> QED
    BY <2>1, <2>2, JobTokens
<1>3. PICK v : v = OperandValue(Token) /\
               IF Failed(v) THEN Finish(v)
               ELSE stacks' = Pushed(v) /\ at' = "return" /\ Descend /\ calls' = calls
  BY DEF Operand
<1>4. IsOutcome(v)
  BY <1>1, <1>2, <1>3, OperandValueType
<1>5. CASE Failed(v)
  BY <1>1, <1>3, <1>5, FramesFail
<1>6. CASE ~Failed(v)
  <2>1. IsStackValue(v)
    BY <1>4, <1>6 DEF IsOutcome, Failed
  <2>2. HoldValues(stacks') /\ stacks' # << >>
    BY <1>3, <1>6, <2>1, PushValue
  <2>3. at' \in Steps \ {"done"} /\ at # "done" /\ outcome' = outcome /\ calls' = calls
    BY <1>1, <1>3, <1>6 DEF Steps, Descend
  <2> QED
    BY <2>2, <2>3, FramesMove
<1> QED
  BY <1>5, <1>6

LEMMA OpenFunctionKeepsFrames ==
  ASSUME TypesInv, OpenFunction
  PROVE  FramesInv'
<1>1. FramesInv /\ at = "operand"
  BY DEF TypesInv, OpenFunction
<1>2. CASE \E e : Throw(e)
  BY <1>1, <1>2, FramesThrow
<1>3. CASE ~ \E e : Throw(e)
  <2>1. PICK f : f = [in |-> "function", name |-> Token.name, expect_sep |-> FALSE]
    OBVIOUS
  <2>2. stacks' = << << >> >> \o stacks /\ calls' = << f >> \o calls /\ at' = "arguments" /\ outcome' = outcome
    BY <1>3, <2>1 DEF OpenFunction, CalledBy, Descend
  <2>3. f.in \in Handlers
    BY <2>1 DEF Handlers
  <2>4. HoldValues(stacks) /\ stacks # << >>
    BY <1>1 DEF FramesInv
  <2>5. HoldValues(stacks')
    BY <2>2, <2>4, StackChanges
  <2>6. stacks' # << >>
    BY <2>2, <2>4 DEF HoldValues
  <2>7. at # "done" /\ at' \in Steps \ {"done"}
    BY <1>1, <2>2 DEF Steps
  <2> QED
    BY <2>2, <2>3, <2>5, <2>6, <2>7, FramesMove
<1> QED
  BY <1>2, <1>3

LEMMA LoopKeepsFrames ==
  ASSUME TypesInv, NextArgument \/ AfterArgument \/ CloseParen
  PROVE  FramesInv'
<1>1. FramesInv /\ at # "done" /\ DescentInv
  BY DEF TypesInv, NextArgument, AfterArgument, CloseParen, Returning
<1>2. CASE \E e : Throw(e)
  BY <1>1, <1>2, FramesThrow
<1>3. CASE ~ \E e : Throw(e)
  <2>1. calls # << >>
    BY <1>1 DEF DescentInv, NextArgument, AfterArgument, CloseParen, Returning
  <2>2. UNCHANGED << stacks, outcome >> /\ at' \in {"expression", "arguments", "return"}
    BY <1>3 DEF NextArgument, AfterArgument, CloseParen, Returning, Descend
  <2>3. Caller.in \in Handlers
    <3>1. Caller = calls[1] /\ IsSequence(calls)
      BY <1>1, <2>1, DescentFacts
    <3>2. 1 \in DOMAIN calls
      BY <2>1, <3>1, LenFacts
    <3> QED
      BY <1>1, <3>1, <3>2 DEF FramesInv
  <2>4. PICK f, g : f = [Caller EXCEPT !.expect_sep = FALSE] /\ g = [Caller EXCEPT !.expect_sep = TRUE]
    OBVIOUS
  <2>5. "in" \in DOMAIN Caller
    BY <1>1, <2>1, DescentFacts DEF IsAFrame
  <2>6. f.in = Caller.in /\ g.in = Caller.in
    BY <2>4, <2>5
  <2>7. \/ calls' = calls \/ calls' = Tail(calls)
        \/ calls' = << f >> \o Tail(calls) \/ calls' = << g >> \o Tail(calls)
    BY <1>3, <2>4 DEF NextArgument, AfterArgument, CloseParen, Resumed
  <2>8. HoldValues(stacks') /\ stacks' # << >> /\ at' \in Steps \ {"done"}
    BY <1>1, <2>2 DEF FramesInv, Steps
  <2> QED
    BY <1>1, <2>1, <2>2, <2>3, <2>6, <2>7, <2>8, FramesMove
<1> QED
  BY <1>2, <1>3

\* The arguments of a call, in the order they were pushed.
LEMMA ArgumentsAreValues ==
  ASSUME TypesInv, at # "done"
  PROVE  AreValues([i \in DOMAIN Stack |-> Stack[Len(Stack) + 1 - i]])
<1>1. stacks # << >> /\ Stack = stacks[1]
  BY DescentFacts DEF TypesInv, FramesInv
<1>2. PICK S : (\A w \in S : IsStackValue(w)) /\ stacks \in Seq(Seq(S))
  BY DEF TypesInv, FramesInv, HoldValues
<1>3. PICK s \in Seq(S) : s = Stack
  BY <1>1, <1>2
<1>4. PICK args : args = [i \in DOMAIN s |-> s[Len(s) + 1 - i]]
  OBVIOUS
<1>5. ASSUME NEW i \in DOMAIN s PROVE args[i] \in S
  <2>1. Len(s) + 1 - i \in 1..Len(s)
    BY <1>3
  <2> QED
    BY <1>3, <1>4, <2>1
<1>6. args \in [DOMAIN s -> S] /\ IsSequence(s)
  BY <1>3, <1>4, <1>5 DEF IsSequence
<1>7. args \in Seq(S)
  BY <1>6, MappedType
<1>8. AreValues(args)
  BY <1>2, <1>7 DEF AreValues, IsSequence
<1> QED
  BY <1>3, <1>4, <1>8

LEMMA CallKeepsFrames ==
  ASSUME TypesInv, CallFunction, FunctionsGiveValues
  PROVE  FramesInv'
<1>1. FramesInv /\ at = "arguments" /\ DescentInv /\ calls # << >> /\ InOrder(calls, stacks, at)
  BY DescentFacts DEF TypesInv, CallFunction, DescentInv
<1>2. PICK v : v = CallResult /\ v # Endless /\
               IF Failed(v) THEN Finish(v)
               ELSE /\ stacks' = << << v >> \o stacks[2] >> \o Tail(Tail(stacks))
                    /\ calls' = Tail(calls) /\ at' = "return" /\ Descend
  BY DEF CallFunction
<1>3. IsOutcome(v)
  <2>1. AreValues([i \in DOMAIN Stack |-> Stack[Len(Stack) + 1 - i]])
    BY <1>1, ArgumentsAreValues
  <2> QED
    BY <1>2, <2>1 DEF CallResult, FunctionsGiveValues
<1>4. CASE Failed(v)
  BY <1>1, <1>2, <1>4, FramesFail
<1>5. CASE ~Failed(v)
  <2>1. IsStackValue(v)
    BY <1>3, <1>5 DEF IsOutcome, Failed
  <2>2. Len(stacks) >= 2 /\ HoldValues(stacks)
    <3>1. Caller = calls[1] /\ Caller.in = "function" /\ IsSequence(calls)
      BY <1>1, DescentFacts DEF DescentInv
    <3>2. FramesOf(calls) # {}
      BY <1>1, <3>1, FramesTail
    <3>3. Len(stacks) \in Nat \ {0} /\ Len(stacks) # 1
      BY <1>1, <3>2, Bottom
    <3>4. PICK n : n = Len(stacks)
      OBVIOUS
    <3>5. n >= 2
      BY <3>3, <3>4
    <3> QED
      BY <1>1, <3>4, <3>5 DEF FramesInv
  <2>3. PICK w : w = << v >> \o stacks[2]
    OBVIOUS
  <2>4. HoldValues(stacks')
    BY <1>2, <1>5, <2>1, <2>2, StackCloses
  <2>5. stacks' # << >>
    <3>1. IsSequence(stacks) /\ stacks # << >>
      BY <1>1 DEF InOrder, FramesInv
    <3>2. IsSequence(Tail(stacks)) /\ Len(Tail(stacks)) = Len(stacks) - 1 /\ Len(stacks) \in Nat
      BY <3>1, TailFacts
    <3>3. Tail(stacks) # << >>
      <4>1. PICK n : n = Len(stacks)
        OBVIOUS
      <4>2. PICK t : t = Tail(stacks)
        OBVIOUS
      <4>3. n \in Nat /\ n >= 2 /\ Len(t) = n - 1
        BY <2>2, <3>2, <4>1, <4>2
      <4>4. Len(t) # 0
        BY <4>3
      <4> QED
        BY <3>2, <4>2, <4>4, LenFacts
    <3>4. IsSequence(Tail(Tail(stacks)))
      BY <3>2, <3>3, TailFacts
    <3>5. Len(<< w >> \o Tail(Tail(stacks))) = Len(Tail(Tail(stacks))) + 1 /\ Len(Tail(Tail(stacks))) \in Nat
      BY <3>4, ConsFacts, LenFacts
    <3>6. IsSequence(<< w >> \o Tail(Tail(stacks)))
      BY <3>4, ConsFacts
    <3>7. << w >> \o Tail(Tail(stacks)) # << >>
      BY <3>5, <3>6, LenFacts
    <3> QED
      BY <1>2, <1>5, <2>3, <3>7
  <2>6. at' \in Steps \ {"done"} /\ at # "done" /\ outcome' = outcome /\ calls' = Tail(calls)
    BY <1>1, <1>2, <1>5 DEF Steps, Descend
  <2> QED
    BY <1>1, <2>4, <2>5, <2>6, FramesMove
<1> QED
  BY <1>4, <1>5

LEMMA ArrayKeepsFrames ==
  ASSUME TypesInv, ArrayStep
  PROVE  FramesInv'
<1>1. FramesInv /\ at = "array" /\ DescentInv /\ calls # << >> /\ Caller.in = "array"
  BY DEF TypesInv, ArrayStep, DescentInv
<1>2. CASE ~ArrayTokenValid
  <2>1. Throw("invalid_expression")
    BY <1>2, Zenon DEF ArrayStep
  <2> QED
    BY <1>1, <2>1, FramesThrow
<1>3. CASE ArrayTokenValid /\ ArrayToken.op = "}"
  <2>1. PICK v : v = Matrix(Append(Caller.rows, Caller.row))
    OBVIOUS
  <2>2. stacks' = Pushed(v) /\ calls' = Tail(calls) /\ at' = "return" /\ Descend
    BY <1>3, <2>1, Zenon DEF ArrayStep
  <2>3. IsStackValue(v)
    BY <2>1 DEF Matrix, IsStackValue
  <2>4. HoldValues(stacks') /\ stacks' # << >>
    BY <2>2, <2>3, PushValue
  <2>5. at' \in Steps \ {"done"} /\ at # "done" /\ outcome' = outcome
    BY <1>1, <2>2 DEF Steps, Descend
  <2> QED
    BY <1>1, <2>2, <2>4, <2>5, FramesMove
<1>4. CASE ArrayTokenValid /\ ArrayToken.op # "}"
  <2> DEFINE f == [Caller EXCEPT
                     !.prev_op = ArrayToken.op,
                     !.rows = IF ArrayToken.op = ";" THEN Append(@, Caller.row) ELSE @,
                     !.row = CASE ArrayToken.op = ";" -> << >>
                               [] ArrayToken.op = "," -> @
                               [] OTHER -> Append(@, ArrayElement)]
  <2>1. stacks' = stacks /\ calls' = Resumed(f) /\ at' = at /\ Descend
    BY <1>4, Zenon DEF ArrayStep
  <2>2. IsAFrame(Caller)
    BY <1>1, DescentFacts
  <2>3. f.in = "array"
    BY <1>1, <2>2 DEF IsAFrame
  <2> HIDE DEF f
  <2>4. calls' = << f >> \o Tail(calls) /\ f.in \in Handlers
    BY <2>1, <2>3 DEF Resumed, Handlers
  <2>5. HoldValues(stacks') /\ stacks' # << >>
    BY <1>1, <2>1 DEF FramesInv
  <2>6. at' \in Steps \ {"done"} /\ at # "done" /\ outcome' = outcome
    BY <1>1, <2>1 DEF Steps, Descend
  <2> QED
    BY <1>1, <2>4, <2>5, <2>6, FramesMove
<1> QED
  BY <1>2, <1>3, <1>4

\* A handler returns with the value on top or with another one in its place.
LEMMA ReturnKeepsFrames ==
  ASSUME TypesInv, at = "return", calls # << >>, NEW v, IsStackValue(v),
         stacks' = stacks \/ stacks' = Replaced(v) \/ stacks' = Popped,
         at' \in {"return", "term"}, outcome' = outcome,
         \/ calls' = Tail(calls)
         \/ \E f : f.in \in Handlers /\ calls' = << f >> \o Tail(calls)
  PROVE  FramesInv'
<1>1. HoldValues(stacks') /\ stacks' # << >>
  BY TopValue
<1>2. at' \in Steps \ {"done"} /\ at # "done"
  BY DEF Steps
<1> QED
  BY <1>1, <1>2, FramesMove

LEMMA NegateKeepsFrames ==
  ASSUME TypesInv, Negate
  PROVE  FramesInv'
<1>1. FramesInv /\ at = "return" /\ calls # << >>
  BY DEF TypesInv, Negate, Returning
<1>2. PICK n : n = Numeric(Top) /\
               IF Failed(n) THEN Finish(n)
               ELSE stacks' = Replaced(Value(Negated(n.number))) /\ calls' = Tail(calls) /\ Descend /\ at' = at
  BY DEF Negate
<1>3. CASE Failed(n)
  BY <1>1, <1>2, <1>3, FramesFail
<1>4. CASE ~Failed(n)
  <2>1. PICK v : v = Value(Negated(n.number))
    OBVIOUS
  <2>2. IsStackValue(v)
    BY <2>1, NegatedType
  <2>3. stacks' = Replaced(v) /\ calls' = Tail(calls) /\ at' = "return" /\ outcome' = outcome
    BY <1>1, <1>2, <1>4, <2>1 DEF Descend
  <2> QED
    BY <1>1, <2>2, <2>3, ReturnKeepsFrames
<1> QED
  BY <1>3, <1>4

LEMMA LeftOperandKeepsFrames ==
  ASSUME TypesInv, AfterFactor \/ AfterTerm
  PROVE  FramesInv'
<1>1. FramesInv /\ at = "return" /\ calls # << >> /\ IsStackValue(Top)
  BY TopValue DEF TypesInv, AfterFactor, AfterTerm, Returning
<1>2. CASE calls' = Tail(calls) /\ Descend /\ UNCHANGED << cur, at, stacks >>
  BY <1>1, <1>2, ReturnKeepsFrames DEF Descend
<1>3. CASE \E v : Failed(v) /\ Finish(v)
  BY <1>1, <1>3, FramesFail
<1>4. CASE /\ stacks' = Popped /\ at' = "term" /\ Descend
           /\ \E v : \/ calls' = Resumed([in |-> "term_right", op |-> Token.op, left |-> v])
                     \/ calls' = Resumed([in |-> "expression_right", op |-> Token.op, left |-> v])
  <2>1. PICK v : \/ calls' = Resumed([in |-> "term_right", op |-> Token.op, left |-> v])
                 \/ calls' = Resumed([in |-> "expression_right", op |-> Token.op, left |-> v])
    BY <1>4
  <2>2. PICK f, g : /\ f = [in |-> "term_right", op |-> Token.op, left |-> v]
                    /\ g = [in |-> "expression_right", op |-> Token.op, left |-> v]
    OBVIOUS
  <2>3. f.in \in Handlers /\ g.in \in Handlers
    BY <2>2 DEF Handlers
  <2>4. calls' = << f >> \o Tail(calls) \/ calls' = << g >> \o Tail(calls)
    BY <2>1, <2>2 DEF Resumed
  <2> QED
    BY <1>1, <1>4, <2>3, <2>4, ReturnKeepsFrames DEF Descend
<1>5. CASE AfterFactor
  BY <1>2, <1>3, <1>4, <1>5 DEF AfterFactor
<1>6. CASE AfterTerm
  BY <1>2, <1>3, <1>4, <1>6 DEF AfterTerm
<1> QED
  BY <1>5, <1>6

LEMMA RightOperandKeepsFrames ==
  ASSUME TypesInv, AfterRightTerm \/ AfterNextTerm
  PROVE  FramesInv'
<1>1. FramesInv /\ at = "return" /\ calls # << >> /\ IsStackValue(Top)
  BY TopValue DEF TypesInv, AfterRightTerm, AfterNextTerm, Returning
<1>2. ASSUME NEW v, IsOutcome(v), IF Failed(v) THEN Finish(v) ELSE stacks' = Replaced(v) /\ Descend /\ UNCHANGED << cur, at >>,
             Failed(v) \/ calls' = Tail(calls) \/ calls' = Resumed([in |-> "expression"])
      PROVE  FramesInv'
  <2>1. CASE Failed(v)
    BY <1>1, <1>2, <2>1, FramesFail
  <2>2. CASE ~Failed(v)
    <3>1. IsStackValue(v)
      BY <1>2, <2>2 DEF IsOutcome, Failed
    <3>2. PICK f : f = [in |-> "expression"]
      OBVIOUS
    <3>3. f.in \in Handlers /\ (calls' = Tail(calls) \/ calls' = << f >> \o Tail(calls))
      BY <1>2, <2>2, <3>2 DEF Handlers, Resumed
    <3>4. stacks' = Replaced(v) /\ at' = "return" /\ outcome' = outcome
      BY <1>1, <1>2, <2>2 DEF Descend
    <3> QED
      BY <1>1, <3>1, <3>3, <3>4, ReturnKeepsFrames
  <2> QED
    BY <2>1, <2>2
<1>3. CASE AfterRightTerm
  <2>1. PICK w : w = TermOperand(Caller.op, Top)
    OBVIOUS
  <2>2. PICK v : v = Applied(TermResult, w) /\
                 IF Failed(v) THEN Finish(v)
                 ELSE stacks' = Replaced(v) /\ calls' = Tail(calls) /\ Descend /\ UNCHANGED << cur, at >>
    BY <1>3, <2>1 DEF AfterRightTerm
  <2>3. w.type \in {"matrix", "value", "string", "thrown", "escaped"}
    BY <1>1, <2>1, TermOperandType
  <2>4. IsOutcome(v)
    BY <2>2, <2>3, TermResultType, OutcomeOfType DEF Applied
  <2> QED
    BY <1>2, <2>2, <2>4
<1>4. CASE AfterNextTerm
  <2>1. PICK w : w = ExpressionOperand(Top)
    OBVIOUS
  <2>2. PICK v : v = Applied(ExpressionResult, w) /\
                 IF Failed(v) THEN Finish(v)
                 ELSE stacks' = Replaced(v) /\ calls' = Resumed([in |-> "expression"]) /\ Descend /\ UNCHANGED << cur, at >>
    BY <1>4, <2>1 DEF AfterNextTerm
  <2>3. IsOutcome(v)
    BY <2>2, ExpressionResultType DEF Applied, Failed, IsOutcome
  <2> QED
    BY <1>2, <2>2, <2>3
<1> QED
  BY <1>3, <1>4

LEMMA EndKeepsFrames ==
  ASSUME TypesInv, EndInterpretation
  PROVE  FramesInv'
<1>1. FramesInv /\ at = "return" /\ IsStackValue(Top)
  BY TopValue DEF TypesInv, EndInterpretation
<1>2. CASE HasToken
  BY <1>1, <1>2, FramesThrow DEF EndInterpretation
<1>3. CASE ~HasToken
  <2>1. PICK v : v = ResultOf(Top)
    OBVIOUS
  <2>2. v.type \in Endings
    BY <1>1, <2>1, ResultOfType DEF Endings
  <2>3. Finish(v)
    BY <1>3, <2>1 DEF EndInterpretation
  <2> QED
    BY <1>1, <2>2, <2>3, FramesEnd
<1> QED
  BY <1>2, <1>3

LEMMA TypesStep ==
  ASSUME FunctionsGiveValues PROVE TypesInv /\ [Next]_vars => TypesInv'
<1> SUFFICES ASSUME TypesInv, [Next]_vars PROVE TypesInv'
  OBVIOUS
<1>1. ExpansionInv' /\ DescentInv'
  BY ExpansionStep, DescentStep DEF TypesInv
<1>2. PlaceInv'
  BY ExpansionKeepsPlace, DescentKeepsPlace
<1>3. FramesInv'
  <2>1. CASE UNCHANGED vars
    BY <2>1 DEF TypesInv, FramesInv, vars
  <2>2. CASE ExpandToken \/ EnterName \/ LeaveName \/ StartInterpretation
    BY <2>2, ExpandKeepsFrames
  <2>3. CASE EnterExpression \/ EnterTerm \/ OpenParen \/ OpenArray \/ Sign \/ NoOperand
    BY <2>3, EnterKeepsFrames
  <2>4. CASE Operand \/ OpenFunction \/ CallFunction \/ ArrayStep
    BY <2>4, OperandKeepsFrames, OpenFunctionKeepsFrames, CallKeepsFrames, ArrayKeepsFrames
  <2>5. CASE NextArgument \/ AfterArgument \/ CloseParen
    BY <2>5, LoopKeepsFrames
  <2>6. CASE Negate \/ AfterFactor \/ AfterTerm \/ AfterRightTerm \/ AfterNextTerm \/ EndInterpretation
    BY <2>6, NegateKeepsFrames, LeftOperandKeepsFrames, RightOperandKeepsFrames, EndKeepsFrames
  <2> QED
    BY <2>1, <2>2, <2>3, <2>4, <2>5, <2>6 DEF Next
<1> QED
  BY <1>1, <1>2, <1>3 DEF TypesInv

THEOREM TypesOfInterpreter ==
  ASSUME FunctionsGiveValues PROVE Spec => []TypeOK
BY TypesStart, TypesStep, TypesMean, PTL DEF Spec

-----------------------------------------------------------------------------
(***************************************************************************)
(* The functions of formula_functions.cpp give values.                     *)
(***************************************************************************)

\* What a call may come to: a value, an exception, or no return at all.
Gives(v) == IsOutcome(v) \/ v = Endless

LEMMA TypeGives ==
  ASSUME NEW v, v.type \in {"value", "string", "boolean", "error", "matrix", "thrown", "escaped"}
  PROVE  Gives(v)
BY OutcomeOfType DEF Gives

\* The values made on the spot.
LEMMA MadeGive ==
  /\ \A n : Gives(Number(n)) /\ \A q : Gives(Value(q)) /\ \A s : Gives(Text(s))
  /\ \A b : Gives(Boolean(b)) /\ \A e : Gives(ErrorOf(e)) /\ Gives(Thrown(e))
  /\ \A m : Gives(Matrix(m))
  /\ Gives(Escaped) /\ Gives(InvalidValue) /\ Gives(Endless)
BY TypeGives DEF Number, Value, Text, Boolean, ErrorOf, Thrown, Matrix, Escaped, InvalidValue, Gives

LEMMA OperationGives == \A op, p, q : Gives(Operate(op, p, q))
BY TypeGives, OperateType

LEMMA FailureGives == \A v : Failed(v) => Gives(v)
BY TypeGives DEF Failed

LEMMA AfterGives ==
  \A rs, v : IsSequence(rs) /\ Gives(v) => Gives(After(rs, v))
<1> SUFFICES ASSUME NEW rs, NEW v, IsSequence(rs), Gives(v) PROVE Gives(After(rs, v))
  OBVIOUS
<1>1. CASE \E k \in DOMAIN rs : Failed(rs[k])
  BY <1>1, FirstFailureFails, FailureGives DEF After
<1>2. CASE ~ \E k \in DOMAIN rs : Failed(rs[k])
  BY <1>2 DEF After
<1> QED
  BY <1>1, <1>2

LEMMA FewAreSequences ==
  /\ \A a : IsSequence(<< a >>)
  /\ \A a, b : IsSequence(<< a, b >>)
  /\ \A a, b, c : IsSequence(<< a, b, c >>)
<1>1. ASSUME NEW a PROVE IsSequence(<< a >>)
  <2>1. << a >> \in Seq({a})
    OBVIOUS
  <2> QED
    BY <2>1 DEF IsSequence
<1>2. ASSUME NEW a, NEW b PROVE IsSequence(<< a, b >>)
  <2>1. << a, b >> \in Seq({a, b})
    OBVIOUS
  <2> QED
    BY <2>1 DEF IsSequence
<1>3. ASSUME NEW a, NEW b, NEW c PROVE IsSequence(<< a, b, c >>)
  <2>1. << a, b, c >> \in Seq({a, b, c})
    OBVIOUS
  <2> QED
    BY <2>1 DEF IsSequence
<1> QED
  BY <1>1, <1>2, <1>3

LEMMA AfterFewGive ==
  /\ \A a, v : Gives(v) => Gives(After(<< a >>, v))
  /\ \A a, b, v : Gives(v) => Gives(After(<< a, b >>, v))
  /\ \A a, b, c, v : Gives(v) => Gives(After(<< a, b, c >>, v))
BY AfterGives, FewAreSequences

\* A sequence of sequences, put together.
LEMMA FlattenedIsSequence ==
  ASSUME NEW s, IsSequence(s), \A i \in DOMAIN s : IsSequence(s[i])
  PROVE  IsSequence(SX!FlattenSeq(s))
<1>1. PICK E : E = UNION { { s[i][k] : k \in DOMAIN s[i] } : i \in DOMAIN s }
  OBVIOUS
<1>2. ASSUME NEW i \in DOMAIN s PROVE s[i] \in Seq(E)
  <2>1. PICK t : t = s[i]
    OBVIOUS
  <2>2. PICK T : t \in Seq(T)
    BY <1>2, <2>1 DEF IsSequence
  <2>3. Len(t) \in Nat /\ t \in [1..Len(t) -> T] /\ DOMAIN t = 1..Len(t)
    BY <2>2
  <2>4. \A k \in DOMAIN t : t[k] \in E
    BY <1>1, <1>2, <2>1
  <2>5. t \in [1..Len(t) -> E]
    BY <2>3, <2>4
  <2>6. t \in Seq(E)
    BY <2>3, <2>5
  <2> QED
    BY <2>1, <2>6
<1>3. s = [i \in DOMAIN s |-> s[i]]
  <2>1. PICK T : s \in Seq(T)
    BY DEF IsSequence
  <2> QED
    BY <2>1
<1>4. s \in [DOMAIN s -> Seq(E)]
  BY <1>2, <1>3
<1>5. s \in Seq(Seq(E))
  BY <1>4, MappedType
<1> QED
  BY <1>5, FlattenType DEF IsSequence

LEMMA MappedIsSequence ==
  ASSUME NEW s, IsSequence(s), NEW t, t = [i \in DOMAIN s |-> t[i]]
  PROVE  IsSequence(t) /\ DOMAIN t = DOMAIN s /\ Len(t) = Len(s)
<1>1. t \in [DOMAIN s -> { t[i] : i \in DOMAIN s }]
  OBVIOUS
<1> QED
  BY <1>1, MappedType

LEMMA ReverseFacts ==
  ASSUME NEW s, IsSequence(s)
  PROVE  /\ IsSequence(SX!Reverse(s)) /\ Len(SX!Reverse(s)) = Len(s)
         /\ \A i \in DOMAIN SX!Reverse(s) : \E k \in DOMAIN s : SX!Reverse(s)[i] = s[k]
<1>1. Len(s) \in Nat /\ DOMAIN s = 1..Len(s)
  BY LenFacts
<1>2. PICK r : r = SX!Reverse(s)
  OBVIOUS
<1>3. r = [i \in 1..Len(s) |-> s[(Len(s) - i) + 1]]
  BY <1>2 DEF SX!Reverse
<1>4. r = [i \in DOMAIN s |-> r[i]]
  BY <1>1, <1>3
<1>5. IsSequence(r) /\ DOMAIN r = DOMAIN s /\ Len(r) = Len(s)
  BY <1>4, MappedIsSequence
<1>6. \A i \in DOMAIN s : (Len(s) - i) + 1 \in DOMAIN s
  BY <1>1
<1> QED
  BY <1>1, <1>2, <1>3, <1>5, <1>6

\* The functions on texts.
LEMMA TextualGives == \A v : Gives(Textual(v))
BY TypeGives, TextualType
LEMMA NumericGives == \A v : Gives(Numeric(v))
BY TypeGives, NumericType

LEMMA PartsGive ==
  \A args : /\ Gives(Length(args)) /\ Gives(Left(args)) /\ Gives(Right(args))
            /\ Gives(Mid(args)) /\ Gives(Replace(args))
<1>1. \A c : Gives(LengthOf(c))
  BY MadeGive, AfterFewGive DEF LengthOf
<1>2. \A n, c : Gives(LeftOf(n, c))
  BY MadeGive, AfterFewGive DEF LeftOf
<1>3. \A n, c : Gives(RightOf(n, c))
  BY MadeGive, AfterFewGive DEF RightOf
<1>4. \A c, start, len : Gives(MidOf(c, start, len))
  BY MadeGive, AfterFewGive DEF MidOf
<1>5. \A c, start, count, new : Gives(ReplaceOf(c, start, count, new))
  BY MadeGive, AfterFewGive DEF ReplaceOf
<1> QED
  BY MadeGive, <1>1, <1>2, <1>3, <1>4, <1>5 DEF Length, Left, Right, Mid, Replace

LEMMA SearchesGive ==
  \A args : Gives(Find(args)) /\ Gives(Substitute(args))
<1>1. \A c, found : Gives(CharacterAt(c, found))
  BY MadeGive DEF CharacterAt
<1>2. \A part, content, c, start : Gives(FindOf(part, content, c, start))
  BY MadeGive, AfterFewGive, <1>1 DEF FindOf
<1>3. \A content, old, new, which : Gives(SubstituteOf(content, old, new, which))
  BY MadeGive, AfterFewGive DEF SubstituteOf
<1>4. \A args : Gives(Find(args))
  BY MadeGive, <1>2 DEF Find
<1>5. ASSUME NEW args PROVE Gives(Substitute(args))
  <2>1. PICK v : v = IF Floor(Numeric(args[4]).number) < 1 THEN InvalidValue
                     ELSE SubstituteOf(Textual(args[1]), Textual(args[2]), Textual(args[3]),
                                       Floor(Numeric(args[4]).number))
    OBVIOUS
  <2>2. Gives(v)
    BY MadeGive, <1>3, <2>1
  <2>3. PICK n : n = After(<< Numeric(args[4]) >>, v)
    OBVIOUS
  <2>4. Gives(n)
    BY <2>2, <2>3, AfterFewGive
  <2>5. PICK w : w = SubstituteOf(Textual(args[1]), Textual(args[2]), Textual(args[3]), 0)
    OBVIOUS
  <2>6. Gives(w)
    BY <1>3, <2>5
  <2>7. Substitute(args) = CASE Len(args) = 3 -> w [] Len(args) = 4 -> n [] OTHER -> Escaped
    BY <2>1, <2>3, <2>5 DEF Substitute
  <2> QED
    BY <2>4, <2>6, <2>7, MadeGive
<1> QED
  BY <1>4, <1>5

LEMMA BuildersGive ==
  ASSUME NEW args, IsSequence(args)
  PROVE  Gives(Concatenate(args)) /\ Gives(Exact(args)) /\ Gives(Repeat(args)) /\ Gives(Trim(args))
<1>1. \A l, r : Gives(ExactOf(l, r))
  BY MadeGive, AfterFewGive DEF ExactOf
<1>2. \A s, n : Gives(RepeatOf(s, n))
  BY MadeGive, AfterFewGive DEF RepeatOf
<1>3. \A t : Gives(TrimOf(t))
  BY MadeGive, AfterFewGive DEF TrimOf
<1>4. PICK texts : texts = [i \in DOMAIN args |-> Textual(args[i])]
  OBVIOUS
<1>5. texts = [i \in DOMAIN args |-> texts[i]]
  BY <1>4
<1>6. IsSequence(SX!Reverse(texts))
  BY <1>5, MappedIsSequence, ReverseFacts
<1>7. Gives(ConcatenationOf(texts))
  BY <1>6, MadeGive, AfterGives DEF ConcatenationOf
<1> QED
  BY <1>1, <1>2, <1>3, <1>4, <1>7, MadeGive DEF Concatenate, Exact, Repeat, Trim

LEMMA TextOrNothingGives ==
  \A args : Gives(TextOrNothing(args))
<1> SUFFICES ASSUME NEW args PROVE Gives(TextOrNothing(args))
  OBVIOUS
<1> DEFINE content(a) == Text(IF Cells[a].content.type = "string" THEN Cells[a].content.text ELSE << >>)
<1>1. \A a : Gives(content(a))
  BY MadeGive
<1>2. args[1].type = "string" => Gives(args[1])
  BY TypeGives
<1> HIDE DEF content
<1>3. TextOrNothing(args) =
        CASE Len(args) # 1 -> Escaped
          [] Len(args) = 1 /\ args[1].type = "string" -> args[1]
          [] Len(args) = 1 /\ args[1].type = "single_ref" -> content(args[1].address)
          [] Len(args) = 1 /\ args[1].type = "range_ref" -> content(args[1].range[1][1])
          [] OTHER -> Text(<< >>)
  BY DEF TextOrNothing, content
<1> QED
  BY <1>1, <1>2, <1>3, MadeGive

LEMMA TextJoinGives ==
  \A args : Gives(TextJoin(args))
<1>1. \A delimiter, skip_empty, cells : Gives(JoinedCells(delimiter, skip_empty, cells))
  BY MadeGive, AfterFewGive DEF JoinedCells
<1> QED
  BY <1>1, MadeGive DEF TextJoin

LEMMA TextFunctionGives ==
  ASSUME NEW f \in TextFunctionNames, NEW args, IsSequence(args)
  PROVE  Gives(TextFunction(f, args))
<1>1. /\ Gives(Concatenate(args)) /\ Gives(Exact(args)) /\ Gives(Find(args)) /\ Gives(Left(args))
      /\ Gives(Length(args)) /\ Gives(Mid(args)) /\ Gives(Replace(args)) /\ Gives(Repeat(args))
      /\ Gives(Right(args)) /\ Gives(Substitute(args)) /\ Gives(TextOrNothing(args))
      /\ Gives(TextJoin(args)) /\ Gives(Trim(args))
  BY PartsGive, SearchesGive, BuildersGive, TextOrNothingGives, TextJoinGives
<1> QED
  BY <1>1 DEF TextFunction, TextFunctionNames

-----------------------------------------------------------------------------
(* What a fold from the left is: g[k][v] is what becomes of v at place k.  *)

\* The greatest of a set of places.
LEMMA GreatestPlace ==
  ASSUME NEW n \in Nat, NEW s \in SUBSET (1..n), s # {}
  PROVE  SX!Max(s) \in s /\ \A k \in s : k <= SX!Max(s)
<1>1. PICK G : G = { n - k : k \in s }
  OBVIOUS
<1>2. G \in SUBSET Nat /\ G # {}
  <2>1. \A k \in s : n - k \in Nat
    OBVIOUS
  <2>2. PICK k : k \in s
    OBVIOUS
  <2>3. n - k \in G
    BY <1>1, <2>2
  <2> QED
    BY <1>1, <2>1, <2>3
<1>3. PICK m \in G : \A k \in G : m <= k
  BY <1>2, LeastMember
<1>4. PICK x \in s : m = n - x
  BY <1>1, <1>3
<1>5. \A y \in s : x >= y
  BY <1>1, <1>3, <1>4
<1>6. PICK c : c = CHOOSE z \in s : \A y \in s : z >= y
  OBVIOUS
<1>7. c \in s /\ \A y \in s : c >= y
  BY <1>4, <1>5, <1>6
<1>8. c = SX!Max(s)
  BY <1>6 DEF SX!Max
<1> QED
  BY <1>7, <1>8

IsFolding(h, n, base, g, X) ==
  /\ h \in [SUBSET (1..n) -> X]
  /\ h[{}] = base
  /\ \A s \in SUBSET (1..n) : s # {} => h[s] = g[SX!Max(s)][h[s \ {SX!Max(s)}]]

LEMMA FoldOneMore ==
  ASSUME NEW n \in Nat, NEW X, NEW base \in X, NEW g \in [1..(n + 1) -> [X -> X]],
         NEW h, IsFolding(h, n, base, g, X)
  PROVE  \E j : IsFolding(j, n + 1, base, g, X)
<1>1. PICK j : j = [s \in SUBSET (1..(n + 1)) |->
                      IF s \in SUBSET (1..n) THEN h[s] ELSE g[n + 1][h[s \ {n + 1}]]]
  OBVIOUS
<1>2. \A s \in SUBSET (1..n) : s \in SUBSET (1..(n + 1)) /\ j[s] = h[s] /\ j[s] \in X
  BY <1>1 DEF IsFolding
<1>3. ASSUME NEW s \in SUBSET (1..(n + 1)), s \notin SUBSET (1..n)
      PROVE  /\ n + 1 \in s /\ s \ {n + 1} \in SUBSET (1..n) /\ SX!Max(s) = n + 1
             /\ j[s] = g[n + 1][j[s \ {n + 1}]] /\ j[s] \in X
  <2>1. \A k \in s : k = n + 1 \/ k \in 1..n
    OBVIOUS
  <2>2. n + 1 \in s /\ s \ {n + 1} \in SUBSET (1..n)
    BY <1>3, <2>1
  <2>3. n + 1 \in Nat /\ s # {}
    BY <2>2
  <2>4. SX!Max(s) \in s /\ n + 1 <= SX!Max(s)
    BY <2>2, <2>3, GreatestPlace
  <2>5. SX!Max(s) = n + 1
    <3>1. PICK x : x = SX!Max(s)
      OBVIOUS
    <3>2. x \in s /\ n + 1 <= x
      BY <2>4, <3>1
    <3>3. x = n + 1
      BY <2>1, <3>2
    <3> QED
      BY <3>1, <3>3
  <2>6. PICK r : r = s \ {n + 1}
    OBVIOUS
  <2>7. j[r] = h[r] /\ j[r] \in X
    BY <1>2, <2>2, <2>6
  <2>8. j[s] = g[n + 1][j[r]]
    BY <1>1, <1>3, <2>6, <2>7
  <2>9. g[n + 1] \in [X -> X]
    OBVIOUS
  <2> QED
    BY <2>2, <2>5, <2>6, <2>7, <2>8, <2>9
<1>4. j \in [SUBSET (1..(n + 1)) -> X]
  BY <1>1, <1>2, <1>3
<1>5. j[{}] = base
  BY <1>2 DEF IsFolding
<1>6. ASSUME NEW s \in SUBSET (1..(n + 1)), s # {}
      PROVE  j[s] = g[SX!Max(s)][j[s \ {SX!Max(s)}]]
  <2>1. CASE s \in SUBSET (1..n)
    <3>1. PICK r : r = s \ {SX!Max(s)}
      OBVIOUS
    <3>2. r \in SUBSET (1..n)
      BY <2>1, <3>1
    <3>3. h[s] = g[SX!Max(s)][h[r]]
      BY <1>6, <2>1, <3>1 DEF IsFolding
    <3> QED
      BY <1>2, <2>1, <3>1, <3>2, <3>3
  <2>2. CASE s \notin SUBSET (1..n)
    BY <1>3, <2>2
  <2> QED
    BY <2>1, <2>2
<1>7. IsFolding(j, n + 1, base, g, X)
  BY <1>4, <1>5, <1>6 DEF IsFolding
<1> QED
  BY <1>7

LEMMA FoldExists ==
  ASSUME NEW n \in Nat, NEW X, NEW base \in X, NEW g \in [1..n -> [X -> X]]
  PROVE  \E h : IsFolding(h, n, base, g, X)
<1>1. PICK G : G = { m \in Nat : m <= n => \E h : IsFolding(h, m, base, g, X) }
  OBVIOUS
<1>2. 0 \in G
  <2>1. PICK h : h = [s \in SUBSET (1..0) |-> base]
    OBVIOUS
  <2>2. h \in [SUBSET (1..0) -> X] /\ h[{}] = base /\ \A s \in SUBSET (1..0) : s = {}
    BY <2>1
  <2>3. IsFolding(h, 0, base, g, X)
    BY <2>2 DEF IsFolding
  <2> QED
    BY <1>1, <2>3
<1>3. ASSUME NEW m \in 0..(n - 1), m \in G PROVE m + 1 \in G
  <2>1. PICK h : IsFolding(h, m, base, g, X)
    BY <1>1, <1>3
  <2>2. PICK f : f = [k \in 1..(m + 1) |-> g[k]]
    OBVIOUS
  <2>3. f \in [1..(m + 1) -> [X -> X]] /\ \A k \in 1..(m + 1) : f[k] = g[k]
    BY <2>2
  <2>4. \A l \in 0..(m + 1) : \A j : IsFolding(j, l, base, f, X) <=> IsFolding(j, l, base, g, X)
    <3> SUFFICES ASSUME NEW l \in 0..(m + 1), NEW j
                 PROVE IsFolding(j, l, base, f, X) <=> IsFolding(j, l, base, g, X)
      OBVIOUS
    <3>1. \A s \in SUBSET (1..l) : s # {} => SX!Max(s) \in 1..(m + 1)
      <4> SUFFICES ASSUME NEW s \in SUBSET (1..l), s # {} PROVE SX!Max(s) \in 1..(m + 1)
        OBVIOUS
      <4>0. l \in Nat
        OBVIOUS
      <4>1. SX!Max(s) \in s
        BY <4>0, GreatestPlace
      <4>2. SX!Max(s) \in 1..l
        BY <4>1
      <4> QED
        BY <4>2
    <3>2. \A s \in SUBSET (1..l) : s # {} => f[SX!Max(s)] = g[SX!Max(s)]
      BY <3>1, <2>3
    <3> QED
      BY <3>2 DEF IsFolding
  <2>5. IsFolding(h, m, base, f, X)
    BY <2>1, <2>4
  <2>6. m \in Nat
    OBVIOUS
  <2>7. \E j : IsFolding(j, m + 1, base, f, X)
    BY <2>3, <2>5, <2>6, FoldOneMore
  <2>8. \E j : IsFolding(j, m + 1, base, g, X)
    BY <2>4, <2>7
  <2> QED
    BY <1>1, <2>6, <2>8
<1>4. \A k \in 0..n : k \in G
  BY <1>2, <1>3, UpTo
<1>5. n \in G
  BY <1>4
<1> QED
  BY <1>1, <1>5

\* The sum of values is a value.
LEMMA TotalGives == \A values : Gives(Total(values))
<1> SUFFICES ASSUME NEW values PROVE Gives(Total(values))
  OBVIOUS
<1>1. Total(values).type = "value"
  BY DEF Total, Value
<1> QED
  BY <1>1, TypeGives

\* What a fold that keeps one of two values gives is one of the values.
LEMMA ExtremeGives ==
  ASSUME NEW popped, IsSequence(popped), popped # << >>, NEW op,
         \A k \in DOMAIN popped : Gives(popped[k])
  PROVE  Gives(ExtremeOf(popped, op))
<1> DEFINE better(v, w) == IF NumberHolds(op, w.number, v.number) THEN w ELSE v
<1>1. IsSequence(Tail(popped)) /\ Len(Tail(popped)) = Len(popped) - 1 /\ Len(popped) \in Nat \ {0}
      /\ \A k \in 1..(Len(popped) - 1) : Tail(popped)[k] = popped[k + 1]
  BY TailFacts
<1>2. PICK rest : rest = Tail(popped)
  OBVIOUS
<1>3. PICK n : n = Len(popped) - 1
  OBVIOUS
<1>4. n \in Nat /\ Len(rest) = n /\ DOMAIN rest = 1..n /\ DOMAIN popped = 1..(n + 1)
  BY <1>1, <1>2, <1>3, LenFacts
<1>5. PICK X : X = { popped[k] : k \in DOMAIN popped }
  OBVIOUS
<1>6. popped[1] \in X /\ \A k \in 1..n : rest[k] \in X
  BY <1>1, <1>2, <1>3, <1>4, <1>5
<1>7. PICK g : g = [k \in 1..n |-> [v \in X |-> better(v, rest[k])]]
  OBVIOUS
<1>8. g \in [1..n -> [X -> X]]
  BY <1>6, <1>7
<1>9. PICK h : IsFolding(h, n, popped[1], g, X)
  BY <1>4, <1>6, <1>8, FoldExists
<1> DEFINE Folds(iter) == iter = [s \in SUBSET (1..n) |->
                             IF s = {} THEN popped[1]
                             ELSE better(iter[s \ {SX!Max(s)}], rest[SX!Max(s)])]
<1>10. Folds(h)
  <2>1. h = [s \in SUBSET (1..n) |-> h[s]]
    BY <1>9 DEF IsFolding
  <2>2. ASSUME NEW s \in SUBSET (1..n), s # {}
        PROVE  h[s] = better(h[s \ {SX!Max(s)}], rest[SX!Max(s)])
    <3>1. SX!Max(s) \in 1..n
      BY <1>4, <2>2, GreatestPlace
    <3>2. PICK r : r = s \ {SX!Max(s)}
      OBVIOUS
    <3>3. r \in SUBSET (1..n) /\ h[r] \in X
      BY <1>9, <3>2 DEF IsFolding
    <3>4. h[s] = g[SX!Max(s)][h[r]]
      BY <1>9, <2>2, <3>2 DEF IsFolding
    <3> QED
      BY <1>7, <3>1, <3>2, <3>3, <3>4
  <2>3. h[{}] = popped[1]
    BY <1>9 DEF IsFolding
  <2> QED
    BY <2>1, <2>2, <2>3
<1>11. PICK iter : iter = CHOOSE i : Folds(i)
  OBVIOUS
<1>12. Folds(iter)
  BY <1>10, <1>11
<1>13. SX!FoldLeft(better, popped[1], rest) = iter[1..n]
  BY <1>4, <1>11 DEF SX!FoldLeft, SX!MapThenFoldSet
<1>14. iter[1..n] \in X
  <2>1. PICK G : G = { k \in Nat : k <= n => iter[1..k] \in X }
    OBVIOUS
  <2>2. 0 \in G
    <3>1. {} \in SUBSET (1..n) /\ 1..0 = {}
      OBVIOUS
    <3>2. iter[{}] = popped[1]
      BY <1>12, <3>1
    <3> QED
      BY <1>6, <2>1, <3>1, <3>2
  <2>3. ASSUME NEW k \in 0..(n - 1), k \in G PROVE k + 1 \in G
    <3>1. iter[1..k] \in X
      BY <1>4, <2>1, <2>3
    <3>2. PICK s : s = 1..(k + 1)
      OBVIOUS
    <3>3. s \in SUBSET (1..n) /\ s # {}
      <4>1. 1 \in s /\ \A l \in s : l \in 1..n
        BY <1>4, <3>2
      <4> QED
        BY <4>1
    <3>4. SX!Max(s) \in s /\ \A l \in s : l <= SX!Max(s)
      BY <1>4, <3>3, GreatestPlace
    <3>5. SX!Max(s) = k + 1
      <4>1. PICK x : x = SX!Max(s)
        OBVIOUS
      <4>2. x \in 1..(k + 1) /\ k + 1 <= x
        BY <3>2, <3>4, <4>1
      <4>3. x = k + 1
        BY <4>2
      <4> QED
        BY <4>1, <4>3
    <3>6. s \ {SX!Max(s)} = 1..k
      BY <3>2, <3>5
    <3>7. iter[s] = better(iter[1..k], rest[k + 1])
      BY <1>12, <3>3, <3>5, <3>6
    <3>8. rest[k + 1] \in X
      BY <1>4, <1>6
    <3>9. iter[s] \in X
      BY <3>1, <3>7, <3>8
    <3> QED
      BY <2>1, <3>2, <3>9
  <2>4. \A k \in 0..n : k \in G
    BY <1>4, <2>2, <2>3, UpTo
  <2> QED
    BY <1>4, <2>1, <2>4
<1>15. Gives(SX!FoldLeft(better, popped[1], rest))
  BY <1>5, <1>13, <1>14
<1>16. ExtremeOf(popped, op) = After(popped, SX!FoldLeft(better, popped[1], rest))
  BY <1>2 DEF ExtremeOf
<1> HIDE DEF better
<1> QED
  BY <1>15, <1>16, AfterGives

-----------------------------------------------------------------------------
(* The functions on numbers.                                               *)

\* The cells of a reference.
LEMMA RowsOfReference ==
  ASSUME NEW v, IsStackValue(v), IsReference(v)
  PROVE  /\ Rows(v) \in Seq(Seq(DOMAIN Cells)) /\ IsRange(Rows(v), DOMAIN Cells)
         /\ SX!FlattenSeq(Rows(v)) \in Seq(DOMAIN Cells)
<1>1. IsRange(Rows(v), DOMAIN Cells)
  <2>1. CASE v.type = "range_ref"
    BY <2>1 DEF IsStackValue, Rows
  <2>2. CASE v.type = "single_ref"
    <3>1. v.address \in DOMAIN Cells /\ Rows(v) = << << v.address >> >>
      BY <2>2 DEF IsStackValue, Rows
    <3>2. PICK a : a = v.address
      OBVIOUS
    <3>3. << a >> \in Seq(DOMAIN Cells)
      BY <3>1, <3>2
    <3>4. << << a >> >> \in Seq(Seq(DOMAIN Cells))
      BY <3>3
    <3>5. IsRange(<< << a >> >>, DOMAIN Cells)
      BY <3>4 DEF IsRange
    <3> QED
      BY <3>1, <3>2, <3>5
  <2> QED
    BY <2>1, <2>2 DEF IsReference
<1>2. Rows(v) \in Seq(Seq(DOMAIN Cells))
  BY <1>1 DEF IsRange
<1> QED
  BY <1>1, <1>2, FlattenType

LEMMA NumbersAreSequence ==
  ASSUME NEW v, v.type # "range_ref" \/ IsStackValue(v)
  PROVE  IsSequence(NumbersOf(v))
<1>1. CASE v.type # "range_ref"
  BY <1>1, FewAreSequences DEF NumbersOf
<1>2. CASE v.type = "range_ref"
  <2>1. v.range \in Seq(Seq(DOMAIN Cells))
    BY <1>2 DEF IsStackValue, IsRange
  <2>2. PICK cells : cells = SX!FlattenSeq(v.range)
    OBVIOUS
  <2>3. IsSequence(cells)
    BY <2>1, <2>2, FlattenType DEF IsSequence
  <2>4. PICK t : t = [k \in DOMAIN cells |-> CellNumber(cells[k])]
    OBVIOUS
  <2>5. t = [k \in DOMAIN cells |-> t[k]]
    BY <2>4
  <2>6. IsSequence(t)
    BY <2>3, <2>5, MappedIsSequence
  <2> QED
    BY <1>2, <2>2, <2>4, <2>6 DEF NumbersOf
<1> QED
  BY <1>1, <1>2

LEMMA PoppedAreSequence ==
  ASSUME NEW args, AreValues(args)
  PROVE  IsSequence(PoppedNumbers(args))
<1>1. PICK t : t = [i \in DOMAIN args |-> NumbersOf(args[i])]
  OBVIOUS
<1>2. t = [i \in DOMAIN args |-> t[i]] /\ \A i \in DOMAIN args : t[i] = NumbersOf(args[i])
  BY <1>1
<1>3. IsSequence(t) /\ DOMAIN t = DOMAIN args
  BY <1>2, MappedIsSequence DEF AreValues
<1>4. \A i \in DOMAIN t : IsSequence(t[i])
  BY <1>2, <1>3, NumbersAreSequence DEF AreValues
<1>5. PICK r : r = SX!Reverse(t)
  OBVIOUS
<1>6. IsSequence(r) /\ \A i \in DOMAIN r : IsSequence(r[i])
  BY <1>3, <1>4, <1>5, ReverseFacts
<1>7. IsSequence(SX!FlattenSeq(r))
  BY <1>6, FlattenedIsSequence
<1> QED
  BY <1>1, <1>5, <1>7 DEF PoppedNumbers

LEMMA SumsGive ==
  ASSUME NEW args, AreValues(args)
  PROVE  Gives(Sum(args)) /\ Gives(Average(args)) /\ Gives(Subtotal(args))
<1>1. IsSequence(PoppedNumbers(args))
  BY PoppedAreSequence
<1>2. \A popped : IsSequence(popped) => Gives(SumOf(popped)) /\ Gives(AverageOf(popped))
  BY AfterGives, TotalGives, OperationGives DEF SumOf, AverageOf
<1>3. Gives(Sum(args)) /\ Gives(Average(args))
  BY <1>1, <1>2, MadeGive DEF Sum, Average
<1>4. Gives(Subtotal(args))
  <2>1. CASE Len(args) # 2 \/ ~IsReference(args[2])
    BY <2>1, MadeGive DEF Subtotal, Takes
  <2>2. CASE Len(args) = 2 /\ IsReference(args[2])
    <3>1. 2 \in DOMAIN args
      BY <2>2, LenFacts DEF AreValues
    <3>2. IsStackValue(args[2])
      BY <3>1 DEF AreValues
    <3>3. PICK v : v = RangeRef(Rows(args[2]))
      OBVIOUS
    <3>4. v.type = "range_ref" /\ v.range = Rows(args[2])
      BY <3>3 DEF RangeRef
    <3>5. IsStackValue(v)
      BY <2>2, <3>2, <3>4, RowsOfReference DEF IsStackValue
    <3>6. Gives(SumOf(NumbersOf(v)))
      BY <1>2, <3>5, NumbersAreSequence
    <3>7. \A n : Gives(SubtotalOf(n, v))
      BY <3>6, MadeGive, AfterFewGive DEF SubtotalOf
    <3> QED
      BY <2>2, <3>3, <3>7 DEF Subtotal, Takes
  <2> QED
    BY <2>1, <2>2
<1> QED
  BY <1>3, <1>4

LEMMA ExtremesGive ==
  ASSUME NEW args, AreValues(args), NEW op
  PROVE  Gives(Extreme(args, op))
<1>1. CASE args = << >>
  BY <1>1, MadeGive DEF Extreme
<1>2. CASE args # << >>
  <2>1. PICK t : t = [i \in DOMAIN args |-> Numeric(args[i])]
    OBVIOUS
  <2>2. t = [i \in DOMAIN args |-> t[i]] /\ \A i \in DOMAIN args : t[i] = Numeric(args[i])
    BY <2>1
  <2>3. IsSequence(t) /\ DOMAIN t = DOMAIN args /\ Len(t) = Len(args)
    BY <2>2, MappedIsSequence DEF AreValues
  <2>4. PICK r : r = SX!Reverse(t)
    OBVIOUS
  <2>5. IsSequence(r) /\ Len(r) = Len(args) /\ \A i \in DOMAIN r : \E k \in DOMAIN t : r[i] = t[k]
    BY <2>3, <2>4, ReverseFacts
  <2>6. \A i \in DOMAIN r : Gives(r[i])
    BY <2>2, <2>3, <2>5, NumericGives
  <2>7. r # << >>
    BY <1>2, <2>5, LenFacts DEF AreValues
  <2>8. Gives(ExtremeOf(r, op))
    BY <2>5, <2>6, <2>7, ExtremeGives
  <2> QED
    BY <1>2, <2>1, <2>4, <2>8 DEF Extreme
<1> QED
  BY <1>1, <1>2

LEMMA MedianGives == \A args : Gives(Median(args)) /\ Gives(Mode(args))
<1>1. \A seq, mid : Gives(Middle(seq, mid))
  BY MadeGive, OperationGives DEF Middle
<1>2. \A seq : Gives(MedianOf(seq)) /\ Gives(ModeOf(seq))
  BY <1>1, MadeGive DEF MedianOf, ModeOf
<1> QED
  BY <1>2, MadeGive DEF Median, Mode

LEMMA CountsGive ==
  \A args : (\A l, t : Gives(Count(args, l, t))) /\ Gives(CountBlank(args))
BY MadeGive DEF Count, CountBlank, Takes

LEMMA OneNumberGives ==
  \A args : /\ Gives(Abs(args)) /\ Gives(Int_(args)) /\ Gives(N(args))
            /\ Gives(IsOdd(args)) /\ Gives(IsEven(args))
BY MadeGive, AfterFewGive DEF Abs, Int_, N, IsOdd, IsEven, OfNumber, OfOneNumber, Takes

LEMMA MmultGives == 
  ASSUME NEW args, AreValues(args) PROVE Gives(Mmult(args))
<1>1. PICK popped : popped = [k \in 1..Least(2, Len(args)) |-> MatrixOf(args[Len(args) + 1 - k])]
  OBVIOUS
<1>2. IsSequence(popped)
  <2>1. PICK n : n = Least(2, Len(args))
    OBVIOUS
  <2>2. n \in Nat
    BY <2>1, LenFacts DEF Least, AreValues
  <2>3. popped \in [1..n -> { popped[k] : k \in 1..n }]
    BY <1>1, <2>1
  <2>4. popped \in Seq({ popped[k] : k \in 1..n })
    BY <2>2, <2>3
  <2> QED
    BY <2>4 DEF IsSequence
<1>3. \A count : Gives(MmultOf(popped, count))
  BY <1>2, MadeGive, AfterGives DEF MmultOf, Product
<1> QED
  BY <1>1, <1>3 DEF Mmult

LEMMA NumberFunctionGives ==
  ASSUME NEW f \in NumberFunctions, NEW args, AreValues(args)
  PROVE  Gives(NumberFunction(f, args))
<1>1. /\ Gives(Abs(args)) /\ Gives(Average(args)) /\ Gives(CountBlank(args)) /\ Gives(Int_(args))
      /\ Gives(Extreme(args, ">")) /\ Gives(Extreme(args, "<")) /\ Gives(Median(args))
      /\ Gives(Mmult(args)) /\ Gives(Mode(args)) /\ Gives(N(args)) /\ Gives(Subtotal(args)) /\ Gives(Sum(args))
      /\ \A l, t : Gives(Count(args, l, t))
  BY OneNumberGives, SumsGive, CountsGive, ExtremesGive, MedianGives, MmultGives
<1> QED
  BY <1>1 DEF NumberFunction, NumberFunctions

-----------------------------------------------------------------------------
(* The functions on truth values and references.                           *)

LEMMA JunctionArgumentType ==
  \A v, neutral : JunctionArgument(v, neutral).type \in {"boolean", "thrown"}
BY Zenon DEF JunctionArgument, Boolean, Thrown

LEMMA JunctionsGive == \A args, neutral : Gives(Junction(args, neutral))
<1> SUFFICES ASSUME NEW args, NEW neutral PROVE Gives(Junction(args, neutral))
  OBVIOUS
<1>1. \A k : Gives(JunctionArgument(args[k], neutral))
  BY JunctionArgumentType, TypeGives
<1> QED
  BY <1>1, MadeGive DEF Junction

LEMMA LogicalFunctionGives ==
  ASSUME NEW f \in LogicalFunctions, NEW args, AreValues(args)
  PROVE  Gives(LogicalFunction(f, args))
<1>1. Gives(Junction(args, TRUE)) /\ Gives(Junction(args, FALSE))
  BY JunctionsGive
<1>2. Gives(Not(args))
  BY MadeGive, AfterFewGive DEF Not, Takes, Negation
<1>3. Gives(If(args))
  <2>1. \A c, v, w : Gives(v) /\ Gives(w) => Gives(Choice(c, v, w))
    BY AfterFewGive DEF Choice
  <2>2. Len(args) = 3 => Gives(args[2]) /\ Gives(args[3])
    <3> SUFFICES ASSUME Len(args) = 3 PROVE Gives(args[2]) /\ Gives(args[3])
      OBVIOUS
    <3>1. 2 \in DOMAIN args /\ 3 \in DOMAIN args
      BY LenFacts DEF AreValues
    <3> QED
      BY <3>1 DEF AreValues, Gives, IsOutcome
  <2> QED
    BY <2>1, <2>2, MadeGive DEF If, Takes
<1>4. \A b : Gives(TruthConstant(args, b))
  BY MadeGive DEF TruthConstant, Takes
<1> QED
  BY <1>1, <1>2, <1>3, <1>4, OneNumberGives DEF LogicalFunction, LogicalFunctions

LEMMA QuestionsGive ==
  \A args : /\ \A types : Gives(IsType(args, types))
            /\ Gives(IsBlank(args)) /\ Gives(IsErr(args)) /\ Gives(IsError(args)) /\ Gives(IsNa(args))
            /\ Gives(IsFormula(args)) /\ Gives(IsRef(args)) /\ Gives(Type(args)) /\ Gives(Na(args))
BY MadeGive DEF IsType, IsBlank, IsErr, IsError, IsNa, IsFormula, IsRef, Type, Na, Takes

LEMMA PlacesGive ==
  \A args : /\ \A field : Gives(Coordinate(args, field))
            /\ Gives(Columns(args)) /\ Gives(RowCount(args)) /\ Gives(Sheet(args)) /\ Gives(Sheets(args))
            /\ Gives(Wait(args))
<1>1. \A args, field : Gives(Coordinate(args, field))
  BY MadeGive DEF Coordinate
<1>2. \A args : Gives(Columns(args)) /\ Gives(RowCount(args)) /\ Gives(Wait(args))
  BY MadeGive DEF Columns, RowCount, Extent, Wait
<1>3. \A args : Gives(Sheets(args))
  BY MadeGive DEF Sheets
<1>4. \A args : Gives(Sheet(args))
  BY <1>1, MadeGive DEF Sheet
<1> QED
  BY <1>1, <1>2, <1>3, <1>4

LEMMA CellFunctionGives ==
  ASSUME NEW f, NEW args
  PROVE  Gives(CellFunction(f, args))
<1>1. /\ \A field : Gives(Coordinate(args, field))
      /\ Gives(Columns(args)) /\ Gives(RowCount(args)) /\ Gives(Sheet(args)) /\ Gives(Sheets(args))
      /\ Gives(Wait(args)) /\ \A types : Gives(IsType(args, types))
      /\ Gives(IsBlank(args)) /\ Gives(IsErr(args)) /\ Gives(IsError(args)) /\ Gives(IsNa(args))
      /\ Gives(IsFormula(args)) /\ Gives(IsRef(args)) /\ Gives(Type(args)) /\ Gives(Na(args))
      /\ Gives(Escaped)
  BY QuestionsGive, PlacesGive, MadeGive
<1> QED
  BY <1>1 DEF CellFunction

\* The interpreter is given the functions of formula_functions.cpp.
FunctionsAreBuiltIn == \A f, args : Functions(f, args) = Called(f, args)

LEMMA BuiltInGive ==
  ASSUME FunctionsAreBuiltIn PROVE FunctionsGiveValues
<1> SUFFICES ASSUME NEW f, NEW args, AreValues(args)
             PROVE  Gives(Called(f, args))
  BY DEF FunctionsAreBuiltIn, FunctionsGiveValues, Gives
<1>1. IsSequence(args)
  BY DEF AreValues
<1>2. PICK v : v = FunctionValue(f, args)
  OBVIOUS
<1>3. Gives(v)
  BY <1>1, <1>2, NumberFunctionGives, TextFunctionGives, LogicalFunctionGives, CellFunctionGives DEF FunctionValue
<1>4. Gives(AsValue(v))
  BY <1>3, MadeGive DEF AsValue
<1> QED
  BY <1>2, <1>4 DEF Called

\* For the functions of formula_functions.cpp, every value stack holds
\* values and every result is one, whatever the formulas are.
THEOREM TypesOfBuiltInFunctions ==
  ASSUME FunctionsAreBuiltIn PROVE Spec => []TypeOK
BY BuiltInGive, TypesOfInterpreter

-----------------------------------------------------------------------------
(***************************************************************************)
(* AND and OR.                                                             *)
(***************************************************************************)

\* The truth values among the cells of a range.
CellTruths(rows) ==
  { Truth(Cells[a].content) :
      a \in { b \in UNION { { rows[i][j] : j \in DOMAIN rows[i] } : i \in DOMAIN rows } :
                IsLogical(Cells[b].content) } }

\* The blocks of a column: where one starts and ends.
Starts(c) == { i \in DOMAIN c : i = 1 \/ BlockType(c[i]) # BlockType(c[i - 1]) }
Ends(c)   == { i \in DOMAIN c : i = Len(c) \/ i + 1 \in Starts(c) }
EndOf(c, i) == CHOOSE e \in Ends(c) : e >= i /\ \A f \in Ends(c) : f >= i => e <= f
BlockFrom(c, i) == SubSeq(c, i, EndOf(c, i))
ColumnOf(rows, j) == [i \in DOMAIN rows |-> rows[i][j]]

LEMMA BlocksAre ==
  ASSUME NEW rows
  PROVE  Blocks(rows) = UNION { { BlockFrom(ColumnOf(rows, j), i) : i \in Starts(ColumnOf(rows, j)) } :
                                  j \in DOMAIN rows[1] }
BY DEF Blocks, BlockFrom, EndOf, Ends, Starts, ColumnOf

LEMMA EndFacts ==
  ASSUME NEW A, NEW c \in Seq(A), NEW i \in DOMAIN c
  PROVE  /\ EndOf(c, i) \in Ends(c) /\ EndOf(c, i) \in i..Len(c)
         /\ \A f \in Ends(c) : f >= i => EndOf(c, i) <= f
<1>1. PICK F : F = { f \in Ends(c) : f >= i }
  OBVIOUS
<1>2. Len(c) \in Nat /\ DOMAIN c = 1..Len(c)
  OBVIOUS
<1>3. Len(c) \in F
  BY <1>1, <1>2 DEF Ends
<1>4. F \in SUBSET Nat /\ \A f \in F : f \in DOMAIN c
  BY <1>1, <1>2 DEF Ends
<1>5. PICK e \in F : \A f \in F : e <= f
  BY <1>3, <1>4, LeastMember
<1>6. PICK x : x = CHOOSE z \in Ends(c) : z >= i /\ \A f \in Ends(c) : f >= i => z <= f
  OBVIOUS
<1>7. e \in Ends(c) /\ e >= i /\ \A f \in Ends(c) : f >= i => e <= f
  BY <1>1, <1>5
<1>8. x \in Ends(c) /\ x >= i /\ \A f \in Ends(c) : f >= i => x <= f
  BY <1>6, <1>7
<1>9. x \in F
  BY <1>1, <1>8
<1>10. x \in i..Len(c)
  BY <1>2, <1>4, <1>8, <1>9
<1> QED
  BY <1>6, <1>8, <1>10 DEF EndOf

\* A block is a stretch of its column.
LEMMA BlockFacts ==
  ASSUME NEW A, NEW c \in Seq(A), NEW i \in DOMAIN c
  PROVE  /\ Len(BlockFrom(c, i)) = EndOf(c, i) - i + 1
         /\ DOMAIN BlockFrom(c, i) = 1..(EndOf(c, i) - i + 1)
         /\ \A k \in DOMAIN BlockFrom(c, i) : BlockFrom(c, i)[k] = c[i + k - 1] /\ i + k - 1 \in DOMAIN c
         /\ 1 \in DOMAIN BlockFrom(c, i)
<1>1. PICK e : e = EndOf(c, i)
  OBVIOUS
<1>2. e \in i..Len(c) /\ i \in 1..Len(c) /\ Len(c) \in Nat /\ DOMAIN c = 1..Len(c)
  BY <1>1, EndFacts
<1>3. PICK b : b = SubSeq(c, i, e)
  OBVIOUS
<1>4. Len(b) = e - i + 1 /\ DOMAIN b = 1..(e - i + 1) /\ \A k \in 1..(e - i + 1) : b[k] = c[i + k - 1]
  BY <1>2, <1>3, SubSeqProperties
<1>5. \A k \in 1..(e - i + 1) : i + k - 1 \in 1..Len(c)
  BY <1>2
<1>6. 1 \in 1..(e - i + 1)
  BY <1>2
<1> QED
  BY <1>1, <1>2, <1>3, <1>4, <1>5, <1>6 DEF BlockFrom

\* Every cell of a column is in one of its blocks.
LEMMA BlockOfCell ==
  ASSUME NEW A, NEW c \in Seq(A), NEW l \in DOMAIN c
  PROVE  \E i \in Starts(c) : \E k \in DOMAIN BlockFrom(c, i) : BlockFrom(c, i)[k] = c[l]
<1>1. DOMAIN c = 1..Len(c) /\ Len(c) \in Nat /\ l \in 1..Len(c)
  OBVIOUS
<1>2. PICK S : S = { i \in Starts(c) : i <= l }
  OBVIOUS
<1>3. S \in SUBSET (1..l) /\ 1 \in S
  BY <1>1, <1>2 DEF Starts
<1>4. PICK m : m = SX!Max(S)
  OBVIOUS
<1>5. m \in S /\ \A k \in S : k <= m
  <2>1. l \in Nat /\ S # {}
    BY <1>1, <1>3
  <2> QED
    BY <1>3, <1>4, <2>1, GreatestPlace
<1>6. m \in DOMAIN c /\ m \in 1..l /\ m \in Starts(c)
  BY <1>1, <1>2, <1>3, <1>5
<1>7. PICK e : e = EndOf(c, m)
  OBVIOUS
<1>8. e \in Ends(c) /\ e \in m..Len(c)
  BY <1>6, <1>7, EndFacts
<1>9. e >= l
  <2> SUFFICES ASSUME ~(e >= l) PROVE FALSE
    OBVIOUS
  <2>1. PICK n : n = Len(c)
    OBVIOUS
  <2>2. n \in Nat /\ l \in 1..n /\ e \in m..n /\ m \in 1..l /\ ~(e >= l)
    BY <1>1, <1>6, <1>8, <2>1
  <2>3. e < l /\ e + 1 <= l /\ e # Len(c)
    BY <2>1, <2>2
  <2>4. e + 1 \in Starts(c)
    BY <1>8, <2>3 DEF Ends
  <2>5. PICK d : d = e + 1
    OBVIOUS
  <2>6. d \in S
    BY <1>2, <2>3, <2>4, <2>5
  <2>7. d <= m
    BY <1>5, <2>6
  <2> QED
    BY <1>6, <1>8, <2>5, <2>7
<1>10. PICK k : k = l - m + 1
  OBVIOUS
<1>11. k \in 1..(e - m + 1) /\ m + k - 1 = l
  BY <1>1, <1>6, <1>8, <1>9, <1>10
<1>12. k \in DOMAIN BlockFrom(c, m) /\ BlockFrom(c, m)[k] = c[l]
  <2>1. DOMAIN BlockFrom(c, m) = 1..(e - m + 1)
    BY <1>6, <1>7, BlockFacts
  <2>2. k \in DOMAIN BlockFrom(c, m)
    BY <1>11, <2>1
  <2>3. BlockFrom(c, m)[k] = c[m + k - 1]
    BY <1>6, <2>2, BlockFacts
  <2> QED
    BY <1>11, <2>2, <2>3
<1> QED
  BY <1>6, <1>12

LEMMA ColumnFacts ==
  ASSUME NEW rows, NEW A, IsRange(rows, A), NEW j \in DOMAIN rows[1]
  PROVE  /\ ColumnOf(rows, j) \in Seq(A) /\ DOMAIN ColumnOf(rows, j) = DOMAIN rows
         /\ \A i \in DOMAIN rows : j \in DOMAIN rows[i] /\ ColumnOf(rows, j)[i] = rows[i][j]
<1>1. rows \in Seq(Seq(A)) /\ IsSequence(rows)
  BY DEF IsRange, IsSequence
<1>2. ASSUME NEW i \in DOMAIN rows PROVE rows[i] \in Seq(A) /\ j \in DOMAIN rows[i] /\ rows[i][j] \in A
  <2>1. rows[i] \in Seq(A) /\ rows[1] \in Seq(A)
    <3>1. 1 \in DOMAIN rows
      BY <1>1 DEF IsRange
    <3> QED
      BY <1>1, <3>1
  <2>2. Len(rows[i]) = Len(rows[1])
    BY DEF IsRange
  <2> QED
    BY <2>1, <2>2
<1>3. ColumnOf(rows, j) \in [DOMAIN rows -> A]
  BY <1>2 DEF ColumnOf
<1>4. ColumnOf(rows, j) \in Seq(A)
  BY <1>1, <1>3, MappedType
<1> QED
  BY <1>2, <1>3, <1>4 DEF ColumnOf

\* The cells of a range and the places of its blocks are the same.
LEMMA CellInBlock ==
  ASSUME NEW rows, NEW A, IsRange(rows, A), NEW i \in DOMAIN rows, NEW j \in DOMAIN rows[i]
  PROVE  \E b \in Blocks(rows) : \E k \in DOMAIN b : b[k] = rows[i][j]
<1>1. j \in DOMAIN rows[1]
  <2>1. rows \in Seq(Seq(A)) /\ Len(rows[i]) = Len(rows[1]) /\ rows # << >>
    BY DEF IsRange
  <2>2. rows[i] \in Seq(A) /\ rows[1] \in Seq(A)
    BY <2>1
  <2> QED
    BY <2>1, <2>2
<1>2. PICK c : c = ColumnOf(rows, j)
  OBVIOUS
<1>3. c \in Seq(A) /\ i \in DOMAIN c /\ c[i] = rows[i][j]
  BY <1>1, <1>2, ColumnFacts
<1>4. PICK s \in Starts(c) : \E k \in DOMAIN BlockFrom(c, s) : BlockFrom(c, s)[k] = c[i]
  BY <1>3, BlockOfCell
<1>5. BlockFrom(c, s) \in Blocks(rows)
  BY <1>1, <1>2, BlocksAre
<1> QED
  BY <1>3, <1>4, <1>5

LEMMA BlockOfColumn ==
  ASSUME NEW rows, NEW A, IsRange(rows, A), NEW b \in Blocks(rows)
  PROVE  \E j \in DOMAIN rows[1] : \E i \in Starts(ColumnOf(rows, j)) :
            /\ b = BlockFrom(ColumnOf(rows, j), i) /\ i \in DOMAIN ColumnOf(rows, j)
            /\ \A k \in DOMAIN b : i + k - 1 \in DOMAIN rows /\ b[k] = rows[i + k - 1][j]
                                   /\ j \in DOMAIN rows[i + k - 1]
            /\ 1 \in DOMAIN b
<1>1. PICK j, i : j \in DOMAIN rows[1] /\ i \in Starts(ColumnOf(rows, j)) /\ b = BlockFrom(ColumnOf(rows, j), i)
  BY BlocksAre
<1>2. PICK c : c = ColumnOf(rows, j)
  OBVIOUS
<1>3. c \in Seq(A) /\ DOMAIN c = DOMAIN rows /\ \A l \in DOMAIN rows : j \in DOMAIN rows[l] /\ c[l] = rows[l][j]
  BY <1>1, <1>2, ColumnFacts
<1>4. i \in DOMAIN c
  BY <1>1, <1>2 DEF Starts
<1>5. \A k \in DOMAIN b : b[k] = c[i + k - 1] /\ i + k - 1 \in DOMAIN c
  BY <1>1, <1>2, <1>3, <1>4, BlockFacts
<1>6. 1 \in DOMAIN b
  BY <1>1, <1>2, <1>3, <1>4, BlockFacts
<1> QED
  BY <1>1, <1>2, <1>3, <1>4, <1>5, <1>6

LEMMA TwoMembers ==
  ASSUME NEW a, NEW b, a # b PROVE Cardinality({a, b}) = 2 /\ IsFiniteSet({a, b})
<1>1. Cardinality({a}) = 1 /\ IsFiniteSet({a})
  BY FS_Singleton
<1>2. Cardinality({a} \cup {b}) = Cardinality({a}) + 1 /\ IsFiniteSet({a} \cup {b})
  BY <1>1, FS_AddElement
<1>3. {a} \cup {b} = {a, b}
  OBVIOUS
<1> QED
  BY <1>1, <1>2, <1>3

LEMMA BlockDomain ==
  ASSUME NEW rows, NEW A, IsRange(rows, A), NEW b \in Blocks(rows)
  PROVE  DOMAIN b = 1..Len(b) /\ Len(b) \in Nat
<1>1. PICK j, i : j \in DOMAIN rows[1] /\ i \in Starts(ColumnOf(rows, j)) /\ b = BlockFrom(ColumnOf(rows, j), i)
  BY BlocksAre
<1>2. PICK c : c = ColumnOf(rows, j)
  OBVIOUS
<1>3. c \in Seq(A) /\ i \in DOMAIN c
  BY <1>1, <1>2, ColumnFacts DEF Starts
<1>4. EndOf(c, i) \in i..Len(c) /\ DOMAIN c = 1..Len(c) /\ Len(c) \in Nat
  BY <1>3, EndFacts
<1>5. Len(b) = EndOf(c, i) - i + 1 /\ DOMAIN b = 1..(EndOf(c, i) - i + 1)
  BY <1>1, <1>2, <1>3, BlockFacts
<1>6. PICK e : e = EndOf(c, i)
  OBVIOUS
<1> QED
  BY <1>3, <1>4, <1>5, <1>6

\* A block of formula cells in a column with one of them is that one.
LEMMA FormulaBlock ==
  ASSUME NEW rows, IsRange(rows, DOMAIN Cells), NEW b \in Blocks(rows), BlockType(b[1]) = "formula",
         \A j \in DOMAIN rows[1] : Cardinality({ i \in DOMAIN rows : Cells[rows[i][j]].formula }) <= 1
  PROVE  DOMAIN b = {1}
<1>1. PICK j, i : j \in DOMAIN rows[1] /\ i \in Starts(ColumnOf(rows, j)) /\ b = BlockFrom(ColumnOf(rows, j), i)
  BY BlocksAre
<1>2. PICK c : c = ColumnOf(rows, j)
  OBVIOUS
<1>3. /\ c \in Seq(DOMAIN Cells) /\ i \in DOMAIN c /\ DOMAIN c = DOMAIN rows
      /\ \A l \in DOMAIN rows : c[l] = rows[l][j]
  BY <1>1, <1>2, ColumnFacts DEF Starts
<1>4. PICK e : e = EndOf(c, i)
  OBVIOUS
<1>5. e \in Ends(c) /\ e \in i..Len(c) /\ DOMAIN c = 1..Len(c) /\ Len(c) \in Nat
      /\ \A f \in Ends(c) : f >= i => e <= f
  BY <1>3, <1>4, EndFacts
<1>6. DOMAIN b = 1..(e - i + 1) /\ b[1] = c[i]
  <2>1. DOMAIN b = 1..(e - i + 1)
    BY <1>1, <1>2, <1>3, <1>4, BlockFacts
  <2>2. 1 \in DOMAIN b /\ b[1] = c[i + 1 - 1]
    BY <1>1, <1>2, <1>3, BlockFacts
  <2>3. i + 1 - 1 = i
    BY <1>3, <1>5
  <2> QED
    BY <2>1, <2>2, <2>3
<1>7. \A a \in DOMAIN Cells : BlockType(a) = "formula" => Cells[a].formula
  BY CellsAssumption DEF BlockType, ContentType
<1>8. e = i
  <2> SUFFICES ASSUME e # i PROVE FALSE
    OBVIOUS
  <2>1. i \notin Ends(c) /\ i + 1 \in DOMAIN c
    <3>1. PICK n : n = Len(c)
      OBVIOUS
    <3>2. n \in Nat /\ i \in 1..n /\ e \in i..n /\ e # i
      BY <1>3, <1>5, <3>1
    <3>3. i + 1 \in 1..n /\ i >= i /\ ~(e <= i)
      BY <3>2
    <3> QED
      BY <1>5, <3>1, <3>3
  <2>2. i + 1 \notin Starts(c)
    BY <1>3, <2>1 DEF Ends
  <2>3. PICK m : m = i + 1
    OBVIOUS
  <2>4. m \in DOMAIN c /\ m \notin Starts(c) /\ m - 1 = i /\ m # i /\ m # 1
    BY <1>3, <1>5, <2>1, <2>2, <2>3
  <2>5. BlockType(c[m]) = BlockType(c[i])
    BY <2>4 DEF Starts
  <2>6. c[m] \in DOMAIN Cells /\ c[i] \in DOMAIN Cells
    BY <1>3, <2>4
  <2>7. Cells[rows[m][j]].formula /\ Cells[rows[i][j]].formula
    BY <1>3, <1>6, <1>7, <2>4, <2>5, <2>6
  <2>8. PICK F : F = { l \in DOMAIN rows : Cells[rows[l][j]].formula }
    OBVIOUS
  <2>9. m \in F /\ i \in F
    BY <1>3, <2>4, <2>7, <2>8
  <2>10. Cardinality(F) <= 1
    BY <1>1, <2>8
  <2>11. IsFiniteSet(F)
    <3>1. IsFiniteSet(1..Len(c))
      BY <1>5, FS_Interval
    <3>2. F \subseteq 1..Len(c)
      BY <1>3, <1>5, <2>8
    <3> QED
      BY <3>1, <3>2, FS_Subset
  <2>12. Cardinality({m, i}) = 2 /\ IsFiniteSet({m, i})
    BY <2>4, TwoMembers
  <2>13. Cardinality({m, i}) <= Cardinality(F)
    BY <2>9, <2>11, FS_Subset
  <2>14. Cardinality(F) \in Nat
    BY <2>11, FS_CardinalityType
  <2> QED
    BY <2>10, <2>12, <2>13, <2>14
<1> QED
  BY <1>3, <1>5, <1>6, <1>8

\* OR over the blocks of a range is OR over its cells.
LEMMA OrOfRange ==
  ASSUME NEW rows, NEW A, IsRange(rows, A)
  PROVE  (\E b \in Blocks(rows) : BlockOr(b)) <=> (TRUE \in CellTruths(rows))
<1>1. ASSUME NEW b \in Blocks(rows), BlockOr(b) PROVE TRUE \in CellTruths(rows)
  <2>1. PICK k \in DOMAIN b : IsLogical(Cells[b[k]].content) /\ Truth(Cells[b[k]].content)
    BY <1>1 DEF BlockOr, LogicalPlaces, TruthAt
  <2>2. PICK l, j : l \in DOMAIN rows /\ j \in DOMAIN rows[l] /\ b[k] = rows[l][j]
    BY BlockOfColumn
  <2>3. PICK a : a = b[k]
    OBVIOUS
  <2>4. Truth(Cells[a].content) \in CellTruths(rows)
    BY <2>1, <2>2, <2>3 DEF CellTruths
  <2>5. Truth(Cells[a].content) = TRUE
    BY <2>1, <2>3 DEF Truth
  <2> QED
    BY <2>4, <2>5
<1>2. ASSUME TRUE \in CellTruths(rows) PROVE \E b \in Blocks(rows) : BlockOr(b)
  <2>1. PICK i, j : /\ i \in DOMAIN rows /\ j \in DOMAIN rows[i]
                    /\ IsLogical(Cells[rows[i][j]].content) /\ Truth(Cells[rows[i][j]].content) = TRUE
    BY <1>2 DEF CellTruths
  <2>2. PICK b, k : b \in Blocks(rows) /\ k \in DOMAIN b /\ b[k] = rows[i][j]
    BY <2>1, CellInBlock
  <2>3. BlockOr(b)
    BY <2>1, <2>2 DEF BlockOr, LogicalPlaces, TruthAt
  <2> QED
    BY <2>2, <2>3
<1> QED
  BY <1>1, <1>2

\* AND over the blocks finds no false cell that is not there.
LEMMA AndOfRangeFalse ==
  ASSUME NEW rows, NEW A, IsRange(rows, A), ~ \A b \in Blocks(rows) : BlockAnd(b)
  PROVE  FALSE \in CellTruths(rows)
<1>1. PICK b \in Blocks(rows) : ~BlockAnd(b)
  OBVIOUS
<1>2. PICK places : places = LogicalPlaces(b)
  OBVIOUS
<1>3. \E k \in places : ~TruthAt(b, k)
  <2>1. CASE BlockType(b[1]) = "formula" /\ places # {}
    <3>1. PICK n : n = CHOOSE k \in places : \A j \in places : j <= k
      OBVIOUS
    <3>2. ~TruthAt(b, n)
      BY <1>1, <1>2, <2>1, <3>1 DEF BlockAnd
    <3>3. n \in places
      <4>1. DOMAIN b = 1..Len(b) /\ Len(b) \in Nat
        BY BlockDomain
      <4>2. places \in SUBSET (1..Len(b))
        BY <1>2, <4>1 DEF LogicalPlaces
      <4>3. SX!Max(places) \in places /\ \A j \in places : j <= SX!Max(places)
        BY <2>1, <4>1, <4>2, GreatestPlace
      <4> QED
        BY <3>1, <4>3
    <3> QED
      BY <3>2, <3>3
  <2>2. CASE ~(BlockType(b[1]) = "formula" /\ places # {})
    BY <1>1, <1>2, <2>2 DEF BlockAnd
  <2> QED
    BY <2>1, <2>2
<1>4. PICK k \in DOMAIN b : IsLogical(Cells[b[k]].content) /\ ~Truth(Cells[b[k]].content)
  BY <1>2, <1>3 DEF LogicalPlaces, TruthAt
<1>5. PICK l, j : l \in DOMAIN rows /\ j \in DOMAIN rows[l] /\ b[k] = rows[l][j]
  BY BlockOfColumn
<1>6. PICK a : a = b[k]
  OBVIOUS
<1>7. Truth(Cells[a].content) \in CellTruths(rows)
  BY <1>4, <1>5, <1>6 DEF CellTruths
<1>8. Truth(Cells[a].content) = FALSE
  BY <1>4, <1>6 DEF Truth
<1> QED
  BY <1>7, <1>8

\* In a range without two formula cells in a column it finds every one.
LEMMA AndOfRangeTrue ==
  ASSUME NEW rows, IsRange(rows, DOMAIN Cells), \A b \in Blocks(rows) : BlockAnd(b),
         \A j \in DOMAIN rows[1] : Cardinality({ i \in DOMAIN rows : Cells[rows[i][j]].formula }) <= 1
  PROVE  FALSE \notin CellTruths(rows)
<1> SUFFICES ASSUME FALSE \in CellTruths(rows) PROVE FALSE
  OBVIOUS
<1>1. PICK i, j : /\ i \in DOMAIN rows /\ j \in DOMAIN rows[i]
                  /\ IsLogical(Cells[rows[i][j]].content) /\ Truth(Cells[rows[i][j]].content) = FALSE
  <2>1. PICK a : /\ a \in UNION { { rows[i][j] : j \in DOMAIN rows[i] } : i \in DOMAIN rows }
                 /\ IsLogical(Cells[a].content) /\ Truth(Cells[a].content) = FALSE
    BY DEF CellTruths
  <2>2. PICK i, j : i \in DOMAIN rows /\ j \in DOMAIN rows[i] /\ a = rows[i][j]
    BY <2>1
  <2> QED
    BY <2>1, <2>2
<1>2. PICK b, k : b \in Blocks(rows) /\ k \in DOMAIN b /\ b[k] = rows[i][j]
  BY <1>1, CellInBlock
<1>3. PICK places : places = LogicalPlaces(b)
  OBVIOUS
<1>4. k \in places /\ ~TruthAt(b, k)
  BY <1>1, <1>2, <1>3 DEF LogicalPlaces, TruthAt
<1>5. BlockType(b[1]) = "formula"
  BY <1>2, <1>3, <1>4 DEF BlockAnd
<1>6. DOMAIN b = {1}
  BY <1>2, <1>5, FormulaBlock
<1>7. places = {1} /\ k = 1
  BY <1>3, <1>4, <1>6 DEF LogicalPlaces
<1>8. TruthAt(b, CHOOSE n \in places : \A m \in places : m <= n)
  BY <1>2, <1>3, <1>4, <1>5 DEF BlockAnd
<1>9. (CHOOSE n \in places : \A m \in places : m <= n) = 1
  BY <1>7
<1> QED
  BY <1>4, <1>7, <1>8, <1>9

LEMMA BooleanFacts ==
  \A b : Boolean(b).type = "boolean" /\ Boolean(b).boolean = b
BY DEF Boolean

LEMMA CellTruthsOf ==
  ASSUME NEW v, IsReference(v) PROVE TruthValues(v) = CellTruths(Rows(v))
BY DEF TruthValues, CellTruths

\* The truth values of a reference to one cell.
LEMMA TruthsOfCell ==
  ASSUME NEW v, v.type = "single_ref"
  PROVE  TruthValues(v) = IF IsLogical(Cells[v.address].content)
                          THEN {Truth(Cells[v.address].content)} ELSE {}
<1>1. PICK a : a = v.address
  OBVIOUS
<1>2. PICK rows : rows = << << a >> >>
  OBVIOUS
<1>3. Rows(v) = rows /\ IsReference(v)
  BY <1>1, <1>2 DEF Rows, IsReference
<1>4. DOMAIN rows = {1} /\ DOMAIN rows[1] = {1} /\ rows[1][1] = a
  BY <1>2
<1>5. UNION { { rows[i][j] : j \in DOMAIN rows[i] } : i \in DOMAIN rows } = {a}
  BY <1>4
<1>6. CellTruths(rows) = { Truth(Cells[c].content) : c \in { b \in {a} : IsLogical(Cells[b].content) } }
  BY <1>5 DEF CellTruths
<1>7. CASE IsLogical(Cells[a].content)
  <2>1. { b \in {a} : IsLogical(Cells[b].content) } = {a}
    BY <1>7
  <2> QED
    BY <1>1, <1>3, <1>6, <1>7, <2>1, CellTruthsOf
<1>8. CASE ~IsLogical(Cells[a].content)
  <2>1. { b \in {a} : IsLogical(Cells[b].content) } = {}
    BY <1>8
  <2> QED
    BY <1>1, <1>3, <1>6, <1>8, <2>1, CellTruthsOf
<1> QED
  BY <1>7, <1>8

\* What one argument of OR says.
LEMMA OrArgument ==
  ASSUME NEW v, IsStackValue(v), JunctionArgument(v, FALSE).type = "boolean"
  PROVE  \E b \in BOOLEAN : /\ JunctionArgument(v, FALSE) = Boolean(b)
                            /\ b <=> TRUE \in TruthValues(v)
<1>1. CASE v.type = "value"
  <2>1. TruthValues(v) = {Truth(v)} /\ Truth(v) \in BOOLEAN
    BY <1>1 DEF TruthValues, IsReference, Truth
  <2>2. PICK t \in BOOLEAN : t = Truth(v)
    BY <2>1
  <2>3. JunctionArgument(v, FALSE) = Boolean(t)
    BY <1>1, <2>2 DEF JunctionArgument
  <2>4. t <=> TRUE \in TruthValues(v)
    BY <2>1, <2>2
  <2> QED
    BY <2>3, <2>4
<1>2. CASE v.type = "string"
  <2>1. TRUE \notin TruthValues(v)
    BY <1>2 DEF TruthValues, IsReference
  <2>2. JunctionArgument(v, FALSE) = Boolean(FALSE)
    BY <1>2 DEF JunctionArgument
  <2> QED
    BY <2>1, <2>2
<1>3. CASE v.type = "single_ref"
  <2>1. PICK c : c = Cells[v.address].content
    OBVIOUS
  <2>2. JunctionArgument(v, FALSE) = Boolean(IF IsLogical(c) THEN Truth(c) ELSE FALSE)
    BY <1>3, <2>1 DEF JunctionArgument
  <2>3. TruthValues(v) = IF IsLogical(c) THEN {Truth(c)} ELSE {}
    BY <1>3, <2>1, TruthsOfCell
  <2>4. Truth(c) \in BOOLEAN
    BY DEF Truth
  <2>5. PICK b \in BOOLEAN : b = IF IsLogical(c) THEN Truth(c) ELSE FALSE
    BY <2>4
  <2>6. b <=> TRUE \in TruthValues(v)
    BY <2>3, <2>4, <2>5
  <2>7. JunctionArgument(v, FALSE) = Boolean(b)
    BY <2>2, <2>5
  <2> QED
    BY <2>6, <2>7
<1>4. CASE v.type = "range_ref"
  <2>1. JunctionArgument(v, FALSE) = Boolean(\E b \in Blocks(v.range) : BlockOr(b))
    BY <1>4 DEF JunctionArgument
  <2>2. TruthValues(v) = CellTruths(v.range) /\ IsRange(v.range, DOMAIN Cells)
    <3>1. IsReference(v) /\ Rows(v) = v.range
      BY <1>4 DEF IsReference, Rows
    <3>2. IsRange(v.range, DOMAIN Cells)
      BY <1>4 DEF IsStackValue
    <3> QED
      BY <3>1, <3>2, CellTruthsOf
  <2>3. PICK b \in BOOLEAN : b = (\E c \in Blocks(v.range) : BlockOr(c))
    OBVIOUS
  <2>4. b <=> TRUE \in TruthValues(v)
    BY <2>2, <2>3, OrOfRange
  <2>5. JunctionArgument(v, FALSE) = Boolean(b)
    BY <2>1, <2>3
  <2> QED
    BY <2>4, <2>5
<1>5. CASE v.type \notin {"value", "string", "single_ref", "range_ref"}
  <2>1. JunctionArgument(v, FALSE) = Thrown("general_error")
    BY <1>5 DEF JunctionArgument
  <2>2. Thrown("general_error").type = "thrown"
    BY DEF Thrown
  <2> QED
    BY <2>1, <2>2
<1> QED
  BY <1>1, <1>2, <1>3, <1>4, <1>5

\* What one argument of AND says.
LEMMA AndArgument ==
  ASSUME NEW v, IsStackValue(v), JunctionArgument(v, TRUE).type = "boolean"
  PROVE  \E b \in BOOLEAN : /\ JunctionArgument(v, TRUE) = Boolean(b)
                            /\ ~b => FALSE \in TruthValues(v)
                            /\ b /\ SparseFormulas(v) => FALSE \notin TruthValues(v)
<1>1. CASE v.type = "value"
  <2>1. TruthValues(v) = {Truth(v)} /\ Truth(v) \in BOOLEAN
    BY <1>1 DEF TruthValues, IsReference, Truth
  <2>2. PICK t \in BOOLEAN : t = Truth(v)
    BY <2>1
  <2>3. JunctionArgument(v, TRUE) = Boolean(t)
    BY <1>1, <2>2 DEF JunctionArgument
  <2>4. ~t <=> FALSE \in TruthValues(v)
    BY <2>1, <2>2
  <2> QED
    BY <2>3, <2>4
<1>2. CASE v.type = "string"
  <2>1. FALSE \notin TruthValues(v)
    BY <1>2 DEF TruthValues, IsReference
  <2>2. JunctionArgument(v, TRUE) = Boolean(TRUE)
    BY <1>2 DEF JunctionArgument
  <2> QED
    BY <2>1, <2>2
<1>3. CASE v.type = "single_ref"
  <2>1. PICK c : c = Cells[v.address].content
    OBVIOUS
  <2>2. JunctionArgument(v, TRUE) = Boolean(IF IsLogical(c) THEN Truth(c) ELSE TRUE)
    BY <1>3, <2>1 DEF JunctionArgument
  <2>3. TruthValues(v) = IF IsLogical(c) THEN {Truth(c)} ELSE {}
    BY <1>3, <2>1, TruthsOfCell
  <2>4. Truth(c) \in BOOLEAN
    BY DEF Truth
  <2>5. PICK b \in BOOLEAN : b = IF IsLogical(c) THEN Truth(c) ELSE TRUE
    BY <2>4
  <2>6. ~b <=> FALSE \in TruthValues(v)
    BY <2>3, <2>4, <2>5
  <2>7. JunctionArgument(v, TRUE) = Boolean(b)
    BY <2>2, <2>5
  <2> QED
    BY <2>6, <2>7
<1>4. CASE v.type = "range_ref"
  <2>1. JunctionArgument(v, TRUE) = Boolean(\A b \in Blocks(v.range) : BlockAnd(b))
    BY <1>4 DEF JunctionArgument
  <2>2. TruthValues(v) = CellTruths(v.range) /\ IsRange(v.range, DOMAIN Cells)
    <3>1. IsReference(v) /\ Rows(v) = v.range
      BY <1>4 DEF IsReference, Rows
    <3>2. IsRange(v.range, DOMAIN Cells)
      BY <1>4 DEF IsStackValue
    <3> QED
      BY <3>1, <3>2, CellTruthsOf
  <2>3. PICK b \in BOOLEAN : b = (\A c \in Blocks(v.range) : BlockAnd(c))
    OBVIOUS
  <2>4. ~b => FALSE \in TruthValues(v)
    BY <2>2, <2>3, AndOfRangeFalse
  <2>5. b /\ SparseFormulas(v) => FALSE \notin TruthValues(v)
    BY <1>4, <2>2, <2>3, AndOfRangeTrue DEF SparseFormulas
  <2>6. JunctionArgument(v, TRUE) = Boolean(b)
    BY <2>1, <2>3
  <2> QED
    BY <2>4, <2>5, <2>6
<1>5. CASE v.type \notin {"value", "string", "single_ref", "range_ref"}
  <2>1. JunctionArgument(v, TRUE) = Thrown("general_error")
    BY <1>5 DEF JunctionArgument
  <2>2. Thrown("general_error").type = "thrown"
    BY DEF Thrown
  <2> QED
    BY <2>1, <2>2
<1> QED
  BY <1>1, <1>2, <1>3, <1>4, <1>5

\* The argument that decides, or that none does.
LEMMA JunctionBy ==
  ASSUME NEW args, AreValues(args), NEW neutral \in BOOLEAN
  PROVE  \/ /\ Junction(args, neutral) = Boolean(neutral)
            /\ \A k \in DOMAIN args : JunctionArgument(args[k], neutral) = Boolean(neutral)
         \/ \E k \in DOMAIN args : /\ Junction(args, neutral) = JunctionArgument(args[k], neutral)
                                   /\ JunctionArgument(args[k], neutral) # Boolean(neutral)
<1>1. PICK D : D = { k \in DOMAIN args : JunctionArgument(args[k], neutral) # Boolean(neutral) }
  OBVIOUS
<1>2. CASE D = {}
  <2>1. Junction(args, neutral) = Boolean(neutral)
    BY <1>1, <1>2 DEF Junction
  <2> QED
    BY <1>1, <1>2, <2>1
<1>3. CASE D # {}
  <2>1. PICK k : k = CHOOSE i \in D : \A j \in D : j <= i
    OBVIOUS
  <2>2. k \in D
    <3>1. DOMAIN args = 1..Len(args) /\ Len(args) \in Nat
      BY LenFacts DEF AreValues
    <3>2. D \in SUBSET (1..Len(args))
      BY <1>1, <3>1
    <3>3. SX!Max(D) \in D /\ \A j \in D : j <= SX!Max(D)
      BY <1>3, <3>1, <3>2, GreatestPlace
    <3> QED
      BY <2>1, <3>3
  <2>3. Junction(args, neutral) = JunctionArgument(args[k], neutral)
    BY <1>1, <1>3, <2>1 DEF Junction
  <2> QED
    BY <1>1, <2>2, <2>3
<1> QED
  BY <1>2, <1>3

LEMMA BooleanSame == \A a, b : Boolean(a) = Boolean(b) => a = b
<1> SUFFICES ASSUME NEW a, NEW b, Boolean(a) = Boolean(b) PROVE a = b
  OBVIOUS
<1>1. Boolean(a).boolean = a /\ Boolean(b).boolean = b
  BY BooleanFacts
<1> QED
  BY <1>1

LEMMA ElementTruths ==
  \A args, t : t \in AllTruthValues(args) <=> \E k \in DOMAIN args : t \in TruthValues(args[k])
BY DEF AllTruthValues

LEMMA OrByTruth ==
  ASSUME NEW args, AreValues(args), Junction(args, FALSE).type = "boolean"
  PROVE  \E b \in BOOLEAN : Junction(args, FALSE) = Boolean(b) /\ (b <=> TRUE \in AllTruthValues(args))
<1>1. \A k \in DOMAIN args : IsStackValue(args[k])
  BY DEF AreValues
<1>2. CASE /\ Junction(args, FALSE) = Boolean(FALSE)
           /\ \A k \in DOMAIN args : JunctionArgument(args[k], FALSE) = Boolean(FALSE)
  <2>1. ASSUME NEW k \in DOMAIN args PROVE TRUE \notin TruthValues(args[k])
    <3>1. JunctionArgument(args[k], FALSE) = Boolean(FALSE)
      BY <1>2
    <3>2. JunctionArgument(args[k], FALSE).type = "boolean"
      BY <3>1, BooleanFacts
    <3>3. PICK b \in BOOLEAN : /\ JunctionArgument(args[k], FALSE) = Boolean(b)
                               /\ b <=> TRUE \in TruthValues(args[k])
      BY <1>1, <3>2, OrArgument
    <3>4. b = FALSE
      BY <3>1, <3>3, BooleanSame
    <3> QED
      BY <3>3, <3>4
  <2>2. TRUE \notin AllTruthValues(args)
    BY <2>1, ElementTruths
  <2> QED
    BY <1>2, <2>2
<1>3. CASE \E k \in DOMAIN args : /\ Junction(args, FALSE) = JunctionArgument(args[k], FALSE)
                                  /\ JunctionArgument(args[k], FALSE) # Boolean(FALSE)
  <2>1. PICK k \in DOMAIN args : /\ Junction(args, FALSE) = JunctionArgument(args[k], FALSE)
                                 /\ JunctionArgument(args[k], FALSE) # Boolean(FALSE)
    BY <1>3
  <2>2. PICK b \in BOOLEAN : /\ JunctionArgument(args[k], FALSE) = Boolean(b)
                             /\ b <=> TRUE \in TruthValues(args[k])
    BY <1>1, <2>1, OrArgument
  <2>3. b = TRUE
    BY <2>1, <2>2
  <2>4. TRUE \in AllTruthValues(args)
    BY <2>2, <2>3, ElementTruths
  <2> QED
    BY <2>1, <2>2, <2>3, <2>4
<1> QED
  BY <1>2, <1>3, JunctionBy

LEMMA AndByTruth ==
  ASSUME NEW args, AreValues(args), Junction(args, TRUE).type = "boolean"
  PROVE  \E b \in BOOLEAN :
           /\ Junction(args, TRUE) = Boolean(b)
           /\ ~b => FALSE \in AllTruthValues(args)
           /\ b /\ (\A k \in DOMAIN args : SparseFormulas(args[k])) => FALSE \notin AllTruthValues(args)
<1>1. \A k \in DOMAIN args : IsStackValue(args[k])
  BY DEF AreValues
<1>2. CASE /\ Junction(args, TRUE) = Boolean(TRUE)
           /\ \A k \in DOMAIN args : JunctionArgument(args[k], TRUE) = Boolean(TRUE)
  <2>1. ASSUME NEW k \in DOMAIN args, SparseFormulas(args[k]) PROVE FALSE \notin TruthValues(args[k])
    <3>1. JunctionArgument(args[k], TRUE) = Boolean(TRUE)
      BY <1>2
    <3>2. JunctionArgument(args[k], TRUE).type = "boolean"
      BY <3>1, BooleanFacts
    <3>3. PICK b \in BOOLEAN : /\ JunctionArgument(args[k], TRUE) = Boolean(b)
                               /\ b /\ SparseFormulas(args[k]) => FALSE \notin TruthValues(args[k])
      BY <1>1, <3>2, AndArgument
    <3>4. b = TRUE
      BY <3>1, <3>3, BooleanSame
    <3> QED
      BY <2>1, <3>3, <3>4
  <2>2. (\A k \in DOMAIN args : SparseFormulas(args[k])) => FALSE \notin AllTruthValues(args)
    BY <2>1, ElementTruths
  <2> QED
    BY <1>2, <2>2
<1>3. CASE \E k \in DOMAIN args : /\ Junction(args, TRUE) = JunctionArgument(args[k], TRUE)
                                  /\ JunctionArgument(args[k], TRUE) # Boolean(TRUE)
  <2>1. PICK k \in DOMAIN args : /\ Junction(args, TRUE) = JunctionArgument(args[k], TRUE)
                                 /\ JunctionArgument(args[k], TRUE) # Boolean(TRUE)
    BY <1>3
  <2>2. PICK b \in BOOLEAN : /\ JunctionArgument(args[k], TRUE) = Boolean(b)
                             /\ ~b => FALSE \in TruthValues(args[k])
    BY <1>1, <2>1, AndArgument
  <2>3. b = FALSE
    BY <2>1, <2>2
  <2>4. FALSE \in AllTruthValues(args)
    BY <2>2, <2>3, ElementTruths
  <2> QED
    BY <2>1, <2>2, <2>3, <2>4
<1> QED
  BY <1>2, <1>3, JunctionBy

\* What becomes of it when it is a value of the formula.
LEMMA BooleanAsValue ==
  ASSUME NEW w, AsValue(w).type = "boolean" PROVE AsValue(w) = w
<1>1. \A e : ErrorOf(e).type # "boolean"
  BY DEF ErrorOf
<1> QED
  BY <1>1 DEF AsValue

LEMMA JunctionsCalled ==
  ASSUME FunctionsAreBuiltIn
  PROVE  \A args : /\ ValueOf("AND", args) = AsValue(Junction(args, TRUE))
                   /\ ValueOf("OR", args) = AsValue(Junction(args, FALSE))
BY DEF FunctionsAreBuiltIn, ValueOf, Called, FunctionValue, NumberFunctions, TextFunctionNames,
       LogicalFunctions, LogicalFunction

LEMMA ArgumentsOfCallAreValues ==
  ASSUME TypesInv, Calling({"AND", "OR"}) \/ Calling({"ISERR", "ISNA", "ISTEXT", "ISNUMBER", "TYPE"})
  PROVE  AreValues(ArgumentsOfCall)
<1>1. at # "done"
  BY DEF Calling
<1> QED
  BY <1>1, ArgumentsAreValues DEF ArgumentsOfCall

LEMMA JunctionsMean == ASSUME FunctionsAreBuiltIn PROVE TypesInv => JunctionsByTruth
<1> SUFFICES ASSUME TypesInv, Calling({"AND", "OR"}),
                    NEW args, args = ArgumentsOfCall, NEW v, v = ValueOf(Caller.name, args),
                    v.type = "boolean"
             PROVE  IF Caller.name = "OR" THEN v.boolean <=> TRUE \in AllTruthValues(args)
                    ELSE /\ ~v.boolean => FALSE \in AllTruthValues(args)
                         /\ v.boolean /\ (\A k \in DOMAIN args : SparseFormulas(args[k]))
                               => FALSE \notin AllTruthValues(args)
  BY DEF JunctionsByTruth
<1>1. AreValues(args)
  BY ArgumentsOfCallAreValues
<1>2. CASE Caller.name = "OR"
  <2>1. v = AsValue(Junction(args, FALSE))
    BY <1>2, JunctionsCalled
  <2>2. v = Junction(args, FALSE)
    BY <2>1, BooleanAsValue
  <2>3. PICK b \in BOOLEAN : v = Boolean(b) /\ (b <=> TRUE \in AllTruthValues(args))
    BY <1>1, <2>2, OrByTruth
  <2>4. v.boolean = b
    BY <2>3, BooleanFacts
  <2> QED
    BY <1>2, <2>3, <2>4
<1>3. CASE Caller.name = "AND"
  <2>1. v = AsValue(Junction(args, TRUE))
    BY <1>3, JunctionsCalled
  <2>2. v = Junction(args, TRUE)
    BY <2>1, BooleanAsValue
  <2>3. PICK b \in BOOLEAN :
           /\ v = Boolean(b)
           /\ ~b => FALSE \in AllTruthValues(args)
           /\ b /\ (\A k \in DOMAIN args : SparseFormulas(args[k])) => FALSE \notin AllTruthValues(args)
    BY <1>1, <2>2, AndByTruth
  <2>4. v.boolean = b
    BY <2>3, BooleanFacts
  <2> QED
    BY <1>3, <2>3, <2>4
<1>4. Caller.name = "OR" \/ Caller.name = "AND"
  BY DEF Calling
<1> QED
  BY <1>2, <1>3, <1>4

\* At every call of AND and OR an interpretation makes, their value is what
\* the truth values among the arguments say.
THEOREM JunctionsAreByTruth ==
  ASSUME FunctionsAreBuiltIn PROVE Spec => []JunctionsByTruth
<1>1. FunctionsGiveValues
  BY BuiltInGive
<1>2. TypesInv /\ [Next]_vars => TypesInv'
  BY <1>1, TypesStep
<1>3. TypesInv => JunctionsByTruth
  BY JunctionsMean
<1> QED
  BY <1>2, <1>3, TypesStart, PTL DEF Spec

-----------------------------------------------------------------------------
(***************************************************************************)
(* The questions about one argument.                                       *)
(***************************************************************************)

LEMMA NumberFacts == \A n : Number(n) = Value(<< n, 1 >>) /\ Number(n).type = "value" /\ Number(n).number[1] = n
BY DEF Number, Value

LEMMA NumbersDiffer == \A m, n : Number(m) = Number(n) => m = n
<1> SUFFICES ASSUME NEW m, NEW n, Number(m) = Number(n) PROVE m = n
  OBVIOUS
<1>1. Number(m).number[1] = m /\ Number(n).number[1] = n
  BY NumberFacts
<1> QED
  BY <1>1

\* What is no exception is the value of the call.
LEMMA PlainAsValue ==
  /\ \A b : AsValue(Boolean(b)) = Boolean(b)
  /\ \A n : AsValue(Number(n)) = Number(n)
  /\ AsValue(Escaped) = Escaped
BY DEF AsValue, Boolean, Number, Value, Escaped

QuestionNames == {"ISERR", "ISNA", "ISTEXT", "ISNONTEXT", "ISLOGICAL", "ISNUMBER", "ISERROR", "ISBLANK", "TYPE"}

LEMMA QuestionsCalled ==
  ASSUME FunctionsAreBuiltIn, NEW args, NEW f \in QuestionNames
  PROVE  ValueOf(f, args) = AsValue(CellFunction(f, args))
BY DEF FunctionsAreBuiltIn, ValueOf, Called, FunctionValue, NumberFunctions, TextFunctionNames,
       LogicalFunctions, QuestionNames

LEMMA CountsCalled ==
  ASSUME FunctionsAreBuiltIn, NEW args
  PROVE  /\ ValueOf("COUNT", args) = AsValue(Count(args, {"value"}, {"value", "boolean"}))
         /\ ValueOf("COUNTA", args) = AsValue(Count(args, {"value", "string"}, {"value", "boolean", "string"}))
         /\ ValueOf("COUNTBLANK", args) = AsValue(CountBlank(args))
<1>1. \A f \in {"COUNT", "COUNTA", "COUNTBLANK"} : ValueOf(f, args) = AsValue(NumberFunction(f, args))
  <2>1. {"COUNT", "COUNTA", "COUNTBLANK"} \subseteq NumberFunctions
    BY DEF NumberFunctions
  <2>2. \A f \in NumberFunctions : FunctionValue(f, args) = NumberFunction(f, args)
    BY DEF FunctionValue, NumberFunctions, TextFunctionNames, LogicalFunctions
  <2> QED
    BY <2>1, <2>2 DEF FunctionsAreBuiltIn, ValueOf, Called
<1>2. /\ NumberFunction("COUNT", args) = Count(args, {"value"}, {"value", "boolean"})
      /\ NumberFunction("COUNTBLANK", args) = CountBlank(args)
  BY DEF NumberFunction
<1>3. NumberFunction("COUNTA", args) = Count(args, {"value", "string"}, {"value", "boolean", "string"})
  BY DEF NumberFunction
<1> QED
  BY <1>1, <1>2, <1>3

\* What each question asks.
LEMMA Answers ==
  ASSUME FunctionsAreBuiltIn, NEW args, Len(args) = 1, NEW a, a = args[1]
  PROVE  /\ Yes("ISNUMBER", args) <=> TypeOf(a) = "value"
         /\ Yes("ISTEXT", args) <=> TypeOf(a) = "string"
         /\ Yes("ISLOGICAL", args) <=> TypeOf(a) = "boolean"
         /\ Yes("ISNONTEXT", args) <=> TypeOf(a) \in DOMAIN TypeCode \ {"string"}
         /\ Yes("ISERROR", args) <=> TypeOf(a) = "error"
         /\ Yes("ISERR", args) <=> ErrorIn(a) \notin {"no_error", "no_value_available"} \cup InternalErrors
         /\ Yes("ISNA", args) <=> ErrorIn(a) = "no_value_available"
         /\ Yes("ISBLANK", args) <=> /\ IsReference(a)
                                     /\ \A i \in DOMAIN Rows(a) : \A j \in DOMAIN Rows(a)[i] : IsBlankCell(Rows(a)[i][j])
         /\ ValueOf("TYPE", args) = Number(TypeCode[TypeOf(a)])
<1>1. \A P : P \in BOOLEAN => (AsValue(Boolean(P)) = Boolean(TRUE) <=> P)
  <2> SUFFICES ASSUME NEW P \in BOOLEAN PROVE AsValue(Boolean(P)) = Boolean(TRUE) <=> P
    OBVIOUS
  <2>1. AsValue(Boolean(P)) = Boolean(P)
    BY PlainAsValue
  <2> QED
    BY <2>1, BooleanSame
<1>2. /\ CellFunction("ISNUMBER", args) = Boolean(TypeOf(a) \in {"value"})
      /\ CellFunction("ISTEXT", args) = Boolean(TypeOf(a) \in {"string"})
      /\ CellFunction("ISLOGICAL", args) = Boolean(TypeOf(a) \in {"boolean"})
      /\ CellFunction("ISNONTEXT", args) = Boolean(TypeOf(a) \in DOMAIN TypeCode \ {"string"})
  BY DEF CellFunction, IsType, Takes
<1>3. /\ CellFunction("ISERROR", args) = Boolean(TypeOf(a) = "error")
      /\ CellFunction("ISERR", args) = Boolean(ErrorIn(a) \notin {"no_error", "no_value_available"} \cup InternalErrors)
      /\ CellFunction("ISNA", args) = Boolean(ErrorIn(a) = "no_value_available")
  BY DEF CellFunction, IsError, IsErr, IsNa, Takes
<1>4. /\ CellFunction("ISBLANK", args) = Boolean(/\ IsReference(a)
                /\ \A i \in DOMAIN Rows(a) : \A j \in DOMAIN Rows(a)[i] : IsBlankCell(Rows(a)[i][j]))
      /\ CellFunction("TYPE", args) = Number(TypeCode[TypeOf(a)])
  BY DEF CellFunction, IsBlank, Type, Takes
<1>5. \A f \in QuestionNames : ValueOf(f, args) = AsValue(CellFunction(f, args))
  BY QuestionsCalled
<1>6. ValueOf("TYPE", args) = Number(TypeCode[TypeOf(a)])
  BY <1>4, <1>5, PlainAsValue DEF QuestionNames
<1>7. \A f \in QuestionNames : \A P \in BOOLEAN : CellFunction(f, args) = Boolean(P) => (Yes(f, args) <=> P)
  BY <1>1, <1>5 DEF Yes
<1>8. /\ Yes("ISNUMBER", args) <=> TypeOf(a) \in {"value"}
      /\ Yes("ISTEXT", args) <=> TypeOf(a) \in {"string"}
      /\ Yes("ISLOGICAL", args) <=> TypeOf(a) \in {"boolean"}
      /\ Yes("ISNONTEXT", args) <=> TypeOf(a) \in DOMAIN TypeCode \ {"string"}
  <2>1. ASSUME NEW f \in {"ISNUMBER", "ISTEXT", "ISLOGICAL", "ISNONTEXT"}, NEW T,
               CellFunction(f, args) = Boolean(TypeOf(a) \in T)
        PROVE  Yes(f, args) <=> TypeOf(a) \in T
    <3>1. PICK P \in BOOLEAN : P <=> TypeOf(a) \in T
      OBVIOUS
    <3>2. CellFunction(f, args) = Boolean(P)
      <4>1. P = (TypeOf(a) \in T)
        BY <3>1
      <4> QED
        BY <2>1, <4>1
    <3>3. f \in QuestionNames
      BY DEF QuestionNames
    <3> QED
      BY <1>7, <3>1, <3>2, <3>3
  <2>2. Yes("ISNUMBER", args) <=> TypeOf(a) \in {"value"}
    BY <1>2, <2>1
  <2>3. Yes("ISTEXT", args) <=> TypeOf(a) \in {"string"}
    BY <1>2, <2>1
  <2>4. Yes("ISLOGICAL", args) <=> TypeOf(a) \in {"boolean"}
    BY <1>2, <2>1
  <2>5. Yes("ISNONTEXT", args) <=> TypeOf(a) \in DOMAIN TypeCode \ {"string"}
    BY <1>2, <2>1
  <2> QED
    BY <2>2, <2>3, <2>4, <2>5
<1>9. /\ Yes("ISERROR", args) <=> TypeOf(a) = "error"
      /\ Yes("ISERR", args) <=> ErrorIn(a) \notin {"no_error", "no_value_available"} \cup InternalErrors
      /\ Yes("ISNA", args) <=> ErrorIn(a) = "no_value_available"
  BY <1>3, <1>7 DEF QuestionNames
<1>10. Yes("ISBLANK", args) <=> /\ IsReference(a)
                                /\ \A i \in DOMAIN Rows(a) : \A j \in DOMAIN Rows(a)[i] : IsBlankCell(Rows(a)[i][j])
  BY <1>4, <1>7 DEF QuestionNames
<1> QED
  BY <1>6, <1>8, <1>9, <1>10

\* A fold over one value.
LEMMA CountOfOne ==
  ASSUME NEW args, IsSequence(args), Len(args) = 1, NEW a, a = args[1], NEW literals, NEW types
  PROVE  Count(args, literals, types) =
           Number(0 + CASE a.type \in literals -> 1
                        [] IsReference(a) -> CountCells(a, types)
                        [] OTHER -> 0)
<1> DEFINE counted(v) == CASE v.type \in literals -> 1
                           [] IsReference(v) -> CountCells(v, types)
                           [] OTHER -> 0
<1>1. DOMAIN args = {1}
  <2>1. DOMAIN args = 1..1
    BY LenFacts
  <2> QED
    BY <2>1
<1>2. PICK one : one = {1}
  OBVIOUS
<1>3. SX!Max(one) = 1
  BY <1>2 DEF SX!Max
<1> DEFINE Folds(iter) == iter = [s \in SUBSET one |->
                             IF s = {} THEN 0
                             ELSE iter[s \ {SX!Max(s)}] + counted(args[SX!Max(s)])]
<1>4. PICK c : c = counted(a)
  OBVIOUS
<1>5. \E h : Folds(h)
  <2>1. PICK h : h = [s \in SUBSET one |-> IF s = {} THEN 0 ELSE 0 + c]
    OBVIOUS
  <2>2. h[{}] = 0 /\ h[one] = 0 + c /\ SUBSET one = {{}, one} /\ one # {}
    BY <1>2, <2>1
  <2>3. one \ {SX!Max(one)} = {}
    BY <1>2, <1>3
  <2>4. h[one] = h[one \ {SX!Max(one)}] + counted(args[SX!Max(one)])
    BY <1>3, <1>4, <2>2, <2>3
  <2>5. \A s \in SUBSET one : h[s] = IF s = {} THEN 0 ELSE h[s \ {SX!Max(s)}] + counted(args[SX!Max(s)])
    BY <2>2, <2>4
  <2>6. h = [s \in SUBSET one |-> h[s]]
    BY <2>1
  <2>7. Folds(h)
    BY <2>5, <2>6
  <2> QED
    BY <2>7
<1>6. PICK iter : iter = CHOOSE i : Folds(i)
  OBVIOUS
<1>7. Folds(iter)
  BY <1>5, <1>6
<1>8. iter[one] = 0 + c
  <2>1. {} \in SUBSET one /\ one \in SUBSET one /\ one \ {SX!Max(one)} = {} /\ one # {}
    BY <1>2, <1>3
  <2>2. iter[{}] = 0
    BY <1>7, <2>1
  <2>3. iter[one] = iter[{}] + counted(args[SX!Max(one)])
    BY <1>7, <2>1
  <2> QED
    BY <1>3, <1>4, <2>2, <2>3
<1>9. SX!FoldLeft(LAMBDA n, v : n + counted(v), 0, args) = iter[one]
  BY <1>1, <1>2, <1>6 DEF SX!FoldLeft, SX!MapThenFoldSet
<1>10. Count(args, literals, types) = Number(0 + c)
  BY <1>8, <1>9 DEF Count
<1> QED
  BY <1>4, <1>10

LEMMA TypesOf ==
  ASSUME NEW a, IsStackValue(a)
  PROVE  /\ TypeOf(a) \in {"empty", "value", "string", "boolean", "error", "matrix", "range_ref"}
         /\ TypeOf(a) \in DOMAIN TypeCode
         /\ TypeCode[TypeOf(a)] = 16 <=> TypeOf(a) = "error"
         /\ TypeCode[TypeOf(a)] = 2 <=> TypeOf(a) = "string"
         /\ ErrorIn(a) # "no_error" => TypeOf(a) = "error"
<1>1. TypeOf(a) \in {"empty", "value", "string", "boolean", "error", "matrix", "range_ref"}
  BY CellsAssumption DEF TypeOf, IsStackValue, ContentType
<1>2. TypeOf(a) \in DOMAIN TypeCode
  BY <1>1 DEF TypeCode
<1>3. /\ TypeCode[TypeOf(a)] = 16 <=> TypeOf(a) = "error"
      /\ TypeCode[TypeOf(a)] = 2 <=> TypeOf(a) = "string"
  BY <1>1 DEF TypeCode
<1>4. ErrorIn(a) # "no_error" => TypeOf(a) = "error"
  BY DEF ErrorIn, TypeOf
<1> QED
  BY <1>1, <1>2, <1>3, <1>4

\* The cells of a reference to one cell, and of any other.
LEMMA CountOfCell ==
  ASSUME NEW a, a.type = "single_ref", NEW types
  PROVE  CountCells(a, types) = IF ContentType(a.address) \in types THEN 1 ELSE 0
<1>1. PICK c : c = a.address
  OBVIOUS
<1>2. PICK row : row = << c >>
  OBVIOUS
<1>3. PICK rows : rows = << row >>
  OBVIOUS
<1>4. Rows(a) = rows
  BY <1>1, <1>2, <1>3 DEF Rows
<1>5. rows \in Seq(Seq({c})) /\ rows # << >> /\ Len(rows) = 1
  BY <1>2, <1>3
<1>6. PICK f : IsFlattening(f, rows) /\ SX!FlattenSeq(rows) = f[Len(rows)]
  BY <1>5, FlatteningIs
<1>7. f[1] = rows[1]
  BY <1>5, <1>6, FlatteningType
<1>8. SX!FlattenSeq(rows) = row
  BY <1>3, <1>5, <1>6, <1>7
<1>9. CountCells(a, types) = Cardinality({ k \in DOMAIN row : ContentType(row[k]) \in types })
  BY <1>4, <1>8 DEF CountCells
<1>10. CASE ContentType(c) \in types
  <2>1. { k \in DOMAIN row : ContentType(row[k]) \in types } = {1}
    BY <1>2, <1>10
  <2> QED
    BY <1>1, <1>9, <1>10, <2>1, FS_Singleton
<1>11. CASE ContentType(c) \notin types
  <2>1. { k \in DOMAIN row : ContentType(row[k]) \in types } = {}
    BY <1>2, <1>11
  <2> QED
    BY <1>1, <1>9, <1>11, <2>1, FS_EmptySet
<1> QED
  BY <1>10, <1>11

\* A range has cells.
LEMMA FlattenedNotEmpty ==
  ASSUME NEW A, NEW rows, IsRange(rows, A)
  PROVE  SX!FlattenSeq(rows) # << >>
<1>1. rows \in Seq(Seq(A)) /\ rows # << >> /\ rows[1] # << >>
  BY DEF IsRange
<1>2. PICK f : IsFlattening(f, rows) /\ SX!FlattenSeq(rows) = f[Len(rows)]
  BY <1>1, FlatteningIs
<1>3. \A k \in 1..Len(rows) : f[k] \in Seq(A) /\ f[k] = IF k = 1 THEN rows[k] ELSE f[k - 1] \o rows[k]
  BY <1>1, <1>2, FlatteningType
<1>4. PICK n : n = Len(rows)
  OBVIOUS
<1>5. n \in Nat \ {0} /\ \A k \in 1..n : rows[k] \in Seq(A)
  BY <1>1, <1>4
<1>6. PICK G : G = { k \in Nat : k + 1 \in 1..n => f[k + 1] # << >> }
  OBVIOUS
<1>7. 0 \in G
  BY <1>1, <1>3, <1>4, <1>5, <1>6
<1>8. ASSUME NEW k \in 0..(n - 2), k \in G PROVE k + 1 \in G
  <2>1. PICK m : m = k + 1
    OBVIOUS
  <2>2. m \in 1..n /\ m + 1 \in 1..n /\ m + 1 # 1 /\ (m + 1) - 1 = m /\ m \in Nat
    BY <1>5, <2>1
  <2>3. f[m] \in Seq(A) /\ f[m] # << >> /\ rows[m + 1] \in Seq(A)
    BY <1>3, <1>4, <1>5, <1>6, <1>8, <2>1, <2>2
  <2>4. f[m + 1] = f[m] \o rows[m + 1]
    BY <1>3, <1>4, <2>2
  <2>5. f[m + 1] # << >>
    BY <2>3, <2>4
  <2> QED
    BY <1>6, <2>1, <2>2, <2>5
<1>9. CASE n = 1
  BY <1>2, <1>4, <1>6, <1>7, <1>9
<1>10. CASE n # 1
  <2>1. PICK m : m = n - 1
    OBVIOUS
  <2>2. m \in Nat /\ m + 1 = n /\ m \in 0..m /\ m - 1 = n - 2
    BY <1>5, <1>10, <2>1
  <2>3. \A k \in 0..m : k \in G
    BY <1>7, <1>8, <2>2, UpTo
  <2>4. m \in G
    BY <2>2, <2>3
  <2>5. f[m + 1] # << >>
    BY <1>5, <1>6, <2>2, <2>4
  <2> QED
    BY <1>2, <1>4, <2>2, <2>5
<1> QED
  BY <1>9, <1>10

\* What is blank is counted as blank alone.
LEMMA BlankCells ==
  ASSUME NEW a, IsStackValue(a), IsReference(a),
         \A i \in DOMAIN Rows(a) : \A j \in DOMAIN Rows(a)[i] : IsBlankCell(Rows(a)[i][j])
  PROVE  /\ CountCells(a, {"empty"}) # 0
         /\ CountCells(a, {"value", "boolean", "string"}) = 0
<1>1. PICK rows : rows = Rows(a)
  OBVIOUS
<1>2. rows \in Seq(Seq(DOMAIN Cells)) /\ IsRange(rows, DOMAIN Cells)
  BY <1>1, RowsOfReference
<1>3. PICK E : E = { c \in DOMAIN Cells : ContentType(c) = "empty" }
  OBVIOUS
<1>4. rows \in Seq(Seq(E))
  <2>1. ASSUME NEW i \in DOMAIN rows PROVE rows[i] \in Seq(E)
    <3>1. PICK r : r = rows[i]
      OBVIOUS
    <3>2. r \in Seq(DOMAIN Cells)
      BY <1>2, <3>1
    <3>3. \A j \in DOMAIN r : r[j] \in E
      BY <1>1, <1>3, <2>1, <3>1, <3>2 DEF IsBlankCell
    <3>4. r \in [1..Len(r) -> E] /\ Len(r) \in Nat
      BY <3>2, <3>3
    <3>5. r \in Seq(E)
      BY <3>4
    <3> QED
      BY <3>1, <3>5
  <2>2. rows \in [1..Len(rows) -> Seq(E)] /\ Len(rows) \in Nat
    BY <1>2, <2>1
  <2> QED
    BY <2>2
<1>5. PICK cells : cells = SX!FlattenSeq(rows)
  OBVIOUS
<1>6. cells \in Seq(E) /\ cells # << >>
  BY <1>2, <1>4, <1>5, FlattenType, FlattenedNotEmpty
<1>7. \A k \in DOMAIN cells : ContentType(cells[k]) = "empty"
  BY <1>3, <1>6
<1>8. \A types : CountCells(a, types) = Cardinality({ k \in DOMAIN cells : ContentType(cells[k]) \in types })
  BY <1>1, <1>5 DEF CountCells
<1>9. { k \in DOMAIN cells : ContentType(cells[k]) \in {"value", "boolean", "string"} } = {}
  BY <1>7
<1>10. { k \in DOMAIN cells : ContentType(cells[k]) \in {"empty"} } = 1..Len(cells)
  BY <1>6, <1>7
<1>11. Cardinality(1..Len(cells)) = Len(cells) /\ Len(cells) # 0
  <2>1. PICK n : n = Len(cells)
    OBVIOUS
  <2>2. n \in Nat /\ n # 0
    BY <1>6, <2>1
  <2>3. Cardinality(1..n) = n
    BY <2>2, FS_Interval
  <2> QED
    BY <2>1, <2>2, <2>3
<1> QED
  BY <1>8, <1>9, <1>10, <1>11, FS_EmptySet

\* How often one argument is counted.
LEMMA CountsOfOne ==
  ASSUME FunctionsAreBuiltIn, NEW args, AreValues(args), Len(args) = 1, NEW a, a = args[1]
  PROVE  /\ TypeOf(a) = "value" => ValueOf("COUNT", args) = Number(1)
         /\ TypeOf(a) = "string" => ValueOf("COUNTA", args) = Number(1) /\ ValueOf("COUNT", args) = Number(0)
         /\ IsReference(a) => \E n : n = CountCells(a, {"value", "boolean", "string"}) /\ ValueOf("COUNTA", args) = Number(0 + n)
         /\ IsReference(a) => ValueOf("COUNTBLANK", args) = Number(CountCells(a, {"empty"}))
<1> DEFINE Times(literals, types) == CASE a.type \in literals -> 1
                                       [] IsReference(a) -> CountCells(a, types)
                                       [] OTHER -> 0
<1>1. \A literals, types : Count(args, literals, types) = Number(0 + Times(literals, types))
  BY CountOfOne DEF AreValues
<1>2. /\ ValueOf("COUNT", args) = Number(0 + Times({"value"}, {"value", "boolean"}))
      /\ ValueOf("COUNTA", args) = Number(0 + Times({"value", "string"}, {"value", "boolean", "string"}))
  BY <1>1, CountsCalled, PlainAsValue
<1>3. a.type = "single_ref" => \A types : CountCells(a, types) = IF ContentType(a.address) \in types THEN 1 ELSE 0
  BY CountOfCell
<1>4. ASSUME TypeOf(a) = "value" PROVE Times({"value"}, {"value", "boolean"}) = 1
  BY <1>3, <1>4 DEF TypeOf, IsReference
<1>5. ASSUME TypeOf(a) = "string"
      PROVE  /\ Times({"value", "string"}, {"value", "boolean", "string"}) = 1
             /\ Times({"value"}, {"value", "boolean"}) = 0
  <2>1. Times({"value", "string"}, {"value", "boolean", "string"}) = 1
    BY <1>3, <1>5 DEF TypeOf, IsReference
  <2>2. Times({"value"}, {"value", "boolean"}) = 0
    BY <1>3, <1>5 DEF TypeOf, IsReference
  <2> QED
    BY <2>1, <2>2
<1>6. ASSUME IsReference(a) PROVE Times({"value", "string"}, {"value", "boolean", "string"}) = CountCells(a, {"value", "boolean", "string"})
  BY <1>6 DEF IsReference
<1>7. ASSUME IsReference(a) PROVE ValueOf("COUNTBLANK", args) = Number(CountCells(a, {"empty"}))
  <2>1. CountBlank(args) = Number(CountCells(a, {"empty"}))
    BY <1>7 DEF CountBlank, Takes
  <2> QED
    BY <2>1, CountsCalled, PlainAsValue
<1>8. 0 + 1 = 1 /\ 0 + 0 = 0
  OBVIOUS
<1> HIDE DEF Times
<1> QED
  BY <1>2, <1>4, <1>5, <1>6, <1>7, <1>8

LEMMA QuestionsMean == ASSUME FunctionsAreBuiltIn PROVE TypesInv => QuestionsAgree
<1> SUFFICES ASSUME TypesInv, Calling({"ISERR", "ISNA", "ISTEXT", "ISNUMBER", "TYPE"}),
                    NEW args, args = ArgumentsOfCall, Len(args) = 1
             PROVE  /\ Cardinality({ f \in {"ISNUMBER", "ISTEXT", "ISLOGICAL", "ISERROR"} : Yes(f, args) }) <= 1
                    /\ Yes("ISNONTEXT", args) <=> ~Yes("ISTEXT", args)
                    /\ Yes("ISERR", args) \/ Yes("ISNA", args) => Yes("ISERROR", args)
                    /\ Yes("ISERROR", args) => \/ Yes("ISERR", args) \/ Yes("ISNA", args)
                                               \/ ErrorIn(args[1]) \in {"no_error"} \cup InternalErrors
                    /\ ~(Yes("ISERR", args) /\ Yes("ISNA", args))
                    /\ Yes("ISNUMBER", args) => ValueOf("COUNT", args) = Number(1)
                    /\ Yes("ISTEXT", args) => /\ ValueOf("COUNTA", args) = Number(1)
                                              /\ ValueOf("COUNT", args) = Number(0)
                    /\ ValueOf("TYPE", args) = Number(16) <=> Yes("ISERROR", args)
                    /\ ValueOf("TYPE", args) = Number(2) <=> Yes("ISTEXT", args)
                    /\ Yes("ISBLANK", args) =>
                         /\ ValueOf("COUNTA", args) = Number(0)
                         /\ Failed(ValueOf("COUNTBLANK", args)) \/ ValueOf("COUNTBLANK", args) # Number(0)
  BY DEF QuestionsAgree
<1>1. AreValues(args)
  BY ArgumentsOfCallAreValues
<1>2. PICK a : a = args[1]
  OBVIOUS
<1>3. IsStackValue(a)
  <2>1. 1 \in DOMAIN args
    BY <1>1, LenFacts DEF AreValues
  <2> QED
    BY <1>1, <1>2, <2>1 DEF AreValues
<1>4. /\ Yes("ISNUMBER", args) <=> TypeOf(a) = "value"
      /\ Yes("ISTEXT", args) <=> TypeOf(a) = "string"
      /\ Yes("ISLOGICAL", args) <=> TypeOf(a) = "boolean"
      /\ Yes("ISNONTEXT", args) <=> TypeOf(a) \in DOMAIN TypeCode \ {"string"}
      /\ Yes("ISERROR", args) <=> TypeOf(a) = "error"
  BY <1>2, Answers
<1>5. /\ Yes("ISERR", args) <=> ErrorIn(a) \notin {"no_error", "no_value_available"} \cup InternalErrors
      /\ Yes("ISNA", args) <=> ErrorIn(a) = "no_value_available"
  BY <1>2, Answers
<1>6. /\ Yes("ISBLANK", args) <=> /\ IsReference(a)
                                  /\ \A i \in DOMAIN Rows(a) : \A j \in DOMAIN Rows(a)[i] : IsBlankCell(Rows(a)[i][j])
      /\ ValueOf("TYPE", args) = Number(TypeCode[TypeOf(a)])
  BY <1>2, Answers
<1>7. Cardinality({ f \in {"ISNUMBER", "ISTEXT", "ISLOGICAL", "ISERROR"} : Yes(f, args) }) <= 1
  <2>1. PICK F : F = { f \in {"ISNUMBER", "ISTEXT", "ISLOGICAL", "ISERROR"} : Yes(f, args) }
    OBVIOUS
  <2>2. \A f, g \in F : f = g
    BY <1>4, <2>1
  <2>3. F = {} \/ \E f : F = {f}
    BY <2>2
  <2>4. Cardinality(F) = 0 \/ Cardinality(F) = 1
    BY <2>3, FS_EmptySet, FS_Singleton
  <2> QED
    BY <2>1, <2>4
<1>8. Yes("ISNONTEXT", args) <=> ~Yes("ISTEXT", args)
  BY <1>3, <1>4, TypesOf
<1>9. /\ Yes("ISERR", args) \/ Yes("ISNA", args) => Yes("ISERROR", args)
      /\ Yes("ISERROR", args) => \/ Yes("ISERR", args) \/ Yes("ISNA", args)
                                 \/ ErrorIn(args[1]) \in {"no_error"} \cup InternalErrors
      /\ ~(Yes("ISERR", args) /\ Yes("ISNA", args))
  BY <1>2, <1>3, <1>4, <1>5, TypesOf
<1>10. /\ Yes("ISNUMBER", args) => ValueOf("COUNT", args) = Number(1)
       /\ Yes("ISTEXT", args) => ValueOf("COUNTA", args) = Number(1) /\ ValueOf("COUNT", args) = Number(0)
  BY <1>1, <1>2, <1>4, CountsOfOne
<1>11. /\ ValueOf("TYPE", args) = Number(16) <=> Yes("ISERROR", args)
       /\ ValueOf("TYPE", args) = Number(2) <=> Yes("ISTEXT", args)
  <2>1. \A n : ValueOf("TYPE", args) = Number(n) <=> TypeCode[TypeOf(a)] = n
    BY <1>6, NumbersDiffer
  <2> QED
    BY <1>3, <1>4, <2>1, TypesOf
<1>12. ASSUME Yes("ISBLANK", args)
       PROVE  /\ ValueOf("COUNTA", args) = Number(0)
              /\ ValueOf("COUNTBLANK", args) # Number(0)
  <2>1. IsReference(a) /\ CountCells(a, {"empty"}) # 0 /\ CountCells(a, {"value", "boolean", "string"}) = 0
    BY <1>3, <1>6, <1>12, BlankCells
  <2>2. PICK n : n = CountCells(a, {"value", "boolean", "string"}) /\ ValueOf("COUNTA", args) = Number(0 + n)
    BY <1>1, <1>2, <2>1, CountsOfOne
  <2>3. n = 0 /\ 0 + n = 0
    BY <2>1, <2>2
  <2>4. ValueOf("COUNTBLANK", args) = Number(CountCells(a, {"empty"}))
    BY <1>1, <1>2, <2>1, CountsOfOne
  <2> QED
    BY <2>1, <2>2, <2>3, <2>4, NumbersDiffer
<1> QED
  BY <1>7, <1>8, <1>9, <1>10, <1>11, <1>12

\* At every such call of an interpretation, the questions about one argument
\* fit together.
THEOREM QuestionsAreAgreed ==
  ASSUME FunctionsAreBuiltIn PROVE Spec => []QuestionsAgree
<1>1. FunctionsGiveValues
  BY BuiltInGive
<1>2. TypesInv /\ [Next]_vars => TypesInv'
  BY <1>1, TypesStep
<1>3. TypesInv => QuestionsAgree
  BY QuestionsMean
<1> QED
  BY <1>2, <1>3, TypesStart, PTL DEF Spec

-----------------------------------------------------------------------------
(***************************************************************************)
(* The formula with its names replaced.                                    *)
(***************************************************************************)

\* A function applied again and again.
IsIteration(f, n, base, g, X) ==
  /\ f \in [0..n -> X]
  /\ f[0] = base
  /\ \A k \in 1..n : f[k] = g[f[k - 1]]

LEMMA IterateOnce ==
  ASSUME NEW n \in Nat, NEW X, NEW base \in X, NEW g \in [X -> X], NEW f, IsIteration(f, n, base, g, X)
  PROVE  \E h : IsIteration(h, n + 1, base, g, X)
<1>1. PICK h : h = [k \in 0..(n + 1) |-> IF k \in 0..n THEN f[k] ELSE g[f[n]]]
  OBVIOUS
<1>2. \A k \in 0..n : k \in 0..(n + 1) /\ h[k] = f[k] /\ f[k] \in X
  BY <1>1 DEF IsIteration
<1>3. n + 1 \in 0..(n + 1) /\ n + 1 \notin 0..n /\ n \in 0..n /\ (n + 1) - 1 = n
  OBVIOUS
<1>4. h[n + 1] = g[h[n]] /\ h[n + 1] \in X
  BY <1>1, <1>2, <1>3
<1>5. \A k \in 0..(n + 1) : k \in 0..n \/ k = n + 1
  OBVIOUS
<1>6. h \in [0..(n + 1) -> X]
  BY <1>1, <1>2, <1>4, <1>5
<1>7. ASSUME NEW k \in 1..(n + 1) PROVE h[k] = g[h[k - 1]]
  <2>1. CASE k \in 1..n
    <3>1. k \in 0..n /\ k - 1 \in 0..n
      BY <2>1
    <3>2. f[k] = g[f[k - 1]]
      BY <2>1 DEF IsIteration
    <3> QED
      BY <1>2, <3>1, <3>2
  <2>2. CASE k = n + 1
    BY <1>3, <1>4, <2>2
  <2> QED
    BY <2>1, <2>2
<1>8. h[0] = base
  BY <1>2 DEF IsIteration
<1> QED
  BY <1>6, <1>7, <1>8 DEF IsIteration

LEMMA IterationExists ==
  ASSUME NEW n \in Nat, NEW X, NEW base \in X, NEW g \in [X -> X]
  PROVE  \E f : IsIteration(f, n, base, g, X)
<1>1. PICK G : G = { m \in Nat : \E f : IsIteration(f, m, base, g, X) }
  OBVIOUS
<1>2. 0 \in G
  <2>1. PICK f : f = [k \in 0..0 |-> base]
    OBVIOUS
  <2>2. f \in [0..0 -> X] /\ f[0] = base
    BY <2>1
  <2>3. IsIteration(f, 0, base, g, X)
    BY <2>2 DEF IsIteration
  <2> QED
    BY <1>1, <2>3
<1>3. ASSUME NEW m \in 0..(n - 1), m \in G PROVE m + 1 \in G
  <2>1. PICK f : IsIteration(f, m, base, g, X)
    BY <1>1, <1>3
  <2>2. m \in Nat
    OBVIOUS
  <2>3. \E h : IsIteration(h, m + 1, base, g, X)
    BY <2>1, <2>2, IterateOnce
  <2> QED
    BY <1>1, <2>2, <2>3
<1>4. n \in G
  <2>1. \A k \in 0..n : k \in G
    BY <1>2, <1>3, UpTo
  <2> QED
    BY <2>1
<1> QED
  BY <1>1, <1>4

\* What stands for one token, and for the first tokens of a text.
Piece(t, texts) ==
  IF t.op # "name" \/ t.name \notin DOMAIN texts THEN << t >>
  ELSE << [op |-> "("] >> \o texts[t.name] \o << [op |-> ")"] >>

IsUnfolding(w, s, texts, T) ==
  /\ w \in [0..Len(s) -> Seq(T)]
  /\ w[0] = << >>
  /\ \A k \in 1..Len(s) : w[k] = w[k - 1] \o Piece(s[k], texts)

LEMMA PieceType ==
  ASSUME NEW T, [op |-> "("] \in T, [op |-> ")"] \in T, NEW D, NEW texts \in [D -> Seq(T)], NEW t \in T
  PROVE  Piece(t, texts) \in Seq(T)
<1>1. CASE t.op # "name" \/ t.name \notin DOMAIN texts
  <2>1. Piece(t, texts) = << t >>
    BY <1>1 DEF Piece
  <2>2. << t >> \in Seq(T)
    OBVIOUS
  <2> QED
    BY <2>1, <2>2
<1>2. CASE ~(t.op # "name" \/ t.name \notin DOMAIN texts)
  <2>1. PICK u \in Seq(T) : u = texts[t.name]
    BY <1>2
  <2>2. PICK l \in T, r \in T : l = [op |-> "("] /\ r = [op |-> ")"]
    OBVIOUS
  <2>3. << l >> \o u \o << r >> \in Seq(T)
    BY <2>1, <2>2
  <2>4. Piece(t, texts) = << l >> \o u \o << r >>
    BY <1>2, <2>1, <2>2 DEF Piece
  <2> QED
    BY <2>3, <2>4
<1> QED
  BY <1>1, <1>2

LEMMA Unfolds ==
  ASSUME NEW T, [op |-> "("] \in T, [op |-> ")"] \in T, NEW D, NEW texts \in [D -> Seq(T)],
         NEW s \in Seq(T)
  PROVE  \E w : IsUnfolding(w, s, texts, T) /\ Inserted(s, texts) = w[Len(s)]
<1>1. PICK q : q = [k \in DOMAIN s |-> Piece(s[k], texts)]
  OBVIOUS
<1>2. Inserted(s, texts) = SX!FlattenSeq(q)
  BY <1>1 DEF Inserted, Piece
<1>3. \A k \in 1..Len(s) : s[k] \in T /\ Len(s) \in Nat /\ DOMAIN s = 1..Len(s)
  OBVIOUS
<1>4. \A k \in 1..Len(s) : Piece(s[k], texts) \in Seq(T)
  BY <1>3, PieceType
<1>5. q \in [1..Len(s) -> Seq(T)] /\ \A k \in 1..Len(s) : q[k] = Piece(s[k], texts)
  BY <1>1, <1>3, <1>4
<1>6. q \in Seq(Seq(T)) /\ Len(q) = Len(s)
  <2>1. PICK n \in Nat : n = Len(s)
    OBVIOUS
  <2> QED
    BY <1>5, <2>1
<1>7. CASE s = << >>
  <2>1. PICK w : w = [k \in 0..0 |-> << >>]
    OBVIOUS
  <2>2. w \in [0..Len(s) -> Seq(T)] /\ w[0] = << >> /\ Len(s) = 0
    BY <1>7, <2>1
  <2>3. IsUnfolding(w, s, texts, T)
    BY <2>2 DEF IsUnfolding
  <2>4. SX!FlattenSeq(q) = << >>
    BY <1>6, <1>7 DEF SX!FlattenSeq
  <2> QED
    BY <1>2, <2>2, <2>3, <2>4
<1>8. CASE s # << >>
  <2>1. q # << >>
    BY <1>6, <1>8
  <2>2. PICK f : IsFlattening(f, q) /\ SX!FlattenSeq(q) = f[Len(q)]
    BY <1>6, <2>1, FlatteningIs
  <2>3. \A k \in 1..Len(q) : f[k] \in Seq(T) /\ f[k] = IF k = 1 THEN q[k] ELSE f[k - 1] \o q[k]
    BY <1>6, <2>2, FlatteningType
  <2>4. PICK w : w = [k \in 0..Len(s) |-> IF k = 0 THEN << >> ELSE f[k]]
    OBVIOUS
  <2>5. PICK n \in Nat \ {0} : n = Len(s)
    BY <1>8
  <2>6. \A k \in 0..n : k = 0 \/ k \in 1..n
    BY <2>5
  <2>7. \A k \in 1..n : k \in 0..n /\ w[k] = f[k] /\ f[k] \in Seq(T)
    BY <1>6, <2>3, <2>4, <2>5
  <2>8. w \in [0..n -> Seq(T)] /\ w[0] = << >>
    <3>1. 0 \in 0..n /\ << >> \in Seq(T)
      BY <2>5
    <3>2. w[0] = << >>
      BY <2>4, <2>5, <3>1
    <3>3. \A k \in 0..n : w[k] \in Seq(T)
      BY <2>6, <2>7, <3>1, <3>2
    <3> QED
      BY <2>4, <2>5, <3>2, <3>3
  <2>9. ASSUME NEW k \in 1..n PROVE w[k] = w[k - 1] \o Piece(s[k], texts)
    <3>1. q[k] = Piece(s[k], texts) /\ q[k] \in Seq(T)
      BY <1>5, <2>5, <1>4
    <3>2. CASE k = 1
      <4>1. w[1] = q[1] /\ q[1] \in Seq(T)
        BY <1>6, <2>3, <2>5, <2>7, <3>1, <3>2
      <4>2. << >> \o q[1] = q[1]
        BY <4>1
      <4>3. w[0] \o q[1] = q[1]
        BY <2>8, <4>2
      <4>4. w[k] = q[1] /\ w[k - 1] = w[0] /\ Piece(s[k], texts) = q[1]
        BY <3>1, <3>2, <4>1
      <4> QED
        BY <4>3, <4>4
    <3>3. CASE k # 1
      <4>1. k - 1 \in 1..n
        BY <3>3, <2>5
      <4>2. f[k] = f[k - 1] \o q[k]
        BY <1>6, <2>3, <2>5, <3>3
      <4> QED
        BY <2>7, <3>1, <4>1, <4>2
    <3> QED
      BY <3>2, <3>3
  <2>10. IsUnfolding(w, s, texts, T)
    BY <2>5, <2>8, <2>9 DEF IsUnfolding
  <2>11. Len(s) \in 1..n
    BY <2>5
  <2> QED
    BY <1>2, <1>6, <2>2, <2>5, <2>7, <2>10, <2>11
<1> QED
  BY <1>7, <1>8

\* The texts of the names, by levels.
IsLeveled(texts, names, n, T) ==
  /\ texts \in [0..n -> [DOMAIN names -> Seq(T)]]
  /\ \A k \in 1..n : \A m \in DOMAIN names : texts[k][m] = Inserted(names[m], texts[k - 1])

IsNameTexts(f, names) ==
  f = [n \in 0..Cardinality(DOMAIN names) |->
        [m \in DOMAIN names |-> IF n = 0 THEN names[m] ELSE Inserted(names[m], f[n - 1])]]

LEMMA InsertedType ==
  ASSUME NEW T, [op |-> "("] \in T, [op |-> ")"] \in T, NEW D, NEW texts \in [D -> Seq(T)],
         NEW s \in Seq(T)
  PROVE  Inserted(s, texts) \in Seq(T)
<1>1. PICK w : IsUnfolding(w, s, texts, T) /\ Inserted(s, texts) = w[Len(s)]
  BY Unfolds
<1>2. Len(s) \in 0..Len(s)
  OBVIOUS
<1> QED
  BY <1>1, <1>2 DEF IsUnfolding

LEMMA LevelsOfTexts ==
  ASSUME NEW T, [op |-> "("] \in T, [op |-> ")"] \in T, NEW names, NEW n \in Nat,
         n = Cardinality(DOMAIN names), \A m \in DOMAIN names : names[m] \in Seq(T)
  PROVE  IsLeveled(NameTexts(names), names, n, T)
<1>1. PICK D, X, base, g :
        /\ D = DOMAIN names /\ X = [D -> Seq(T)]
        /\ base = [m \in D |-> names[m]]
        /\ g = [t \in X |-> [m \in D |-> Inserted(names[m], t)]]
  OBVIOUS
<1>2. base \in X
  BY <1>1
<1>3. \A t \in X : [m \in D |-> Inserted(names[m], t)] \in X
  BY <1>1, InsertedType
<1>4. g \in [X -> X] /\ \A t \in X : g[t] = [m \in D |-> Inserted(names[m], t)]
  BY <1>1, <1>3
<1>5. PICK f : IsIteration(f, n, base, g, X)
  BY <1>2, <1>4, IterationExists
<1>6. /\ f \in [0..n -> X] /\ f[0] = base
      /\ \A k \in 1..n : k \in 0..n /\ k - 1 \in 0..n /\ f[k] = [m \in D |-> Inserted(names[m], f[k - 1])]
  <2>1. \A k \in 1..n : k \in 0..n /\ k - 1 \in 0..n
    OBVIOUS
  <2> QED
    BY <1>4, <1>5, <2>1 DEF IsIteration
<1>7. f = [k \in 0..n |-> [m \in D |-> IF k = 0 THEN names[m] ELSE Inserted(names[m], f[k - 1])]]
  <2>1. ASSUME NEW k \in 0..n
        PROVE  f[k] = [m \in D |-> IF k = 0 THEN names[m] ELSE Inserted(names[m], f[k - 1])]
    <3>1. CASE k = 0
      BY <1>1, <1>6, <3>1
    <3>2. CASE k # 0
      <4>1. k \in 1..n
        BY <3>2
      <4> QED
        BY <1>6, <3>2, <4>1
    <3> QED
      BY <3>1, <3>2
  <2> QED
    BY <1>6, <2>1
<1>8. PICK s : s = CHOOSE h : IsNameTexts(h, names)
  OBVIOUS
<1>9. s = [k \in 0..n |-> [m \in D |-> IF k = 0 THEN names[m] ELSE Inserted(names[m], s[k - 1])]]
  <2>1. IsNameTexts(f, names)
    BY <1>1, <1>7 DEF IsNameTexts
  <2>2. IsNameTexts(s, names)
    BY <1>8, <2>1
  <2> QED
    BY <1>1, <2>2 DEF IsNameTexts
<1>10. ASSUME NEW k \in 1..n, NEW m \in D PROVE s[k][m] = Inserted(names[m], s[k - 1])
  <2>1. k \in 0..n /\ k # 0
    OBVIOUS
  <2>2. s[k] = [l \in D |-> IF k = 0 THEN names[l] ELSE Inserted(names[l], s[k - 1])]
    BY <1>9, <2>1
  <2> QED
    BY <2>1, <2>2
<1>16. s = NameTexts(names)
  BY <1>8 DEF IsNameTexts, NameTexts
<1>11. PICK G : G = { k \in Nat : k <= n => s[k] \in X }
  OBVIOUS
<1>12. s[0] \in X
  <2>1. s[0] = [m \in D |-> names[m]]
    BY <1>9
  <2> QED
    BY <1>1, <1>2, <2>1
<1>13. ASSUME NEW k \in 0..(n - 1), k \in G PROVE k + 1 \in G
  <2>1. k \in Nat /\ k + 1 \in 0..n /\ k + 1 # 0 /\ (k + 1) - 1 = k /\ k <= n
    OBVIOUS
  <2>2. s[k] \in X
    BY <1>11, <1>13, <2>1
  <2>3. s[k + 1] = [m \in D |-> Inserted(names[m], s[k])]
    BY <1>9, <2>1
  <2>4. s[k + 1] \in X
    BY <1>3, <2>2, <2>3
  <2> QED
    BY <1>11, <2>1, <2>4
<1>14. \A k \in 0..n : k \in G
  BY <1>11, <1>12, <1>13, UpTo
<1>15. s \in [0..n -> X]
  <2>1. \A k \in 0..n : k \in Nat /\ k <= n
    OBVIOUS
  <2>2. \A k \in 0..n : s[k] \in X
    BY <1>11, <1>14, <2>1
  <2>3. PICK z : z = [k \in 0..n |-> [m \in D |-> IF k = 0 THEN names[m] ELSE Inserted(names[m], s[k - 1])]]
    OBVIOUS
  <2>4. s = z /\ z = [k \in 0..n |-> z[k]]
    BY <1>9, <2>3
  <2> QED
    BY <2>2, <2>4
<1> QED
  BY <1>1, <1>10, <1>15, <1>16 DEF IsLeveled

\* A set that has the first names and, with a known name, the names in it has
\* all names they lead to.
IsWithin(f, names, start) ==
  f = [n \in 0..Cardinality(DOMAIN names) |->
         IF n = 0 THEN start
         ELSE f[n - 1] \cup UNION { NamesIn(names[m]) : m \in f[n - 1] \cap DOMAIN names }]

LEMMA NamesWithinClosed ==
  ASSUME NEW names, Cardinality(DOMAIN names) \in Nat, NEW start, NEW C, start \subseteq C,
         \A m \in C \cap DOMAIN names : NamesIn(names[m]) \subseteq C
  PROVE  NamesWithin(names, start) \subseteq C
<1>0. PICK n \in Nat : n = Cardinality(DOMAIN names)
  OBVIOUS
<1>1. PICK X, g :
        /\ n = Cardinality(DOMAIN names) /\ X = SUBSET C
        /\ g = [r \in X |-> r \cup UNION { NamesIn(names[m]) : m \in r \cap DOMAIN names }]
  BY <1>0
<1>2. \A r \in X : r \cup UNION { NamesIn(names[m]) : m \in r \cap DOMAIN names } \in X
  BY <1>1
<1>3. g \in [X -> X]
  BY <1>1, <1>2
<1>4. start \in X
  BY <1>1
<1>5. PICK f : IsIteration(f, n, start, g, X)
  BY <1>3, <1>4, IterationExists
<1>6. \A k \in 1..n : k \in 0..n /\ k - 1 \in 0..n /\ k # 0
  OBVIOUS
<1>7. \A k \in 1..n : f[k] = f[k - 1] \cup UNION { NamesIn(names[m]) : m \in f[k - 1] \cap DOMAIN names }
  BY <1>1, <1>5, <1>6 DEF IsIteration
<1>8. \A k \in 0..n : k = 0 \/ k \in 1..n
  OBVIOUS
<1>9. IsWithin(f, names, start)
  <2>1. f[0] = start /\ f = [k \in 0..n |-> f[k]]
    BY <1>5 DEF IsIteration
  <2> QED
    BY <1>1, <1>6, <1>7, <1>8, <2>1 DEF IsWithin
<1>10. PICK h : h = CHOOSE w : IsWithin(w, names, start)
  OBVIOUS
<1>11. IsWithin(h, names, start)
  BY <1>9, <1>10
<1>12. NamesWithin(names, start) = h[n]
  BY <1>1, <1>10 DEF NamesWithin, IsWithin
<1>13. h[0] = start /\ \A k \in 1..n : h[k] = h[k - 1] \cup UNION { NamesIn(names[m]) : m \in h[k - 1] \cap DOMAIN names }
  BY <1>1, <1>6, <1>11 DEF IsWithin
<1>14. PICK G : G = { k \in Nat : k <= n => h[k] \subseteq C }
  OBVIOUS
<1>15. 0 \in G
  BY <1>13, <1>14
<1>16. ASSUME NEW k \in 0..(n - 1), k \in G PROVE k + 1 \in G
  <2>1. k + 1 \in 1..n /\ (k + 1) - 1 = k /\ k <= n /\ k + 1 \in Nat
    OBVIOUS
  <2>2. h[k] \subseteq C
    BY <1>14, <1>16, <2>1
  <2>3. h[k + 1] = h[k] \cup UNION { NamesIn(names[m]) : m \in h[k] \cap DOMAIN names }
    BY <1>13, <2>1
  <2>4. h[k + 1] \subseteq C
    BY <2>2, <2>3
  <2> QED
    BY <1>14, <2>1, <2>4
<1>17. n \in G
  <2>1. \A k \in 0..n : k \in G
    BY <1>15, <1>16, UpTo
  <2> QED
    BY <2>1
<1>18. h[n] \subseteq C
  BY <1>14, <1>17
<1> QED
  BY <1>12, <1>18

\* The frames of init_tokens() from the outermost.
Height(ex, h) == ex[Len(ex) + 1 - h]

\* What is left of a text after its first p tokens.
IsRest(e, s, p) ==
  /\ p \in 0..Len(s)
  /\ IsSequence(e) /\ Len(e) = Len(s) - p
  /\ \A k \in 1..Len(e) : e[k] = s[p + k]

NameCount(j) == Cardinality(DOMAIN j.names)

\* A frame's text is that of the name the frame below has come to.
EnteredAt(j, src, pos, h) ==
  /\ pos[h] \in 1..Len(src[h])
  /\ src[h][pos[h]].op = "name" /\ src[h][pos[h]].name \in DOMAIN j.names
  /\ src[h + 1] = j.names[src[h][pos[h]].name]

AreFrames(j, ex, src, pos) ==
  /\ IsSequence(ex) /\ ex # << >> /\ Len(ex) <= NameCount(j) + 1
  /\ src \in [1..Len(ex) -> Seq(TokensOf(j))] /\ src[1] = j.formula
  /\ pos \in [1..Len(ex) -> Nat]
  /\ \A h \in 1..Len(ex) : IsRest(Height(ex, h), src[h], pos[h])
  /\ \A h \in 1..(Len(ex) - 1) : EnteredAt(j, src, pos, h)

Advanced(pos, n) == [pos EXCEPT ![n] = @ + 1]
Grown(f, n, x) == [h \in 1..(n + 1) |-> IF h <= n THEN f[h] ELSE x]
CutOff(f, n) == [h \in 1..n |-> f[h]]

LEMMA RestOfWhole ==
  ASSUME NEW T, NEW s \in Seq(T)
  PROVE  IsRest(s, s, 0)
<1>1. IsSequence(s)
  BY DEF IsSequence
<1> QED
  BY <1>1 DEF IsRest

LEMMA RestAdvances ==
  ASSUME NEW T, NEW s \in Seq(T), NEW e, NEW p, IsRest(e, s, p), e # << >>
  PROVE  /\ IsRest(Tail(e), s, p + 1) /\ p + 1 \in 1..Len(s) /\ Head(e) = s[p + 1]
<1>1. /\ Head(e) = e[1] /\ IsSequence(Tail(e)) /\ Len(e) \in Nat \ {0}
      /\ Len(Tail(e)) = Len(e) - 1
      /\ \A k \in 1..(Len(e) - 1) : Tail(e)[k] = e[k + 1]
  BY TailFacts DEF IsRest
<1>2. Len(s) \in Nat /\ p \in 0..Len(s) /\ Len(e) = Len(s) - p
  BY DEF IsRest
<1>3. p + 1 \in 1..Len(s) /\ Len(Tail(e)) = Len(s) - (p + 1) /\ p + 1 \in 0..Len(s)
  BY <1>1, <1>2
<1>4. Head(e) = s[p + 1]
  BY <1>1 DEF IsRest
<1>5. \A k \in 1..Len(Tail(e)) : Tail(e)[k] = s[(p + 1) + k]
  <2> SUFFICES ASSUME NEW k \in 1..Len(Tail(e)) PROVE Tail(e)[k] = s[(p + 1) + k]
    OBVIOUS
  <2>1. k \in 1..(Len(e) - 1) /\ k + 1 \in 1..Len(e) /\ p + (k + 1) = (p + 1) + k
    BY <1>1, <1>2
  <2>2. e[k + 1] = s[p + (k + 1)]
    BY <2>1 DEF IsRest
  <2> QED
    BY <1>1, <2>1, <2>2
<1> QED
  BY <1>1, <1>3, <1>4, <1>5 DEF IsRest

LEMMA RestIsEmpty ==
  ASSUME NEW T, NEW s \in Seq(T), NEW p, IsRest(<< >>, s, p)
  PROVE  p = Len(s)
<1>1. Len(s) \in Nat /\ p \in 0..Len(s) /\ 0 = Len(s) - p
  BY DEF IsRest
<1> QED
  BY <1>1

LEMMA HeightAtTop ==
  ASSUME NEW ex, IsSequence(ex), ex # << >>
  PROVE  Height(ex, Len(ex)) = Head(ex) /\ Len(ex) \in Nat \ {0} /\ Head(ex) = ex[1]
<1>1. Head(ex) = ex[1] /\ Len(ex) \in Nat \ {0}
  BY TailFacts
<1>2. Len(ex) + 1 - Len(ex) = 1
  BY <1>1
<1> QED
  BY <1>1, <1>2 DEF Height

HasHeight(ex, n) == IsSequence(ex) /\ n \in Nat /\ Len(ex) = n
SameUpTo(fx, ex, n)  == \A h \in 1..n : Height(fx, h) = Height(ex, h)
SameBelow(fx, ex, n) == \A h \in 1..(n - 1) : Height(fx, h) = Height(ex, h)

WithTop(ex, e) == [ex EXCEPT ![1] = e]
WithNew(ex, e) == << e >> \o ex

LEMMA HeightReplaced ==
  ASSUME NEW ex, NEW n, HasHeight(ex, n), n # 0, NEW e
  PROVE  LET fx == WithTop(ex, e)
         IN  HasHeight(fx, n) /\ Height(fx, n) = e /\ SameBelow(fx, ex, n)
<1>0. PICK fx : fx = WithTop(ex, e) /\ fx = [ex EXCEPT ![1] = e]
  BY DEF WithTop
<1>1. IsSequence(ex) /\ Len(ex) = n /\ n \in Nat \ {0} /\ ex # << >>
  BY LenFacts DEF HasHeight
<1>2. IsSequence(fx)
  <2>1. IsSequence([ex EXCEPT ![1] = e])
    BY <1>1, ReplaceFacts
  <2> QED
    BY <1>0, <2>1, Zenon
<1>3. Len(fx) = n
  BY <1>0, <1>1, ReplaceFacts
<1>4. fx[1] = e
  BY <1>0, <1>1, ReplaceFacts
<1>5. \A k \in 2..Len(ex) : fx[k] = ex[k]
  BY <1>0, <1>1, ReplaceFacts
<1>6. n + 1 - n = 1 /\ \A h \in 1..(n - 1) : n + 1 - h \in 2..n
  BY <1>1
<1>7. SameBelow(fx, ex, n)
  BY <1>1, <1>3, <1>5, <1>6 DEF Height, SameBelow
<1>8. Height(fx, n) = e
  BY <1>3, <1>4, <1>6 DEF Height
<1> QED
  BY <1>0, <1>1, <1>2, <1>3, <1>7, <1>8 DEF HasHeight

LEMMA HeightPushed ==
  ASSUME NEW ex, NEW n, HasHeight(ex, n), NEW e
  PROVE  LET fx == WithNew(ex, e)
         IN  HasHeight(fx, n + 1) /\ Height(fx, n + 1) = e /\ SameUpTo(fx, ex, n)
<1>0. PICK fx : fx = WithNew(ex, e) /\ fx = << e >> \o ex
  BY DEF WithNew
<1>1. IsSequence(ex) /\ n \in Nat /\ Len(ex) = n
  BY DEF HasHeight
<1>2. IsSequence(fx)
  BY <1>0, <1>1, ConsFacts
<1>3. Len(fx) = n + 1
  BY <1>0, <1>1, ConsFacts
<1>4. fx[1] = e
  BY <1>0, <1>1, ConsFacts
<1>5. \A k \in 1..Len(ex) : fx[k + 1] = ex[k]
  BY <1>0, <1>1, ConsFacts
<1>6. (n + 1) + 1 - (n + 1) = 1
      /\ \A h \in 1..n : n + 1 - h \in 1..n /\ (n + 1) + 1 - h = (n + 1 - h) + 1
  BY <1>1
<1>7. Height(fx, n + 1) = e
  BY <1>3, <1>4, <1>6 DEF Height
<1>8. ASSUME NEW h \in 1..n PROVE Height(fx, h) = Height(ex, h)
  <2>1. PICK k \in 1..n : k = n + 1 - h /\ (n + 1) + 1 - h = k + 1
    BY <1>6
  <2>2. fx[k + 1] = ex[k]
    BY <1>1, <1>5, <2>1
  <2> QED
    BY <1>1, <1>3, <2>1, <2>2 DEF Height
<1> QED
  BY <1>0, <1>1, <1>2, <1>3, <1>7, <1>8 DEF SameUpTo, HasHeight

LEMMA HeightPopped ==
  ASSUME NEW ex, NEW n \in Nat, HasHeight(ex, n + 1), NEW fx, fx = Tail(ex)
  PROVE  HasHeight(fx, n) /\ SameUpTo(fx, ex, n)
<1>1. IsSequence(ex) /\ Len(ex) = n + 1 /\ ex # << >>
  BY LenFacts DEF HasHeight
<1>2. /\ IsSequence(fx) /\ Len(fx) = Len(ex) - 1
      /\ \A k \in 1..(Len(ex) - 1) : fx[k] = ex[k + 1]
  BY <1>1, TailFacts
<1>3. Len(fx) = n
  BY <1>1, <1>2
<1>4. ASSUME NEW h \in 1..n PROVE Height(fx, h) = Height(ex, h)
  <2>1. PICK k \in 1..n : k = n + 1 - h /\ (n + 1) + 1 - h = k + 1
    OBVIOUS
  <2>2. fx[k] = ex[k + 1]
    BY <1>1, <1>2, <2>1
  <2> QED
    BY <1>1, <1>3, <2>1, <2>2 DEF Height
<1> QED
  BY <1>2, <1>3, <1>4 DEF SameUpTo, HasHeight

\* A token of the innermost text is passed.
TokenPassed(ex) == [ex EXCEPT ![1] = Tail(Head(ex))]

HaveAdvanced(j, ex, fx, src, pos, n) ==
  /\ n \in Nat \ {0} /\ Len(fx) = n
  /\ pos[n] + 1 \in 1..Len(src[n]) /\ Head(Head(ex)) = src[n][pos[n] + 1]
  /\ IsSequence(fx) /\ fx # << >>
  /\ Advanced(pos, n) \in [1..n -> Nat]
  /\ \A h \in 1..n : IsRest(Height(fx, h), src[h], Advanced(pos, n)[h])
  /\ \A h \in 1..(n - 1) : EnteredAt(j, src, Advanced(pos, n), h)

LEMMA FramesAdvance ==
  ASSUME NEW j \in Jobs, NEW ex, NEW src, NEW pos, AreFrames(j, ex, src, pos), Head(ex) # << >>,
         NEW fx, fx = TokenPassed(ex), NEW n, n = Len(ex)
  PROVE  HaveAdvanced(j, ex, fx, src, pos, n)
<1>1. n \in Nat \ {0} /\ Height(ex, n) = Head(ex)
  BY HeightAtTop DEF AreFrames
<1>2. n \in 1..n /\ src[n] \in Seq(TokensOf(j)) /\ pos[n] \in Nat /\ IsRest(Head(ex), src[n], pos[n])
  BY <1>1 DEF AreFrames
<1>3. /\ IsRest(Tail(Head(ex)), src[n], pos[n] + 1) /\ pos[n] + 1 \in 1..Len(src[n])
      /\ Head(Head(ex)) = src[n][pos[n] + 1]
  BY <1>2, RestAdvances
<1>4. /\ IsSequence(fx) /\ fx # << >> /\ Len(fx) = n
      /\ Height(fx, n) = Tail(Head(ex))
      /\ \A h \in 1..(n - 1) : Height(fx, h) = Height(ex, h)
  <2>1. IsSequence(ex) /\ ex # << >>
    BY DEF AreFrames
  <2>2. PICK e : e = Tail(Head(ex))
    OBVIOUS
  <2>3. fx = WithTop(ex, e)
    BY <2>2 DEF TokenPassed, WithTop
  <2>4. HasHeight(ex, n) /\ n # 0
    BY <1>1, <2>1 DEF HasHeight
  <2>5. HasHeight(fx, n) /\ Height(fx, n) = e /\ SameBelow(fx, ex, n)
    BY <2>3, <2>4, HeightReplaced
  <2>6. fx # << >>
    BY <1>1, <2>5 DEF HasHeight
  <2> QED
    BY <1>1, <2>2, <2>5, <2>6 DEF HasHeight, SameBelow
<1>5. PICK q : q = Advanced(pos, n)
  OBVIOUS
<1>6. q \in [1..n -> Nat] /\ q[n] = pos[n] + 1 /\ \A h \in 1..(n - 1) : q[h] = pos[h]
  <2>1. pos \in [1..n -> Nat] /\ pos[n] + 1 \in Nat
    BY <1>2 DEF AreFrames
  <2>2. \A h \in 1..(n - 1) : h \in 1..n /\ h # n
    BY <1>1
  <2> QED
    BY <1>2, <1>5, <2>1, <2>2 DEF Advanced
<1>7. \A h \in 1..n : h = n \/ h \in 1..(n - 1)
  BY <1>1
<1>8. ASSUME NEW h \in 1..n PROVE IsRest(Height(fx, h), src[h], q[h])
  <2>1. CASE h = n
    BY <1>3, <1>4, <1>6, <2>1
  <2>2. CASE h \in 1..(n - 1)
    BY <1>4, <1>6, <2>2 DEF AreFrames
  <2> QED
    BY <1>7, <2>1, <2>2
<1>9. ASSUME NEW h \in 1..(n - 1) PROVE EnteredAt(j, src, q, h)
  BY <1>6, <1>9 DEF AreFrames, EnteredAt
<1> QED
  BY <1>1, <1>3, <1>4, <1>5, <1>6, <1>8, <1>9 DEF HaveAdvanced

LEMMA FramesAfterToken ==
  ASSUME NEW j \in Jobs, NEW ex, NEW src, NEW pos, AreFrames(j, ex, src, pos), Head(ex) # << >>,
         NEW fx, fx = TokenPassed(ex)
  PROVE  AreFrames(j, fx, src, Advanced(pos, Len(ex)))
<1>1. PICK n : n = Len(ex)
  OBVIOUS
<1>2. /\ n \in Nat \ {0} /\ Len(fx) = n
      /\ IsSequence(fx) /\ fx # << >>
      /\ Advanced(pos, n) \in [1..n -> Nat]
      /\ \A h \in 1..n : IsRest(Height(fx, h), src[h], Advanced(pos, n)[h])
      /\ \A h \in 1..(n - 1) : EnteredAt(j, src, Advanced(pos, n), h)
  <2>1. HaveAdvanced(j, ex, fx, src, pos, n)
    BY <1>1, FramesAdvance
  <2> QED
    BY <2>1 DEF HaveAdvanced
<1> QED
  BY <1>1, <1>2 DEF AreFrames

\* A name's text is gone into.
LEMMA FramesAfterEntry ==
  ASSUME NEW j \in Jobs, NEW ex, NEW src, NEW pos, AreFrames(j, ex, src, pos), Head(ex) # << >>,
         NEW m, Head(Head(ex)).op = "name", m = Head(Head(ex)).name, m \in DOMAIN j.names,
         NEW fx, fx = << j.names[m] >> \o TokenPassed(ex),
         Len(fx) <= NameCount(j) + 1, NEW n, n = Len(ex)
  PROVE  AreFrames(j, fx, Grown(src, n, j.names[m]), Grown(Advanced(pos, n), n, 0))
<1>1. PICK gx : gx = TokenPassed(ex)
  OBVIOUS
<1>2. PICK q : q = Advanced(pos, n)
  OBVIOUS
<1>3. /\ n \in Nat \ {0} /\ Len(gx) = n
      /\ pos[n] + 1 \in 1..Len(src[n]) /\ Head(Head(ex)) = src[n][pos[n] + 1]
      /\ IsSequence(gx) /\ gx # << >>
      /\ q \in [1..n -> Nat]
      /\ \A h \in 1..n : IsRest(Height(gx, h), src[h], q[h])
      /\ \A h \in 1..(n - 1) : EnteredAt(j, src, q, h)
  <2>1. HaveAdvanced(j, ex, gx, src, pos, n)
    BY <1>1, FramesAdvance
  <2> QED
    BY <1>2, <2>1 DEF HaveAdvanced
<1>4. /\ IsSequence(fx) /\ fx # << >> /\ Len(fx) = n + 1
      /\ Height(fx, n + 1) = j.names[m]
      /\ \A h \in 1..n : Height(fx, h) = Height(gx, h)
  <2>1. IsSequence(gx) /\ Len(gx) = n
    BY <1>3
  <2>2. PICK e : e = j.names[m]
    OBVIOUS
  <2>3. fx = WithNew(gx, e)
    BY <1>1, <2>2 DEF WithNew
  <2> QED
    <3>1. HasHeight(gx, n)
      BY <1>3, <2>1 DEF HasHeight
    <3>2. HasHeight(fx, n + 1) /\ Height(fx, n + 1) = e /\ SameUpTo(fx, gx, n)
      <4>1. HasHeight(WithNew(gx, e), n + 1)
        BY <3>1, HeightPushed, Zenon
      <4>2. Height(WithNew(gx, e), n + 1) = e
        BY <3>1, HeightPushed
      <4>3. SameUpTo(WithNew(gx, e), gx, n)
        BY <3>1, HeightPushed, Zenon
      <4> QED
        BY <2>3, <4>1, <4>2, <4>3
    <3>3. fx # << >>
      BY <1>3, <3>2 DEF HasHeight
    <3> QED
      BY <2>2, <3>2, <3>3 DEF HasHeight, SameUpTo
<1>5. PICK s \in Seq(TokensOf(j)) : s = j.names[m]
  BY JobTokens
<1>6. PICK src2, pos2 : src2 = Grown(src, n, s) /\ pos2 = Grown(q, n, 0)
  OBVIOUS
<1>7. \A h \in 1..(n + 1) : h \in 1..n \/ h = n + 1
  BY <1>3
<1>8. n + 1 \in 1..(n + 1) /\ ~(n + 1 <= n) /\ \A h \in 1..n : h \in 1..(n + 1) /\ h <= n
  BY <1>3
<1>9. /\ src2[n + 1] = s /\ pos2[n + 1] = 0
      /\ \A h \in 1..n : src2[h] = src[h] /\ pos2[h] = q[h]
  BY <1>6, <1>8 DEF Grown
<1>10. src \in [1..n -> Seq(TokensOf(j))] /\ src[1] = j.formula
  BY DEF AreFrames
<1>11. /\ src2 \in [1..(n + 1) -> Seq(TokensOf(j))]
       /\ pos2 \in [1..(n + 1) -> Nat]
  <2>0. \A h \in 1..n : src[h] \in Seq(TokensOf(j)) /\ q[h] \in Nat
    BY <1>3, <1>10
  <2>1. \A h \in 1..(n + 1) : src2[h] \in Seq(TokensOf(j)) /\ pos2[h] \in Nat
    BY <1>5, <1>7, <1>9, <2>0
  <2>2. DOMAIN src2 = 1..(n + 1) /\ DOMAIN pos2 = 1..(n + 1)
    BY <1>6 DEF Grown
  <2>3. src2 = [h \in 1..(n + 1) |-> src2[h]] /\ pos2 = [h \in 1..(n + 1) |-> pos2[h]]
    BY <1>6, <2>2 DEF Grown
  <2> QED
    BY <2>1, <2>3
<1>12. src2[1] = j.formula
  BY <1>3, <1>9, <1>10
<1>13. ASSUME NEW h \in 1..(n + 1) PROVE IsRest(Height(fx, h), src2[h], pos2[h])
  <2>1. CASE h = n + 1
    BY <1>4, <1>5, <1>9, <2>1, RestOfWhole
  <2>2. CASE h \in 1..n
    BY <1>3, <1>4, <1>9, <2>2
  <2> QED
    BY <1>7, <2>1, <2>2
<1>14. ASSUME NEW h \in 1..n PROVE EnteredAt(j, src2, pos2, h)
  <2>1. CASE h = n
    <3>1. q[n] = pos[n] + 1
      BY <1>2, <1>3 DEF Advanced, AreFrames
    <3>2. src2[h] = src[n] /\ pos2[h] = pos[n] + 1 /\ src2[h + 1] = s
      BY <1>9, <2>1, <3>1
    <3> QED
      BY <1>3, <1>5, <3>2 DEF EnteredAt
  <2>2. CASE h \in 1..(n - 1)
    <3>1. h + 1 \in 1..n
      BY <1>3, <2>2
    <3>2. EnteredAt(j, src, q, h)
      BY <1>3, <2>2
    <3> QED
      BY <1>9, <3>1, <3>2 DEF EnteredAt
  <2>3. h = n \/ h \in 1..(n - 1)
    BY <1>3
  <2> QED
    BY <2>1, <2>2, <2>3
<1>15. (n + 1) - 1 = n
  BY <1>3
<1>16. AreFrames(j, fx, src2, pos2)
  BY <1>4, <1>11, <1>12, <1>13, <1>14, <1>15 DEF AreFrames
<1> QED
  BY <1>2, <1>5, <1>6, <1>16

\* A name's text is at its end.
LEMMA FramesAfterExit ==
  ASSUME NEW j \in Jobs, NEW ex, NEW src, NEW pos, AreFrames(j, ex, src, pos), Len(ex) # 1,
         NEW n, n = Len(ex) - 1
  PROVE  AreFrames(j, Tail(ex), CutOff(src, n), CutOff(pos, n)) /\ n \in Nat \ {0} /\ Len(Tail(ex)) = n
<1>1. n \in Nat \ {0} /\ Len(ex) = n + 1
  BY HeightAtTop DEF AreFrames
<1>2. PICK fx : fx = Tail(ex)
  OBVIOUS
<1>3. /\ IsSequence(fx) /\ Len(fx) = n
      /\ \A h \in 1..n : Height(fx, h) = Height(ex, h)
  <2>1. IsSequence(ex) /\ ex # << >>
    BY DEF AreFrames
  <2>2. HasHeight(ex, n + 1) /\ n \in Nat
    BY <1>1, <2>1 DEF HasHeight
  <2>3. HasHeight(fx, n) /\ SameUpTo(fx, ex, n)
    BY <1>2, <2>2, HeightPopped
  <2> QED
    BY <2>3 DEF HasHeight, SameUpTo
<1>4. fx # << >>
  BY <1>1, <1>3, LenFacts
<1>5. PICK src2, pos2 : src2 = CutOff(src, n) /\ pos2 = CutOff(pos, n)
  OBVIOUS
<1>6. \A h \in 1..n : h \in 1..(n + 1) /\ src2[h] = src[h] /\ pos2[h] = pos[h]
  BY <1>1, <1>5 DEF CutOff
<1>7. src \in [1..(n + 1) -> Seq(TokensOf(j))] /\ src[1] = j.formula /\ pos \in [1..(n + 1) -> Nat]
  BY <1>1 DEF AreFrames
<1>8. src2 \in [1..n -> Seq(TokensOf(j))] /\ pos2 \in [1..n -> Nat]
  BY <1>5, <1>6, <1>7 DEF CutOff
<1>9. src2[1] = j.formula
  BY <1>1, <1>6, <1>7
<1>10. \A h \in 1..n : IsRest(Height(fx, h), src2[h], pos2[h])
  BY <1>1, <1>3, <1>6 DEF AreFrames
<1>11. ASSUME NEW h \in 1..(n - 1) PROVE EnteredAt(j, src2, pos2, h)
  <2>1. h \in 1..n /\ h + 1 \in 1..n
    BY <1>1
  <2>2. EnteredAt(j, src, pos, h)
    BY <1>1, <2>1 DEF AreFrames
  <2> QED
    BY <1>6, <2>1, <2>2 DEF EnteredAt
<1>12. n <= NameCount(j) + 1
  <2>1. NameCount(j) \in Nat
    BY JobsAssumption, FS_CardinalityType DEF NameCount
  <2>2. n + 1 <= NameCount(j) + 1
    BY <1>1 DEF AreFrames
  <2> QED
    BY <1>1, <2>1, <2>2
<1>13. AreFrames(j, fx, src2, pos2)
  BY <1>3, <1>4, <1>8, <1>9, <1>10, <1>11, <1>12 DEF AreFrames
<1> QED
  BY <1>1, <1>2, <1>3, <1>5, <1>13

\* The text of the first tokens of a text, at a height.
IsUnfolded(w, s, texts, T) == IsUnfolding(w, s, texts, T) /\ w[Len(s)] = Inserted(s, texts)
Unfolded(s, texts, T) == CHOOSE w : IsUnfolded(w, s, texts, T)
Level(j, h) == NameTexts(j.names)[NameCount(j) + 1 - h]
Part(j, h, s, k) == Unfolded(s, Level(j, h), TokensOf(j))[k]

LEMMA ParenthesesAreTokens ==
  ASSUME NEW j
  PROVE  [op |-> "("] \in TokensOf(j) /\ [op |-> ")"] \in TokensOf(j)
<1>1. [op |-> "("] \in AddedTokens /\ [op |-> ")"] \in AddedTokens
  BY Zenon DEF AddedTokens
<1> QED
  BY <1>1 DEF TokensOf

LEMMA NameCountType ==
  ASSUME NEW j \in Jobs
  PROVE  NameCount(j) \in Nat /\ NameCount(j) = Cardinality(DOMAIN j.names)
BY JobsAssumption, FS_CardinalityType DEF NameCount

LEMMA LevelFacts ==
  ASSUME NEW j \in Jobs, NEW h \in 1..(NameCount(j) + 1)
  PROVE  /\ Level(j, h) \in [DOMAIN j.names -> Seq(TokensOf(j))]
         /\ h <= NameCount(j) => \A m \in DOMAIN j.names : Level(j, h)[m] = Inserted(j.names[m], Level(j, h + 1))
<1>1. PICK n \in Nat : n = NameCount(j) /\ n = Cardinality(DOMAIN j.names)
  BY NameCountType
<1>2. PICK T : T = TokensOf(j)
  OBVIOUS
<1>3. [op |-> "("] \in T /\ [op |-> ")"] \in T
  BY <1>2, ParenthesesAreTokens
<1>4. \A m \in DOMAIN j.names : j.names[m] \in Seq(T)
  BY <1>2, JobTokens
<1>5. PICK names : names = j.names
  OBVIOUS
<1>6. \A m \in DOMAIN names : names[m] \in Seq(T)
  BY <1>4, <1>5
<1>7. n = Cardinality(DOMAIN names)
  BY <1>1, <1>5
<1>8. IsLeveled(NameTexts(names), names, n, T)
  BY <1>3, <1>6, <1>7, LevelsOfTexts
<1>9. PICK k \in 0..n : k = n + 1 - h
  BY <1>1
<1>10. Level(j, h) = NameTexts(names)[k]
  BY <1>1, <1>5, <1>9 DEF Level
<1>11. h <= n => k \in 1..n /\ n + 1 - (h + 1) = k - 1
  BY <1>1, <1>9
<1>12. h <= n => Level(j, h + 1) = NameTexts(names)[k - 1]
  BY <1>1, <1>5, <1>11 DEF Level
<1> QED
  BY <1>1, <1>2, <1>5, <1>8, <1>9, <1>10, <1>11, <1>12 DEF IsLeveled

LEMMA PartFacts ==
  ASSUME NEW j \in Jobs, NEW h \in 1..(NameCount(j) + 1), NEW s \in Seq(TokensOf(j))
  PROVE  /\ Part(j, h, s, 0) = << >>
         /\ \A k \in 0..Len(s) : Part(j, h, s, k) \in Seq(TokensOf(j))
         /\ \A k \in 1..Len(s) : Part(j, h, s, k) = Part(j, h, s, k - 1) \o Piece(s[k], Level(j, h))
         /\ Part(j, h, s, Len(s)) = Inserted(s, Level(j, h))
<1>1. PICK T, texts, D : T = TokensOf(j) /\ texts = Level(j, h) /\ D = DOMAIN j.names
  OBVIOUS
<1>2. [op |-> "("] \in T /\ [op |-> ")"] \in T
  BY <1>1, ParenthesesAreTokens
<1>3. texts \in [D -> Seq(T)] /\ s \in Seq(T)
  BY <1>1, LevelFacts
<1>4. PICK v : IsUnfolding(v, s, texts, T) /\ Inserted(s, texts) = v[Len(s)]
  BY <1>2, <1>3, Unfolds
<1>5. IsUnfolded(v, s, texts, T)
  BY <1>4 DEF IsUnfolded
<1>6. PICK w : w = Unfolded(s, texts, T)
  OBVIOUS
<1>7. IsUnfolded(w, s, texts, T)
  BY <1>5, <1>6 DEF Unfolded
<1>8. \A k : Part(j, h, s, k) = w[k]
  BY <1>1, <1>6 DEF Part
<1> QED
  BY <1>1, <1>7, <1>8 DEF IsUnfolded, IsUnfolding

\* What was written before a frame, and what is there.
IsWritten(j, n, ts, src, pos, before) ==
  /\ before \in [1..n -> Seq(TokensOf(j))] /\ before[1] = << >>
  /\ \A h \in 1..(n - 1) :
       before[h + 1] = before[h] \o Part(j, h, src[h], pos[h] - 1) \o << [op |-> "("] >>
  /\ ts = before[n] \o Part(j, n, src[n], pos[n])

LEMMA Associative ==
  ASSUME NEW T, NEW a \in Seq(T), NEW b \in Seq(T), NEW c \in Seq(T)
  PROVE  (a \o b) \o c = a \o (b \o c)
BY ConcatAssociative

LEMMA WrittenAfterToken ==
  ASSUME NEW j \in Jobs, NEW ex, NEW src, NEW pos, AreFrames(j, ex, src, pos), Head(ex) # << >>,
         NEW n, n = Len(ex), NEW ts, NEW before, IsWritten(j, n, ts, src, pos, before),
         NEW t, t = Head(Head(ex)), t.op # "name"
  PROVE  IsWritten(j, n, Append(ts, t), src, Advanced(pos, n), before)
<1>1. HaveAdvanced(j, ex, TokenPassed(ex), src, pos, n)
  BY FramesAdvance
<1>2. PICK q : q = Advanced(pos, n)
  OBVIOUS
<1>3. /\ n \in Nat \ {0} /\ pos[n] + 1 \in 1..Len(src[n]) /\ t = src[n][pos[n] + 1]
      /\ pos \in [1..n -> Nat] /\ src[n] \in Seq(TokensOf(j)) /\ n \in 1..n /\ n \in 1..(NameCount(j) + 1)
  BY <1>1, NameCountType DEF HaveAdvanced, AreFrames
<1>4. q[n] = pos[n] + 1 /\ \A h \in 1..(n - 1) : q[h] = pos[h]
  BY <1>2, <1>3 DEF Advanced
<1>5. PICK s, p : s = src[n] /\ p = pos[n]
  OBVIOUS
<1>6. p \in 0..Len(s) /\ p + 1 \in 1..Len(s) /\ (p + 1) - 1 = p /\ s \in Seq(TokensOf(j))
  BY <1>3, <1>5
<1>7. /\ Part(j, n, s, p) \in Seq(TokensOf(j))
      /\ Part(j, n, s, p + 1) = Part(j, n, s, p) \o Piece(s[p + 1], Level(j, n))
  <2>1. \A k \in 0..Len(s) : Part(j, n, s, k) \in Seq(TokensOf(j))
    BY <1>3, <1>6, PartFacts
  <2>2. \A k \in 1..Len(s) : Part(j, n, s, k) = Part(j, n, s, k - 1) \o Piece(s[k], Level(j, n))
    BY <1>3, <1>6, PartFacts
  <2>3. PICK k \in 1..Len(s) : k = p + 1 /\ k - 1 = p
    BY <1>6
  <2> QED
    BY <1>6, <2>1, <2>2, <2>3
<1>8. Piece(s[p + 1], Level(j, n)) = << t >>
  BY <1>3, <1>5 DEF Piece
<1>9. PICK T, a, b : T = TokensOf(j) /\ a = before[n] /\ b = Part(j, n, s, p)
  OBVIOUS
<1>10. a \in Seq(T) /\ b \in Seq(T) /\ t \in T /\ ts = a \o b
  <2>1. before \in [1..n -> Seq(T)] /\ ts = before[n] \o Part(j, n, src[n], pos[n])
    BY <1>9 DEF IsWritten
  <2>2. t \in T
    BY <1>3, <1>5, <1>6, <1>9
  <2> QED
    BY <1>3, <1>5, <1>7, <1>9, <2>1, <2>2
<1>11. Append(a \o b, t) = (a \o b) \o << t >> /\ << t >> \in Seq(T)
  BY <1>10
<1>12. Append(ts, t) = a \o (b \o << t >>)
  <2>1. PICK c \in Seq(T) : c = << t >>
    BY <1>11
  <2>2. (a \o b) \o c = a \o (b \o c)
    BY <1>10, <2>1, Associative
  <2> QED
    BY <1>10, <1>11, <2>1, <2>2
<1>13. Append(ts, t) = before[n] \o Part(j, n, src[n], q[n])
  BY <1>4, <1>5, <1>7, <1>8, <1>9, <1>12
<1>14. \A h \in 1..(n - 1) :
       before[h + 1] = before[h] \o Part(j, h, src[h], q[h] - 1) \o << [op |-> "("] >>
  BY <1>4 DEF IsWritten
<1> QED
  BY <1>2, <1>13, <1>14 DEF IsWritten

LEMMA WrittenAfterEntry ==
  ASSUME NEW j \in Jobs, NEW ex, NEW src, NEW pos, AreFrames(j, ex, src, pos), Head(ex) # << >>,
         NEW n, n = Len(ex), NEW ts, NEW before, IsWritten(j, n, ts, src, pos, before),
         NEW m \in DOMAIN j.names, n + 1 <= NameCount(j) + 1, NEW us, us = Append(ts, [op |-> "("])
  PROVE  IsWritten(j, n + 1, us, Grown(src, n, j.names[m]), Grown(Advanced(pos, n), n, 0),
                   Grown(before, n, us))
<1>1. HaveAdvanced(j, ex, TokenPassed(ex), src, pos, n)
  BY FramesAdvance
<1>2. PICK q : q = Advanced(pos, n)
  OBVIOUS
<1>3. /\ n \in Nat \ {0} /\ pos[n] \in Nat /\ pos[n] + 1 \in 1..Len(src[n])
      /\ pos \in [1..n -> Nat] /\ src[n] \in Seq(TokensOf(j)) /\ n \in 1..n /\ n \in 1..(NameCount(j) + 1)
      /\ n + 1 \in 1..(NameCount(j) + 1)
  BY <1>1, NameCountType DEF HaveAdvanced, AreFrames
<1>4. q[n] = pos[n] + 1 /\ \A h \in 1..(n - 1) : q[h] = pos[h]
  BY <1>2, <1>3 DEF Advanced
<1>5. PICK s, src2, pos2, before2 :
        s = j.names[m] /\ src2 = Grown(src, n, s) /\ pos2 = Grown(q, n, 0) /\ before2 = Grown(before, n, us)
  OBVIOUS
<1>6. n + 1 \in 1..(n + 1) /\ ~(n + 1 <= n) /\ \A h \in 1..n : h \in 1..(n + 1) /\ h <= n
  BY <1>3
<1>7. /\ src2[n + 1] = s /\ pos2[n + 1] = 0 /\ before2[n + 1] = us
      /\ \A h \in 1..n : src2[h] = src[h] /\ pos2[h] = q[h] /\ before2[h] = before[h]
  BY <1>5, <1>6 DEF Grown
<1>8. PICK T, a, b, l : T = TokensOf(j) /\ a = before[n] /\ b = Part(j, n, src[n], pos[n]) /\ l = [op |-> "("]
  OBVIOUS
<1>9. pos[n] \in 0..Len(src[n]) /\ (pos[n] + 1) - 1 = pos[n]
  BY <1>3
<1>10. a \in Seq(T) /\ b \in Seq(T) /\ l \in T /\ ts = a \o b
  BY <1>3, <1>8, <1>9, PartFacts, ParenthesesAreTokens DEF IsWritten
<1>11. us = a \o b \o << l >> /\ us \in Seq(T)
  <2>1. Append(a \o b, l) = (a \o b) \o << l >> /\ Append(a \o b, l) \in Seq(T)
    BY <1>10
  <2> QED
    BY <1>8, <1>10, <2>1
<1>12. s \in Seq(T)
  BY <1>5, <1>8, JobTokens
<1>13. us = before2[n + 1] \o Part(j, n + 1, src2[n + 1], pos2[n + 1])
  <2>1. Part(j, n + 1, s, 0) = << >>
    BY <1>3, <1>8, <1>12, PartFacts
  <2>2. us \o << >> = us
    BY <1>11
  <2> QED
    BY <1>7, <2>1, <2>2
<1>14. before2 \in [1..(n + 1) -> Seq(T)] /\ before2[1] = << >>
  <2>1. \A h \in 1..(n + 1) : h \in 1..n \/ h = n + 1
    BY <1>3
  <2>2. before \in [1..n -> Seq(T)] /\ before[1] = << >>
    BY <1>8 DEF IsWritten
  <2>3. \A h \in 1..(n + 1) : before2[h] \in Seq(T)
    BY <1>7, <1>11, <2>1, <2>2
  <2>4. before2 = [h \in 1..(n + 1) |-> before2[h]]
    BY <1>5 DEF Grown
  <2> QED
    <3>1. 1 \in 1..n
      BY <1>3
    <3>2. before2[1] = << >>
      BY <1>7, <2>2, <3>1
    <3> QED
      BY <2>3, <2>4, <3>2
<1>15. ASSUME NEW h \in 1..n
       PROVE  before2[h + 1] = before2[h] \o Part(j, h, src2[h], pos2[h] - 1) \o << l >>
  <2>1. CASE h = n
    BY <1>4, <1>7, <1>8, <1>9, <1>11, <2>1
  <2>2. CASE h \in 1..(n - 1)
    <3>1. h + 1 \in 1..n
      BY <1>3, <2>2
    <3>2. before[h + 1] = before[h] \o Part(j, h, src[h], pos[h] - 1) \o << l >>
      BY <1>8, <2>2 DEF IsWritten
    <3> QED
      BY <1>4, <1>7, <2>2, <3>1, <3>2
  <2>3. h = n \/ h \in 1..(n - 1)
    BY <1>3
  <2> QED
    BY <2>1, <2>2, <2>3
<1>16. (n + 1) - 1 = n
  BY <1>3
<1>17. IsWritten(j, n + 1, us, src2, pos2, before2)
  BY <1>8, <1>13, <1>14, <1>15, <1>16 DEF IsWritten
<1> QED
  BY <1>2, <1>5, <1>17

Glued(s, t) == s \o t

LEMMA GluedAssociative ==
  ASSUME NEW T, NEW a \in Seq(T), NEW b \in Seq(T), NEW c \in Seq(T)
  PROVE  Glued(a, b) \in Seq(T) /\ Glued(Glued(a, b), c) = Glued(a, Glued(b, c))
<1>1. a \o b \in Seq(T)
  OBVIOUS
<1> QED
  BY <1>1, Associative DEF Glued

LEMMA InParentheses ==
  ASSUME NEW T, NEW a \in Seq(T), NEW b \in Seq(T), NEW c \in Seq(T), NEW d \in Seq(T), NEW e \in Seq(T)
  PROVE  /\ Glued(Glued(Glued(Glued(a, b), d), c), e) = Glued(a, Glued(b, Glued(Glued(d, c), e)))
         /\ Glued(Glued(Glued(a, b), d), c) \in Seq(T)
<1>1. /\ Glued(a, b) \in Seq(T) /\ Glued(d, c) \in Seq(T) /\ Glued(c, e) \in Seq(T)
      /\ Glued(Glued(d, c), e) = Glued(d, Glued(c, e))
  BY GluedAssociative
<1>2. Glued(Glued(a, b), d) \in Seq(T) /\ Glued(Glued(d, c), e) \in Seq(T)
  BY <1>1, GluedAssociative
<1>3. Glued(Glued(Glued(a, b), d), c) \in Seq(T)
  BY <1>2, GluedAssociative
<1>4. Glued(Glued(Glued(Glued(a, b), d), c), e) = Glued(Glued(Glued(a, b), d), Glued(c, e))
  BY <1>2, GluedAssociative
<1>5. Glued(Glued(Glued(a, b), d), Glued(c, e)) = Glued(Glued(a, b), Glued(d, Glued(c, e)))
  BY <1>1, GluedAssociative
<1>6. Glued(Glued(a, b), Glued(Glued(d, c), e)) = Glued(a, Glued(b, Glued(Glued(d, c), e)))
  BY <1>2, GluedAssociative
<1>7. Glued(Glued(Glued(Glued(a, b), d), c), e) = Glued(a, Glued(b, Glued(Glued(d, c), e)))
  BY <1>1, <1>4, <1>5, <1>6
<1> QED
  BY <1>3, <1>7

LEMMA WrittenAfterExit ==
  ASSUME NEW j \in Jobs, NEW ex, NEW src, NEW pos, AreFrames(j, ex, src, pos), Head(ex) = << >>,
         NEW n \in Nat \ {0}, Len(ex) = n + 1, NEW ts, NEW before, IsWritten(j, n + 1, ts, src, pos, before)
  PROVE  IsWritten(j, n, Append(ts, [op |-> ")"]), CutOff(src, n), CutOff(pos, n), CutOff(before, n))
<1>1. /\ NameCount(j) \in Nat /\ n + 1 <= NameCount(j) + 1
      /\ n \in 1..(n + 1) /\ n + 1 \in 1..(n + 1) /\ n \in 1..((n + 1) - 1)
      /\ n \in 1..(NameCount(j) + 1) /\ n + 1 \in 1..(NameCount(j) + 1) /\ n <= NameCount(j)
  BY NameCountType DEF AreFrames
<1>2. PICK m, s, u, p :
        m = src[n][pos[n]].name /\ s = src[n] /\ u = src[n + 1] /\ p = pos[n]
  OBVIOUS
<1>3. /\ p \in 1..Len(s) /\ s[p].op = "name" /\ m = s[p].name /\ m \in DOMAIN j.names
      /\ u = j.names[m]
  BY <1>1, <1>2 DEF AreFrames, EnteredAt
<1>4. s \in Seq(TokensOf(j)) /\ u \in Seq(TokensOf(j))
  BY <1>1, <1>2 DEF AreFrames
<1>5. pos[n + 1] = Len(u)
  <2>1. Height(ex, n + 1) = << >>
    <3>1. IsSequence(ex) /\ ex # << >>
      BY DEF AreFrames
    <3>2. Height(ex, Len(ex)) = Head(ex)
      BY <3>1, HeightAtTop
    <3> QED
      BY <3>2
  <2>2. IsRest(<< >>, u, pos[n + 1])
    BY <1>1, <1>2, <2>1 DEF AreFrames
  <2> QED
    BY <1>4, <2>2, RestIsEmpty
<1>6. PICK T, a, b, c, l, r :
        /\ T = TokensOf(j) /\ a = before[n] /\ b = Part(j, n, s, p - 1)
        /\ c = Level(j, n)[m] /\ l = [op |-> "("] /\ r = [op |-> ")"]
  OBVIOUS
<1>7. l \in T /\ r \in T
  BY <1>6, ParenthesesAreTokens
<1>8. Level(j, n) \in [DOMAIN j.names -> Seq(T)] /\ c = Inserted(u, Level(j, n + 1))
  BY <1>1, <1>3, <1>6, LevelFacts
<1>9. c \in Seq(T)
  BY <1>3, <1>6, <1>8
<1>10. before[n + 1] = a \o b \o << l >> /\ a \in Seq(T)
  BY <1>1, <1>2, <1>6 DEF IsWritten
<1>11. ts = (a \o b \o << l >>) \o c
  <2>1. ts = before[n + 1] \o Part(j, n + 1, u, Len(u))
    BY <1>2, <1>5 DEF IsWritten
  <2>2. Part(j, n + 1, u, Len(u)) = Inserted(u, Level(j, n + 1))
    BY <1>1, <1>4, PartFacts
  <2> QED
    BY <1>8, <1>10, <2>1, <2>2
<1>12. b \in Seq(T) /\ Part(j, n, s, p) = b \o Piece(s[p], Level(j, n))
  <2>1. \A k \in 0..Len(s) : Part(j, n, s, k) \in Seq(TokensOf(j))
    BY <1>1, <1>4, PartFacts
  <2>2. \A k \in 1..Len(s) : Part(j, n, s, k) = Part(j, n, s, k - 1) \o Piece(s[k], Level(j, n))
    BY <1>1, <1>4, PartFacts
  <2>3. p - 1 \in 0..Len(s)
    BY <1>3
  <2> QED
    BY <1>3, <1>6, <2>1, <2>2, <2>3
<1>13. Piece(s[p], Level(j, n)) = << l >> \o c \o << r >>
  <2>1. DOMAIN Level(j, n) = DOMAIN j.names
    BY <1>8
  <2> QED
    BY <1>3, <1>6, <2>1 DEF Piece
<1>14. Append(ts, r) = a \o Part(j, n, s, p)
  <2>1. Append((a \o b \o << l >>) \o c, r) = a \o (b \o (<< l >> \o c \o << r >>))
    <3>1. << l >> \in Seq(T) /\ << r >> \in Seq(T)
      BY <1>7
    <3>2. PICK e \in Seq(T), f \in Seq(T) : e = << l >> /\ f = << r >>
      BY <3>1
    <3>3. /\ Glued(Glued(Glued(Glued(a, b), e), c), f) = Glued(a, Glued(b, Glued(Glued(e, c), f)))
          /\ Glued(Glued(Glued(a, b), e), c) \in Seq(T)
      <4>1. a \in Seq(T) /\ b \in Seq(T) /\ c \in Seq(T) /\ e \in Seq(T) /\ f \in Seq(T)
        BY <1>9, <1>10, <1>12, <3>2
      <4> QED
        BY <4>1, InParentheses
    <3>4. Append(((a \o b) \o e) \o c, r) = (((a \o b) \o e) \o c) \o f
      BY <1>7, <3>2, <3>3, AppendIsConcat DEF Glued
    <3> QED
      BY <3>2, <3>3, <3>4 DEF Glued
  <2>2. PICK d : d = << l >> \o c \o << r >>
    OBVIOUS
  <2>3. Part(j, n, s, p) = b \o d
    BY <1>12, <1>13, <2>2
  <2> QED
    BY <1>11, <2>1, <2>2, <2>3
<1>15. PICK src2, pos2, before2 :
        src2 = CutOff(src, n) /\ pos2 = CutOff(pos, n) /\ before2 = CutOff(before, n)
  OBVIOUS
<1>16. \A h \in 1..n : h \in 1..(n + 1) /\ src2[h] = src[h] /\ pos2[h] = pos[h] /\ before2[h] = before[h]
  BY <1>15 DEF CutOff
<1>17. before2 \in [1..n -> Seq(T)] /\ before2[1] = << >>
  <2>1. before \in [1..(n + 1) -> Seq(T)] /\ before[1] = << >>
    BY <1>6 DEF IsWritten
  <2>2. \A h \in 1..n : before2[h] \in Seq(T)
    BY <1>16, <2>1
  <2>3. before2 = [h \in 1..n |-> before2[h]]
    BY <1>15 DEF CutOff
  <2>4. 1 \in 1..n
    OBVIOUS
  <2>5. before2[1] = << >>
    BY <1>16, <2>1, <2>4
  <2> QED
    BY <2>2, <2>3, <2>5
<1>18. ASSUME NEW h \in 1..(n - 1)
       PROVE  before2[h + 1] = before2[h] \o Part(j, h, src2[h], pos2[h] - 1) \o << l >>
  <2>1. h \in 1..n /\ h + 1 \in 1..n /\ h \in 1..((n + 1) - 1)
    OBVIOUS
  <2>2. before[h + 1] = before[h] \o Part(j, h, src[h], pos[h] - 1) \o << l >>
    BY <1>6, <2>1 DEF IsWritten
  <2> QED
    BY <1>16, <2>1, <2>2
<1>19. n \in 1..n
  OBVIOUS
<1>20. Append(ts, r) = before2[n] \o Part(j, n, src2[n], pos2[n])
  BY <1>2, <1>6, <1>14, <1>16, <1>19
<1>21. IsWritten(j, n, Append(ts, r), src2, pos2, before2)
  BY <1>6, <1>17, <1>18, <1>20 DEF IsWritten
<1> QED
  BY <1>6, <1>15, <1>21

\* In which order the names were used first: a name's text uses names that
\* were used after it, or is still being gone through.
UsedLater(used, rank, m, i) == i \in used /\ rank[m] < rank[i]
StillAhead(src, pos, n, m, i) ==
  \E h \in 2..n : /\ src[h - 1][pos[h - 1]].name = m
                  /\ \E k \in (pos[h] + 1)..Len(src[h]) : src[h][k].op = "name" /\ src[h][k].name = i

IsOrdered(j, n, used, src, pos, rank, top) ==
  /\ used \subseteq DOMAIN j.names
  /\ top \in Nat /\ rank \in [used -> Nat] /\ \A m \in used : rank[m] < top
  /\ \A k \in 1..pos[1] : src[1][k].op = "name" => src[1][k].name \in used
  /\ \A m \in used : \A i \in NamesIn(j.names[m]) :
       UsedLater(used, rank, m, i) \/ StillAhead(src, pos, n, m, i)

LEMMA OrderedAfterToken ==
  ASSUME NEW j \in Jobs, NEW ex, NEW src, NEW pos, AreFrames(j, ex, src, pos), Head(ex) # << >>,
         NEW n, n = Len(ex), NEW used, NEW rank, NEW top, IsOrdered(j, n, used, src, pos, rank, top),
         Head(Head(ex)).op # "name"
  PROVE  IsOrdered(j, n, used, src, Advanced(pos, n), rank, top)
<1>1. HaveAdvanced(j, ex, TokenPassed(ex), src, pos, n)
  BY FramesAdvance
<1>2. PICK q : q = Advanced(pos, n)
  OBVIOUS
<1>3. /\ n \in Nat \ {0} /\ pos \in [1..n -> Nat] /\ n \in 1..n /\ 1 \in 1..n
      /\ pos[n] + 1 \in 1..Len(src[n]) /\ src[n][pos[n] + 1].op # "name"
  BY <1>1 DEF HaveAdvanced, AreFrames
<1>4. q[n] = pos[n] + 1 /\ \A h \in 1..(n - 1) : q[h] = pos[h]
  BY <1>2, <1>3 DEF Advanced
<1>5. \A h \in 1..n : h = n \/ h \in 1..(n - 1)
  BY <1>3
<1>6. ASSUME NEW k \in 1..q[1], src[1][k].op = "name" PROVE src[1][k].name \in used
  <2>1. CASE k \in 1..pos[1]
    BY <1>6, <2>1 DEF IsOrdered
  <2>2. CASE k \notin 1..pos[1]
    <3>1. n = 1
      BY <1>3, <1>4, <1>5, <2>2
    <3>2. pos[1] \in Nat
      BY <1>3
    <3>3. k = pos[1] + 1
      BY <1>4, <2>2, <3>1, <3>2
    <3> QED
      BY <1>3, <1>6, <3>1, <3>3
  <2> QED
    BY <2>1, <2>2
<1>7. ASSUME NEW m, NEW i, StillAhead(src, pos, n, m, i) PROVE StillAhead(src, q, n, m, i)
  <2>1. PICK h \in 2..n, k \in Nat :
          /\ src[h - 1][pos[h - 1]].name = m
          /\ k \in (pos[h] + 1)..Len(src[h]) /\ src[h][k].op = "name" /\ src[h][k].name = i
    <3>1. \A h \in 2..n : h \in 1..n /\ pos[h] \in Nat
      BY <1>3
    <3>2. PICK h \in 2..n : /\ src[h - 1][pos[h - 1]].name = m
                  /\ \E k \in (pos[h] + 1)..Len(src[h]) : src[h][k].op = "name" /\ src[h][k].name = i
      BY <1>7 DEF StillAhead
    <3>3. PICK k \in (pos[h] + 1)..Len(src[h]) : src[h][k].op = "name" /\ src[h][k].name = i
      BY <3>2
    <3>4. k \in Nat
      BY <3>1
    <3> QED
      BY <3>2, <3>3, <3>4
  <2>2. h - 1 \in 1..(n - 1) /\ h \in 1..n /\ pos[h] \in Nat
    BY <1>3
  <2>3. src[h - 1][q[h - 1]].name = m
    BY <1>4, <2>1, <2>2
  <2>4. k \in (q[h] + 1)..Len(src[h])
    <3>1. CASE h = n
      <4>1. k # pos[n] + 1
        BY <1>3, <2>1, <3>1
      <4> QED
        BY <1>3, <1>4, <2>1, <2>2, <3>1, <4>1
    <3>2. CASE h \in 1..(n - 1)
      BY <1>4, <2>1, <3>2
    <3> QED
      BY <1>5, <2>2, <3>1, <3>2
  <2> QED
    BY <2>1, <2>3, <2>4 DEF StillAhead
<1>8. ASSUME NEW m \in used, NEW i \in NamesIn(j.names[m])
      PROVE  UsedLater(used, rank, m, i) \/ StillAhead(src, q, n, m, i)
  BY <1>7 DEF IsOrdered
<1> QED
  BY <1>2, <1>6, <1>8 DEF IsOrdered

\* What is known when a name's tokens are put on top.
IsEntry(j, ex, src, pos, n, used, rank, top, m, src2, pos2) ==
  /\ AreFrames(j, ex, src, pos) /\ Head(ex) # << >> /\ n = Len(ex)
  /\ IsOrdered(j, n, used, src, pos, rank, top)
  /\ m \in DOMAIN j.names /\ Head(Head(ex)).op = "name" /\ m = Head(Head(ex)).name
  /\ n = 1 \/ m \notin used
  /\ src2 = Grown(src, n, j.names[m]) /\ pos2 = Grown(Advanced(pos, n), n, 0)

LEMMA OrderedAfterEntry ==
  ASSUME NEW j \in Jobs, NEW ex, NEW src, NEW pos, NEW n, NEW used, NEW rank, NEW top, NEW m, NEW src2, NEW pos2,
         IsEntry(j, ex, src, pos, n, used, rank, top, m, src2, pos2)
  PROVE  \E rank2, top2 : IsOrdered(j, n + 1, used \cup {m}, src2, pos2, rank2, top2)
<1>0. /\ AreFrames(j, ex, src, pos) /\ Head(ex) # << >>
      /\ IsOrdered(j, n, used, src, pos, rank, top)
      /\ m \in DOMAIN j.names /\ Head(Head(ex)).op = "name" /\ m = Head(Head(ex)).name
      /\ n = 1 \/ m \notin used
      /\ src2 = Grown(src, n, j.names[m]) /\ pos2 = Grown(Advanced(pos, n), n, 0)
  BY DEF IsEntry
<1> USE <1>0
<1>1. HaveAdvanced(j, ex, TokenPassed(ex), src, pos, n)
  <2>1. n = Len(ex)
    BY DEF IsEntry
  <2> QED
    BY <2>1, FramesAdvance
<1>2. PICK q : q = Advanced(pos, n)
  OBVIOUS
<1>3. /\ n \in Nat \ {0} /\ pos \in [1..n -> Nat] /\ n \in 1..n /\ 1 \in 1..n
      /\ pos[n] + 1 \in 1..Len(src[n]) /\ src[n][pos[n] + 1].op = "name" /\ src[n][pos[n] + 1].name = m
  <2>1. /\ n \in Nat \ {0} /\ pos[n] + 1 \in 1..Len(src[n])
        /\ Head(Head(ex)) = src[n][pos[n] + 1]
    BY <1>1 DEF HaveAdvanced
  <2>2. n \in 1..n /\ 1 \in 1..n
    BY <2>1
  <2>3. pos \in [1..n -> Nat]
    <3>1. n = Len(ex) /\ pos \in [1..Len(ex) -> Nat]
      BY Zenon DEF IsEntry, AreFrames
    <3> QED
      BY <3>1, Zenon
  <2> QED
    BY <2>1, <2>2, <2>3, Zenon
<1>4. q[n] = pos[n] + 1 /\ \A h \in 1..(n - 1) : q[h] = pos[h]
  BY <1>2, <1>3 DEF Advanced
<1>5. \A h \in 1..n : h = n \/ h \in 1..(n - 1)
  BY <1>3
<1>6. n + 1 \in 1..(n + 1) /\ ~(n + 1 <= n) /\ \A h \in 1..n : h \in 1..(n + 1) /\ h <= n
  BY <1>3
<1>7. PICK s : s = j.names[m]
  OBVIOUS
<1>8. /\ src2[n + 1] = s /\ pos2[n + 1] = 0
      /\ \A h \in 1..n : src2[h] = src[h] /\ pos2[h] = q[h]
  BY <1>2, <1>6, <1>7 DEF Grown
<1>9. PICK used2 : used2 = used \cup {m}
  OBVIOUS
<1>10. used2 \subseteq DOMAIN j.names
  BY <1>9 DEF IsOrdered
<1>11. ASSUME NEW k \in 1..pos2[1], src2[1][k].op = "name" PROVE src2[1][k].name \in used2
  <2>1. src2[1] = src[1] /\ pos2[1] = q[1] /\ pos[1] \in Nat
    BY <1>3, <1>8
  <2>2. CASE k \in 1..pos[1]
    BY <1>9, <1>11, <2>1, <2>2 DEF IsOrdered
  <2>3. CASE k \notin 1..pos[1]
    <3>1. n = 1
      BY <1>3, <1>4, <1>5, <2>1, <2>3
    <3>2. k = pos[1] + 1
      BY <1>4, <2>1, <2>3, <3>1
    <3> QED
      BY <1>3, <1>9, <2>1, <3>1, <3>2
  <2> QED
    BY <2>2, <2>3
<1>12. ASSUME NEW x, NEW i, i # m, StillAhead(src, pos, n, x, i) PROVE StillAhead(src2, pos2, n + 1, x, i)
  <2>1. PICK h \in 2..n, k \in Nat :
          /\ src[h - 1][pos[h - 1]].name = x
          /\ k \in (pos[h] + 1)..Len(src[h]) /\ src[h][k].op = "name" /\ src[h][k].name = i
    <3>1. \A h \in 2..n : h \in 1..n /\ pos[h] \in Nat
      BY <1>3
    <3>2. PICK h \in 2..n : /\ src[h - 1][pos[h - 1]].name = x
                  /\ \E k \in (pos[h] + 1)..Len(src[h]) : src[h][k].op = "name" /\ src[h][k].name = i
      BY <1>12 DEF StillAhead
    <3>3. PICK k \in (pos[h] + 1)..Len(src[h]) : src[h][k].op = "name" /\ src[h][k].name = i
      BY <3>2
    <3>4. k \in Nat
      BY <3>1
    <3> QED
      BY <3>2, <3>3, <3>4
  <2>2. h - 1 \in 1..(n - 1) /\ h - 1 \in 1..n /\ h \in 1..n /\ h \in 2..(n + 1) /\ pos[h] \in Nat
    BY <1>3
  <2>3. src2[h - 1][pos2[h - 1]].name = x
    BY <1>4, <1>8, <2>1, <2>2
  <2>4. k \in (pos2[h] + 1)..Len(src2[h])
    <3>1. CASE h = n
      <4>1. k # pos[n] + 1
        BY <1>3, <1>12, <2>1, <3>1
      <4>2. pos2[h] = pos[n] + 1 /\ src2[h] = src[n]
        BY <1>4, <1>8, <2>2, <3>1
      <4>3. k \in (pos[n] + 1)..Len(src[n])
        BY <2>1, <3>1
      <4>4. k \in (pos[n] + 1 + 1)..Len(src[n])
        <5>1. \A p \in Nat : \A q2 : k \in Nat /\ k \in (p + 1)..q2 /\ k # p + 1 => k \in (p + 1 + 1)..q2
          BY <2>1
        <5> QED
          BY <2>2, <3>1, <4>1, <4>3, <5>1, Zenon
      <4> QED
        BY <4>2, <4>4
    <3>2. CASE h \in 1..(n - 1)
      BY <1>4, <1>8, <2>1, <2>2, <3>2
    <3> QED
      BY <1>5, <2>2, <3>1, <3>2
  <2>5. src2[h] = src[h]
    BY <1>8, <2>2
  <2> QED
    BY <2>1, <2>2, <2>3, <2>4, <2>5 DEF StillAhead
<1>13. CASE m \in used
  <2>1. n = 1 /\ used2 = used
    BY <1>9, <1>13
  <2>2. \A x, i : ~StillAhead(src, pos, n, x, i)
    BY <2>1 DEF StillAhead
  <2>3. \A x \in used2 : \A i \in NamesIn(j.names[x]) : UsedLater(used2, rank, x, i)
    BY <2>1, <2>2 DEF IsOrdered
  <2>4. top \in Nat /\ rank \in [used2 -> Nat] /\ \A x \in used2 : rank[x] < top
    BY <2>1 DEF IsOrdered
  <2>5. IsOrdered(j, n + 1, used2, src2, pos2, rank, top)
    BY <1>10, <1>11, <2>3, <2>4 DEF IsOrdered
  <2> QED
    BY <1>9, <2>5
<1>14. CASE m \notin used
  <2>1. PICK rank2 : rank2 = [x \in used2 |-> IF x = m THEN top ELSE rank[x]]
    OBVIOUS
  <2>2. top \in Nat /\ rank \in [used -> Nat] /\ \A x \in used : rank[x] < top
    BY DEF IsOrdered
  <2>3. rank2[m] = top /\ \A x \in used : x # m /\ x \in used2 /\ rank2[x] = rank[x]
    BY <1>9, <1>14, <2>1
  <2>4. rank2 \in [used2 -> Nat] /\ top + 1 \in Nat /\ \A x \in used2 : rank2[x] < top + 1
    <3>1. \A x \in used2 : rank2[x] \in Nat /\ rank2[x] < top + 1
      <4> SUFFICES ASSUME NEW x \in used2 PROVE rank2[x] \in Nat /\ rank2[x] < top + 1
        OBVIOUS
      <4>1. CASE x = m
        BY <2>2, <2>3, <4>1
      <4>2. CASE x \in used
        <5>1. rank[x] \in Nat /\ rank[x] < top
          BY <2>2, <4>2
        <5> QED
          BY <2>2, <2>3, <4>2, <5>1
      <4> QED
        BY <1>9, <4>1, <4>2
    <3> QED
      BY <2>1, <2>2, <3>1
  <2>5. ASSUME NEW x \in used2, NEW i \in NamesIn(j.names[x])
        PROVE  UsedLater(used2, rank2, x, i) \/ StillAhead(src2, pos2, n + 1, x, i)
    <3>1. CASE x = m
      <4>1. PICK k \in DOMAIN s : s[k].op = "name" /\ s[k].name = i
        BY <1>7, <2>5, <3>1 DEF NamesIn
      <4>2. s \in Seq(TokensOf(j))
        BY <1>7, JobTokens
      <4>3. k \in (pos2[n + 1] + 1)..Len(src2[n + 1])
        BY <1>8, <4>1, <4>2
      <4>4. src2[n][pos2[n]].name = m
        BY <1>3, <1>4, <1>8
      <4>5. n + 1 \in 2..(n + 1) /\ (n + 1) - 1 = n
        BY <1>3
      <4>6. StillAhead(src2, pos2, n + 1, x, i)
        <5>1. PICK g \in 2..(n + 1) : g = n + 1 /\ g - 1 = n
          BY <4>5
        <5>2. src2[g - 1][pos2[g - 1]].name = x
          BY <3>1, <4>4, <5>1
        <5>3. k \in (pos2[g] + 1)..Len(src2[g]) /\ src2[g][k].op = "name" /\ src2[g][k].name = i
          BY <1>8, <4>1, <4>3, <5>1
        <5> QED
          BY <5>2, <5>3 DEF StillAhead
      <4> QED
        BY <4>6
    <3>2. CASE x \in used
      <4>1. CASE UsedLater(used, rank, x, i)
        BY <2>3, <3>2, <4>1 DEF UsedLater
      <4>2. CASE StillAhead(src, pos, n, x, i) /\ i # m
        BY <1>12, <4>2
      <4>3. CASE i = m
        BY <1>9, <2>2, <2>3, <3>2, <4>3 DEF UsedLater
      <4> QED
        BY <3>2, <4>1, <4>2, <4>3 DEF IsOrdered
    <3> QED
      BY <1>9, <3>1, <3>2
  <2>6. IsOrdered(j, n + 1, used2, src2, pos2, rank2, top + 1)
    BY <1>10, <1>11, <2>4, <2>5 DEF IsOrdered
  <2> QED
    BY <1>9, <2>6
<1> QED
  BY <1>13, <1>14

LEMMA OrderedAfterExit ==
  ASSUME NEW j \in Jobs, NEW ex, NEW src, NEW pos, AreFrames(j, ex, src, pos), Head(ex) = << >>,
         NEW n \in Nat \ {0}, Len(ex) = n + 1, NEW used, NEW rank, NEW top,
         IsOrdered(j, n + 1, used, src, pos, rank, top)
  PROVE  IsOrdered(j, n, used, CutOff(src, n), CutOff(pos, n), rank, top)
<1>1. pos[n + 1] = Len(src[n + 1]) /\ pos \in [1..(n + 1) -> Nat]
  <2>1. IsSequence(ex) /\ ex # << >>
    BY DEF AreFrames
  <2>2. Height(ex, Len(ex)) = Head(ex)
    BY <2>1, HeightAtTop
  <2>3. n + 1 \in 1..(n + 1) /\ Height(ex, n + 1) = << >>
    BY <2>2
  <2>4. IsRest(<< >>, src[n + 1], pos[n + 1]) /\ src[n + 1] \in Seq(TokensOf(j))
    BY <2>3 DEF AreFrames
  <2> QED
    BY <2>4, RestIsEmpty DEF AreFrames
<1>2. PICK src2, pos2 : src2 = CutOff(src, n) /\ pos2 = CutOff(pos, n)
  OBVIOUS
<1>3. \A h \in 1..n : src2[h] = src[h] /\ pos2[h] = pos[h]
  BY <1>2 DEF CutOff
<1>4. ASSUME NEW x, NEW i, StillAhead(src, pos, n + 1, x, i) PROVE StillAhead(src2, pos2, n, x, i)
  <2>1. PICK h \in 2..(n + 1) : /\ src[h - 1][pos[h - 1]].name = x
                  /\ \E k \in (pos[h] + 1)..Len(src[h]) : src[h][k].op = "name" /\ src[h][k].name = i
    BY <1>4 DEF StillAhead
  <2>2. h # n + 1
    <3>1. pos[n + 1] \in Nat
      BY <1>1
    <3> QED
      BY <1>1, <2>1, <3>1
  <2>3. h \in 2..n /\ h \in 1..n /\ h - 1 \in 1..n
    BY <2>2
  <2> QED
    BY <1>3, <2>1, <2>3 DEF StillAhead
<1>5. src2[1] = src[1] /\ pos2[1] = pos[1]
  BY <1>3
<1>6. \A m \in used : \A i \in NamesIn(j.names[m]) :
       UsedLater(used, rank, m, i) \/ StillAhead(src2, pos2, n, m, i)
  BY <1>4 DEF IsOrdered
<1> QED
  BY <1>2, <1>5, <1>6 DEF IsOrdered

IsExpansion(j, ex, ts, used) ==
  \E src, pos, before, rank, top :
    /\ AreFrames(j, ex, src, pos)
    /\ IsWritten(j, Len(ex), ts, src, pos, before)
    /\ IsOrdered(j, Len(ex), used, src, pos, rank, top)

\* What NamesReplaced says.
AllReplaced(j, ts) ==
  /\ NamesWithin(j.names, NamesIn(j.formula)) \subseteq DOMAIN j.names
  /\ ~Circular(j.formula, j.names)
  /\ ts = Substituted(j.formula, j.names)

LEMMA ExpansionBegins ==
  ASSUME NEW j \in Jobs
  PROVE  IsExpansion(j, << j.formula >>, << >>, {})
<1>1. PICK ex, src, pos, before, rank :
        /\ ex = << j.formula >> /\ src = [h \in 1..1 |-> j.formula] /\ pos = [h \in 1..1 |-> 0]
        /\ before = [h \in 1..1 |-> << >>] /\ rank = [x \in {} |-> 0]
  OBVIOUS
<1>2. j.formula \in Seq(TokensOf(j))
  BY JobTokens
<1>3. IsSequence(ex) /\ Len(ex) = 1 /\ ex # << >> /\ ex[1] = j.formula
  <2>1. ex \in Seq({j.formula}) /\ Len(ex) = 1 /\ ex # << >> /\ ex[1] = j.formula
    BY <1>1
  <2> QED
    BY <2>1 DEF IsSequence
<1>4. Height(ex, 1) = j.formula
  BY <1>3 DEF Height
<1>5. IsRest(j.formula, j.formula, 0)
  BY <1>2, RestOfWhole
<1>6. NameCount(j) \in Nat /\ 1 \in 1..(NameCount(j) + 1) /\ 1 <= NameCount(j) + 1
  BY NameCountType
<1>7. /\ src[1] = j.formula /\ pos[1] = 0 /\ before[1] = << >> /\ 1 \in 1..1 /\ \A h \in 1..1 : h = 1
  BY <1>1
<1>8. src \in [1..1 -> Seq(TokensOf(j))] /\ pos \in [1..1 -> Nat] /\ before \in [1..1 -> Seq(TokensOf(j))]
  BY <1>1, <1>2
<1>9. AreFrames(j, ex, src, pos)
  <2>1. \A h \in 1..Len(ex) : IsRest(Height(ex, h), src[h], pos[h])
    BY <1>3, <1>4, <1>5, <1>7
  <2>2. \A h \in 1..(Len(ex) - 1) : EnteredAt(j, src, pos, h)
    BY <1>3
  <2> QED
    BY <1>3, <1>6, <1>7, <1>8, <2>1, <2>2 DEF AreFrames
<1>10. IsWritten(j, 1, << >>, src, pos, before)
  <2>1. Part(j, 1, j.formula, 0) = << >>
    BY <1>2, <1>6, PartFacts
  <2>2. << >> = before[1] \o Part(j, 1, src[1], pos[1])
    BY <1>7, <2>1
  <2>3. 1..(1 - 1) = {}
    OBVIOUS
  <2> QED
    BY <1>7, <1>8, <2>2, <2>3 DEF IsWritten
<1>11. IsOrdered(j, 1, {}, src, pos, rank, 0)
  <2>1. 1..pos[1] = {} /\ rank \in [{} -> Nat]
    BY <1>1, <1>7
  <2> QED
    BY <2>1 DEF IsOrdered
<1>12. IsExpansion(j, ex, << >>, {})
  BY <1>3, <1>9, <1>10, <1>11 DEF IsExpansion
<1> QED
  BY <1>1, <1>12

LEMMA ExpansionEnds ==
  ASSUME NEW j \in Jobs, NEW ex, NEW ts, NEW used, IsExpansion(j, ex, ts, used),
         Len(ex) = 1, Head(ex) = << >>
  PROVE  AllReplaced(j, ts)
<1>1. PICK src, pos, before, rank, top :
    /\ AreFrames(j, ex, src, pos)
    /\ IsWritten(j, 1, ts, src, pos, before)
    /\ IsOrdered(j, 1, used, src, pos, rank, top)
  BY DEF IsExpansion
<1>2. PICK f : f = j.formula /\ f \in Seq(TokensOf(j))
  BY JobTokens
<1>3. PICK names : names = j.names
  OBVIOUS
<1>4. src[1] = f /\ pos[1] = Len(f)
  <2>1. IsSequence(ex) /\ ex # << >> /\ src[1] = f
    BY <1>1, <1>2 DEF AreFrames
  <2>2. Height(ex, 1) = << >>
    BY <2>1, HeightAtTop
  <2>3. IsRest(<< >>, f, pos[1])
    BY <1>1, <2>1, <2>2 DEF AreFrames
  <2> QED
    BY <1>2, <2>1, <2>3, RestIsEmpty
<1>5. NameCount(j) \in Nat /\ 1 \in 1..(NameCount(j) + 1) /\ NameCount(j) = Cardinality(DOMAIN names)
  BY <1>3, NameCountType
<1>6. ts = Substituted(f, names)
  <2>1. ts = << >> \o Part(j, 1, f, Len(f))
    BY <1>1, <1>4 DEF IsWritten
  <2>2. Part(j, 1, f, Len(f)) \in Seq(TokensOf(j)) /\ Part(j, 1, f, Len(f)) = Inserted(f, Level(j, 1))
    <3>1. \A k \in 0..Len(f) : Part(j, 1, f, k) \in Seq(TokensOf(j))
      BY <1>2, <1>5, PartFacts
    <3>2. Len(f) \in 0..Len(f)
      BY <1>2
    <3>3. Part(j, 1, f, Len(f)) = Inserted(f, Level(j, 1))
      BY <1>2, <1>5, PartFacts
    <3> QED
      BY <3>1, <3>2, <3>3
  <2>3. << >> \o Part(j, 1, f, Len(f)) = Part(j, 1, f, Len(f))
    BY <2>2
  <2>4. NameCount(j) + 1 - 1 = NameCount(j)
    BY <1>5
  <2>5. Level(j, 1) = NameTexts(names)[Cardinality(DOMAIN names)]
    BY <1>3, <1>5, <2>4 DEF Level
  <2> QED
    BY <2>1, <2>2, <2>3, <2>5 DEF Substituted
<1>7. \A m \in used : \A i \in NamesIn(names[m]) : i \in used /\ rank[m] < rank[i]
  <2>1. \A m, i : ~StillAhead(src, pos, 1, m, i)
    BY DEF StillAhead
  <2> QED
    BY <1>1, <1>3, <2>1 DEF IsOrdered, UsedLater
<1>8. used \subseteq DOMAIN names /\ rank \in [used -> Nat]
  BY <1>1, <1>3 DEF IsOrdered
<1>9. NamesIn(f) \subseteq used
  BY <1>1, <1>2, <1>4 DEF IsOrdered, NamesIn
<1>10. NamesWithin(names, NamesIn(f)) \subseteq used
  <2>1. \A m \in used \cap DOMAIN names : NamesIn(names[m]) \subseteq used
    BY <1>7
  <2> QED
    BY <1>5, <1>9, <2>1, NamesWithinClosed
<1>11. ASSUME NEW m \in used PROVE m \notin NamesWithin(names, NamesIn(names[m]))
  <2>1. PICK C : C = { i \in used : rank[m] < rank[i] }
    OBVIOUS
  <2>2. NamesIn(names[m]) \subseteq C
    BY <1>7, <2>1
  <2>3. ASSUME NEW i \in C \cap DOMAIN names PROVE NamesIn(names[i]) \subseteq C
    <3>1. ASSUME NEW k \in NamesIn(names[i]) PROVE k \in C
      <4>1. i \in used /\ k \in used /\ rank[m] < rank[i] /\ rank[i] < rank[k]
        BY <1>7, <2>1
      <4>2. rank[m] \in Nat /\ rank[i] \in Nat /\ rank[k] \in Nat
        BY <1>8, <4>1
      <4> QED
        BY <2>1, <4>1, <4>2
    <3> QED
      BY <3>1
  <2>4. NamesWithin(names, NamesIn(names[m])) \subseteq C
    BY <1>5, <2>2, <2>3, NamesWithinClosed
  <2>5. m \notin C
    BY <1>8, <2>1
  <2> QED
    BY <2>4, <2>5
<1>12. ~Circular(f, names)
  BY <1>10, <1>11 DEF Circular
<1> QED
  BY <1>2, <1>3, <1>6, <1>8, <1>10, <1>12 DEF AllReplaced

NamesInv ==
  /\ ExpansionInv
  /\ at = "expand" => IsExpansion(job, expanding, tokens, used_names)
  /\ at \notin {"expand", "done"} => AllReplaced(job, tokens)

LEMMA TopIsPassed ==
  ASSUME NEW ex, IsSequence(ex), ex # << >>
  PROVE  [ex EXCEPT ![1] = Tail(@)] = TokenPassed(ex)
<1>1. Head(ex) = ex[1]
  BY TailFacts
<1> QED
  BY <1>1 DEF TokenPassed

LEMMA NamesStart == Init => NamesInv
<1> SUFFICES ASSUME Init PROVE NamesInv
  OBVIOUS
<1>1. ExpansionInv
  BY ExpansionStarts
<1>2. IsExpansion(job, << job.formula >>, << >>, {})
  BY ExpansionBegins DEF Init
<1> QED
  BY <1>1, <1>2 DEF Init, NamesInv

LEMMA TokenKeepsNames ==
  ASSUME NamesInv, ExpandToken
  PROVE  IsExpansion(job, expanding', tokens', used_names)
<1>1. /\ at = "expand" /\ job \in Jobs /\ IsSequence(expanding) /\ expanding # << >>
      /\ Head(expanding) # << >> /\ NextSource.op # "name"
      /\ tokens' = Append(tokens, NextSource) /\ expanding' = TokenPassed(expanding)
  BY TopIsPassed DEF NamesInv, ExpansionInv, ExpandToken, RestOfSource
<1>2. PICK ex, fx, t, ts, us, n :
        /\ ex = expanding /\ fx = expanding' /\ t = NextSource /\ ts = tokens /\ us = tokens' /\ n = Len(ex)
  OBVIOUS
<1>3. PICK src, pos, before, rank, top :
    /\ AreFrames(job, ex, src, pos)
    /\ IsWritten(job, n, ts, src, pos, before)
    /\ IsOrdered(job, n, used_names, src, pos, rank, top)
  BY <1>1, <1>2 DEF NamesInv, IsExpansion
<1>4. t = Head(Head(ex)) /\ t.op # "name" /\ Head(ex) # << >> /\ us = Append(ts, t) /\ fx = TokenPassed(ex)
  BY <1>1, <1>2 DEF NextSource
<1>5. HaveAdvanced(job, ex, fx, src, pos, n)
  BY <1>1, <1>2, <1>3, <1>4, FramesAdvance
<1>6. Len(fx) = n
  BY <1>5 DEF HaveAdvanced
<1>7. PICK q : q = Advanced(pos, n)
  OBVIOUS
<1>8. AreFrames(job, fx, src, q)
  BY <1>1, <1>2, <1>3, <1>4, <1>7, FramesAfterToken
<1>9. IsWritten(job, n, us, src, q, before)
  BY <1>1, <1>2, <1>3, <1>4, <1>7, WrittenAfterToken
<1>10. IsOrdered(job, n, used_names, src, q, rank, top)
  BY <1>1, <1>2, <1>3, <1>4, <1>7, OrderedAfterToken
<1> QED
  BY <1>2, <1>6, <1>8, <1>9, <1>10 DEF IsExpansion

LEMMA EntryKeepsNames ==
  ASSUME NamesInv, EnterName, NEW m, m = NextSource.name, NameIsFree(m), m \in DOMAIN job.names
  PROVE  IsExpansion(job, expanding', tokens', used_names')
<1>1. /\ at = "expand" /\ job \in Jobs /\ IsSequence(expanding) /\ expanding # << >>
      /\ Head(expanding) # << >> /\ NextSource.op = "name"
      /\ used_names' = used_names \cup {m}
      /\ expanding' = << job.names[m] >> \o TokenPassed(expanding)
      /\ tokens' = Append(tokens, [op |-> "("]) /\ job' = job
  BY TopIsPassed, Zenon DEF NamesInv, ExpansionInv, EnterName, RestOfSource
<1>2. PICK ex, fx, t, ts, us, n, used :
        /\ ex = expanding /\ fx = expanding' /\ t = NextSource /\ ts = tokens /\ us = tokens' /\ n = Len(ex)
        /\ used = used_names
  OBVIOUS
<1>3. PICK src, pos, before, rank, top :
    /\ AreFrames(job, ex, src, pos)
    /\ IsWritten(job, n, ts, src, pos, before)
    /\ IsOrdered(job, n, used, src, pos, rank, top)
  BY <1>1, <1>2 DEF NamesInv, IsExpansion
<1>4. /\ t = Head(Head(ex)) /\ t.op = "name" /\ m = t.name /\ Head(ex) # << >>
      /\ us = Append(ts, [op |-> "("]) /\ fx = << job.names[m] >> \o TokenPassed(ex)
  BY <1>1, <1>2 DEF NextSource
<1>5. n = 1 \/ m \notin used
  BY <1>2 DEF NameIsFree, AtTopLevel
<1>6. NameCount(job) \in Nat
  BY <1>1, NameCountType
<1>7. Len(fx) <= NameCount(job) + 1 /\ Len(fx) \in Nat
  <2>1. ExpansionInv'
    BY EnterNameKeepsExpansion DEF NamesInv
  <2>2. /\ IsSequence(fx) /\ used_names' \subseteq DOMAIN job.names
        /\ Len(fx) - 1 <= Cardinality(used_names')
    BY <1>1, <1>2, <2>1 DEF ExpansionInv
  <2>3. Cardinality(used_names') \in Nat /\ Cardinality(used_names') <= NameCount(job)
    BY <1>1, <2>2, JobsAssumption, FS_Subset, FS_CardinalityType DEF NameCount
  <2>4. Len(fx) \in Nat
    BY <2>2, LenFacts
  <2> QED
    BY <1>6, <2>2, <2>3, <2>4
<1>8. PICK src2, pos2, before2 :
        /\ src2 = Grown(src, n, job.names[m]) /\ pos2 = Grown(Advanced(pos, n), n, 0)
        /\ before2 = Grown(before, n, us)
  OBVIOUS
<1>9. AreFrames(job, fx, src2, pos2)
  BY <1>1, <1>2, <1>3, <1>4, <1>7, <1>8, FramesAfterEntry
<1>10. Len(fx) = n + 1
  <2>1. HaveAdvanced(job, ex, TokenPassed(ex), src, pos, n)
    BY <1>1, <1>2, <1>3, <1>4, FramesAdvance
  <2>2. IsSequence(TokenPassed(ex)) /\ Len(TokenPassed(ex)) = n
    BY <2>1 DEF HaveAdvanced
  <2> QED
    BY <1>4, <2>2, ConsFacts
<1>11. IsWritten(job, n + 1, us, src2, pos2, before2)
  <2>1. n + 1 <= NameCount(job) + 1
    BY <1>7, <1>10
  <2> QED
    BY <1>1, <1>2, <1>3, <1>4, <1>8, <2>1, WrittenAfterEntry
<1>12. PICK rank2, top2 : IsOrdered(job, n + 1, used \cup {m}, src2, pos2, rank2, top2)
  <2>1. job \in Jobs
    BY <1>1
  <2>2. IsEntry(job, ex, src, pos, n, used, rank, top, m, src2, pos2)
    BY <1>2, <1>3, <1>4, <1>5, <1>8, Zenon DEF IsEntry
  <2>3. \E rank2, top2 : IsOrdered(job, n + 1, used \cup {m}, src2, pos2, rank2, top2)
    BY <2>1, <2>2, OrderedAfterEntry
  <2> QED
    BY <2>3
<1>13. used_names' = used \cup {m}
  BY <1>1, <1>2
<1> QED
  BY <1>2, <1>9, <1>10, <1>11, <1>12, <1>13 DEF IsExpansion

LEMMA ExitKeepsNames ==
  ASSUME NamesInv, LeaveName
  PROVE  IsExpansion(job, expanding', tokens', used_names)
<1>1. /\ at = "expand" /\ job \in Jobs
      /\ Head(expanding) = << >> /\ Len(expanding) # 1
      /\ expanding' = Tail(expanding)
      /\ tokens' = Append(tokens, [op |-> ")"])
  BY DEF NamesInv, ExpansionInv, LeaveName, AtTopLevel
<1>2. PICK ex, fx, ts, us, n :
        /\ ex = expanding /\ fx = expanding' /\ ts = tokens /\ us = tokens' /\ n = Len(ex) - 1
  OBVIOUS
<1>3. PICK src, pos, before, rank, top :
    /\ AreFrames(job, ex, src, pos)
    /\ IsWritten(job, Len(ex), ts, src, pos, before)
    /\ IsOrdered(job, Len(ex), used_names, src, pos, rank, top)
  BY <1>1, <1>2 DEF NamesInv, IsExpansion
<1>4. /\ AreFrames(job, fx, CutOff(src, n), CutOff(pos, n)) /\ n \in Nat \ {0} /\ Len(fx) = n
  BY <1>1, <1>2, <1>3, FramesAfterExit
<1>5. Len(ex) = n + 1
  <2>1. Len(ex) \in Nat
    BY <1>3, LenFacts DEF AreFrames
  <2> QED
    BY <1>2, <2>1
<1>6. IsWritten(job, n, us, CutOff(src, n), CutOff(pos, n), CutOff(before, n))
  BY <1>1, <1>2, <1>3, <1>4, <1>5, WrittenAfterExit
<1>7. IsOrdered(job, n, used_names, CutOff(src, n), CutOff(pos, n), rank, top)
  BY <1>1, <1>2, <1>3, <1>4, <1>5, OrderedAfterExit
<1> QED
  BY <1>2, <1>4, <1>6, <1>7 DEF IsExpansion

LEMMA NamesStep == NamesInv /\ [Next]_vars => NamesInv'
<1> SUFFICES ASSUME NamesInv, [Next]_vars PROVE NamesInv'
  OBVIOUS
<1>1. ExpansionInv'
  BY ExpansionStep DEF NamesInv
<1>2. CASE at' = "done"
  BY <1>1, <1>2 DEF NamesInv
<1>3. ASSUME at \notin {"expand", "done"}, UNCHANGED << job, tokens >>, at' # "expand"
      PROVE  NamesInv'
  BY <1>1, <1>3 DEF NamesInv
<1>4. CASE UNCHANGED vars
  BY <1>1, <1>4 DEF NamesInv, vars
<1>5. CASE ExpandToken
  <2>1. at' = "expand" /\ UNCHANGED << job, used_names >>
    BY <1>5 DEF ExpandToken
  <2>2. IsExpansion(job, expanding', tokens', used_names)
    BY <1>5, TokenKeepsNames
  <2> QED
    BY <1>1, <2>1, <2>2 DEF NamesInv
<1>6. CASE EnterName
  <2>1. CASE at' # "done"
    <3>1. PICK m : m = NextSource.name
      OBVIOUS
    <3>2. NameIsFree(m) /\ m \in DOMAIN job.names /\ at' = "expand" /\ job' = job
      BY <1>6, <2>1, <3>1 DEF EnterName, Throw, Finish
    <3>3. IsExpansion(job, expanding', tokens', used_names')
      BY <1>6, <3>1, <3>2, EntryKeepsNames
    <3> QED
      BY <1>1, <3>2, <3>3 DEF NamesInv
  <2> QED
    BY <1>2, <2>1
<1>7. CASE LeaveName
  <2>1. at' = "expand" /\ UNCHANGED << job, used_names >>
    BY <1>7 DEF LeaveName
  <2>2. IsExpansion(job, expanding', tokens', used_names)
    BY <1>7, ExitKeepsNames
  <2> QED
    BY <1>1, <2>1, <2>2 DEF NamesInv
<1>8. CASE StartInterpretation
  <2>1. CASE at' # "done"
    <3>1. /\ at = "expand" /\ Len(expanding) = 1 /\ Head(expanding) = << >>
          /\ at' = "expression" /\ UNCHANGED << job, tokens >>
      BY <1>8, <2>1 DEF StartInterpretation, AtTopLevel, Throw, Finish
    <3>2. AllReplaced(job, tokens)
      BY <3>1, ExpansionEnds DEF NamesInv, ExpansionInv
    <3> QED
      BY <1>1, <3>1, <3>2 DEF NamesInv
  <2> QED
    BY <1>2, <2>1
<1>9. CASE EnterExpression \/ EnterTerm \/ Sign
  BY <1>2, <1>3, <1>9 DEF EnterExpression, EnterTerm, Sign, Descend, Throw, Finish
<1>10. CASE Operand \/ OpenParen \/ OpenFunction \/ OpenArray \/ NoOperand
  BY <1>2, <1>3, <1>10 DEF Operand, OpenParen, OpenFunction, OpenArray, NoOperand, Descend, Throw, Finish
<1>11. CASE NextArgument \/ CallFunction \/ ArrayStep
  BY <1>2, <1>3, <1>11 DEF NextArgument, CallFunction, ArrayStep, Descend, Throw, Finish
<1>12. CASE Negate \/ AfterFactor \/ AfterRightTerm
  BY <1>2, <1>3, <1>12 DEF Negate, AfterFactor, AfterRightTerm, Returning, Descend, Throw, Finish
<1>13. CASE AfterTerm \/ AfterNextTerm \/ CloseParen \/ AfterArgument \/ EndInterpretation
  BY <1>2, <1>3, <1>13 DEF AfterTerm, AfterNextTerm, CloseParen, AfterArgument, EndInterpretation,
                           Returning, Descend, Throw, Finish
<1> QED
  BY <1>4, <1>5, <1>6, <1>7, <1>8, <1>9, <1>10, <1>11, <1>12, <1>13 DEF Next

\* init_tokens() puts the text of every name where the name was, each in
\* parentheses, names in the text of names included; it is not over before
\* all of them are known, and never over when they lead back to themselves.
THEOREM NamesAreReplaced == Spec => []NamesReplaced
<1>1. NamesInv => NamesReplaced
  BY DEF NamesInv, AllReplaced, NamesReplaced
<1> QED
  BY <1>1, NamesStart, NamesStep, PTL DEF Spec

=============================================================================

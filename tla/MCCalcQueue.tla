----------------------------- MODULE MCCalcQueue -----------------------------
(***************************************************************************)
(* Jobs for the model checking of CalcQueue.  Results are integers: errors *)
(* are negative, a cell's value is one more than the sum of what it        *)
(* fetched (capped), so the default 0 of a result that is not finished is  *)
(* never a right answer.  Cell 2 divides by what it fetches.               *)
(***************************************************************************)
EXTENDS CalcQueue, Integers, FiniteSetsExt, SequencesExt

NoResult == -9
RefError == -1
DivError == -2
MaxValue == 9

MCResults == {RefError, DivError} \cup 0..MaxValue
MCErrors  == {RefError, DivError}

Capped(n) == IF n > MaxValue THEN MaxValue ELSE n

Total(vec) == FoldSeq(+, 0, vec)

MCFormula(c, vec) ==
  IF c = 2 /\ vec = <<>> THEN DivError ELSE Capped(Max({1, 1 + Total(vec)}))

Ascending(S) == SetToSortSeq(S, <)

-----------------------------------------------------------------------------
(* Whatever an earlier calculation left: a value that is not the one to     *)
(* come, or the verdict that the cell is on a circle of references.         *)
Left(c)    == [value |-> 7, safe |-> TRUE]
Flagged(c) == [value |-> RefError, safe |-> FALSE]

Job(order, refs, reads, threads, throws, Before(_)) ==
  [order |-> order, refs |-> refs, reads |-> reads, threads |-> threads,
   throws |-> throws,
   result |-> [c \in Cells |-> Before(c).value],
   safe |-> [c \in Cells |-> Before(c).safe]]

\* The formulas fetch exactly what their reference tokens denote.
PlainJob(order, refs, threads, Before(_)) ==
  Job(order, refs, [c \in Cells |-> Ascending(refs[c])], threads, {}, Before)

Graphs == [Cells -> SUBSET Cells]

\* Each formula has at most one reference.
SparseGraphs == {refs \in Graphs : \A c \in Cells : Cardinality(refs[c]) <= 1}

(* Every graph in sorted order; and cell 3 left out of the calculation.     *)
SortedJobs ==
  {j \in {PlainJob(<<1, 2, 3>>, refs, t, Flagged) : refs \in Graphs, t \in 0..2}
         \cup {PlainJob(<<1, 2>>, refs, t, Left) : refs \in Graphs, t \in 0..2}
         \cup {PlainJob(<<1, 2>>, refs, t, Flagged) : refs \in Graphs, t \in 0..2} :
     /\ InTopologicalOrder(j)
     /\ 3 \in Dirty(j) \/ j.refs[3] = {}}

(* Any order, also one with a cell in it twice.  Cells 1 and 3 have the     *)
(* same formula, so one of them may as well come first.                    *)
AnyOrders ==
  {order \in [1..3 -> Cells] :
     \A i \in 1..3 : order[i] = 3 => \E k \in 1..i : order[k] = 1}

AnyOrderJobs ==
  {PlainJob(order, refs, t, Left) :
     order \in AnyOrders, refs \in SparseGraphs, t \in 1..2}

(* Some cell's interpretation ends in an exception; cell 1 may fetch itself *)
(* through a named expression, which its own reference tokens do not show.  *)
ThrowingJobs ==
  {Job(<<1, 2, 3>>, refs,
       [c \in Cells |-> IF c = 1 THEN own ELSE Ascending(refs[c])], t, throws, Left) :
     refs \in {r \in SparseGraphs : r[1] = {} /\ 2 \notin r[2] /\ r[3] \subseteq {1, 2}},
     own \in {<<>>, <<1>>}, t \in 0..2, throws \in SUBSET Cells}

(* Sequences that query_and_sort_dirty_cells returns, and what a call must  *)
(* get right whatever its entries are and do.                              *)
AllJobs == SortedJobs \cup AnyOrderJobs \cup ThrowingJobs

(* Cell 1 fetches cell 2 in a way its own reference tokens do not show:     *)
(* through a named expression, or through a range with its bounds the wrong *)
(* way round.  Cell 2 refers to cell 1, so it comes second.                 *)
HiddenCycleJobs ==
  {Job(<<1, 2>>, [c \in {1, 2} |-> IF c = 2 THEN {1} ELSE {}],
       [c \in {1, 2} |-> IF c = 1 THEN <<2>> ELSE <<1>>], t, {}, Left) : t \in 1..2}

(* Three cells with no references to one another.                          *)
FreeJobs == {PlainJob(<<1, 2, 3>>, [c \in Cells |-> {}], t, Left) : t \in 0..2}
=============================================================================

---------------------------- MODULE FormulaCells ----------------------------
(***************************************************************************)
(* What one calculation works on, shared by the abstract specification of  *)
(* a calculation (Calculation) and by the threaded one (CalcQueue).        *)
(*                                                                         *)
(* A cell stands for one calc_status: an ordinary formula cell, or a whole *)
(* group of cells that share their status and their result.  What a        *)
(* formula computes is left open: Formula(c, vec) is the result of cell c  *)
(* when the formula cells it fetches hold the results vec, in the order in *)
(* which the interpretation fetches them.                                  *)
(***************************************************************************)
EXTENDS Naturals, Sequences

CONSTANTS
  Cells,            \* formula cells
  Results,          \* every formula_result a cell can hold
  Errors,           \* those of type error
  Empty,            \* a default-constructed formula_result (value 0.0)
  RefNotAvailable,  \* the error ref_result_not_available
  Nil,              \* no result object: calc_status::result == nullptr
  Formula(_, _),    \* Formula(c, vec): what interpreting c computes
  MaxReads,         \* bound on the fetches of one formula
  Jobs              \* the calculations that may be asked for

(***************************************************************************)
(* A job is one call of calculate_sorted_cells:                            *)
(*   order    the sorted sequence of cells to calculate                    *)
(*   reads    the formula cells each formula fetches, in fetch order       *)
(*   refs     the formula cells its own reference tokens denote, which are *)
(*            what check_circular looks at                                 *)
(*   threads  the thread_count argument                                    *)
(*   throws   the cells whose interpretation ends in an exception that     *)
(*            formula_interpreter::interpret does not catch                *)
(*   result, safe   what earlier calculations left in each calc_status     *)
(***************************************************************************)
ReadVectors == UNION {[1..n -> Results] : n \in 0..MaxReads}

ReadSeqs == UNION {[1..n -> Cells] : n \in 0..MaxReads}

ASSUME ResultAssumption ==
  /\ Errors \subseteq Results
  /\ RefNotAvailable \in Errors
  /\ Empty \in Results \ Errors
  /\ Nil \notin Results
  /\ MaxReads \in Nat

ASSUME FormulaAssumption ==
  \A c \in Cells : \A vec \in ReadVectors : Formula(c, vec) \in Results

IsJob(j) ==
  /\ j.order \in Seq(Cells)
  /\ j.reads \in [Cells -> ReadSeqs]
  /\ j.refs \in [Cells -> SUBSET Cells]
  /\ j.threads \in Nat
  /\ j.throws \in SUBSET Cells
  /\ j.result \in [Cells -> Results \cup {Nil}]
  /\ j.safe \in [Cells -> BOOLEAN]

ASSUME JobAssumption == \A j \in Jobs : IsJob(j)

Dirty(j) == {j.order[i] : i \in DOMAIN j.order}

(***************************************************************************)
(* The result the k-th fetch of c returns when the cells hold v.  A        *)
(* reference to the cell itself never reaches the cell: single_ref and     *)
(* range_ref turn it into an error.                                        *)
(***************************************************************************)
Fetched(j, c, k, v) ==
  IF j.reads[c][k] = c THEN RefNotAvailable ELSE v[j.reads[c][k]]

\* A fetch that returns an error ends the interpretation with that error.
StopsAt(j, c, k, v) ==
  /\ k \in DOMAIN j.reads[c]
  /\ Fetched(j, c, k, v) \in Errors
  /\ \A l \in 1..(k - 1) : Fetched(j, c, l, v) \in Results \ Errors

\* Every fetch returns a value.
ReadsValues(j, c, v) ==
  \A k \in DOMAIN j.reads[c] : Fetched(j, c, k, v) \in Results \ Errors

Vector(j, c, v) == [k \in DOMAIN j.reads[c] |-> Fetched(j, c, k, v)]

(***************************************************************************)
(* r is what interpreting c must produce when the cells hold v.            *)
(***************************************************************************)
IsOutcome(j, c, v, r) ==
  \/ ReadsValues(j, c, v) /\ r = Formula(c, Vector(j, c, v))
  \/ \E k \in DOMAIN j.reads[c] : StopsAt(j, c, k, v) /\ r = Fetched(j, c, k, v)

(***************************************************************************)
(* The cells on a cycle of reference tokens, or downstream of one: the     *)
(* largest set of cells each of which refers into the set.  A cell that is *)
(* not being calculated keeps the verdict of an earlier calculation.       *)
(***************************************************************************)
Circular(j) ==
  UNION {X \in SUBSET Cells :
           \A c \in X : IF c \in Dirty(j) THEN j.refs[c] \cap X # {}
                                          ELSE ~j.safe[c]}

\* Following reference tokens from c leads to d.
Reaches(j, c, d) ==
  \A X \in SUBSET Cells :
    (c \in X /\ \A x \in X : j.refs[x] \subseteq X) => d \in X

(***************************************************************************)
(* What query_and_sort_dirty_cells promises: every cell once, each after   *)
(* the cells it refers to, cycles apart; and with a cell every cell that   *)
(* refers to it.                                                           *)
(***************************************************************************)
InTopologicalOrder(j) ==
  /\ \A i, k \in DOMAIN j.order : j.order[i] = j.order[k] => i = k
  /\ \A i, k \in DOMAIN j.order :
       (j.order[k] \in j.refs[j.order[i]] /\ ~(k < i))
         => Reaches(j, j.order[k], j.order[i])

DirtyClosed(j) ==
  \A c \in Cells : j.refs[c] \cap Dirty(j) # {} => c \in Dirty(j)

(***************************************************************************)
(* A call the caller has a promise for: such a sequence, and no formula    *)
(* that ends in an exception, which would leave a cell without its result. *)
(***************************************************************************)
Promised(j) == j.throws = {} /\ InTopologicalOrder(j) /\ DirtyClosed(j)
=============================================================================

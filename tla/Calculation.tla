----------------------------- MODULE Calculation -----------------------------
(***************************************************************************)
(* What calculate_sorted_cells promises, with no threads, locks or queue:  *)
(* starting from no results at all, the cells of the job settle one by     *)
(* one.  A cell on or behind a circle of references settles on the         *)
(* circular-reference error; any other settles on what its formula gives   *)
(* from the settled results it fetches.  A settled cell never changes.     *)
(* Every cell of the job settles in the end.                               *)
(*                                                                         *)
(* The promise is to a caller who passes on what                           *)
(* query_and_sort_dirty_cells has returned, and for formulas that do not   *)
(* end in an exception.  Any other call may do anything to the values.     *)
(***************************************************************************)
EXTENDS FormulaCells

VARIABLES
  job,     \* the call being served
  value    \* value[c]: the settled result of c, or Nil

vars == <<job, value>>

Init ==
  /\ IsJob(job)
  /\ value = [c \in Cells |-> IF c \in Dirty(job) THEN Nil ELSE job.result[c]]

Settle(c) ==
  /\ c \in Dirty(job)
  /\ value[c] = Nil
  /\ \E r \in Results :
       /\ value' = [value EXCEPT ![c] = r]
       /\ IF c \in Circular(job) THEN r = RefNotAvailable
                                 ELSE IsOutcome(job, c, value, r)
  /\ UNCHANGED job

SettleOne == \E c \in Cells : Settle(c)

Unpromised == ~Promised(job) /\ UNCHANGED job

Next == SettleOne \/ Unpromised

Spec == Init /\ [][Next]_vars /\ WF_vars(Promised(job) /\ SettleOne)
=============================================================================

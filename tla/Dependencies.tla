---------------------------- MODULE Dependencies ----------------------------
(***************************************************************************)
(* What listens to what.  The tracker's R-trees, one per sheet, map an     *)
(* extent to the set of the ranges that listen to it; here they are one    *)
(* set of links <<src, dest>>, dest a range on a single sheet.             *)
(***************************************************************************)
EXTENDS CellRange, Sequences, FiniteSets

OnSheet(r, s) ==
  [first |-> [r.first EXCEPT !.sheet = s], last |-> [r.last EXCEPT !.sheet = s]]

\* Only the first sheet of the modified range is searched.
Overlaps(dest, modified) ==
  /\ dest.first.sheet = modified.first.sheet
  /\ dest.first.row <= modified.last.row /\ modified.first.row <= dest.last.row
  /\ dest.first.column <= modified.last.column
  /\ modified.first.column <= dest.last.column

\* The ranges directly affected by a modification of r.
Listeners(links, r) == {link[1] : link \in {l \in links : Overlaps(l[2], r)}}

Affected(links, ranges) == UNION {Listeners(links, r) : r \in ranges}

\* add() and remove() take a source on one sheet and an explicit destination.
Trackable(src, dest) ==
  /\ ValidRange(src) /\ src.first.sheet = src.last.sheet
  /\ ValidRange(dest) /\ ~AllColumns(dest) /\ ~AllRows(dest)

\* Whatever the destination covers on each of its sheets.
Links(src, dest) ==
  {<<src, OnSheet(dest, s)>> : s \in dest.first.sheet..dest.last.sheet}

-----------------------------------------------------------------------------
(***************************************************************************)
(* What a query must return.  The roots are dirty at once; whatever        *)
(* listens to a dirty range is dirty; nothing else is.                     *)
(***************************************************************************)
Roots(links, volatile, request) ==
  Affected(links, request.modified) \cup volatile \cup request.formulas

ClosedUnder(links, S) == Affected(links, S) \subseteq S

IsDirtySet(links, roots, S) ==
  /\ roots \subseteq S
  /\ ClosedUnder(links, S)
  /\ \A X \in SUBSET S : roots \subseteq X /\ ClosedUnder(links, X) => X = S

\* r leads to s: s listens to r, directly or through others.
LeadsTo(links, S, r, s) ==
  \A X \in SUBSET S :
    r \in X /\ (Affected(links, X) \cap S) \subseteq X => s \in X

(***************************************************************************)
(* Every dirty range once, each after the dirty ranges it listens to,      *)
(* except where the two lie on a cycle.                                    *)
(***************************************************************************)
IsDirtyOrder(links, S, order) ==
  /\ {order[i] : i \in DOMAIN order} = S
  /\ \A i, k \in DOMAIN order : order[i] = order[k] => i = k
  /\ \A i, k \in DOMAIN order :
       (order[i] \in Listeners(links, order[k]) /\ ~(k < i))
         => LeadsTo(links, S, order[i], order[k])
=============================================================================

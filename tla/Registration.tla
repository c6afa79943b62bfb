---------------------------- MODULE Registration ----------------------------
(***************************************************************************)
(* register_formula_cell and unregister_formula_cell (formula.cpp): which  *)
(* links a formula cell at position pos puts into the tracker, and which   *)
(* of them it takes out again.                                             *)
(*                                                                         *)
(* tokens is the sequence get_ref_tokens returns, each token as the range  *)
(* it denotes at pos, a single reference as a range of one cell.  group is *)
(* the size of the cell's group.                                           *)
(***************************************************************************)
EXTENDS Dependencies

CONSTANT SheetSize      \* [rows, columns] of every sheet of the model

ASSUME SheetSizeAssumption ==
  /\ SheetSize.rows \in 1..RowUnset
  /\ SheetSize.columns \in 1..ColumnUnset

\* A cell that is not part of a group.
Ungrouped == [rows |-> 1, columns |-> 1]

\* The whole group listens, represented by its top-left cell.
Source(pos, group) ==
  [first |-> pos,
   last  |-> [pos EXCEPT !.row = @ + group.rows - 1,
                         !.column = @ + group.columns - 1]]

\* What a reference covers: all rows and all columns become those of the
\* sheet, and the bounds may have been written in any order.
Denoted(token) == Reorder(Clip(token, SheetSize))

RegisteredLinks(pos, group, tokens) ==
  UNION {Links(Source(pos, group), Denoted(tokens[i])) : i \in DOMAIN tokens}

\* The token is handed to the tracker as it is written, and the position as
\* it was given; the tracker throws for what it does not accept.
Removable(pos, token) == Trackable(At(pos), token)

UnregisterThrows(pos, tokens) ==
  \E i \in DOMAIN tokens : ~Removable(pos, tokens[i])

\* The references before the first one that makes the tracker throw.
UnregisteredLinks(pos, tokens) ==
  UNION {Links(At(pos), tokens[i]) :
           i \in {k \in DOMAIN tokens : \A l \in 1..k : Removable(pos, tokens[l])}}
=============================================================================

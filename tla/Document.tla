------------------------------ MODULE Document ------------------------------
(***************************************************************************)
(* ixion::document (document.cpp): edits of cells, with the registration   *)
(* of formula cells in the dirty cell tracker, and calculate(0), which     *)
(* queries the tracker and calculates the cells it returns in order on the *)
(* calling thread (formula_calc.cpp).  With threads the same entries go to *)
(* the queue that CalcQueue models.                                        *)
(***************************************************************************)
EXTENDS DirtyTracker, Registration

CONSTANTS
  Positions,     \* the cells in use
  Values,        \* what a cell that is not a formula cell can hold
  Blank,         \* the value of an empty cell
  Formulas,      \* formulas; below, their parts
  NoFormula,
  FormulasAt(_), \* the formulas a client may put at a position
  Tokens(_),     \* the reference tokens of a formula, see Registration
  Volatile(_),   \* it calls a volatile function
  Throws(_),     \* interpreting it ends in an exception interpret() lets pass
  Compute(_, _, _), \* its value, given what it reads and the time
  Times,         \* what NOW() may return
  Nil,           \* no result object
  Default,       \* a default-constructed formula_result
  Err,           \* a formula_result of type error
  Unparsable,    \* whether clients also pass text that does not parse
  MaxPending     \* bound on the edits between two calculations

ASSUME DocumentAssumption ==
  /\ Positions \subseteq Address
  /\ Blank \in Values
  /\ {Nil, Err} \cap (Values \cup {Default}) = {} /\ Nil # Err
  /\ NoFormula \notin Formulas
  /\ \A p \in Positions : FormulasAt(p) \subseteq Formulas
  /\ \A f \in Formulas : Tokens(f) \in Seq(CellRanges)

ASSUME ComputeAssumption ==
  \A f \in Formulas, t \in Times, S \in SUBSET Positions :
    \A inputs \in [S -> Values \cup {Default}] : Compute(f, inputs, t) \in Values

VARIABLES
  formula,           \* the formula cell in the model at a position
  value,             \* what else is stored there
  result, safe,      \* calc_status::result and ::circular_safe
  modified,          \* document::impl::modified_cells
  modifiedFormulas,  \* document::impl::modified_formula_cells
  now,               \* the time at which the last calculation ran
  stage,             \* where calculate() is
  next,              \* the entry it is at
  outcome,           \* how the last call ended
  edits              \* history: have all edits "succeeded", or has one "failed"

docVars == <<formula, value, result, safe, modified, modifiedFormulas, now,
             stage, next, outcome, edits>>
allVars == <<vars, docVars>>

Stages == {"idle", "query", "check", "interpret", "undefined"}
Outcomes == {"returned", "edit threw", "parse threw", "calculate threw"}

DocInit ==
  /\ Init
  /\ formula = [p \in Positions |-> NoFormula]
  /\ value = [p \in Positions |-> Blank]
  /\ result = [p \in Positions |-> Nil]
  /\ safe = [p \in Positions |-> FALSE]
  /\ modified = {} /\ modifiedFormulas = {}
  /\ now \in Times
  /\ stage = "idle" /\ next = 1 /\ outcome = "returned"
  /\ edits = "succeeded"

FormulaCells == {p \in Positions : formula[p] # NoFormula}

TokensAt(p) == IF p \in FormulaCells THEN Tokens(formula[p]) ELSE <<>>

-----------------------------------------------------------------------------
(* Edits.                                                                  *)

CanEdit ==
  /\ stage = "idle"
  /\ Cardinality(modified) + Cardinality(modifiedFormulas) < MaxPending

\* As if a formula cell stayed registered when it is replaced.
UnregisterNothing(p) == links' = links /\ volatile' = volatile

\* unregister_formula_cell; not a formula cell: nothing to do.
Unregister(p) ==
  /\ links' = links \ UnregisteredLinks(p, TokensAt(p))
  /\ volatile' = IF p \in FormulaCells THEN volatile \ {At(p)} ELSE volatile

\* set_numeric_cell, set_string_cell, set_boolean_cell and empty_cell.
SetValue(p, v) ==
  /\ CanEdit /\ ~UnregisterThrows(p, TokensAt(p))
  /\ Unregister(p)
  /\ value' = [value EXCEPT ![p] = v]
  /\ formula' = [formula EXCEPT ![p] = NoFormula]
  /\ result' = [result EXCEPT ![p] = Nil]
  /\ safe' = [safe EXCEPT ![p] = FALSE]
  /\ modified' = modified \cup {p}
  /\ outcome' = "returned"
  /\ UNCHANGED <<queryVars, modifiedFormulas, now, stage, next, edits>>

\* As if the new formula were not registered.
RegisterNothing(p, f) == UNCHANGED <<links, volatile>>

\* unregister_formula_cell for the old cell, register_formula_cell for the new.
Reregister(p, f) ==
  /\ links' = (links \ UnregisteredLinks(p, TokensAt(p)))
                \cup RegisteredLinks(p, Ungrouped, Tokens(f))
  /\ volatile' = (volatile \ {At(p)}) \cup IF Volatile(f) THEN {At(p)} ELSE {}

\* set_formula_cell: a new formula_cell object, without a result.
SetFormula(p, f) ==
  /\ CanEdit /\ ~UnregisterThrows(p, TokensAt(p))
  /\ Reregister(p, f)
  /\ formula' = [formula EXCEPT ![p] = f]
  /\ value' = [value EXCEPT ![p] = Blank]
  /\ result' = [result EXCEPT ![p] = Nil]
  /\ safe' = [safe EXCEPT ![p] = FALSE]
  /\ modifiedFormulas' = modifiedFormulas \cup {p}
  /\ outcome' = "returned"
  /\ UNCHANGED <<queryVars, modified, now, stage, next, edits>>

\* set_formula_cell with text that parse_formula_string throws for: the old
\* formula cell has been unregistered by then and stays in the model.
SetUnparsable(p) ==
  /\ Unparsable /\ CanEdit /\ ~UnregisterThrows(p, TokensAt(p))
  /\ Unregister(p)
  /\ outcome' = "parse threw"
  /\ edits' = "failed"
  /\ UNCHANGED <<queryVars, formula, value, result, safe, modified,
                 modifiedFormulas, now, stage, next>>

\* Any edit of a cell whose references the tracker does not take back: the
\* exception leaves everything but the tracker as it was.
EditThrows(p) ==
  /\ CanEdit /\ UnregisterThrows(p, TokensAt(p))
  /\ Unregister(p)
  /\ outcome' = "edit threw"
  /\ edits' = "failed"
  /\ UNCHANGED <<queryVars, formula, value, result, safe, modified,
                 modifiedFormulas, now, stage, next>>

-----------------------------------------------------------------------------
(* What a formula reads, and what its interpretation makes of it.          *)

CellsIn(r) == {q \in Positions : Contains(r, q)}

\* range_ref and the functions put the bounds in order.
ReadBy ==
  [f \in Formulas |-> UNION {CellsIn(Denoted(Tokens(f)[i])) : i \in DOMAIN Tokens(f)}]

\* check_circular takes them as they are written.
LookedAtBy ==
  [f \in Formulas |-> UNION {CellsIn(Clip(Tokens(f)[i], SheetSize)) : i \in DOMAIN Tokens(f)}]

Reads(p)    == IF p \in FormulaCells THEN ReadBy[formula[p]] ELSE {}
LookedAt(p) == IF p \in FormulaCells THEN LookedAtBy[formula[p]] ELSE {}

\* With the main thread alone a result that is not there is an error.
Fetch(q) ==
  IF q \notin FormulaCells THEN value[q]
  ELSE IF result[q] = Nil THEN Err ELSE result[q]

Outcome(p) ==
  LET inputs == [q \in Reads(p) |-> Fetch(q)]
  IN  IF p \in Reads(p) \/ \E q \in Reads(p) : inputs[q] = Err
        THEN Err ELSE Compute(formula[p], inputs, now)

-----------------------------------------------------------------------------
(* calculate().                                                            *)

Entry(i) == sorted[i].first

\* As if the formula cells edited since the last calculation were forgotten.
CalculateModified(t) ==
  /\ stage = "idle" /\ stage' = "query"
  /\ now' = t
  /\ Ask([modified |-> {At(p) : p \in modified}, formulas |-> {}, sorted |-> TRUE])
  /\ UNCHANGED <<formula, value, result, safe, modified, modifiedFormulas, next,
                 outcome, edits>>

Calculate(t) ==
  /\ stage = "idle" /\ stage' = "query"
  /\ now' = t
  /\ Ask([modified |-> {At(p) : p \in modified},
          formulas |-> {At(p) : p \in modifiedFormulas}, sorted |-> TRUE])
  /\ UNCHANGED <<formula, value, result, safe, modified, modifiedFormulas, next,
                 outcome, edits>>

Query == stage = "query" /\ QueryStep /\ UNCHANGED docVars

AllFormulas == \A i \in DOMAIN sorted : Entry(i) \in FormulaCells

Entries == {Entry(i) : i \in DOMAIN sorted}

\* As if there were a formula cell at every entry.
ResetAnything ==
  /\ stage = "query" /\ pc = "answered"
  /\ result' = [p \in Positions |-> IF p \in Entries THEN Nil ELSE result[p]]
  /\ safe' = [p \in Positions |-> p \notin Entries /\ safe[p]]
  /\ stage' = "check" /\ next' = 1
  /\ UNCHANGED <<vars, formula, value, modified, modifiedFormulas, now, outcome, edits>>

\* The entries are made and reset() is called for each of them.
ResetEntries ==
  /\ stage = "query" /\ pc = "answered" /\ AllFormulas
  /\ result' = [p \in Positions |-> IF p \in Entries THEN Nil ELSE result[p]]
  /\ safe' = [p \in Positions |-> p \notin Entries /\ safe[p]]
  /\ stage' = "check" /\ next' = 1
  /\ UNCHANGED <<vars, formula, value, modified, modifiedFormulas, now, outcome, edits>>

\* An entry whose cell is not a formula cell has a null pointer, and reset()
\* is called through it.
ResetNull ==
  /\ stage = "query" /\ pc = "answered" /\ ~AllFormulas
  /\ stage' = "undefined"
  /\ UNCHANGED <<vars, formula, value, result, safe, modified, modifiedFormulas,
                 now, next, outcome, edits>>

CheckCircular ==
  /\ stage = "check" /\ next <= Len(sorted)
  /\ LET p == Entry(next)
         unsafe == \E q \in LookedAt(p) \cap FormulaCells : ~safe[q]
     IN  /\ safe' = [safe EXCEPT ![p] = ~unsafe]
         /\ result' = [result EXCEPT ![p] = IF unsafe THEN Err ELSE @]
  /\ next' = next + 1
  /\ UNCHANGED <<vars, formula, value, modified, modifiedFormulas, now, stage,
                 outcome, edits>>

EndCheck ==
  /\ stage = "check" /\ next > Len(sorted)
  /\ stage' = "interpret" /\ next' = 1
  /\ UNCHANGED <<vars, formula, value, result, safe, modified, modifiedFormulas,
                 now, outcome, edits>>

\* A result that is there already is the error check_circular has stored.
Interpret ==
  /\ stage = "interpret" /\ next <= Len(sorted)
  /\ LET p == Entry(next) IN
       /\ result[p] = Nil => ~Throws(formula[p])
       /\ result' = [result EXCEPT ![p] = IF @ = Nil THEN Outcome(p) ELSE @]
  /\ next' = next + 1
  /\ UNCHANGED <<vars, formula, value, safe, modified, modifiedFormulas, now,
                 stage, outcome, edits>>

\* The exception ends calculate(): the result is the one made before the
\* interpretation started, and the sets of modified cells are kept.
InterpretThrows ==
  /\ stage = "interpret" /\ next <= Len(sorted)
  /\ LET p == Entry(next) IN
       /\ result[p] = Nil /\ Throws(formula[p])
       /\ result' = [result EXCEPT ![p] = Default]
  /\ Return
  /\ stage' = "idle" /\ next' = 1 /\ outcome' = "calculate threw"
  /\ UNCHANGED <<formula, value, safe, modified, modifiedFormulas, now, edits>>

EndCalculate ==
  /\ stage = "interpret" /\ next > Len(sorted)
  /\ Return
  /\ modified' = {} /\ modifiedFormulas' = {}
  /\ stage' = "idle" /\ next' = 1 /\ outcome' = "returned"
  /\ UNCHANGED <<formula, value, result, safe, now, edits>>

CalculateStep ==
  \/ Query \/ ResetEntries \/ ResetNull
  \/ CheckCircular \/ EndCheck \/ Interpret \/ InterpretThrows \/ EndCalculate

DocNext ==
  \/ \E p \in Positions :
       \/ \E v \in Values : SetValue(p, v)
       \/ \E f \in FormulasAt(p) : SetFormula(p, f)
       \/ SetUnparsable(p)
       \/ EditThrows(p)
  \/ \E t \in Times : Calculate(t)
  \/ CalculateStep

DocSpec == DocInit /\ [][DocNext]_allVars

\* calculate(0) runs on the caller's thread until it returns or throws.
DocFairSpec == DocSpec /\ WF_allVars(CalculateStep)

-----------------------------------------------------------------------------
(* Properties.                                                             *)

\* Every variable has its type, and while calculate() goes through the entries
\* each of them is a formula cell and the one it is at exists.
DocTypeOK ==
  /\ formula \in [Positions -> Formulas \cup {NoFormula}]
  /\ value \in [Positions -> Values]
  /\ result \in [Positions -> Values \cup {Nil, Default, Err}]
  /\ safe \in [Positions -> BOOLEAN]
  /\ modified \subseteq Positions /\ modifiedFormulas \subseteq Positions
  /\ now \in Times
  /\ stage \in Stages /\ outcome \in Outcomes /\ edits \in {"succeeded", "failed"}
  /\ next \in 1..(Len(sorted) + 1)
  /\ stage = "idle" <=> pc = "idle"
  /\ stage \in {"check", "interpret"} =>
       pc = "answered" /\ Entries \subseteq FormulaCells

\* The links of the model's formula cells, and its volatile cells.
ModelLinks ==
  UNION {RegisteredLinks(p, Ungrouped, TokensAt(p)) : p \in FormulaCells}
ModelVolatile == {At(p) : p \in {q \in FormulaCells : Volatile(formula[q])}}

\* After any sequence of edits that succeed the tracker holds the references
\* of the formula cells that are in the model, all of them and no others
\* (register_formula_cell, unregister_formula_cell).
TrackerMatchesModel ==
  edits = "succeeded" => links = ModelLinks /\ volatile = ModelVolatile

\* Whatever edits failed on the way, the tracker never holds a reference or a
\* volatile cell that is not in the model.
TrackerWithinModel == links \subseteq ModelLinks /\ volatile \subseteq ModelVolatile

\* The formula cells that read, directly or not, from a cycle of references,
\* or are on one.
OnCircle ==
  UNION {X \in SUBSET FormulaCells : \A p \in X : Reads(p) \cap X # {}}

\* The result of p is what its formula is worth, given the results that are
\* stored in the cells it reads.
UpToDate(p) == result[p] = IF p \in OnCircle THEN Err ELSE Outcome(p)

\* What reads, directly or not, a cell edited since the last calculation; as
\* long as there is one, a volatile cell may be out of date as well.
Outdated ==
  LET pending == modified \cup modifiedFormulas
      seeds == IF pending = {} THEN {}
               ELSE pending \cup {p \in FormulaCells : Volatile(formula[p])}
  IN  {p \in Positions :
         \A X \in SUBSET Positions :
           (seeds \subseteq X /\ \A q \in Positions : Reads(q) \cap X # {} => q \in X)
             => p \in X}

\* calculate() leaves no formula cell with a result other than the one a
\* calculation of the whole document would give it, and between calculations
\* only what depends on an edited cell is out of date; as long as every edit
\* has succeeded.
ResultsFresh ==
  edits = "succeeded" /\ stage = "idle" => \A p \in FormulaCells \ Outdated : UpToDate(p)

\* The entries are in the order the calculation relies on: a cell comes after
\* the entries it reads, unless these read from it.  (query_and_sort_dirty_
\* cells looks at the links of the tracker, the calculation at the tokens; a
\* failed edit takes links out.)
ReadsFrom(p, q) ==
  \A X \in SUBSET Positions :
    (p \in X /\ \A x \in X : Reads(x) \subseteq X) => q \in X

EntriesInOrder ==
  edits = "succeeded" /\ stage = "check" =>
    \A i, k \in DOMAIN sorted :
      (Entry(k) \in Reads(Entry(i)) /\ ~(k < i)) => ReadsFrom(Entry(k), Entry(i))

\* The tracker never hands a cell that is not a formula cell to calculate();
\* only the document's own set of modified formula cells can.
TrackerReturnsFormulas ==
  stage = "query" /\ pc = "answered" =>
    \A i \in DOMAIN sorted :
      Entry(i) \in FormulaCells \/ Entry(i) \in modifiedFormulas

\* calculate() returns or throws.
CalculateEnds == stage = "query" ~> stage \in {"idle", "undefined"}

\* document.hpp, "Calculate all the dirty formula cells in the document": the
\* cells that calculate() goes through are formula cells.
CalculateIsDefined == stage # "undefined"

\* doc/overview/document.rst, "there is no need to un-register and register
\* cell A11 before and after the edit": a cell can be edited whatever formula
\* it held.
EditsSucceed == outcome # "edit threw"
=============================================================================

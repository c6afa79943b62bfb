--------------------------- MODULE DocumentProofs ---------------------------
(***************************************************************************)
(* Theorems about Document, for any cells, formulas and values, and any    *)
(* number of edits between two calculations.                               *)
(***************************************************************************)
EXTENDS Document, DirtyTrackerProofs

-----------------------------------------------------------------------------
(***************************************************************************)
(* Registration and unregistration.                                        *)
(***************************************************************************)

LEMMA AtIsRange ==
  ASSUME NEW a \in Address
  PROVE  At(a) \in CellRanges /\ At(a).first = a
BY DEF At, CellRanges

LEMMA SourceOfCell ==
  ASSUME NEW a \in Address
  PROVE  Source(a, Ungrouped) = At(a)
<1>1. /\ a = [sheet |-> a.sheet, row |-> a.row, column |-> a.column]
      /\ a.row \in Int /\ a.column \in Int
  BY DEF Address
<1>2. a.row + 1 - 1 = a.row /\ a.column + 1 - 1 = a.column
  BY <1>1
<1>3. [a EXCEPT !.row = a.row, !.column = a.column] = a
  BY <1>1
<1> QED
  BY <1>2, <1>3 DEF Source, Ungrouped, At

\* What the tracker takes back was not clipped.
LEMMA RemovableIsClipped ==
  ASSUME NEW a, NEW r \in CellRanges, Removable(a, r)
  PROVE  Clip(r, SheetSize) = r
<1>1. /\ r = [first |-> r.first, last |-> r.last]
      /\ r.first \in Address /\ r.last \in Address
  BY DEF CellRanges
<1>2. \A b \in Address : b = [sheet |-> b.sheet, row |-> b.row, column |-> b.column]
  BY DEF Address
<1>3. ~AllRows(r) /\ ~AllColumns(r)
  BY DEF Removable, Trackable
<1>4. [r.first EXCEPT !.row = r.first.row, !.column = r.first.column] = r.first
  BY <1>1, <1>2
<1>5. [r.last EXCEPT !.row = r.last.row, !.column = r.last.column] = r.last
  BY <1>1, <1>2
<1> QED
  BY <1>1, <1>3, <1>4, <1>5 DEF Clip

\* What the tracker takes back is what was registered: nothing was clipped and
\* nothing was put in order.
LEMMA RemovableIsDenoted ==
  ASSUME NEW a, NEW r \in CellRanges, Removable(a, r)
  PROVE  Denoted(r) = r
<1>1. /\ r = [first |-> r.first, last |-> r.last]
      /\ r.first \in Address /\ r.last \in Address
  BY DEF CellRanges
<1>2. \A b \in Address : /\ b = [sheet |-> b.sheet, row |-> b.row, column |-> b.column]
                         /\ b.sheet \in Int /\ b.row \in Int /\ b.column \in Int
  BY DEF Address
<1>3. /\ r.first.sheet <= r.last.sheet
      /\ r.first.row <= r.last.row
      /\ r.first.column <= r.last.column
  BY DEF Removable, Trackable, ValidRange
<1>4. Reorder(r) = r
  BY <1>1, <1>2, <1>3 DEF Reorder
<1> QED
  BY <1>4, RemovableIsClipped DEF Denoted

LEMMA UnregisterUndoesRegister ==
  ASSUME NEW a \in Address, NEW tokens \in Seq(CellRanges),
         ~UnregisterThrows(a, tokens)
  PROVE  UnregisteredLinks(a, tokens) = RegisteredLinks(a, Ungrouped, tokens)
<1>1. \A i \in DOMAIN tokens : Removable(a, tokens[i])
  BY DEF UnregisterThrows
<1>2. \A i \in DOMAIN tokens : Denoted(tokens[i]) = tokens[i]
  BY <1>1, RemovableIsDenoted
<1>3. {k \in DOMAIN tokens : \A l \in 1..k : Removable(a, tokens[l])} = DOMAIN tokens
  <2>1. DOMAIN tokens = 1..Len(tokens) /\ Len(tokens) \in Nat
    OBVIOUS
  <2>2. \A k \in DOMAIN tokens : 1..k \subseteq DOMAIN tokens
    BY <2>1
  <2> QED
    BY <1>1, <2>2
<1> QED
  BY <1>2, <1>3, SourceOfCell DEF UnregisteredLinks, RegisteredLinks

\* Every link names the cell it was registered for.
LEMMA LinkNamesItsCell ==
  ASSUME NEW a \in Address, NEW tokens,
         NEW l \in RegisteredLinks(a, Ungrouped, tokens)
  PROVE  l[1] = At(a)
BY SourceOfCell DEF RegisteredLinks, Links

LEMMA RegisteredLinksTyped ==
  ASSUME NEW a \in Address, NEW tokens \in Seq(CellRanges)
  PROVE  RegisteredLinks(a, Ungrouped, tokens) \subseteq CellRanges \X CellRanges
<1> SUFFICES ASSUME NEW i \in DOMAIN tokens
             PROVE  Links(Source(a, Ungrouped), Denoted(tokens[i]))
                      \subseteq CellRanges \X CellRanges
  BY DEF RegisteredLinks
<1>1. tokens[i] \in CellRanges
  OBVIOUS
<1>2. Clip(tokens[i], SheetSize) \in CellRanges
  <2>1. tokens[i].first \in Address /\ tokens[i].last \in Address
    BY <1>1 DEF CellRanges
  <2>2. 0 \in Int /\ SheetSize.rows - 1 \in Int /\ SheetSize.columns - 1 \in Int
    BY SheetSizeAssumption
  <2>3. \A b \in Address : \A row, column \in Int :
          [b EXCEPT !.row = row, !.column = column] \in Address
    BY DEF Address
  <2>4. \A b \in Address : b.row \in Int /\ b.column \in Int
    BY DEF Address
  <2> HIDE DEF Address
  <2> QED
    BY <2>1, <2>2, <2>3, <2>4 DEF Clip, CellRanges
<1>3. Denoted(tokens[i]) \in CellRanges
  BY <1>2 DEF Denoted, Reorder, CellRanges, Address
<1> QED
  BY <1>3, SourceOfCell, AtIsRange, LinksTyped

-----------------------------------------------------------------------------
(***************************************************************************)
(* The document is a client of the tracker: whatever it does is an edit, a *)
(* query or nothing to the tracker, so the tracker's invariants hold.      *)
(***************************************************************************)

TrackerInv == TypeInv /\ QueryInv /\ RelsInv /\ SortInv

\* The part of the type invariant that concerns the edits.
EditInv ==
  /\ formula \in [Positions -> Formulas \cup {NoFormula}]
  /\ modified \subseteq Positions /\ modifiedFormulas \subseteq Positions
  /\ stage = "idle" <=> pc = "idle"
  /\ stage \in {"check", "interpret", "undefined"} => pc = "answered"
  /\ stage = "query" =>
       request.sorted /\ request.formulas = {At(p) : p \in modifiedFormulas}

ClientInv == TrackerInv /\ EditInv

LEMMA TokensTyped ==
  ASSUME EditInv, NEW p \in Positions
  PROVE  TokensAt(p) \in Seq(CellRanges)
BY DocumentAssumption DEF EditInv, TokensAt, FormulaCells

LEMMA TrackerStep == TrackerInv /\ [AnyNext]_vars => TrackerInv'
BY NextTypeInv, NextQueryInv, NextRelsInv, NextSortInv DEF TrackerInv

LEMMA InitClientInv == DocInit => ClientInv
<1> SUFFICES ASSUME DocInit PROVE ClientInv
  OBVIOUS
<1>1. TypeInv
  BY InitTypeInv DEF DocInit
<1>2. QueryInv /\ RelsInv /\ SortInv
  BY DEF DocInit, Init, QueryInv, RoundsInv, FoundInv, RelsInv, SortInv, PathInv, BlackInv
<1>3. EditInv
  BY DEF DocInit, Init, EditInv
<1> QED
  BY <1>1, <1>2, <1>3 DEF ClientInv, TrackerInv

LEMMA CalculateAsks ==
  ASSUME EditInv, NEW t, Calculate(t)
  PROVE  AskAny /\ EditInv'
<1> DEFINE q == [modified |-> {At(p) : p \in modified},
                 formulas |-> {At(p) : p \in modifiedFormulas}, sorted |-> TRUE]
<1>1. IsRequest(q)
  BY AtIsRange, DocumentAssumption DEF EditInv, IsRequest
<1>2. Ask(q)
  BY DEF Calculate
<1>3. AskAny
  BY <1>1, <1>2 DEF AskAny
<1>4. EditInv'
  BY <1>2 DEF Calculate, Ask, EditInv
<1> QED
  BY <1>3, <1>4

LEMMA ClientStep ==
  ASSUME ClientInv, [DocNext]_allVars
  PROVE  [AnyNext]_vars /\ EditInv'
<1> USE DEF ClientInv, EditInv
<1>t. links \subseteq CellRanges \X CellRanges /\ volatile \subseteq CellRanges
  BY DEF TrackerInv, TypeInv, TypeOK
<1>1. ASSUME NEW p \in Positions, NEW v \in Values, SetValue(p, v)
      PROVE  Edit /\ EditInv'
  <2>1. Edit
    BY <1>1, <1>t DEF SetValue, CanEdit, Unregister, Edit
  <2>2. EditInv'
    BY <1>1, <2>1 DEF SetValue, CanEdit, queryVars
  <2> QED
    BY <2>1, <2>2
<1>2. ASSUME NEW p \in Positions, NEW f \in FormulasAt(p), SetFormula(p, f)
      PROVE  Edit /\ EditInv'
  <2>1. p \in Address /\ f \in Formulas /\ Tokens(f) \in Seq(CellRanges)
    BY DocumentAssumption
  <2>2. /\ RegisteredLinks(p, Ungrouped, Tokens(f)) \subseteq CellRanges \X CellRanges
        /\ At(p) \in CellRanges
    BY <2>1, RegisteredLinksTyped, AtIsRange
  <2>3. /\ links' \subseteq CellRanges \X CellRanges
        /\ volatile' \subseteq CellRanges
    BY <1>2, <1>t, <2>2 DEF SetFormula, Reregister
  <2>4. Edit
    BY <1>2, <2>3 DEF SetFormula, CanEdit, Edit
  <2>5. EditInv'
    BY <1>2, <2>1, <2>4 DEF SetFormula, CanEdit, queryVars
  <2> QED
    BY <2>4, <2>5
<1>3. ASSUME NEW p \in Positions, SetUnparsable(p) \/ EditThrows(p)
      PROVE  Edit /\ EditInv'
  <2>1. Edit
    BY <1>3, <1>t DEF SetUnparsable, EditThrows, CanEdit, Unregister, Edit
  <2>2. EditInv'
    BY <1>3, <2>1 DEF SetUnparsable, EditThrows, CanEdit, queryVars
  <2> QED
    BY <2>1, <2>2
<1>4. ASSUME NEW t \in Times, Calculate(t)
      PROVE  AskAny /\ EditInv'
  BY <1>4, CalculateAsks
<1>5. CASE Query
  <2>1. QueryStep /\ UNCHANGED docVars /\ stage = "query"
    BY <1>5 DEF Query
  <2>2. pc' # "idle" /\ request' = request
    BY <2>1 DEF QueryStep, AffectModified, Round, EndRounds, VisitRoot,
                VisitDependent, FinishVisit, EndSort
  <2>3. pc # "idle"
    BY <2>1
  <2>4. EditInv'
    BY <2>1, <2>2, <2>3 DEF docVars
  <2> QED
    BY <2>1, <2>4 DEF AnyNext
<1>6. CASE ResetEntries \/ ResetNull \/ CheckCircular \/ EndCheck \/ Interpret
  <2>1. /\ UNCHANGED vars /\ UNCHANGED <<formula, modified, modifiedFormulas>>
        /\ stage # "idle" /\ stage' \in {"check", "interpret", "undefined"}
        /\ pc = "answered"
    BY <1>6 DEF ResetEntries, ResetNull, CheckCircular, EndCheck, Interpret
  <2>2. pc' = pc /\ request' = request
    BY <2>1 DEF vars, queryVars
  <2> QED
    BY <2>1, <2>2
<1>7. CASE InterpretThrows \/ EndCalculate
  <2>1. Return /\ stage' = "idle"
    BY <1>7 DEF InterpretThrows, EndCalculate
  <2>2. pc' = "idle"
    BY <2>1 DEF Return
  <2>3. EditInv'
    BY <1>7, <2>1, <2>2 DEF InterpretThrows, EndCalculate
  <2> QED
    BY <2>1, <2>3 DEF AnyNext
<1>8. CASE UNCHANGED allVars
  <2>1. UNCHANGED vars /\ UNCHANGED docVars /\ pc' = pc /\ request' = request
    BY <1>8 DEF allVars, vars, queryVars
  <2> QED
    BY <2>1 DEF docVars
<1> QED
  BY <1>1, <1>2, <1>3, <1>4, <1>5, <1>6, <1>7, <1>8 DEF DocNext, CalculateStep, AnyNext

LEMMA NextClientInv == ClientInv /\ [DocNext]_allVars => ClientInv'
BY ClientStep, TrackerStep DEF ClientInv

LEMMA ClientInvariant == DocSpec => []ClientInv
BY InitClientInv, NextClientInv, PTL DEF DocSpec

-----------------------------------------------------------------------------
(***************************************************************************)
(* Type correctness.                                                       *)
(***************************************************************************)

\* The part of the type invariant that concerns values and entries.
ValueInv ==
  /\ value \in [Positions -> Values]
  /\ result \in [Positions -> Values \cup {Nil, Default, Err}]
  /\ safe \in [Positions -> BOOLEAN]
  /\ now \in Times
  /\ stage \in Stages /\ outcome \in Outcomes /\ edits \in {"succeeded", "failed"}
  /\ next \in 1..(Len(sorted) + 1)
  /\ stage \in {"idle", "query", "undefined"} => next = 1
  /\ stage \in {"check", "interpret"} => Entries \subseteq FormulaCells

LEMMA SortedFacts ==
  ASSUME ClientInv
  PROVE  Len(sorted) \in Nat /\ DOMAIN sorted = 1..Len(sorted)
BY DEF ClientInv, TrackerInv, TypeInv, TypeOK

LEMMA FetchTyped ==
  ASSUME ValueInv, NEW q \in Positions
  PROVE  Fetch(q) \in Values \cup {Default, Err}
BY DEF ValueInv, Fetch

\* The cells a formula reads and the cells check_circular looks at.
LEMMA ReadCells ==
  ASSUME EditInv, NEW p \in Positions
  PROVE  /\ Reads(p) = UNION {CellsIn(Denoted(TokensAt(p)[i])) : i \in DOMAIN TokensAt(p)}
         /\ LookedAt(p) =
              UNION {CellsIn(Clip(TokensAt(p)[i], SheetSize)) : i \in DOMAIN TokensAt(p)}
         /\ Reads(p) \subseteq Positions /\ LookedAt(p) \subseteq Positions
<1>1. CASE p \in FormulaCells
  <2>1. formula[p] \in Formulas /\ TokensAt(p) = Tokens(formula[p])
    BY <1>1 DEF EditInv, FormulaCells, TokensAt
  <2> QED
    BY <1>1, <2>1 DEF Reads, LookedAt, ReadBy, LookedAtBy, CellsIn
<1>2. CASE p \notin FormulaCells
  BY <1>2 DEF Reads, LookedAt, TokensAt
<1> QED
  BY <1>1, <1>2

LEMMA OutcomeTyped ==
  ASSUME ClientInv, ValueInv, NEW p \in FormulaCells
  PROVE  Outcome(p) \in Values \cup {Err}
<1> DEFINE inputs == [q \in Reads(p) |-> Fetch(q)]
<1>1. Reads(p) \subseteq Positions
  BY ReadCells DEF ClientInv, FormulaCells
<1>2. formula[p] \in Formulas /\ now \in Times
  BY DEF ClientInv, EditInv, ValueInv, FormulaCells
<1>3. CASE p \in Reads(p) \/ \E q \in Reads(p) : inputs[q] = Err
  BY <1>3 DEF Outcome
<1>4. CASE ~(p \in Reads(p) \/ \E q \in Reads(p) : inputs[q] = Err)
  <2>1. inputs \in [Reads(p) -> Values \cup {Default}]
    BY <1>1, <1>4, FetchTyped
  <2>2. Compute(formula[p], inputs, now) \in Values
    BY <1>1, <1>2, <2>1, ComputeAssumption
  <2> QED
    BY <1>4, <2>2 DEF Outcome
<1> QED
  BY <1>3, <1>4

LEMMA EntryFacts ==
  ASSUME ClientInv, ValueInv, stage \in {"check", "interpret"}, next <= Len(sorted)
  PROVE  /\ Entry(next) \in FormulaCells
         /\ next + 1 \in 1..(Len(sorted) + 1)
<1>1. next \in DOMAIN sorted
  BY SortedFacts DEF ValueInv
<1> QED
  BY <1>1, SortedFacts DEF ValueInv, Entries

LEMMA NextValueInv ==
  ASSUME ClientInv, ValueInv, [DocNext]_allVars, Len(sorted') \in Nat
  PROVE  ValueInv'
<1>n. 1 \in 1..(Len(sorted') + 1)
  OBVIOUS
<1> USE DEF ValueInv, Stages, Outcomes
<1>f. FormulaCells \subseteq Positions
  BY DEF FormulaCells
<1>1. ASSUME NEW p \in Positions, NEW v \in Values, SetValue(p, v)
      PROVE  ValueInv'
  BY <1>1, <1>n DEF SetValue, CanEdit
<1>2. ASSUME NEW p \in Positions, NEW f \in FormulasAt(p), SetFormula(p, f)
      PROVE  ValueInv'
  BY <1>2, <1>n, DocumentAssumption DEF SetFormula, CanEdit
<1>3. ASSUME NEW p \in Positions, SetUnparsable(p) \/ EditThrows(p)
      PROVE  ValueInv'
  BY <1>3, <1>n DEF SetUnparsable, EditThrows, CanEdit
<1>4. ASSUME NEW t \in Times, Calculate(t)
      PROVE  ValueInv'
  BY <1>4, <1>n DEF Calculate
<1>5. CASE Query
  BY <1>5, <1>n DEF Query, docVars
<1>6. CASE ResetEntries
  <2>1. Entries \subseteq FormulaCells
    BY <1>6 DEF ResetEntries, AllFormulas, Entries
  <2>2. Entries' \subseteq FormulaCells'
    BY <1>6, <2>1 DEF ResetEntries, Entries, Entry, FormulaCells, vars, queryVars
  <2> QED
    BY <1>6, <1>n, <2>2 DEF ResetEntries
<1>7. CASE ResetNull
  BY <1>7, <1>n DEF ResetNull
<1>8. CASE CheckCircular \/ EndCheck \/ Interpret
  <2>1. /\ sorted' = sorted /\ formula' = formula
        /\ stage \in {"check", "interpret"} /\ stage' \in {"check", "interpret"}
    BY <1>8 DEF CheckCircular, EndCheck, Interpret, vars, queryVars
  <2>2. Entries' = Entries /\ FormulaCells' = FormulaCells
    BY <2>1 DEF Entries, Entry, FormulaCells
  <2>3. CASE CheckCircular
    BY <1>f, <2>1, <2>2, <2>3, EntryFacts DEF CheckCircular
  <2>4. CASE EndCheck
    BY <1>n, <2>1, <2>2, <2>4 DEF EndCheck
  <2>5. CASE Interpret
    <3>1. /\ next' = next + 1 /\ next' \in 1..(Len(sorted') + 1)
          /\ Entry(next) \in Positions
          /\ Outcome(Entry(next)) \in Values \cup {Err}
      BY <1>f, <2>1, <2>5, EntryFacts, OutcomeTyped DEF Interpret
    <3>2. result' \in [Positions -> Values \cup {Nil, Default, Err}]
      BY <2>5, <3>1 DEF Interpret
    <3> QED
      BY <2>1, <2>2, <2>5, <3>1, <3>2 DEF Interpret
  <2> QED
    BY <1>8, <2>3, <2>4, <2>5
<1>9. CASE InterpretThrows
  BY <1>9, <1>n DEF InterpretThrows
<1>10. CASE EndCalculate
  BY <1>10, <1>n DEF EndCalculate
<1>11. CASE UNCHANGED allVars
  BY <1>11 DEF allVars, docVars, vars, queryVars, Entries, Entry, FormulaCells
<1> QED
  BY <1>1, <1>2, <1>3, <1>4, <1>5, <1>6, <1>7, <1>8, <1>9, <1>10, <1>11
  DEF DocNext, CalculateStep

\* The document keeps its types; what calculate() goes through are formula cells.
THEOREM DocTypeCorrect == DocSpec => []DocTypeOK
<1>1. DocInit => ValueInv
  BY DocumentAssumption DEF DocInit, Init, ValueInv, Stages, Outcomes
<1>2. ClientInv => Len(sorted) \in Nat
  BY SortedFacts
<1>3. ClientInv /\ ValueInv /\ [DocNext]_allVars /\ (Len(sorted) \in Nat)' => ValueInv'
  BY NextValueInv
<1>4. ClientInv /\ ValueInv => DocTypeOK
  BY DEF ClientInv, EditInv, ValueInv, DocTypeOK
<1> QED
  BY <1>1, <1>2, <1>3, <1>4, ClientInvariant, PTL DEF DocSpec

-----------------------------------------------------------------------------
(***************************************************************************)
(* The tracker and the formulas in the model.                              *)
(***************************************************************************)

LinksOf(p)    == RegisteredLinks(p, Ungrouped, TokensAt(p))
VolatileOf(p) == IF p \in FormulaCells /\ Volatile(formula[p]) THEN {At(p)} ELSE {}

LEMMA ModelByCell ==
  ASSUME EditInv
  PROVE  /\ ModelLinks = UNION {LinksOf(p) : p \in Positions}
         /\ ModelVolatile = UNION {VolatileOf(p) : p \in Positions}
<1>1. \A p \in Positions : p \notin FormulaCells => LinksOf(p) = {}
  BY DEF TokensAt, LinksOf, RegisteredLinks
<1>2. FormulaCells \subseteq Positions
  BY DEF FormulaCells
<1> QED
  BY <1>1, <1>2 DEF ModelLinks, ModelVolatile, LinksOf, VolatileOf

\* No two cells have a link or a volatile range in common.
LEMMA CellsAreApart ==
  ASSUME NEW p \in Positions, NEW q \in Positions, p # q
  PROVE  /\ LinksOf(p) \cap LinksOf(q) = {}
         /\ At(p) \notin VolatileOf(q)
<1>1. p \in Address /\ q \in Address
  BY DocumentAssumption
<1>2. At(p) # At(q)
  BY <1>1, AtIsRange
<1>3. \A l \in LinksOf(p) : l[1] = At(p)
  BY <1>1, LinkNamesItsCell DEF LinksOf
<1>4. \A l \in LinksOf(q) : l[1] = At(q)
  BY <1>1, LinkNamesItsCell DEF LinksOf
<1> QED
  BY <1>2, <1>3, <1>4 DEF VolatileOf

\* Taking a cell out of the tracker takes out what it has registered.
LEMMA UnregisterCell ==
  ASSUME EditInv, NEW p \in Positions, ~UnregisterThrows(p, TokensAt(p))
  PROVE  UnregisteredLinks(p, TokensAt(p)) = LinksOf(p)
<1>1. p \in Address /\ TokensAt(p) \in Seq(CellRanges)
  BY DocumentAssumption, TokensTyped
<1> QED
  BY <1>1, UnregisterUndoesRegister DEF LinksOf

\* An edit of p leaves what the other cells have in the model alone.
LEMMA OthersKeepTheirLinks ==
  ASSUME EditInv, NEW p \in Positions, NEW q \in Positions, p # q,
         NEW f, formula' = [formula EXCEPT ![p] = f]
  PROVE  LinksOf(q)' = LinksOf(q) /\ VolatileOf(q)' = VolatileOf(q)
<1>1. formula'[q] = formula[q]
  BY DEF EditInv
<1>2. (q \in FormulaCells)' <=> q \in FormulaCells
  BY <1>1 DEF FormulaCells
<1> QED
  BY <1>1, <1>2 DEF LinksOf, VolatileOf, TokensAt

\* An edit that succeeds replaces what p has in the tracker.
LEMMA ReplacedLinks ==
  ASSUME EditInv, NEW p \in Positions,
         (\E v \in Values : SetValue(p, v)) \/ (\E f \in FormulasAt(p) : SetFormula(p, f))
  PROVE  /\ links' = (links \ LinksOf(p)) \cup LinksOf(p)'
         /\ volatile' \in {(volatile \ VolatileOf(p)) \cup VolatileOf(p)',
                           (volatile \ {At(p)}) \cup VolatileOf(p)'}
         /\ \A q \in Positions \ {p} :
              LinksOf(q)' = LinksOf(q) /\ VolatileOf(q)' = VolatileOf(q)
<1>1. ASSUME NEW v \in Values, SetValue(p, v)
      PROVE  /\ links' = (links \ LinksOf(p)) \cup LinksOf(p)'
             /\ volatile' \in {(volatile \ VolatileOf(p)) \cup VolatileOf(p)',
                               (volatile \ {At(p)}) \cup VolatileOf(p)'}
             /\ formula' = [formula EXCEPT ![p] = NoFormula]
  <2>1. /\ formula' = [formula EXCEPT ![p] = NoFormula]
        /\ links' = links \ LinksOf(p)
        /\ volatile' = IF p \in FormulaCells THEN volatile \ {At(p)} ELSE volatile
    BY <1>1, UnregisterCell DEF SetValue, Unregister
  <2>2. (p \notin FormulaCells)'
    BY <2>1 DEF FormulaCells, EditInv
  <2>3. LinksOf(p)' = {} /\ VolatileOf(p)' = {}
    BY <2>2 DEF LinksOf, TokensAt, RegisteredLinks, VolatileOf
  <2> QED
    BY <2>1, <2>3 DEF VolatileOf
<1>2. ASSUME NEW f \in FormulasAt(p), SetFormula(p, f)
      PROVE  /\ links' = (links \ LinksOf(p)) \cup LinksOf(p)'
             /\ volatile' = (volatile \ {At(p)}) \cup VolatileOf(p)'
             /\ formula' = [formula EXCEPT ![p] = f]
  <2>1. f # NoFormula
    BY DocumentAssumption
  <2>2. /\ formula' = [formula EXCEPT ![p] = f]
        /\ links' = (links \ LinksOf(p)) \cup RegisteredLinks(p, Ungrouped, Tokens(f))
        /\ volatile' = (volatile \ {At(p)}) \cup IF Volatile(f) THEN {At(p)} ELSE {}
    BY <1>2, UnregisterCell DEF SetFormula, Reregister
  <2>3. formula'[p] = f /\ (p \in FormulaCells)'
    BY <2>1, <2>2 DEF FormulaCells, EditInv
  <2>4. LinksOf(p)' = RegisteredLinks(p, Ungrouped, Tokens(f))
    BY <2>3 DEF LinksOf, TokensAt
  <2>5. VolatileOf(p)' = IF Volatile(f) THEN {At(p)} ELSE {}
    BY <2>3 DEF VolatileOf
  <2> QED
    BY <2>2, <2>4, <2>5
<1>3. PICK f : formula' = [formula EXCEPT ![p] = f]
  BY <1>1, <1>2
<1>4. \A q \in Positions \ {p} :
        LinksOf(q)' = LinksOf(q) /\ VolatileOf(q)' = VolatileOf(q)
  BY <1>3, OthersKeepTheirLinks
<1> QED
  BY <1>1, <1>2, <1>4

\* A step that is not an edit, or one that fails, adds nothing to the tracker.
LEMMA OtherSteps ==
  ASSUME ClientInv, [DocNext]_allVars
  PROVE  \/ \E p \in Positions :
              \/ \E v \in Values : SetValue(p, v)
              \/ \E f \in FormulasAt(p) : SetFormula(p, f)
         \/ /\ formula' = formula
            /\ links' \subseteq links /\ volatile' \subseteq volatile
            /\ \/ links' = links /\ volatile' = volatile
               \/ \E p \in Positions : SetUnparsable(p) \/ EditThrows(p)
<1>1. ASSUME NEW p \in Positions, SetUnparsable(p) \/ EditThrows(p)
      PROVE  formula' = formula /\ links' \subseteq links /\ volatile' \subseteq volatile
  BY <1>1 DEF SetUnparsable, EditThrows, Unregister
<1>2. CASE \E t \in Times : Calculate(t)
  BY <1>2 DEF Calculate, Ask, trackerVars
<1>3. CASE Query
  BY <1>3 DEF Query, docVars, QueryStep, AffectModified, Round, EndRounds, VisitRoot,
              VisitDependent, FinishVisit, EndSort, trackerVars
<1>4. CASE CalculateStep /\ ~Query
  BY <1>4 DEF CalculateStep, ResetEntries, ResetNull, CheckCircular, EndCheck, Interpret,
              InterpretThrows, EndCalculate, Return, vars, trackerVars
<1>5. CASE UNCHANGED allVars
  BY <1>5 DEF allVars, docVars, vars, trackerVars
<1> QED
  BY <1>1, <1>2, <1>3, <1>4, <1>5 DEF DocNext

WithinInv ==
  /\ links \subseteq UNION {LinksOf(p) : p \in Positions}
  /\ volatile \subseteq UNION {VolatileOf(p) : p \in Positions}

LEMMA NextWithinInv == ClientInv /\ WithinInv /\ [DocNext]_allVars => WithinInv'
<1> SUFFICES ASSUME ClientInv, WithinInv, [DocNext]_allVars PROVE WithinInv'
  OBVIOUS
<1>1. ASSUME NEW p \in Positions,
             (\E v \in Values : SetValue(p, v)) \/ (\E f \in FormulasAt(p) : SetFormula(p, f))
      PROVE  WithinInv'
  <2>1. /\ links' = (links \ LinksOf(p)) \cup LinksOf(p)'
        /\ volatile' \in {(volatile \ VolatileOf(p)) \cup VolatileOf(p)',
                          (volatile \ {At(p)}) \cup VolatileOf(p)'}
        /\ \A q \in Positions \ {p} :
             LinksOf(q)' = LinksOf(q) /\ VolatileOf(q)' = VolatileOf(q)
    BY <1>1, ReplacedLinks DEF ClientInv
  <2>2. ASSUME NEW l \in links'
        PROVE  \E q \in Positions : l \in LinksOf(q)'
    BY <2>1, <2>2 DEF WithinInv
  <2>3. ASSUME NEW r \in volatile'
        PROVE  \E q \in Positions : r \in VolatileOf(q)'
    <3>1. VolatileOf(p) \subseteq {At(p)}
      BY DEF VolatileOf
    <3> QED
      BY <2>1, <2>3, <3>1 DEF WithinInv
  <2> QED
    BY <2>2, <2>3 DEF WithinInv
<1>2. ASSUME formula' = formula, links' \subseteq links, volatile' \subseteq volatile
      PROVE  WithinInv'
  <2>1. \A p : LinksOf(p)' = LinksOf(p) /\ VolatileOf(p)' = VolatileOf(p)
    BY <1>2 DEF LinksOf, VolatileOf, TokensAt, FormulaCells
  <2> QED
    BY <1>2, <2>1 DEF WithinInv
<1> QED
  BY <1>1, <1>2, OtherSteps

LEMMA WithinInvariant == DocSpec => [](ClientInv /\ WithinInv)
<1>1. DocInit => WithinInv
  BY DEF DocInit, Init, WithinInv
<1> QED
  BY <1>1, ClientInvariant, NextWithinInv, PTL DEF DocSpec

\* Whatever edits fail, what is tracked is in the model.
THEOREM TrackerWithin == DocSpec => []TrackerWithinModel
<1>1. ClientInv /\ WithinInv => TrackerWithinModel
  BY ModelByCell DEF ClientInv, WithinInv, TrackerWithinModel
<1> QED
  BY <1>1, WithinInvariant, PTL

-----------------------------------------------------------------------------
(***************************************************************************)
(* As long as no edit has failed, the tracker and the model agree.         *)
(***************************************************************************)
MirrorInv ==
  /\ UNION {LinksOf(p) : p \in Positions} \subseteq links
  /\ UNION {VolatileOf(p) : p \in Positions} \subseteq volatile

\* A failure is not forgotten, and nothing but an edit fails.
LEMMA FailureStays ==
  ASSUME [DocNext]_allVars, edits' = "succeeded"
  PROVE  edits = "succeeded" /\ \A p \in Positions : ~SetUnparsable(p) /\ ~EditThrows(p)
<1>1. \A p \in Positions : ~SetUnparsable(p) /\ ~EditThrows(p)
  BY DEF SetUnparsable, EditThrows
<1>2. CASE \E p \in Positions : \/ \E v \in Values : SetValue(p, v)
                                \/ \E f \in FormulasAt(p) : SetFormula(p, f)
  BY <1>1, <1>2 DEF SetValue, SetFormula
<1>3. CASE \E t \in Times : Calculate(t)
  BY <1>1, <1>3 DEF Calculate
<1>4. CASE CalculateStep
  BY <1>1, <1>4 DEF CalculateStep, Query, docVars, ResetEntries, ResetNull, CheckCircular,
              EndCheck, Interpret, InterpretThrows, EndCalculate
<1>5. CASE UNCHANGED allVars
  BY <1>1, <1>5 DEF allVars, docVars
<1> QED
  BY <1>1, <1>2, <1>3, <1>4, <1>5 DEF DocNext

LEMMA NextMirrorInv ==
  ASSUME ClientInv, edits = "succeeded" => MirrorInv, [DocNext]_allVars,
         edits' = "succeeded"
  PROVE  MirrorInv'
<1>0. MirrorInv /\ \A p \in Positions : ~SetUnparsable(p) /\ ~EditThrows(p)
  BY FailureStays
<1>1. ASSUME NEW p \in Positions,
             (\E v \in Values : SetValue(p, v)) \/ (\E f \in FormulasAt(p) : SetFormula(p, f))
      PROVE  MirrorInv'
  <2>1. /\ links' = (links \ LinksOf(p)) \cup LinksOf(p)'
        /\ volatile' \in {(volatile \ VolatileOf(p)) \cup VolatileOf(p)',
                          (volatile \ {At(p)}) \cup VolatileOf(p)'}
        /\ \A q \in Positions \ {p} :
             LinksOf(q)' = LinksOf(q) /\ VolatileOf(q)' = VolatileOf(q)
    BY <1>1, ReplacedLinks DEF ClientInv
  <2>2. ASSUME NEW q \in Positions
        PROVE  LinksOf(q)' \subseteq links' /\ VolatileOf(q)' \subseteq volatile'
    <3>1. CASE q = p
      BY <2>1, <3>1
    <3>2. CASE q # p
      <4>1. /\ LinksOf(q)' = LinksOf(q) /\ VolatileOf(q)' = VolatileOf(q)
            /\ LinksOf(q) \subseteq links /\ VolatileOf(q) \subseteq volatile
        BY <1>0, <2>1, <3>2 DEF MirrorInv
      <4>2. LinksOf(p) \cap LinksOf(q) = {} /\ At(p) \notin VolatileOf(q)
        BY <3>2, CellsAreApart
      <4>3. VolatileOf(p) \subseteq {At(p)}
        BY DEF VolatileOf
      <4> QED
        BY <2>1, <4>1, <4>2, <4>3
    <3> QED
      BY <3>1, <3>2
  <2> QED
    BY <2>2 DEF MirrorInv
<1>2. ASSUME formula' = formula, links' = links, volatile' = volatile
      PROVE  MirrorInv'
  <2>1. \A p : LinksOf(p)' = LinksOf(p) /\ VolatileOf(p)' = VolatileOf(p)
    BY <1>2 DEF LinksOf, VolatileOf, TokensAt, FormulaCells
  <2> QED
    BY <1>0, <1>2, <2>1 DEF MirrorInv
<1> QED
  BY <1>0, <1>1, <1>2, OtherSteps

\* After any sequence of edits that succeed (set_*_cell, set_formula_cell) the
\* tracker holds the references of the formulas in the model and no others.
THEOREM TrackerMatches == DocSpec => []TrackerMatchesModel
<1>1. DocInit => MirrorInv
  BY DEF DocInit, Init, MirrorInv, LinksOf, VolatileOf, TokensAt, FormulaCells,
         RegisteredLinks
<1>2. ClientInv /\ (edits = "succeeded" => MirrorInv) /\ [DocNext]_allVars
        => (edits = "succeeded" => MirrorInv)'
  BY NextMirrorInv
<1>3. ClientInv /\ WithinInv /\ (edits = "succeeded" => MirrorInv) => TrackerMatchesModel
  BY ModelByCell DEF ClientInv, WithinInv, MirrorInv, TrackerMatchesModel
<1> QED
  BY <1>1, <1>2, <1>3, WithinInvariant, PTL DEF DocSpec

-----------------------------------------------------------------------------
(***************************************************************************)
(* What the tracker gives to calculate().                                  *)
(***************************************************************************)

\* A dirty range is the source of a link, or volatile, or was in the request.
LEMMA DirtyRangeIsKnown ==
  ASSUME NEW L, NEW V, NEW q, NEW S, IsDirtySet(L, Roots(L, V, q), S), NEW r \in S
  PROVE  (\E l \in L : l[1] = r) \/ r \in V \/ r \in q.formulas
<1> DEFINE known == {x \in S : (\E l \in L : l[1] = x) \/ x \in V \/ x \in q.formulas}
<1>1. \A T : Affected(L, T) \subseteq {l[1] : l \in L}
  BY DEF Affected, Listeners
<1>2. Roots(L, V, q) \subseteq known
  BY <1>1 DEF IsDirtySet, Roots
<1>3. ClosedUnder(L, known)
  <2>1. Affected(L, known) \subseteq Affected(L, S)
    BY AffectedMonotonic
  <2> QED
    BY <1>1, <2>1 DEF IsDirtySet, ClosedUnder
<1>4. known = S
  BY <1>2, <1>3 DEF IsDirtySet
<1> QED
  BY <1>4

\* Only the document's own set can bring in a cell without a formula.
THEOREM TrackerReturns == DocSpec => []TrackerReturnsFormulas
<1>1. ClientInv /\ WithinInv => TrackerReturnsFormulas
  <2> SUFFICES ASSUME ClientInv, WithinInv, stage = "query", pc = "answered",
                      NEW i \in DOMAIN sorted
               PROVE  Entry(i) \in FormulaCells \/ Entry(i) \in modifiedFormulas
    BY DEF TrackerReturnsFormulas
  <2>1. sorted[i] \in final
    BY DEF ClientInv, TrackerInv, TypeInv, TypeOK
  <2>2. IsDirtySet(links, Roots(links, volatile, request), final)
    BY DEF ClientInv, TrackerInv, QueryInv, FoundInv
  <2>3. \/ \E l \in links : l[1] = sorted[i]
        \/ sorted[i] \in volatile
        \/ sorted[i] \in request.formulas
    BY <2>1, <2>2, DirtyRangeIsKnown
  <2>4. \A p \in Positions : At(p).first = p
    BY DEF At
  <2>5. CASE \E l \in links : l[1] = sorted[i]
    <3>1. PICK p \in Positions : \E l \in LinksOf(p) : l[1] = sorted[i]
      BY <2>5 DEF WithinInv
    <3>2. p \in FormulaCells
      BY <3>1 DEF LinksOf, RegisteredLinks, TokensAt
    <3>3. sorted[i] = At(p)
      BY <3>1, LinkNamesItsCell, DocumentAssumption DEF LinksOf
    <3> QED
      BY <2>4, <3>2, <3>3 DEF Entry
  <2>6. CASE sorted[i] \in volatile
    <3>1. PICK p \in Positions : sorted[i] \in VolatileOf(p)
      BY <2>6 DEF WithinInv
    <3> QED
      BY <2>4, <3>1 DEF VolatileOf, Entry
  <2>7. CASE sorted[i] \in request.formulas
    BY <2>4, <2>7 DEF ClientInv, EditInv, Entry
  <2> QED
    BY <2>3, <2>5, <2>6, <2>7
<1> QED
  BY <1>1, WithinInvariant, PTL
=============================================================================

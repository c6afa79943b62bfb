------------------------ MODULE DocumentResultProofs ------------------------
(***************************************************************************)
(* What calculate() leaves in the document: the entries are calculated in  *)
(* an order that serves every formula, and afterwards every result is the  *)
(* one a calculation of the whole document would give.  For any cells,     *)
(* formulas, values and edits, as long as the edits can be undone in the   *)
(* tracker (EditsUndoable).                                                *)
(***************************************************************************)
EXTENDS DocumentProofs

-----------------------------------------------------------------------------
(***************************************************************************)
(* Every formula in use can be unregistered as it was registered, and      *)
(* parses: then no edit fails.                                             *)
(***************************************************************************)
EditsUndoable ==
  /\ ~Unparsable
  /\ \A p \in Positions : \A f \in FormulasAt(p) : ~UnregisterThrows(p, Tokens(f))

FormulasInv == \A p \in Positions : formula[p] \in FormulasAt(p) \cup {NoFormula}

LEMMA NeverThrows ==
  ASSUME EditsUndoable, FormulasInv, NEW p \in Positions
  PROVE  ~UnregisterThrows(p, TokensAt(p))
<1>1. CASE formula[p] = NoFormula
  BY <1>1 DEF TokensAt, FormulaCells, UnregisterThrows
<1>2. CASE formula[p] \in FormulasAt(p)
  <2>1. formula[p] # NoFormula
    BY <1>2, DocumentAssumption
  <2> QED
    BY <1>2, <2>1 DEF EditsUndoable, TokensAt, FormulaCells
<1> QED
  BY <1>1, <1>2 DEF FormulasInv

LEMMA NextFormulasInv ==
  ASSUME ClientInv, FormulasInv, [DocNext]_allVars
  PROVE  FormulasInv'
<1>1. ASSUME NEW p \in Positions,
             (\E v \in Values : SetValue(p, v)) \/ (\E f \in FormulasAt(p) : SetFormula(p, f))
      PROVE  FormulasInv'
  BY <1>1 DEF SetValue, SetFormula, FormulasInv, ClientInv, EditInv
<1>2. ASSUME formula' = formula
      PROVE  FormulasInv'
  BY <1>2 DEF FormulasInv
<1> QED
  BY <1>1, <1>2, OtherSteps

LEMMA NothingFails ==
  ASSUME EditsUndoable, FormulasInv, edits = "succeeded", [DocNext]_allVars
  PROVE  edits' = "succeeded"
<1>1. \A p \in Positions : ~SetUnparsable(p) /\ ~EditThrows(p)
  BY NeverThrows DEF SetUnparsable, EditThrows, EditsUndoable
<1>2. CASE \E p \in Positions : \/ \E v \in Values : SetValue(p, v)
                                \/ \E f \in FormulasAt(p) : SetFormula(p, f)
  BY <1>2 DEF SetValue, SetFormula
<1>3. CASE \E t \in Times : Calculate(t)
  BY <1>3 DEF Calculate
<1>4. CASE CalculateStep
  BY <1>4 DEF CalculateStep, Query, docVars, ResetEntries, ResetNull, CheckCircular,
              EndCheck, Interpret, InterpretThrows, EndCalculate
<1>5. CASE UNCHANGED allVars
  BY <1>5 DEF allVars, docVars
<1> QED
  BY <1>1, <1>2, <1>3, <1>4, <1>5 DEF DocNext

-----------------------------------------------------------------------------
(***************************************************************************)
(* What the tracker was asked.                                             *)
(***************************************************************************)
TrackedInv ==
  ClientInv /\ ValueInv /\ WithinInv /\ FormulasInv /\ edits = "succeeded" /\ MirrorInv

\* While calculate() runs the query is about the cells edited before it; a
\* formula cell that was a modified cell before is a modified formula cell.
AskedInv ==
  /\ modified \cap FormulaCells \subseteq modifiedFormulas
  /\ stage # "idle" =>
       request = [modified |-> {At(p) : p \in modified},
                  formulas |-> {At(p) : p \in modifiedFormulas}, sorted |-> TRUE]

\* Every step keeps AskedInv.
LEMMA AskedStep == ClientInv /\ AskedInv /\ [DocNext]_allVars => AskedInv'
<1> SUFFICES ASSUME ClientInv, AskedInv, [DocNext]_allVars PROVE AskedInv'
  OBVIOUS
<1> USE DEF ClientInv, EditInv
<1>1. ASSUME NEW p \in Positions, NEW v \in Values, SetValue(p, v) PROVE AskedInv'
  <2>1. /\ stage' = "idle" /\ modified' = modified \cup {p}
        /\ modifiedFormulas' = modifiedFormulas
        /\ formula' = [formula EXCEPT ![p] = NoFormula]
    BY <1>1 DEF SetValue, CanEdit
  <2> QED
    BY <2>1 DEF AskedInv, FormulaCells
<1>2. ASSUME NEW p \in Positions, NEW f \in FormulasAt(p), SetFormula(p, f) PROVE AskedInv'
  <2>1. /\ stage' = "idle" /\ modified' = modified
        /\ modifiedFormulas' = modifiedFormulas \cup {p}
        /\ formula' = [formula EXCEPT ![p] = f]
    BY <1>2 DEF SetFormula, CanEdit
  <2> QED
    BY <2>1 DEF AskedInv, FormulaCells
<1>3. ASSUME NEW p \in Positions, SetUnparsable(p) \/ EditThrows(p) PROVE AskedInv'
  BY <1>3 DEF SetUnparsable, EditThrows, CanEdit, AskedInv, FormulaCells
<1>4. ASSUME NEW t \in Times, Calculate(t) PROVE AskedInv'
  BY <1>4 DEF Calculate, Ask, AskedInv, FormulaCells
<1>5. CASE Query
  <2>1. request' = request
    BY <1>5 DEF Query, QueryStep, AffectModified, Round, EndRounds, VisitRoot,
                VisitDependent, FinishVisit, EndSort
  <2> QED
    BY <1>5, <2>1 DEF Query, docVars, AskedInv, FormulaCells
<1>6. CASE ResetEntries \/ ResetNull \/ CheckCircular \/ EndCheck \/ Interpret
  BY <1>6 DEF ResetEntries, ResetNull, CheckCircular, EndCheck, Interpret, vars,
              queryVars, AskedInv, FormulaCells
<1>7. CASE InterpretThrows \/ EndCalculate
  BY <1>7 DEF InterpretThrows, EndCalculate, AskedInv, FormulaCells
<1>8. CASE UNCHANGED allVars
  BY <1>8 DEF allVars, docVars, vars, queryVars, AskedInv, FormulaCells
<1> QED
  BY <1>1, <1>2, <1>3, <1>4, <1>5, <1>6, <1>7, <1>8 DEF DocNext, CalculateStep

\* The tracker mirrors the model, and was asked about the edits, in every state.
LEMMA TrackedInvariant ==
  ASSUME EditsUndoable
  PROVE  DocSpec => [](TrackedInv /\ AskedInv)
<1>1. DocInit => ValueInv /\ FormulasInv /\ edits = "succeeded" /\ MirrorInv /\ AskedInv
  <2>1. DocInit => ValueInv
    BY DocumentAssumption DEF DocInit, Init, ValueInv, Stages, Outcomes
  <2>2. DocInit => MirrorInv
    BY DEF DocInit, Init, MirrorInv, LinksOf, VolatileOf, TokensAt, FormulaCells,
           RegisteredLinks
  <2>3. DocInit => FormulasInv /\ edits = "succeeded" /\ AskedInv
    BY DEF DocInit, FormulasInv, AskedInv
  <2> QED
    BY <2>1, <2>2, <2>3
<1>2. ClientInv => Len(sorted) \in Nat
  BY SortedFacts
<1>3. ClientInv /\ ValueInv /\ [DocNext]_allVars /\ (Len(sorted) \in Nat)' => ValueInv'
  BY NextValueInv
<1>4. ClientInv /\ FormulasInv /\ edits = "succeeded" /\ MirrorInv /\ [DocNext]_allVars
        => (FormulasInv /\ edits = "succeeded" /\ MirrorInv)'
  BY NextFormulasInv, NothingFails, NextMirrorInv
<1> QED
  BY <1>1, <1>2, <1>3, <1>4, AskedStep, WithinInvariant, PTL DEF DocSpec, TrackedInv

-----------------------------------------------------------------------------
(***************************************************************************)
(* The links of the tracker and the references of the formulas.            *)
(***************************************************************************)

\* A range contains a cell if one of its links is found for it.
LEMMA ContainsOverlaps ==
  ASSUME NEW r \in CellRanges, NEW q \in Address
  PROVE  Contains(r, q) <=>
           \E s \in r.first.sheet..r.last.sheet : Overlaps(OnSheet(r, s), At(q))
<1>1. /\ r.first \in Address /\ r.last \in Address
      /\ q.sheet \in Int /\ q.row \in Int /\ q.column \in Int
  BY DEF CellRanges, Address
<1>2. /\ r.first.sheet \in Int /\ r.first.row \in Int /\ r.first.column \in Int
      /\ r.last.sheet \in Int /\ r.last.row \in Int /\ r.last.column \in Int
  BY <1>1 DEF Address
<1>3. ASSUME NEW s \in Int
      PROVE  Overlaps(OnSheet(r, s), At(q)) <=>
               /\ s = q.sheet
               /\ r.first.row <= q.row /\ q.row <= r.last.row
               /\ r.first.column <= q.column /\ q.column <= r.last.column
  <2>1. /\ OnSheet(r, s).first.sheet = s
        /\ OnSheet(r, s).first.row = r.first.row
        /\ OnSheet(r, s).first.column = r.first.column
        /\ OnSheet(r, s).last.row = r.last.row
        /\ OnSheet(r, s).last.column = r.last.column
    BY <1>1 DEF OnSheet, Address
  <2> QED
    BY <2>1 DEF Overlaps, At
<1> QED
  BY <1>1, <1>2, <1>3 DEF Contains

\* The tokens of a cell cover what they denote, as they are written.
LEMMA TokensDenoteThemselves ==
  ASSUME EditsUndoable, TrackedInv, NEW p \in Positions, NEW i \in DOMAIN TokensAt(p)
  PROVE  /\ TokensAt(p)[i] \in CellRanges
         /\ Denoted(TokensAt(p)[i]) = TokensAt(p)[i]
         /\ Clip(TokensAt(p)[i], SheetSize) = TokensAt(p)[i]
<1>1. TokensAt(p)[i] \in CellRanges
  BY TokensTyped DEF TrackedInv, ClientInv
<1>2. Removable(p, TokensAt(p)[i])
  BY NeverThrows DEF TrackedInv, UnregisterThrows
<1> QED
  BY <1>1, <1>2, RemovableIsDenoted, RemovableIsClipped

\* So check_circular looks at the cells the formula reads.
LEMMA LooksAtWhatItReads ==
  ASSUME EditsUndoable, TrackedInv, NEW p \in Positions
  PROVE  LookedAt(p) = Reads(p)
BY TokensDenoteThemselves, ReadCells DEF TrackedInv, ClientInv

\* The tracker's links are those of the cells.
LEMMA LinksAreOfCells ==
  ASSUME TrackedInv
  PROVE  links = UNION {LinksOf(p) : p \in Positions}
BY DEF TrackedInv, WithinInv, MirrorInv

\* What listens to a range is a formula cell.
LEMMA ListenersAreCells ==
  ASSUME TrackedInv, NEW S, NEW r \in Affected(links, S)
  PROVE  \E p \in FormulaCells : r = At(p)
<1>1. PICK l \in links : l[1] = r
  BY DEF Affected, Listeners
<1>2. PICK p \in Positions : l \in LinksOf(p)
  BY LinksAreOfCells
<1>3. p \in FormulaCells
  BY <1>2 DEF LinksOf, RegisteredLinks, TokensAt
<1>4. l[1] = At(p)
  BY <1>2, LinkNamesItsCell, DocumentAssumption DEF LinksOf
<1> QED
  BY <1>1, <1>3, <1>4

\* A cell listens to the cells its formula reads, and to no others.
LEMMA ListensToWhatItReads ==
  ASSUME EditsUndoable, TrackedInv, NEW p \in Positions, NEW q \in Positions
  PROVE  q \in Reads(p) <=> At(p) \in Listeners(links, At(q))
<1>1. p \in Address /\ q \in Address
  BY DocumentAssumption
<1>2. q \in Reads(p) <=> \E i \in DOMAIN TokensAt(p) : Contains(TokensAt(p)[i], q)
  BY TokensDenoteThemselves, ReadCells DEF CellsIn, TrackedInv, ClientInv
<1>3. LinksOf(p) = UNION {Links(At(p), TokensAt(p)[i]) : i \in DOMAIN TokensAt(p)}
  BY <1>1, SourceOfCell, TokensDenoteThemselves DEF LinksOf, RegisteredLinks
<1>4. At(p) \in Listeners(links, At(q)) <=> \E l \in LinksOf(p) : Overlaps(l[2], At(q))
  <2>1. \A x \in Positions : \A l \in LinksOf(x) : l[1] = At(x)
    BY LinkNamesItsCell, DocumentAssumption DEF LinksOf
  <2>2. \A x \in Positions : At(x) = At(p) => x = p
    BY <1>1, AtIsRange, DocumentAssumption
  <2>3. At(p) \in Listeners(links, At(q)) <=>
          \E x \in Positions : \E l \in LinksOf(x) : l[1] = At(p) /\ Overlaps(l[2], At(q))
    BY LinksAreOfCells DEF Listeners
  <2> QED
    BY <2>1, <2>2, <2>3
<1>5. ASSUME NEW i \in DOMAIN TokensAt(p)
      PROVE  Contains(TokensAt(p)[i], q) <=>
               \E l \in Links(At(p), TokensAt(p)[i]) : Overlaps(l[2], At(q))
  <2>1. Contains(TokensAt(p)[i], q) <=>
          \E s \in TokensAt(p)[i].first.sheet..TokensAt(p)[i].last.sheet :
            Overlaps(OnSheet(TokensAt(p)[i], s), At(q))
    BY <1>1, TokensDenoteThemselves, ContainsOverlaps
  <2> DEFINE d == TokensAt(p)[i]
             S == d.first.sheet..d.last.sheet
  <2>2. Links(At(p), d) = {<<At(p), OnSheet(d, s)>> : s \in S}
    BY DEF Links
  <2>3. \A x, y : <<x, y>>[2] = y
    OBVIOUS
  <2> HIDE DEF S, d
  <2>4. (\E l \in Links(At(p), d) : Overlaps(l[2], At(q))) <=>
          \E s \in S : Overlaps(OnSheet(d, s), At(q))
    BY <2>2, <2>3
  <2> QED
    BY <2>1, <2>4 DEF d, S
<1> QED
  BY <1>2, <1>3, <1>4, <1>5
-----------------------------------------------------------------------------
(***************************************************************************)
(* The entries.                                                            *)
(***************************************************************************)
Answered == pc = "answered" /\ stage # "idle"

\* While calculate() works on an answer, it is the dirty set, in order.
LEMMA AnswerFacts ==
  ASSUME TrackedInv, AskedInv, Answered
  PROVE  /\ IsDirtySet(links, Roots(links, volatile, request), final)
         /\ IsDirtyOrder(links, final, sorted)
<1>1. request.sorted
  BY DEF AskedInv, Answered
<1>2. TypeInv /\ RelsInv /\ SortInv /\ QueryInv
  BY DEF TrackedInv, ClientInv, TrackerInv
<1> QED
  BY <1>1, <1>2, SortedInOrder DEF Answered, QueryInv, FoundInv

\* Each dirty range is a cell.
LEMMA DirtyAreCells ==
  ASSUME TrackedInv, AskedInv, Answered, NEW r \in final
  PROVE  r.first \in Positions /\ r = At(r.first)
<1>1. \/ \E l \in links : l[1] = r
      \/ r \in volatile
      \/ r \in request.formulas
  BY AnswerFacts, DirtyRangeIsKnown
<1>2. \A p \in Positions : At(p).first = p
  BY DEF At
<1>3. CASE \E l \in links : l[1] = r
  <2>1. PICK l \in links : l[1] = r
    BY <1>3
  <2>2. PICK p \in Positions : l \in LinksOf(p)
    BY LinksAreOfCells
  <2>3. l[1] = At(p)
    BY <2>2, LinkNamesItsCell, DocumentAssumption DEF LinksOf
  <2> QED
    BY <1>2, <2>1, <2>3
<1>4. CASE r \in volatile
  <2>1. PICK p \in Positions : r \in VolatileOf(p)
    BY <1>4 DEF TrackedInv, WithinInv
  <2> QED
    BY <1>2, <2>1 DEF VolatileOf
<1>5. CASE r \in request.formulas
  <2>1. PICK p \in modifiedFormulas : r = At(p)
    BY <1>5 DEF AskedInv, Answered
  <2> QED
    BY <1>2, <2>1 DEF TrackedInv, ClientInv, EditInv
<1> QED
  BY <1>1, <1>3, <1>4, <1>5

\* The entries are the dirty cells, each of them once.
LEMMA EntriesAreDirty ==
  ASSUME TrackedInv, AskedInv, Answered
  PROVE  /\ Entries \subseteq Positions
         /\ \A i \in DOMAIN sorted : Entry(i) \in Entries /\ sorted[i] = At(Entry(i))
         /\ \A i, k \in DOMAIN sorted : Entry(i) = Entry(k) => i = k
         /\ \A p \in Positions : p \in Entries <=> At(p) \in final
<1>1. /\ {sorted[i] : i \in DOMAIN sorted} = final
      /\ \A i, k \in DOMAIN sorted : sorted[i] = sorted[k] => i = k
  BY AnswerFacts DEF IsDirtyOrder
<1>2. \A i \in DOMAIN sorted : Entry(i) \in Positions /\ sorted[i] = At(Entry(i))
  BY <1>1, DirtyAreCells DEF Entry
<1>3. \A p \in Positions : At(p).first = p
  BY DEF At
<1>4. \A p \in Positions : p \in Entries <=> At(p) \in final
  BY <1>1, <1>2, <1>3 DEF Entries, Entry
<1> QED
  BY <1>1, <1>2, <1>4 DEF Entries

\* An entry that reads a cell not before it is read, in turn, by that cell.
LEMMA OrderServesReads ==
  ASSUME EditsUndoable, TrackedInv, AskedInv, Answered,
         NEW i \in DOMAIN sorted, NEW k \in DOMAIN sorted,
         Entry(k) \in Reads(Entry(i)), ~(k < i)
  PROVE  ReadsFrom(Entry(k), Entry(i))
<1> SUFFICES ASSUME NEW X \in SUBSET Positions, Entry(k) \in X,
                    \A x \in X : Reads(x) \subseteq X,
                    Entry(i) \notin X
             PROVE  FALSE
  BY DEF ReadsFrom
<1> DEFINE Y == {r \in final : r.first \notin X}
<1>1. /\ sorted[i] = At(Entry(i)) /\ sorted[k] = At(Entry(k))
      /\ Entry(i) \in Positions /\ Entry(k) \in Positions
      /\ sorted[i] \in final /\ sorted[k] \in final
  BY EntriesAreDirty
<1>2. sorted[i] \in Listeners(links, sorted[k])
  BY <1>1, ListensToWhatItReads
<1>3. LeadsTo(links, final, sorted[i], sorted[k])
  BY <1>2, AnswerFacts DEF IsDirtyOrder
<1>4. sorted[i] \in Y
  BY <1>1 DEF Entry
<1>5. (Affected(links, Y) \cap final) \subseteq Y
  <2> SUFFICES ASSUME NEW s \in Y, NEW r \in Listeners(links, s), r \in final, r.first \in X
               PROVE  FALSE
    BY DEF Affected
  <2>1. /\ r.first \in Positions /\ r = At(r.first)
        /\ s.first \in Positions /\ s = At(s.first)
    BY DirtyAreCells
  <2>2. s.first \in Reads(r.first)
    BY <2>1, ListensToWhatItReads
  <2> QED
    BY <2>2
<1>6. sorted[k] \in Y
  BY <1>3, <1>4, <1>5 DEF LeadsTo
<1> QED
  BY <1>1, <1>6 DEF Entry

(***************************************************************************)
(* EntriesInOrder: calculate() goes through the entries in an order that   *)
(* serves every formula, so that a cell is calculated after the entries it *)
(* reads unless these read from it (query_and_sort_dirty_cells works on    *)
(* the links of the tracker, the calculation on the tokens of the cells).  *)
(***************************************************************************)
THEOREM EntriesOrdered ==
  ASSUME EditsUndoable
  PROVE  DocSpec => []EntriesInOrder
<1>1. TrackedInv /\ AskedInv => EntriesInOrder
  <2> SUFFICES ASSUME TrackedInv, AskedInv, stage = "check",
                      NEW i \in DOMAIN sorted, NEW k \in DOMAIN sorted,
                      Entry(k) \in Reads(Entry(i)), ~(k < i)
               PROVE  ReadsFrom(Entry(k), Entry(i))
    BY DEF EntriesInOrder
  <2>1. Answered
    BY DEF Answered, TrackedInv, ClientInv, EditInv
  <2> QED
    BY <2>1, OrderServesReads
<1> QED
  BY <1>1, TrackedInvariant, PTL
-----------------------------------------------------------------------------
(***************************************************************************)
(* What lies behind a set of cells: all that reads one of them, directly   *)
(* or not.                                                                 *)
(***************************************************************************)
Closed(X) == \A q \in Positions : Reads(q) \cap X # {} => q \in X

Behind(S) ==
  {p \in Positions : \A X \in SUBSET Positions : S \subseteq X /\ Closed(X) => p \in X}

\* What is behind S is the least closed set of cells that has S.
LEMMA BehindIsLeast ==
  ASSUME NEW S \in SUBSET Positions
  PROVE  /\ Behind(S) \in SUBSET Positions
         /\ S \subseteq Behind(S) /\ Closed(Behind(S))
         /\ \A X \in SUBSET Positions : S \subseteq X /\ Closed(X) => Behind(S) \subseteq X
BY DEF Behind, Closed

Pending == modified \cup modifiedFormulas
VolatileCells == {p \in FormulaCells : Volatile(formula[p])}

\* What a calculation has to go through.
Stale == Behind(Pending \cup VolatileCells)

\* Between calculations that, or nothing if there was no edit.
LEMMA OutdatedIsBehind ==
  /\ Pending # {} => Outdated = Stale
  /\ Pending = {} => Outdated = {}
<1>1. Outdated = Behind(IF Pending = {} THEN {} ELSE Pending \cup VolatileCells)
  BY DEF Outdated, Behind, Closed, Pending, VolatileCells
<1>2. Behind({}) = {}
  <2>1. Closed({})
    BY DEF Closed
  <2> QED
    BY <2>1, BehindIsLeast
<1> QED
  BY <1>1, <1>2 DEF Stale

\* The seeds are cells.
LEMMA SeedsAreCells ==
  ASSUME EditInv
  PROVE  Pending \cup VolatileCells \in SUBSET Positions
BY DEF EditInv, Pending, VolatileCells, FormulaCells

(***************************************************************************)
(* A calculation goes through what is stale and has a formula.             *)
(***************************************************************************)
LEMMA EntriesAreClosed ==
  ASSUME EditsUndoable, TrackedInv, AskedInv, Answered
  PROVE  Entries \in SUBSET Positions /\ Closed(Entries)
<1>1. ASSUME NEW q \in Positions, NEW y \in Reads(q), y \in Entries
      PROVE  q \in Entries
  <2>1. y \in Positions /\ At(y) \in final
    BY <1>1, EntriesAreDirty
  <2>2. At(q) \in Listeners(links, At(y))
    BY <1>1, <2>1, ListensToWhatItReads
  <2>3. At(q) \in final
    BY <2>1, <2>2, AnswerFacts DEF IsDirtySet, ClosedUnder, Affected
  <2> QED
    BY <2>3, EntriesAreDirty
<1> QED
  BY <1>1, EntriesAreDirty DEF Closed

\* What is stale and has a formula is an entry.
LEMMA StaleAreEntries ==
  ASSUME EditsUndoable, TrackedInv, AskedInv, Answered
  PROVE  FormulaCells \cap Stale \subseteq Entries
<1> DEFINE X == Entries \cup modified
<1>1. /\ modified \subseteq Positions /\ modifiedFormulas \subseteq Positions
      /\ request.modified = {At(p) : p \in modified}
      /\ request.formulas = {At(p) : p \in modifiedFormulas}
  BY DEF TrackedInv, ClientInv, EditInv, AskedInv, Answered
<1>2. modifiedFormulas \subseteq Entries
  BY <1>1, AnswerFacts, EntriesAreDirty DEF IsDirtySet, Roots
<1>3. VolatileCells \subseteq Entries
  <2> SUFFICES ASSUME NEW p \in VolatileCells PROVE p \in Entries
    OBVIOUS
  <2>1. p \in Positions /\ At(p) \in VolatileOf(p)
    BY DEF VolatileCells, VolatileOf, FormulaCells
  <2>2. At(p) \in volatile
    BY <2>1 DEF TrackedInv, MirrorInv
  <2> QED
    BY <2>1, <2>2, AnswerFacts, EntriesAreDirty DEF IsDirtySet, Roots
<1>4. X \in SUBSET Positions
  BY <1>1, EntriesAreClosed
<1>5. Closed(X)
  <2>1. ASSUME NEW q \in Positions, NEW y \in Reads(q), y \in modified
        PROVE  q \in Entries
    <3>1. At(q) \in Listeners(links, At(y))
      BY <1>1, <2>1, ListensToWhatItReads
    <3>2. At(q) \in final
      BY <1>1, <2>1, <3>1, AnswerFacts DEF IsDirtySet, Roots, Affected
    <3> QED
      BY <3>2, EntriesAreDirty
  <2> QED
    BY <2>1, EntriesAreClosed DEF Closed
<1>6. Stale \subseteq X
  BY <1>2, <1>3, <1>4, <1>5, SeedsAreCells, BehindIsLeast
     DEF Stale, Pending, TrackedInv, ClientInv
<1> QED
  BY <1>2, <1>6 DEF AskedInv

\* And an entry is stale.
LEMMA EntriesAreStale ==
  ASSUME EditsUndoable, TrackedInv, AskedInv, Answered
  PROVE  Entries \subseteq Stale
<1> DEFINE S == {r \in final : r.first \in Stale}
<1>1. /\ Pending \subseteq Stale /\ VolatileCells \subseteq Stale
      /\ Stale \subseteq Positions /\ Closed(Stale)
  BY SeedsAreCells, BehindIsLeast DEF Stale, TrackedInv, ClientInv
<1>2. /\ request.modified = {At(p) : p \in modified}
      /\ request.formulas = {At(p) : p \in modifiedFormulas}
      /\ modified \subseteq Pending /\ modifiedFormulas \subseteq Pending
      /\ \A p \in Positions : At(p).first = p
  BY DEF AskedInv, Answered, Pending, At
<1>3. IsDirtySet(links, Roots(links, volatile, request), final)
  BY AnswerFacts
<1>4. ASSUME NEW y \in Stale, NEW r \in Listeners(links, At(y)), r \in final
      PROVE  r \in S
  <2>1. r.first \in Positions /\ r = At(r.first) /\ y \in Positions
    BY <1>1, <1>4, DirtyAreCells
  <2>2. y \in Reads(r.first)
    BY <1>4, <2>1, ListensToWhatItReads
  <2> QED
    BY <1>1, <1>4, <2>1, <2>2 DEF Closed
<1>5. Roots(links, volatile, request) \subseteq S
  <2>1. Roots(links, volatile, request) \subseteq final
    BY <1>3 DEF IsDirtySet
  <2>2. ASSUME NEW r \in Affected(links, request.modified) PROVE r \in S
    <3>1. PICK y \in modified : r \in Listeners(links, At(y))
      BY <1>2, <2>2 DEF Affected
    <3>2. r \in final
      BY <2>1, <2>2 DEF Roots
    <3>3. y \in Stale
      BY <1>1, <1>2, <3>1
    <3> QED
      BY <1>4, <3>1, <3>2, <3>3
  <2>3. ASSUME NEW r \in volatile PROVE r \in S
    <3>1. PICK p \in Positions : r \in VolatileOf(p)
      BY <2>3 DEF TrackedInv, WithinInv
    <3>2. p \in VolatileCells /\ r = At(p)
      BY <3>1 DEF VolatileOf, VolatileCells
    <3>3. r \in final
      BY <2>1, <2>3 DEF Roots
    <3>4. r.first \in Stale
      BY <1>1, <1>2, <3>2
    <3> QED
      BY <3>3, <3>4
  <2>4. ASSUME NEW r \in request.formulas PROVE r \in S
    <3>1. PICK p \in modifiedFormulas : r = At(p)
      BY <1>2, <2>4
    <3>2. r.first \in Stale
      BY <1>1, <1>2, <3>1
    <3>3. r \in final
      BY <2>1, <2>4 DEF Roots
    <3> QED
      BY <3>2, <3>3
  <2>5. \A r \in Roots(links, volatile, request) :
           \/ r \in Affected(links, request.modified)
           \/ r \in volatile
           \/ r \in request.formulas
    BY DEF Roots
  <2> QED
    BY <2>2, <2>3, <2>4, <2>5
<1>6. ClosedUnder(links, S)
  <2> SUFFICES ASSUME NEW s \in S, NEW r \in Listeners(links, s) PROVE r \in S
    BY DEF ClosedUnder, Affected
  <2>1. r \in final
    BY <1>3 DEF IsDirtySet, ClosedUnder, Affected
  <2>2. s.first \in Stale /\ s = At(s.first)
    BY DirtyAreCells
  <2> QED
    BY <1>4, <2>1, <2>2
<1>7. S = final
  BY <1>3, <1>5, <1>6 DEF IsDirtySet
<1> QED
  BY <1>2, <1>7, EntriesAreDirty
-----------------------------------------------------------------------------
(***************************************************************************)
(* Circles of references.                                                  *)
(***************************************************************************)

\* What reads anything is a formula cell, and what it reads are cells.
LEMMA ReadsAreCells ==
  ASSUME ClientInv, NEW p, NEW q \in Reads(p)
  PROVE  p \in FormulaCells /\ q \in Positions
<1>1. p \in FormulaCells
  BY DEF Reads
<1> QED
  BY <1>1, ReadCells DEF ClientInv, FormulaCells

\* A cell of a circle reads another one.
LEMMA CircleUnfold ==
  ASSUME NEW p \in OnCircle
  PROVE  p \in FormulaCells /\ Reads(p) \cap OnCircle # {}
<1>1. PICK X \in SUBSET FormulaCells : p \in X /\ \A x \in X : Reads(x) \cap X # {}
  BY DEF OnCircle
<1>2. X \subseteq OnCircle
  BY <1>1 DEF OnCircle
<1> QED
  BY <1>1, <1>2

\* What reads a cell of a circle counts as one.
LEMMA CircleFold ==
  ASSUME NEW p \in FormulaCells, Reads(p) \cap OnCircle # {}
  PROVE  p \in OnCircle
<1> DEFINE Y == OnCircle \cup {p}
<1>1. \A x \in OnCircle : x \in FormulaCells /\ Reads(x) \cap OnCircle # {}
  BY CircleUnfold
<1>2. Y \in SUBSET FormulaCells /\ \A x \in Y : Reads(x) \cap Y # {}
  BY <1>1
<1>3. Y \subseteq OnCircle
  <2> HIDE DEF Y
  <2> QED
    BY <1>2 DEF OnCircle
<1> QED
  BY <1>3

\* A path that leads from x to another cell p starts with a cell x reads.
LEMMA PathStep ==
  ASSUME NEW x \in Positions, NEW p \in Positions, ReadsFrom(x, p), x # p
  PROVE  \E y \in Reads(x) : ReadsFrom(y, p)
<1> SUFFICES ASSUME \A y \in Reads(x) : ~ReadsFrom(y, p)
             PROVE  FALSE
  OBVIOUS
<1> DEFINE Avoiding == {Z \in SUBSET Positions : p \notin Z /\ \A z \in Z : Reads(z) \subseteq Z}
           X == {x} \cup UNION Avoiding
<1>1. \A y \in Reads(x) : \E Z \in Avoiding : y \in Z
  <2> SUFFICES ASSUME NEW y \in Reads(x) PROVE \E Z \in Avoiding : y \in Z
    OBVIOUS
  <2> QED
    BY DEF ReadsFrom
<1>2. X \in SUBSET Positions /\ p \notin X
  OBVIOUS
<1>3. \A z \in X : Reads(z) \subseteq X
  <2>1. Reads(x) \subseteq X
    BY <1>1
  <2>2. \A Z \in Avoiding : \A z \in Z : Reads(z) \subseteq X
    OBVIOUS
  <2> QED
    BY <2>1, <2>2
<1> HIDE DEF X
<1>4. x \in X
  BY DEF X
<1> QED
  BY <1>2, <1>3, <1>4 DEF ReadsFrom

\* A formula cell read by a cell that reads from it is on a circle with it.
LEMMA CycleIsCircle ==
  ASSUME ClientInv, NEW p \in FormulaCells, NEW q \in Reads(p), q \in FormulaCells,
         ReadsFrom(q, p)
  PROVE  p \in OnCircle
<1> DEFINE Y == {x \in FormulaCells : ReadsFrom(x, p)}
<1>1. p \in Y
  BY DEF ReadsFrom
<1>2. FormulaCells \subseteq Positions
  BY DEF FormulaCells
<1>3. ASSUME NEW x \in Y, x # p PROVE Reads(x) \cap Y # {}
  <2>1. PICK y \in Reads(x) : ReadsFrom(y, p)
    BY <1>2, <1>3, PathStep
  <2>2. y \in FormulaCells
    <3>1. CASE y = p
      BY <3>1
    <3>2. CASE y # p
      <4>1. \E z \in Reads(y) : ReadsFrom(z, p)
        BY <1>2, <2>1, <3>2, PathStep, ReadsAreCells
      <4> QED
        BY <4>1, ReadsAreCells
    <3> QED
      BY <3>1, <3>2
  <2> QED
    BY <2>1, <2>2
<1>4. \A x \in Y : Reads(x) \cap Y # {}
  BY <1>3
<1>5. Y \in SUBSET FormulaCells
  OBVIOUS
<1> HIDE DEF Y
<1> QED
  BY <1>1, <1>4, <1>5 DEF OnCircle

-----------------------------------------------------------------------------
(***************************************************************************)
(* A step that changes nothing outside a closed set leaves the cells       *)
(* outside it up to date.                                                  *)
(***************************************************************************)

\* The value of a formula depends on the time only if it calls a volatile
\* function (formula.cpp, has_volatile: it calls NOW).
OnlyVolatileReadTime ==
  \A f \in Formulas : ~Volatile(f) =>
    \A S \in SUBSET Positions : \A inputs \in [S -> Values \cup {Default}] :
      \A t, u \in Times : Compute(f, inputs, t) = Compute(f, inputs, u)

\* A cell with the result, and the verdict of check_circular, a calculation of
\* the whole document would give it; and that calculation would not throw.
Settled(p) ==
  /\ UpToDate(p)
  /\ Throws(formula[p]) => p \in OnCircle
  /\ safe[p] <=> p \notin OnCircle

\* Outside X nothing changes.
SameOutside(X) ==
  \A p \in Positions \ X : /\ formula'[p] = formula[p] /\ value'[p] = value[p]
                           /\ result'[p] = result[p] /\ safe'[p] = safe[p]

\* The formulas outside X read what they read before, all of it outside X.
LEMMA ReadsOutside ==
  ASSUME ClientInv, NEW X \in SUBSET Positions, Closed(X), SameOutside(X),
         NEW p \in Positions \ X
  PROVE  /\ p \in FormulaCells' <=> p \in FormulaCells
         /\ Reads(p)' = Reads(p)
         /\ Reads(p) \subseteq Positions \ X
<1>1. formula'[p] = formula[p]
  BY DEF SameOutside
<1>2. p \in FormulaCells' <=> p \in FormulaCells
  BY <1>1 DEF FormulaCells
<1>3. Reads(p)' = Reads(p)
  BY <1>1, <1>2 DEF Reads, ReadBy, CellsIn
<1> QED
  BY <1>2, <1>3, ReadsAreCells DEF Closed

\* A closed set stays closed.
LEMMA StaysClosed ==
  ASSUME ClientInv, NEW X \in SUBSET Positions, Closed(X), SameOutside(X)
  PROVE  Closed(X)'
BY ReadsOutside DEF Closed

\* The circles outside X are the same.
LEMMA CirclesOutside ==
  ASSUME ClientInv, NEW X \in SUBSET Positions, Closed(X), SameOutside(X),
         NEW p \in Positions \ X
  PROVE  p \in OnCircle' <=> p \in OnCircle
<1> DEFINE Z == {Y \in SUBSET FormulaCells : \A y \in Y : Reads(y) \cap Y # {}}
           W == {Y \in SUBSET FormulaCells' : \A y \in Y : Reads(y)' \cap Y # {}}
<1>f. FormulaCells \subseteq Positions /\ FormulaCells' \subseteq Positions
  BY DEF FormulaCells
<1>1. OnCircle = UNION Z /\ OnCircle' = UNION W
  BY DEF OnCircle
<1>2. ASSUME NEW Y \in Z PROVE Y \ X \in W
  <2>1. \A y \in Y \ X : Reads(y) \cap (Y \ X) # {} /\ Reads(y)' = Reads(y)
    BY <1>f, ReadsOutside
  <2>2. Y \ X \subseteq FormulaCells'
    BY <1>f, ReadsOutside
  <2> QED
    BY <2>1, <2>2
<1>3. ASSUME NEW Y \in W PROVE Y \ X \in Z
  <2>1. \A y \in Y \ X : Reads(y) \cap (Y \ X) # {}
    BY <1>f, ReadsOutside
  <2>2. Y \ X \subseteq FormulaCells
    BY <1>f, ReadsOutside
  <2> QED
    BY <2>1, <2>2
<1> HIDE DEF Z, W
<1>4. ASSUME p \in OnCircle PROVE p \in OnCircle'
  <2>1. PICK Y \in Z : p \in Y
    BY <1>1, <1>4
  <2> QED
    BY <1>1, <1>2, <2>1
<1>5. ASSUME p \in OnCircle' PROVE p \in OnCircle
  <2>1. PICK Y \in W : p \in Y
    BY <1>1, <1>5
  <2> QED
    BY <1>1, <1>3, <2>1
<1> QED
  BY <1>4, <1>5

\* A cell that is not volatile is worth the same at any time.
LEMMA OutcomeOutside ==
  ASSUME OnlyVolatileReadTime, ClientInv, ValueInv,
         NEW X \in SUBSET Positions, Closed(X), SameOutside(X),
         now' \in Times, now' = now \/ VolatileCells \subseteq X,
         NEW p \in FormulaCells \ X
  PROVE  Outcome(p)' = Outcome(p)
<1> DEFINE inputs == [q \in Reads(p) |-> Fetch(q)]
<1>1. p \in Positions /\ formula[p] \in Formulas /\ formula'[p] = formula[p]
  BY DEF FormulaCells, ClientInv, EditInv, SameOutside
<1>2. Reads(p)' = Reads(p) /\ Reads(p) \subseteq Positions \ X
  BY <1>1, ReadsOutside
<1>3. \A q \in Reads(p) : Fetch(q)' = Fetch(q)
  BY <1>2, ReadsOutside DEF Fetch, SameOutside
<1>4. inputs' = inputs
  BY <1>2, <1>3
<1> HIDE DEF inputs
<1>5. /\ Outcome(p) = IF p \in Reads(p) \/ \E q \in Reads(p) : inputs[q] = Err
                        THEN Err ELSE Compute(formula[p], inputs, now)
      /\ Outcome(p)' = IF p \in Reads(p)' \/ \E q \in Reads(p)' : inputs'[q] = Err
                         THEN Err ELSE Compute(formula'[p], inputs', now')
  BY DEF Outcome, inputs
<1>6. CASE now' = now
  BY <1>1, <1>2, <1>4, <1>5, <1>6
<1>7. CASE ~Volatile(formula[p]) /\ ~(\E q \in Reads(p) : inputs[q] = Err)
  <2>1. inputs \in [Reads(p) -> Values \cup {Default}]
    BY <1>2, <1>7, FetchTyped DEF inputs
  <2>2. Reads(p) \in SUBSET Positions
    BY <1>2
  <2>3. Compute(formula[p], inputs, now') = Compute(formula[p], inputs, now)
    BY <1>1, <1>7, <2>1, <2>2 DEF OnlyVolatileReadTime, ValueInv
  <2> QED
    BY <1>1, <1>2, <1>4, <1>5, <2>3
<1>8. CASE \E q \in Reads(p) : inputs[q] = Err
  BY <1>2, <1>4, <1>5, <1>8
<1>9. now' = now \/ ~Volatile(formula[p])
  BY DEF VolatileCells
<1> QED
  BY <1>6, <1>7, <1>8, <1>9

\* A settled cell outside X stays settled.
LEMMA StaysSettled ==
  ASSUME OnlyVolatileReadTime, ClientInv, ValueInv,
         NEW X \in SUBSET Positions, Closed(X), SameOutside(X),
         now' \in Times, now' = now \/ VolatileCells \subseteq X,
         NEW p \in FormulaCells \ X, Settled(p)
  PROVE  Settled(p)'
<1>1. p \in Positions \ X
  BY DEF FormulaCells
<1>2. /\ formula'[p] = formula[p] /\ result'[p] = result[p] /\ safe'[p] = safe[p]
      /\ p \in OnCircle' <=> p \in OnCircle
      /\ Outcome(p)' = Outcome(p)
  BY <1>1, CirclesOutside, OutcomeOutside DEF SameOutside
<1> QED
  BY <1>2 DEF Settled, UpToDate
-----------------------------------------------------------------------------
(***************************************************************************)
(* The inductive invariant: which cells are settled at each stage.         *)
(***************************************************************************)

\* Between calculations, all but the outdated ones.
IdleInv == stage = "idle" => \A p \in FormulaCells \ Outdated : Settled(p)

\* Until the answer is there, all but the stale ones; if nothing was edited,
\* no formula throws that did not throw before.
QueryingInv ==
  /\ stage = "query" => \A p \in FormulaCells \ Stale : Settled(p)
  /\ stage # "idle" /\ Pending = {} =>
       \A p \in FormulaCells : Throws(formula[p]) => p \in OnCircle

\* From then on, all but the entries.
OthersInv ==
  stage \in {"check", "interpret"} => \A p \in FormulaCells \ Entries : Settled(p)

\* What check_circular leaves in an entry.
Checked(p) ==
  /\ safe[p] <=> p \notin OnCircle
  /\ result[p] = IF p \in OnCircle THEN Err ELSE Nil

\* The entries before next are checked, the others reset.
CheckedInv ==
  stage = "check" => \A i \in DOMAIN sorted :
    IF i < next THEN Checked(Entry(i)) ELSE ~safe[Entry(i)] /\ result[Entry(i)] = Nil

\* The entries before next are settled, the others checked.
InterpretedInv ==
  stage = "interpret" => \A i \in DOMAIN sorted :
    IF i < next THEN Settled(Entry(i)) ELSE Checked(Entry(i))

FreshInv == IdleInv /\ QueryingInv /\ OthersInv /\ CheckedInv /\ InterpretedInv

\* The verdict of check_circular on the next entry, from those on the others.
LEMMA Verdict ==
  ASSUME EditsUndoable, TrackedInv, AskedInv, OthersInv, CheckedInv,
         stage = "check", next \in DOMAIN sorted, NEW p, p = Entry(next)
  PROVE  (\E q \in LookedAt(p) \cap FormulaCells : ~safe[q]) <=> p \in OnCircle
<1>1. Answered
  BY DEF Answered, TrackedInv, ClientInv, EditInv
<1>2. /\ p \in FormulaCells /\ p \in Positions /\ LookedAt(p) = Reads(p)
      /\ \A i \in DOMAIN sorted : i \in Nat
      /\ Entries = {Entry(i) : i \in DOMAIN sorted}
  <2>1. p \in FormulaCells /\ p \in Positions
    BY <1>1, EntriesAreDirty DEF TrackedInv, ValueInv
  <2> QED
    BY <2>1, LooksAtWhatItReads, SortedFacts DEF TrackedInv, Entries
<1>3. ASSUME NEW q \in Reads(p) \cap OnCircle PROVE q \in FormulaCells /\ ~safe[q]
  <2>1. q \in FormulaCells
    BY CircleUnfold
  <2>2. CASE q \in Entries
    BY <1>2, <2>1, <2>2 DEF CheckedInv, Checked
  <2>3. CASE q \notin Entries
    BY <2>1, <2>3 DEF OthersInv, Settled
  <2> QED
    BY <2>1, <2>2, <2>3
<1>4. ASSUME NEW q \in Reads(p), q \in FormulaCells, ~safe[q] PROVE p \in OnCircle
  <2>1. CASE q \notin Entries
    <3>1. q \in OnCircle
      BY <1>4, <2>1 DEF OthersInv, Settled
    <3> QED
      BY <1>2, <3>1, CircleFold
  <2>2. CASE q \in Entries
    <3>1. PICK k \in DOMAIN sorted : q = Entry(k)
      BY <1>2, <2>2
    <3>2. CASE k < next
      <4>1. q \in OnCircle
        BY <1>4, <3>1, <3>2 DEF CheckedInv, Checked
      <4> QED
        BY <1>2, <4>1, CircleFold
    <3>3. CASE ~(k < next)
      <4>1. ReadsFrom(q, p)
        BY <1>1, <3>1, <3>3, OrderServesReads
      <4> QED
        BY <1>2, <1>4, <4>1, CycleIsCircle DEF TrackedInv
    <3> QED
      BY <3>2, <3>3
  <2> QED
    BY <2>1, <2>2
<1> QED
  BY <1>2, <1>3, <1>4, CircleUnfold

\* A step on the entries leaves the other cells settled.
LEMMA OthersStay ==
  ASSUME OnlyVolatileReadTime, EditsUndoable, TrackedInv, AskedInv, Answered,
         UNCHANGED <<formula, value, now>>,
         \A q \in Positions \ Entries : result'[q] = result[q] /\ safe'[q] = safe[q],
         NEW p \in FormulaCells \ Entries, Settled(p)
  PROVE  Settled(p)'
<1>1. PICK X \in SUBSET Positions : X = Entries
  BY EntriesAreClosed
<1>2. Closed(X) /\ SameOutside(X)
  BY <1>1, EntriesAreClosed DEF SameOutside
<1>3. now' \in Times
  BY DEF TrackedInv, ValueInv
<1> QED
  BY <1>1, <1>2, <1>3, StaysSettled DEF TrackedInv

\* A step that leaves the document alone leaves all cells settled.
LEMMA AllStay ==
  ASSUME OnlyVolatileReadTime, ClientInv, ValueInv,
         UNCHANGED <<formula, value, result, safe, now>>,
         NEW p \in FormulaCells, Settled(p)
  PROVE  Settled(p)'
<1>1. Closed({}) /\ SameOutside({})
  BY DEF Closed, SameOutside
<1>2. now' \in Times
  BY DEF ValueInv
<1> QED
  BY <1>1, <1>2, StaysSettled

\* As long as the formulas do, the circles stay.
LEMMA CirclesStay ==
  ASSUME formula' = formula
  PROVE  /\ FormulaCells' = FormulaCells /\ VolatileCells' = VolatileCells
         /\ \A p : Reads(p)' = Reads(p)
         /\ OnCircle' = OnCircle
         /\ Pending' = Pending => Stale' = Stale
<1>1. FormulaCells' = FormulaCells
  BY DEF FormulaCells
<1>2. \A p : Reads(p)' = Reads(p)
  BY <1>1 DEF Reads, ReadBy, CellsIn
<1>3. VolatileCells' = VolatileCells
  BY <1>1 DEF VolatileCells
<1>4. OnCircle' = OnCircle
  BY <1>1, <1>2 DEF OnCircle
<1>5. \A X : Closed(X)' <=> Closed(X)
  BY <1>2 DEF Closed
<1>6. Pending' = Pending => Stale' = Stale
  BY <1>3, <1>5 DEF Stale, Behind
<1> QED
  BY <1>1, <1>2, <1>3, <1>4, <1>6
-----------------------------------------------------------------------------
(***************************************************************************)
(* Each step keeps the invariant.                                          *)
(***************************************************************************)

\* An edit makes outdated what lies behind the edited cell, and no cell that is
\* not outdated is touched.
LEMMA EditKeepsFresh ==
  ASSUME OnlyVolatileReadTime, TrackedInv, IdleInv, stage = "idle", stage' = "idle",
         NEW p \in Positions,
         modified' \subseteq Positions, modifiedFormulas' \subseteq Positions,
         Pending' = Pending \cup {p}, now' = now,
         \A q \in Positions \ {p} : /\ formula'[q] = formula[q] /\ value'[q] = value[q]
                                    /\ result'[q] = result[q] /\ safe'[q] = safe[q]
  PROVE  IdleInv'
<1>1. /\ Outdated' = Stale'
      /\ Stale' \in SUBSET Positions
      /\ Pending' \subseteq Stale' /\ VolatileCells' \subseteq Stale' /\ Closed(Stale)'
  <2>1. (Pending \cup VolatileCells)' \in SUBSET Positions
    BY DEF Pending, VolatileCells, FormulaCells
  <2>2. /\ Stale' \in SUBSET Positions
        /\ (Pending \cup VolatileCells)' \subseteq Stale' /\ Closed(Stale)'
    BY <2>1 DEF Stale, Behind, Closed
  <2>3. Outdated' = Stale'
    BY DEF Outdated, Stale, Behind, Closed, Pending, VolatileCells
  <2> QED
    BY <2>2, <2>3
<1>2. PICK X \in SUBSET Positions : X = Stale'
  BY <1>1
<1>3. p \in X /\ SameOutside(X)
  BY <1>1, <1>2 DEF SameOutside
<1>4. Closed(X)
  <2> SUFFICES ASSUME NEW q \in Positions, q # p, Reads(q) \cap X # {} PROVE q \in X
    BY <1>3 DEF Closed
  <2>1. formula'[q] = formula[q] /\ ((q \in FormulaCells)' <=> q \in FormulaCells)
    BY DEF FormulaCells
  <2>2. Reads(q)' = Reads(q)
    BY <2>1 DEF Reads, ReadBy, CellsIn
  <2> QED
    BY <1>1, <1>2, <2>2 DEF Closed
<1>5. Outdated \subseteq X
  <2>1. VolatileCells \subseteq X
    <3> SUFFICES ASSUME NEW q \in VolatileCells, q # p PROVE q \in X
      BY <1>3
    <3>1. q \in VolatileCells'
      BY DEF VolatileCells, FormulaCells
    <3> QED
      BY <1>1, <1>2, <3>1
  <2>2. Pending \cup VolatileCells \subseteq X
    BY <1>1, <1>2, <2>1
  <2>3. Stale \subseteq X
    BY <1>4, <2>2, SeedsAreCells, BehindIsLeast DEF Stale, TrackedInv, ClientInv
  <2> QED
    BY <2>3, OutdatedIsBehind
<1>6. ASSUME NEW q \in FormulaCells' \ X PROVE Settled(q)'
  <2>1. q \in Positions \ X
    BY <1>6 DEF FormulaCells
  <2>2. q \in FormulaCells \ X /\ Settled(q)
    BY <1>3, <1>4, <1>5, <1>6, <2>1, ReadsOutside DEF IdleInv, TrackedInv
  <2>3. now' \in Times
    BY DEF TrackedInv, ValueInv
  <2> QED
    BY <1>3, <1>4, <2>2, <2>3, StaysSettled DEF TrackedInv
<1> QED
  BY <1>1, <1>2, <1>6 DEF IdleInv

\* A calculation starts with everything settled but what is stale.
LEMMA CalculateKeepsFresh ==
  ASSUME OnlyVolatileReadTime, TrackedInv, IdleInv, NEW t \in Times, Calculate(t)
  PROVE  FreshInv'
<1>1. /\ stage = "idle" /\ stage' = "query" /\ now' \in Times
      /\ UNCHANGED <<formula, value, result, safe, Pending>>
  BY DEF Calculate, Pending
<1>2. /\ Stale \in SUBSET Positions /\ Closed(Stale) /\ VolatileCells \subseteq Stale
      /\ Outdated \subseteq Stale
  BY SeedsAreCells, BehindIsLeast, OutdatedIsBehind DEF Stale, TrackedInv, ClientInv
<1>3. PICK X \in SUBSET Positions : X = Stale
  BY <1>2
<1>4. Closed(X) /\ SameOutside(X) /\ VolatileCells \subseteq X
  BY <1>1, <1>2, <1>3 DEF SameOutside
<1>5. \A p \in FormulaCells \ X : Settled(p)'
  BY <1>1, <1>2, <1>3, <1>4, StaysSettled DEF TrackedInv, IdleInv
<1>6. ASSUME Pending = {}
      PROVE  \A p \in FormulaCells : Throws(formula[p]) => p \in OnCircle
  BY <1>1, <1>6, OutdatedIsBehind DEF IdleInv, Settled
<1>7. FormulaCells' = FormulaCells /\ OnCircle' = OnCircle /\ Stale' = X
  BY <1>1, <1>3, CirclesStay
<1> QED
  BY <1>1, <1>5, <1>6, <1>7
     DEF FreshInv, IdleInv, QueryingInv, OthersInv, CheckedInv, InterpretedInv

\* The query leaves the document alone.
LEMMA QueryKeepsFresh ==
  ASSUME OnlyVolatileReadTime, TrackedInv, QueryingInv, Query
  PROVE  FreshInv'
<1>1. /\ stage = "query" /\ stage' = stage
      /\ UNCHANGED <<formula, value, result, safe, now, Pending>>
  BY DEF Query, docVars, Pending
<1>2. FormulaCells' = FormulaCells /\ OnCircle' = OnCircle /\ Stale' = Stale
  BY <1>1, CirclesStay
<1>3. \A p \in FormulaCells \ Stale : Settled(p)'
  BY <1>1, AllStay DEF QueryingInv, TrackedInv
<1> QED
  BY <1>1, <1>2, <1>3
     DEF FreshInv, IdleInv, QueryingInv, OthersInv, CheckedInv, InterpretedInv

\* The entries are reset, all stale formula cells among them.
LEMMA ResetKeepsFresh ==
  ASSUME OnlyVolatileReadTime, EditsUndoable, TrackedInv, AskedInv, QueryingInv,
         ResetEntries
  PROVE  FreshInv'
<1>1. /\ stage = "query" /\ stage' = "check" /\ next' = 1 /\ Answered
      /\ UNCHANGED <<formula, value, now, sorted, Pending>>
      /\ result' = [p \in Positions |-> IF p \in Entries THEN Nil ELSE result[p]]
      /\ safe' = [p \in Positions |-> p \notin Entries /\ safe[p]]
  BY DEF ResetEntries, Answered, vars, queryVars, Pending
<1>2. /\ FormulaCells' = FormulaCells /\ OnCircle' = OnCircle
      /\ Entries' = Entries /\ \A i : Entry(i)' = Entry(i)
  BY <1>1, CirclesStay DEF Entries, Entry
<1>3. ASSUME NEW p \in FormulaCells \ Entries PROVE Settled(p)'
  <2>1. Settled(p)
    BY <1>1, StaleAreEntries DEF QueryingInv
  <2>2. \A q \in Positions \ Entries : result'[q] = result[q] /\ safe'[q] = safe[q]
    BY <1>1 DEF TrackedInv, ValueInv
  <2> QED
    BY <1>1, <2>1, <2>2, OthersStay
<1>4. ASSUME NEW i \in DOMAIN sorted
      PROVE  ~(i < 1) /\ ~safe'[Entry(i)] /\ result'[Entry(i)] = Nil
  <2>1. Entry(i) \in Entries /\ Entry(i) \in Positions
    BY <1>1, EntriesAreDirty
  <2>2. ~(i < 1)
    BY SortedFacts DEF TrackedInv
  <2> QED
    BY <1>1, <2>1, <2>2
<1>5. OthersInv'
  BY <1>2, <1>3 DEF OthersInv
<1>6. CheckedInv'
  BY <1>1, <1>2, <1>4 DEF CheckedInv
<1>7. QueryingInv'
  BY <1>1, <1>2 DEF QueryingInv
<1> QED
  BY <1>1, <1>5, <1>6, <1>7 DEF FreshInv, IdleInv, InterpretedInv

\* check_circular finds out whether the next entry is on a circle.
LEMMA CheckKeepsFresh ==
  ASSUME OnlyVolatileReadTime, EditsUndoable, TrackedInv, AskedInv, QueryingInv,
         OthersInv, CheckedInv, CheckCircular
  PROVE  FreshInv'
<1> DEFINE p == Entry(next)
           unsafe == \E q \in LookedAt(p) \cap FormulaCells : ~safe[q]
<1>1. /\ stage = "check" /\ stage' = stage /\ next' = next + 1
      /\ next \in DOMAIN sorted /\ Answered
      /\ UNCHANGED <<formula, value, now, sorted, Pending>>
      /\ safe' = [safe EXCEPT ![p] = ~unsafe]
      /\ result' = [result EXCEPT ![p] = IF unsafe THEN Err ELSE @]
  <2>1. next \in DOMAIN sorted
    BY SortedFacts DEF CheckCircular, TrackedInv, ValueInv
  <2> QED
    BY <2>1 DEF CheckCircular, vars, queryVars, Pending, Answered, TrackedInv, ClientInv,
                EditInv
<1>2. unsafe <=> p \in OnCircle
  BY <1>1, Verdict
<1> HIDE DEF unsafe
<1>3. /\ FormulaCells' = FormulaCells /\ OnCircle' = OnCircle
      /\ Entries' = Entries /\ \A i : Entry(i)' = Entry(i)
  BY <1>1, CirclesStay DEF Entries, Entry
<1>4. /\ p \in Positions /\ p \in Entries
      /\ \A i \in DOMAIN sorted : /\ Entry(i) \in Positions
                                  /\ Entry(i) = p => i = next
                                  /\ i \in Nat
      /\ result \in [Positions -> Values \cup {Nil, Default, Err}]
      /\ safe \in [Positions -> BOOLEAN]
      /\ next \in Nat
  <2>1. \A i \in DOMAIN sorted : i \in Nat
    BY SortedFacts DEF TrackedInv
  <2> QED
    BY <1>1, <2>1, EntriesAreDirty DEF TrackedInv, ValueInv
<1>5. ASSUME NEW i \in DOMAIN sorted, i # next
      PROVE  result'[Entry(i)] = result[Entry(i)] /\ safe'[Entry(i)] = safe[Entry(i)]
  BY <1>1, <1>4, <1>5
<1>6. /\ result'[p] = IF p \in OnCircle THEN Err ELSE Nil
      /\ safe'[p] <=> p \notin OnCircle
  <2>1. result[p] = Nil
    BY <1>1, <1>4 DEF CheckedInv
  <2> QED
    BY <1>1, <1>2, <1>4, <2>1
<1> HIDE DEF p
<1>7. CheckedInv'
  <2> SUFFICES ASSUME NEW i \in DOMAIN sorted
               PROVE  IF i < next + 1 THEN Checked(Entry(i))'
                      ELSE ~safe'[Entry(i)] /\ result'[Entry(i)] = Nil
    BY <1>1, <1>3 DEF CheckedInv
  <2>1. CASE i = next
    BY <1>3, <1>4, <1>6, <2>1 DEF Checked, p
  <2>2. CASE i < next
    <3>1. Checked(Entry(i))
      BY <1>1, <2>2 DEF CheckedInv
    <3> QED
      BY <1>3, <1>4, <1>5, <2>2, <3>1 DEF Checked
  <2>3. CASE i > next
    BY <1>1, <1>4, <1>5, <2>3 DEF CheckedInv
  <2> QED
    BY <1>4, <2>1, <2>2, <2>3
<1>8. OthersInv'
  <2>1. \A q \in Positions \ Entries : result'[q] = result[q] /\ safe'[q] = safe[q]
    BY <1>1, <1>4
  <2> QED
    BY <1>1, <1>3, <2>1, OthersStay DEF OthersInv
<1>9. QueryingInv'
  BY <1>1, <1>3 DEF QueryingInv
<1> QED
  BY <1>1, <1>7, <1>8, <1>9 DEF FreshInv, IdleInv, InterpretedInv
\* All entries are checked when the interpretation starts.
LEMMA EndCheckKeepsFresh ==
  ASSUME OnlyVolatileReadTime, EditsUndoable, TrackedInv, AskedInv, QueryingInv,
         OthersInv, CheckedInv, EndCheck
  PROVE  FreshInv'
<1>1. /\ stage = "check" /\ stage' = "interpret" /\ next' = 1 /\ Answered
      /\ next > Len(sorted)
      /\ UNCHANGED <<formula, value, result, safe, now, sorted, Pending>>
  BY DEF EndCheck, vars, queryVars, Pending, Answered, TrackedInv, ClientInv, EditInv
<1>2. /\ FormulaCells' = FormulaCells /\ OnCircle' = OnCircle
      /\ Entries' = Entries /\ \A i : Entry(i)' = Entry(i)
  BY <1>1, CirclesStay DEF Entries, Entry
<1>3. ASSUME NEW i \in DOMAIN sorted PROVE ~(i < 1) /\ i < next
  <2>1. next \in Nat
    BY SortedFacts DEF TrackedInv, ValueInv
  <2> QED
    BY <1>1, <2>1, SortedFacts DEF TrackedInv
<1>4. InterpretedInv'
  BY <1>1, <1>2, <1>3 DEF InterpretedInv, CheckedInv, Checked
<1>5. OthersInv'
  BY <1>1, <1>2, AllStay DEF OthersInv, TrackedInv
<1>6. QueryingInv'
  BY <1>1, <1>2 DEF QueryingInv
<1> QED
  BY <1>1, <1>4, <1>5, <1>6 DEF FreshInv, IdleInv, CheckedInv

\* Interpreting the next entry settles it: what it reads is settled before.
LEMMA InterpretKeepsFresh ==
  ASSUME OnlyVolatileReadTime, EditsUndoable, TrackedInv, AskedInv, QueryingInv,
         OthersInv, InterpretedInv, Interpret
  PROVE  FreshInv'
<1>0. PICK p : p = Entry(next)
  OBVIOUS
<1>1. /\ stage = "interpret" /\ stage' = stage /\ next' = next + 1
      /\ next \in DOMAIN sorted /\ Answered
      /\ UNCHANGED <<formula, value, safe, now, sorted, Pending>>
      /\ result' = [result EXCEPT ![p] = IF @ = Nil THEN Outcome(p) ELSE @]
      /\ result[p] = Nil => ~Throws(formula[p])
  <2>1. next \in DOMAIN sorted
    BY SortedFacts DEF Interpret, TrackedInv, ValueInv
  <2> QED
    BY <1>0, <2>1 DEF Interpret, vars, queryVars, Pending, Answered, TrackedInv,
                      ClientInv, EditInv
<1>2. /\ FormulaCells' = FormulaCells /\ OnCircle' = OnCircle
      /\ Entries' = Entries /\ \A i : Entry(i)' = Entry(i)
      /\ \A q : Reads(q)' = Reads(q)
  BY <1>1, CirclesStay DEF Entries, Entry
<1>3. /\ \A i \in DOMAIN sorted : /\ Entry(i) \in FormulaCells
                                  /\ Entry(i) \in Positions
                                  /\ Entry(i) = p => i = next
                                  /\ i \in Nat
      /\ p \in Entries /\ p \in FormulaCells /\ p \in Positions
      /\ result \in [Positions -> Values \cup {Nil, Default, Err}]
      /\ next \in Nat
      /\ Err # Nil
  <2>1. \A i \in DOMAIN sorted : i \in Nat
    BY SortedFacts DEF TrackedInv
  <2>2. Entries \subseteq FormulaCells
    BY <1>1 DEF TrackedInv, ValueInv
  <2> QED
    BY <1>0, <1>1, <2>1, <2>2, EntriesAreDirty, DocumentAssumption
       DEF TrackedInv, ValueInv
<1>4. \A q \in Positions : q # p => result'[q] = result[q]
  BY <1>1, <1>3
\* A formula that does not read p, or not even itself, is worth the same.
<1>5. ASSUME NEW q \in FormulaCells, p \notin Reads(q) PROVE Outcome(q)' = Outcome(q)
  <2>1. \A r \in Reads(q) : r \in Positions /\ r # p
    BY <1>5, ReadsAreCells DEF TrackedInv
  <2>2. \A r \in Reads(q) : Fetch(r)' = Fetch(r)
    BY <1>1, <1>2, <1>4, <2>1 DEF Fetch
  <2>3. [r \in Reads(q) |-> Fetch(r)]' = [r \in Reads(q) |-> Fetch(r)]
    BY <1>2, <2>2
  <2> QED
    BY <1>1, <1>2, <2>3 DEF Outcome
<1>6. ASSUME NEW i \in DOMAIN sorted, ~(next < i), Entry(i) \notin OnCircle
      PROVE  p \notin Reads(Entry(i))
  <2> SUFFICES ASSUME p \in Reads(Entry(i)) PROVE FALSE
    OBVIOUS
  <2>1. ReadsFrom(p, Entry(i))
    BY <1>0, <1>1, <1>6, OrderServesReads
  <2> QED
    BY <1>1, <1>3, <1>6, <2>1, CycleIsCircle DEF TrackedInv
<1>7. Checked(p)
  BY <1>0, <1>1, <1>3 DEF InterpretedInv
<1>8. Settled(p)'
  <2>1. CASE p \in OnCircle
    BY <1>1, <1>2, <1>3, <1>7, <2>1 DEF Settled, UpToDate, Checked
  <2>2. CASE p \notin OnCircle
    <3>1. result'[p] = Outcome(p) /\ ~Throws(formula[p])
      BY <1>1, <1>3, <1>7, <2>2 DEF Checked
    <3>2. Outcome(p)' = Outcome(p)
      BY <1>0, <1>1, <1>3, <1>5, <1>6, <2>2
    <3> QED
      BY <1>1, <1>2, <1>7, <2>2, <3>1, <3>2 DEF Settled, UpToDate, Checked
  <2> QED
    BY <2>1, <2>2
<1>9. ASSUME NEW i \in DOMAIN sorted, i < next PROVE Settled(Entry(i))'
  <2>1. Settled(Entry(i)) /\ result'[Entry(i)] = result[Entry(i)]
    BY <1>1, <1>3, <1>4, <1>9 DEF InterpretedInv
  <2>2. ASSUME Entry(i) \notin OnCircle PROVE Outcome(Entry(i))' = Outcome(Entry(i))
    <3>1. ~(next < i)
      BY <1>3, <1>9
    <3>2. PICK q : q = Entry(i)
      OBVIOUS
    <3>3. Outcome(q)' = Outcome(q)
      BY <1>3, <1>5, <1>6, <2>2, <3>1, <3>2
    <3> QED
      BY <1>2, <3>2, <3>3
  <2> QED
    BY <1>1, <1>2, <2>1, <2>2 DEF Settled, UpToDate
<1>10. ASSUME NEW i \in DOMAIN sorted, next < i PROVE Checked(Entry(i))'
  <2>1. Checked(Entry(i)) /\ result'[Entry(i)] = result[Entry(i)]
    BY <1>1, <1>3, <1>4, <1>10 DEF InterpretedInv
  <2> QED
    BY <1>1, <1>2, <2>1 DEF Checked
<1>11. InterpretedInv'
  <2> SUFFICES ASSUME NEW i \in DOMAIN sorted
               PROVE  IF i < next + 1 THEN Settled(Entry(i))' ELSE Checked(Entry(i))'
    BY <1>1, <1>2 DEF InterpretedInv
  <2>1. CASE i = next
    <3>1. Entry(i)' = p
      BY <1>0, <1>2, <2>1
    <3>2. Settled(Entry(i))'
      BY <1>8, <3>1 DEF Settled, UpToDate
    <3> QED
      BY <1>3, <2>1, <3>2
  <2>2. CASE i < next
    BY <1>3, <1>9, <2>2
  <2>3. CASE next < i
    BY <1>3, <1>10, <2>3
  <2> QED
    BY <1>3, <2>1, <2>2, <2>3
<1>12. OthersInv'
  <2>1. \A q \in Positions \ Entries : result'[q] = result[q] /\ safe'[q] = safe[q]
    BY <1>1, <1>3, <1>4
  <2> QED
    BY <1>1, <1>2, <2>1, OthersStay DEF OthersInv
<1>13. QueryingInv'
  BY <1>1, <1>2 DEF QueryingInv
<1> QED
  BY <1>1, <1>11, <1>12, <1>13 DEF FreshInv, IdleInv, CheckedInv

\* An exception leaves the entries outdated: there was an edit, or the formula
\* would have thrown in the calculation before.
LEMMA ThrowKeepsFresh ==
  ASSUME OnlyVolatileReadTime, EditsUndoable, TrackedInv, AskedInv, QueryingInv,
         OthersInv, InterpretedInv, InterpretThrows
  PROVE  FreshInv'
<1> DEFINE p == Entry(next)
<1>1. /\ stage = "interpret" /\ stage' = "idle" /\ next \in DOMAIN sorted /\ Answered
      /\ UNCHANGED <<formula, value, safe, now, modified, modifiedFormulas, Pending>>
      /\ result' = [result EXCEPT ![p] = Default]
      /\ result[p] = Nil /\ Throws(formula[p])
  <2>1. next \in DOMAIN sorted
    <3>1. next <= Len(sorted)
      BY DEF InterpretThrows
    <3> QED
      BY <3>1, SortedFacts DEF TrackedInv, ValueInv
  <2> QED
    BY <2>1 DEF InterpretThrows, Pending, Answered, TrackedInv, ClientInv, EditInv
<1>2. p \in FormulaCells /\ p \in Entries /\ p \in Positions
  BY <1>1, EntriesAreDirty DEF TrackedInv, ValueInv
<1>3. p \notin OnCircle
  <2>1. Checked(p)
    <3>1. next \in Nat
      BY SortedFacts DEF TrackedInv, ValueInv
    <3> QED
      BY <1>1, <3>1 DEF InterpretedInv
  <2> QED
    BY <1>1, <2>1, DocumentAssumption DEF Checked
<1>4. Pending # {}
  BY <1>1, <1>2, <1>3 DEF QueryingInv
<1>5. Outdated' = Outdated /\ FormulaCells' = FormulaCells
  <2>1. /\ FormulaCells' = FormulaCells /\ \A q : Reads(q)' = Reads(q)
    BY <1>1, CirclesStay
  <2> QED
    BY <1>1, <2>1 DEF Outdated
<1>6. Entries \subseteq Outdated
  BY <1>1, <1>4, EntriesAreStale, OutdatedIsBehind
<1>7. \A q \in FormulaCells \ Entries : Settled(q)'
  <2>1. \A q \in Positions \ Entries : result'[q] = result[q] /\ safe'[q] = safe[q]
    BY <1>1, <1>2 DEF TrackedInv, ValueInv
  <2> QED
    BY <1>1, <2>1, OthersStay DEF OthersInv
<1> QED
  BY <1>1, <1>5, <1>6, <1>7
     DEF FreshInv, IdleInv, QueryingInv, OthersInv, CheckedInv, InterpretedInv

\* A calculation that ends has settled all formula cells.
LEMMA EndKeepsFresh ==
  ASSUME OnlyVolatileReadTime, EditsUndoable, TrackedInv, AskedInv, OthersInv,
         InterpretedInv, EndCalculate
  PROVE  FreshInv'
<1>1. /\ stage = "interpret" /\ stage' = "idle" /\ next > Len(sorted)
      /\ UNCHANGED <<formula, value, result, safe, now>>
  BY DEF EndCalculate
<1>2. ASSUME NEW p \in FormulaCells PROVE Settled(p)
  <2>1. CASE p \in Entries
    <3>1. PICK i \in DOMAIN sorted : p = Entry(i)
      BY <2>1 DEF Entries
    <3>2. next \in Nat
      BY SortedFacts DEF TrackedInv, ValueInv
    <3>3. i < next
      BY <1>1, <3>2, SortedFacts DEF TrackedInv
    <3> QED
      BY <1>1, <3>1, <3>3 DEF InterpretedInv
  <2>2. CASE p \notin Entries
    BY <1>1, <2>2 DEF OthersInv
  <2> QED
    BY <2>1, <2>2
<1>3. FormulaCells' = FormulaCells
  BY <1>1, CirclesStay
<1>4. \A p \in FormulaCells' : Settled(p)'
  BY <1>1, <1>2, <1>3, AllStay DEF TrackedInv
<1> QED
  BY <1>1, <1>4
     DEF FreshInv, IdleInv, QueryingInv, OthersInv, CheckedInv, InterpretedInv

\* Every step keeps the invariant.
LEMMA FreshStep ==
  ASSUME OnlyVolatileReadTime, EditsUndoable, TrackedInv, AskedInv, FreshInv,
         [DocNext]_allVars
  PROVE  FreshInv'
<1> USE DEF FreshInv
<1>1. ASSUME stage = "idle", stage' = "idle", IdleInv' PROVE FreshInv'
  BY <1>1 DEF QueryingInv, OthersInv, CheckedInv, InterpretedInv
<1>2. ASSUME NEW p \in Positions, NEW v \in Values, SetValue(p, v) PROVE FreshInv'
  <2>1. /\ stage = "idle" /\ stage' = "idle" /\ now' = now
        /\ modified' \subseteq Positions /\ modifiedFormulas' \subseteq Positions
        /\ Pending' = Pending \cup {p}
    BY <1>2 DEF SetValue, CanEdit, Pending, TrackedInv, ClientInv, EditInv
  <2>2. \A q \in Positions \ {p} : /\ formula'[q] = formula[q] /\ value'[q] = value[q]
                                   /\ result'[q] = result[q] /\ safe'[q] = safe[q]
    BY <1>2 DEF SetValue, TrackedInv, ClientInv, EditInv, ValueInv
  <2> QED
    BY <1>1, <2>1, <2>2, EditKeepsFresh
<1>3. ASSUME NEW p \in Positions, NEW f \in FormulasAt(p), SetFormula(p, f) PROVE FreshInv'
  <2>1. /\ stage = "idle" /\ stage' = "idle" /\ now' = now
        /\ modified' \subseteq Positions /\ modifiedFormulas' \subseteq Positions
        /\ Pending' = Pending \cup {p}
    BY <1>3 DEF SetFormula, CanEdit, Pending, TrackedInv, ClientInv, EditInv
  <2>2. \A q \in Positions \ {p} : /\ formula'[q] = formula[q] /\ value'[q] = value[q]
                                   /\ result'[q] = result[q] /\ safe'[q] = safe[q]
    BY <1>3 DEF SetFormula, TrackedInv, ClientInv, EditInv, ValueInv
  <2> QED
    BY <1>1, <2>1, <2>2, EditKeepsFresh
<1>4. \A p \in Positions : ~SetUnparsable(p) /\ ~EditThrows(p)
  BY NeverThrows DEF SetUnparsable, EditThrows, EditsUndoable, TrackedInv
<1>5. ASSUME NEW t \in Times, Calculate(t) PROVE FreshInv'
  BY <1>5, CalculateKeepsFresh
<1>6. CASE Query
  BY <1>6, QueryKeepsFresh
<1>7. CASE ResetEntries
  BY <1>7, ResetKeepsFresh
<1>8. CASE ResetNull
  <2>1. /\ stage # "idle" /\ stage' = "undefined"
        /\ UNCHANGED <<formula, Pending>>
    BY <1>8 DEF ResetNull, Pending
  <2>2. FormulaCells' = FormulaCells /\ OnCircle' = OnCircle
    BY <2>1, CirclesStay
  <2> QED
    BY <2>1, <2>2 DEF IdleInv, QueryingInv, OthersInv, CheckedInv, InterpretedInv
<1>9. CASE CheckCircular
  BY <1>9, CheckKeepsFresh
<1>10. CASE EndCheck
  BY <1>10, EndCheckKeepsFresh
<1>11. CASE Interpret
  BY <1>11, InterpretKeepsFresh
<1>12. CASE InterpretThrows
  BY <1>12, ThrowKeepsFresh
<1>13. CASE EndCalculate
  BY <1>13, EndKeepsFresh
<1>14. CASE UNCHANGED allVars
  <2>1. UNCHANGED <<formula, value, result, safe, now, sorted, next, stage, modified,
                    modifiedFormulas, Pending>>
    BY <1>14 DEF allVars, docVars, vars, queryVars, Pending
  <2>2. /\ FormulaCells' = FormulaCells /\ OnCircle' = OnCircle /\ Stale' = Stale
        /\ Entries' = Entries /\ \A i : Entry(i)' = Entry(i)
        /\ \A q : Reads(q)' = Reads(q)
    BY <2>1, CirclesStay DEF Entries, Entry
  <2>3. Outdated' = Outdated
    BY <2>1, <2>2 DEF Outdated
  <2>4. \A p \in FormulaCells : Settled(p) => Settled(p)'
    BY <2>1, AllStay DEF TrackedInv
  <2>5. IdleInv' /\ QueryingInv' /\ OthersInv'
    BY <2>1, <2>2, <2>3, <2>4 DEF IdleInv, QueryingInv, OthersInv
  <2>6. CheckedInv' /\ InterpretedInv'
    <3>1. \A i \in DOMAIN sorted : stage = "interpret" => Entry(i) \in FormulaCells
      BY DEF TrackedInv, ValueInv, Entries
    <3> QED
      BY <2>1, <2>2, <2>4, <3>1 DEF CheckedInv, InterpretedInv, Checked
  <2> QED
    BY <2>5, <2>6
<1> QED
  BY <1>2, <1>3, <1>4, <1>5, <1>6, <1>7, <1>8, <1>9, <1>10, <1>11, <1>12, <1>13, <1>14
     DEF DocNext, CalculateStep

(***************************************************************************)
(* ResultsFresh: whatever edits and calculations there were, and whether   *)
(* or not a calculation ended in an exception, a formula cell that no edit *)
(* since the last calculation bears upon has the result a calculation of   *)
(* the whole document would give it: recalculating the dirty cells alone   *)
(* is enough (document.cpp, calculate; formula_calc.cpp).                  *)
(***************************************************************************)
THEOREM ResultsStayFresh ==
  ASSUME EditsUndoable, OnlyVolatileReadTime
  PROVE  DocSpec => []ResultsFresh
<1>1. DocInit => FreshInv
  <2> SUFFICES ASSUME DocInit PROVE FreshInv
    OBVIOUS
  <2>1. FormulaCells = {} /\ stage = "idle"
    BY DEF DocInit, FormulaCells
  <2> QED
    BY <2>1 DEF FreshInv, IdleInv, QueryingInv, OthersInv, CheckedInv, InterpretedInv
<1>2. TrackedInv /\ AskedInv /\ FreshInv /\ [DocNext]_allVars => FreshInv'
  BY FreshStep
<1>3. FreshInv => ResultsFresh
  BY DEF FreshInv, IdleInv, ResultsFresh, Settled
<1> QED
  BY <1>1, <1>2, <1>3, TrackedInvariant, PTL DEF DocSpec
=============================================================================

------------------------- MODULE DirtyTrackerProofs -------------------------
(***************************************************************************)
(* Theorems about DirtyTracker, for every set of links and requests.       *)
(***************************************************************************)
EXTENDS DirtyTracker, TLAPS, SequenceTheorems

(***************************************************************************)
(* Listeners only depends on the links, and grows with them.               *)
(***************************************************************************)
LEMMA ListenersTyped ==
  ASSUME links \subseteq CellRanges \X CellRanges, NEW S
  PROVE  Affected(links, S) \subseteq CellRanges
<1> SUFFICES ASSUME NEW r \in S PROVE Listeners(links, r) \subseteq CellRanges
  BY DEF Affected
<1> QED
  BY DEF Listeners

LEMMA AffectedUnion ==
  ASSUME NEW L, NEW S, NEW T
  PROVE  Affected(L, S \cup T) = Affected(L, S) \cup Affected(L, T)
BY DEF Affected

LEMMA AffectedMonotonic ==
  ASSUME NEW L, NEW S, NEW T, S \subseteq T
  PROVE  Affected(L, S) \subseteq Affected(L, T)
BY DEF Affected

LEMMA LinksTyped ==
  ASSUME NEW src \in CellRanges, NEW dest \in CellRanges
  PROVE  Links(src, dest) \subseteq CellRanges \X CellRanges
<1> SUFFICES ASSUME NEW s \in dest.first.sheet..dest.last.sheet
             PROVE  OnSheet(dest, s) \in CellRanges
  BY DEF Links
<1>1. /\ dest.first \in Address /\ dest.last \in Address
      /\ s \in Int
  BY DEF CellRanges, Address
<1>2. /\ [dest.first EXCEPT !.sheet = s] \in Address
      /\ [dest.last EXCEPT !.sheet = s] \in Address
  BY <1>1 DEF Address
<1> QED
  BY <1>2 DEF OnSheet, CellRanges

-----------------------------------------------------------------------------
(***************************************************************************)
(* The inductive invariant.                                                *)
(***************************************************************************)

\* Outside the sort nothing is on the stack, and a query that does not sort
\* records no relations.
Phases ==
  /\ pc # "sort" => stack = <<>>
  /\ pc \notin {"sort", "answered"} => sorted = <<>>
  /\ ~request.sorted => rels = {} /\ sorted = <<>>
  /\ pc \in {"modified", "sort"} => request.sorted
  /\ pc = "idle" => request = NoRequest /\ final = {} /\ rels = {}
  /\ pc = "modified" => rels = {} /\ final = {}

TypeInv == TypeOK /\ Phases

LEMMA InitTypeInv == Init => TypeInv
BY DEF Init, TypeInv, TypeOK, Phases, Gray, Black, NoRequest, IsRequest

(***************************************************************************)
(* What a client of the tracker may do, whatever its links and requests:   *)
(* edit between queries, ask, wait, and take the answer.                   *)
(***************************************************************************)
Edit ==
  /\ pc = "idle"
  /\ links' \subseteq CellRanges \X CellRanges
  /\ volatile' \subseteq CellRanges
  /\ UNCHANGED queryVars

AskAny == \E q : IsRequest(q) /\ Ask(q)

AnyNext == Edit \/ AskAny \/ QueryStep \/ Return

LEMMA StepIsAnyNext == TypeInv /\ [Next]_vars => [AnyNext]_vars
<1> SUFFICES ASSUME TypeInv, Next PROVE AnyNext
  OBVIOUS
<1>1. ASSUME NEW c \in Clients, Add(c[1], c[2]) \/ Remove(c[1], c[2])
      PROVE  Edit
  <2>1. c[1] \in CellRanges /\ c[2] \in CellRanges
    BY ClientAssumption
  <2> QED
    BY <1>1, <2>1, LinksTyped DEF Add, Remove, Edit, TypeInv, TypeOK
<1>2. ASSUME NEW r \in Volatiles, AddVolatile(r) \/ RemoveVolatile(r)
      PROVE  Edit
  BY <1>2, QueryAssumption DEF AddVolatile, RemoveVolatile, Edit, TypeInv, TypeOK
<1>3. ASSUME NEW q \in Requests, Ask(q)
      PROVE  AskAny
  BY <1>3, QueryAssumption DEF AskAny
<1> QED
  BY <1>1, <1>2, <1>3 DEF Next, AnyNext

(***************************************************************************)
(* The stack of the sort grows and shrinks by one range at a time.         *)
(***************************************************************************)
LEMMA PushFacts ==
  ASSUME NEW S, NEW s \in Seq(S), NEW d \in S
  PROVE  /\ Append(s, d) \in Seq(S)
         /\ Len(Append(s, d)) = Len(s) + 1
         /\ DOMAIN Append(s, d) = 1..(Len(s) + 1)
         /\ \A i \in 1..Len(s) : Append(s, d)[i] = s[i]
         /\ Append(s, d)[Len(s) + 1] = d
OBVIOUS

LEMMA PopFacts ==
  ASSUME NEW S, NEW s \in Seq(S), s # <<>>
  PROVE  LET t == SubSeq(s, 1, Len(s) - 1)
         IN  /\ t \in Seq(S)
             /\ DOMAIN t = 1..(Len(s) - 1)
             /\ \A i \in 1..(Len(s) - 1) : t[i] = s[i]
             /\ Len(s) \in Nat \ {0}
             /\ s[Len(s)] \in S
OBVIOUS

LEMMA NextTypeInv == TypeInv /\ [AnyNext]_vars => TypeInv'
<1> SUFFICES ASSUME TypeInv, [AnyNext]_vars PROVE TypeInv'
  OBVIOUS
<1> USE DEF TypeInv, TypeOK, Phases, Gray, Black
<1>1. CASE Edit
  BY <1>1 DEF Edit, queryVars
<1>2. ASSUME NEW q, IsRequest(q), Ask(q)
      PROVE  TypeInv'
  BY <1>2 DEF Ask, trackerVars, IsRequest
<1>4. CASE AffectModified
  BY <1>4, ListenersTyped DEF AffectModified, trackerVars, IsRequest
<1>5. CASE Round
  <2>1. /\ Affected(links, cur) \subseteq CellRanges
        /\ \A mc \in cur : Listeners(links, mc) \X {mc} \subseteq CellRanges \X CellRanges
    <3>1. \A mc : Listeners(links, mc) \subseteq CellRanges
      BY DEF Listeners
    <3> QED
      BY <3>1, ListenersTyped
  <2>2. rels' \subseteq CellRanges \X CellRanges
    <3>1. UNION {Listeners(links, mc) \X {mc} : mc \in cur} \subseteq CellRanges \X CellRanges
      BY <2>1
    <3> QED
      BY <3>1, <1>5 DEF Round
  <2>3. stack = <<>> /\ sorted = <<>>
    BY <1>5 DEF Round
  <2> QED
    BY <1>5, <2>1, <2>2, <2>3 DEF Round, trackerVars
<1>6. CASE EndRounds
  BY <1>6 DEF EndRounds, trackerVars, IsRequest
<1>7. CASE VisitRoot
  BY <1>7 DEF VisitRoot, trackerVars, White
<1>8. CASE VisitDependent
  <2>1. PICK d \in Dependents(Top) \cap White : stack' = Append(stack, d)
    BY <1>8 DEF VisitDependent
  <2>2. d \in final /\ d \notin Gray /\ d \notin Black
    BY <2>1 DEF White
  <2>3. /\ stack' \in Seq(final)
        /\ DOMAIN stack' = 1..(Len(stack) + 1)
        /\ \A i \in 1..Len(stack) : stack'[i] = stack[i]
        /\ stack'[Len(stack) + 1] = d
        /\ DOMAIN stack = 1..Len(stack) /\ Len(stack) \in Nat
    BY <2>1, <2>2, PushFacts
  <2>4. \A i, k \in DOMAIN stack' : stack'[i] = stack'[k] => i = k
    BY <2>2, <2>3
  <2>5. Gray' \cap Black' = {}
    <3>1. sorted' = sorted
      BY <1>8 DEF VisitDependent
    <3>2. Black' = Black
      BY <3>1
    <3>3. Gray' \subseteq Gray \cup {d}
      <4> SUFFICES ASSUME NEW i \in DOMAIN stack' PROVE stack'[i] \in Gray \cup {d}
        OBVIOUS
      <4> QED
        BY <2>3
    <3> QED
      BY <2>2, <3>2, <3>3
  <2> QED
    BY <1>8, <2>3, <2>4, <2>5 DEF VisitDependent, trackerVars
<1>9. CASE FinishVisit
  <2>1. /\ stack' \in Seq(final)
        /\ DOMAIN stack' = 1..(Len(stack) - 1)
        /\ \A i \in 1..(Len(stack) - 1) : stack'[i] = stack[i]
        /\ DOMAIN stack = 1..Len(stack) /\ Len(stack) \in Nat \ {0}
        /\ Top \in final /\ Top = stack[Len(stack)]
    BY <1>9, PopFacts DEF FinishVisit, Top
  <2>2. /\ sorted' \in Seq(final)
        /\ DOMAIN sorted' = 1..(Len(sorted) + 1)
        /\ \A i \in 1..Len(sorted) : sorted'[i] = sorted[i]
        /\ sorted'[Len(sorted) + 1] = Top
        /\ DOMAIN sorted = 1..Len(sorted) /\ Len(sorted) \in Nat
    BY <1>9, <2>1, PushFacts DEF FinishVisit
  <2>3. Top \in Gray /\ Top \notin Black
    <3>1. Len(stack) \in DOMAIN stack
      BY <2>1
    <3>2. Top \in Gray
      BY <2>1, <3>1
    <3> QED
      BY <3>2
  <2>4. \A i, k \in DOMAIN sorted' : sorted'[i] = sorted'[k] => i = k
    BY <2>2, <2>3
  <2>5. \A i, k \in DOMAIN stack' : stack'[i] = stack'[k] => i = k
    BY <2>1
  <2>6. Gray' \cap Black' = {}
    <3>1. \A i \in DOMAIN stack' : stack'[i] # Top /\ stack'[i] \in Gray
      BY <2>1
    <3>2. Black' \subseteq Black \cup {Top}
      <4> SUFFICES ASSUME NEW i \in DOMAIN sorted' PROVE sorted'[i] \in Black \cup {Top}
        OBVIOUS
      <4> QED
        BY <2>2
    <3>3. Gray' \subseteq Gray \ {Top}
      <4> SUFFICES ASSUME NEW i \in DOMAIN stack' PROVE stack'[i] \in Gray \ {Top}
        OBVIOUS
      <4> QED
        BY <3>1
    <3> QED
      BY <3>2, <3>3
  <2>7. UNCHANGED <<links, volatile, request, pc, cur, final, rels>>
    BY <1>9 DEF FinishVisit, trackerVars
  <2>8. TypeOK'
    BY <2>1, <2>2, <2>4, <2>5, <2>6, <2>7 DEF TypeInv, TypeOK
  <2>9. Phases'
    BY <1>9, <2>7 DEF FinishVisit, TypeInv, Phases
  <2> HIDE DEF TypeOK, Phases
  <2> QED
    BY <2>8, <2>9 DEF TypeInv
<1>10. CASE EndSort
  BY <1>10 DEF EndSort, trackerVars
<1>11. CASE Return
  BY <1>11 DEF Return, trackerVars, NoRequest, IsRequest
<1>12. CASE UNCHANGED vars
  <2>1. UNCHANGED <<links, volatile, request, pc, cur, stack, sorted, final, rels>>
    BY <1>12 DEF vars, trackerVars, queryVars
  <2>2. TypeOK'
    BY <2>1 DEF TypeInv, TypeOK
  <2>3. Phases'
    BY <2>1 DEF TypeInv, Phases
  <2> HIDE DEF TypeOK, Phases
  <2> QED
    BY <2>2, <2>3 DEF TypeInv
<1> QED
  BY <1>1, <1>2, <1>4, <1>5, <1>6, <1>7, <1>8, <1>9, <1>10, <1>11, <1>12
  DEF AnyNext, AskAny, QueryStep

LEMMA TypeInvariant == Spec => []TypeInv
BY InitTypeInv, NextTypeInv, StepIsAnyNext, PTL DEF Spec

\* Every variable keeps its type, and no range gets two colors.
THEOREM TypeCorrect == Spec => []TypeOK
<1>1. TypeInv => TypeOK
  BY DEF TypeInv
<1> QED
  BY TypeInvariant, <1>1, PTL

-----------------------------------------------------------------------------
(***************************************************************************)
(* The rounds find the dirty ranges.                                       *)
(***************************************************************************)

\* Where the rounds start from.
Seeds ==
  volatile \cup request.formulas \cup
    IF request.sorted THEN {} ELSE request.modified

\* Every range found so far is still to be looked at, or what listens to it
\* has been found; so for the seeds.  Nothing that need not be dirty is found.
RoundsInv ==
  pc = "rounds" =>
    /\ Affected(links, final \ cur) \subseteq final
    /\ Affected(links, Seeds \ cur) \subseteq final
    /\ IF request.sorted THEN Affected(links, request.modified) \subseteq final
                         ELSE volatile \subseteq final
    /\ \A X : /\ Roots(links, volatile, request) \subseteq X
              /\ ClosedUnder(links, X)
             => final \subseteq X /\ Affected(links, cur) \subseteq X

\* What was found is the dirty set.
FoundInv ==
  pc \in {"sort", "answered"} =>
    IsDirtySet(links, Roots(links, volatile, request), final)

QueryInv == RoundsInv /\ FoundInv

LEMMA RoundKeepsRoundsInv ==
  ASSUME RoundsInv, Round
  PROVE  RoundsInv'
<1> USE DEF Round, trackerVars
<1>1. /\ pc = "rounds"
      /\ final' = final \cup Affected(links, cur)
      /\ cur' = Affected(links, cur) \ final
      /\ links' = links /\ request' = request /\ volatile' = volatile
      /\ Seeds' = Seeds
      /\ Roots(links, volatile, request)' = Roots(links, volatile, request)
  BY DEF Seeds, Roots
<1>2. \A S : Affected(links, S \ cur) \subseteq final
              => Affected(links, S) \subseteq final'
  <2> SUFFICES ASSUME NEW S, Affected(links, S \ cur) \subseteq final
               PROVE  Affected(links, S) \subseteq final'
    OBVIOUS
  <2>1. Affected(links, S) \subseteq Affected(links, S \ cur) \cup Affected(links, cur)
    BY DEF Affected
  <2> QED
    BY <1>1, <2>1
<1>3. Affected(links, final' \ cur') \subseteq final'
  <2>1. final' \ cur' \subseteq final
    BY <1>1
  <2>2. Affected(links, final) \subseteq final'
    BY <1>1, <1>2 DEF RoundsInv
  <2> QED
    BY <2>1, <2>2, AffectedMonotonic
<1>4. Affected(links, Seeds' \ cur') \subseteq final'
  <2>1. Affected(links, Seeds) \subseteq final'
    BY <1>1, <1>2 DEF RoundsInv
  <2>2. Seeds' \ cur' \subseteq Seeds
    BY <1>1
  <2> QED
    BY <2>1, <2>2, AffectedMonotonic
<1>5. ASSUME NEW X, Roots(links, volatile, request) \subseteq X, ClosedUnder(links, X)
      PROVE  final' \subseteq X /\ Affected(links, cur') \subseteq X
  <2>1. final \subseteq X /\ Affected(links, cur) \subseteq X
    BY <1>1, <1>5 DEF RoundsInv
  <2>2. cur' \subseteq X
    BY <1>1, <2>1
  <2>3. Affected(links, cur') \subseteq Affected(links, X)
    BY <2>2, AffectedMonotonic
  <2> QED
    BY <1>1, <1>5, <2>1, <2>3 DEF ClosedUnder
<1> QED
  BY <1>1, <1>3, <1>4, <1>5 DEF RoundsInv, ClosedUnder

LEMMA AffectModifiedStartsRounds ==
  ASSUME TypeInv, AffectModified
  PROVE  RoundsInv'
<1>1. /\ request.sorted
      /\ links' = links /\ request' = request /\ volatile' = volatile
      /\ final' = Affected(links, request.modified)
      /\ cur' = Affected(links, request.modified) \cup volatile \cup request.formulas
  BY DEF AffectModified, trackerVars, TypeInv, Phases
<1>2. final' \ cur' = {} /\ Seeds' \ cur' = {}
  BY <1>1 DEF Seeds
<1>3. Affected(links, {}) = {}
  BY DEF Affected
<1>4. ASSUME NEW X, Roots(links, volatile, request) \subseteq X, ClosedUnder(links, X)
      PROVE  final' \subseteq X /\ Affected(links, cur') \subseteq X
  <2>1. cur' \subseteq X /\ final' \subseteq X
    BY <1>1, <1>4 DEF Roots
  <2>2. Affected(links, cur') \subseteq Affected(links, X)
    BY <2>1, AffectedMonotonic
  <2> QED
    BY <1>4, <2>1, <2>2 DEF ClosedUnder
<1> QED
  BY <1>1, <1>2, <1>3, <1>4 DEF RoundsInv, Roots, ClosedUnder

LEMMA AskStartsRounds ==
  ASSUME NEW q, IsRequest(q), Ask(q)
  PROVE  RoundsInv'
<1> SUFFICES ASSUME ~q.sorted
             PROVE  RoundsInv'
  BY DEF RoundsInv, Ask
<1>1. /\ links' = links /\ request' = q /\ volatile' = volatile
      /\ cur' = q.modified \cup volatile /\ final' = volatile
      /\ q.formulas = {}
  BY DEF Ask, trackerVars, IsRequest
<1>2. final' \ cur' = {} /\ Seeds' \ cur' = {}
  BY <1>1 DEF Seeds
<1>3. Affected(links, {}) = {}
  BY DEF Affected
<1>4. ASSUME NEW X, Roots(links, volatile, q) \subseteq X, ClosedUnder(links, X)
      PROVE  final' \subseteq X /\ Affected(links, cur') \subseteq X
  <2>1. /\ volatile \subseteq X
        /\ Affected(links, q.modified) \subseteq X
    BY <1>4 DEF Roots
  <2>2. Affected(links, volatile) \subseteq Affected(links, X)
    BY <2>1, AffectedMonotonic
  <2>3. Affected(links, cur') = Affected(links, q.modified) \cup Affected(links, volatile)
    BY <1>1, AffectedUnion
  <2> QED
    BY <1>1, <1>4, <2>1, <2>2, <2>3 DEF ClosedUnder
<1> QED
  BY <1>1, <1>2, <1>3, <1>4 DEF RoundsInv, Roots, ClosedUnder

LEMMA EndRoundsFindsDirtySet ==
  ASSUME TypeInv, RoundsInv, EndRounds
  PROVE  IsDirtySet(links, Roots(links, volatile, request), final')
<1>1. /\ pc = "rounds" /\ cur = {}
      /\ final' = IF request.sorted THEN final \cup volatile \cup request.formulas
                                    ELSE final
  BY DEF EndRounds
<1>2. /\ Affected(links, final) \subseteq final
      /\ Affected(links, Seeds) \subseteq final
  BY <1>1 DEF RoundsInv
<1>3. ~request.sorted => request.formulas = {}
  BY DEF TypeInv, TypeOK, IsRequest
<1>4. Affected(links, Seeds) =
        Affected(links, volatile \cup request.formulas)
          \cup IF request.sorted THEN {} ELSE Affected(links, request.modified)
  BY DEF Seeds, Affected
<1>5. Roots(links, volatile, request) \subseteq final'
  BY <1>1, <1>2, <1>3, <1>4 DEF Roots, RoundsInv
<1>6. ClosedUnder(links, final')
  <2>1. CASE request.sorted
    <3>1. final' = final \cup (volatile \cup request.formulas)
      BY <1>1, <2>1
    <3>2. Affected(links, final') =
            Affected(links, final) \cup Affected(links, volatile \cup request.formulas)
      BY <3>1, AffectedUnion
    <3> QED
      BY <1>2, <1>4, <3>1, <3>2 DEF ClosedUnder
  <2>2. CASE ~request.sorted
    BY <1>1, <1>2, <2>2 DEF ClosedUnder
  <2> QED
    BY <2>1, <2>2
<1>7. ASSUME NEW X \in SUBSET final', Roots(links, volatile, request) \subseteq X,
             ClosedUnder(links, X)
      PROVE  X = final'
  <2>1. final \subseteq X
    BY <1>1, <1>7 DEF RoundsInv
  <2>2. volatile \cup request.formulas \subseteq X
    BY <1>7 DEF Roots
  <2> QED
    BY <1>1, <2>1, <2>2
<1> QED
  BY <1>5, <1>6, <1>7 DEF IsDirtySet

LEMMA NextQueryInv == TypeInv /\ QueryInv /\ [AnyNext]_vars => QueryInv'
<1> SUFFICES ASSUME TypeInv, QueryInv, [AnyNext]_vars PROVE QueryInv'
  OBVIOUS
<1> USE DEF QueryInv
<1>1. CASE Edit
  BY <1>1 DEF Edit, queryVars, RoundsInv, FoundInv
<1>3. ASSUME NEW q, IsRequest(q), Ask(q)
      PROVE  QueryInv'
  BY <1>3, AskStartsRounds DEF Ask, FoundInv
<1>4. CASE AffectModified
  BY <1>4, AffectModifiedStartsRounds DEF AffectModified, FoundInv
<1>5. CASE Round
  BY <1>5, RoundKeepsRoundsInv DEF Round, FoundInv
<1>6. CASE EndRounds
  <2>1. links' = links /\ volatile' = volatile /\ request' = request
    BY <1>6 DEF EndRounds, trackerVars
  <2>2. pc' # "rounds"
    BY <1>6 DEF EndRounds
  <2> QED
    BY <1>6, <2>1, <2>2, EndRoundsFindsDirtySet DEF FoundInv, RoundsInv
<1>7. CASE VisitRoot \/ VisitDependent \/ FinishVisit \/ EndSort
  <2>1. /\ links' = links /\ volatile' = volatile /\ request' = request
        /\ final' = final /\ pc = "sort" /\ pc' # "rounds"
    BY <1>7 DEF VisitRoot, VisitDependent, FinishVisit, EndSort, trackerVars
  <2> QED
    BY <2>1 DEF FoundInv, RoundsInv
<1>8. CASE Return
  BY <1>8 DEF Return, FoundInv, RoundsInv
<1>9. CASE UNCHANGED vars
  <2>1. /\ links' = links /\ volatile' = volatile /\ request' = request
        /\ final' = final /\ pc' = pc /\ cur' = cur
    BY <1>9 DEF vars, trackerVars, queryVars
  <2> QED
    BY <2>1 DEF FoundInv, RoundsInv, Seeds
<1> QED
  BY <1>1, <1>3, <1>4, <1>5, <1>6, <1>7, <1>8, <1>9 DEF AnyNext, AskAny, QueryStep

\* query_dirty_cells and query_and_sort_dirty_cells return the dirty set.
THEOREM AnswerCorrect == Spec => []AnswerIsDirtySet
<1>1. Init => QueryInv
  BY DEF Init, QueryInv, RoundsInv, FoundInv
<1>2. QueryInv => AnswerIsDirtySet
  BY DEF QueryInv, FoundInv, AnswerIsDirtySet
<1> QED
  BY <1>1, <1>2, TypeInvariant, StepIsAnyNext, NextQueryInv, PTL DEF Spec

-----------------------------------------------------------------------------
(***************************************************************************)
(* The relations given to the sort are those of the dirty ranges, all of   *)
(* them and no others.                                                     *)
(***************************************************************************)

\* Every range whose listeners have to be related to it.
Related == final \cup volatile \cup request.formulas

RelsInv ==
  /\ \A r \in rels : r[1] \in Listeners(links, r[2])
  /\ pc = "rounds" /\ request.sorted =>
       /\ cur \subseteq Related
       /\ rels \subseteq final \X Related
       /\ \A r \in Related \ cur : Listeners(links, r) \X {r} \subseteq rels
  /\ pc \in {"sort", "answered"} /\ request.sorted =>
       /\ rels \subseteq final \X final
       /\ \A r \in final : Listeners(links, r) \X {r} \subseteq rels

LEMMA RoundKeepsRelsInv ==
  ASSUME TypeInv, RelsInv, Round
  PROVE  RelsInv'
<1>1. /\ pc = "rounds" /\ pc' = "rounds"
      /\ final' = final \cup Affected(links, cur)
      /\ cur' = Affected(links, cur) \ final
      /\ links' = links /\ request' = request /\ volatile' = volatile
      /\ Related' = Related \cup Affected(links, cur)
  BY DEF Round, trackerVars, Related
<1>2. CASE ~request.sorted
  BY <1>1, <1>2 DEF Round, RelsInv, TypeInv, Phases
<1>3. CASE request.sorted
  <2> DEFINE new == UNION {Listeners(links, mc) \X {mc} : mc \in cur}
  <2>1. rels' = rels \cup new
    BY <1>3 DEF Round
  <2>2. \A r \in new : /\ r[1] \in Listeners(links, r[2])
                       /\ r \in Affected(links, cur) \X cur
    BY DEF Affected
  <2>3. rels' \subseteq final' \X Related'
    BY <1>1, <1>3, <2>1, <2>2 DEF RelsInv
  <2>4. ASSUME NEW r \in Related' \ cur'
        PROVE  Listeners(links, r) \X {r} \subseteq rels'
    <3>1. CASE r \in cur
      BY <2>1, <3>1
    <3>2. CASE r \notin cur
      <4>1. r \in Related
        BY <1>1, <2>4 DEF Related
      <4> QED
        BY <1>1, <1>3, <2>1, <3>2, <4>1 DEF RelsInv
    <3> QED
      BY <3>1, <3>2
  <2>5. cur' \subseteq Related'
    BY <1>1
  <2>6. \A r \in rels' : r[1] \in Listeners(links, r[2])
    BY <2>1, <2>2 DEF RelsInv
  <2> QED
    BY <1>1, <2>3, <2>4, <2>5, <2>6 DEF RelsInv
<1> QED
  BY <1>2, <1>3

LEMMA NextRelsInv == TypeInv /\ RelsInv /\ [AnyNext]_vars => RelsInv'
<1> SUFFICES ASSUME TypeInv, RelsInv, [AnyNext]_vars PROVE RelsInv'
  OBVIOUS
<1>1. CASE Edit
  BY <1>1 DEF Edit, queryVars, RelsInv, TypeInv, Phases
<1>3. ASSUME NEW q, IsRequest(q), Ask(q)
      PROVE  RelsInv'
  BY <1>3 DEF Ask, RelsInv
<1>4. CASE AffectModified
  <2>1. /\ rels = {} /\ rels' = {} /\ pc' = "rounds"
        /\ cur' = Related'
    BY <1>4 DEF AffectModified, trackerVars, TypeInv, Phases, Related
  <2> QED
    BY <2>1 DEF RelsInv
<1>5. CASE Round
  BY <1>5, RoundKeepsRelsInv
<1>6. CASE EndRounds
  <2>1. /\ links' = links /\ request' = request /\ rels' = rels
        /\ pc = "rounds" /\ cur = {} /\ pc' # "rounds"
        /\ request.sorted => final' = Related
    BY <1>6 DEF EndRounds, trackerVars, Related
  <2> QED
    BY <2>1 DEF RelsInv, Related
<1>7. CASE VisitRoot \/ VisitDependent \/ FinishVisit \/ EndSort
  <2>1. /\ links' = links /\ request' = request /\ rels' = rels
        /\ final' = final /\ pc = "sort" /\ pc' # "rounds"
    BY <1>7 DEF VisitRoot, VisitDependent, FinishVisit, EndSort, trackerVars
  <2> QED
    BY <2>1 DEF RelsInv
<1>8. CASE Return
  BY <1>8 DEF Return, RelsInv
<1>9. CASE UNCHANGED vars
  <2>1. /\ links' = links /\ volatile' = volatile /\ request' = request
        /\ final' = final /\ pc' = pc /\ cur' = cur /\ rels' = rels
    BY <1>9 DEF vars, trackerVars, queryVars
  <2> QED
    BY <2>1 DEF RelsInv, Related
<1> QED
  BY <1>1, <1>3, <1>4, <1>5, <1>6, <1>7, <1>8, <1>9 DEF AnyNext, AskAny, QueryStep

\* depth_first_search::run never meets a range it was not given.
THEOREM SortComplete == Spec => []SortKnowsEveryRange
<1>1. Init => RelsInv
  BY DEF Init, RelsInv
<1>2. TypeInv /\ RelsInv => SortKnowsEveryRange
  BY DEF RelsInv, SortKnowsEveryRange, TypeInv, Phases
<1> QED
  BY <1>1, <1>2, TypeInvariant, StepIsAnyNext, NextRelsInv, PTL DEF Spec

-----------------------------------------------------------------------------
(***************************************************************************)
(* The depth-first search puts them in order.                              *)
(***************************************************************************)

\* Each range on the stack listens to the next one, so what is on top leads
\* to everything below it.
PathInv ==
  \A i, k \in DOMAIN stack : k <= i => LeadsTo(links, final, stack[i], stack[k])

\* What a black range listens to is black already, or lies on a cycle with it.
BlackInv ==
  \A i \in DOMAIN sorted : \A d \in Dependents(sorted[i]) :
    \/ \E k \in DOMAIN sorted : k < i /\ sorted[k] = d
    \/ LeadsTo(links, final, sorted[i], d)

SortInv ==
  /\ PathInv
  /\ BlackInv
  /\ pc = "answered" /\ request.sorted => Black = final

LEMMA LeadsToTransitive ==
  ASSUME NEW L, NEW S, NEW r, NEW s, NEW t, LeadsTo(L, S, r, s), LeadsTo(L, S, s, t)
  PROVE  LeadsTo(L, S, r, t)
BY DEF LeadsTo

LEMMA LeadsToListener ==
  ASSUME NEW L, NEW S, NEW r, NEW s \in S, s \in Listeners(L, r)
  PROVE  LeadsTo(L, S, r, s)
BY DEF LeadsTo, Affected

LEMMA VisitKeepsPath ==
  ASSUME TypeInv, RelsInv, SortInv, VisitDependent
  PROVE  PathInv'
<1>1. PICK d \in Dependents(Top) \cap White : stack' = Append(stack, d)
  BY DEF VisitDependent
<1>2. /\ pc = "sort" /\ stack # <<>>
      /\ links' = links /\ final' = final
      /\ stack \in Seq(final) /\ Len(stack) \in Nat \ {0}
      /\ d \in final /\ Top \in final
  BY <1>1, PopFacts DEF VisitDependent, trackerVars, TypeInv, TypeOK, White, Top
<1>3. /\ DOMAIN stack' = 1..(Len(stack) + 1)
      /\ DOMAIN stack = 1..Len(stack)
      /\ \A i \in 1..Len(stack) : stack'[i] = stack[i]
      /\ stack'[Len(stack) + 1] = d
  BY <1>1, <1>2, PushFacts
<1>4. LeadsTo(links, final, d, Top)
  <2>1. <<Top, d>> \in rels
    BY <1>1 DEF Dependents
  <2>2. Top \in Listeners(links, d)
    BY <2>1 DEF RelsInv
  <2> QED
    BY <1>2, <2>2, LeadsToListener
<1>5. ASSUME NEW k \in 1..Len(stack)
      PROVE  LeadsTo(links, final, d, stack[k])
  <2>1. LeadsTo(links, final, Top, stack[k])
    <3>1. Len(stack) \in DOMAIN stack /\ k \in DOMAIN stack /\ k <= Len(stack)
      BY <1>2, <1>3
    <3> QED
      BY <3>1 DEF SortInv, PathInv, Top
  <2> QED
    BY <1>4, <2>1, LeadsToTransitive
<1>6. LeadsTo(links, final, d, d)
  BY DEF LeadsTo
<1> SUFFICES ASSUME NEW i \in DOMAIN stack', NEW k \in DOMAIN stack', k <= i
             PROVE  LeadsTo(links, final, stack'[i], stack'[k])
  BY <1>2 DEF PathInv
<1>7. CASE i \in 1..Len(stack)
  <2>1. k \in 1..Len(stack)
    BY <1>2, <1>3, <1>7
  <2> QED
    BY <1>3, <1>7, <2>1 DEF SortInv, PathInv
<1>8. CASE i = Len(stack) + 1
  BY <1>2, <1>3, <1>5, <1>6, <1>8
<1> QED
  BY <1>2, <1>3, <1>7, <1>8

LEMMA FinishKeepsOrder ==
  ASSUME TypeInv, SortInv, FinishVisit
  PROVE  BlackInv'
<1>1. /\ pc = "sort" /\ stack # <<>>
      /\ links' = links /\ final' = final /\ rels' = rels
      /\ \A r : Dependents(r)' = Dependents(r)
      /\ Dependents(Top) \cap White = {}
      /\ sorted' = Append(sorted, Top)
      /\ stack \in Seq(final) /\ Len(stack) \in Nat \ {0} /\ Top \in final
      /\ sorted \in Seq(final) /\ Len(sorted) \in Nat
  BY PopFacts DEF FinishVisit, trackerVars, TypeInv, TypeOK, Top, Dependents
<1>2. /\ DOMAIN sorted' = 1..(Len(sorted) + 1)
      /\ DOMAIN sorted = 1..Len(sorted)
      /\ DOMAIN stack = 1..Len(stack)
      /\ \A i \in 1..Len(sorted) : sorted'[i] = sorted[i]
      /\ sorted'[Len(sorted) + 1] = Top
  BY <1>1, PushFacts
<1> SUFFICES ASSUME NEW i \in DOMAIN sorted', NEW d \in Dependents(sorted'[i])
             PROVE  \/ \E k \in DOMAIN sorted' : k < i /\ sorted'[k] = d
                    \/ LeadsTo(links, final, sorted'[i], d)
  BY <1>1 DEF BlackInv
<1>3. CASE i \in 1..Len(sorted)
  <2>1. \/ \E k \in DOMAIN sorted : k < i /\ sorted[k] = d
        \/ LeadsTo(links, final, sorted[i], d)
    BY <1>2, <1>3 DEF SortInv, BlackInv
  <2> QED
    BY <1>1, <1>2, <1>3, <2>1
<1>4. CASE i = Len(sorted) + 1
  <2>1. d \in Dependents(Top) /\ d \in final
    BY <1>2, <1>4 DEF Dependents
  <2>2. d \in Gray \/ d \in Black
    BY <1>1, <2>1 DEF White
  <2>3. CASE d \in Black
    <3>1. PICK k \in DOMAIN sorted : sorted[k] = d
      BY <2>3 DEF Black
    <3> QED
      BY <1>1, <1>2, <1>4, <3>1
  <2>4. CASE d \in Gray
    <3>1. PICK k \in DOMAIN stack : stack[k] = d
      BY <2>4 DEF Gray
    <3>2. Len(stack) \in DOMAIN stack /\ k <= Len(stack)
      BY <1>1, <1>2
    <3>3. LeadsTo(links, final, Top, d)
      BY <3>1, <3>2 DEF SortInv, PathInv, Top
    <3> QED
      BY <1>2, <1>4, <3>3
  <2> QED
    BY <2>2, <2>3, <2>4
<1> QED
  BY <1>1, <1>2, <1>3, <1>4

LEMMA NextSortInv == TypeInv /\ RelsInv /\ SortInv /\ [AnyNext]_vars => SortInv'
<1> SUFFICES ASSUME TypeInv, RelsInv, SortInv, [AnyNext]_vars PROVE SortInv'
  OBVIOUS
<1>1. CASE Edit
  <2>1. stack' = <<>> /\ sorted' = <<>> /\ pc' = "idle"
    BY <1>1 DEF Edit, queryVars, TypeInv, Phases
  <2> QED
    BY <2>1 DEF SortInv, PathInv, BlackInv
<1>3. ASSUME NEW q, IsRequest(q), Ask(q)
      PROVE  SortInv'
  <2>1. stack' = <<>> /\ sorted' = <<>> /\ pc' # "answered"
    BY <1>3 DEF Ask
  <2> QED
    BY <2>1 DEF SortInv, PathInv, BlackInv
<1>4. CASE AffectModified \/ Round \/ EndRounds
  <2>1. stack' = <<>> /\ sorted' = <<>> /\ request' = request
    BY <1>4 DEF AffectModified, Round, EndRounds, TypeInv, Phases
  <2>2. request.sorted => pc' # "answered"
    BY <1>4 DEF AffectModified, Round, EndRounds
  <2> QED
    BY <2>1, <2>2 DEF SortInv, PathInv, BlackInv
<1>5. CASE VisitRoot
  <2>1. PICK r \in White : stack' = <<r>>
    BY <1>5 DEF VisitRoot
  <2>2. /\ links' = links /\ final' = final /\ rels' = rels /\ sorted' = sorted
        /\ pc' = "sort" /\ DOMAIN stack' = {1}
    BY <1>5, <2>1 DEF VisitRoot, trackerVars
  <2>3. PathInv'
    BY <2>2 DEF PathInv, LeadsTo
  <2> QED
    BY <2>2, <2>3 DEF SortInv, BlackInv, Dependents
<1>6. CASE VisitDependent
  <2>1. /\ links' = links /\ final' = final /\ rels' = rels /\ sorted' = sorted
        /\ pc' = "sort"
    BY <1>6 DEF VisitDependent, trackerVars
  <2>2. PathInv'
    BY <1>6, VisitKeepsPath
  <2> QED
    BY <2>1, <2>2 DEF SortInv, BlackInv, Dependents
<1>7. CASE FinishVisit
  <2>1. /\ links' = links /\ final' = final /\ pc' = "sort"
        /\ DOMAIN stack' \subseteq DOMAIN stack
        /\ \A i \in DOMAIN stack' : stack'[i] = stack[i]
    <3>1. /\ stack \in Seq(final) /\ stack # <<>>
          /\ stack' = SubSeq(stack, 1, Len(stack) - 1)
      BY <1>7 DEF FinishVisit, TypeInv, TypeOK
    <3>2. DOMAIN stack = 1..Len(stack)
      BY <3>1
    <3> QED
      BY <1>7, <3>1, <3>2, PopFacts DEF FinishVisit, trackerVars
  <2>2. PathInv'
    BY <2>1 DEF SortInv, PathInv
  <2>3. BlackInv'
    BY <1>7, FinishKeepsOrder
  <2> QED
    BY <2>1, <2>2, <2>3 DEF SortInv
<1>8. CASE EndSort
  <2>1. /\ links' = links /\ final' = final /\ rels' = rels /\ sorted' = sorted
        /\ stack' = stack /\ stack = <<>> /\ White = {}
    BY <1>8 DEF EndSort, trackerVars
  <2>2. Gray = {} /\ Black \subseteq final
    BY <2>1 DEF Gray, Black, TypeInv, TypeOK
  <2>3. Black' = final'
    BY <2>1, <2>2 DEF White, Black
  <2> QED
    BY <2>1, <2>3 DEF SortInv, PathInv, BlackInv, Dependents
<1>9. CASE Return
  <2>1. stack' = <<>> /\ sorted' = <<>> /\ pc' = "idle"
    BY <1>9 DEF Return
  <2> QED
    BY <2>1 DEF SortInv, PathInv, BlackInv
<1>10. CASE UNCHANGED vars
  <2>1. /\ links' = links /\ request' = request /\ final' = final /\ pc' = pc
        /\ rels' = rels /\ stack' = stack /\ sorted' = sorted
    BY <1>10 DEF vars, trackerVars, queryVars
  <2> QED
    BY <2>1 DEF SortInv, PathInv, BlackInv, Dependents, Black
<1> QED
  BY <1>1, <1>3, <1>4, <1>5, <1>6, <1>7, <1>8, <1>9, <1>10 DEF AnyNext, AskAny, QueryStep

LEMMA SortedInOrder ==
  ASSUME TypeInv, RelsInv, SortInv, pc = "answered", request.sorted
  PROVE  IsDirtyOrder(links, final, sorted)
<1>1. Black = final
  BY DEF SortInv
<1>2. \A i, k \in DOMAIN sorted : sorted[i] = sorted[k] => i = k
  BY DEF TypeInv, TypeOK
<1>3. ASSUME NEW i \in DOMAIN sorted, NEW k \in DOMAIN sorted,
             sorted[i] \in Listeners(links, sorted[k]), ~(k < i)
      PROVE  LeadsTo(links, final, sorted[i], sorted[k])
  <2>1. sorted[k] \in final
    BY <1>1 DEF Black
  <2>2. <<sorted[i], sorted[k]>> \in rels
    BY <1>3, <2>1 DEF RelsInv
  <2>3. sorted[k] \in Dependents(sorted[i])
    BY <2>1, <2>2 DEF Dependents
  <2> QED
    BY <1>2, <1>3, <2>3 DEF SortInv, BlackInv
<1> QED
  BY <1>1, <1>2, <1>3 DEF IsDirtyOrder, Black

\* query_and_sort_dirty_cells returns the dirty ranges in order of dependency.
THEOREM OrderCorrect == Spec => []AnswerInOrder
<1>1. Init => RelsInv /\ SortInv
  BY DEF Init, RelsInv, SortInv, PathInv, BlackInv
<1>2. TypeInv /\ RelsInv /\ SortInv => AnswerInOrder
  BY SortedInOrder DEF AnswerInOrder
<1> QED
  BY <1>1, <1>2, TypeInvariant, StepIsAnyNext, NextRelsInv, NextSortInv, PTL DEF Spec

-----------------------------------------------------------------------------
(***************************************************************************)
(* The tracker implements its abstract specification, step by step.        *)
(***************************************************************************)

Waiting == pc \notin {"idle", "answered"}
Answer  == IF pc = "answered" THEN [dirty |-> final, order |-> sorted]
                              ELSE [dirty |-> {}, order |-> <<>>]

\* Both specifications use the operators of Dependencies.
LEMMA SameOperators ==
  /\ \A src, dest : Tracking!Links(src, dest) = Links(src, dest)
  /\ \A L, v, q : Tracking!Roots(L, v, q) = Roots(L, v, q)
  /\ \A L, R, S : Tracking!IsDirtySet(L, R, S) <=> IsDirtySet(L, R, S)
  /\ \A L, S, o : Tracking!IsDirtyOrder(L, S, o) <=> IsDirtyOrder(L, S, o)
<1>1. \A src, dest : Tracking!Links(src, dest) = Links(src, dest)
  BY DEF Tracking!Links, Tracking!OnSheet, Links, OnSheet
<1>2. \A L, r : Tracking!Listeners(L, r) = Listeners(L, r)
  BY DEF Tracking!Listeners, Tracking!Overlaps, Listeners, Overlaps
<1>3. \A L, S : Tracking!Affected(L, S) = Affected(L, S)
  BY <1>2 DEF Tracking!Affected, Affected
<1>4. \A L, S, r, s : Tracking!LeadsTo(L, S, r, s) <=> LeadsTo(L, S, r, s)
  BY <1>3 DEF Tracking!LeadsTo, LeadsTo
<1>5. \A L, v, q : Tracking!Roots(L, v, q) = Roots(L, v, q)
  BY <1>3 DEF Tracking!Roots, Roots
<1>6. \A L, S : Tracking!ClosedUnder(L, S) <=> ClosedUnder(L, S)
  BY <1>3 DEF Tracking!ClosedUnder, ClosedUnder
<1>7. \A L, R, S : Tracking!IsDirtySet(L, R, S) <=> IsDirtySet(L, R, S)
  BY <1>6 DEF Tracking!IsDirtySet, IsDirtySet
<1>8. \A L, S, o : Tracking!IsDirtyOrder(L, S, o) <=> IsDirtyOrder(L, S, o)
  BY <1>2, <1>4 DEF Tracking!IsDirtyOrder, IsDirtyOrder
<1> QED
  BY <1>1, <1>5, <1>7, <1>8

\* The last step of a query, seen from outside.
LEMMA EndOfQueryReplies ==
  ASSUME TypeInv, Waiting, pc' = "answered",
         links' = links, volatile' = volatile, request' = request,
         ~request.sorted => sorted' = <<>>,
         AnswerIsDirtySet', AnswerInOrder'
  PROVE  Tracking!Reply
<1> DEFINE given == [dirty |-> final', order |-> sorted']
<1>1. IsDirtySet(links, Roots(links, volatile, request), given.dirty)
  BY DEF AnswerIsDirtySet
<1>2. request.sorted => IsDirtyOrder(links, given.dirty, given.order)
  BY DEF AnswerInOrder
<1>3. ~request.sorted => given.order = <<>>
  OBVIOUS
<1> HIDE DEF given
<1>4. Tracking!IsAnswer(given)
  BY <1>1, <1>2, <1>3, SameOperators DEF Tracking!IsAnswer
<1> USE DEF given
<1>5. Tracking!IsAnswer(Answer')
  BY <1>4 DEF Answer
<1> QED
  BY <1>5 DEF Tracking!Reply, Waiting, Answer

LEMMA StepImplements ==
  ASSUME TypeInv, [Next]_vars, AnswerIsDirtySet', AnswerInOrder'
  PROVE  [Tracking!Next]_(Tracking!vars)
<1> USE DEF Tracking!Next, Tracking!vars
<1>1. ASSUME NEW c \in Clients, Add(c[1], c[2]) \/ Remove(c[1], c[2])
      PROVE  Tracking!Change
  <2>1. UNCHANGED <<volatile, queryVars>> /\ pc = "idle"
    BY <1>1 DEF Add, Remove
  <2>2. links' \in {links \cup Links(c[1], c[2]), links \ Links(c[1], c[2])}
    BY <1>1 DEF Add, Remove
  <2>3. \E d \in Clients : links' \in {links \cup Tracking!Links(d[1], d[2]),
                                      links \ Tracking!Links(d[1], d[2])}
    BY <2>2, SameOperators
  <2> QED
    BY <2>1, <2>3 DEF queryVars, Tracking!Change
<1>2. ASSUME NEW r \in Volatiles, AddVolatile(r) \/ RemoveVolatile(r)
      PROVE  Tracking!Change
  BY <1>2 DEF AddVolatile, RemoveVolatile, queryVars, Tracking!Change
<1>3. ASSUME NEW q \in Requests, Ask(q)
      PROVE  Tracking!Ask
  BY <1>3 DEF Ask, trackerVars, Tracking!Ask, Tracking!NoAnswer
<1>4. CASE AffectModified \/ Round \/ VisitRoot \/ VisitDependent \/ FinishVisit
  BY <1>4 DEF AffectModified, Round, VisitRoot, VisitDependent, FinishVisit, trackerVars
<1>5. CASE EndRounds
  <2>1. /\ links' = links /\ volatile' = volatile /\ request' = request
        /\ pc = "rounds" /\ sorted' = sorted
        /\ pc' = IF request.sorted THEN "sort" ELSE "answered"
    BY <1>5 DEF EndRounds, trackerVars
  <2>2. CASE request.sorted
    BY <2>1, <2>2
  <2>3. CASE ~request.sorted
    <3>1. sorted' = <<>>
      BY <2>1, <2>3 DEF TypeInv, Phases
    <3> QED
      BY <2>1, <2>3, <3>1, EndOfQueryReplies DEF Waiting
  <2> QED
    BY <2>2, <2>3
<1>6. CASE EndSort
  <2>1. /\ links' = links /\ volatile' = volatile /\ request' = request
        /\ pc = "sort" /\ pc' = "answered" /\ request.sorted
    BY <1>6 DEF EndSort, trackerVars, TypeInv, Phases
  <2> QED
    BY <2>1, EndOfQueryReplies DEF Waiting
<1>7. CASE Return
  BY <1>7 DEF Return, trackerVars, Tracking!Forget, Tracking!NoRequest,
              Tracking!NoAnswer, NoRequest
<1>8. CASE UNCHANGED vars
  BY <1>8 DEF vars, trackerVars, queryVars
<1> QED
  BY <1>1, <1>2, <1>3, <1>4, <1>5, <1>6, <1>7, <1>8 DEF Next, QueryStep

\* Of DependencyTracking everything but that queries end: nothing changes but by
\* the client's calls, and every answer is the dirty set, in order if asked for.
THEOREM TrackingImplemented ==
  Spec => Tracking!Init /\ [][Tracking!Next]_(Tracking!vars)
<1>1. Init => Tracking!Init
  BY DEF Init, Tracking!Init, Tracking!NoRequest, Tracking!NoAnswer, NoRequest
<1> QED
  BY <1>1, TypeInvariant, AnswerCorrect, OrderCorrect, StepImplements, PTL DEF Spec
=============================================================================

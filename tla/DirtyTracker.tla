---------------------------- MODULE DirtyTracker ----------------------------
(***************************************************************************)
(* The dirty cell tracker (dirty_cell_tracker.cpp) and the depth-first     *)
(* sort it uses (depth_first_search.hpp).                                  *)
(*                                                                         *)
(* The tracker is not thread safe and its client calls it from one thread, *)
(* so links and volatile cells do not change while a query runs; the loops *)
(* of a query are steps of their own.  The sets the code iterates over are *)
(* unordered (abs_range_set_t is a hash set) except the dependents of a    *)
(* range in the sort, which are in a std::set.                             *)
(***************************************************************************)
EXTENDS Dependencies

CONSTANTS
  Clients,      \* the <<src, dest>> pairs clients may add and remove
  Volatiles,    \* the ranges clients may declare volatile
  Requests      \* the queries clients may make

VARIABLES
  links,        \* m_grids
  volatile,     \* m_volatile_cells
  request,      \* the arguments of the query
  pc,           \* where the query is
  cur,          \* cur_modified_cells
  final,        \* dirty_formula_cells / final_dirty_formula_cells
  rels,         \* the relations for the sort: <<pre, dep>>
  stack,        \* the activations of visit(): the gray ranges
  sorted        \* the handler's output: the black ranges

trackerVars == <<links, volatile>>
queryVars   == <<request, pc, cur, final, rels, stack, sorted>>
vars        == <<trackerVars, queryVars>>

ASSUME ClientAssumption ==
  /\ Clients \subseteq CellRanges \X CellRanges
  /\ \A c \in Clients : Trackable(c[1], c[2])

\* The arguments of a query; query_dirty_cells takes no formula cells.
IsRequest(q) ==
  /\ q.modified \subseteq CellRanges /\ q.formulas \subseteq CellRanges
  /\ q.sorted \in BOOLEAN
  /\ ~q.sorted => q.formulas = {}

ASSUME QueryAssumption ==
  /\ Volatiles \subseteq CellRanges
  /\ \A q \in Requests : IsRequest(q)

NoRequest == [modified |-> {}, formulas |-> {}, sorted |-> FALSE]

Init ==
  /\ links = {} /\ volatile = {}
  /\ request = NoRequest
  /\ pc = "idle"
  /\ cur = {} /\ final = {} /\ rels = {} /\ stack = <<>> /\ sorted = <<>>

-----------------------------------------------------------------------------
(* The calls that change the tracker.                                      *)

Add(src, dest) ==
  /\ pc = "idle"
  /\ links' = links \cup Links(src, dest)
  /\ UNCHANGED <<volatile, queryVars>>

\* As if the destination were dropped although others still listen to it.
RemoveEntry(src, dest) ==
  /\ pc = "idle"
  /\ links' = {l \in links : \A m \in Links(src, dest) : l[2] # m[2]}
  /\ UNCHANGED <<volatile, queryVars>>

Remove(src, dest) ==
  /\ pc = "idle"
  /\ links' = links \ Links(src, dest)
  /\ UNCHANGED <<volatile, queryVars>>

AddVolatile(r) ==
  /\ pc = "idle"
  /\ volatile' = volatile \cup {r}
  /\ UNCHANGED <<links, queryVars>>

RemoveVolatile(r) ==
  /\ pc = "idle"
  /\ volatile' = volatile \ {r}
  /\ UNCHANGED <<links, queryVars>>

-----------------------------------------------------------------------------
(* query_dirty_cells (sorted = FALSE) and query_and_sort_dirty_cells.      *)

Ask(q) ==
  /\ pc = "idle"
  /\ request' = q
  /\ pc' = IF q.sorted THEN "modified" ELSE "rounds"
  /\ cur' = IF q.sorted THEN {} ELSE q.modified \cup volatile
  /\ final' = IF q.sorted THEN {} ELSE volatile
  /\ rels' = {} /\ stack' = <<>> /\ sorted' = <<>>
  /\ UNCHANGED trackerVars

(***************************************************************************)
(* What the modified cells affect; these cells are not formula cells       *)
(* themselves, so their relations are not recorded.  The next round starts *)
(* from there, from the volatile cells and from the cells known dirty.     *)
(***************************************************************************)
AffectModified ==
  /\ pc = "modified" /\ pc' = "rounds"
  /\ final' = Affected(links, request.modified)
  /\ cur' = Affected(links, request.modified) \cup volatile \cup request.formulas
  /\ UNCHANGED <<trackerVars, request, rels, stack, sorted>>

\* As if the precedent and the dependent were swapped.
RoundSwapped ==
  /\ pc = "rounds" /\ cur # {}
  /\ final' = final \cup Affected(links, cur)
  /\ cur' = Affected(links, cur) \ final
  /\ rels' = IF request.sorted
               THEN rels \cup UNION {{mc} \X Listeners(links, mc) : mc \in cur}
               ELSE rels
  /\ UNCHANGED <<trackerVars, request, pc, stack, sorted>>

\* As if a range were put in the chain whether or not it was seen before.
RoundUnchecked ==
  /\ pc = "rounds" /\ cur # {}
  /\ final' = final \cup Affected(links, cur)
  /\ cur' = Affected(links, cur)
  /\ rels' = rels \cup UNION {Listeners(links, mc) \X {mc} : mc \in cur}
  /\ UNCHANGED <<trackerVars, request, pc, stack, sorted>>

\* One round; a range seen before is not put in the chain again.
Round ==
  /\ pc = "rounds" /\ cur # {}
  /\ final' = final \cup Affected(links, cur)
  /\ cur' = Affected(links, cur) \ final
  /\ rels' = IF request.sorted
               THEN rels \cup UNION {Listeners(links, mc) \X {mc} : mc \in cur}
               ELSE rels
  /\ UNCHANGED <<trackerVars, request, pc, stack, sorted>>

\* As if the cells that were dirty at once were left out of the answer.
EndRoundsAffectedOnly ==
  /\ pc = "rounds" /\ cur = {}
  /\ pc' = IF request.sorted THEN "sort" ELSE "answered"
  /\ UNCHANGED <<trackerVars, request, cur, final, rels, stack, sorted>>

EndRounds ==
  /\ pc = "rounds" /\ cur = {}
  /\ pc' = IF request.sorted THEN "sort" ELSE "answered"
  /\ final' = IF request.sorted THEN final \cup volatile \cup request.formulas
                               ELSE final
  /\ UNCHANGED <<trackerVars, request, cur, rels, stack, sorted>>

-----------------------------------------------------------------------------
(* depth_first_search::run and visit.                                      *)

Gray  == {stack[i] : i \in DOMAIN stack}
Black == {sorted[i] : i \in DOMAIN sorted}
White == final \ (Gray \cup Black)

Top == stack[Len(stack)]

\* The ranges visit() goes to from r, unless their color says otherwise.
Dependents(r) == {d \in final : <<r, d>> \in rels}

\* As if run() did not look at the color.
VisitRootAnyColor ==
  /\ pc = "sort" /\ stack = <<>> /\ White # {}
  /\ \E r \in final : stack' = <<r>>
  /\ UNCHANGED <<trackerVars, request, pc, cur, final, rels, sorted>>

VisitRoot ==
  /\ pc = "sort" /\ stack = <<>>
  /\ \E r \in White : stack' = <<r>>
  /\ UNCHANGED <<trackerVars, request, pc, cur, final, rels, sorted>>

VisitDependent ==
  /\ pc = "sort" /\ stack # <<>>
  /\ \E d \in Dependents(Top) \cap White :
       /\ \A e \in Dependents(Top) \cap White : ~RangeBefore(e, d)
       /\ stack' = Append(stack, d)
  /\ UNCHANGED <<trackerVars, request, pc, cur, final, rels, sorted>>

FinishVisit ==
  /\ pc = "sort" /\ stack # <<>>
  /\ Dependents(Top) \cap White = {}
  /\ sorted' = Append(sorted, Top)
  /\ stack' = SubSeq(stack, 1, Len(stack) - 1)
  /\ UNCHANGED <<trackerVars, request, pc, cur, final, rels>>

EndSort ==
  /\ pc = "sort" /\ stack = <<>> /\ White = {}
  /\ pc' = "answered"
  /\ UNCHANGED <<trackerVars, request, cur, final, rels, stack, sorted>>

QueryStep ==
  \/ AffectModified \/ Round \/ EndRounds
  \/ VisitRoot \/ VisitDependent \/ FinishVisit \/ EndSort

\* The caller takes the answer; the locals of the query are gone.
Return ==
  /\ pc = "answered" /\ pc' = "idle"
  /\ request' = NoRequest
  /\ cur' = {} /\ final' = {} /\ rels' = {} /\ stack' = <<>> /\ sorted' = <<>>
  /\ UNCHANGED trackerVars

Next ==
  \/ \E c \in Clients : Add(c[1], c[2]) \/ Remove(c[1], c[2])
  \/ \E r \in Volatiles : AddVolatile(r) \/ RemoveVolatile(r)
  \/ \E q \in Requests : Ask(q)
  \/ QueryStep
  \/ Return

Spec == Init /\ [][Next]_vars

\* A query runs on the caller's thread until it returns.
FairSpec == Spec /\ WF_vars(QueryStep)

-----------------------------------------------------------------------------
(* Properties.                                                             *)

\* Every variable has its type, and no range has two colors: a range is on
\* the stack at most once and is never visited again once it is finished.
TypeOK ==
  /\ links \subseteq CellRanges \X CellRanges
  /\ volatile \subseteq CellRanges
  /\ IsRequest(request)
  /\ pc \in {"idle", "modified", "rounds", "sort", "answered"}
  /\ cur \subseteq CellRanges /\ final \subseteq CellRanges
  /\ rels \subseteq CellRanges \X CellRanges
  /\ stack \in Seq(final) /\ sorted \in Seq(final)
  /\ Gray \cap Black = {}
  /\ \A i, k \in DOMAIN stack : stack[i] = stack[k] => i = k
  /\ \A i, k \in DOMAIN sorted : sorted[i] = sorted[k] => i = k

\* Both queries return exactly the ranges that have to be recalculated: the
\* volatile cells, the cells known dirty, what listens to a modified cell,
\* and all that listens to these, directly or not (query_dirty_cells and
\* query_and_sort_dirty_cells).
AnswerIsDirtySet ==
  pc = "answered" =>
    IsDirtySet(links, Roots(links, volatile, request), final)

\* query_and_sort_dirty_cells returns every dirty range once, and each after
\* the dirty ranges it listens to unless the two are on a cycle.
AnswerInOrder ==
  pc = "answered" /\ request.sorted => IsDirtyOrder(links, final, sorted)

\* The sort is never given a relation to a range that is not among those to
\* sort: get_cell_index would throw, run() would print the error and return,
\* and the ranges not yet visited would be missing from the answer.
SortKnowsEveryRange ==
  pc = "sort" => rels \subseteq final \X final

\* A query returns, cycles or not.
QueryReturns == pc \in {"modified", "rounds"} ~> pc = "answered"

\* The tracker implements its abstract specification: a query is answered in
\* one step, and nothing but the client's calls changes what is tracked.
Tracking == INSTANCE DependencyTracking WITH
  waiting <- pc \notin {"idle", "answered"},
  answer <- IF pc = "answered" THEN [dirty |-> final, order |-> sorted]
                               ELSE [dirty |-> {}, order |-> <<>>]

ImplementsTracking == Tracking!Spec
=============================================================================

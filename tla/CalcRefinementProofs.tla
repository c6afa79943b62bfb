------------------------- MODULE CalcRefinementProofs -------------------------
(***************************************************************************)
(* The threaded calculation implements the abstract one: every step of     *)
(* CalcQueue settles one cell the way Calculation allows it, or changes    *)
(* nothing that Calculation sees.                                          *)
(***************************************************************************)
EXTENDS CalcCallProofs

-----------------------------------------------------------------------------
(* Circular, the largest set of cells that refer into the set: unfolded     *)
(* once, and folded.                                                        *)

\* A cell of the circle refers to another one, unless it is not calculated.
LEMMA CircularUnfold ==
  ASSUME NEW j, NEW c \in Circular(j)
  PROVE  IF c \in Dirty(j) THEN \E d \in j.refs[c] : d \in Circular(j) ELSE ~j.safe[c]
BY DEF Circular

\* A cell that refers to a cell of the circle is one of it.
LEMMA CircularFold ==
  ASSUME NEW j, NEW c \in Cells,
         IF c \in Dirty(j) THEN \E d \in j.refs[c] : d \in Circular(j) ELSE ~j.safe[c]
  PROVE  c \in Circular(j)
<1>1. CASE c \notin Dirty(j)
  <2>1. /\ {c} \in SUBSET Cells
        /\ \A x \in {c} : IF x \in Dirty(j) THEN j.refs[x] \cap {c} # {} ELSE ~j.safe[x]
    BY <1>1
  <2> QED
    BY <2>1 DEF Circular
<1>2. CASE c \in Dirty(j)
  <2>1. PICK d \in j.refs[c] : d \in Circular(j)
    BY <1>2
  <2>2. PICK X \in SUBSET Cells :
          /\ d \in X
          /\ \A x \in X : IF x \in Dirty(j) THEN j.refs[x] \cap X # {} ELSE ~j.safe[x]
    BY <2>1 DEF Circular
  <2> DEFINE Y == X \cup {c}
  <2>3. /\ Y \in SUBSET Cells /\ c \in Y
        /\ \A x \in Y : IF x \in Dirty(j) THEN j.refs[x] \cap Y # {} ELSE ~j.safe[x]
    BY <1>2, <2>1, <2>2
  <2> QED
    BY <2>3 DEF Circular
<1> QED
  BY <1>1, <1>2

(***************************************************************************)
(* A path that leads from x to another cell c starts with a reference of x *)
(* from which c is reached.                                                *)
(***************************************************************************)
LEMMA ReachesStep ==
  ASSUME NEW j, NEW x \in Cells, NEW c, Reaches(j, x, c), x # c,
         \A y \in Cells : j.refs[y] \subseteq Cells
  PROVE  \E y \in j.refs[x] : Reaches(j, y, c)
<1> DEFINE Closed(X) == \A y \in X : j.refs[y] \subseteq X
           Away == {X \in SUBSET Cells : Closed(X) /\ c \notin X}
           Z == (UNION Away) \cup {x}
<1>1. SUFFICES ASSUME \A y \in j.refs[x] : ~Reaches(j, y, c) PROVE FALSE
  OBVIOUS
<1>a. \A X \in Away : X \subseteq Cells /\ c \notin X /\ Closed(X)
  OBVIOUS
<1>2. ASSUME NEW y \in j.refs[x] PROVE y \in UNION Away
  <2>1. PICK X \in SUBSET Cells : y \in X /\ Closed(X) /\ c \notin X
    BY <1>1 DEF Reaches
  <2>2. X \in Away
    BY <2>1
  <2> QED
    BY <2>1, <2>2
<1> HIDE DEF Away
<1>3. ASSUME NEW y \in UNION Away PROVE j.refs[y] \subseteq UNION Away
  <2>1. PICK X \in Away : y \in X
    BY <1>3
  <2> QED
    BY <1>a, <2>1
<1>4. Closed(Z)
  BY <1>2, <1>3
<1>5. Z \in SUBSET Cells /\ x \in Z
  BY <1>a
<1>6. c \notin Z
  BY <1>a
<1> HIDE DEF Z
<1> QED
  BY <1>4, <1>5, <1>6 DEF Reaches

(***************************************************************************)
(* A cell that a reference of its own leads back to is on a circle: the    *)
(* cells in between are being calculated too, since they refer to it.      *)
(***************************************************************************)
LEMMA CycleIsCircular ==
  ASSUME NEW j, DirtyClosed(j), \A y \in Cells : j.refs[y] \subseteq Cells,
         NEW c \in Cells, c \in Dirty(j), NEW d \in j.refs[c], Reaches(j, d, c)
  PROVE  c \in Circular(j)
<1> DEFINE X == {x \in Cells : Reaches(j, d, x) /\ Reaches(j, x, c)}
<1>1. c \in X /\ d \in X
  BY DEF Reaches
<1>2. ASSUME NEW x \in X PROVE x \in Dirty(j)
  <2>1. \A y \in Cells \ Dirty(j) : j.refs[y] \subseteq Cells \ Dirty(j)
    BY DEF DirtyClosed
  <2>2. Cells \ Dirty(j) \in SUBSET Cells /\ c \notin Cells \ Dirty(j)
    OBVIOUS
  <2> QED
    BY <1>2, <2>1, <2>2 DEF Reaches
<1>3. ASSUME NEW x \in X PROVE j.refs[x] \cap X # {}
  <2>1. CASE x = c
    BY <1>1, <2>1
  <2>2. CASE x # c
    <3>1. PICK y \in j.refs[x] : Reaches(j, y, c)
      BY <2>2, ReachesStep
    <3>2. y \in Cells /\ Reaches(j, d, y)
      BY DEF Reaches
    <3> QED
      BY <3>1, <3>2
  <2> QED
    BY <2>1, <2>2
<1>4. X \in SUBSET Cells
  OBVIOUS
<1> HIDE DEF X
<1> QED
  BY <1>1, <1>2, <1>3, <1>4 DEF Circular

-----------------------------------------------------------------------------
(***************************************************************************)
(* CircleInv: check_circular finds exactly the cells on or behind a circle *)
(* of references, and no cell has a result before its turn.                *)
(***************************************************************************)
CircleInv ==
  Promised(job) =>
    /\ main # "begin" =>
         /\ \A c \in Cells : safe[c] => c \notin Circular(job)
         /\ \A m \in 1..checked : ~safe[Cell(m)] => Cell(m) \in Circular(job)
    /\ main = "check" =>
         \A c \in Dirty(job) : result[c] # Nil => \E k \in 1..checked : Cell(k) = c

(***************************************************************************)
(* The verdict on the next cell, from the verdicts on those before it.     *)
(***************************************************************************)
LEMMA Verdict ==
  ASSUME TypeInv, CheckInv, CircleInv, Promised(job), main = "check",
         NEW n \in Entries, n = checked + 1
  PROVE  /\ UnsafeRefs(Cell(n)) = {} => Cell(n) \notin Circular(job)
         /\ UnsafeRefs(Cell(n)) # {} => Cell(n) \in Circular(job)
<1> DEFINE c == Cell(n)
<1>t. /\ c \in Cells /\ c \in Dirty(job)
      /\ \A x \in Cells : job.refs[x] \subseteq Cells
      /\ N \in Nat /\ Entries = 1..N /\ checked \in Nat
      /\ DOMAIN job.order = Entries
      /\ \A k \in Entries : job.order[k] = Cell(k)
  BY JobFacts DEF TypeInv, TypeOK, IsJob, Dirty, Entries, N, Cell
<1> HIDE DEF c
<1>1. ASSUME UnsafeRefs(c) = {}, c \in Circular(job) PROVE FALSE
  <2>1. PICK d \in job.refs[c] : d \in Circular(job)
    BY <1>1, <1>t, CircularUnfold
  <2>2. safe[d] /\ d \in Cells
    BY <1>1, <1>t DEF UnsafeRefs
  <2> QED
    BY <2>1, <2>2 DEF CircleInv
<1>2. ASSUME NEW d \in UnsafeRefs(c) PROVE c \in Circular(job)
  <2>1. d \in job.refs[c] /\ d \in Cells /\ ~safe[d]
    BY <1>t DEF UnsafeRefs
  <2>2. CASE d \notin Dirty(job)
    <3>1. ~job.safe[d]
      BY <2>1, <2>2 DEF CheckInv
    <3>2. d \in Circular(job)
      BY <2>1, <2>2, <3>1, CircularFold
    <3> QED
      BY <1>t, <2>1, <3>2, CircularFold
  <2>3. ASSUME NEW k \in 1..checked, Cell(k) = d PROVE c \in Circular(job)
    <3>1. d \in Circular(job)
      BY <2>1, <2>3 DEF CircleInv
    <3> QED
      BY <1>t, <2>1, <3>1, CircularFold
  <2>4. ASSUME d \in Dirty(job), ~\E k \in 1..checked : Cell(k) = d
        PROVE  c \in Circular(job)
    <3>1. PICK k \in Entries : Cell(k) = d
      BY <1>t, <2>4 DEF Dirty
    <3>2. ~(k < n)
      BY <1>t, <2>4, <3>1
    <3>3. job.order[k] \in job.refs[job.order[n]]
      BY <1>t, <2>1, <3>1 DEF c
    <3>4. Reaches(job, d, c)
      BY <1>t, <3>1, <3>2, <3>3 DEF Promised, InTopologicalOrder, c
    <3> QED
      BY <1>t, <2>1, <3>4, CycleIsCircular DEF Promised
  <2> QED
    BY <2>2, <2>3, <2>4
<1> QED
  BY <1>1, <1>2 DEF c

\* Every step keeps CircleInv: the check judges each cell by the circle it is on.
LEMMA CircleStep ==
  SafetyInv /\ CheckInv /\ CircleInv /\ Next => CircleInv'
<1> SUFFICES ASSUME SafetyInv, CheckInv, CircleInv, Next, Promised(job)
             PROVE  /\ main' # "begin" =>
                         /\ \A c \in Cells : safe'[c] => c \notin Circular(job)
                         /\ \A m \in 1..checked' : ~safe'[Cell(m)] => Cell(m) \in Circular(job)
                    /\ main' = "check" =>
                         \A c \in Dirty(job) :
                           result'[c] # Nil => \E k \in 1..checked' : Cell(k) = c
  BY JobKept, SameEntries DEF CircleInv, SafetyInv
<1> USE DEF SafetyInv
<1>t. /\ N \in Nat /\ checked \in 0..N /\ Entries = 1..N
      /\ \A i \in Entries : Cell(i) \in Cells
      /\ Dirty(job) \subseteq Cells
      /\ result \in [Cells -> Results \cup {Nil}]
      /\ safe \in [Cells -> BOOLEAN]
  BY JobFacts DEF TypeInv, TypeOK, Entries, N, Cell
<1>1. CASE Begin
  <2>1. /\ main = "begin" /\ checked = 0 /\ checked' = 0
        /\ \A c \in Cells \ Dirty(job) : safe'[c] = job.safe[c]
        /\ \A c \in Dirty(job) : ~safe'[c] /\ result'[c] = Nil
    BY <1>1, <1>t DEF Begin, CheckInv, ResetCells
  <2>2. \A c \in Cells : safe'[c] => c \notin Circular(job)
    BY <2>1, CircularUnfold
  <2>3. 1..checked' = {}
    BY <2>1
  <2> QED
    BY <2>1, <2>2, <2>3
<1>2. CASE CheckCircular
  <2>1. PICK n \in Entries : n = checked + 1
    BY <1>2, <1>t DEF CheckCircular
  <2>2. /\ main = "check" /\ checked' = n
        /\ \/ /\ UnsafeRefs(Cell(n)) = {}
              /\ safe' = [safe EXCEPT ![Cell(n)] = TRUE]
              /\ UNCHANGED result
           \/ /\ UnsafeRefs(Cell(n)) # {}
              /\ result' = [result EXCEPT ![Cell(n)] = RefNotAvailable]
              /\ UNCHANGED safe
    BY <1>2, <2>1 DEF CheckCircular
  <2>3. /\ UnsafeRefs(Cell(n)) = {} => Cell(n) \notin Circular(job)
        /\ UnsafeRefs(Cell(n)) # {} => Cell(n) \in Circular(job)
    BY <2>1, <2>2, Verdict
  <2>4. /\ \A c \in Cells : safe[c] => c \notin Circular(job)
        /\ \A m \in 1..checked : ~safe[Cell(m)] => Cell(m) \in Circular(job)
        /\ \A c \in Dirty(job) : result[c] # Nil => \E k \in 1..checked : Cell(k) = c
    BY <2>2 DEF CircleInv
  <2>5. \A c \in Cells : safe'[c] => c \notin Circular(job)
    BY <2>2, <2>3, <2>4, <1>t
  <2>6. ASSUME NEW m \in 1..checked', ~safe'[Cell(m)] PROVE Cell(m) \in Circular(job)
    <3>1. m \in 1..checked \/ m = n
      BY <2>1, <2>2, <1>t
    <3>2. Cell(m) \in Cells
      BY <2>1, <2>2, <1>t
    <3>3. CASE m \in 1..checked
      BY <2>2, <2>4, <2>6, <3>2, <3>3, <1>t
    <3>4. CASE m = n
      BY <2>2, <2>3, <2>6, <3>2, <3>4, <1>t
    <3> QED
      BY <3>1, <3>3, <3>4
  <2>7. ASSUME NEW c \in Dirty(job), result'[c] # Nil PROVE \E k \in 1..checked' : Cell(k) = c
    <3>1. n \in 1..checked' /\ \A k \in 1..checked : k \in 1..checked'
      BY <2>1, <2>2, <1>t
    <3>2. CASE c = Cell(n)
      BY <3>1, <3>2
    <3>3. CASE c # Cell(n)
      <4>1. result[c] # Nil
        BY <2>2, <2>7, <3>3, <1>t
      <4> QED
        BY <2>4, <3>1, <4>1
    <3> QED
      BY <3>2, <3>3
  <2> QED
    BY <2>5, <2>6, <2>7
<1>3. CASE ~Begin /\ ~CheckCircular /\ main \in {"begin", "check"}
  <2>1. \A i \in Entries : ~TaskStep(i) /\ ~TaskWakes(i)
    BY <1>3, NoTasksYet
       DEF TaskStep, ReturnCached, StartInterpret, FetchSelf, Fetch, Store, Throw,
           NotifyAll, TaskWakes
  <2>2. ~InlineReturn /\ ~WaitOneWaits /\ ~MainWakes /\ ~WaitOneTakes /\ ~WaitOneGets
        /\ ~WaitOneNotifies /\ ~Leave /\ ~Returned /\ ~InlineCall
    BY <1>3
       DEF InlineReturn, WaitOneWaits, WaitOneTakes, WaitOneGets, WaitOneNotifies, Leave,
           MainWakes, Returned, InlineCall
  <2>3. ~Push /\ ~PushNotifies /\ ~PushWaits /\ ~LauncherWakes
    BY <1>3 DEF Push, PushNotifies, PushWaits, LauncherWakes, TypeInv, Bounds
  <2>4. StartRun
    BY <1>3, <2>1, <2>2, <2>3, NextCases DEF QueueOnly
  <2>5. /\ main = "check" /\ main' # "check" /\ UNCHANGED <<safe, checked>>
    BY <2>4 DEF StartRun, MainAfter, calcVars
  <2> QED
    BY <2>5 DEF CircleInv
<1>4. CASE main \notin {"begin", "check"}
  BY <1>4, DirtyWritten DEF CircleInv
<1> QED
  BY <1>1, <1>2, <1>3, <1>4

\* The check has judged the cells it has passed in every state of a call.
LEMMA CircleInvariant == Spec => []CircleInv
<1>1. Init => CircleInv
  BY DEF Init, CircleInv
<1>2. SafetyInv /\ CheckInv /\ CircleInv /\ [Next]_vars => CircleInv'
  <2> SUFFICES ASSUME SafetyInv, CheckInv, CircleInv, [Next]_vars PROVE CircleInv'
    OBVIOUS
  <2>1. CASE UNCHANGED vars
    <3>1. UNCHANGED <<job, result, safe, main, checked>>
      BY <2>1 DEF vars, calcVars, mainVars
    <3> QED
      BY <3>1, SameEntries DEF CircleInv
  <2> QED
    BY <2>1, CircleStep
<1> QED
  BY <1>1, <1>2, SafetyInvariant, CheckInvariant, PTL DEF Spec

-----------------------------------------------------------------------------
(***************************************************************************)
(* The refinement, step by step.  Settled is what Calculation sees.        *)
(***************************************************************************)
\* Calculation works on the same jobs.
LEMMA SameData ==
  ASSUME NEW j, NEW c, NEW v, NEW r
  PROVE  /\ Calc!IsJob(j) <=> IsJob(j)
         /\ Calc!Dirty(j) = Dirty(j)
         /\ Calc!Circular(j) = Circular(j)
         /\ Calc!IsOutcome(j, c, v, r) <=> IsOutcome(j, c, v, r)
         /\ Calc!Promised(j) <=> Promised(j)
<1>1. Calc!IsJob(j) <=> IsJob(j)
  BY DEF IsJob, Calc!IsJob, ReadSeqs, Calc!ReadSeqs
<1>2. Calc!Dirty(j) = Dirty(j)
  BY DEF Dirty, Calc!Dirty
<1>3. Calc!Circular(j) = Circular(j)
  BY <1>2 DEF Circular, Calc!Circular
<1>4. \A k : Calc!Fetched(j, c, k, v) = Fetched(j, c, k, v)
  BY DEF Fetched, Calc!Fetched
<1>5. Calc!Vector(j, c, v) = Vector(j, c, v)
  BY <1>4 DEF Vector, Calc!Vector
<1>6. /\ Calc!ReadsValues(j, c, v) <=> ReadsValues(j, c, v)
      /\ \A k : Calc!StopsAt(j, c, k, v) <=> StopsAt(j, c, k, v)
  BY <1>4 DEF ReadsValues, Calc!ReadsValues, StopsAt, Calc!StopsAt
<1>7. Calc!IsOutcome(j, c, v, r) <=> IsOutcome(j, c, v, r)
  BY <1>4, <1>5, <1>6 DEF IsOutcome, Calc!IsOutcome
<1>8. Calc!Promised(j) <=> Promised(j)
  <2>1. \A d, e : Calc!Reaches(j, d, e) <=> Reaches(j, d, e)
    BY DEF Reaches, Calc!Reaches
  <2>2. Calc!InTopologicalOrder(j) <=> InTopologicalOrder(j)
    BY <2>1 DEF InTopologicalOrder, Calc!InTopologicalOrder
  <2>3. Calc!DirtyClosed(j) <=> DirtyClosed(j)
    BY <1>2 DEF DirtyClosed, Calc!DirtyClosed
  <2> QED
    BY <2>2, <2>3 DEF Promised, Calc!Promised
<1> QED
  BY <1>1, <1>2, <1>3, <1>7, <1>8

\* A step that changes one cell of Settled, from Nil to what Calculation asks for.
LEMMA SettlesOne ==
  ASSUME NEW c \in Dirty(job), Dirty(job) \subseteq Cells, UNCHANGED job,
         Settled[c] = Nil, NEW r \in Results,
         Settled' = [Settled EXCEPT ![c] = r],
         IF c \in Circular(job) THEN r = RefNotAvailable ELSE IsOutcome(job, c, Settled, r)
  PROVE  Calc!Next
<1>1. Calc!Settle(c)
  BY SameData DEF Calc!Settle
<1> QED
  BY <1>1 DEF Calc!Next, Calc!SettleOne

\* check_circular settles a cell on the circular-reference error, or nothing.
LEMMA CheckSettles ==
  ASSUME SafetyInv, CheckInv, CircleInv, Promised(job), CheckCircular
  PROVE  Calc!Next \/ UNCHANGED Settled
<1> USE DEF SafetyInv
<1>t. /\ N \in Nat /\ checked \in 0..N /\ Entries = 1..N
      /\ DOMAIN job.order = Entries
      /\ \A i \in Entries : Cell(i) \in Dirty(job) /\ job.order[i] = Cell(i)
      /\ Dirty(job) \subseteq Cells
      /\ result \in [Cells -> Results \cup {Nil}]
  <2>1. N \in Nat /\ Dirty(job) \subseteq Cells
    BY JobFacts DEF TypeInv, TypeOK, N
  <2> QED
    BY <2>1 DEF TypeInv, TypeOK, IsJob, Dirty, Entries, N, Cell
<1>1. PICK n \in Entries : n = checked + 1
  BY <1>t DEF CheckCircular
<1>2. /\ main = "check" /\ main' = "check" /\ UNCHANGED <<job, mtx>>
      /\ \/ UNCHANGED result
         \/ /\ UnsafeRefs(Cell(n)) # {}
            /\ result' = [result EXCEPT ![Cell(n)] = RefNotAvailable]
  BY <1>1 DEF CheckCircular
<1>3. PICK c \in Dirty(job) : c = Cell(n)
  BY <1>1, <1>t
<1>4. mtx[c] = 0
  BY <1>2, <1>3, <1>t, NoTasksYet DEF MutexInv, Evaluating
<1>5. /\ Settled = [d \in Cells |-> IF d \in Dirty(job) /\ mtx[d] # 0 THEN Nil ELSE result[d]]
      /\ Settled' = [d \in Cells |-> IF d \in Dirty(job) /\ mtx[d] # 0 THEN Nil ELSE result'[d]]
  BY <1>2, SameEntries DEF Settled, Interpreting
<1>6. CASE UNCHANGED result
  BY <1>5, <1>6
<1>7. CASE /\ UnsafeRefs(c) # {}
           /\ result' = [result EXCEPT ![c] = RefNotAvailable]
  <2>1. c \in Circular(job)
    BY <1>1, <1>2, <1>3, <1>7, Verdict
  <2>2. result[c] = Nil
    <3>1. ASSUME result[c] # Nil PROVE FALSE
      <4>1. PICK k \in 1..checked : Cell(k) = c
        BY <1>2, <3>1 DEF CircleInv
      <4>2. k \in Entries /\ k # n
        BY <1>1, <1>t
      <4> QED
        BY <1>3, <1>t, <4>1, <4>2 DEF Promised, InTopologicalOrder
    <3> QED
      BY <3>1
  <2>3. /\ Settled[c] = Nil
        /\ Settled' = [Settled EXCEPT ![c] = RefNotAvailable]
    BY <1>4, <1>5, <1>7, <1>t, <2>2
  <2>4. RefNotAvailable \in Results
    BY ResultAssumption
  <2> QED
    BY <1>2, <1>t, <2>1, <2>3, <2>4, SettlesOne
<1> QED
  BY <1>2, <1>3, <1>6, <1>7

\* Store settles a cell on the outcome of its formula.
LEMMA StoreSettles ==
  ASSUME SafetyInv, CheckInv, CircleInv, Promised(job), NEW i \in Entries, Store(i)
  PROVE  Calc!Next
<1> USE DEF SafetyInv
<1> DEFINE r == IF FetchedError(i) THEN Latest(i) ELSE Formula(Cell(i), got[i])
<1>t. /\ N \in Nat /\ Entries = 1..N
      /\ Cell(i) \in Dirty(job)
      /\ Dirty(job) \subseteq Cells
      /\ result \in [Cells -> Results \cup {Nil}]
      /\ mtx \in [Cells -> 0..N]
  <2>1. N \in Nat /\ Dirty(job) \subseteq Cells
    BY JobFacts DEF TypeInv, TypeOK, N
  <2> QED
    BY <2>1 DEF TypeInv, TypeOK, IsJob, Dirty, Entries, N, Cell
<1>1. /\ task[i] = "eval" /\ FetchingEnded(i)
      /\ result' = [result EXCEPT ![Cell(i)] = r]
      /\ mtx' = [mtx EXCEPT ![Cell(i)] = 0]
      /\ UNCHANGED <<job, main>>
  BY DEF Store, mainVars
<1>2. main \notin {"begin", "check"}
  BY <1>1, NoTasksYet
<1>3. mtx[Cell(i)] = i /\ i # 0
  BY <1>1, <1>t DEF MutexInv, Evaluating
<1>4. /\ Settled = [d \in Cells |-> IF d \in Dirty(job) /\ mtx[d] # 0 THEN Nil ELSE result[d]]
      /\ Settled' = [d \in Cells |-> IF d \in Dirty(job) /\ mtx'[d] # 0 THEN Nil ELSE result'[d]]
  BY <1>1, <1>2, SameEntries DEF Settled, Interpreting
<1>5. r \in Results
  <2>2. /\ Len(got[i]) \in Nat /\ got[i] \in Seq(Results) /\ Cell(i) \in Cells
        /\ Len(got[i]) <= MaxReads
        /\ got[i] # <<>> => Latest(i) \in Results
    <3>1. MaxReads \in Nat
      BY ResultAssumption
    <3> QED
      BY <3>1, EntryFacts
  <2>3. CASE FetchedError(i)
    BY <2>2, <2>3 DEF FetchedError
  <2>4. CASE ~FetchedError(i)
    BY <2>2, <2>4, FormulaGivesResult
  <2> QED
    BY <2>3, <2>4
<1>6. Cell(i) \notin Circular(job)
  <2>1. ~Flagged(Cell(i))
    BY <1>3 DEF Flagged, Readable
  <2>2. i \in 1..checked
    BY <1>2, <1>t DEF CheckInv
  <2>3. safe[Cell(i)]
    BY <2>1, <2>2 DEF CheckInv
  <2> QED
    BY <1>2, <1>t, <2>3 DEF CircleInv
<1>7. IsOutcome(job, Cell(i), Settled, r)
  <2>1. \A d \in Cells : Readable(d) => Settled[d] = result[d]
    BY <1>4 DEF Readable
  <2> QED
    BY <1>1, <2>1, FetchedOutcome
<1> HIDE DEF r
<1>8. /\ Settled[Cell(i)] = Nil
      /\ Settled' = [Settled EXCEPT ![Cell(i)] = r]
  BY <1>1, <1>3, <1>4, <1>t
<1> QED
  BY <1>1, <1>5, <1>6, <1>7, <1>8, <1>t, SettlesOne

\* Every step of a call settles one cell as Calculation does, or settles none.
LEMMA StepSettles ==
  ASSUME SafetyInv, CheckInv, CircleInv, Promised(job), Next
  PROVE  Calc!Next \/ UNCHANGED <<job, Settled>>
<1> USE DEF SafetyInv
<1>t. /\ \A i \in Entries : Cell(i) \in Cells /\ Cell(i) \in Dirty(job) /\ i # 0
      /\ Dirty(job) \subseteq Cells
      /\ result \in [Cells -> Results \cup {Nil}]
      /\ mtx \in [Cells -> 0..N]
      /\ UNCHANGED job
  <2>1. N \in Nat /\ Dirty(job) \subseteq Cells
    BY JobFacts DEF TypeInv, TypeOK, N
  <2>2. UNCHANGED job
    BY JobKept
  <2>3. \A i \in Entries : Cell(i) \in Cells /\ Cell(i) \in Dirty(job) /\ i # 0
    BY <2>1 DEF Dirty, Entries, N, Cell
  <2> QED
    BY <2>1, <2>2, <2>3 DEF TypeInv, TypeOK, N
<1>1. CASE Begin
  <2>1. \A c \in Cells : mtx[c] = 0
    BY <1>1, NoTasksYet DEF Begin, MutexInv, Evaluating
  <2>2. Settled = [c \in Cells |-> IF c \in Dirty(job) THEN Nil ELSE result[c]]
    BY <1>1, <2>1 DEF Begin, Settled, Interpreting
  <2>3. Settled' = [c \in Cells |-> IF c \in Dirty(job) THEN Nil ELSE result[c]]
    BY <1>1, <2>1, SameEntries DEF Begin, Settled, Interpreting, ResetCells
  <2> QED
    BY <1>t, <2>2, <2>3
<1>2. CASE CheckCircular
  BY <1>2, <1>t, CheckSettles
<1>3. ASSUME main # "begin", main' # "begin", UNCHANGED <<result, mtx>>
      PROVE  UNCHANGED Settled
  BY <1>3, <1>t, SameEntries DEF Settled, Interpreting
<1>4. CASE QueueOnly
  <2>1. main # "begin" => main' # "begin" /\ UNCHANGED <<result, mtx>>
    BY <1>4, QueueOnlyStep
       DEF QueueOnly, StartRun, InlineReturn, PushWaits, PushNotifies, WaitOneWaits,
           WaitOneTakes, WaitOneGets, WaitOneNotifies, Leave, LauncherWakes, MainWakes,
           Returned, MainAfter, vars, mainVars
  <2>2. main # "begin"
    BY <1>4
       DEF QueueOnly, StartRun, InlineReturn, PushWaits, PushNotifies, WaitOneWaits,
           WaitOneTakes, WaitOneGets, WaitOneNotifies, Leave, LauncherWakes, MainWakes,
           Returned, TypeInv, Bounds
  <2> QED
    BY <1>3, <1>t, <2>1, <2>2
<1>5. CASE InlineCall \/ Push
  BY <1>3, <1>5, <1>t DEF InlineCall, Push, calcVars, mainVars, TypeInv, Bounds
<1>6. ASSUME NEW i \in Entries, TaskStep(i) \/ TaskWakes(i)
      PROVE  Calc!Next \/ UNCHANGED Settled
  <2>1. main \notin {"begin", "check"} /\ UNCHANGED main
    BY <1>6, NoTasksYet, TaskFrame
       DEF TaskStep, ReturnCached, StartInterpret, FetchSelf, Fetch, Store, Throw,
           NotifyAll, TaskWakes
  <2>2. CASE ReturnCached(i) \/ FetchSelf(i) \/ Fetch(i) \/ NotifyAll(i) \/ TaskWakes(i)
    BY <1>3, <2>1, <2>2 DEF ReturnCached, FetchSelf, Fetch, NotifyAll, TaskWakes, calcVars
  <2>3. CASE StartInterpret(i)
    <3>1. /\ result[Cell(i)] = Nil
          /\ result' = [result EXCEPT ![Cell(i)] = Empty]
          /\ mtx' = [mtx EXCEPT ![Cell(i)] = i]
      BY <2>3 DEF StartInterpret, Cached
    <3>2. /\ Settled = [c \in Cells |-> IF c \in Dirty(job) /\ mtx[c] # 0
                                         THEN Nil ELSE result[c]]
          /\ Settled' = [c \in Cells |-> IF c \in Dirty(job) /\ mtx'[c] # 0
                                          THEN Nil ELSE result'[c]]
      BY <1>t, <2>1, SameEntries DEF Settled, Interpreting
    <3> QED
      BY <1>t, <3>1, <3>2
  <2>4. CASE Store(i)
    BY <2>4, StoreSettles
  <2>5. ~Throw(i)
    BY DEF Throw, Promised
  <2> QED
    BY <1>6, <2>2, <2>3, <2>4, <2>5 DEF TaskStep
<1> QED
  BY <1>1, <1>2, <1>4, <1>5, <1>6, <1>t, NextCases

(***************************************************************************)
(* In any interleaving and with any thread_count, what the threads do is   *)
(* what Calculation promises: cells settle one by one, those on or behind  *)
(* a circle of references on the error, the others on what their formulas  *)
(* give from settled cells.  This is ImplementsCalculation without its     *)
(* fairness; Calculation says itself which calls it promises this for.     *)
(***************************************************************************)
THEOREM CalculationImplemented ==
  Spec => Calc!Init /\ [][Calc!Next]_(Calc!vars)
<1>1. Init => Calc!Init
  <2> SUFFICES ASSUME Init PROVE Calc!Init
    OBVIOUS
  <2>1. IsJob(job)
    BY JobAssumption DEF Init
  <2>2. Settled = [c \in Cells |-> IF c \in Dirty(job) THEN Nil ELSE job.result[c]]
    BY DEF Init, Settled, Interpreting
  <2> QED
    BY <2>1, <2>2, SameData DEF Calc!Init
<1>2. SafetyInv /\ CheckInv /\ CircleInv /\ [Next]_vars => [Calc!Next]_(Calc!vars)
  <2> SUFFICES ASSUME SafetyInv, CheckInv, CircleInv, [Next]_vars
               PROVE  Calc!Next \/ UNCHANGED <<job, Settled>>
    BY DEF Calc!vars
  <2>1. CASE Next /\ Promised(job)
    BY <2>1, StepSettles
  <2>2. CASE Next /\ ~Promised(job)
    <3>1. UNCHANGED job
      BY <2>2, JobKept DEF SafetyInv
    <3> QED
      BY <2>2, <3>1, SameData DEF Calc!Next, Calc!Unpromised
  <2>3. CASE UNCHANGED vars
    <3>1. UNCHANGED <<job, result, mtx, main>>
      BY <2>3 DEF vars, calcVars, mainVars
    <3> QED
      BY <3>1, SameEntries DEF Settled, Interpreting
  <2> QED
    BY <2>1, <2>2, <2>3
<1> QED
  BY <1>1, <1>2, SafetyInvariant, CheckInvariant, CircleInvariant, PTL DEF Spec
=============================================================================

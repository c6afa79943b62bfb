--------------------------- MODULE CalcQueueProofs ---------------------------
(***************************************************************************)
(* Theorems about CalcQueue, for every set of jobs: any number of cells,   *)
(* any references, any order, any thread_count.                            *)
(***************************************************************************)
EXTENDS CalcQueue, TLAPS, SequenceTheorems

(***************************************************************************)
(* What bounds the counters of the three loops, and the fetches of a task. *)
(***************************************************************************)
Bounds ==
  /\ main \in {"begin", "check"} => taken = 0 /\ launched = 0
  /\ main \in {"begin", "check", "inline", "done", "threw"} => launcher = "exited"
  /\ main \in {"take", "waiting", "get", "notify"} => taken < N
  /\ main = "get" => ret \in Entries
  /\ launcher \in {"push", "waiting"} => launched < N
  /\ \A i \in Entries : Len(got[i]) <= Len(job.reads[Cell(i)])

TypeInv == TypeOK /\ Bounds

(***************************************************************************)
(* The components of a job.                                                *)
(***************************************************************************)
LEMMA JobFacts ==
  ASSUME NEW j, IsJob(j)
  PROVE  /\ Len(j.order) \in Nat
         /\ \A i \in 1..Len(j.order) : j.order[i] \in Cells
         /\ Dirty(j) \subseteq Cells
         /\ \A c \in Cells : /\ j.reads[c] \in Seq(Cells)
                             /\ Len(j.reads[c]) \in Nat
                             /\ Len(j.reads[c]) <= MaxReads
                             /\ DOMAIN j.reads[c] = 1..Len(j.reads[c])
<1>1. /\ Len(j.order) \in Nat
      /\ DOMAIN j.order = 1..Len(j.order)
      /\ \A i \in 1..Len(j.order) : j.order[i] \in Cells
  BY DEF IsJob
<1>2. Dirty(j) \subseteq Cells
  BY <1>1 DEF Dirty
<1>3. ASSUME NEW c \in Cells
      PROVE  /\ j.reads[c] \in Seq(Cells)
             /\ Len(j.reads[c]) \in Nat
             /\ Len(j.reads[c]) <= MaxReads
             /\ DOMAIN j.reads[c] = 1..Len(j.reads[c])
  <2>1. j.reads[c] \in ReadSeqs
    BY DEF IsJob
  <2>2. PICK n \in 0..MaxReads : j.reads[c] \in [1..n -> Cells]
    BY <2>1 DEF ReadSeqs
  <2>3. n \in Nat
    BY ResultAssumption
  <2>4. j.reads[c] \in Seq(Cells) /\ Len(j.reads[c]) = n
    BY <2>2, <2>3
  <2> QED
    BY <2>2, <2>3, <2>4, ResultAssumption
<1> QED
  BY <1>1, <1>2, <1>3

(***************************************************************************)
(* What a formula gives from the fetched results is a result.              *)
(***************************************************************************)
LEMMA FormulaGivesResult ==
  ASSUME NEW c \in Cells, NEW vec \in Seq(Results), Len(vec) <= MaxReads
  PROVE  Formula(c, vec) \in Results
<1>1. Len(vec) \in Nat /\ vec \in [1..Len(vec) -> Results]
  OBVIOUS
<1>2. Len(vec) \in 0..MaxReads
  BY <1>1, ResultAssumption
<1>3. vec \in ReadVectors
  BY <1>1, <1>2 DEF ReadVectors
<1> QED
  BY <1>3, FormulaAssumption

-----------------------------------------------------------------------------
(***************************************************************************)
(* Type correctness.                                                       *)
(***************************************************************************)
LEMMA InitTypeInv == Init => TypeInv
<1> SUFFICES ASSUME Init PROVE TypeInv
  OBVIOUS
<1>1. IsJob(job)
  BY JobAssumption DEF Init
<1>2. /\ N \in Nat
      /\ \A i \in Entries : Cell(i) \in Cells /\ Len(job.reads[Cell(i)]) \in Nat
  BY <1>1, JobFacts DEF N, Entries, Cell
<1>3. TypeOK
  BY <1>1, <1>2 DEF Init, TypeOK, IsJob, Entries, MainStates, LauncherStates, TaskStates
<1>4. Bounds
  BY <1>2 DEF Init, Bounds
<1> QED
  BY <1>3, <1>4 DEF TypeInv

(***************************************************************************)
(* What a fetch needs to know of the entry it belongs to.                  *)
(***************************************************************************)
LEMMA EntryFacts ==
  ASSUME TypeInv, NEW i \in Entries
  PROVE  /\ N \in Nat
         /\ Cell(i) \in Cells
         /\ got[i] \in Seq(Results)
         /\ Len(got[i]) \in Nat
         /\ Len(job.reads[Cell(i)]) \in Nat
         /\ Len(job.reads[Cell(i)]) <= MaxReads
         /\ Len(got[i]) <= Len(job.reads[Cell(i)])
         /\ Len(got[i]) # Len(job.reads[Cell(i)]) => NextFetch(i) \in Cells
         /\ got[i] # <<>> => Latest(i) \in Results
<1>1. IsJob(job)
  BY DEF TypeInv, TypeOK
<1>2. /\ N \in Nat
      /\ Cell(i) \in Cells
  BY <1>1, JobFacts DEF N, Entries, Cell
<1>3. /\ job.reads[Cell(i)] \in Seq(Cells)
      /\ Len(job.reads[Cell(i)]) \in Nat
      /\ Len(job.reads[Cell(i)]) <= MaxReads
  BY <1>1, <1>2, JobFacts
<1>4. /\ got[i] \in Seq(Results)
      /\ Len(got[i]) \in Nat
      /\ Len(got[i]) <= Len(job.reads[Cell(i)])
  BY DEF TypeInv, TypeOK, Bounds
<1>5. Len(got[i]) # Len(job.reads[Cell(i)]) => NextFetch(i) \in Cells
  <2> SUFFICES ASSUME Len(got[i]) # Len(job.reads[Cell(i)])
               PROVE  NextFetch(i) \in Cells
    OBVIOUS
  <2>1. Len(got[i]) + 1 \in 1..Len(job.reads[Cell(i)])
    BY <1>3, <1>4
  <2> QED
    BY <2>1, <1>3 DEF NextFetch
<1>6. got[i] # <<>> => Latest(i) \in Results
  BY <1>4 DEF Latest
<1> QED
  BY <1>2, <1>3, <1>4, <1>5, <1>6

LEMMA NextTypeInv == TypeInv /\ [Next]_vars => TypeInv'
<1> SUFFICES ASSUME TypeInv, [Next]_vars PROVE TypeInv'
  OBVIOUS
<1> USE DEF TypeInv, TypeOK, Bounds
<1>j. /\ IsJob(job)
      /\ N \in Nat
      /\ 0 \in 0..N
      /\ \A i \in Entries : Cell(i) \in Cells
      /\ Dirty(job) \subseteq Cells
  BY JobFacts DEF N, Entries, Cell
<1>s. ASSUME UNCHANGED job
      PROVE  /\ IsJob(job)' /\ N' = N /\ Entries' = Entries
             /\ \A i : Cell(i)' = Cell(i)
  BY <1>s, <1>j DEF IsJob, N, Entries, Cell
<1>r. RefNotAvailable \in Results /\ Empty \in Results
  BY ResultAssumption
<1>1. CASE Begin
  BY <1>1, <1>j, <1>s DEF Begin, queueVars, taskVars, MainStates, ResetCells
<1>2. CASE CheckCircular
  <2>1. checked + 1 \in 1..N /\ Cell(checked + 1) \in Cells
    BY <1>2, <1>j DEF CheckCircular, Entries
  <2>2. TypeOK'
    <3>1. result' \in [Cells -> Results \cup {Nil}] /\ safe' \in [Cells -> BOOLEAN]
      BY <1>2, <2>1, <1>r DEF CheckCircular
    <3>2. checked' \in 0..N
      BY <1>2, <1>j DEF CheckCircular
    <3> QED
      BY <1>2, <3>1, <3>2, <1>j, <1>s DEF CheckCircular, queueVars, taskVars
  <2>3. Bounds'
    BY <1>2, <1>j, <1>s DEF CheckCircular, queueVars, taskVars
  <2> QED
    BY <2>2, <2>3
<1>3. CASE StartRun
  BY <1>3, <1>j, <1>s
     DEF StartRun, calcVars, taskVars, MainAfter, LauncherAfter, MainStates, LauncherStates
<1>4. CASE InlineCall
  <2>1. launched + 1 \in Entries
    BY <1>4, <1>j DEF InlineCall, Entries
  <2> QED
    BY <1>4, <2>1, <1>j, <1>s DEF InlineCall, calcVars, mainVars, TaskStates, Entries
<1>5. CASE InlineReturn
  BY <1>5, <1>j, <1>s DEF InlineReturn, queueVars, taskVars, MainStates
<1>6. CASE PushWaits
  BY <1>6, <1>j, <1>s DEF PushWaits, calcVars, mainVars, taskVars, LauncherStates
<1>7. CASE Push
  <2>1. launched + 1 \in Entries
    BY <1>7, <1>j DEF Push, Entries
  <2> QED
    BY <1>7, <2>1, <1>j, <1>s
       DEF Push, calcVars, mainVars, LauncherStates, TaskStates, Entries
<1>8. CASE PushNotifies
  BY <1>8, <1>j, <1>s
     DEF PushNotifies, calcVars, taskVars, LauncherAfter, LauncherStates, MainStates
<1>9. CASE WaitOneWaits
  BY <1>9, <1>j, <1>s DEF WaitOneWaits, calcVars, queueVars, taskVars, MainStates
<1>10. CASE WaitOneTakes
  <2>1. Head(futures) \in Entries /\ Tail(futures) \in Seq(Entries)
    BY <1>10 DEF WaitOneTakes
  <2>2. /\ main = "take" /\ main' = "get" /\ main' \in MainStates
        /\ ret' \in Entries /\ ret' \in 0..N /\ futures' \in Seq(Entries)
    BY <1>10, <2>1, <1>j DEF WaitOneTakes, MainStates, Entries
  <2>3. UNCHANGED <<job, result, safe, mtx, policy, checked, taken, launcher, launched, task, got>>
    BY <1>10 DEF WaitOneTakes, calcVars, taskVars
  <2>4. TypeOK'
    BY <2>2, <2>3, <1>j, <1>s
  <2>5. Bounds'
    BY <2>2, <2>3, <1>j, <1>s
  <2> QED
    BY <2>4, <2>5
<1>11. CASE WaitOneGets
  BY <1>11, <1>j, <1>s DEF WaitOneGets, calcVars, queueVars, taskVars, MainStates
<1>12. CASE WaitOneNotifies
  BY <1>12, <1>j, <1>s
     DEF WaitOneNotifies, calcVars, taskVars, MainAfter, LauncherNotified, MainStates,
         LauncherStates
<1>13. CASE Leave
  BY <1>13, <1>j, <1>s DEF Leave, DestructorsReturn, taskVars, MainStates
<1>14. ASSUME NEW i \in Entries, ReturnCached(i) PROVE TypeInv'
  BY <1>14, <1>j, <1>s DEF ReturnCached, calcVars, mainVars, queueVars, TaskStates
<1>15. ASSUME NEW i \in Entries, StartInterpret(i) PROVE TypeInv'
  BY <1>15, <1>j, <1>s, <1>r DEF StartInterpret, mainVars, queueVars, TaskStates, Entries
<1>16. ASSUME NEW i \in Entries, FetchSelf(i) PROVE TypeInv'
  <2>1. /\ Len(got[i]) < Len(job.reads[Cell(i)])
        /\ got[i] \in Seq(Results)
    BY <1>16, EntryFacts DEF FetchSelf, FetchingEnded
  <2>2. /\ Append(got[i], RefNotAvailable) \in Seq(Results)
        /\ Len(Append(got[i], RefNotAvailable)) <= Len(job.reads[Cell(i)])
    BY <2>1, <1>r, <1>16, EntryFacts
  <2> QED
    BY <1>16, <2>2, <1>j, <1>s DEF FetchSelf, calcVars, mainVars, queueVars
<1>17. ASSUME NEW i \in Entries, Fetch(i) PROVE TypeInv'
  <2> DEFINE r == IF result[NextFetch(i)] = Nil THEN RefNotAvailable
                                                ELSE result[NextFetch(i)]
  <2>1. /\ Len(got[i]) < Len(job.reads[Cell(i)])
        /\ got[i] \in Seq(Results)
        /\ NextFetch(i) \in Cells
    BY <1>17, EntryFacts DEF Fetch, FetchingEnded
  <2>2. r \in Results
    BY <2>1, <1>r
  <2>3. /\ Append(got[i], r) \in Seq(Results)
        /\ Len(Append(got[i], r)) <= Len(job.reads[Cell(i)])
    BY <2>1, <2>2, <1>17, EntryFacts
  <2>4. CASE UNCHANGED task /\ got' = [got EXCEPT ![i] = Append(@, r)]
    BY <1>17, <2>3, <2>4, <1>j, <1>s DEF Fetch, calcVars, mainVars, queueVars
  <2>5. CASE UNCHANGED got /\ task' = [task EXCEPT ![i] = "condwait"]
    BY <1>17, <2>5, <1>j, <1>s DEF Fetch, calcVars, mainVars, queueVars, TaskStates
  <2> QED
    BY <1>17, <2>4, <2>5 DEF Fetch
<1>18. ASSUME NEW i \in Entries, Store(i) PROVE TypeInv'
  <2> DEFINE r == IF FetchedError(i) THEN Latest(i) ELSE Formula(Cell(i), got[i])
  <2>1. r \in Results
    <3>1. CASE FetchedError(i)
      BY <3>1, <1>18, EntryFacts DEF FetchedError
    <3>2. CASE ~FetchedError(i)
      <4>1. /\ Len(got[i]) \in Nat /\ Len(job.reads[Cell(i)]) \in Nat
            /\ Len(got[i]) <= Len(job.reads[Cell(i)])
            /\ Len(job.reads[Cell(i)]) <= MaxReads
            /\ Cell(i) \in Cells /\ got[i] \in Seq(Results)
        BY <1>18, EntryFacts
      <4>2. Len(got[i]) <= MaxReads
        BY <4>1, ResultAssumption
      <4> QED
        BY <3>2, <4>1, <4>2, FormulaGivesResult
    <3> QED
      BY <3>1, <3>2
  <2> QED
    BY <1>18, <2>1, <1>j, <1>s DEF Store, mainVars, queueVars, TaskStates
<1>19. ASSUME NEW i \in Entries, Throw(i) PROVE TypeInv'
  BY <1>19, <1>j, <1>s DEF Throw, mainVars, queueVars, TaskStates
<1>20. ASSUME NEW i \in Entries, NotifyAll(i) PROVE TypeInv'
  BY <1>20, <1>j, <1>s DEF NotifyAll, calcVars, mainVars, queueVars, TaskStates
<1>21. ASSUME NEW i \in Entries, TaskWakes(i) PROVE TypeInv'
  BY <1>21, <1>j, <1>s DEF TaskWakes, calcVars, mainVars, queueVars, TaskStates
<1>22. CASE LauncherWakes
  BY <1>22, <1>j, <1>s DEF LauncherWakes, calcVars, mainVars, taskVars, LauncherStates
<1>23. CASE MainWakes
  BY <1>23, <1>j, <1>s DEF MainWakes, calcVars, queueVars, taskVars, MainStates
<1>24. CASE UNCHANGED vars
  BY <1>24, <1>j, <1>s DEF vars, calcVars, mainVars, queueVars, taskVars
<1> QED
  BY <1>1, <1>2, <1>3, <1>4, <1>5, <1>6, <1>7, <1>8, <1>9, <1>10, <1>11, <1>12,
     <1>13, <1>14, <1>15, <1>16, <1>17, <1>18, <1>19, <1>20, <1>21, <1>22, <1>23,
     <1>24
     DEF Next, MainStep, LauncherStep, TaskStep, SpuriousWakeup, Returned

(***************************************************************************)
(* Every reachable state is well typed: in particular the two loops of     *)
(* run() and thread_launch never run past the entries, and what a task     *)
(* stores is always a result.                                              *)
(***************************************************************************)
THEOREM TypeCorrect == Spec => []TypeOK
<1>1. Spec => []TypeInv
  BY InitTypeInv, NextTypeInv, PTL DEF Spec
<1>2. TypeInv => TypeOK
  BY DEF TypeInv
<1> QED
  BY <1>1, <1>2, PTL

-----------------------------------------------------------------------------
(***************************************************************************)
(* The inductive invariant behind the safety theorems, in four parts.      *)
(*                                                                         *)
(* TasksInv: which tasks can be running.  A task that has not returned is  *)
(* the one main is calling (thread_count = 0), has its future in the       *)
(* queue, or is the one main waits for.                                    *)
(***************************************************************************)
TasksInv ==
  /\ \A i \in Entries : task[i] # "none" <=> i <= launched
  /\ main = "inline" => \A i \in 1..(launched - 1) : Succeeded(i)
  /\ \A i \in Entries : Running(i) =>
       \/ main = "inline"
       \/ \E k \in 1..Len(futures) : futures[k] = i
       \/ main = "get" /\ ret = i
  /\ main \in {"done", "threw"} => \A i \in Entries : ~Running(i)
  /\ main \notin {"begin", "done", "threw"} => policy = "block_until_done"
  /\ main = "check" => \A c \in Dirty(job) : result[c] \in {Nil, RefNotAvailable}

(***************************************************************************)
(* MutexInv: the task that interprets a cell holds its mutex, and nobody   *)
(* else does.                                                              *)
(***************************************************************************)
Evaluating(i) == task[i] \in {"eval", "condwait"}

MutexInv ==
  /\ \A i \in Entries : Evaluating(i) => mtx[Cell(i)] = i
  /\ \A c \in Cells : mtx[c] # 0 =>
       mtx[c] \in Entries /\ Cell(mtx[c]) = c /\ Evaluating(mtx[c])

(***************************************************************************)
(* FetchInv: what a task has fetched is what the cells still hold, and     *)
(* only the last of it can be an error.                                    *)
(***************************************************************************)
Readable(c) == result[c] # Nil /\ mtx[c] = 0

FetchInv ==
  \A i \in Entries :
    /\ task[i] \in {"none", "lock"} => got[i] = <<>>
    /\ \A k \in 1..Len(got[i]) :
         /\ job.reads[Cell(i)][k] # Cell(i) => Readable(job.reads[Cell(i)][k])
         /\ got[i][k] = Fetched(job, Cell(i), k, result)
         /\ k < Len(got[i]) => got[i][k] \notin Errors

(***************************************************************************)
(* StoreInv: an interpreted cell holds what its task computed.             *)
(***************************************************************************)
StoreInv ==
  \A i \in Entries :
    /\ Evaluating(i) => result[Cell(i)] # Nil
    /\ task[i] \in {"notify", "done"} =>
         /\ FetchingEnded(i)
         /\ Readable(Cell(i))
         /\ result[Cell(i)] = IF FetchedError(i) THEN Latest(i)
                                                 ELSE Formula(Cell(i), got[i])

SafetyInv == TypeInv /\ TasksInv /\ MutexInv /\ FetchInv /\ StoreInv

-----------------------------------------------------------------------------
LEMMA InitSafetyInv == Init => SafetyInv
<1> SUFFICES ASSUME Init PROVE SafetyInv
  OBVIOUS
<1>1. TypeInv
  BY InitTypeInv
<1>2. IsJob(job) /\ N \in Nat
  BY <1>1, JobFacts DEF TypeInv, TypeOK, N
<1>3. TasksInv
  BY <1>2 DEF Init, TasksInv, Running, Finished, Succeeded, Entries
<1>4. MutexInv
  BY DEF Init, MutexInv, Evaluating
<1>5. FetchInv
  BY DEF Init, FetchInv
<1>6. StoreInv
  BY DEF Init, StoreInv, Evaluating
<1> QED
  BY <1>1, <1>3, <1>4, <1>5, <1>6 DEF SafetyInv

(***************************************************************************)
(* The job, and so the entries and their cells, never change.              *)
(***************************************************************************)
LEMMA SameEntries ==
  ASSUME UNCHANGED job
  PROVE  /\ N' = N /\ Entries' = Entries /\ Dirty(job)' = Dirty(job)
         /\ \A i : Cell(i)' = Cell(i)
BY DEF N, Entries, Cell, Dirty

LEMMA TasksStep == TypeInv /\ TasksInv /\ Next => TasksInv'
<1> SUFFICES ASSUME TypeInv, TasksInv, Next PROVE TasksInv'
  OBVIOUS
<1>t. /\ N \in Nat /\ launched \in 0..N /\ taken \in 0..N /\ ret \in 0..N
      /\ futures \in Seq(Entries) /\ Len(futures) \in Nat
      /\ task \in [Entries -> TaskStates]
      /\ result \in [Cells -> Results \cup {Nil}]
      /\ Bounds
  BY JobFacts DEF TypeInv, TypeOK, N
<1> USE DEF TasksInv, Running, Finished, Succeeded
<1>1. CASE Begin
  <2>1. \A i \in Entries : task[i] = "none"
    BY <1>1, <1>t DEF Begin, Bounds, Entries
  <2>2. Dirty(job) \subseteq Cells
    BY JobFacts DEF TypeInv, TypeOK
  <2> QED
    BY <1>1, <2>1, <2>2, <1>t, SameEntries DEF Begin, queueVars, taskVars, ResetCells, Bounds, Entries
<1>2. CASE CheckCircular
  <2>1. Dirty(job) \subseteq Cells
    BY JobFacts DEF TypeInv, TypeOK
  <2>2. \A c \in Dirty(job) : result'[c] \in {Nil, RefNotAvailable}
    BY <1>2, <2>1, <1>t DEF CheckCircular
  <2> QED
    BY <1>2, <2>2, <1>t, SameEntries DEF CheckCircular, queueVars, taskVars
<1>3. CASE StartRun
  BY <1>3, <1>t, SameEntries DEF StartRun, calcVars, taskVars, MainAfter, Bounds, Entries
<1>4. CASE InlineCall
  <2>1. launched + 1 \in Entries /\ main = "inline"
    BY <1>4, <1>t DEF InlineCall, Entries
  <2> QED
    BY <1>4, <2>1, <1>t, SameEntries DEF InlineCall, calcVars, mainVars, Entries
<1>5. CASE InlineReturn
  <2>1. \A i \in Entries : ~Running(i)
    BY <1>5, <1>t DEF InlineReturn, Entries
  <2> QED
    BY <1>5, <2>1, <1>t, SameEntries DEF InlineReturn, queueVars, taskVars
<1>6. CASE PushWaits
  BY <1>6, <1>t, SameEntries DEF PushWaits, calcVars, mainVars, taskVars
<1>7. CASE Push
  <2>1. /\ launched + 1 \in Entries
        /\ main \notin {"inline", "done", "threw"}
    BY <1>7, <1>t DEF Push, Entries, Bounds
  <2>2. /\ Len(futures') = Len(futures) + 1
        /\ \A k \in 1..Len(futures) : futures'[k] = futures[k]
        /\ futures'[Len(futures) + 1] = launched + 1
    BY <1>7, <2>1, <1>t DEF Push
  <2>3. \A i \in Entries : task'[i] # "none" <=> i <= launched'
    BY <1>7, <2>1, <1>t DEF Push, Entries
  <2>4. ASSUME NEW i \in Entries, Running(i)', i # launched + 1
        PROVE  \/ \E k \in 1..Len(futures') : futures'[k] = i
               \/ main' = "get" /\ ret' = i
    <3>1. Running(i)
      BY <1>7, <2>4, <1>t DEF Push
    <3> QED
      BY <1>7, <3>1, <2>1, <2>2, <1>t DEF Push, mainVars
  <2>5. \E k \in 1..Len(futures') : futures'[k] = launched + 1
    BY <2>2, <1>t
  <2> QED
    BY <1>7, <2>1, <2>3, <2>4, <2>5, SameEntries DEF Push, calcVars, mainVars
<1>8. CASE PushNotifies
  BY <1>8, <1>t, SameEntries DEF PushNotifies, calcVars, taskVars
<1>9. CASE WaitOneWaits
  BY <1>9, <1>t, SameEntries DEF WaitOneWaits, calcVars, queueVars, taskVars
<1>10. CASE WaitOneTakes
  <2>1. ASSUME NEW i \in Entries, Running(i)'
        PROVE  \/ \E k \in 1..Len(futures') : futures'[k] = i
               \/ main' = "get" /\ ret' = i
    <3>1. PICK k \in 1..Len(futures) : futures[k] = i
      BY <1>10, <2>1 DEF WaitOneTakes, taskVars
    <3>2. CASE k = 1
      BY <1>10, <3>1, <3>2, <1>t DEF WaitOneTakes
    <3>3. CASE k # 1
      <4>1. k - 1 \in 1..Len(futures') /\ futures'[k - 1] = i
        BY <1>10, <3>1, <3>3, <1>t DEF WaitOneTakes
      <4> QED
        BY <4>1
    <3> QED
      BY <3>2, <3>3
  <2> QED
    BY <1>10, <2>1, <1>t, SameEntries DEF WaitOneTakes, calcVars, taskVars
<1>11. CASE WaitOneGets
  BY <1>11, <1>t, SameEntries DEF WaitOneGets, calcVars, queueVars, taskVars
<1>12. CASE WaitOneNotifies
  BY <1>12, <1>t, SameEntries DEF WaitOneNotifies, calcVars, taskVars, MainAfter
<1>13. CASE Leave
  <2>1. \A i \in Entries : ~Running(i)
    BY <1>13, <1>t DEF Leave, DestructorsReturn
  <2> QED
    BY <1>13, <2>1, <1>t, SameEntries DEF Leave, taskVars
<1>14. ASSUME NEW i \in Entries, ReturnCached(i) PROVE TasksInv'
  BY <1>14, <1>t, SameEntries DEF ReturnCached, calcVars, mainVars, queueVars, Entries
<1>15. ASSUME NEW i \in Entries, StartInterpret(i) PROVE TasksInv'
  <2>1. main # "check"
    BY <1>15, <1>t DEF StartInterpret, Bounds, Entries
  <2> QED
    BY <1>15, <2>1, <1>t, SameEntries DEF StartInterpret, mainVars, queueVars, Entries
<1>16. ASSUME NEW i \in Entries, FetchSelf(i) PROVE TasksInv'
  BY <1>16, <1>t, SameEntries DEF FetchSelf, calcVars, mainVars, queueVars
<1>17. ASSUME NEW i \in Entries, Fetch(i) PROVE TasksInv'
  <2>1. /\ UNCHANGED <<job, result, policy, main, ret, launched, futures>>
        /\ \/ task' = [task EXCEPT ![i] = "condwait"]
           \/ task' = task
        /\ task[i] = "eval"
    BY <1>17 DEF Fetch, calcVars, mainVars, queueVars
  <2>2. \A k \in Entries : /\ task'[k] # "none" <=> task[k] # "none"
                           /\ Running(k)' <=> Running(k)
                           /\ Succeeded(k)' <=> Succeeded(k)
    BY <2>1, <1>t
  <2>3. main = "inline" => \A k \in 1..(launched - 1) : k \in Entries
    BY <1>t DEF Entries
  <2> QED
    BY <2>1, <2>2, <2>3, SameEntries
<1>18. ASSUME NEW i \in Entries, Store(i) PROVE TasksInv'
  BY <1>18, <1>t, SameEntries DEF Store, mainVars, queueVars, Entries, Bounds
<1>19. ASSUME NEW i \in Entries, Throw(i) PROVE TasksInv'
  BY <1>19, <1>t, SameEntries DEF Throw, mainVars, queueVars, Entries
<1>20. ASSUME NEW i \in Entries, NotifyAll(i) PROVE TasksInv'
  BY <1>20, <1>t, SameEntries
     DEF NotifyAll, Woken, Waiters, calcVars, mainVars, queueVars, Entries
<1>21. ASSUME NEW i \in Entries, TaskWakes(i) PROVE TasksInv'
  BY <1>21, <1>t, SameEntries DEF TaskWakes, calcVars, mainVars, queueVars, Entries
<1>22. CASE LauncherWakes
  BY <1>22, <1>t, SameEntries DEF LauncherWakes, calcVars, mainVars, taskVars
<1>23. CASE MainWakes
  BY <1>23, <1>t, SameEntries DEF MainWakes, calcVars, queueVars, taskVars
<1>24. CASE Returned
  BY <1>24, SameEntries DEF Returned, vars, calcVars, mainVars, queueVars, taskVars
<1> QED
  BY <1>1, <1>2, <1>3, <1>4, <1>5, <1>6, <1>7, <1>8, <1>9, <1>10, <1>11, <1>12,
     <1>13, <1>14, <1>15, <1>16, <1>17, <1>18, <1>19, <1>20, <1>21, <1>22, <1>23,
     <1>24
     DEF Next, MainStep, LauncherStep, TaskStep, SpuriousWakeup

(***************************************************************************)
(* The steps of main and of the launcher that start no task leave tasks,   *)
(* mutexes and results alone.                                              *)
(***************************************************************************)
QueueOnly ==
  \/ StartRun \/ InlineReturn \/ PushWaits \/ PushNotifies \/ WaitOneWaits
  \/ WaitOneTakes \/ WaitOneGets \/ WaitOneNotifies \/ Leave \/ LauncherWakes
  \/ MainWakes \/ Returned

LEMMA QueueOnlyStep == QueueOnly => UNCHANGED <<job, result, mtx, task, got>>
BY DEF QueueOnly, StartRun, InlineReturn, PushWaits, PushNotifies, WaitOneWaits,
       WaitOneTakes, WaitOneGets, WaitOneNotifies, Leave, LauncherWakes, MainWakes,
       Returned, vars, calcVars, mainVars, queueVars, taskVars

(***************************************************************************)
(* The two steps that start one.                                           *)
(***************************************************************************)
LEMMA LaunchStep ==
  ASSUME TypeInv, TasksInv, InlineCall \/ Push
  PROVE  /\ UNCHANGED <<job, result, mtx, got>>
         /\ launched + 1 \in Entries
         /\ task[launched + 1] = "none"
         /\ task' = [task EXCEPT ![launched + 1] = "lock"]
<1>1. launched \in 0..N /\ N \in Nat
  BY JobFacts DEF TypeInv, TypeOK, N
<1>2. launched < N
  BY DEF InlineCall, Push, TypeInv, Bounds
<1>3. launched + 1 \in Entries
  BY <1>1, <1>2 DEF Entries
<1> QED
  BY <1>1, <1>3 DEF InlineCall, Push, TasksInv, calcVars, mainVars

(***************************************************************************)
(* Before StartRun there are no tasks, and nobody has fetched anything.    *)
(***************************************************************************)
LEMMA NoTasksYet ==
  ASSUME TypeInv, TasksInv, main \in {"begin", "check"}
  PROVE  \A i \in Entries : task[i] = "none"
BY JobFacts DEF TypeInv, TypeOK, Bounds, TasksInv, N, Entries

(***************************************************************************)
(* The steps of a next-state step, as the three lemmas below use them.     *)
(***************************************************************************)
LEMMA NextCases ==
  Next => \/ Begin \/ CheckCircular \/ QueueOnly \/ InlineCall \/ Push
          \/ \E i \in Entries : TaskStep(i) \/ TaskWakes(i)
BY DEF Next, MainStep, LauncherStep, SpuriousWakeup, QueueOnly

LEMMA MutexStep == TypeInv /\ TasksInv /\ MutexInv /\ Next => MutexInv'
<1> SUFFICES ASSUME TypeInv, TasksInv, MutexInv, Next PROVE MutexInv'
  OBVIOUS
<1>t. /\ N \in Nat /\ 0 \notin Entries
      /\ \A i \in Entries : Cell(i) \in Cells
      /\ task \in [Entries -> TaskStates]
      /\ mtx \in [Cells -> 0..N]
  BY JobFacts DEF TypeInv, TypeOK, N, Entries, Cell
<1> USE DEF MutexInv, Evaluating
<1>1. CASE Begin
  BY <1>1, SameEntries DEF Begin, taskVars
<1>2. CASE CheckCircular
  BY <1>2, SameEntries DEF CheckCircular, taskVars
<1>3. CASE QueueOnly
  BY <1>3, QueueOnlyStep, SameEntries
<1>4. CASE InlineCall \/ Push
  BY <1>4, <1>t, LaunchStep, SameEntries
<1>5. ASSUME NEW i \in Entries, TaskStep(i) PROVE MutexInv'
  <2>1. CASE ReturnCached(i)
    BY <2>1, <1>t, SameEntries DEF ReturnCached, calcVars
  <2>2. CASE StartInterpret(i)
    <3>1. /\ mtx[Cell(i)] = 0 /\ UNCHANGED job
          /\ mtx' = [mtx EXCEPT ![Cell(i)] = i]
          /\ task' = [task EXCEPT ![i] = "eval"]
      BY <2>2 DEF StartInterpret, CanLock, Interpreting
    <3> QED
      BY <3>1, <1>t, SameEntries
  <2>3. CASE FetchSelf(i)
    BY <2>3, SameEntries DEF FetchSelf, calcVars
  <2>4. CASE Fetch(i)
    BY <2>4, <1>t, SameEntries DEF Fetch, calcVars
  <2>5. CASE Store(i) \/ Throw(i)
    <3>1. /\ task[i] = "eval" /\ mtx[Cell(i)] = i /\ UNCHANGED job
          /\ mtx' = [mtx EXCEPT ![Cell(i)] = 0]
          /\ \/ task' = [task EXCEPT ![i] = "notify"]
             \/ task' = [task EXCEPT ![i] = "failed"]
      BY <2>5 DEF Store, Throw
    <3> QED
      BY <3>1, <1>t, SameEntries
  <2>6. CASE NotifyAll(i)
    BY <2>6, <1>t, SameEntries DEF NotifyAll, Woken, Waiters, calcVars
  <2> QED
    BY <1>5, <2>1, <2>2, <2>3, <2>4, <2>5, <2>6 DEF TaskStep
<1>6. ASSUME NEW i \in Entries, TaskWakes(i) PROVE MutexInv'
  BY <1>6, <1>t, SameEntries DEF TaskWakes, calcVars
<1> QED
  BY <1>1, <1>2, <1>3, <1>4, <1>5, <1>6, NextCases

-----------------------------------------------------------------------------
(***************************************************************************)
(* What has been fetched stays true as long as a readable result stays     *)
(* readable and the same.                                                  *)
(***************************************************************************)
ReadableKept == \A c \in Cells : Readable(c) => Readable(c)' /\ result'[c] = result[c]

LEMMA FetchKept ==
  ASSUME TypeInv, FetchInv, UNCHANGED <<job, got>>, ReadableKept,
         \A i \in Entries : task'[i] \in {"none", "lock"} => task[i] \in {"none", "lock"}
  PROVE  FetchInv'
<1> SUFFICES ASSUME NEW i \in Entries
             PROVE  /\ task'[i] \in {"none", "lock"} => got[i] = <<>>
                    /\ \A k \in 1..Len(got[i]) :
                         /\ job.reads[Cell(i)][k] # Cell(i)
                              => Readable(job.reads[Cell(i)][k])'
                         /\ got[i][k] = Fetched(job, Cell(i), k, result')
                         /\ k < Len(got[i]) => got[i][k] \notin Errors
  BY SameEntries DEF FetchInv, Readable, Fetched
<1>1. task'[i] \in {"none", "lock"} => got[i] = <<>>
  BY DEF FetchInv
<1>2. ASSUME NEW k \in 1..Len(got[i])
      PROVE  /\ job.reads[Cell(i)][k] # Cell(i) => Readable(job.reads[Cell(i)][k])'
             /\ got[i][k] = Fetched(job, Cell(i), k, result')
             /\ k < Len(got[i]) => got[i][k] \notin Errors
  <2>1. IsJob(job) /\ Cell(i) \in Cells
    BY EntryFacts DEF TypeInv, TypeOK
  <2>2. k \in 1..Len(job.reads[Cell(i)])
    BY EntryFacts
  <2>3. job.reads[Cell(i)][k] \in Cells
    BY <2>1, <2>2, JobFacts
  <2> QED
    BY <2>3, SameEntries DEF FetchInv, ReadableKept, Readable, Fetched
<1> QED
  BY <1>1, <1>2

(***************************************************************************)
(* A task appends what it fetches: r, from a cell that is readable, unless *)
(* the reference is to its own cell.                                       *)
(***************************************************************************)
LEMMA FetchAppends ==
  ASSUME TypeInv, FetchInv, NEW i \in Entries, NEW r \in Results,
         UNCHANGED <<job, result, mtx, task>>,
         task[i] = "eval", ~FetchingEnded(i),
         got' = [got EXCEPT ![i] = Append(@, r)],
         IF NextFetch(i) = Cell(i) THEN r = RefNotAvailable
                                   ELSE Readable(NextFetch(i)) /\ r = result[NextFetch(i)]
  PROVE  FetchInv'
<1>1. /\ got[i] \in Seq(Results) /\ Len(got[i]) \in Nat
      /\ got \in [Entries -> Seq(Results)]
  BY EntryFacts DEF TypeInv, TypeOK
<1>2. /\ got'[i] = Append(got[i], r)
      /\ \A l \in Entries : l # i => got'[l] = got[l]
  BY <1>1
<1>3. /\ Len(got'[i]) = Len(got[i]) + 1
      /\ \A k \in 1..Len(got[i]) : got'[i][k] = got[i][k]
      /\ got'[i][Len(got[i]) + 1] = r
  BY <1>1, <1>2
<1>4. \A k \in 1..Len(got[i]) : got[i][k] \notin Errors
  <2>1. got[i] # <<>> => Latest(i) \notin Errors
    BY DEF FetchingEnded, FetchedError
  <2>2. ASSUME NEW k \in 1..Len(got[i]) PROVE got[i][k] \notin Errors
    <3>1. CASE k < Len(got[i])
      BY <3>1 DEF FetchInv
    <3>2. CASE ~(k < Len(got[i]))
      BY <3>2, <2>1, <1>1 DEF Latest
    <3> QED
      BY <3>1, <3>2
  <2> QED
    BY <2>2
<1>5. ASSUME NEW l \in Entries
      PROVE  /\ task'[l] \in {"none", "lock"} => got'[l] = <<>>
             /\ \A k \in 1..Len(got'[l]) :
                  /\ job.reads[Cell(l)][k] # Cell(l)
                       => Readable(job.reads[Cell(l)][k])
                  /\ got'[l][k] = Fetched(job, Cell(l), k, result)
                  /\ k < Len(got'[l]) => got'[l][k] \notin Errors
  <2>1. CASE l # i
    BY <1>2, <2>1 DEF FetchInv
  <2>2. CASE l = i
    <3>1. ASSUME NEW k \in 1..Len(got[i])
          PROVE  /\ job.reads[Cell(i)][k] # Cell(i)
                      => Readable(job.reads[Cell(i)][k])
                 /\ got'[i][k] = Fetched(job, Cell(i), k, result)
                 /\ got'[i][k] \notin Errors
      BY <1>3, <1>4 DEF FetchInv
    <3>2. /\ job.reads[Cell(i)][Len(got[i]) + 1] # Cell(i)
               => Readable(job.reads[Cell(i)][Len(got[i]) + 1])
          /\ got'[i][Len(got[i]) + 1] = Fetched(job, Cell(i), Len(got[i]) + 1, result)
      BY <1>3 DEF NextFetch, Fetched
    <3>3. \A k \in 1..Len(got'[i]) : k \in 1..Len(got[i]) \/ k = Len(got[i]) + 1
      BY <1>1, <1>3
    <3> QED
      BY <2>2, <3>1, <3>2, <3>3, <1>3, <1>1
  <2> QED
    BY <2>1, <2>2
<1> QED
  BY <1>5, SameEntries DEF FetchInv, Readable, Fetched

(***************************************************************************)
(* No step but the reset and the circularity check touches a readable      *)
(* result.                                                                 *)
(***************************************************************************)
LEMMA ReadableStep ==
  ASSUME TypeInv, TasksInv, MutexInv, Next, main \notin {"begin", "check"}
  PROVE  ReadableKept
<1> USE DEF ReadableKept, Readable
<1>t. /\ \A i \in Entries : Cell(i) \in Cells
      /\ mtx \in [Cells -> 0..N] /\ result \in [Cells -> Results \cup {Nil}]
      /\ \A i \in Entries : i # 0
  BY JobFacts DEF TypeInv, TypeOK, N, Entries, Cell
<1>1. CASE QueueOnly
  BY <1>1, QueueOnlyStep
<1>2. CASE InlineCall \/ Push
  BY <1>2, LaunchStep
<1>3. ASSUME NEW i \in Entries, TaskStep(i) PROVE ReadableKept
  <2>1. CASE StartInterpret(i)
    BY <2>1, <1>t DEF StartInterpret, Cached
  <2>2. CASE Store(i) \/ Throw(i)
    BY <2>2, <1>t DEF Store, Throw, MutexInv, Evaluating
  <2>3. CASE ReturnCached(i) \/ FetchSelf(i) \/ Fetch(i) \/ NotifyAll(i)
    BY <2>3 DEF ReturnCached, FetchSelf, Fetch, NotifyAll, calcVars
  <2> QED
    BY <1>3, <2>1, <2>2, <2>3 DEF TaskStep
<1>4. ASSUME NEW i \in Entries, TaskWakes(i) PROVE ReadableKept
  BY <1>4 DEF TaskWakes, calcVars
<1>5. ~Begin /\ ~CheckCircular
  BY DEF Begin, CheckCircular
<1> QED
  BY <1>1, <1>2, <1>3, <1>4, <1>5, NextCases

LEMMA FetchStep == SafetyInv /\ Next => FetchInv'
<1> SUFFICES ASSUME TypeInv, TasksInv, MutexInv, FetchInv, StoreInv, Next PROVE FetchInv'
  BY DEF SafetyInv
<1>t. /\ task \in [Entries -> TaskStates]
      /\ result \in [Cells -> Results \cup {Nil}]
      /\ RefNotAvailable \in Results
  BY ResultAssumption DEF TypeInv, TypeOK
<1>1. CASE Begin \/ CheckCircular
  <2>1. /\ \A i \in Entries : got[i] = <<>>
        /\ UNCHANGED <<job, got>>
    BY <1>1, NoTasksYet DEF Begin, CheckCircular, FetchInv, taskVars
  <2> QED
    BY <2>1, SameEntries DEF FetchInv
<1>2. ASSUME main \notin {"begin", "check"}, UNCHANGED <<job, got>>,
             \A i \in Entries : task'[i] \in {"none", "lock"} => task[i] \in {"none", "lock"}
      PROVE  FetchInv'
  BY <1>2, ReadableStep, FetchKept
<1>3. CASE QueueOnly
  BY <1>3, QueueOnlyStep, SameEntries DEF FetchInv, Readable, Fetched
<1>4. CASE InlineCall \/ Push
  <2>1. main \notin {"begin", "check"}
    BY <1>4 DEF InlineCall, Push, TypeInv, Bounds
  <2> QED
    BY <1>4, <2>1, <1>2, <1>t, LaunchStep
<1>5. ASSUME NEW i \in Entries, TaskStep(i) \/ TaskWakes(i) PROVE FetchInv'
  <2>1. main \notin {"begin", "check"}
    BY <1>5, NoTasksYet
       DEF TaskStep, ReturnCached, StartInterpret, FetchSelf, Fetch, Store, Throw,
           NotifyAll, TaskWakes
  <2>2. CASE ReturnCached(i)
    BY <2>2, <2>1, <1>2, <1>t DEF ReturnCached
  <2>3. CASE StartInterpret(i)
    BY <2>3, <2>1, <1>2, <1>t DEF StartInterpret
  <2>4. CASE FetchSelf(i)
    <3>1. /\ UNCHANGED <<job, result, mtx, task>>
          /\ task[i] = "eval" /\ ~FetchingEnded(i)
          /\ got' = [got EXCEPT ![i] = Append(@, RefNotAvailable)]
          /\ NextFetch(i) = Cell(i)
      BY <2>4 DEF FetchSelf, calcVars
    <3> QED
      BY <3>1, <1>t, FetchAppends
  <2>5. CASE Fetch(i)
    <3> DEFINE d == NextFetch(i)
    <3>1. /\ d \in Cells /\ d # Cell(i)
          /\ task[i] = "eval" /\ ~FetchingEnded(i)
          /\ UNCHANGED <<job, result, mtx>>
          /\ mtx[d] = 0
      BY <2>5, EntryFacts DEF Fetch, FetchingEnded, calcVars, CanLock, Interpreting
    <3>2. policy = "block_until_done"
      BY <2>1, <3>1 DEF TasksInv, Running, Finished, Succeeded
    <3>3. CASE result[d] = Nil
      <4>1. UNCHANGED got /\ task' = [task EXCEPT ![i] = "condwait"]
        BY <2>5, <3>2, <3>3 DEF Fetch
      <4> QED
        BY <4>1, <3>1, <2>1, <1>2, <1>t
    <3>4. CASE result[d] # Nil
      <4>1. /\ UNCHANGED task
            /\ got' = [got EXCEPT ![i] = Append(@, result[d])]
        BY <2>5, <3>4 DEF Fetch
      <4>2. result[d] \in Results /\ Readable(d)
        BY <3>1, <3>4, <1>t DEF Readable
      <4> QED
        BY <4>1, <4>2, <3>1, FetchAppends
    <3> QED
      BY <3>3, <3>4
  <2>6. CASE Store(i)
    BY <2>6, <2>1, <1>2, <1>t DEF Store
  <2>7. CASE Throw(i)
    BY <2>7, <2>1, <1>2, <1>t DEF Throw
  <2>8. CASE NotifyAll(i)
    BY <2>8, <2>1, <1>2, <1>t DEF NotifyAll, Woken, Waiters
  <2>9. CASE TaskWakes(i)
    BY <2>9, <2>1, <1>2, <1>t DEF TaskWakes
  <2> QED
    BY <1>5, <2>2, <2>3, <2>4, <2>5, <2>6, <2>7, <2>8, <2>9 DEF TaskStep
<1> QED
  BY <1>1, <1>3, <1>4, <1>5, NextCases

LEMMA StoreStep == SafetyInv /\ Next => StoreInv'
<1> SUFFICES ASSUME TypeInv, TasksInv, MutexInv, FetchInv, StoreInv, Next PROVE StoreInv'
  BY DEF SafetyInv
<1>t. /\ task \in [Entries -> TaskStates]
      /\ result \in [Cells -> Results \cup {Nil}]
      /\ mtx \in [Cells -> 0..N]
      /\ \A i \in Entries : Cell(i) \in Cells /\ i # 0
      /\ Nil \notin Results /\ Empty # Nil
  BY ResultAssumption, JobFacts DEF TypeInv, TypeOK, N, Entries, Cell
\* What is there to show for one entry, when its fetches do not change.
<1> DEFINE Kept(i) ==
      /\ Evaluating(i)' => result'[Cell(i)] # Nil
      /\ task'[i] \in {"notify", "done"} =>
           /\ FetchingEnded(i)
           /\ result'[Cell(i)] # Nil /\ mtx'[Cell(i)] = 0
           /\ result'[Cell(i)] = IF FetchedError(i) THEN Latest(i)
                                                    ELSE Formula(Cell(i), got[i])
<1>1. ASSUME UNCHANGED <<job, got>>, \A i \in Entries : Kept(i)
      PROVE  StoreInv'
  BY <1>1, SameEntries DEF StoreInv, Readable, FetchingEnded, FetchedError, Latest
<1>2. CASE Begin \/ CheckCircular
  <2>1. /\ \A i \in Entries : task'[i] = "none"
        /\ UNCHANGED <<job, got>>
    BY <1>2, NoTasksYet DEF Begin, CheckCircular, taskVars
  <2> QED
    BY <2>1, <1>1 DEF Evaluating
<1>3. CASE QueueOnly
  BY <1>3, <1>1, QueueOnlyStep DEF StoreInv, Readable, Evaluating
<1>4. CASE InlineCall \/ Push
  BY <1>4, <1>1, <1>t, LaunchStep DEF StoreInv, Readable, Evaluating
<1>5. ASSUME NEW i \in Entries, TaskStep(i) \/ TaskWakes(i) PROVE StoreInv'
  <2>1. CASE ReturnCached(i)
    BY <2>1, <1>1, <1>t DEF ReturnCached, calcVars, StoreInv, Readable, Evaluating
  <2>2. CASE StartInterpret(i)
    <3>1. /\ UNCHANGED <<job, got>> /\ result[Cell(i)] = Nil /\ mtx[Cell(i)] = 0
          /\ mtx' = [mtx EXCEPT ![Cell(i)] = i]
          /\ result' = [result EXCEPT ![Cell(i)] = Empty]
          /\ task' = [task EXCEPT ![i] = "eval"]
      BY <2>2 DEF StartInterpret, Cached, CanLock, Interpreting
    <3> QED
      BY <3>1, <1>1, <1>t DEF StoreInv, Readable, Evaluating
  <2>3. CASE FetchSelf(i) \/ Fetch(i)
    <3>1. /\ UNCHANGED <<job, result, mtx>> /\ task[i] = "eval"
          /\ \A k \in Entries : k # i => task'[k] = task[k] /\ got'[k] = got[k]
          /\ task'[i] \in {"eval", "condwait"}
      BY <2>3, <1>t DEF FetchSelf, Fetch, calcVars, TypeInv, TypeOK
    <3>2. ASSUME NEW k \in Entries
          PROVE  /\ Evaluating(k)' => result[Cell(k)] # Nil
                 /\ task'[k] \in {"notify", "done"} =>
                      /\ k # i
                      /\ FetchingEnded(k)
                      /\ Readable(Cell(k))
                      /\ result[Cell(k)] = IF FetchedError(k)
                                             THEN Latest(k)
                                             ELSE Formula(Cell(k), got[k])
      BY <3>1 DEF StoreInv, Evaluating
    <3> QED
      BY <3>1, <3>2, SameEntries
         DEF StoreInv, Readable, FetchingEnded, FetchedError, Latest
  <2>4. CASE Store(i)
    <3> DEFINE r == IF FetchedError(i) THEN Latest(i) ELSE Formula(Cell(i), got[i])
    <3>1. /\ UNCHANGED <<job, got>> /\ task[i] = "eval"
          /\ FetchingEnded(i)
          /\ result' = [result EXCEPT ![Cell(i)] = r]
          /\ mtx' = [mtx EXCEPT ![Cell(i)] = 0]
          /\ task' = [task EXCEPT ![i] = "notify"]
      BY <2>4 DEF Store
    <3>2. r # Nil
      <4>1. CASE FetchedError(i)
        BY <4>1, <1>t, EntryFacts DEF FetchedError
      <4>2. CASE ~FetchedError(i)
        <5>1. /\ Len(got[i]) \in Nat /\ Len(job.reads[Cell(i)]) \in Nat
              /\ Len(got[i]) <= Len(job.reads[Cell(i)])
              /\ Len(job.reads[Cell(i)]) <= MaxReads
              /\ Cell(i) \in Cells /\ got[i] \in Seq(Results)
          BY EntryFacts
        <5>2. Len(got[i]) <= MaxReads
          BY <5>1, ResultAssumption
        <5> QED
          BY <4>2, <5>1, <5>2, <1>t, FormulaGivesResult
      <4> QED
        BY <4>1, <4>2
    <3>3. ASSUME NEW k \in Entries PROVE Kept(k)
      <4>1. CASE k = i
        BY <4>1, <3>1, <3>2, <1>t DEF Evaluating
      <4>2. CASE k # i /\ Cell(k) = Cell(i)
        BY <4>2, <3>1, <1>t DEF MutexInv, StoreInv, Readable, Evaluating
      <4>3. CASE Cell(k) # Cell(i)
        BY <4>3, <3>1, <1>t DEF StoreInv, Readable, Evaluating
      <4> QED
        BY <4>1, <4>2, <4>3
    <3> QED
      BY <3>1, <3>3, <1>1
  <2>5. CASE Throw(i)
    BY <2>5, <1>1, <1>t DEF Throw, StoreInv, Readable, Evaluating
  <2>6. CASE NotifyAll(i)
    BY <2>6, <1>1, <1>t
       DEF NotifyAll, Woken, Waiters, calcVars, StoreInv, Readable, Evaluating
  <2>7. CASE TaskWakes(i)
    BY <2>7, <1>1, <1>t DEF TaskWakes, calcVars, StoreInv, Readable, Evaluating
  <2> QED
    BY <1>5, <2>1, <2>2, <2>3, <2>4, <2>5, <2>6, <2>7 DEF TaskStep
<1> QED
  BY <1>2, <1>3, <1>4, <1>5, NextCases

LEMMA SafetyInvariant == Spec => []SafetyInv
<1>1. SafetyInv /\ [Next]_vars => SafetyInv'
  <2> SUFFICES ASSUME SafetyInv, [Next]_vars PROVE SafetyInv'
    OBVIOUS
  <2>1. CASE Next
    BY <2>1, NextTypeInv, TasksStep, MutexStep, FetchStep, StoreStep DEF SafetyInv
  <2>2. CASE UNCHANGED vars
    <3>1. UNCHANGED <<job, result, safe, mtx, policy, main, checked, taken, ret,
                      launcher, launched, futures, task, got>>
      BY <2>2 DEF vars, calcVars, mainVars, queueVars, taskVars
    <3>2. TypeInv'
      BY <2>2, NextTypeInv DEF SafetyInv
    <3>3. TasksInv' /\ MutexInv'
      BY <3>1, SameEntries
         DEF SafetyInv, TasksInv, MutexInv, Evaluating, Running, Finished, Succeeded
    <3>4. FetchInv'
      BY <3>1, SameEntries DEF SafetyInv, FetchInv, Readable, Fetched
    <3>5. StoreInv'
      BY <3>1, SameEntries
         DEF SafetyInv, StoreInv, Evaluating, Readable, FetchingEnded, FetchedError, Latest
    <3> QED
      BY <3>2, <3>3, <3>4, <3>5 DEF SafetyInv
  <2> QED
    BY <2>1, <2>2
<1> QED
  BY <1>1, InitSafetyInv, PTL DEF Spec

-----------------------------------------------------------------------------
(***************************************************************************)
(* Two tasks never interpret the same cell at once: interpret() holds the  *)
(* cell's mutex from its first read to the stored result.                  *)
(***************************************************************************)
MutualExclusion ==
  \A i, k \in Entries : (Evaluating(i) /\ Evaluating(k) /\ Cell(i) = Cell(k)) => i = k

THEOREM CellsInterpretedByOne == Spec => []MutualExclusion
<1>1. SafetyInv => MutualExclusion
  BY DEF SafetyInv, MutexInv, MutualExclusion
<1> QED
  BY <1>1, SafetyInvariant, PTL

(***************************************************************************)
(* When a task has fetched what it needs, what it is about to store is the *)
(* outcome of its formula, for any cell values v that agree with the       *)
(* results that can be read.                                               *)
(***************************************************************************)
LEMMA FetchedOutcome ==
  ASSUME SafetyInv, NEW i \in Entries, FetchingEnded(i),
         NEW v, \A d \in Cells : Readable(d) => v[d] = result[d]
  PROVE  IsOutcome(job, Cell(i), v,
                   IF FetchedError(i) THEN Latest(i) ELSE Formula(Cell(i), got[i]))
<1> DEFINE c == Cell(i)
<1>1. /\ c \in Cells /\ got[i] \in Seq(Results) /\ Len(got[i]) \in Nat
      /\ Len(job.reads[c]) \in Nat /\ Len(got[i]) <= Len(job.reads[c])
      /\ DOMAIN job.reads[c] = 1..Len(job.reads[c])
  BY EntryFacts, JobFacts DEF SafetyInv, TypeInv, TypeOK
<1>2. ASSUME NEW k \in 1..Len(got[i])
      PROVE  /\ got[i][k] = Fetched(job, c, k, v)
             /\ got[i][k] \in Results
             /\ k < Len(got[i]) => got[i][k] \notin Errors
  <2>1. job.reads[c][k] \in Cells
    <3>1. k \in 1..Len(job.reads[c])
      BY <1>1
    <3> QED
      BY <1>1, <3>1, JobFacts DEF SafetyInv, TypeInv, TypeOK
  <2>2. /\ job.reads[c][k] # c => Readable(job.reads[c][k])
        /\ got[i][k] = Fetched(job, c, k, result)
        /\ k < Len(got[i]) => got[i][k] \notin Errors
    BY DEF SafetyInv, FetchInv
  <2> QED
    BY <1>1, <2>1, <2>2 DEF Fetched
<1>4. CASE FetchedError(i)
  <2> DEFINE k == Len(got[i])
  <2>1. k \in 1..Len(got[i]) /\ got[i][k] \in Errors
    BY <1>1, <1>4 DEF FetchedError, Latest
  <2>2. StopsAt(job, c, k, v)
    <3>1. k \in DOMAIN job.reads[c] /\ Fetched(job, c, k, v) \in Errors
      BY <1>1, <1>2, <2>1
    <3>2. \A l \in 1..(k - 1) : Fetched(job, c, l, v) \in Results \ Errors
      BY <1>1, <1>2
    <3> QED
      BY <3>1, <3>2 DEF StopsAt
  <2>3. Latest(i) = Fetched(job, c, k, v)
    BY <1>2, <2>1 DEF Latest
  <2> QED
    BY <1>4, <2>2, <2>3 DEF IsOutcome, StopsAt
<1>5. CASE ~FetchedError(i)
  <2>1. Len(got[i]) = Len(job.reads[c])
    BY <1>5 DEF FetchingEnded
  <2>2. \A k \in 1..Len(got[i]) : got[i][k] \notin Errors
    BY <1>1, <1>2, <1>5 DEF FetchedError, Latest
  <2>3. ReadsValues(job, c, v)
    BY <1>1, <1>2, <2>1, <2>2 DEF ReadsValues
  <2>4. Vector(job, c, v) = got[i]
    BY <1>1, <1>2, <2>1 DEF Vector
  <2> QED
    BY <1>5, <2>3, <2>4 DEF IsOutcome
<1> QED
  BY <1>4, <1>5

(***************************************************************************)
(* In any interleaving, with any number of threads, an interpreted cell    *)
(* holds what its formula gives from the results its references end up     *)
(* with: no task ever uses a default or a stale result of another.         *)
(***************************************************************************)
LEMMA StoredIsOutcome ==
  ASSUME SafetyInv, NEW i \in Entries, task[i] \in {"notify", "done"}
  PROVE  IsOutcome(job, Cell(i), result, result[Cell(i)])
<1>1. /\ FetchingEnded(i)
      /\ result[Cell(i)] = IF FetchedError(i) THEN Latest(i) ELSE Formula(Cell(i), got[i])
  BY DEF SafetyInv, StoreInv
<1> QED
  BY <1>1, FetchedOutcome

THEOREM ResultsCorrect == Spec => []ResultsAgree
<1>1. SafetyInv => ResultsAgree
  BY StoredIsOutcome DEF ResultsAgree
<1> QED
  BY <1>1, SafetyInvariant, PTL

(***************************************************************************)
(* Nothing of the calculation is left running or locked when               *)
(* calculate_sorted_cells is left, even by an exception.                   *)
(***************************************************************************)
THEOREM CallLeavesNothing == Spec => []NothingOutlivesCall
<1>1. ASSUME SafetyInv PROVE NothingOutlivesCall
  <2> USE <1>1 DEF SafetyInv
  <2>1. ASSUME main \in {"done", "threw"} PROVE \A i \in Entries : ~Running(i)
    BY <2>1 DEF TasksInv
  <2>2. ASSUME main \in {"done", "threw"}, NEW c \in Cells PROVE mtx[c] = 0
    BY <2>1, <2>2 DEF MutexInv, Evaluating, Running, Finished, Succeeded
  <2>3. ASSUME NEW i \in Entries, Running(i) PROVE policy = "block_until_done"
    <3>1. main \notin {"begin", "done", "threw"}
      BY <2>1, <2>3, NoTasksYet DEF Running
    <3> QED
      BY <3>1 DEF TasksInv
  <2> QED
    BY <2>1, <2>2, <2>3 DEF NothingOutlivesCall
<1> QED
  BY <1>1, SafetyInvariant, PTL

(***************************************************************************)
(* A result that another task may have read is never written again: a cell *)
(* is interpreted at most once.                                            *)
(***************************************************************************)
THEOREM ResultsSettle == Spec => SettledForever
<1> DEFINE Kept == main # "begin" =>
             \A c \in Cells : (result[c] # Nil /\ ~Interpreting(c)) => result'[c] = result[c]
<1>1. ASSUME SafetyInv, Next PROVE Kept
  <2>1. CASE main = "check"
    <3>1. ASSUME NEW c \in Cells, result[c] # Nil, CheckCircular PROVE result'[c] = result[c]
      <4>1. Cell(checked + 1) \in Dirty(job) /\ result \in [Cells -> Results \cup {Nil}]
        BY <1>1, <3>1, JobFacts
           DEF CheckCircular, Cell, N, Dirty, SafetyInv, TypeInv, TypeOK
      <4> QED
        BY <1>1, <2>1, <3>1, <4>1 DEF CheckCircular, SafetyInv, TasksInv
    <3>2. \A i \in Entries : task[i] = "none"
      BY <1>1, <2>1, NoTasksYet DEF SafetyInv
    <3>3. ASSUME NEW i \in Entries PROVE ~TaskStep(i) /\ ~TaskWakes(i)
      BY <3>2 DEF TaskStep, ReturnCached, StartInterpret, FetchSelf, Fetch, Store, Throw,
                  NotifyAll, TaskWakes
    <3>4. QueueOnly \/ InlineCall \/ Push => UNCHANGED result
      BY <1>1, QueueOnlyStep, LaunchStep DEF SafetyInv
    <3>5. ~Begin
      BY <2>1 DEF Begin
    <3> QED
      BY <1>1, <3>1, <3>3, <3>4, <3>5, NextCases
  <2>2. CASE main \notin {"begin", "check"}
    BY <1>1, <2>2, ReadableStep DEF SafetyInv, ReadableKept, Readable, Interpreting
  <2> QED
    BY <2>1, <2>2
<1>2. SafetyInv /\ [Next]_vars => [Kept]_vars
  BY <1>1
<1> QED
  BY <1>2, SafetyInvariant, PTL DEF Spec, SettledForever
=============================================================================

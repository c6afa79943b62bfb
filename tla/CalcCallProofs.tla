--------------------------- MODULE CalcCallProofs ---------------------------
(***************************************************************************)
(* Theorems about a whole call of calculate_sorted_cells: the queue that   *)
(* main and the launcher share, the wakeups, the circularity check, and    *)
(* what the caller can rely on when it returns.  They build on the safety  *)
(* invariant of CalcQueueProofs and hold, like its theorems, for any       *)
(* number of cells and entries and any thread_count.                       *)
(***************************************************************************)
EXTENDS CalcQueueProofs, FiniteSetTheorems, WellFoundedInduction

(***************************************************************************)
(* QueueInv: the futures in the queue are those of the entries started and *)
(* not yet taken out, in order, never more than thread_count of them; and  *)
(* the entries whose wait_one has returned have succeeded.                 *)
(***************************************************************************)
Threaded == main \in {"take", "waiting", "get", "notify", "join", "unwind"}

\* How many futures have been moved out of the queue.
Out == IF main \in {"get", "notify", "unwind"} THEN taken + 1 ELSE taken

QueueInv ==
  /\ main \in {"begin", "check", "inline"} => taken = 0 /\ futures = <<>>
  /\ main \in {"get", "notify", "unwind"} => ret = taken + 1
  /\ main = "notify" => Succeeded(ret)
  /\ main = "join" => taken = N
  /\ main = "done" => \A i \in Entries : Succeeded(i)
  /\ Threaded => /\ job.threads # 0
                 /\ Len(futures) = launched - Out
                 /\ Len(futures) <= job.threads
                 /\ \A k \in 1..Len(futures) : futures[k] = Out + k
                 /\ \A i \in 1..taken : Succeeded(i)

(***************************************************************************)
(* A task moves no future and none of the counters, and no task that has   *)
(* returned starts again.                                                  *)
(***************************************************************************)
LEMMA TaskFrame ==
  ASSUME TypeInv, NEW i \in Entries, TaskStep(i) \/ TaskWakes(i)
  PROVE  /\ UNCHANGED <<job, safe, policy, main, checked, taken, ret, launcher, launched,
                        futures>>
         /\ \A k \in Entries : Succeeded(k) => Succeeded(k)'
<1>t. task \in [Entries -> TaskStates]
  BY DEF TypeInv, TypeOK
<1> USE DEF Succeeded, mainVars, queueVars, calcVars
<1>1. CASE ReturnCached(i)
  BY <1>1, <1>t DEF ReturnCached
<1>2. CASE StartInterpret(i)
  BY <1>2, <1>t DEF StartInterpret
<1>3. CASE FetchSelf(i)
  BY <1>3, <1>t DEF FetchSelf
<1>4. CASE Fetch(i)
  BY <1>4, <1>t DEF Fetch
<1>5. CASE Store(i)
  BY <1>5, <1>t DEF Store
<1>6. CASE Throw(i)
  BY <1>6, <1>t DEF Throw
<1>7. CASE NotifyAll(i)
  BY <1>7, <1>t DEF NotifyAll, Woken, Waiters
<1>8. CASE TaskWakes(i)
  BY <1>8, <1>t DEF TaskWakes
<1> QED
  BY <1>1, <1>2, <1>3, <1>4, <1>5, <1>6, <1>7, <1>8 DEF TaskStep

\* No step changes the job: what is calculated is fixed when the call starts.
LEMMA JobKept == TypeInv /\ TasksInv /\ Next => UNCHANGED job
BY NextCases, QueueOnlyStep, LaunchStep, TaskFrame DEF Begin, CheckCircular

\* A call starts with nothing launched, queued or returned.
LEMMA InitQueueInv == Init => QueueInv
BY DEF Init, QueueInv, Threaded

\* Every step keeps the account of the launched tasks: in the queue, in
\* hands of wait_one, or returned.
LEMMA QueueStep == TypeInv /\ TasksInv /\ QueueInv /\ Next => QueueInv'
<1> SUFFICES ASSUME TypeInv, TasksInv, QueueInv, Next PROVE QueueInv'
  OBVIOUS
<1>t. /\ N \in Nat /\ launched \in 0..N /\ taken \in 0..N /\ ret \in 0..N
      /\ futures \in Seq(Entries) /\ Len(futures) \in Nat
      /\ job.threads \in Nat
      /\ task \in [Entries -> TaskStates]
      /\ Entries = 1..N
  BY JobFacts DEF TypeInv, TypeOK, N, IsJob, Entries
<1>o. Out \in Nat /\ taken <= Out /\ Out <= taken + 1
  BY <1>t DEF Out
\* The steps that leave the queue and the place of main alone.
<1>u. ASSUME UNCHANGED <<job, main, taken, ret, launched, futures>>,
             \A k \in Entries : Succeeded(k) => Succeeded(k)'
      PROVE  QueueInv'
  <2>1. /\ N' = N /\ Entries' = Entries /\ Out' = Out /\ Threaded' = Threaded
    BY <1>u, SameEntries DEF Out, Threaded
  <2>6. main \in {"get", "notify", "unwind"} => ret \in Entries
    BY <1>t DEF QueueInv
  <2>2. \A k \in 1..taken : k \in Entries
    BY <1>t
  <2>3. main = "notify" => Succeeded(ret)'
    BY <1>u, <2>6 DEF QueueInv, Succeeded
  <2>4. main = "done" => \A k \in Entries : Succeeded(k)'
    BY <1>u DEF QueueInv
  <2>5. Threaded => \A k \in 1..taken : Succeeded(k)'
    BY <1>u, <2>2 DEF QueueInv
  <2> QED
    BY <1>u, <2>1, <2>3, <2>4, <2>5 DEF QueueInv
<1>1. CASE Begin \/ CheckCircular
  BY <1>1, <1>t, SameEntries
     DEF Begin, CheckCircular, queueVars, taskVars, QueueInv, Threaded
<1>2. CASE StartRun
  <2>1. /\ main = "check" /\ taken = 0 /\ futures = <<>> /\ launched = 0
        /\ UNCHANGED <<job, taken, ret, launched, futures>>
    BY <1>2 DEF StartRun, QueueInv, TypeInv, Bounds
  <2>2. CASE main' = "inline"
    BY <2>1, <2>2 DEF QueueInv, Threaded
  <2>3. CASE job.threads # 0 /\ main' = IF N = 0 THEN "join" ELSE "take"
    <3>1. /\ main' \in {"take", "join"} /\ main' = "join" => N = 0
          /\ Out' = 0 /\ N' = N
      BY <2>1, <2>3, SameEntries DEF Out
    <3>2. /\ Len(futures') = launched' - Out' /\ Len(futures') <= job.threads
          /\ 1..Len(futures') = {} /\ 1..taken = {}
      BY <2>1, <3>1, <1>t
    <3> QED
      BY <2>1, <2>3, <3>1, <3>2 DEF QueueInv
  <2> QED
    BY <1>2, <2>2, <2>3 DEF StartRun, MainAfter
<1>3. CASE InlineCall
  <2>1. main = "inline" /\ UNCHANGED <<main, taken, futures>>
    BY <1>3 DEF InlineCall, mainVars
  <2> QED
    BY <2>1 DEF QueueInv, Threaded
<1>4. CASE InlineReturn
  <2>1. /\ main = "inline" /\ main' \in {"done", "threw"}
        /\ main' = "done" => \A i \in Entries : Succeeded(i)
        /\ UNCHANGED <<job, task>>
    BY <1>4 DEF InlineReturn, taskVars
  <2> QED
    BY <2>1, SameEntries DEF QueueInv, Threaded, Succeeded
<1>5. CASE PushWaits \/ LauncherWakes
  BY <1>5, <1>u
     DEF PushWaits, LauncherWakes, calcVars, mainVars, taskVars, Succeeded
<1>6. CASE Push
  <2>1. /\ launcher = "push" /\ Len(futures) < job.threads
        /\ launched' = launched + 1
        /\ futures' = Append(futures, launched + 1)
        /\ task' = [task EXCEPT ![launched + 1] = "lock"]
        /\ UNCHANGED <<job, main, taken, ret>>
    BY <1>6, <1>t DEF Push, QueueFull, calcVars, mainVars
  <2>2. main \in MainStates /\ main \notin {"begin", "check", "inline", "done", "threw"}
    BY <2>1 DEF TypeInv, TypeOK, Bounds
  <2>3. Threaded /\ Threaded'
    BY <2>1, <2>2 DEF Threaded, MainStates
  <2>4. launched + 1 \in Entries /\ task[launched + 1] = "none"
    BY <1>6, LaunchStep
  <2>5. \A k \in Entries : Succeeded(k) => Succeeded(k)'
    BY <2>1, <2>4, <1>t DEF Succeeded
  <2>6. /\ Len(futures') = Len(futures) + 1
        /\ \A k \in 1..Len(futures) : futures'[k] = futures[k]
        /\ futures'[Len(futures) + 1] = launched + 1
    BY <2>1, <2>4, <1>t
  <2>7. Out' = Out /\ Len(futures) = launched - Out
    BY <2>1, <2>3 DEF Out, QueueInv
  <2>8. \A k \in 1..Len(futures') : futures'[k] = Out' + k
    <3> SUFFICES ASSUME NEW k \in 1..Len(futures') PROVE futures'[k] = Out + k
      BY <2>7
    <3>1. CASE k \in 1..Len(futures)
      BY <3>1, <2>3, <2>6 DEF QueueInv
    <3>2. CASE k = Len(futures) + 1
      BY <3>2, <2>6, <2>7, <1>t, <1>o
    <3> QED
      BY <3>1, <3>2, <2>6, <1>t
  <2>9. /\ job.threads # 0
        /\ Len(futures') = launched' - Out'
        /\ Len(futures') <= job.threads
    BY <2>1, <2>3, <2>6, <2>7, <1>t, <1>o DEF QueueInv
  <2>10. \A i \in 1..taken : Succeeded(i)'
    <3>1. \A i \in 1..taken : i \in Entries
      BY <1>t
    <3> QED
      BY <3>1, <2>3, <2>5 DEF QueueInv
  <2>11. /\ main \in {"get", "notify", "unwind"} => ret = taken + 1
         /\ main = "join" => taken = N
         /\ N' = N
    BY <2>1, SameEntries DEF QueueInv
  <2>12. main = "notify" => Succeeded(ret)'
    <3>1. main = "notify" => ret \in Entries /\ Succeeded(ret)
      BY <2>11, <1>t DEF QueueInv
    <3> QED
      BY <2>1, <2>5, <3>1 DEF Succeeded
  <2> QED
    BY <2>1, <2>2, <2>8, <2>9, <2>10, <2>11, <2>12 DEF QueueInv
<1>7. CASE PushNotifies
  <2>1. /\ launcher = "notify" /\ main' = IF main = "waiting" THEN "take" ELSE main
        /\ UNCHANGED <<job, taken, ret, launched, futures, task>>
    BY <1>7 DEF PushNotifies, taskVars
  <2>2. Out' = Out /\ Threaded' = Threaded /\ N' = N /\ Entries' = Entries
    BY <2>1, SameEntries DEF Out, Threaded
  <2>3. /\ \A k \in {"begin", "check", "inline", "get", "notify", "unwind", "join", "done"} :
             main' = k => main = k
        /\ \A k : Succeeded(k)' = Succeeded(k)
    BY <2>1 DEF Succeeded
  <2> QED
    BY <2>1, <2>2, <2>3 DEF QueueInv
<1>8. CASE WaitOneWaits \/ MainWakes
  <2>1. /\ main \in {"take", "waiting"} /\ main' \in {"take", "waiting"}
        /\ UNCHANGED <<job, taken, ret, launched, futures, task>>
    BY <1>8 DEF WaitOneWaits, MainWakes, queueVars, taskVars
  <2>2. Out' = Out /\ Threaded /\ Threaded'
    BY <2>1 DEF Out, Threaded
  <2> QED
    BY <2>1, <2>2 DEF QueueInv, Succeeded
<1>9. CASE WaitOneTakes
  <2>1. /\ main = "take" /\ main' = "get" /\ futures # <<>>
        /\ ret' = Head(futures) /\ futures' = Tail(futures)
        /\ UNCHANGED <<job, taken, launched, task>>
    BY <1>9 DEF WaitOneTakes, taskVars
  <2>2. Out = taken /\ Out' = taken + 1 /\ Threaded /\ Threaded'
    BY <2>1 DEF Out, Threaded
  <2>3. /\ Len(futures) >= 1 /\ Head(futures) = futures[1]
        /\ Len(futures') = Len(futures) - 1
        /\ \A k \in 1..Len(futures') : futures'[k] = futures[k + 1]
    BY <2>1, <1>t
  <2>4. ret' = taken + 1
    BY <2>1, <2>2, <2>3, <1>t DEF QueueInv
  <2>5. \A k \in 1..Len(futures') : futures'[k] = Out' + k
    <3> SUFFICES ASSUME NEW k \in 1..Len(futures') PROVE futures'[k] = Out' + k
      OBVIOUS
    <3>1. k + 1 \in 1..Len(futures)
      BY <2>3, <1>t
    <3>2. futures[k + 1] = Out + (k + 1)
      BY <3>1, <2>2 DEF QueueInv
    <3> QED
      BY <3>2, <2>2, <2>3, <1>t
  <2>6. /\ job.threads # 0
        /\ Len(futures') = launched - Out'
        /\ Len(futures') <= job.threads
    BY <2>2, <2>3, <1>t DEF QueueInv
  <2>7. \A i \in 1..taken : Succeeded(i)'
    BY <2>1, <2>2 DEF QueueInv, Succeeded
  <2> QED
    BY <2>1, <2>4, <2>5, <2>6, <2>7 DEF QueueInv
<1>10. CASE WaitOneGets
  <2>1. /\ main = "get" /\ main' \in {"unwind", "notify"}
        /\ main' = "notify" => Succeeded(ret)
        /\ UNCHANGED <<job, taken, ret, launched, futures, task>>
    BY <1>10 DEF WaitOneGets, GetThrows, Finished, queueVars, taskVars
  <2>2. Out' = Out /\ Threaded /\ Threaded'
    BY <2>1 DEF Out, Threaded
  <2> QED
    BY <2>1, <2>2 DEF QueueInv, Succeeded
<1>11. CASE WaitOneNotifies
  <2>1. /\ main = "notify" /\ taken' = taken + 1
        /\ main' = IF taken + 1 = N THEN "join" ELSE "take"
        /\ UNCHANGED <<job, launched, futures, task>>
    BY <1>11 DEF WaitOneNotifies, MainAfter, taskVars
  <2>2. Out = taken + 1 /\ Out' = taken + 1 /\ Threaded /\ Threaded' /\ N' = N
    BY <2>1, SameEntries DEF Out, Threaded
  <2>3. \A i \in 1..(taken + 1) : Succeeded(i)'
    <3>1. \A i \in 1..(taken + 1) : i \in 1..taken \/ i = taken + 1
      BY <1>t
    <3>2. Succeeded(taken + 1) /\ \A i \in 1..taken : Succeeded(i)
      BY <2>1, <2>2 DEF QueueInv
    <3> QED
      BY <2>1, <3>1, <3>2 DEF Succeeded
  <2> QED
    BY <2>1, <2>2, <2>3 DEF QueueInv
<1>12. CASE Leave
  <2>1. /\ main \in {"join", "unwind"}
        /\ main' = IF main = "join" THEN "done" ELSE "threw"
        /\ UNCHANGED <<job, task>>
    BY <1>12 DEF Leave, taskVars
  <2>2. main = "join" => \A i \in Entries : Succeeded(i)
    BY <1>t DEF QueueInv, Threaded
  <2> QED
    BY <2>1, <2>2, SameEntries DEF QueueInv, Threaded, Succeeded
<1>13. ASSUME NEW i \in Entries, TaskStep(i) \/ TaskWakes(i) PROVE QueueInv'
  BY <1>13, <1>u, TaskFrame
<1>14. CASE Returned
  BY <1>14, <1>u DEF Returned, vars, mainVars, queueVars, taskVars, Succeeded
<1> QED
  BY <1>1, <1>2, <1>3, <1>4, <1>5, <1>6, <1>7, <1>8, <1>9, <1>10, <1>11, <1>12, <1>13,
     <1>14, NextCases DEF QueueOnly

(***************************************************************************)
(* CachedInv: a task that found a result found one that was there to read. *)
(***************************************************************************)
CachedInv == \A i \in Entries : task[i] = "cached" => Readable(Cell(i))

\* Every step keeps the cached values readable: a result is never taken back.
LEMMA CachedStep == TypeInv /\ TasksInv /\ MutexInv /\ CachedInv /\ Next => CachedInv'
<1> SUFFICES ASSUME TypeInv, TasksInv, MutexInv, CachedInv, Next,
                    NEW i \in Entries, task'[i] = "cached"
             PROVE  Readable(Cell(i))'
  BY JobKept, SameEntries DEF CachedInv
<1>t. /\ task \in [Entries -> TaskStates]
      /\ Cell(i) \in Cells
      /\ Cell(i)' = Cell(i)
  BY EntryFacts, JobKept, SameEntries DEF TypeInv, TypeOK
<1>1. CASE task[i] = "cached"
  <2>1. main \notin {"begin", "check"}
    BY <1>1, NoTasksYet
  <2> QED
    BY <1>1, <1>t, <2>1, ReadableStep DEF CachedInv, ReadableKept, Readable
<1>2. CASE task[i] # "cached"
  <2>1. ASSUME NEW k \in Entries, TaskStep(k) \/ TaskWakes(k) PROVE ReturnCached(i)
    BY <2>1, <1>2, <1>t
       DEF TaskStep, ReturnCached, StartInterpret, FetchSelf, Fetch, Store, Throw,
           NotifyAll, Woken, Waiters, TaskWakes
  <2>2. ReturnCached(i)
    BY <2>1, <1>2, <1>t, NextCases, QueueOnlyStep, LaunchStep
       DEF Begin, CheckCircular, taskVars
  <2> QED
    BY <2>2, <1>t DEF ReturnCached, Cached, CanLock, Interpreting, Readable, calcVars
<1> QED
  BY <1>1, <1>2

-----------------------------------------------------------------------------
(***************************************************************************)
(* What a call has done by the time it returns: the invariant of a call,   *)
(* as far as its entries and its queue go.                                 *)
(***************************************************************************)
CallInv == SafetyInv /\ QueueInv /\ CachedInv

\* The queue and the cache keep their accounts in every state of a call.
LEMMA CallInvariant == Spec => []CallInv
<1>1. Init => QueueInv /\ CachedInv
  BY InitQueueInv DEF Init, CachedInv
<1>2. SafetyInv /\ QueueInv /\ CachedInv /\ [Next]_vars => QueueInv' /\ CachedInv'
  <2> SUFFICES ASSUME SafetyInv, QueueInv, CachedInv, [Next]_vars
               PROVE  QueueInv' /\ CachedInv'
    OBVIOUS
  <2>1. CASE Next
    BY <2>1, QueueStep, CachedStep DEF SafetyInv
  <2>2. CASE UNCHANGED vars
    <3>1. UNCHANGED <<job, result, mtx, main, taken, ret, launched, futures, task>>
      BY <2>2 DEF vars, calcVars, mainVars, queueVars, taskVars
    <3>2. QueueInv'
      BY <3>1, SameEntries DEF QueueInv, Threaded, Out, Succeeded
    <3> QED
      BY <3>1, <3>2, SameEntries DEF CachedInv, Readable
  <2> QED
    BY <2>1, <2>2
<1> QED
  BY <1>1, <1>2, SafetyInvariant, PTL DEF Spec, CallInv

(***************************************************************************)
(* When calculate_sorted_cells returns normally, every entry was           *)
(* interpreted and has its result: no exception and no task is lost        *)
(* between the queue, the future and main (formula_calc.cpp: run;          *)
(* cell_queue_manager.cpp: push, wait_one).                                *)
(***************************************************************************)
THEOREM ReturnIsComplete == Spec => []ReturnMeansAll
<1>1. ASSUME CallInv PROVE ReturnMeansAll
  <2> SUFFICES ASSUME main = "done", NEW i \in Entries
               PROVE  Succeeded(i) /\ result[Cell(i)] # Nil
    BY DEF ReturnMeansAll
  <2>1. Succeeded(i)
    BY <1>1 DEF CallInv, QueueInv
  <2>2. Readable(Cell(i))
    BY <1>1, <2>1 DEF CallInv, CachedInv, SafetyInv, StoreInv, Succeeded
  <2> QED
    BY <2>1, <2>2 DEF Readable
<1> QED
  BY <1>1, CallInvariant, PTL

\* The running tasks are entries of a stretch as long as the queue allows.
LEMMA RunningStretch ==
  ASSUME CallInv
  PROVE  \E a \in Nat, n \in Nat : /\ n <= job.threads + 1
                                   /\ {i \in Entries : Running(i)} \subseteq (a + 1)..(a + n)
<1> USE DEF CallInv, SafetyInv, QueueInv
<1>t. /\ N \in Nat /\ launched \in Nat /\ taken \in Nat /\ Len(futures) \in Nat
      /\ job.threads \in Nat /\ Entries = 1..N
      /\ main \in MainStates
  BY JobFacts DEF TypeInv, TypeOK, N, IsJob, Entries
<1>l. \A i \in Entries : Running(i) => i <= launched
  BY DEF TasksInv, Running
<1>1. CASE main \in {"begin", "check", "done", "threw"}
  <2>1. {i \in Entries : Running(i)} \subseteq 1..0
    BY <1>1, NoTasksYet DEF TasksInv, Running
  <2> QED
    BY <2>1, <1>t
<1>2. CASE main = "inline"
  <2>1. ASSUME NEW i \in Entries, Running(i) PROVE i = launched
    <3>1. ~Succeeded(i) /\ i <= launched
      BY <2>1, <1>l DEF Running, Finished
    <3>2. ~(i \in 1..(launched - 1))
      BY <1>2, <3>1 DEF TasksInv
    <3> QED
      BY <3>1, <3>2, <1>t
  <2>2. CASE launched = 0
    <3>1. {i \in Entries : Running(i)} \subseteq 1..0
      BY <2>1, <2>2, <1>t
    <3> QED
      BY <3>1, <1>t
  <2>3. CASE launched # 0
    <3>1. {i \in Entries : Running(i)} \subseteq ((launched - 1) + 1)..((launched - 1) + 1)
      BY <2>1, <1>t
    <3>2. launched - 1 \in Nat /\ 1 \in Nat /\ 1 <= job.threads + 1
      BY <2>3, <1>t
    <3> QED
      BY <3>1, <3>2
  <2> QED
    BY <2>2, <2>3
<1>3. CASE Threaded
  <2> DEFINE n == Len(futures) + (Out - taken)
  <2>1. Out \in Nat /\ taken <= Out /\ Out <= taken + 1 /\ taken + n = launched
    BY <1>3, <1>t DEF Out
  <2>2. n \in Nat /\ n <= job.threads + 1
    BY <1>3, <2>1, <1>t
  <2>3. ASSUME NEW i \in Entries, Running(i) PROVE i \in (taken + 1)..(taken + n)
    <3>1. i <= launched
      BY <2>3, <1>l
    <3>2. ~(i \in 1..taken)
      BY <2>3, <1>3 DEF Running, Finished
    <3> QED
      BY <3>1, <3>2, <2>1, <1>t
  <2> QED
    BY <2>2, <2>3, <1>t
<1> QED
  BY <1>1, <1>2, <1>3, <1>t DEF MainStates, Threaded

(***************************************************************************)
(* ThreadsAsPromised does not hold, but one more task than that is the     *)
(* most that can run: the tasks that run at any moment are no more than    *)
(* thread_count, plus the one whose future wait_one has taken out of the   *)
(* queue and not yet waited for, because push waits while the queue is     *)
(* full (cell_queue_manager.cpp: push, wait_one).                          *)
(***************************************************************************)
WorkersBounded ==
  Cardinality({i \in Entries : Running(i)}) <= job.threads + 1

THEOREM ThreadsBounded == Spec => []WorkersBounded
<1>1. ASSUME CallInv PROVE WorkersBounded
  <2> DEFINE R == {i \in Entries : Running(i)}
  <2>1. PICK a \in Nat, n \in Nat : n <= job.threads + 1 /\ R \subseteq (a + 1)..(a + n)
    BY <1>1, RunningStretch
  <2>2. IsFiniteSet((a + 1)..(a + n)) /\ Cardinality((a + 1)..(a + n)) = n
    <3>1. a + 1 \in Int /\ a + n \in Int
      OBVIOUS
    <3>2. /\ IsFiniteSet((a + 1)..(a + n))
          /\ Cardinality((a + 1)..(a + n)) =
               IF a + 1 > a + n THEN 0 ELSE (a + n) - (a + 1) + 1
      BY <3>1, FS_Interval
    <3> QED
      BY <3>2
  <2>3. IsFiniteSet(R) /\ Cardinality(R) <= n
    BY <2>1, <2>2, FS_Subset
  <2>4. Cardinality(R) \in Nat /\ job.threads \in Nat
    BY <1>1, <2>3, FS_CardinalityType DEF CallInv, SafetyInv, TypeInv, TypeOK, IsJob
  <2>5. Cardinality(R) <= job.threads + 1
    BY <2>1, <2>3, <2>4
  <2> QED
    BY <2>5 DEF WorkersBounded
<1> QED
  BY <1>1, CallInvariant, PTL

-----------------------------------------------------------------------------
(***************************************************************************)
(* The wakeups.  SleepInv: a task waits on the condition variable of       *)
(* another cell, one that its formula has yet to fetch.  NoFailure: with   *)
(* no exception in a formula, wait_one never leaves run() early.           *)
(***************************************************************************)
SleepInv ==
  \A i \in Entries : task[i] = "condwait" => ~FetchingEnded(i) /\ NextFetch(i) # Cell(i)

NoFailure == job.throws = {} => \A i \in Entries : task[i] # "failed"

(***************************************************************************)
(* A task that is asleep after a step was asleep before it, or goes to     *)
(* sleep on a cell that has no result.                                     *)
(***************************************************************************)
LEMMA Asleep ==
  ASSUME TypeInv, TasksInv, Next, NEW i \in Entries, task'[i] = "condwait"
  PROVE  /\ UNCHANGED job
         /\ got'[i] = got[i]
         /\ NextFetch(i)' = NextFetch(i) /\ FetchingEnded(i)' = FetchingEnded(i)
         /\ \/ task[i] = "condwait"
            \/ /\ Fetch(i)
               /\ ~FetchingEnded(i) /\ NextFetch(i) # Cell(i)
               /\ result[NextFetch(i)] = Nil /\ UNCHANGED result
<1>t. /\ task \in [Entries -> TaskStates]
      /\ got \in [Entries -> Seq(Results)]
  BY DEF TypeInv, TypeOK
<1>1. /\ got'[i] = got[i]
      /\ task[i] = "condwait" \/ Fetch(i)
  <2>1. CASE Begin \/ CheckCircular
    BY <2>1 DEF Begin, CheckCircular, taskVars
  <2>2. CASE QueueOnly
    BY <2>2, QueueOnlyStep
  <2>3. CASE InlineCall \/ Push
    BY <2>3, <1>t, LaunchStep
  <2>4. ASSUME NEW k \in Entries, TaskStep(k) \/ TaskWakes(k)
        PROVE  got'[i] = got[i] /\ (task[i] = "condwait" \/ Fetch(i))
    <3>1. CASE FetchSelf(k)
      BY <3>1, <1>t DEF FetchSelf
    <3>2. CASE Fetch(k)
      BY <3>2, <1>t DEF Fetch
    <3>3. CASE ~FetchSelf(k) /\ ~Fetch(k)
      BY <2>4, <3>3, <1>t
         DEF TaskStep, ReturnCached, StartInterpret, Store, Throw, NotifyAll, Woken,
             Waiters, TaskWakes
    <3> QED
      BY <3>1, <3>2, <3>3
  <2> QED
    BY <2>1, <2>2, <2>3, <2>4, NextCases
<1>2. /\ UNCHANGED job
      /\ NextFetch(i)' = NextFetch(i) /\ FetchingEnded(i)' = FetchingEnded(i)
  BY <1>1, JobKept, SameEntries DEF NextFetch, FetchingEnded, FetchedError, Latest
<1>3. ASSUME task[i] # "condwait"
      PROVE  /\ Fetch(i)
             /\ ~FetchingEnded(i) /\ NextFetch(i) # Cell(i)
             /\ result[NextFetch(i)] = Nil /\ UNCHANGED result
  BY <1>1, <1>3, <1>t DEF Fetch, calcVars
<1> QED
  BY <1>1, <1>2, <1>3

\* Every step keeps SleepInv: a task sleeps only while it has another cell to fetch.
LEMMA SleepStep == TypeInv /\ TasksInv /\ SleepInv /\ Next => SleepInv'
<1> SUFFICES ASSUME TypeInv, TasksInv, SleepInv, Next,
                    NEW i \in Entries, task'[i] = "condwait"
             PROVE  ~FetchingEnded(i)' /\ NextFetch(i)' # Cell(i)'
  BY JobKept, SameEntries DEF SleepInv
<1>1. ~FetchingEnded(i) /\ NextFetch(i) # Cell(i)
  BY Asleep DEF SleepInv
<1> QED
  BY <1>1, Asleep, SameEntries

\* Every step keeps NoFailure: without a formula that throws no task fails.
LEMMA NoFailureStep == TypeInv /\ TasksInv /\ NoFailure /\ Next => NoFailure'
<1> SUFFICES ASSUME TypeInv, TasksInv, NoFailure, Next, job.throws = {},
                    NEW i \in Entries
             PROVE  task'[i] # "failed"
  BY JobKept, SameEntries DEF NoFailure
<1>t. task \in [Entries -> TaskStates] /\ task[i] # "failed"
  BY DEF TypeInv, TypeOK, NoFailure
<1>1. CASE Begin \/ CheckCircular
  BY <1>1, <1>t DEF Begin, CheckCircular, taskVars
<1>2. CASE QueueOnly
  BY <1>2, <1>t, QueueOnlyStep
<1>3. CASE InlineCall \/ Push
  BY <1>3, <1>t, LaunchStep
<1>4. ASSUME NEW k \in Entries, TaskStep(k) \/ TaskWakes(k) PROVE task'[i] # "failed"
  BY <1>4, <1>t
     DEF TaskStep, ReturnCached, StartInterpret, FetchSelf, Fetch, Store, Throw, NotifyAll,
         Woken, Waiters, TaskWakes
<1> QED
  BY <1>1, <1>2, <1>3, <1>4, NextCases

(***************************************************************************)
(* The condition variable of the queue: main and the launcher are never    *)
(* asleep at once, and neither sleeps past the notification it waits for.  *)
(***************************************************************************)
QueueWakeups ==
  /\ launcher = "waiting" => Len(futures) >= job.threads \/ main \in {"get", "notify"}
  /\ main = "waiting" => futures = <<>> \/ launcher = "notify"
  /\ ~(launcher = "waiting" /\ main = "waiting")

QueueWakeInv == job.throws = {} => QueueWakeups

\* Every step keeps the notifications owed to main and to the queue thread.
LEMMA QueueWakeStep ==
  TypeInv /\ TasksInv /\ QueueInv /\ NoFailure /\ QueueWakeInv /\ Next => QueueWakeInv'
<1> SUFFICES ASSUME TypeInv, TasksInv, QueueInv, NoFailure, QueueWakeInv, Next,
                    job.throws = {}
             PROVE  QueueWakeups'
  BY JobKept DEF QueueWakeInv
<1>t. /\ QueueWakeups
      /\ Len(futures) \in Nat /\ job.threads \in Nat
      /\ main \in {"get", "unwind", "notify"} => ret \in Entries
      /\ main = "waiting" => job.threads # 0 /\ launcher \in LauncherStates
      /\ UNCHANGED job
  <2>1. main \in {"get", "unwind", "notify"} => ret \in Entries
    BY JobFacts DEF QueueInv, TypeInv, TypeOK, Entries, N
  <2> QED
    BY <2>1, JobKept
       DEF QueueWakeInv, TypeInv, TypeOK, IsJob, QueueInv, Threaded
<1> USE DEF QueueWakeups
<1>1. CASE Begin \/ CheckCircular \/ InlineCall \/ InlineReturn \/ StartRun \/ Leave
  <2>1. launcher = "exited"
    BY <1>1
       DEF Begin, CheckCircular, InlineCall, InlineReturn, StartRun, Leave,
           DestructorsReturn, TypeInv, Bounds
  <2>2. launcher' \in {"exited", "push"} /\ main' # "waiting"
    BY <1>1, <2>1
       DEF Begin, CheckCircular, InlineCall, InlineReturn, StartRun, Leave, queueVars,
           mainVars, LauncherAfter, MainAfter
  <2> QED
    BY <2>2
<1>2. CASE PushWaits
  BY <1>2, <1>t DEF PushWaits, QueueFull, mainVars
<1>3. CASE Push
  BY <1>3, <1>t DEF Push, mainVars
<1>4. CASE PushNotifies
  BY <1>4 DEF PushNotifies, LauncherAfter
<1>5. CASE LauncherWakes
  BY <1>5, <1>t DEF LauncherWakes, mainVars
<1>6. CASE MainWakes
  BY <1>6, <1>t DEF MainWakes, queueVars
<1>7. CASE WaitOneWaits
  <2>1. main = "take" /\ futures = <<>> /\ Len(futures) = 0 /\ job.threads # 0
    BY <1>7 DEF WaitOneWaits, QueueInv, Threaded
  <2> QED
    BY <1>7, <2>1, <1>t DEF WaitOneWaits, queueVars
<1>8. CASE WaitOneTakes
  BY <1>8 DEF WaitOneTakes
<1>9. CASE WaitOneGets
  BY <1>9, <1>t DEF WaitOneGets, GetThrows, NoFailure, queueVars
<1>10. CASE WaitOneNotifies
  BY <1>10 DEF WaitOneNotifies, LauncherNotified, MainAfter
<1>11. ASSUME NEW i \in Entries, TaskStep(i) \/ TaskWakes(i) PROVE QueueWakeups'
  BY <1>11, <1>t, TaskFrame
<1>12. CASE Returned
  BY <1>12, <1>t DEF Returned, vars, mainVars, queueVars
<1> QED
  BY <1>1, <1>2, <1>3, <1>4, <1>5, <1>6, <1>7, <1>8, <1>9, <1>10, <1>11, <1>12, NextCases
     DEF QueueOnly

(***************************************************************************)
(* The condition variables of the cells: whoever sleeps on one sleeps on a *)
(* cell that has no result, is being interpreted, or whose task is about   *)
(* to call notify_all.                                                     *)
(***************************************************************************)
WillNotify(d) ==
  \/ result[d] = Nil
  \/ Interpreting(d)
  \/ \E k \in Entries : Cell(k) = d /\ task[k] = "notify"

TaskWakeInv ==
  job.throws = {} => \A i \in Entries : task[i] = "condwait" => WillNotify(NextFetch(i))

\* Every step keeps the notification owed to each task asleep on a cell.
LEMMA TaskWakeStep ==
  SafetyInv /\ SleepInv /\ TaskWakeInv /\ Next => TaskWakeInv'
<1> SUFFICES ASSUME SafetyInv, SleepInv, TaskWakeInv, Next, job.throws = {},
                    NEW i \in Entries, task'[i] = "condwait"
             PROVE  WillNotify(NextFetch(i))'
  BY JobKept, SameEntries DEF TaskWakeInv, SafetyInv
<1> USE DEF SafetyInv
<1> DEFINE d == NextFetch(i)
           Notified == \/ result'[d] = Nil
                       \/ mtx'[d] # 0
                       \/ \E k \in Entries : Cell(k) = d /\ task'[k] = "notify"
<1>d. /\ d' = d
      /\ task[i] = "condwait" \/ (Fetch(i) /\ result[d] = Nil /\ UNCHANGED result)
  BY Asleep
<1>t. /\ task \in [Entries -> TaskStates]
      /\ result \in [Cells -> Results \cup {Nil}]
      /\ mtx \in [Cells -> 0..N]
      /\ d \in Cells
      /\ \A k \in Entries : Cell(k) \in Cells /\ k # 0 /\ Cell(k)' = Cell(k)
      /\ Entries' = Entries
  <2>1. d \in Cells
    BY <1>d, Asleep, EntryFacts DEF SleepInv, FetchingEnded
  <2>2. \A k \in Entries : Cell(k) \in Cells /\ k # 0
    BY JobFacts DEF TypeInv, TypeOK, N, Entries, Cell
  <2> QED
    BY <2>1, <2>2, JobKept, SameEntries DEF TypeInv, TypeOK
<1> SUFFICES Notified
  BY <1>d, <1>t DEF WillNotify, Interpreting
<1> HIDE DEF d
<1>1. CASE task[i] # "condwait"
  BY <1>1, <1>d
<1>2. CASE task[i] = "condwait"
  <2>1. WillNotify(d)
    BY <1>2 DEF TaskWakeInv, d
  <2>2. main \notin {"begin", "check"}
    BY <1>2, NoTasksYet
  <2>3. ~Begin /\ ~CheckCircular
    BY <2>2 DEF Begin, CheckCircular
  <2>4. CASE QueueOnly
    BY <2>1, <2>4, <1>t, QueueOnlyStep DEF WillNotify, Interpreting
  <2>5. CASE InlineCall \/ Push
    BY <2>1, <2>5, <1>t, LaunchStep DEF WillNotify, Interpreting
  <2>6. ASSUME NEW k \in Entries, TaskStep(k) PROVE Notified
    <3>1. CASE ReturnCached(k)
      BY <2>1, <3>1, <1>t DEF ReturnCached, calcVars, WillNotify, Interpreting
    <3>2. CASE StartInterpret(k)
      BY <2>1, <3>2, <1>t DEF StartInterpret, WillNotify, Interpreting
    <3>3. CASE FetchSelf(k) \/ Fetch(k)
      BY <2>1, <3>3, <1>t DEF FetchSelf, Fetch, calcVars, WillNotify, Interpreting
    <3>4. CASE Store(k)
      <4>1. /\ mtx' = [mtx EXCEPT ![Cell(k)] = 0]
            /\ task' = [task EXCEPT ![k] = "notify"]
            /\ \A c \in Cells : c # Cell(k) => result'[c] = result[c]
        BY <3>4, <1>t DEF Store
      <4>2. CASE Cell(k) = d
        BY <4>1, <4>2, <1>t DEF WillNotify
      <4>3. CASE Cell(k) # d
        BY <2>1, <4>1, <4>3, <1>t DEF WillNotify, Interpreting
      <4> QED
        BY <4>2, <4>3
    <3>5. ~Throw(k)
      BY DEF Throw
    <3>6. CASE NotifyAll(k)
      <4>1. Cell(k) # d
        BY <3>6, <1>2, <1>t DEF NotifyAll, Woken, Waiters, d
      <4>2. UNCHANGED <<result, mtx>>
        BY <3>6 DEF NotifyAll, calcVars
      <4>3. ASSUME NEW l \in Entries, Cell(l) = d, task[l] = "notify"
            PROVE  task'[l] = "notify"
        BY <3>6, <4>1, <4>3, <1>t DEF NotifyAll, Woken, Waiters
      <4> QED
        BY <2>1, <4>2, <4>3, <1>t DEF WillNotify, Interpreting
    <3> QED
      BY <2>6, <3>1, <3>2, <3>3, <3>4, <3>5, <3>6 DEF TaskStep
  <2>7. ASSUME NEW k \in Entries, TaskWakes(k) PROVE Notified
    BY <2>1, <2>7, <1>t DEF TaskWakes, calcVars, WillNotify, Interpreting
  <2> QED
    BY <2>3, <2>4, <2>5, <2>6, <2>7, NextCases
<1> QED
  BY <1>1, <1>2

WakeInv == SleepInv /\ NoFailure /\ QueueWakeInv /\ TaskWakeInv

\* The notifications owed are kept in every state of a call.
LEMMA WakeInvariant == Spec => []WakeInv
<1>1. Init => WakeInv
  BY DEF Init, WakeInv, SleepInv, NoFailure, QueueWakeInv, QueueWakeups, TaskWakeInv
<1>2. CallInv /\ WakeInv /\ [Next]_vars => WakeInv'
  <2> SUFFICES ASSUME CallInv, WakeInv, [Next]_vars PROVE WakeInv'
    OBVIOUS
  <2>1. CASE Next
    BY <2>1, SleepStep, NoFailureStep, QueueWakeStep, TaskWakeStep
       DEF WakeInv, CallInv, SafetyInv
  <2>2. CASE UNCHANGED vars
    <3>1. UNCHANGED <<job, result, mtx, main, launcher, futures, task, got>>
      BY <2>2 DEF vars, calcVars, mainVars, queueVars, taskVars
    <3>2. SleepInv'
      BY <3>1, SameEntries
         DEF WakeInv, SleepInv, FetchingEnded, FetchedError, Latest, NextFetch
    <3>3. NoFailure' /\ QueueWakeInv'
      BY <3>1, SameEntries DEF WakeInv, NoFailure, QueueWakeInv, QueueWakeups
    <3>4. TaskWakeInv'
      BY <3>1, SameEntries DEF WakeInv, TaskWakeInv, WillNotify, NextFetch, Interpreting
    <3> QED
      BY <3>2, <3>3, <3>4 DEF WakeInv
  <2> QED
    BY <2>1, <2>2
<1> QED
  BY <1>1, <1>2, CallInvariant, PTL DEF Spec

(***************************************************************************)
(* No wakeup is lost, neither between push and wait_one, which share one   *)
(* condition variable and call notify_one, nor between interpret() and the *)
(* tasks that wait for its cell, which it notifies after it has unlocked.  *)
(***************************************************************************)
THEOREM NoLostWakeup == Spec => []WakeupPending
<1>1. WakeInv => WakeupPending
  BY DEF WakeInv, QueueWakeInv, QueueWakeups, TaskWakeInv, WillNotify, WakeupPending
<1> QED
  BY <1>1, WakeInvariant, PTL

-----------------------------------------------------------------------------
(***************************************************************************)
(* CheckInv: what the loop over check_circular leaves behind.  An entry    *)
(* it has looked at has its error, or all its references are known to be   *)
(* safe: cells that come earlier in the sequence, or that an earlier       *)
(* calculation has found safe.                                             *)
(***************************************************************************)
Before(d, m) == IF d \in Dirty(job) THEN \E k \in Entries : k < m /\ Cell(k) = d
                                    ELSE job.safe[d]

Flagged(c) == Readable(c) /\ result[c] = RefNotAvailable

CheckInv ==
  /\ main = "begin" => checked = 0
  /\ main \notin {"begin", "check"} => checked = N
  /\ \A c \in Cells \ Dirty(job) : result[c] = job.result[c] /\ safe[c] = job.safe[c]
  /\ main # "begin" => \A c \in Dirty(job) : safe[c] => \E k \in 1..checked : Cell(k) = c
  /\ \A m \in 1..checked :
       Flagged(Cell(m)) \/ (safe[Cell(m)] /\ \A d \in job.refs[Cell(m)] : Before(d, m))

\* Nothing is checked when a call starts.
LEMMA InitCheckInv == Init => CheckInv
<1> SUFFICES ASSUME Init PROVE CheckInv
  OBVIOUS
<1>1. 1..checked = {}
  BY DEF Init
<1> QED
  BY <1>1 DEF Init, CheckInv

(***************************************************************************)
(* The tasks write only the cells of the entries, and leave the verdicts   *)
(* of the check alone.                                                     *)
(***************************************************************************)
LEMMA DirtyWritten ==
  ASSUME TypeInv, TasksInv, Next, main \notin {"begin", "check"}
  PROVE  /\ UNCHANGED <<job, safe, checked>>
         /\ main' \notin {"begin", "check"}
         /\ \A c \in Cells \ Dirty(job) : result'[c] = result[c]
<1>t. /\ \A i \in Entries : Cell(i) \in Dirty(job)
      /\ result \in [Cells -> Results \cup {Nil}]
  BY DEF TypeInv, TypeOK, IsJob, Dirty, Entries, N, Cell
<1>1. ~Begin /\ ~CheckCircular
  BY DEF Begin, CheckCircular
<1>2. CASE QueueOnly
  BY <1>2
     DEF QueueOnly, StartRun, InlineReturn, PushWaits, PushNotifies, WaitOneWaits,
         WaitOneTakes, WaitOneGets, WaitOneNotifies, Leave, LauncherWakes, MainWakes,
         Returned, MainAfter, vars, calcVars, mainVars, queueVars, taskVars
<1>3. CASE InlineCall \/ Push
  BY <1>3 DEF InlineCall, Push, calcVars, mainVars
<1>4. ASSUME NEW i \in Entries, TaskStep(i) \/ TaskWakes(i)
      PROVE  \A c \in Cells \ Dirty(job) : result'[c] = result[c]
  BY <1>4, <1>t
     DEF TaskStep, ReturnCached, StartInterpret, FetchSelf, Fetch, Store, Throw, NotifyAll,
         TaskWakes, calcVars
<1> QED
  BY <1>1, <1>2, <1>3, <1>4, TaskFrame, NextCases

\* Every step keeps the verdicts of the check on the cells it has passed.
LEMMA CheckStep == TypeInv /\ TasksInv /\ MutexInv /\ CheckInv /\ Next => CheckInv'
<1> SUFFICES ASSUME TypeInv, TasksInv, MutexInv, CheckInv, Next PROVE CheckInv'
  OBVIOUS
<1>t. /\ N \in Nat /\ checked \in 0..N
      /\ Entries = 1..N
      /\ \A i \in Entries : Cell(i) \in Dirty(job)
      /\ Dirty(job) \subseteq Cells
      /\ result \in [Cells -> Results \cup {Nil}]
      /\ safe \in [Cells -> BOOLEAN]
      /\ \A c \in Cells : job.refs[c] \subseteq Cells
      /\ RefNotAvailable # Nil
  <2>1. N \in Nat /\ Entries = 1..N /\ Dirty(job) \subseteq Cells
    BY JobFacts DEF TypeInv, TypeOK, Entries, N
  <2>2. \A i \in Entries : Cell(i) \in Dirty(job)
    BY <2>1 DEF TypeInv, TypeOK, IsJob, Dirty, Entries, N, Cell
  <2>3. RefNotAvailable # Nil
    BY ResultAssumption
  <2> QED
    BY <2>1, <2>2, <2>3 DEF TypeInv, TypeOK, IsJob
<1>j. /\ UNCHANGED job /\ N' = N /\ Entries' = Entries /\ Dirty(job)' = Dirty(job)
      /\ \A i : Cell(i)' = Cell(i)
      /\ \A d, m : Before(d, m)' = Before(d, m)
  BY JobKept, SameEntries DEF Before
<1>1. CASE Begin
  <2>1. /\ checked = 0 /\ checked' = 0 /\ main' = "check"
        /\ \A c \in Cells \ Dirty(job) : result'[c] = result[c] /\ safe'[c] = safe[c]
        /\ \A c \in Dirty(job) : ~safe'[c]
    BY <1>1, <1>t DEF Begin, CheckInv, ResetCells
  <2>2. 1..checked' = {}
    BY <2>1
  <2> QED
    BY <2>1, <2>2, <1>j DEF CheckInv
<1>2. CASE CheckCircular
  <2>c. PICK c \in Cells : c = Cell(checked + 1)
    <3>1. checked + 1 \in Entries
      BY <1>2, <1>t DEF CheckCircular
    <3> QED
      BY <3>1, <1>t
  <2>1. /\ main = "check" /\ main' = "check" /\ checked' = checked + 1
        /\ checked + 1 \in Entries
        /\ UNCHANGED mtx
    BY <1>2, <1>t DEF CheckCircular
  <2>2. c \in Dirty(job) /\ c \in Cells /\ mtx[c] = 0
    <3>1. c \in Cells /\ c \in Dirty(job)
      BY <2>c, <2>1, <1>t
    <3> QED
      BY <2>1, <3>1, NoTasksYet DEF MutexInv, Evaluating
  <2>3. \/ /\ \A d \in job.refs[c] : safe[d]
           /\ safe' = [safe EXCEPT ![c] = TRUE]
           /\ UNCHANGED result
        \/ /\ result' = [result EXCEPT ![c] = RefNotAvailable]
           /\ UNCHANGED safe
    BY <1>2, <2>c DEF CheckCircular, UnsafeRefs
  <2>4. \A e \in Cells \ Dirty(job) : result'[e] = job.result[e] /\ safe'[e] = job.safe[e]
    BY <2>2, <2>3, <1>t DEF CheckInv
  <2>5. \A e \in Dirty(job) : safe'[e] => \E k \in 1..checked' : Cell(k) = e
    <3> SUFFICES ASSUME NEW e \in Dirty(job), safe'[e]
                 PROVE  \E k \in 1..checked' : Cell(k) = e
      OBVIOUS
    <3>1. CASE e = c
      <4>1. checked + 1 \in 1..checked'
        BY <2>1, <1>t
      <4> QED
        BY <2>c, <3>1, <4>1
    <3>2. CASE e # c
      <4>1. safe[e]
        BY <2>3, <3>2, <1>t
      <4>2. PICK k \in 1..checked : Cell(k) = e
        BY <2>1, <4>1 DEF CheckInv
      <4>3. k \in 1..checked'
        BY <2>1, <1>t
      <4> QED
        BY <4>2, <4>3
    <3> QED
      BY <3>1, <3>2
  <2>6. ASSUME NEW m \in 1..checked
        PROVE  \/ Flagged(Cell(m))'
               \/ safe'[Cell(m)] /\ \A d \in job.refs[Cell(m)] : Before(d, m)
    <3>1. Cell(m) \in Cells /\ Cell(m) \in Dirty(job)
      BY <1>t
    <3>2. CASE Flagged(Cell(m))
      BY <2>1, <2>2, <2>3, <3>1, <3>2, <1>t, <1>j DEF Flagged, Readable
    <3>3. CASE safe[Cell(m)] /\ \A d \in job.refs[Cell(m)] : Before(d, m)
      BY <2>2, <2>3, <3>1, <3>3, <1>t
    <3> QED
      BY <3>2, <3>3 DEF CheckInv
  <2>7. \/ Flagged(c)'
        \/ safe'[c] /\ \A d \in job.refs[c] : Before(d, checked + 1)
    <3>1. CASE result' = [result EXCEPT ![c] = RefNotAvailable]
      BY <2>1, <2>2, <3>1, <1>t, <1>j DEF Flagged, Readable
    <3>2. CASE /\ \A d \in job.refs[c] : safe[d]
               /\ safe' = [safe EXCEPT ![c] = TRUE]
      <4>1. safe'[c]
        BY <2>2, <3>2, <1>t
      <4>2. ASSUME NEW d \in job.refs[c] PROVE Before(d, checked + 1)
        <5>1. safe[d] /\ d \in Cells
          BY <2>2, <3>2, <1>t
        <5>2. CASE d \in Dirty(job)
          <6>1. PICK k \in 1..checked : Cell(k) = d
            BY <2>1, <5>1, <5>2 DEF CheckInv
          <6>2. k \in Entries /\ k < checked + 1
            BY <1>t
          <6> QED
            BY <5>2, <6>1, <6>2 DEF Before
        <5>3. CASE d \notin Dirty(job)
          BY <5>1, <5>3 DEF Before, CheckInv
        <5> QED
          BY <5>2, <5>3
      <4> QED
        BY <4>1, <4>2
    <3> QED
      BY <2>3, <3>1, <3>2
  <2>8. \A m \in 1..checked' : m \in 1..checked \/ m = checked + 1
    BY <2>1, <1>t
  <2>9. \A m \in 1..checked' :
          \/ Flagged(Cell(m))'
          \/ safe'[Cell(m)] /\ \A d \in job.refs[Cell(m)] : Before(d, m)
    <3> SUFFICES ASSUME NEW m \in 1..checked'
                 PROVE  \/ Flagged(Cell(m))'
                        \/ safe'[Cell(m)] /\ \A d \in job.refs[Cell(m)] : Before(d, m)
      OBVIOUS
    <3>1. CASE m \in 1..checked
      BY <2>6, <3>1
    <3>2. CASE m = checked + 1
      <4>1. Cell(m) = c /\ Cell(m)' = c
        BY <2>c, <3>2, <1>j
      <4> QED
        BY <2>7, <3>2, <4>1 DEF Flagged, Readable
    <3> QED
      BY <2>8, <3>1, <3>2
  <2> QED
    BY <2>1, <2>4, <2>5, <2>9, <1>j DEF CheckInv, Flagged, Readable
<1>3. CASE main = "check" /\ ~CheckCircular
  <2>1. UNCHANGED <<result, safe, mtx, checked>>
        /\ main' # "begin" /\ (main' # "check" => checked = N)
    <3>1. ASSUME NEW i \in Entries PROVE ~TaskStep(i) /\ ~TaskWakes(i)
      BY <1>3, NoTasksYet
         DEF TaskStep, ReturnCached, StartInterpret, FetchSelf, Fetch, Store, Throw,
             NotifyAll, TaskWakes
    <3>2. ~Begin /\ ~InlineCall /\ ~InlineReturn /\ ~WaitOneWaits /\ ~MainWakes
          /\ ~WaitOneTakes /\ ~WaitOneGets /\ ~WaitOneNotifies /\ ~Leave /\ ~Returned
      BY <1>3
         DEF Begin, InlineCall, InlineReturn, WaitOneWaits, WaitOneTakes, WaitOneGets,
             WaitOneNotifies, Leave, MainWakes, Returned
    <3>3. ~Push /\ ~PushNotifies /\ ~PushWaits /\ ~LauncherWakes
      BY <1>3 DEF Push, PushNotifies, PushWaits, LauncherWakes, TypeInv, Bounds
    <3>4. StartRun
      BY <1>3, <3>1, <3>2, <3>3, NextCases DEF QueueOnly
    <3> QED
      BY <3>4 DEF StartRun, MainAfter, calcVars
  <2> QED
    BY <1>3, <2>1, <1>j DEF CheckInv, Flagged, Readable
<1>4. CASE main = "begin" /\ ~Begin
  <2>1. \A i \in Entries : ~TaskStep(i) /\ ~TaskWakes(i)
    BY <1>4, NoTasksYet
       DEF TaskStep, ReturnCached, StartInterpret, FetchSelf, Fetch, Store, Throw,
           NotifyAll, TaskWakes
  <2>2. ~CheckCircular /\ ~QueueOnly /\ ~InlineCall /\ ~Push
    BY <1>4
       DEF CheckCircular, QueueOnly, StartRun, InlineReturn, PushWaits, PushNotifies,
           WaitOneWaits, WaitOneTakes, WaitOneGets, WaitOneNotifies, Leave,
           LauncherWakes, MainWakes, Returned, InlineCall, Push, TypeInv, Bounds
  <2> QED
    BY <1>4, <2>1, <2>2, NextCases
<1>5. CASE main \notin {"begin", "check"}
  <2>1. /\ UNCHANGED <<job, safe, checked>> /\ main' \notin {"begin", "check"}
        /\ \A c \in Cells \ Dirty(job) : result'[c] = result[c]
    BY <1>5, DirtyWritten
  <2>2. \A m \in 1..checked : Cell(m) \in Cells
    BY <1>t
  <2>3. \A m \in 1..checked : Flagged(Cell(m)) => Flagged(Cell(m))'
    BY <1>5, <2>2, <1>j, ReadableStep DEF ReadableKept, Flagged, Readable
  <2>4. \A m \in 1..checked :
          Flagged(Cell(m))' \/ (safe[Cell(m)] /\ \A d \in job.refs[Cell(m)] : Before(d, m))
    BY <2>3 DEF CheckInv
  <2> QED
    BY <1>5, <2>1, <2>4, <1>j DEF CheckInv
<1> QED
  BY <1>1, <1>2, <1>3, <1>4, <1>5

\* The verdicts of the check stand in every state of a call.
LEMMA CheckInvariant == Spec => []CheckInv
<1>1. SafetyInv /\ CheckInv /\ [Next]_vars => CheckInv'
  <2> SUFFICES ASSUME SafetyInv, CheckInv, [Next]_vars PROVE CheckInv'
    OBVIOUS
  <2>1. CASE Next
    BY <2>1, CheckStep DEF SafetyInv
  <2>2. CASE UNCHANGED vars
    <3>1. UNCHANGED <<job, result, safe, mtx, main, checked>>
      BY <2>2 DEF vars, calcVars, mainVars, queueVars, taskVars
    <3> QED
      BY <3>1, SameEntries DEF CheckInv, Before, Flagged, Readable
  <2> QED
    BY <2>1, <2>2
<1> QED
  BY <1>1, InitCheckInv, SafetyInvariant, PTL DEF Spec

-----------------------------------------------------------------------------
(***************************************************************************)
(* Who waits for whom.  The theorem below is about documents in which a    *)
(* formula fetches only what its own reference tokens denote, or its own   *)
(* cell (the check does not look into named expressions: CalcNamedCycle),  *)
(* and in which an earlier calculation left a result in every cell it      *)
(* found safe, as one that returns normally does (SafeCellsHaveResults).   *)
(***************************************************************************)
FetchesItsReferences(j) ==
  \A c \in Cells : \A k \in DOMAIN j.reads[c] : j.reads[c][k] \in j.refs[c] \cup {c}

SafeHasResult(j) == \A c \in Cells : j.safe[c] => j.result[c] # Nil

ServesJob == job \in Jobs

\* A call serves one of the jobs in every state.
LEMMA JobInvariant == Spec => []ServesJob
<1>1. Init => ServesJob
  BY DEF Init, ServesJob
<1>2. SafetyInv /\ ServesJob /\ [Next]_vars => ServesJob'
  BY JobKept DEF SafetyInv, ServesJob, vars
<1> QED
  BY <1>1, <1>2, SafetyInvariant, PTL DEF Spec

\* A set of positions that has a member has a least one.
LEMMA LeastOfSet ==
  ASSUME NEW S \in SUBSET Nat, S # {}
  PROVE  \E m \in S : \A k \in S : m <= k
<1>1. PICK m \in S : \A k \in S : ~(<<k, m>> \in OpToRel(<, Nat))
  BY NatLessThanWellFounded, WFMin
<1>2. \A k \in S : ~(k < m)
  BY <1>1 DEF OpToRel
<1>3. m \in Nat /\ \A k \in S : k \in Nat
  OBVIOUS
<1>4. \A k \in S : m <= k
  BY <1>2, <1>3
<1> QED
  BY <1>4

(***************************************************************************)
(* The cell a task is blocked on was checked before the task's own cell:   *)
(* it is being calculated too, and comes first in the sequence.            *)
(***************************************************************************)
LEMMA BlockerIsEarlier ==
  ASSUME SafetyInv, SleepInv, TaskWakeInv, CheckInv, job.throws = {},
         FetchesItsReferences(job), SafeHasResult(job),
         NEW i \in Entries, NEW d \in Cells, BlockedOn(i, d)
  PROVE  /\ d \in Dirty(job)
         /\ \A m \in Entries : Cell(m) = Cell(i) => \E k \in Entries : k < m /\ Cell(k) = d
<1> USE DEF SafetyInv
<1>1. /\ Evaluating(i) /\ ~FetchingEnded(i)
      /\ NextFetch(i) = d /\ d # Cell(i)
  BY DEF BlockedOn, SleepInv, Evaluating
<1>2. \/ result[d] = Nil
      \/ mtx[d] # 0
      \/ \E k \in Entries : Cell(k) = d /\ task[k] = "notify"
  BY DEF BlockedOn, TaskWakeInv, WillNotify, Interpreting
<1>3. d \in job.refs[Cell(i)]
  <2>1. /\ Cell(i) \in Cells /\ IsJob(job)
        /\ Len(got[i]) \in Nat /\ Len(job.reads[Cell(i)]) \in Nat
        /\ Len(got[i]) <= Len(job.reads[Cell(i)])
        /\ DOMAIN job.reads[Cell(i)] = 1..Len(job.reads[Cell(i)])
    BY EntryFacts, JobFacts DEF TypeInv, TypeOK
  <2>2. Len(got[i]) + 1 \in DOMAIN job.reads[Cell(i)]
    BY <1>1, <2>1 DEF FetchingEnded
  <2> QED
    BY <1>1, <2>1, <2>2 DEF FetchesItsReferences, NextFetch
<1>4. checked = N
  BY <1>1, NoTasksYet DEF CheckInv, Evaluating
<1>5. ASSUME NEW m \in Entries, Cell(m) = Cell(i) PROVE Before(d, m)
  <2>1. mtx[Cell(m)] # 0
    BY <1>1, <1>5 DEF MutexInv, Entries
  <2>2. m \in 1..checked
    BY <1>4 DEF Entries
  <2> QED
    BY <1>3, <1>5, <2>1, <2>2 DEF CheckInv, Flagged, Readable
<1>6. d \in Dirty(job)
  <2>1. ASSUME d \notin Dirty(job) PROVE FALSE
    <3>1. \A k \in Entries : Cell(k) # d
      BY <2>1 DEF Dirty, Entries, N, Cell, TypeInv, TypeOK, IsJob
    <3>2. mtx[d] = 0
      BY <3>1 DEF MutexInv
    <3>3. result[d] = job.result[d] /\ job.safe[d]
      BY <1>5, <2>1 DEF CheckInv, Before
    <3> QED
      BY <1>2, <3>1, <3>2, <3>3 DEF SafeHasResult
  <2> QED
    BY <2>1
<1> QED
  BY <1>5, <1>6 DEF Before

(***************************************************************************)
(* A task never blocks on a cell that nobody is working on, nor on one     *)
(* that comes after its own: the tasks wait in the order of the sequence,  *)
(* so no circle of them can wait on itself, and the one cell the others    *)
(* wait for is never kept out of the queue.                                *)
(***************************************************************************)
THEOREM NobodyWaitsInVain ==
  ASSUME \A j \in Jobs : FetchesItsReferences(j) /\ SafeHasResult(j)
  PROVE  Spec => []WaitsOnEarlier
<1>2. ASSUME CallInv, WakeInv, CheckInv, ServesJob PROVE WaitsOnEarlier
  <2> SUFFICES ASSUME job.throws = {},
                      NEW i \in Entries, NEW d \in Cells, BlockedOn(i, d)
               PROVE  /\ \E k \in Entries : Cell(k) = d /\ Running(k)
                      /\ \E k \in Entries :
                           /\ Cell(k) = d
                           /\ \A m \in Entries : Cell(m) = Cell(i) => k < m
    BY DEF WaitsOnEarlier
  <2> USE DEF CallInv, SafetyInv
  <2>t. task \in [Entries -> TaskStates] /\ Entries \subseteq Nat /\ launched \in Nat
    BY <1>2, JobFacts DEF TypeInv, TypeOK, Entries, N
  <2>1. \A m \in Entries : Cell(m) = Cell(i) => \E k \in Entries : k < m /\ Cell(k) = d
    BY <1>2, BlockerIsEarlier DEF WakeInv, ServesJob
  <2>2. PICK m \in Entries : /\ Cell(m) = Cell(i)
                             /\ \A l \in Entries : Cell(l) = Cell(i) => m <= l
    <3> DEFINE S == {l \in Entries : Cell(l) = Cell(i)}
    <3>1. S \in SUBSET Nat /\ S # {}
      BY <2>t
    <3>2. PICK m \in S : \A l \in S : m <= l
      BY <3>1, LeastOfSet
    <3> QED
      BY <3>2
  <2>3. PICK k \in Entries : k < m /\ Cell(k) = d
    BY <2>1, <2>2
  <2>4. \A l \in Entries : Cell(l) = Cell(i) => k < l
    BY <2>2, <2>3, <2>t
  <2>5. \E l \in Entries : Cell(l) = d /\ Running(l)
    <3>1. task[k] # "none"
      <4>1. task[i] # "none"
        BY DEF BlockedOn
      <4>2. i <= launched /\ k < i
        BY <1>2, <2>4, <4>1 DEF TasksInv
      <4> QED
        BY <1>2, <2>t, <4>2 DEF TasksInv
    <3>2. task[k] # "failed"
      BY <1>2 DEF WakeInv, NoFailure
    <3>3. CASE mtx[d] # 0
      BY <1>2, <3>3 DEF MutexInv, Evaluating, Running, Finished, Succeeded
    <3>4. CASE result[d] = Nil
      <4>1. ~Readable(Cell(k))
        BY <2>3, <3>4 DEF Readable
      <4>2. task[k] \notin {"cached", "done"}
        BY <1>2, <4>1 DEF CachedInv, StoreInv
      <4> QED
        BY <2>3, <3>1, <3>2, <4>2 DEF Running, Finished, Succeeded
    <3>5. CASE \E l \in Entries : Cell(l) = d /\ task[l] = "notify"
      BY <3>5 DEF Running, Finished, Succeeded
    <3>6. \/ result[d] = Nil
          \/ mtx[d] # 0
          \/ \E l \in Entries : Cell(l) = d /\ task[l] = "notify"
      BY <1>2 DEF BlockedOn, WakeInv, TaskWakeInv, WillNotify, Interpreting
    <3> QED
      BY <3>3, <3>4, <3>5, <3>6
  <2> QED
    BY <2>3, <2>4, <2>5
<1> QED
  BY <1>2, JobInvariant, CallInvariant, WakeInvariant, CheckInvariant, PTL

(***************************************************************************)
(* The other half of that hypothesis is what a calculation that returns    *)
(* normally establishes: every cell that is known to be safe has a result, *)
(* so the next calculation may start from there.                           *)
(***************************************************************************)
SafeCellsSettled == main = "done" => \A c \in Cells : safe[c] => result[c] # Nil

THEOREM SafeCellsHaveResults ==
  ASSUME \A j \in Jobs : SafeHasResult(j)
  PROVE  Spec => []SafeCellsSettled
<1>2. ASSUME ReturnMeansAll, CheckInv, ServesJob PROVE SafeCellsSettled
  <2> SUFFICES ASSUME main = "done", NEW c \in Cells, safe[c] PROVE result[c] # Nil
    BY DEF SafeCellsSettled
  <2>1. CASE c \in Dirty(job)
    BY <1>2, <2>1 DEF CheckInv, ReturnMeansAll, Entries
  <2>2. CASE c \notin Dirty(job)
    BY <1>2, <2>2 DEF CheckInv, SafeHasResult, ServesJob
  <2> QED
    BY <2>1, <2>2
<1> QED
  BY <1>2, JobInvariant, ReturnIsComplete, CheckInvariant, PTL
=============================================================================

------------------------------ MODULE CalcQueue ------------------------------
(***************************************************************************)
(* calculate_sorted_cells with its worker threads (formula_calc.cpp,       *)
(* cell_queue_manager.cpp and formula_cell::interpret in cell.cpp).        *)
(*                                                                         *)
(* The threads are main, the launcher, and one std::async task per entry.  *)
(* The critical sections of interpreter_queue::m_mtx contain no blocking   *)
(* call but the condition wait, so each of them is one step.  The mutex of *)
(* a cell's calc_status, which interpret() holds while it reads other      *)
(* cells, is the variable mtx.                                             *)
(***************************************************************************)
EXTENDS FormulaCells, FiniteSets

VARIABLES
  job,       \* the call being served; never changes
  \* calc_status and model_context
  result,    \* result[c]: calc_status::result
  safe,      \* safe[c]: calc_status::circular_safe
  mtx,       \* mtx[c]: the entry whose task holds calc_status::mtx, or 0
  policy,    \* the wait policy of the model context
  \* the main thread
  main,      \* where it is
  checked,   \* how many entries check_circular has been called for
  taken,     \* i of run(): how many wait_one calls have returned
  ret,       \* the entry whose future wait_one has moved out, or 0
  \* the launcher thread
  launcher,  \* where it is
  launched,  \* how many entries have been started
  futures,   \* interpreter_queue::m_futures, as entry numbers
  \* the tasks, by entry number
  task,      \* where each task is
  got        \* the results each task has fetched so far

calcVars  == <<result, safe, mtx, policy>>
mainVars  == <<main, checked, taken, ret>>
queueVars == <<launcher, launched, futures>>
taskVars  == <<task, got>>
vars      == <<job, calcVars, mainVars, queueVars, taskVars>>

N         == Len(job.order)
Entries   == 1..N
Cell(i)   == job.order[i]

MainStates == {"begin", "check", "inline", "take", "waiting", "get", "notify",
               "join", "unwind", "done", "threw"}
LauncherStates == {"push", "waiting", "notify", "exited"}
TaskStates == {"none", "lock", "eval", "condwait", "notify", "done", "cached",
               "failed"}

\* std::future::get and ~future return: the task's function has returned.
Succeeded(i) == task[i] \in {"done", "cached"}
Finished(i)  == Succeeded(i) \/ task[i] = "failed"
Running(i)   == task[i] # "none" /\ ~Finished(i)

\* As if interpret() did not keep the mutex while it evaluates the formula.
CanLockAnyway(c) == TRUE

\* The entry whose task is inside interpret() of c has stored only the
\* default result so far, and keeps the mutex.
Interpreting(c) == mtx[c] # 0

NextFetch(i) == job.reads[Cell(i)][Len(got[i]) + 1]

\* The result fetched last.
Latest(i) == got[i][Len(got[i])]

FetchedError(i) == got[i] # <<>> /\ Latest(i) \in Errors

FetchingEnded(i) == FetchedError(i) \/ Len(got[i]) = Len(job.reads[Cell(i)])

\* A mutex is free to be locked.
CanLock(c) == ~Interpreting(c)

Init ==
  /\ job \in Jobs
  /\ result = job.result
  /\ safe = job.safe
  /\ mtx = [c \in Cells |-> 0]
  /\ policy = "throw_exception"
  /\ main = "begin"
  /\ checked = 0
  /\ taken = 0
  /\ ret = 0
  /\ launcher = "exited"
  /\ launched = 0
  /\ futures = <<>>
  /\ task = [i \in Entries |-> "none"]
  /\ got = [i \in Entries |-> <<>>]

-----------------------------------------------------------------------------
(* calculate_sorted_cells, before any thread is started *)

\* As if the loop that resets the entries were not there.
ResetNone == {}

\* The cells whose formula_cell::reset is called.
ResetCells == Dirty(job)

\* calc_scope's constructor, and formula_cell::reset for every entry.
Begin ==
  /\ main = "begin"
  /\ main' = "check"
  /\ policy' = "block_until_done"
  /\ result' = [c \in Cells |-> IF c \in ResetCells THEN Nil ELSE result[c]]
  /\ safe' = [c \in Cells |-> IF c \in ResetCells THEN FALSE ELSE safe[c]]
  /\ UNCHANGED <<job, mtx, checked, taken, ret, queueVars, taskVars>>

\* As if a cell were checked for references to itself only.
UnsafeSelf(c) == {d \in job.refs[c] : d = c}

\* The references of c that are not known to be safe.
UnsafeRefs(c) == {d \in job.refs[c] : ~safe[d]}

\* formula_cell::check_circular for the next entry: a reference to a cell
\* that is not known to be safe stores the error result.
CheckCircular ==
  LET c == Cell(checked + 1) IN
  /\ main = "check"
  /\ checked < N
  /\ checked' = checked + 1
  /\ \/ /\ UnsafeRefs(c) = {}
        /\ safe' = [safe EXCEPT ![c] = TRUE]
        /\ UNCHANGED result
     \/ /\ UnsafeRefs(c) # {}
        /\ result' = [result EXCEPT ![c] = RefNotAvailable]
        /\ UNCHANGED safe
  /\ UNCHANGED <<job, mtx, policy, main, taken, ret, queueVars, taskVars>>

\* The loop of run() goes on after k calls of wait_one; thread_launch goes on
\* after k pushes.
MainAfter(k) == IF k = N THEN "join" ELSE "take"

\* As if the loop of thread_launch ran one time too many.
LauncherAfterOneMore(k) == IF k = N + 1 THEN "exited" ELSE "push"

LauncherAfter(k) == IF k = N THEN "exited" ELSE "push"

\* thread_count decides between the loop on the main thread and the queue.
StartRun ==
  /\ main = "check"
  /\ checked = N
  /\ \/ /\ job.threads = 0
        /\ main' = "inline"
        /\ UNCHANGED launcher
     \/ /\ job.threads # 0
        /\ main' = MainAfter(0)
        /\ launcher' = LauncherAfter(0)
  /\ UNCHANGED <<job, calcVars, checked, taken, ret, launched, futures, taskVars>>

\* thread_count = 0: main itself runs interpret() of one entry after another.
InlineCall ==
  /\ main = "inline"
  /\ launched < N
  /\ \A i \in 1..launched : Succeeded(i)
  /\ launched' = launched + 1
  /\ task' = [task EXCEPT ![launched + 1] = "lock"]
  /\ UNCHANGED <<job, calcVars, mainVars, launcher, futures, got>>

InlineReturn ==
  /\ main = "inline"
  /\ \/ /\ launched = N
        /\ \A i \in Entries : Succeeded(i)
        /\ main' = "done"
     \/ /\ \E i \in Entries : task[i] = "failed"
        /\ main' = "threw"
  /\ policy' = "throw_exception"
  /\ UNCHANGED <<job, result, safe, mtx, checked, taken, ret, queueVars, taskVars>>

-----------------------------------------------------------------------------
(* The launcher thread: thread_launch and interpreter_queue::push *)

QueueFull == Len(futures) >= job.threads

PushWaits ==
  /\ launcher = "push"
  /\ QueueFull
  /\ launcher' = "waiting"
  /\ UNCHANGED <<job, calcVars, mainVars, launched, futures, taskVars>>

Push ==
  /\ launcher = "push"
  /\ ~QueueFull
  /\ launched' = launched + 1
  /\ futures' = Append(futures, launched + 1)
  /\ task' = [task EXCEPT ![launched + 1] = "lock"]
  /\ launcher' = "notify"
  /\ UNCHANGED <<job, calcVars, mainVars, got>>

\* m_cond.notify_one() at the end of push: of the two threads that use the
\* condition variable only main can be waiting for it.
PushNotifies ==
  /\ launcher = "notify"
  /\ launcher' = LauncherAfter(launched)
  /\ main' = IF main = "waiting" THEN "take" ELSE main
  /\ UNCHANGED <<job, calcVars, checked, taken, ret, launched, futures, taskVars>>

\* A condition variable may wake its waiter without a notification.
LauncherWakes ==
  /\ launcher = "waiting"
  /\ launcher' = "push"
  /\ UNCHANGED <<job, calcVars, mainVars, launched, futures, taskVars>>

-----------------------------------------------------------------------------
(* The main thread: run(), interpreter_queue::wait_one and the destructors *)

WaitOneWaits ==
  /\ main = "take"
  /\ futures = <<>>
  /\ main' = "waiting"
  /\ UNCHANGED <<job, calcVars, checked, taken, ret, queueVars, taskVars>>

MainWakes ==
  /\ main = "waiting"
  /\ main' = "take"
  /\ UNCHANGED <<job, calcVars, checked, taken, ret, queueVars, taskVars>>

WaitOneTakes ==
  /\ main = "take"
  /\ futures # <<>>
  /\ ret' = Head(futures)
  /\ futures' = Tail(futures)
  /\ main' = "get"
  /\ UNCHANGED <<job, calcVars, checked, taken, launcher, launched, taskVars>>

\* As if an exception in a task were swallowed.
GetNeverThrows == FALSE

GetThrows == task[ret] = "failed"

\* ret.get() returns, or throws what the task threw.
WaitOneGets ==
  /\ main = "get"
  /\ Finished(ret)
  /\ main' = IF GetThrows THEN "unwind" ELSE "notify"
  /\ UNCHANGED <<job, calcVars, checked, taken, ret, queueVars, taskVars>>

\* As if wait_one did not notify.
LauncherNotNotified == launcher

\* m_cond.notify_one() at the end of wait_one: only the launcher can be waiting.
LauncherNotified == IF launcher = "waiting" THEN "push" ELSE launcher

WaitOneNotifies ==
  /\ main = "notify"
  /\ taken' = taken + 1
  /\ ret' = 0
  /\ main' = MainAfter(taken + 1)
  /\ launcher' = LauncherNotified
  /\ UNCHANGED <<job, calcVars, checked, launched, futures, taskVars>>

\* As if ~interpreter_queue did not wait for the futures that are left.
OnlyLauncherJoined == launcher = "exited"

\* ~scoped_guard joins the launcher; the futures of std::async block in their
\* destructors until their tasks have returned.
DestructorsReturn ==
  /\ launcher = "exited"
  /\ \A k \in DOMAIN futures : Finished(futures[k])

\* The end of run(), by return or by exception: ~scoped_guard,
\* ~interpreter_queue, and ~calc_scope, which restores the wait policy.
Leave ==
  /\ main \in {"join", "unwind"}
  /\ DestructorsReturn
  /\ main' = IF main = "join" THEN "done" ELSE "threw"
  /\ futures' = <<>>
  /\ policy' = "throw_exception"
  /\ UNCHANGED <<job, result, safe, mtx, checked, taken, ret, launcher, launched, taskVars>>

-----------------------------------------------------------------------------
(* The task of entry i: formula_cell::interpret *)

\* As if interpret() did not look for a cached result.
NeverCached(c) == FALSE

\* The result is there already: set by check_circular, or by another entry for
\* the same cell.
Cached(c) == result[c] # Nil

ReturnCached(i) ==
  /\ task[i] = "lock"
  /\ CanLock(Cell(i))
  /\ Cached(Cell(i))
  /\ task' = [task EXCEPT ![i] = "cached"]
  /\ UNCHANGED <<job, calcVars, mainVars, queueVars, got>>

StartInterpret(i) ==
  /\ task[i] = "lock"
  /\ CanLock(Cell(i))
  /\ ~Cached(Cell(i))
  /\ mtx' = [mtx EXCEPT ![Cell(i)] = i]
  /\ result' = [result EXCEPT ![Cell(i)] = Empty]
  /\ task' = [task EXCEPT ![i] = "eval"]
  /\ UNCHANGED <<job, safe, policy, mainVars, queueVars, got>>

FetchSelf(i) ==
  /\ task[i] = "eval"
  /\ ~FetchingEnded(i)
  /\ NextFetch(i) = Cell(i)
  /\ got' = [got EXCEPT ![i] = Append(@, RefNotAvailable)]
  /\ UNCHANGED <<job, calcVars, mainVars, queueVars, task>>

\* get_value, get_string or get_result_cache of another cell: lock its mutex,
\* wait on its condition variable if there is no result, read and unlock.
Fetch(i) ==
  LET d == NextFetch(i) IN
  /\ task[i] = "eval"
  /\ ~FetchingEnded(i)
  /\ d # Cell(i)
  /\ CanLock(d)
  /\ IF result[d] = Nil /\ policy = "block_until_done"
     THEN /\ task' = [task EXCEPT ![i] = "condwait"]
          /\ UNCHANGED got
     ELSE /\ got' = [got EXCEPT ![i] =
                       Append(@, IF result[d] = Nil THEN RefNotAvailable
                                                    ELSE result[d])]
          /\ UNCHANGED task
  /\ UNCHANGED <<job, calcVars, mainVars, queueVars>>

\* The value or the error is stored and the mutex is released.
Store(i) ==
  /\ task[i] = "eval"
  /\ FetchingEnded(i)
  /\ FetchedError(i) \/ Cell(i) \notin job.throws
  /\ result' = [result EXCEPT ![Cell(i)] =
                  IF FetchedError(i) THEN Latest(i)
                                     ELSE Formula(Cell(i), got[i])]
  /\ mtx' = [mtx EXCEPT ![Cell(i)] = 0]
  /\ task' = [task EXCEPT ![i] = "notify"]
  /\ UNCHANGED <<job, safe, policy, mainVars, queueVars, got>>

\* An exception leaves interpret(): lock_guard releases the mutex, the default
\* result stays, notify_all is not reached, the future keeps the exception.
Throw(i) ==
  /\ task[i] = "eval"
  /\ FetchingEnded(i)
  /\ ~FetchedError(i)
  /\ Cell(i) \in job.throws
  /\ mtx' = [mtx EXCEPT ![Cell(i)] = 0]
  /\ task' = [task EXCEPT ![i] = "failed"]
  /\ UNCHANGED <<job, result, safe, policy, mainVars, queueVars, got>>

Waiters(c) == {k \in Entries : task[k] = "condwait" /\ NextFetch(k) = c}

\* As if interpret() called notify_one.
OneWaiter(c) == {k \in Waiters(c) : \A l \in Waiters(c) : k <= l}

Woken(c) == Waiters(c)

NotifyAll(i) ==
  /\ task[i] = "notify"
  /\ task' = [k \in Entries |-> IF k = i THEN "done"
                                ELSE IF k \in Woken(Cell(i)) THEN "eval"
                                ELSE task[k]]
  /\ UNCHANGED <<job, calcVars, mainVars, queueVars, got>>

TaskWakes(i) ==
  /\ task[i] = "condwait"
  /\ task' = [task EXCEPT ![i] = "eval"]
  /\ UNCHANGED <<job, calcVars, mainVars, queueVars, got>>

-----------------------------------------------------------------------------
MainStep ==
  \/ Begin \/ CheckCircular \/ StartRun \/ InlineCall \/ InlineReturn
  \/ WaitOneWaits \/ WaitOneTakes \/ WaitOneGets \/ WaitOneNotifies \/ Leave

LauncherStep == PushWaits \/ Push \/ PushNotifies

TaskStep(i) ==
  \/ ReturnCached(i) \/ StartInterpret(i) \/ FetchSelf(i) \/ Fetch(i)
  \/ Store(i) \/ Throw(i) \/ NotifyAll(i)

SpuriousWakeup ==
  \/ LauncherWakes \/ MainWakes \/ \E i \in Entries : TaskWakes(i)

\* The caller has its answer.
Returned == main \in {"done", "threw"} /\ UNCHANGED vars

Next ==
  \/ MainStep
  \/ LauncherStep
  \/ \E i \in Entries : TaskStep(i)
  \/ SpuriousWakeup
  \/ Returned

Spec == Init /\ [][Next]_vars

(***************************************************************************)
(* Every thread that can take a step eventually takes one; nothing makes a *)
(* spurious wakeup happen.  WF of the tasks is stated for entry numbers up *)
(* to the longest job.                                                     *)
(***************************************************************************)
MaxEntries == CHOOSE n \in {Len(j.order) : j \in Jobs} :
                \A j \in Jobs : Len(j.order) <= n

Fairness ==
  /\ WF_vars(MainStep)
  /\ WF_vars(LauncherStep)
  /\ \A i \in 1..MaxEntries : WF_vars(i \in Entries /\ TaskStep(i))

FairSpec == Spec /\ Fairness

-----------------------------------------------------------------------------
TypeOK ==
  /\ IsJob(job)
  /\ result \in [Cells -> Results \cup {Nil}]
  /\ safe \in [Cells -> BOOLEAN]
  /\ mtx \in [Cells -> 0..N]
  /\ policy \in {"throw_exception", "block_until_done"}
  /\ main \in MainStates
  /\ checked \in 0..N
  /\ taken \in 0..N
  /\ ret \in 0..N
  /\ launcher \in LauncherStates
  /\ launched \in 0..N
  /\ futures \in Seq(Entries)
  /\ task \in [Entries -> TaskStates]
  /\ got \in [Entries -> Seq(Results)]

(***************************************************************************)
(* formula.hpp:203, "passing any number greater than 0 will make the       *)
(* process spawn specified number of calculation threads plus one          *)
(* additional thread to manage the calculation threads": no more than      *)
(* thread_count tasks run at a time.  wait_one takes a future out of the   *)
(* queue before it waits for its task, and push counts the futures in the  *)
(* queue.                                                                  *)
(***************************************************************************)
ThreadsAsPromised ==
  job.threads > 0 => Cardinality({i \in Entries : Running(i)}) <= job.threads

(***************************************************************************)
(* No wakeup is lost.  A thread asleep on a condition variable still waits *)
(* for what it went to sleep for, or a thread that will notify it is on    *)
(* its way to do so: this is what lets push and wait_one share a condition *)
(* variable and call notify_one, and interpret() notify after unlocking.   *)
(* (Not so once an exception has made wait_one leave: see CallReturns.)    *)
(***************************************************************************)
WakeupPending ==
  job.throws = {} =>
    /\ launcher = "waiting" => Len(futures) >= job.threads \/ main \in {"get", "notify"}
    /\ main = "waiting" => futures = <<>> \/ launcher = "notify"
    /\ ~(launcher = "waiting" /\ main = "waiting")
    /\ \A i \in Entries : task[i] = "condwait" =>
         \/ result[NextFetch(i)] = Nil
         \/ Interpreting(NextFetch(i))
         \/ \E k \in Entries : Cell(k) = NextFetch(i) /\ task[k] = "notify"

(***************************************************************************)
(* Nobody waits for a cell that nobody is working on: when a task blocks   *)
(* on a cell, on its mutex or on its condition variable, an entry for that *)
(* cell is launched and not finished, and that cell comes first in the     *)
(* sequence.  So no circle of tasks waits on itself, whatever the          *)
(* references are, and the bound of the queue cannot keep out the one cell *)
(* the others wait for.  (A task that ended in an exception leaves its     *)
(* cell without a result: those that wait for it wait for good.)           *)
(***************************************************************************)
BlockedOn(i, d) ==
  \/ task[i] = "condwait" /\ NextFetch(i) = d
  \/ /\ task[i] = "eval" /\ ~FetchingEnded(i)
     /\ NextFetch(i) = d /\ d # Cell(i)
     /\ (mtx[d] # 0 \/ result[d] = Nil)

WaitsOnEarlier ==
  job.throws = {} =>
    \A i \in Entries : \A d \in Cells : BlockedOn(i, d) =>
      /\ \E k \in Entries : Cell(k) = d /\ Running(k)
      /\ \E k \in Entries : /\ Cell(k) = d
                            /\ \A m \in Entries : Cell(m) = Cell(i) => k < m

(***************************************************************************)
(* An interpreted cell holds what its formula gives from the results its   *)
(* references end up with, in whatever order the tasks ran: the default    *)
(* result stored at the start of interpret() is never fetched by another   *)
(* task, unless the interpretation that stored it ended in an exception    *)
(* and left it there for good.                                             *)
(***************************************************************************)
ResultsAgree ==
  \A i \in Entries :
    task[i] \in {"notify", "done"} => IsOutcome(job, Cell(i), result, result[Cell(i)])

(***************************************************************************)
(* A cell is interpreted at most once in a calculation, even when it is in *)
(* the sequence twice, and a result another task may have read never       *)
(* changes.                                                                *)
(***************************************************************************)
SettledForever ==
  [][main # "begin" =>
       \A c \in Cells : (result[c] # Nil /\ ~Interpreting(c)) => result'[c] = result[c]]_vars

(***************************************************************************)
(* When calculate_sorted_cells is left, by return or by exception, none of *)
(* its tasks is running any more (they hold pointers into the queue, on    *)
(* main's stack), no mutex is held and the wait policy is what it was; and *)
(* the policy was blocking for as long as any task ran.                    *)
(***************************************************************************)
NothingOutlivesCall ==
  /\ main \in {"done", "threw"} =>
       /\ \A i \in Entries : ~Running(i)
       /\ \A c \in Cells : mtx[c] = 0
  /\ (\E i \in Entries : Running(i)) => policy = "block_until_done"

(***************************************************************************)
(* A normal return means that every entry was interpreted and has its      *)
(* result: an exception in a task is never swallowed on the way to main.   *)
(***************************************************************************)
ReturnMeansAll ==
  main = "done" => \A i \in Entries : Succeeded(i) /\ result[Cell(i)] # Nil

(***************************************************************************)
(* formula_calc.cpp:66, "First, detect circular dependencies and mark      *)
(* those circular dependent cells with appropriate error flags": once that *)
(* loop is over, a cell whose fetches go round in a circle has its error.  *)
(* It holds when the formulas fetch only what their own reference tokens   *)
(* denote; check_circular does not look into named expressions.            *)
(***************************************************************************)
FetchCircle ==
  UNION {X \in SUBSET Dirty(job) :
           \A c \in X : \E k \in DOMAIN job.reads[c] : job.reads[c][k] \in X}

CirclesFlagged ==
  main \notin {"begin", "check"} => \A c \in FetchCircle : result[c] \in Errors

(***************************************************************************)
(* calculate_sorted_cells returns.                                         *)
(***************************************************************************)
CallReturns == <>(main \in {"done", "threw"})

(***************************************************************************)
(* It does whenever no interpretation ends in an exception, cells that     *)
(* fetch themselves through a named expression included.                   *)
(***************************************************************************)
QuietCallReturns == job.throws = {} => CallReturns

(***************************************************************************)
(* The threaded calculation implements the abstract one: a result counts   *)
(* from the moment its mutex is released.  (What Calculation promises, it  *)
(* promises for a sequence from query_and_sort_dirty_cells.)               *)
(***************************************************************************)
Settled ==
  [c \in Cells |->
     IF c \in Dirty(job) /\ (main = "begin" \/ Interpreting(c)) THEN Nil
                                                                ELSE result[c]]

Calc == INSTANCE Calculation WITH value <- Settled

ImplementsCalculation == Calc!Spec
=============================================================================

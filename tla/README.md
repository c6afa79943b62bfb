# A specification of ixion's calculation engine

ixion is a C++ library that stores spreadsheet cells, parses formula
expressions into tokens, tracks which formula cell depends on which cells, and
recalculates the formula cells that a change has made dirty, on one thread or on
many.  The modules here specify that engine in TLA+: TLC checks small instances,
TLAPS proves the theorems listed under *What is proved* for every instance.
`libixion/` below stands for `src/src/libixion/`.

## The system

| Component | State | Operations | Talks to |
|---|---|---|---|
| Threaded calculation (`formula_calc.cpp`, `cell_queue_manager.cpp`) | the queue of futures, the launcher thread, one task per cell | `calculate_sorted_cells`, `push`, `wait_one`, `run` | calls the formula cells; switches the model's wait policy |
| Formula cell (`cell.cpp`, `calc_status.*`) | per cell or group: mutex, condition variable, result, `circular_safe`; tokens | `reset`, `check_circular`, `interpret`, `get_value`/`get_string`/`get_result_cache`, `set_result_cache`, `get_ref_tokens` | reads other cells through the model, blocks on them |
| Formula interpreter (`formula_interpreter.cpp`, `formula_value_stack.cpp`) | expanded token list, stack of value stacks, error | `interpret`, expansion of named expressions, recursive descent | formula functions, model |
| Formula functions (`formula_functions.cpp`) | none | one per worksheet function | value stack, model |
| Dirty cell tracker (`dirty_cell_tracker.cpp`, `depth_first_search.hpp`) | per sheet: listened-to range -> listening ranges; volatile cells | `add`, `remove`, `add_volatile`, `remove_volatile`, `query_dirty_cells`, `query_and_sort_dirty_cells` | called by registration and by queries |
| Formula registration (`formula.cpp`) | none of its own | `register_formula_cell`, `unregister_formula_cell`, `query_dirty_cells`, `query_and_sort_dirty_cells` | model -> tracker |
| Document (`document.cpp`) | model, tracker (in the model), modified cells, dirty formula cells | `set_*_cell`, `empty_cell`, `set_formula_cell`, `calculate`, sheets | all of the above |
| Model context (`model_context*.cpp`, `cell_access.cpp`) | sheets, cell stores, strings, named expressions, wait policy | cell setters and getters, ranges, grouped formulas, fill down, sheets, names | cell store, string pool |
| Iterators (`address_iterator.cpp`, `model_iterator.cpp`, `named_expressions_iterator.cpp`) | position | `++`, `--`, `has`/`next` | model |
| Names, lexer, parser (`formula_name_resolver.cpp`, `formula_lexer.cpp`, `formula_parser.cpp`, `formula_tokens.cpp`) | none | reference syntax <-> addresses; expression text -> tokens | model (sheet names) |
| Values (`matrix.cpp`, `formula_result.cpp`, `address.cpp`) | the value | conversions, relative/absolute addresses, ranges | - |
| Command line tools (`model_parser.cpp`, `session_handler.cpp`, `table_handler.cpp`, sorter) | the parser's mode; dirty cells of an edit session | `init`, `edit`, `calc`, `recalc`, `check` sections | library API |
| Python binding (`src/python/`) | document, sheets, modified cells | as Document | library API |
| Compute engines (`compute_engine*.cpp`, `module.cpp`, Vulkan) | loaded modules, GPU objects | create, compute | dynamic libraries, GPU |

What is hard about it:

* **Threads.** Every cell is interpreted by a task of its own, which holds the
  cell's mutex and blocks on the cells it reads; the queue bounds how many tasks
  are started; main and the launcher share one condition variable.
* **Order.** Everything relies on the sequence the tracker returns being in
  topological order, and on `check_circular` to take out the cells for which
  there is none.
* **Two pictures of the dependencies.** The tracker, `check_circular` and the
  interpreter each derive a cell's references from its tokens in their own way
  (named expressions, whole columns, reversed ranges, groups).  Where they
  differ, cells are missed, or waited for without being checked.
* **Incremental state.** What is dirty is kept in sets between edits; a cell
  can be overwritten, emptied or replaced before the next calculation.
* **Failure.** A formula that does not parse, an interpretation that throws.

For each component, what makes it correct:

* *Threaded calculation*: it gives what a sequential calculation gives; every
  call returns; nothing is left running; no wakeup lost; a bounded number of tasks.
* *Formula cell*: interpreted at most once per calculation; a reader never sees
  an unfinished result; circular cells, and only they, get the error.
* *Tracker*: dirty cells are exactly those that depend on a change, each once,
  in topological order; removing undoes adding.
* *Registration and document*: the tracker is the image of the formulas in the
  model; after `calculate` every formula has the value a full recalculation
  would give.
* *Interpreter*: the value of a formula is what its grammar says, errors
  included; each handler leaves one value; every formula comes to an end; a name
  expands to what it stands for, a circle of names is an error, nothing else is.
* *Formula functions*: each gives what its definition says from the values alone,
  whatever blocks the cells lie in and however many bytes a character has.
* *Model context*: every reader of a cell shows what was put into it last, in a
  group or not; names, identifiers and texts lead back to each other; queries
  that go by blocks say what looking at each cell would.
* *Iterators and addresses*: every address of a range once, in order, in both
  directions; relative and absolute addresses convert back and forth.
* *Names, lexer, parser*: what is printed is read as the same formula, with the
  same references, in every notation.

## The modules

| Module | Models | Status |
|---|---|---|
| `FormulaCells` | what a calculation works on: cells, references, what a formula's outcome is | done |
| `Calculation` | the abstract specification of a calculation: cells settle one by one | done |
| `CalcQueue` | `calculate_sorted_cells` with its threads; implements `Calculation` | done |
| `MCCalcQueue` | the jobs TLC checks | done |
| `CalcQueueProofs` | theorems about `CalcQueue`: results, mutexes, what a call leaves running | done |
| `CalcCallProofs` | theorems about a whole call: its queue, wakeups, waiting, return | done |
| `CalcRefinementProofs` | `CalcQueue` implements `Calculation`, step by step | done |
| `CellRange` | absolute addresses and ranges, unset rows and columns, the set order | done |
| `Dependencies` | what listens to what, and what a query must return | done |
| `DependencyTracking` | the abstract specification of the tracker: links, queries and their answers | done |
| `DirtyTracker` | the tracker with the loops of its queries and the depth-first sort; implements `DependencyTracking` | done |
| `MCDirtyTracker` | links and queries for TLC | done |
| `DirtyTrackerProofs` | theorems about `DirtyTracker` | done |
| `Registration` | which links a formula cell registers, and which are taken back | done |
| `Document` | edits and `calculate` of a document; composes `DirtyTracker`, `Registration` and the sequential calculation | done |
| `MCDocument` | cells and formulas for TLC | done |
| `DocumentProofs` | theorems about `Document`: the tracker mirrors the model | done |
| `DocumentResultProofs` | theorems about `Document`: the order of calculation and the results it leaves | done |
| `StackValues` | the values of the formula value stack, the pops that convert, the operators | done |
| `TextFunctions` | the worksheet functions on texts, over bytes | done |
| `FormulaFunctions` | the other worksheet functions, and the call protocol | done |
| `FunctionLaws` | what the functions give, defined without their loops | done |
| `Interpreter` | `formula_interpreter`: expansion of names and recursive descent, handler by handler | done |
| `FormulaGrammar` | the grammar of the comments with the value of each phrase, and what the interpreter is checked against | done |
| `MCInterpreter` | formulas, names and cells for TLC | done |
| `InterpreterProofs` | theorems about `Interpreter` and `FunctionLaws`: expansion, stacks, values, AND and OR | done |
| `SheetQueries` | counting, walking, emptiness, data range of a sheet; the iterators over cells and addresses | done |
| `ModelContext` | sheets, cells, groups and their shared results, the string pool, named expressions | done |
| `MCModelContext` | sheets to begin with and what is put into them, for TLC | done |
| `ModelContextProofs` | theorems about `ModelContext` | done |
| `ReferenceNames` | relative addresses, and how references, sheets and tables are written in each notation | done |
| `NameResolver` | how they are read | done |
| `FormulaText` | the lexer, the parser and the printer, and a formula on its way through them | done |
| `MCFormulaText` | references, formulas and settings for TLC | done |

### CalcQueue

The variables follow the code: `result`, `safe` and `mtx` are the fields of
`calc_status`, `policy` is the model's wait policy, `futures` is
`interpreter_queue::m_futures`, `main`, `launcher` and `task[i]` say where each
thread is, `got[i]` is what the task of entry `i` has fetched.  A cell of the
model is a `calc_status`, so a group of cells is one cell.

*Granularity.* A critical section of the queue's mutex is one step, because it
contains no blocking call but the condition wait; so is locking another cell's
mutex, reading and unlocking.  A task's own mutex is held over many steps, as
in `interpret()`.  Notifications come after the unlock, in a step of their own,
and condition variables may wake without one.

*What a formula does* is abstracted to the cells it fetches, in order, and a
function `Formula(c, vec)` of what it fetched.  An error result ends the
interpretation with that error; this is how operators and most functions behave
(functions that accept errors, such as `ISERROR`, would fetch on).
`job.refs[c]` is what the formula's own reference tokens denote - what
`check_circular` looks at - and `job.reads[c]` what the interpretation fetches;
they differ for named expressions.  `job.throws` are the cells whose
interpretation ends in an exception that `formula_interpreter::interpret` does
not catch (anything but `invalid_expression` and `formula_error`).

*Abstraction.* `Calculation` is a contract.  For a call the caller has a promise
for (`Promised`: a sequence as `query_and_sort_dirty_cells` returns it, and no
formula that ends in an exception) it has one step: a cell settles, on the
circular-reference error if it is on or behind a circle of references, on its
formula's outcome otherwise, and never changes again; and every cell settles in
the end.  Of any other call it says only that the call stays what it is.
`CalcQueue` implements it under the mapping `Settled`: a result counts once its
mutex is released.

*Fairness.* Weak fairness of main, of the launcher and of every task: the
operating system runs every thread that can run, and a mutex that stays free is
eventually obtained.  A result, once there, keeps its mutex free, so weak
fairness is enough.  Nothing is assumed about spurious wakeups.

### DirtyTracker

`links` is the tracker's grids (`m_grids`, one R-tree per sheet: listened-to
range -> set of listening ranges) as one set of pairs; a range over several
sheets gives one link per sheet, as in `add`.  `volatile` is
`m_volatile_cells`.  The other variables are the locals of the two queries:
`cur`, `final` and `rels` are `cur_modified_cells`, `final_dirty_formula_cells`
and the relations given to the sort; `stack` holds the activations of
`depth_first_search::visit` and `sorted` what its handler has collected, so a
range is gray on the stack, black in the sequence, white otherwise.

`Add`, `Remove`, `AddVolatile`, `RemoveVolatile` are the calls of the same name;
a query is `Ask`, then `AffectModified` (the first step of the sorting query),
`Round` (one iteration of the `while` loop), `EndRounds`, and `VisitRoot`,
`VisitDependent`, `FinishVisit`, `EndSort` of the depth-first search, then
`Return`.  The tracker has no lock and its client calls it from one thread, so
links do not change while a query runs; the loops are steps of their own to say
that they end and what they hold meanwhile.  Which root is visited next is free,
because the ranges to sort come out of a hash set; the dependents of a range are
visited in the order of their `std::set`.

`mdds::rtree` is taken for what its searches return: exact extents for `add` and
`remove`, overlapping extents for queries.

`DependencyTracking` says what a client sees: a query is answered in one step by
a set `IsDirtySet` and, if asked for, an order `IsDirtyOrder`, both defined
without an algorithm.  `waiting` and `answer` are mapped to where the query is.

### Registration and Document

A formula is a model value with its reference tokens, in the order of
`get_ref_tokens`, each as the range it denotes at the cell's position
(`to_abs` applied), a single reference as a range of one cell.  `Registration`
takes a group size as in the code; `Document` has ungrouped cells, because the
document's API puts no others in.

`formula[p]` and `value[p]` are the model's cell at `p`, `result` and `safe` its
`calc_status`, `modified` and `modifiedFormulas` the two sets in
`document::impl`.  `SetValue` stands for the three setters of values and
`empty_cell`; `SetFormula` for `set_formula_cell`; each is one step, because
nothing else runs: the exceptions they may end in are actions of their own
(`EditThrows`: the tracker does not accept what is to be taken back;
`SetUnparsable`: the text does not parse) that change exactly what had been
changed by then.  `calculate(0)` is the query, in the steps of `DirtyTracker`,
then the loops of `calculate_sorted_cells` without threads: `ResetEntries`,
`CheckCircular` entry by entry, `Interpret` entry by entry.
`InterpretThrows` is an exception that `interpret` lets pass: it leaves
`calculate` with the sets of modified cells still full.  An entry that is no
formula cell has a null pointer, and calling `reset` through it is undefined:
`ResetNull` goes to the stage `"undefined"`, where the model says no more.

What differs in the code differs in the model: the tracker has clipped and
reordered ranges (`Denoted`), `Unregister` uses them as written, `check_circular`
looks at clipped ranges in the written order (`LookedAt`), `interpret` at the
reordered ones (`Reads`).  `A:A` and `A3:A2` are in the instance.

`edits` is not in the code either: it says whether every edit so far has
succeeded.  What a failing edit leaves behind is in the model like everything
else; `TrackerMatchesModel`, `EntriesInOrder` and `ResultsFresh` are about
documents no edit has failed on.

*Fairness.* Weak fairness of `QueryStep` and of `CalculateStep`: a call runs on
its caller's thread until it is over.  Nothing is assumed about the client.

### StackValues, Interpreter and FormulaGrammar

A formula is a sequence of tokens, a token a record with its opcode.  The C++
call stack of the descent is `calls`, one frame per handler that has not
returned with the locals it still needs (`expect_sep` of `function`, the rows of
`array`, the left operand of an operator); `at` says which handler is entered
next, or that one returns.  `expanding` is the call stack of `init_tokens` and
`expand_named_expression`, `stacks` is `m_stacks` with the innermost stack
first.  A step is what one handler does between two calls, so each of the
handlers' loops and early returns is a disjunct of `Next`.  An exception drops
the frames and ends the interpretation: `outcome` is `thrown` with the error
that `interpret` keeps, or `escaped` for one it does not catch
(`formula_functions::invalid_arg`).

`StackValues` has what is computed, as pure operators: how each `pop_*` converts
what is on the stack, what it reads of a referenced cell, the operators on
numbers, texts, booleans, errors and matrices.  Numbers are fractions in lowest
terms, which stand for doubles as long as these are exact; a text is a sequence
of codes, and a number converts to a text by its digits.  Cells are fixed during
an interpretation: what others do to them meanwhile is `CalcQueue`'s.

`TextFunctions` and `FormulaFunctions` have the worksheet functions, each an
operator from the arguments on the stack to the value that is left there, an
error (`After`: the first of the pops that fails decides), `Escaped` for an
exception `interpret` does not catch, or `Endless`.  A text is a sequence of
bytes, so a length in characters has to be counted as in `utf8.cpp`.
`FunctionLaws` defines what a family of functions must give from the values
alone: `CharactersCounted` (LEN, LEFT, RIGHT, MID, REPLACE and FIND give what the
characters say, and split none), `Statistics` (MAX, MIN, MEDIAN, MODE, and
AVERAGE by SUM), `JunctionsByTruth` (AND, OR) and `QuestionsAgree` (the functions
that ask what an argument is fit together and with COUNT).  AND keeps the truth
of the last formula cell of a block rather than of all; `JunctionsByTruth` is
about ranges with at most one formula cell in a column.  MODE compares the runs of equal
numbers in a way that `std::sort` does not allow; it is modelled by what
insertion gives, which is what happens to up to 16 runs.  MEDIAN always has a
number among its arguments in the runs, because it reads before an empty vector
without.  SUBSTITUTE with nothing to look for does not end; `Terminates` says
that every interpretation ends but such a call.

`FormulaGrammar` defines what a formula means without an order of consumption:
each run of tokens, from the shortest to the longest, is given its value as an
operand, factor, term, expression and argument list by what it is made of.
`FollowsGrammar` compares that with what the descent did.  The grammar of the
code's comments is followed in most things; it has been given, as the code has
it:

* a term operator takes the whole term to its right, so `8/4/2` is `8/(4/2)`;
* a sign belongs to the operand, and there is at most one;
* an argument list may end in a separator, and an array may be `{}` or `{-}`;
* a text in an array may have a sign, which does nothing;
* `=` of two numbers gives a number and the other comparisons a boolean, which
  `expression` turns into a number;
* a formula with no tokens, or with tokens left over after the expression, fails
  without an error of its own: `interpret` returns false with `no_error`.

*Fairness.* `WF_vars(Next)`: the interpretation runs on one thread until it is
over.

### SheetQueries and ModelContext

`sheets` is a sequence of sheets, a sheet a sequence of columns, a column a
sequence of cells.  A formula cell has the number of its `calc_status` and its
place in a group; `statuses` keeps the statuses, a group's matrix of results
among them, and does not forget those that no cell uses any more.  `pool` and
`string_map` are the two sides of the string pool, `expressions` the named
expressions of every scope.  Each public operation that changes the model is an
action, with a `Throws` branch for each exception and what had been changed
before it.  `shown` is not in the code: it is what was put into each cell last.
`ReadsWhatWasPut` compares it with what the readers (`get_numeric_value`,
`get_boolean_value`, `get_string_value`, `get_cell_value_type`) make of the cells, the statuses and the pool,
where there is something to read: a formula cell without a result has no number
(`HasNumber`), and one whose result is no text has no text (`HasText`).  What the
documentation promises for these, and the code does not do, is
`SomeReadAsDocumented` (see *The runs*).

The first result that is put into a cell of a group makes a matrix with an
element for each; the others then show what such an element holds
(`get_single_formula_result`: nothing becomes 0, a truth value a number), and
`shown` says so at that moment.  A group that does not fit into the sheet leaves
the columns it could fill.

A behaviour begins with any of `InitialModels`; `ModelAssumption` says that these
are models (`IsModel`): every cell shows what `shown` says was put there, and no
two cells show the same element of a group (`IsContents`).  TLC evaluates the
assumption for the instances of the run.

`SheetQueries` has `count_range`, `walk`, `is_empty` and `get_data_range` with
their loops over blocks (the longest runs of one type in a column, which is how
the container keeps them) and both cell iterators, and the address iterator in
both directions.  `RangeQueries` and `IteratorsComplete` look at the cells one by
one instead.  The vertical iterator is a place (`column`, `row`) with the column it
ends before and its rows; `PlacesFrom` are the places it can come to.  A range whose
first bound is beyond the sheet while its last is unset breaks an assertion of the
horizontal iterator; what a build without assertions makes of it is `Undefined`.
`IteratorsComplete` is about ranges that leave something to go through.

### ReferenceNames, NameResolver and FormulaText

A text is a sequence of characters; words that are only ever looked up as a whole
(the names of errors and of functions, table areas) are one element.
`ReferenceNames` is `get_name` of each notation, `NameResolver` is `resolve`,
with `parse_address_a1`, `parse_address_r1c1` and what precedes and follows an
address in each notation.  Two bounds (`RowBound`, `ColumnBound`) stand for the largest row and column.

`FormulaText` is a formula on its way: `Lex...` reads one lexeme at the place
the tokenizer is at, `Parse...` makes tokens of one lexeme with the look-ahead of
the parser, `PrintFormulaTokens` writes the tokens back, and the second time round the tokens
are what the first are compared with.  A behaviour that starts with a reference
starts at `PrintFormulaTokens`.  A number is a record of its digits before and after
the point; `DoubleText` is what a stream that nothing was set on writes for it: six
digits that count, the last of them rounded, no zeros at the end, and an exponent
from a million on and below a ten-thousandth.

What is printed cannot always be read back; `IsSayable` and `IsPrintable` name
the formulas for which it is.  Outside of them the code does the following:

* a range in an Excel notation is written with the sheet of its first end only;
* whole rows and columns are read as relative in the A1 notations, so a `$`
  before them is lost, and OpenFormula writes the number that means *unset*;
* in R1C1 the formula's own cell, row or column is `RC`, `R` or `C`, which is not
  read at the end of a name;
* with `only_if_different` a range that begins on the formula's own sheet is
  written without the other sheet;
* OpenFormula reads an unknown sheet as a reference to a sheet that is not there,
  and writes that as the formula's own;
* sheet names that begin with a digit or contain an operator or a separator are
  written without quotes (the instances have names with spaces, quotes, and a
  digit at the end);
* tables are written in every notation and read in Excel's only;
* the row separator of arrays is written from the configuration but read as `;`,
  and a name goes on over it;
* a number of more than six digits is written rounded, and one that is written
  with an exponent is read back as a number, a name and a sum: `1e+06` is `1`,
  `e`, `+`, `06`.

## The runs

| Run | Question | Instance |
|---|---|---|
| `calc_cells` | does the threaded calculation do what `Calculation` says, and what holds of any call: wakeups, waiting, results, return, and what is left behind when interpretations throw? | every reference graph on three cells (also with cell 3 left out of the calculation and either safe or circular from an earlier one), every sequence in topological order up to renaming, 0, 1 and 2 threads; all sequences of three entries, repeated cells included, at most one reference per formula, 1 and 2 threads; and three cells of which any may throw and one may fetch itself through a name, 0 to 2 threads; deadlock is not checked because with exceptions the call may really stop (below) |
| `calc_named_cycle` | *violated*: a circle of references is flagged | cell 2 refers to cell 1, which fetches cell 2 in a way its tokens do not show; 1 and 2 threads |
| `calc_worker_exception` | *violated*: the call returns | the throwing jobs of `calc_cells` |
| `calc_workers` | *violated*: no more than `thread_count` tasks run at a time | three cells with no references, 0 to 2 threads |
| `dirty_queries` | are both queries right, do they end, is the abstract tracker implemented? | all sets of seven links over five cells, a group and a range over two sheets: chains, cycles of one, two and three, two listeners of one range; one volatile range; six queries |
| `document_changes` | does the tracker mirror the model, and does `calculate` leave every formula with the value of a full recalculation; what holds when edits fail half-way? | three cells of a column, formulas that are cyclic, volatile or throw, `A:A` and `A3:A2`, text that does not parse, up to two modified cells between calculations |
| `document_overwrite` | *violated*: every entry of `calculate` is a formula cell | one edit over another |
| `document_unregister` | *violated*: a cell can be edited whatever formula it holds | `A:A` |
| `interpret_formulas` | does the descent give what the grammar says, keep its stacks in order, replace names exactly and end; do the functions give what they are defined to give? | every string of up to 5 operators, parentheses and numbers, of up to 6 tokens of nested calls, of up to 5 tokens in an array, 4 with texts; every pair of 20 kinds of operand under 7 operators, signed or not; every function on arguments of several kinds, texts with characters of one to three bytes among them; strings of up to 3 names under every table of two names |
| `model_context` | does every reader show what was put into a cell, do names and identifiers lead back, do queries and iterators say what the cells say? | three operations from an empty context and two from a sheet with a group, a formula, a number and a text; every sheet of two columns of three rows made of four kinds of cells, under every range of it and around it, bounds unset or in the wrong order |
| `model_context_reads` | *violated*: of four promises about reading what is not there, one is kept | up to three operations from an empty context |
| `formula_text` | is what is printed read as the same formula with the same references? | five notations, three ways to show sheets, two positions; cells and ranges with every mixture of absolute and relative parts on four sheets whose names need quotes or not, whole rows and columns; texts of two operands with operators, separators, spaces or nothing between, names of sheets and tables among them; numbers of up to eight digits, with and without a fraction |

The violated runs show what the code does where a comment or the documentation
says otherwise; `PROJECT.json` quotes the lines under `findings`.
The runs of the document do not check for
deadlock: nothing is said of the program once it has called through a null
pointer.

Two more things the models show, which no comment speaks against: when the text
of a new formula does not parse, `set_formula_cell` has taken the old formula out
of the tracker and left it in the model, so it is not calculated any more
(`ResultsFresh` is about documents no edit has failed on); and a name that is used
twice in a formula, outside of each other, is taken for a circle
(`NamesReplaced` says what is).  A cell that is on a circle and twice in the
sequence meets the assertion of `cell.cpp:109` the second time, so a debug build
stops; the model goes on as other builds do.

`model_context_reads` has one property for four promises, which
`SomeReadAsDocumented` joins by *or*: that `get_numeric_value` waits for a result
(`NumericWaits`), that `get_string_value` returns nothing where there is no text
(`StringOrNothing`), that an iterator over an empty range has no cell
(`EmptyRangesHaveNothing`), and that the bounds of a horizontal range are in order
when it is narrowed (`BoundsInOrder`).  A sheet on which none of them is kept,
which a formula cell that was not calculated is enough for, refutes each.

Three cells are enough for a chain, a diamond's half, two readers of one cell, a
circle of one, two and three, and a cell behind a circle; two threads with three
entries make the queue both full and not, and one thread makes the launcher wait
for every cell.  In the document three cells give a chain, a range, a circle of two and three and
a cell behind it; two edits between calculations give a formula over a formula,
a value over a formula and a pair of cells that depend on each other, and since
calculations and edits alternate without end, every formula is replaced by every
other.  `MaxPending` bounds the edits.  For the interpreter, five tokens hold
two operators, an operator in parentheses or behind a sign, six a call in a
call's argument with a separator, five array tokens two rows or two columns with
a sign; tokens of different kinds are combined in separate families of formulas
because the handlers meet only at the stack.  `ArithmeticLength`, `CallLength`,
`ArrayLength` and `NameLength` are these bounds.  The interpreter stops when the
interpretation is over, so its runs do not check for deadlock; `model_context`
ends after `MaxCalls` operations and `formula_text` when the formula was read
again.  Three operations hold a group, a result and an overwriting, or a text
appended twice and looked up; `RichCalls` is how many are spent on the sheet that
has these already.  Three rows hold a range that begins and ends inside a block.
In texts three digits and four letters are enough because the notations tell
apart only 0, other digits, `R`, `C` and other letters; numbers are to the base of
as many digits as there are, so one more than six digits of them is rounded, up or
down, with and without a carry.  The theorems hold
without these bounds.

## What is proved

`CalcQueueProofs`, for every set of jobs (any number of cells and threads, any
references, any order, repeated entries, exceptions), from the assumptions of
`FormulaCells` only (results and errors are what they are named for, formulas
return results, jobs are well formed):

* `TypeCorrect`: `TypeOK` is invariant.
* `CellsInterpretedByOne`: two tasks never interpret the same cell at once.
* `ResultsCorrect`: an interpreted cell holds what its formula gives from the
  final results of its references (`ResultsAgree`).
* `CallLeavesNothing`: when the call is left nothing is running or locked.
* `ResultsSettle`: a result somebody may have read is never written again.

The inductive invariant `SafetyInv` has five parts.  `TypeInv` adds to the types
the bounds of the two loops.  `TasksInv` says where a running task's future is,
which is why leaving the call means that nothing runs.  `MutexInv` ties a cell's
mutex to its interpreting task.  `FetchInv` says that what a task has fetched is
what the cells still hold - it needs `MutexInv`, because only the holder of the
mutex may write.  `StoreInv` says that the stored result is what was computed
from the fetched ones; with `FetchInv` it gives `ResultsAgree`.

`DirtyTrackerProofs`, for every set of links, volatile ranges and requests:

* `TypeCorrect`: `TypeOK`, with no range in two colors.
* `AnswerCorrect`: both queries return exactly the dirty set.
* `SortComplete`: the depth-first search never meets a range it was not given.
* `OrderCorrect`: the sorted answer has every dirty range once, in order of
  dependency except on cycles.
* `TrackingImplemented`: every step is one of `DependencyTracking` or changes
  nothing of it.

The argument: `RoundsInv` says that what was found and is not to be looked at
any more has its listeners among what was found, and that every closed set with
the roots in it contains what was found; at the end of the rounds that is
`IsDirtySet`.  `RelsInv` ties the recorded relations to the links, for the
ranges that were looked at.  `SortInv` has the two facts of the depth-first
search: what is on top of the stack leads to everything below it (`PathInv`), so
a gray range met again is on a cycle; and what a black range listens to is black
before it or on a cycle with it (`BlackInv`).  The step lemmas are about
`AnyNext` - any edit between queries, any request - so they hold for every
client of the tracker.

`DocumentProofs`, for any cells, formulas and values and any number of edits,
from `DocumentAssumption`, `ComputeAssumption` (a formula gives a value),
`SheetSizeAssumption` and `UnsetAssumption`:

* `DocTypeCorrect`: `DocTypeOK`.
* `TrackerWithin`: the tracker holds nothing that is not in the model, whatever
  failed on the way.
* `TrackerMatches`: as long as no edit has failed, the tracker holds exactly the
  references of the formulas in the model, whatever the formulas are.
* `TrackerReturns`: what the tracker returns is a formula cell, or one of the
  document's own modified cells (which need not be one, `document_overwrite`).

The document is first shown to be a client of the tracker (`ClientStep`): each
of its steps is a step of `AnyNext` or leaves the tracker alone, which carries
`DirtyTracker`'s invariants over.  `UnregisterUndoesRegister` says when
unregistration is the inverse of registration; with `CellsAreApart` (links name
the cell they were registered for) it gives `ReplacedLinks`: a successful edit
replaces the cell's own links and no others.

`CalcCallProofs`, for every set of jobs, from the assumptions of `FormulaCells`:

* `ReturnIsComplete`: a normal return means that every entry has its result
  (`ReturnMeansAll`).
* `ThreadsBounded`: at most `thread_count` tasks run, and the one whose future was
  taken out of the queue (`WorkersBounded`).  That is one more than the
  documentation says (`calc_workers`).
* `NoLostWakeup`: whoever sleeps while its condition holds has a notification
  coming (`WakeupPending`).
* `NobodyWaitsInVain`: a task waits only for a cell that a running task is to
  settle, and that comes earlier in the sequence (`WaitsOnEarlier`).  It asks for
  `FetchesItsReferences` - formulas fetch no more than their reference tokens
  denote; named expressions break this, and `calc_named_cycle` shows how a
  calculation then hangs - and for `SafeHasResult` - cells outside of the
  sequence that are safe have results.
* `SafeCellsHaveResults`: a call that returns leaves `SafeHasResult` to the next
  one, so that hypothesis is the program's own invariant between calls.

`QueueInv` says which futures are in the queue at each point of `push` and
`wait_one`: those of the entries launched and not yet taken out, in order, never
more than `thread_count`.  That bounds the workers without counting them (they
lie in an interval of entries), and says that main has waited for every entry
when it returns.  `WakeInv` has one part for each condition variable: `SleepInv`
(only who may wait is asleep), `QueueWakeInv`, `TaskWakeInv`, and `NoFailure`,
because after an exception main no longer takes anything out of the queue.
`CheckInv` is what the loop over `check_circular` has established so far: an
entry it has passed is on the error, or all its references are safe.

`CalcRefinementProofs` has `CalculationImplemented`: every step of the threads is
one that `Calculation` allows, or changes nothing that it sees.  The contract asks
something of a step for jobs as `query_and_sort_dirty_cells` makes them (`Promised`:
topological order, which is `DirtyTracker`'s `AnswerInOrder`; every cell that refers
to a dirty one is dirty, its `AnswerIsDirtySet`; and no interpretation ends in an
exception): there every step settles one cell as `Settle` says, or none.  `CircleInv` is the heart of it: among the entries `check_circular` has
passed, exactly those on or behind a circle have the error.  `Circular` is a
greatest fixed point; that a cell is in it is shown by a closed set, that it is
not by induction along the sequence.

`DocumentResultProofs`, from the assumptions of `Document` and `EditsUndoable`
(`document_unregister` shows what happens without):

* `EntriesOrdered`: the order that the tracker's links give serves the references
  the formulas read (`EntriesInOrder`).
* `ResultsStayFresh`: a formula cell no later edit bears upon has the result that
  calculating the whole document would give (`ResultsFresh`).  It asks also for
  `OnlyVolatileReadTime`: a formula that is not volatile gives the same from the
  same values, as it does when NOW is the only function that reads the time.

`FreshInv` follows a calculation through its stages: while idle the cells that are
not outdated are settled (`IdleInv`); during the query and the resets the cells
that will not be among the entries still are (`QueryingInv`, `OthersInv`, with
`AskedInv` tying the query to the edits); during the check an entry has the error
if it is on or behind a circle, and only then (`CheckedInv`); during the
interpretation the entries that were passed have their final result
(`InterpretedInv`), which needs `EntriesOrdered` for what they read.  A settled
cell (`Settled`) is also one that does not make the calculation of the whole
document throw.  An exception keeps the sets of modified cells, so everything that
depends on them stays outdated, and `QueryingInv` has it that nothing throws anew
when nothing was edited; the theorem needs no hypothesis about exceptions.

`InterpreterProofs`, from `JobsAssumption` (the names of a formula's table are
finitely many), `TokensAssumption` and `CellsAssumption` (tokens have the values
and references their opcodes say, cells hold values or errors), for every formula,
every table of names and any cells:

* `ExpansionIsBounded`: `expand_named_expression` is never deeper in itself than
  there are names (`ExpansionBounded`).
* `NamesAreReplaced`: `NamesReplaced`.  When the expansion is over, every name the
  formula leads to is known and none leads back to itself, and the tokens are the
  formula with the text of each name in its place.
* `StacksInOrder`: every handler leaves one value, every call its arguments on a
  stack of its own (`StackDiscipline`), so the asserts hold that
  `pop_result`, `function` and `pop_stack` make.
* `TypesOfInterpreter`: `TypeOK`, for any functions that give values from values
  (`FunctionsGiveValues`); `TypesOfBuiltInFunctions`: those of
  `formula_functions.cpp` do, so `TypeOK` holds with them.
* `JunctionsAreByTruth` and `QuestionsAreAgreed`: `JunctionsByTruth` and
  `QuestionsAgree`, at every call an interpretation makes.

These two and `TypesOfBuiltInFunctions` ask for `FunctionsAreBuiltIn`: the
parameter `Functions` is what `FormulaFunctions` defines, which is what
`MCInterpreter` gives it.

`ExpansionInv`: the names marked as used are known names, and there are no more
levels of expansion than of them, as each level was entered with a name that was
not used before; a used name stays used when its level is left.  `DescentInv`
relates the call stack of the descent to `m_stacks` (`InOrder`): there is one
stack more than frames of functions; the outermost holds one value once the
descent has returned from everything, and none before; after a return there is a
value on the innermost; only the innermost frame may be of a function that waits for
a separator, and then an argument is there.

`TypesInv` adds where the descent is in its tokens (`PlaceInv`) and that every
stack holds values and every frame belongs to a known handler (`FramesInv`).
That a function gives a value is shown for each of them, its exceptions and the
call that does not end included.

`NamesInv` has `IsExpansion`, which says what the levels of the expansion are in
the middle of it: every level is a rest of the formula or of the text of a name,
what has been written is what stood before those rests with all names replaced,
and the names used are in an order in which each name's text leads only to earlier
ones once its level is left.  That order gives both that none leads back to
itself and that as many rounds of replacing as there are names are enough.

AND and OR are proved from the blocks: a block ends where the type changes, each
cell of the range is in one of them, and the last formula cell of a block is its
only one when the columns have no two.

`ModelContextProofs`, from `ContextAssumption` and `ModelAssumption`, for any
number of calls, sheets of any size, groups of any shape:

* `ModelWellTyped`: `TypeOK`.
* `LookupsLeadBack`: `LookupsAgree`, for names, sheets, texts and identifiers.
* `ReadersShowWhatWasPut`: `ReadsWhatWasPut`.
* `QueriesAreOfCells`: `RangeQueries`, after any calls and not only in the
  states the run looks at (`QueriesAgreeEverywhere`): `count_range` counts the cells
  that show a value of the type, `walk` shows each cell of the range once, in order
  and in blocks that cannot be joined, `is_empty` is true when no cell is there, and
  `get_data_range` is the bounding box.  The hypotheses: the mark for an exception
  (`Threw`) is not a range, and no sheet has as many rows as the number that means
  *all rows*, which in the code is next to the largest `int32_t` (`row_unset`).
* `EmptinessIsOfCells`: the same of `is_empty` for any range of natural bounds.  It
  looks at one block of each column: for every sheet and every range it says what
  looking at each cell would say, and throws when no cell of the sheet is in the
  range.  The range need not be in order or lie within the sheet.
* `IteratorsAreComplete`: `IteratorsComplete`, and that the iterators over cells
  agree with the cells at any time (`CellIteratorsAgreeEverywhere`), for every sheet
  and every range whose bounds, the unset ones filled in, are in order.  The
  horizontal one comes to each cell of the range once, row by row, or throws, and
  throws exactly when the range goes beyond the sheet; the vertical one comes to each
  cell of the range that is on the sheet, column by column, if there is one.  The
  ranges that are left are those of `model_context_reads`.  The hypothesis is that
  the mark for no position (`Undefined`) is not a number.
* `AddressIteratorsComplete` and `AddressesGoneThrough`: `abs_address_iterator`, for
  every valid range and both directions.  The first says that it comes to as many
  addresses as the range holds, to each of them and to no other, and goes back the
  same way; the second, for every place an iterator can be at, that `++` passes over
  no address, `--` and `++` undo each other, and both throw where there is no
  further place to go.

`ReadsWhatWasPut` is not inductive: setting a result through one cell of a group
changes what the others show.  `ContentsInv` says of each cell what status and
which element of it the cell shows, and that no two cells show the same element,
which is what overwriting a part of a group, filling a cell of it down or cutting
it off at the edge of the sheet might break.  `PoolInv` says that texts are in
the pool once and are never taken out, `NamesInv` that sheets and names
correspond and `ExpressionsInv` where named expressions are kept.  There is a
lemma for each operation, with a case for each of its exceptions.

The theorem about queries rests on `LastOfBlock` (a block goes as far as the type
does) and `PiecesCover`: the pieces a column is cut into cover the rows asked for,
one after the other, and neighbours differ in type.  `walk` and `count_range` put
the pieces of the columns together, by induction over the columns; that the counts
of the columns add up to a number of cells is the cardinality of a union of
disjoint sets (`FS_Union`).  `get_data_range` keeps the bounds it has found so far; after
every column these are the bounds of the cells of the columns before.  (In a sheet
of one row the rows are locked before a cell is met; the property leaves it out.)

The theorems about iterators over addresses rest on `AddressAhead` (a step forward
and its way back) and `AddressBehind` (every other place is a step ahead of one),
and on numbering the addresses of a range (`RankOf`): `++` goes up by one, from
0 at the beginning to the last number at the end.  The horizontal iterator over
cells is a division of the step's number by the width of the range; the vertical
one is described by the cells it has in front of it (`Ahead`), by induction over how
far it is from its end.

Only model-checked:

* Liveness: `QuietCallReturns`, `QueryReturns`, `CalculateEnds`, `Terminates`, and
  the fairness of `ImplementsCalculation` and `ImplementsTracking`.  The prover
  has no rules for `ENABLED` and with it none for weak fairness.
* `FollowsGrammar`: the value of a phrase is defined from the shortest runs of
  tokens to the longest, by choosing a place to cut the run at.  That the choice does
  not matter is induction over the grammar, and that the descent finds the same cut
  is another; both are induction over data with an operator as a parameter.
* `CharactersCounted` and `Statistics`: texts are cut into characters by a fold over
  their bytes, and numbers are sorted by the community modules' `SortSeq`, which
  says something only when `Below` is an order on fractions in lowest terms.
* `FormulasReadBack` and `ReferencesReadBack`: they hold of the texts the printer
  makes of each kind of reference, character by character, which is a
  computation rather than an argument.

## The plan

What is left, in this order:

1. Proofs: that all numbers of an interpretation are fractions in lowest terms (a
   stronger `TypesInv`), which `Statistics` needs first; lemmas about relative
   addresses (`ReferenceNames`: `to_abs` after the conversion to a relative
   address).
2. Registration of grouped formula cells with volatile functions, through a
   client that has them.
3. The Python binding and the edit sessions of `model_parser` as other clients
   of the tracker.

## What is not modelled

* In `CalcQueue` and `Document` a formula is an arbitrary function of what it
  fetched; what the functions compute is in `FormulaFunctions`.
* In the interpreter, the operator `^` (it takes the way of `*`), table
  references with a table handler, string identifiers that are not in the pool,
  the matrix of an array without elements as a number (a read out of bounds),
  rounding, PI and NOW.
* In texts, lower case letters, the words for functions, and the values of tokens
  (`formula_tokens.cpp`).
* References to sheets that do not exist: only the OpenFormula resolver returns
  them, and the document reads Excel A1 unless it is told otherwise.
* In the model context, `set_cell_values` (a loop of the setters), the handlers
  of sessions and tables, and `cell_access`, which reads as the context does.
* `mdds` containers, the R-tree and the cell store: external.
* Conversions of results to text, dumping, sessions, logging of the handlers.
* The Python binding and the command line tools: other clients of the same
  library; the tools read scripts and compare.
* Compute engines: plugins and GPU kernels.

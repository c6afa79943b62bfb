-------------------------- MODULE ModelContextProofs --------------------------
(***************************************************************************)
(* Theorems about ModelContext, for every size of sheets, all texts,       *)
(* names, groups and results, and any number of calls.                     *)
(***************************************************************************)
EXTENDS ModelContext, SequenceTheorems, FiniteSetTheorems, WellFoundedInduction, TLAPS

-----------------------------------------------------------------------------
(***************************************************************************)
(* Sheets as grids of cells.                                               *)
(***************************************************************************)

IsASize(sz) == sz.rows \in Nat \ {0} /\ sz.columns \in Nat \ {0}

LEMMA SizeFacts == \A sz \in Sizes : IsASize(sz)
BY ContextAssumption DEF IsASize

\* The lengths and the cells of a sheet.
LEMMA GridFacts ==
  ASSUME NEW sz, IsASize(sz), NEW X, NEW sh \in Seq(Grids(sz, X)), NEW s \in DOMAIN sh
  PROVE  /\ Len(sh) \in Nat /\ DOMAIN sh = 1..Len(sh)
         /\ DOMAIN sh[s] = 1..sz.columns /\ Len(sh[s]) = sz.columns
         /\ Len(sh[s][1]) = sz.rows
         /\ \A c \in 1..sz.columns :
              /\ DOMAIN sh[s][c] = 1..sz.rows
              /\ \A r \in 1..sz.rows : sh[s][c][r] \in X
<1>1. Len(sh) \in Nat /\ DOMAIN sh = 1..Len(sh)
  OBVIOUS
<1>2. sh[s] \in [1..sz.columns -> [1..sz.rows -> X]]
  BY DEF Grids
<1>3. sz.columns \in Nat \ {0} /\ sz.rows \in Nat \ {0}
  BY DEF IsASize
<1>4. sh[s] \in Seq([1..sz.rows -> X])
  BY <1>2, <1>3
<1>5. Len(sh[s]) = sz.columns
  BY <1>2, <1>3, <1>4, LenProperties
<1>6. sh[s][1] \in [1..sz.rows -> X]
  BY <1>2, <1>3
<1>7. sh[s][1] \in Seq(X)
  BY <1>3, <1>6
<1>8. Len(sh[s][1]) = sz.rows
  BY <1>3, <1>6, <1>7, LenProperties
<1> QED
  BY <1>1, <1>2, <1>5, <1>8

\* An address is that of a cell.
LEMMA AddressFacts ==
  ASSUME IsASize(size), sheets \in Seq(Grids(size, StoredCells)), NEW a \in AllAddresses
  PROVE  /\ a.sheet \in Nat /\ a.column \in Nat /\ a.row \in Nat
         /\ a.sheet + 1 \in DOMAIN sheets
         /\ a.column + 1 \in 1..size.columns
         /\ a.row + 1 \in 1..size.rows
         /\ a = [sheet |-> a.sheet, column |-> a.column, row |-> a.row]
<1>1. PICK s \in DOMAIN sheets : a \in Addresses(s)
  BY DEF AllAddresses
<1>2. /\ Len(sheets[s]) = size.columns /\ Len(sheets[s][1]) = size.rows
      /\ DOMAIN sheets = 1..Len(sheets) /\ Len(sheets) \in Nat
  BY GridFacts
<1>3. size.columns \in Nat \ {0} /\ size.rows \in Nat \ {0}
  BY DEF IsASize
<1>4. /\ a.sheet = s - 1 /\ a.column \in 0..(size.columns - 1) /\ a.row \in 0..(size.rows - 1)
      /\ a = [sheet |-> a.sheet, column |-> a.column, row |-> a.row]
  BY <1>1, <1>2 DEF Addresses
<1>5. s \in Nat \ {0} /\ (s - 1) + 1 = s
  BY <1>2
<1>6. a.sheet \in Nat /\ a.sheet + 1 = s
  BY <1>4, <1>5
<1>7. /\ a.column \in Nat /\ a.column + 1 \in 1..size.columns
      /\ a.row \in Nat /\ a.row + 1 \in 1..size.rows
  BY <1>3, <1>4
<1> QED
  BY <1>4, <1>6, <1>7

\* What a calc_status and the pool have stays.
More(old, new) ==
  /\ DOMAIN old \subseteq DOMAIN new
  /\ \A k \in DOMAIN old : new[k] = old[k]

LEMMA ShowsMore ==
  ASSUME NEW cell, NEW v, NEW st, NEW pl, Shows(cell, v, st, pl),
         NEW st2, More(st, st2), NEW pl2, More(pl, pl2)
  PROVE  Shows(cell, v, st2, pl2)
<1>1. CASE cell.type = "formula"
  BY <1>1 DEF Shows, More
<1>2. CASE cell.type = "string"
  BY <1>2 DEF Shows, More
<1>3. CASE cell.type \notin {"formula", "string"}
  BY <1>3 DEF Shows
<1> QED
  BY <1>1, <1>2, <1>3

-----------------------------------------------------------------------------
(***************************************************************************)
(* Cells that are put, and results that are put.  sh stands for sheets, sw *)
(* for shown, st for statuses and pl for pool.                             *)
(***************************************************************************)

\* A new cell is no formula cell, has a calc_status of its own, or is where
\* the cells of a new group lie with a at the top left.
IsNew(cell, s, c, r, a, st) ==
  \/ cell.type # "formula"
  \/ cell.row = Ungrouped
  \/ /\ cell.status = Len(st) + 1 /\ s = a.sheet + 1
     /\ cell.row = r - 1 - a.row /\ cell.column = c - 1 - a.column

Replaced(sz, sh, sw, st, a, sh2, sw2, st2, pl2) ==
  \A s \in DOMAIN sh, c \in 1..sz.columns, r \in 1..sz.rows :
    \/ sh2[s][c][r] = sh[s][c][r] /\ sw2[s][c][r] = sw[s][c][r]
    \/ Shows(sh2[s][c][r], sw2[s][c][r], st2, pl2) /\ IsNew(sh2[s][c][r], s, c, r, a, st)

AreStatuses(st) ==
  Len(st) \in Nat /\ DOMAIN st = 1..Len(st) /\ \A k \in DOMAIN st : IsStatus(st[k])

\* Two cells of a new group that show the same element of it are one.
LEMMA NewCellsApart ==
  ASSUME NEW cell, NEW other, NEW st, NEW a, a.row \in Nat, a.column \in Nat,
         NEW s, NEW c \in Int, NEW r \in Int, IsNew(cell, s, c, r, a, st),
         NEW t, NEW d \in Int, NEW q \in Int, IsNew(other, t, d, q, a, st),
         cell.type = "formula", other.type = "formula", cell.row # Ungrouped,
         cell.row = other.row, cell.column = other.column
  PROVE  s = t /\ c = d /\ r = q
<1>1. /\ s = a.sheet + 1 /\ cell.row = r - 1 - a.row /\ cell.column = c - 1 - a.column
      /\ t = a.sheet + 1 /\ other.row = q - 1 - a.row /\ other.column = d - 1 - a.column
  BY DEF IsNew
<1>2. PICK i \in Int, j \in Int : i = a.row /\ j = a.column
  OBVIOUS
<1>3. r - 1 - i = q - 1 - i /\ c - 1 - j = d - 1 - j
  BY <1>1, <1>2, Zenon
<1>4. r = q /\ c = d
  BY <1>2, <1>3
<1> QED
  BY <1>1, <1>4

LEMMA CellsPut ==
  ASSUME NEW sz, NEW sh, NEW sw, NEW st, NEW pl, IsContents(sz, sh, sw, st, pl),
         NEW a, a.sheet \in Nat, a.row \in Nat, a.column \in Nat,
         NEW sh2 \in Seq(Grids(sz, StoredCells)), NEW sw2 \in Seq(Grids(sz, Values)),
         Len(sh2) = Len(sh), Len(sw2) = Len(sh),
         NEW st2, AreStatuses(st2), More(st, st2),
         NEW pl2, More(pl, pl2),
         Replaced(sz, sh, sw, st, a, sh2, sw2, st2, pl2)
  PROVE  IsContents(sz, sh2, sw2, st2, pl2)
<1>1. DOMAIN sh2 = DOMAIN sh
  OBVIOUS
<1>2. ASSUME NEW s \in DOMAIN sh, NEW c \in 1..sz.columns, NEW r \in 1..sz.rows
      PROVE  Shows(sh2[s][c][r], sw2[s][c][r], st2, pl2)
  <2>1. Shows(sh[s][c][r], sw[s][c][r], st, pl)
    BY DEF IsContents
  <2>2. Shows(sh[s][c][r], sw[s][c][r], st2, pl2)
    BY <2>1, ShowsMore
  <2> QED
    BY <2>2 DEF Replaced
<1>3. ASSUME NEW s \in DOMAIN sh, NEW c \in 1..sz.columns, NEW r \in 1..sz.rows,
             NEW t \in DOMAIN sh, NEW d \in 1..sz.columns, NEW q \in 1..sz.rows,
             SameElement(sh2[s][c][r], sh2[t][d][q])
      PROVE  s = t /\ c = d /\ r = q
  <2> DEFINE cell == sh2[s][c][r]
             other == sh2[t][d][q]
  <2>1. c \in Int /\ r \in Int /\ d \in Int /\ q \in Int
    OBVIOUS
  <2>2. ASSUME NEW x, x.type = "formula", NEW w, Shows(x, w, st, pl)
        PROVE  x.status # Len(st) + 1
    BY <2>2 DEF Shows, IsContents
  <2>3. /\ Shows(sh[s][c][r], sw[s][c][r], st, pl)
        /\ Shows(sh[t][d][q], sw[t][d][q], st, pl)
        /\ SameElement(sh[s][c][r], sh[t][d][q]) => s = t /\ c = d /\ r = q
    BY DEF IsContents
  <2>4. /\ cell.type = "formula" /\ other.type = "formula"
        /\ cell.status = other.status /\ cell.row # Ungrouped
        /\ cell.row = other.row /\ cell.column = other.column
    BY <1>3 DEF SameElement
  <2>5. CASE cell = sh[s][c][r] /\ other = sh[t][d][q]
    BY <1>3, <2>3, <2>5
  <2>6. CASE IsNew(cell, s, c, r, a, st) /\ IsNew(other, t, d, q, a, st)
    BY <2>1, <2>4, <2>6, NewCellsApart
  <2>7. CASE IsNew(cell, s, c, r, a, st) /\ other = sh[t][d][q]
    BY <2>2, <2>3, <2>4, <2>7 DEF IsNew
  <2>8. CASE cell = sh[s][c][r] /\ IsNew(other, t, d, q, a, st)
    BY <2>2, <2>3, <2>4, <2>8 DEF IsNew
  <2>9. /\ cell = sh[s][c][r] \/ IsNew(cell, s, c, r, a, st)
        /\ other = sh[t][d][q] \/ IsNew(other, t, d, q, a, st)
    BY DEF Replaced
  <2> QED
    BY <2>5, <2>6, <2>7, <2>8, <2>9
<1> QED
  BY <1>1, <1>2, <1>3 DEF IsContents, AreStatuses

\* The result of a calc_status is another one, and what its cells show.
ResultShown(sz, sh, sw, k, sw2, status) ==
  \A s \in DOMAIN sh, c \in 1..sz.columns, r \in 1..sz.rows :
    IF sh[s][c][r].type = "formula" /\ sh[s][c][r].status = k
    THEN ShowsResult(sh[s][c][r], sw2[s][c][r], status)
    ELSE sw2[s][c][r] = sw[s][c][r]

LEMMA ResultPut ==
  ASSUME NEW sz, NEW sh, NEW sw, NEW st, NEW pl, IsContents(sz, sh, sw, st, pl),
         NEW k \in DOMAIN st, NEW x, NEW st2, st2 = [st EXCEPT ![k].result = x],
         IsStatus(st2[k]), NEW sw2 \in Seq(Grids(sz, Values)), Len(sw2) = Len(sh),
         ResultShown(sz, sh, sw, k, sw2, st2[k])
  PROVE  IsContents(sz, sh, sw2, st2, pl)
<1>1. /\ DOMAIN st2 = DOMAIN st /\ Len(st2) \in Nat /\ DOMAIN st2 = 1..Len(st2)
      /\ \A j \in DOMAIN st \ {k} : st2[j] = st[j]
  BY DEF IsContents
<1>2. \A j \in DOMAIN st2 : IsStatus(st2[j])
  BY <1>1 DEF IsContents
<1>3. ASSUME NEW s \in DOMAIN sh, NEW c \in 1..sz.columns, NEW r \in 1..sz.rows
      PROVE  Shows(sh[s][c][r], sw2[s][c][r], st2, pl)
  <2> DEFINE cell == sh[s][c][r]
  <2>1. Shows(cell, sw[s][c][r], st, pl)
    BY DEF IsContents
  <2>2. CASE cell.type = "formula" /\ cell.status = k
    BY <1>1, <2>2 DEF Shows, ResultShown
  <2>3. CASE cell.type = "formula" /\ cell.status # k
    BY <1>1, <2>1, <2>3 DEF Shows, ResultShown
  <2>4. CASE cell.type # "formula"
    BY <2>1, <2>4 DEF Shows, ResultShown
  <2> QED
    BY <2>2, <2>3, <2>4
<1>4. sh \in Seq(Grids(sz, StoredCells))
  BY DEF IsContents
<1>5. ASSUME NEW s \in DOMAIN sh, NEW c \in 1..sz.columns, NEW r \in 1..sz.rows
      PROVE  /\ Shows(sh[s][c][r], sw2[s][c][r], st2, pl)
             /\ \A t \in DOMAIN sh, d \in 1..sz.columns, q \in 1..sz.rows :
                  SameElement(sh[s][c][r], sh[t][d][q]) => s = t /\ c = d /\ r = q
  <2>1. \A t \in DOMAIN sh, d \in 1..sz.columns, q \in 1..sz.rows :
          SameElement(sh[s][c][r], sh[t][d][q]) => s = t /\ c = d /\ r = q
    BY DEF IsContents
  <2> QED
    BY <1>3, <2>1
<1>7. Len(st2) \in Nat /\ DOMAIN st2 = 1..Len(st2)
  BY <1>1
<1> QED
  BY <1>2, <1>4, <1>5, <1>7, Zenon DEF IsContents

\* The cells of a column from a row on.
AllIn(cells, X) == \A k \in DOMAIN cells : cells[k] \in X
IsWith(new, sz, X, sh, s, c, row, cells) ==
  /\ new \in Seq(Grids(sz, X)) /\ Len(new) = Len(sh)
  /\ \A t \in DOMAIN sh, d \in 1..sz.columns, q \in 1..sz.rows :
       new[t][d][q] = IF t = s /\ d = c /\ q - row \in DOMAIN cells
                      THEN cells[q - row] ELSE sh[t][d][q]

LEMMA WithFacts ==
  ASSUME NEW sz, IsASize(sz), NEW X, NEW sh \in Seq(Grids(sz, X)),
         NEW s \in DOMAIN sh, NEW c \in 1..sz.columns, NEW row \in Nat,
         NEW cells, AllIn(cells, X)
  PROVE  IsWith(With(sh, s, c, row, cells), sz, X, sh, s, c, row, cells)
<1> DEFINE new == [k \in DOMAIN sh[s][c] |-> IF k - row \in DOMAIN cells THEN cells[k - row]
                                             ELSE sh[s][c][k]]
           sheet == [sh[s] EXCEPT ![c] = new]
           all == [sh EXCEPT ![s] = sheet]
<1>1. /\ DOMAIN sh[s] = 1..sz.columns /\ DOMAIN sh[s][c] = 1..sz.rows
      /\ \A r \in 1..sz.rows : sh[s][c][r] \in X
      /\ Len(sh) \in Nat /\ DOMAIN sh = 1..Len(sh)
      /\ sh[s] \in Grids(sz, X)
  BY GridFacts
<1>2. With(sh, s, c, row, cells) = all
  BY DEF With
<1>3. new \in [1..sz.rows -> X]
  BY <1>1 DEF AllIn
<1>4. \A q \in 1..sz.rows : new[q] = IF q - row \in DOMAIN cells THEN cells[q - row] ELSE sh[s][c][q]
  BY <1>1
<1> HIDE DEF new
<1>5. sheet \in Grids(sz, X)
  BY <1>1, <1>3 DEF Grids
<1>6. sheet[c] = new /\ \A d \in (1..sz.columns) \ {c} : sheet[d] = sh[s][d]
  BY <1>1
<1> HIDE DEF sheet
<1>7. all \in Seq(Grids(sz, X)) /\ Len(all) = Len(sh)
  BY <1>5
<1>8. all[s] = sheet /\ \A t \in DOMAIN sh \ {s} : all[t] = sh[t]
  OBVIOUS
<1> HIDE DEF all
<1>9. ASSUME NEW t \in DOMAIN sh, NEW d \in 1..sz.columns, NEW q \in 1..sz.rows
      PROVE  all[t][d][q] =
               IF t = s /\ d = c /\ q - row \in DOMAIN cells THEN cells[q - row] ELSE sh[t][d][q]
  <2>1. CASE t = s /\ d = c
    BY <1>4, <1>6, <1>8, <2>1
  <2>2. CASE t = s /\ d # c
    BY <1>6, <1>8, <2>2
  <2>3. CASE t # s
    BY <1>8, <2>3
  <2> QED
    BY <2>1, <2>2, <2>3
<1> QED
  BY <1>2, <1>7, <1>9 DEF IsWith

-----------------------------------------------------------------------------
(***************************************************************************)
(* The invariant.                                                          *)
(***************************************************************************)

\* Every cell shows what was put there.
ContentsInv == size \in Sizes /\ IsContents(size, sheets, shown, statuses, pool)

\* No two sheets have the same name, the empty one included.
NamesInv == names \in Seq(SheetNames) /\ Len(names) = Len(sheets) /\ AllDifferent(names)

\* A text has the first identifier it was given.
PoolInv ==
  /\ pool \in Seq(Texts)
  /\ string_map \in [{ pool[k] : k \in DOMAIN pool } -> DOMAIN pool]
  /\ \A k \in DOMAIN pool : pool[string_map[pool[k]]] = pool[k] /\ string_map[pool[k]] <= k

\* Every sheet has a table of named expressions, and the model has one.
ExpressionsInv ==
  /\ DOMAIN expressions = 0..Len(sheets)
  /\ \A s \in DOMAIN expressions : \A n \in NamesIn(s) : expressions[s][n] \in Expressions

ModelInv ==
  /\ ContentsInv
  /\ NamesInv
  /\ PoolInv
  /\ ExpressionsInv
  /\ calls \in Nat

LEMMA ModelStarts == Init => ModelInv
<1> SUFFICES ASSUME Init PROVE ModelInv
  OBVIOUS
<1>1. PICK m \in InitialModels :
        /\ sheets = m.sheets /\ names = m.names /\ statuses = m.statuses /\ pool = m.pool
        /\ shown = m.shown
        /\ size \in Sizes
        /\ \A s \in DOMAIN sheets : Len(sheets[s]) = size.columns /\ Len(sheets[s][1]) = size.rows
        /\ string_map = [t \in {pool[k] : k \in DOMAIN pool} |-> CHOOSE k \in DOMAIN pool : pool[k] = t]
        /\ expressions = [s \in 0..Len(sheets) |-> << >>]
        /\ calls = m.calls
  BY DEF Init
<1>2. IsModel(m)
  BY ModelAssumption
<1>3. PICK sz \in Sizes : IsContents(sz, sheets, shown, statuses, pool)
  BY <1>1, <1>2 DEF IsModel
<1>4. ContentsInv
  <2>1. IsASize(sz) /\ IsASize(size)
    BY <1>1, SizeFacts
  <2>2. sheets \in Seq(Grids(sz, StoredCells)) /\ shown \in Seq(Grids(sz, Values))
        /\ Len(shown) = Len(sheets)
    BY <1>3 DEF IsContents
  <2>3. CASE sheets = << >>
    <3>1. shown = << >>
      BY <2>2, <2>3
    <3>2. << >> \in Seq(Grids(size, StoredCells)) /\ << >> \in Seq(Grids(size, Values))
          /\ DOMAIN << >> = {}
      OBVIOUS
    <3> QED
      BY <1>1, <1>3, <2>3, <3>1, <3>2 DEF ContentsInv, IsContents
  <2>4. CASE sheets # << >>
    <3>1. 1 \in DOMAIN sheets
      BY <2>2, <2>4
    <3>2. Len(sheets[1]) = sz.columns /\ Len(sheets[1][1]) = sz.rows
      BY <2>1, <2>2, <3>1, GridFacts
    <3>3. size.columns = sz.columns /\ size.rows = sz.rows
      BY <1>1, <3>1, <3>2
    <3>4. Grids(size, StoredCells) = Grids(sz, StoredCells) /\ Grids(size, Values) = Grids(sz, Values)
      BY <3>3 DEF Grids
    <3> QED
      BY <1>1, <1>3, <3>3, <3>4 DEF ContentsInv, IsContents
  <2> QED
    BY <2>3, <2>4
<1>5. NamesInv
  BY <1>1, <1>2 DEF IsModel, NamesInv
<1>6. PoolInv
  <2>1. pool \in Seq(Texts) /\ AllDifferent(pool)
    BY <1>1, <1>2 DEF IsModel
  <2>2. ASSUME NEW k \in DOMAIN pool PROVE string_map[pool[k]] = k
    <3>1. \A j \in DOMAIN pool : pool[j] = pool[k] => j = k
      BY <2>1 DEF AllDifferent
    <3> QED
      BY <1>1, <3>1
  <2>3. string_map \in [{ pool[k] : k \in DOMAIN pool } -> DOMAIN pool]
    BY <1>1, <2>2
  <2>4. DOMAIN pool \subseteq Nat
    BY <2>1
  <2> QED
    BY <2>1, <2>2, <2>3, <2>4 DEF PoolInv
<1>7. ExpressionsInv
  BY <1>1 DEF ExpressionsInv, NamesIn
<1>8. calls \in Nat
  BY <1>1, <1>2 DEF IsModel
<1> QED
  BY <1>4, <1>5, <1>6, <1>7, <1>8 DEF ModelInv

-----------------------------------------------------------------------------
(***************************************************************************)
(* The string pool.                                                        *)
(***************************************************************************)

\* What a text is appended as; the entry that is there is kept.
LEMMA AppendKeepsPool ==
  ASSUME PoolInv, NEW s \in Texts, AppendToPool(s)
  PROVE  PoolInv' /\ More(pool, pool') /\ pool' = Append(pool, s)
<1> DEFINE n == Len(pool) + 1
           entry == [t \in DOMAIN string_map \cup {s} |-> IF t = s THEN n ELSE string_map[t]]
<1>1. /\ pool \in Seq(Texts) /\ Len(pool) \in Nat /\ DOMAIN pool = 1..Len(pool)
      /\ string_map \in [{ pool[k] : k \in DOMAIN pool } -> DOMAIN pool]
      /\ \A k \in DOMAIN pool : pool[string_map[pool[k]]] = pool[k] /\ string_map[pool[k]] <= k
  BY DEF PoolInv
<1>2. pool' = Append(pool, s) /\ string_map' = IF s \in DOMAIN string_map THEN string_map ELSE entry
  BY DEF AppendToPool
<1>3. /\ pool' \in Seq(Texts) /\ DOMAIN pool' = 1..n /\ pool'[n] = s
      /\ \A k \in 1..Len(pool) : pool'[k] = pool[k]
  BY <1>1, <1>2
<1>4. { pool'[k] : k \in DOMAIN pool' } = { pool[k] : k \in DOMAIN pool } \cup {s}
  <2>1. ASSUME NEW k \in 1..n PROVE k \in 1..Len(pool) \/ k = n
    BY <1>1
  <2>2. 1..Len(pool) \subseteq 1..n /\ n \in 1..n
    BY <1>1
  <2> QED
    BY <1>1, <1>3, <2>1, <2>2
<1>5. string_map' \in [{ pool'[k] : k \in DOMAIN pool' } -> DOMAIN pool']
  <2>1. DOMAIN string_map = { pool[k] : k \in DOMAIN pool }
    BY <1>1
  <2>2. DOMAIN pool \subseteq DOMAIN pool' /\ n \in DOMAIN pool'
    BY <1>1, <1>3
  <2>3. CASE s \in DOMAIN string_map
    BY <1>1, <1>2, <1>4, <2>1, <2>2, <2>3
  <2>4. CASE s \notin DOMAIN string_map
    BY <1>1, <1>2, <1>4, <2>1, <2>2, <2>4
  <2> QED
    BY <2>3, <2>4
<1>6. ASSUME NEW k \in DOMAIN pool'
      PROVE  pool'[string_map'[pool'[k]]] = pool'[k] /\ string_map'[pool'[k]] <= k
  <2>1. CASE k \in 1..Len(pool)
    <3>1. pool[k] \in DOMAIN string_map /\ string_map[pool[k]] \in 1..Len(pool)
      BY <1>1, <2>1
    <3>2. string_map'[pool[k]] = string_map[pool[k]]
      BY <1>2, <3>1
    <3> QED
      BY <1>1, <1>3, <2>1, <3>1, <3>2
  <2>2. CASE k = n /\ s \in DOMAIN string_map
    <3>1. PICK j \in 1..Len(pool) : pool[j] = s
      BY <1>1, <2>2
    <3>2. string_map[s] \in 1..Len(pool) /\ pool[string_map[s]] = s
      BY <1>1, <3>1
    <3> QED
      BY <1>1, <1>2, <1>3, <2>2, <3>2
  <2>3. CASE k = n /\ s \notin DOMAIN string_map
    <3>1. string_map'[s] = n
      BY <1>2, <2>3
    <3> QED
      BY <1>1, <1>3, <2>3, <3>1
  <2> QED
    BY <1>1, <1>3, <2>1, <2>2, <2>3
<1>7. More(pool, pool')
  BY <1>1, <1>3 DEF More
<1> QED
  BY <1>2, <1>3, <1>5, <1>6, <1>7 DEF PoolInv

\* The identifier of a text that is added leads to it.
LEMMA AddKeepsPool ==
  ASSUME PoolInv, NEW s \in Texts, AddToPool(s)
  PROVE  /\ PoolInv' /\ More(pool, pool')
         /\ IdOf(s) \in {EmptyId} \cup DOMAIN pool'
         /\ s = IF IdOf(s) = EmptyId THEN NoText ELSE pool'[IdOf(s)]
<1>1. CASE s = NoText
  <2>1. UNCHANGED << pool, string_map >> /\ IdOf(s) = EmptyId
    BY <1>1 DEF AddToPool, IdOf
  <2> QED
    BY <1>1, <2>1 DEF PoolInv, More
<1>2. CASE s # NoText /\ s \in DOMAIN string_map
  <2>1. UNCHANGED << pool, string_map >> /\ IdOf(s) = string_map[s]
    BY <1>2 DEF AddToPool, IdOf
  <2>2. PICK k \in DOMAIN pool : pool[k] = s
    BY <1>2 DEF PoolInv
  <2>3. string_map[s] \in DOMAIN pool /\ pool[string_map[s]] = s
    BY <2>2 DEF PoolInv
  <2>4. string_map[s] # EmptyId
    BY <2>3 DEF PoolInv, EmptyId
  <2> QED
    BY <2>1, <2>3, <2>4 DEF PoolInv, More
<1>3. CASE s # NoText /\ s \notin DOMAIN string_map
  <2>1. AppendToPool(s) /\ IdOf(s) = Len(pool) + 1
    BY <1>3 DEF AddToPool, IdOf
  <2>2. PoolInv' /\ More(pool, pool') /\ pool' = Append(pool, s)
    BY <2>1, AppendKeepsPool
  <2>3. pool \in Seq(Texts)
    BY DEF PoolInv
  <2>4. Len(pool) + 1 \in DOMAIN pool' /\ pool'[Len(pool) + 1] = s /\ Len(pool) + 1 # EmptyId
    BY <2>2, <2>3 DEF EmptyId
  <2> QED
    BY <2>1, <2>2, <2>4
<1> QED
  BY <1>1, <1>2, <1>3

-----------------------------------------------------------------------------
(***************************************************************************)
(* Cells that are set one by one, or filled down.                          *)
(***************************************************************************)

\* Statuses and texts that are there stay what they are.
Extended ==
  /\ size' = size
  /\ AreStatuses(statuses')
  /\ More(statuses, statuses') /\ More(pool, pool')

\* Cells and values that may be put there together.
ArePut(cells, values, st, pl) ==
  /\ DOMAIN values = DOMAIN cells
  /\ \A k \in DOMAIN cells :
       /\ cells[k] \in StoredCells /\ values[k] \in Values
       /\ Shows(cells[k], values[k], st, pl)
       /\ cells[k].type # "formula" \/ cells[k].row = Ungrouped

LEMMA PutIsContents ==
  ASSUME NEW sz, IsASize(sz), NEW sh, NEW sw, NEW st, NEW pl, IsContents(sz, sh, sw, st, pl),
         NEW a, a.sheet \in Nat, a.row \in Nat, a.column \in Nat,
         NEW s \in DOMAIN sh, NEW c \in 1..sz.columns,
         NEW row \in Nat, NEW cells, NEW values,
         NEW st2, AreStatuses(st2), More(st, st2),
         NEW pl2, More(pl, pl2),
         ArePut(cells, values, st2, pl2)
  PROVE  IsContents(sz, With(sh, s, c, row, cells),
                       With(sw, s, c, row, values), st2, pl2)
<1> DEFINE sh2 == With(sh, s, c, row, cells)
           sw2 == With(sw, s, c, row, values)
<1>1. /\ sh \in Seq(Grids(sz, StoredCells)) /\ sw \in Seq(Grids(sz, Values)) /\ Len(sw) = Len(sh)
  BY DEF IsContents
<1>2. DOMAIN sw = DOMAIN sh
  BY <1>1
<1>3. IsWith(sh2, sz, StoredCells, sh, s, c, row, cells)
  <2>1. AllIn(cells, StoredCells)
    BY DEF AllIn, ArePut
  <2> QED
    BY <1>1, <2>1, WithFacts
<1>4. IsWith(sw2, sz, Values, sw, s, c, row, values)
  <2>1. AllIn(values, Values)
    BY DEF AllIn, ArePut
  <2> QED
    BY <1>1, <1>2, <2>1, WithFacts
<1> HIDE DEF sh2, sw2
<1>5. ASSUME NEW t \in DOMAIN sh, NEW d \in 1..sz.columns, NEW q \in 1..sz.rows
      PROVE  \/ sh2[t][d][q] = sh[t][d][q] /\ sw2[t][d][q] = sw[t][d][q]
             \/ Shows(sh2[t][d][q], sw2[t][d][q], st2, pl2) /\ IsNew(sh2[t][d][q], t, d, q, a, st)
  <2>1. CASE t = s /\ d = c /\ q - row \in DOMAIN cells
    <3>1. sh2[t][d][q] = cells[q - row]
      BY <1>3, <2>1 DEF IsWith
    <3>2. sw2[t][d][q] = values[q - row]
      BY <1>2, <1>4, <2>1 DEF IsWith, ArePut
    <3>3. /\ Shows(cells[q - row], values[q - row], st2, pl2)
          /\ cells[q - row].type # "formula" \/ cells[q - row].row = Ungrouped
      BY <2>1 DEF ArePut
    <3>4. IsNew(cells[q - row], t, d, q, a, st)
      BY <3>3 DEF IsNew
    <3> QED
      BY <3>1, <3>2, <3>3, <3>4
  <2>2. CASE ~(t = s /\ d = c /\ q - row \in DOMAIN cells)
    BY <1>2, <1>3, <1>4, <2>2 DEF IsWith, ArePut
  <2> QED
    BY <2>1, <2>2
<1>6. IsContents(sz, sh2, sw2, st2, pl2)
  <2>1. Replaced(sz, sh, sw, st, a, sh2, sw2, st2, pl2)
    BY <1>5 DEF Replaced
  <2>2. sh2 \in Seq(Grids(sz, StoredCells)) /\ sw2 \in Seq(Grids(sz, Values))
        /\ Len(sh2) = Len(sh) /\ Len(sw2) = Len(sh)
    BY <1>1, <1>3, <1>4 DEF IsWith
  <2> QED
    BY <2>1, <2>2, CellsPut
<1> QED
  BY <1>6 DEF sh2, sw2

LEMMA PutKeepsContents ==
  ASSUME ContentsInv, Extended, NEW a \in AllAddresses, NEW row \in Nat,
         NEW cells, NEW values,
         ArePut(cells, values, statuses', pool'),
         sheets' = With(sheets, a.sheet + 1, a.column + 1, row, cells),
         shown' = With(shown, a.sheet + 1, a.column + 1, row, values)
  PROVE  ContentsInv' /\ Len(sheets') = Len(sheets)
<1>1. size \in Sizes /\ IsContents(size, sheets, shown, statuses, pool)
  BY DEF ContentsInv
<1>2. IsASize(size)
  BY <1>1, SizeFacts
<1>3. sheets \in Seq(Grids(size, StoredCells))
  BY <1>1 DEF IsContents
<1>4. /\ a.sheet \in Nat /\ a.column \in Nat /\ a.row \in Nat
      /\ a.sheet + 1 \in DOMAIN sheets /\ a.column + 1 \in 1..size.columns
  BY <1>2, <1>3, AddressFacts
<1>5. AreStatuses(statuses') /\ More(statuses, statuses') /\ More(pool, pool') /\ size' = size
  BY DEF Extended
<1>6. IsContents(size, sheets', shown', statuses', pool')
  BY <1>1, <1>2, <1>4, <1>5, PutIsContents
<1>7. Len(sheets') = Len(sheets)
  <2>1. AllIn(cells, StoredCells)
    BY DEF AllIn, ArePut
  <2>2. IsWith(sheets', size, StoredCells, sheets, a.sheet + 1, a.column + 1, row, cells)
    BY <1>2, <1>3, <1>4, <2>1, WithFacts
  <2> QED
    BY <2>2 DEF IsWith
<1> QED
  BY <1>1, <1>5, <1>6, <1>7 DEF ContentsInv

\* What a call needs in order to keep the invariant when it puts cells.
LEMMA PutKeepsModel ==
  ASSUME ModelInv, NEW a \in AllAddresses, Call, OtherwiseUnchanged,
         PoolInv', More(pool, pool'), AreStatuses(statuses'), More(statuses, statuses'),
         NEW row \in Nat, NEW cells, NEW values, ArePut(cells, values, statuses', pool'),
         sheets' = With(sheets, a.sheet + 1, a.column + 1, row, cells),
         shown' = With(shown, a.sheet + 1, a.column + 1, row, values)
  PROVE  ModelInv'
<1>1. Extended
  BY DEF Extended, OtherwiseUnchanged
<1>2. ContentsInv' /\ Len(sheets') = Len(sheets)
  BY <1>1, PutKeepsContents DEF ModelInv
<1>3. NamesInv' /\ ExpressionsInv'
  BY <1>2 DEF ModelInv, NamesInv, ExpressionsInv, OtherwiseUnchanged, NamesIn
<1>4. calls' \in Nat
  BY DEF ModelInv, Call
<1> QED
  BY <1>2, <1>3, <1>4 DEF ModelInv

\* One cell is put at an address.
LEMMA OnePutKeepsModel ==
  ASSUME ModelInv, NEW a \in AllAddresses, Call, OtherwiseUnchanged,
         PoolInv', More(pool, pool'), AreStatuses(statuses'), More(statuses, statuses'),
         NEW cell \in StoredCells, NEW v \in Values, Put(a, << cell >>, << v >>),
         Shows(cell, v, statuses', pool'), cell.type # "formula" \/ cell.row = Ungrouped
  PROVE  ModelInv'
<1>1. ArePut(<< cell >>, << v >>, statuses', pool')
  BY DEF ArePut
<1>2. a.row \in Nat
  <2>1. IsASize(size) /\ sheets \in Seq(Grids(size, StoredCells))
    BY SizeFacts DEF ModelInv, ContentsInv, IsContents
  <2> QED
    BY <2>1, AddressFacts
<1>3. /\ sheets' = With(sheets, a.sheet + 1, a.column + 1, a.row, << cell >>)
      /\ shown' = With(shown, a.sheet + 1, a.column + 1, a.row, << v >>)
  BY DEF Put
<1> QED
  BY <1>1, <1>2, <1>3, PutKeepsModel

\* Nothing is new where calc_status or pool are left alone.
LEMMA StatusesKept ==
  ASSUME ModelInv, UNCHANGED statuses
  PROVE  AreStatuses(statuses') /\ More(statuses, statuses')
BY DEF ModelInv, ContentsInv, IsContents, AreStatuses, More

LEMMA PoolKept ==
  ASSUME ModelInv, NoNewString
  PROVE  PoolInv' /\ More(pool, pool') /\ pool' = pool
BY DEF ModelInv, PoolInv, NoNewString, More

LEMMA EmptyCellKeepsModel ==
  ASSUME ModelInv, NEW a \in AllAddresses, EmptyCell(a)
  PROVE  ModelInv'
<1>1. /\ Call /\ OtherwiseUnchanged /\ NoNewString /\ UNCHANGED statuses
      /\ Put(a, << Nothing >>, << Nothing >>)
  BY DEF EmptyCell
<1>2. /\ Nothing \in StoredCells /\ Nothing \in Values
      /\ Nothing.type # "formula" /\ Nothing.type # "string"
  BY DEF StoredCells, Values, Nothing
<1>3. Shows(Nothing, Nothing, statuses', pool')
  BY <1>2, Zenon DEF Shows
<1> QED
  BY <1>1, <1>2, <1>3, StatusesKept, PoolKept, OnePutKeepsModel

LEMMA SetNumericCellKeepsModel ==
  ASSUME ModelInv, NEW a \in AllAddresses, NEW n \in Numbers, SetNumericCell(a, n)
  PROVE  ModelInv'
<1>1. /\ Call /\ OtherwiseUnchanged /\ NoNewString /\ UNCHANGED statuses
      /\ Put(a, << Number(n) >>, << Number(n) >>)
  BY DEF SetNumericCell
<1>2. n \in Int
  BY ModelAssumption
<1>3. /\ Number(n) \in StoredCells /\ Number(n) \in Values
      /\ Number(n).type # "formula" /\ Number(n).type # "string"
  BY <1>2 DEF StoredCells, Values, Number
<1>4. Shows(Number(n), Number(n), statuses', pool')
  BY <1>3, Zenon DEF Shows
<1> QED
  BY <1>1, <1>3, <1>4, StatusesKept, PoolKept, OnePutKeepsModel

LEMMA SetBooleanCellKeepsModel ==
  ASSUME ModelInv, NEW a \in AllAddresses, NEW b \in BOOLEAN, SetBooleanCell(a, b)
  PROVE  ModelInv'
<1>1. /\ Call /\ OtherwiseUnchanged /\ NoNewString /\ UNCHANGED statuses
      /\ Put(a, << Boolean(b) >>, << Boolean(b) >>)
  BY DEF SetBooleanCell
<1>2. /\ Boolean(b) \in StoredCells /\ Boolean(b) \in Values
      /\ Boolean(b).type # "formula" /\ Boolean(b).type # "string"
  BY DEF StoredCells, Values, Boolean
<1>3. Shows(Boolean(b), Boolean(b), statuses', pool')
  BY <1>2, Zenon DEF Shows
<1> QED
  BY <1>1, <1>2, <1>3, StatusesKept, PoolKept, OnePutKeepsModel

\* A cell of a string type shows the text of its identifier.
LEMMA StringCellShows ==
  ASSUME NEW id, NEW t \in Texts, NEW st, NEW pl, pl \in Seq(Texts), id \in {EmptyId} \cup DOMAIN pl,
         t = IF id = EmptyId THEN NoText ELSE pl[id]
  PROVE  /\ StringCell(id) \in StoredCells /\ Text(t) \in Values
         /\ StringCell(id).type = "string"
         /\ Shows(StringCell(id), Text(t), st, pl)
<1>1. /\ StringCell(id) \in StoredCells /\ Text(t) \in Values
      /\ StringCell(id).type = "string" /\ StringCell(id).id = id
  BY DEF StoredCells, Values, StringCell, Text, EmptyId
<1> QED
  BY <1>1 DEF Shows

LEMMA SetStringCellKeepsModel ==
  ASSUME ModelInv, NEW a \in AllAddresses, NEW s \in Texts, SetStringCell(a, s)
  PROVE  ModelInv'
<1>1. /\ Call /\ OtherwiseUnchanged /\ UNCHANGED statuses /\ AddToPool(s)
      /\ Put(a, << StringCell(IdOf(s)) >>, << Text(s) >>)
  BY DEF SetStringCell
<1>2. /\ PoolInv' /\ More(pool, pool')
      /\ IdOf(s) \in {EmptyId} \cup DOMAIN pool'
      /\ s = IF IdOf(s) = EmptyId THEN NoText ELSE pool'[IdOf(s)]
  BY <1>1, AddKeepsPool DEF ModelInv
<1>3. pool' \in Seq(Texts)
  BY <1>2 DEF PoolInv
<1>4. /\ StringCell(IdOf(s)) \in StoredCells /\ Text(s) \in Values
      /\ StringCell(IdOf(s)).type = "string"
      /\ Shows(StringCell(IdOf(s)), Text(s), statuses', pool')
  BY <1>2, <1>3, StringCellShows
<1> QED
  BY <1>1, <1>2, <1>4, StatusesKept, OnePutKeepsModel

LEMMA SetStringCellByIdKeepsModel ==
  ASSUME ModelInv, NEW a \in AllAddresses, NEW id \in {EmptyId} \cup DOMAIN pool,
         SetStringCellById(a, id)
  PROVE  ModelInv'
<1>1. /\ Call /\ OtherwiseUnchanged /\ NoNewString /\ UNCHANGED statuses
      /\ Put(a, << StringCell(id) >>, << Text(PoolString(id)) >>)
  BY DEF SetStringCellById
<1>2. pool \in Seq(Texts) /\ EmptyId \notin DOMAIN pool
  BY DEF ModelInv, PoolInv, EmptyId
<1>3. /\ PoolString(id) = IF id = EmptyId THEN NoText ELSE pool[id]
      /\ PoolString(id) \in Texts
  BY <1>2, ContextAssumption DEF PoolString
<1>4. /\ StringCell(id) \in StoredCells /\ Text(PoolString(id)) \in Values
      /\ StringCell(id).type = "string"
      /\ Shows(StringCell(id), Text(PoolString(id)), statuses', pool)
  BY <1>2, <1>3, StringCellShows
<1>5. pool' = pool
  BY <1>1, PoolKept
<1> QED
  BY <1>1, <1>4, <1>5, StatusesKept, PoolKept, OnePutKeepsModel

\* A cell at an address, and what it shows.
LEMMA CellFacts ==
  ASSUME ContentsInv, NEW a \in AllAddresses
  PROVE  /\ Cell(a) \in StoredCells
         /\ shown[a.sheet + 1][a.column + 1][a.row + 1] \in Values
         /\ Shows(Cell(a), shown[a.sheet + 1][a.column + 1][a.row + 1], statuses, pool)
         /\ \A t \in DOMAIN sheets, d \in 1..size.columns, q \in 1..size.rows :
              SameElement(Cell(a), sheets[t][d][q])
                => t = a.sheet + 1 /\ d = a.column + 1 /\ q = a.row + 1
<1>1. IsASize(size) /\ IsContents(size, sheets, shown, statuses, pool)
  BY SizeFacts DEF ContentsInv
<1>2. sheets \in Seq(Grids(size, StoredCells)) /\ shown \in Seq(Grids(size, Values))
      /\ DOMAIN shown = DOMAIN sheets
  BY <1>1 DEF IsContents
<1>3. PICK s, c, r : s = a.sheet + 1 /\ c = a.column + 1 /\ r = a.row + 1
  OBVIOUS
<1>4. s \in DOMAIN sheets /\ c \in 1..size.columns /\ r \in 1..size.rows
  BY <1>1, <1>2, <1>3, AddressFacts
<1>5. sheets[s][c][r] \in StoredCells
  BY <1>1, <1>2, <1>4, GridFacts
<1>6. shown[s][c][r] \in Values
  BY <1>1, <1>2, <1>4, GridFacts
<1>7. /\ Shows(sheets[s][c][r], shown[s][c][r], statuses, pool)
      /\ \A t \in DOMAIN sheets, d \in 1..size.columns, q \in 1..size.rows :
           SameElement(sheets[s][c][r], sheets[t][d][q]) => t = s /\ d = c /\ q = r
  <2>1. \A t \in DOMAIN sheets, d \in 1..size.columns, q \in 1..size.rows :
          SameElement(sheets[s][c][r], sheets[t][d][q]) => s = t /\ c = d /\ r = q
    BY <1>1, <1>4 DEF IsContents
  <2>2. Shows(sheets[s][c][r], shown[s][c][r], statuses, pool)
    BY <1>1, <1>4, Zenon DEF IsContents
  <2> QED
    BY <2>1, <2>2
<1>8. Cell(a) = sheets[s][c][r]
  BY <1>3 DEF Cell
<1> QED
  BY <1>3, <1>5, <1>6, <1>7, <1>8

LEMMA FillDownCellsKeepsModel ==
  ASSUME ModelInv, NEW a \in AllAddresses, NEW n \in Nat, FillDownCells(a, n)
  PROVE  ModelInv'
<1>1. Call /\ OtherwiseUnchanged /\ NoNewString /\ UNCHANGED statuses
  BY DEF FillDownCells
<1>2. CASE UNCHANGED << sheets, shown >>
  BY <1>1, <1>2 DEF ModelInv, ContentsInv, NamesInv, PoolInv, ExpressionsInv, Call,
                    OtherwiseUnchanged, NoNewString, NamesIn
<1>3. CASE /\ Cell(a).type # "formula"
           /\ Put([a EXCEPT !.row = @ + 1], [k \in 1..n |-> Cell(a)],
                  [k \in 1..n |-> shown[a.sheet + 1][a.column + 1][a.row + 1]])
  <2> DEFINE cell == Cell(a)
             v == shown[a.sheet + 1][a.column + 1][a.row + 1]
             b == [a EXCEPT !.row = @ + 1]
  <2>1. IsASize(size) /\ sheets \in Seq(Grids(size, StoredCells))
    BY SizeFacts DEF ModelInv, ContentsInv, IsContents
  <2>2. a.row \in Nat /\ a = [sheet |-> a.sheet, column |-> a.column, row |-> a.row]
    BY <2>1, AddressFacts
  <2>3. b.sheet = a.sheet /\ b.column = a.column /\ b.row = a.row + 1 /\ b.row \in Nat
    BY <2>2
  <2>4. cell \in StoredCells /\ v \in Values /\ Shows(cell, v, statuses', pool')
    <3>1. cell \in StoredCells /\ v \in Values /\ Shows(cell, v, statuses, pool)
      BY CellFacts DEF ModelInv
    <3>2. More(statuses, statuses') /\ More(pool, pool')
      BY <1>1, StatusesKept, PoolKept
    <3> QED
      BY <3>1, <3>2, ShowsMore
  <2>5. /\ sheets' = With(sheets, a.sheet + 1, a.column + 1, a.row + 1, [k \in 1..n |-> cell])
        /\ shown' = With(shown, a.sheet + 1, a.column + 1, a.row + 1, [k \in 1..n |-> v])
    BY <1>3, <2>3 DEF Put
  <2> HIDE DEF cell, v, b
  <2>6. ArePut([k \in 1..n |-> cell], [k \in 1..n |-> v], statuses', pool')
    BY <1>3, <2>4 DEF ArePut, cell
  <2>7. PICK row \in Nat : row = a.row + 1
    BY <2>2
  <2>8. /\ sheets' = With(sheets, a.sheet + 1, a.column + 1, row, [k \in 1..n |-> cell])
        /\ shown' = With(shown, a.sheet + 1, a.column + 1, row, [k \in 1..n |-> v])
    BY <2>5, <2>7
  <2>9. /\ PoolInv' /\ More(pool, pool')
        /\ AreStatuses(statuses') /\ More(statuses, statuses')
    BY <1>1, StatusesKept, PoolKept
  <2> QED
    BY <1>1, <2>6, <2>8, <2>9, PutKeepsModel
<1> QED
  BY <1>2, <1>3 DEF FillDownCells

-----------------------------------------------------------------------------
(***************************************************************************)
(* Formula cells.                                                          *)
(***************************************************************************)

\* A calc_status that is new.
LEMMA StatusAppended ==
  ASSUME ModelInv, NEW rows \in Nat, NEW columns \in Nat, NEW v,
         v \in PlainResults \cup {NoResult} \/ IsMatrix(v), NewStatus(rows, columns, v)
  PROVE  /\ AreStatuses(statuses') /\ More(statuses, statuses')
         /\ Len(statuses) \in Nat /\ Len(statuses) + 1 \in DOMAIN statuses'
         /\ statuses'[Len(statuses) + 1] = [rows |-> rows, columns |-> columns, result |-> v]
<1> DEFINE status == [rows |-> rows, columns |-> columns, result |-> v]
<1>1. Len(statuses) \in Nat /\ DOMAIN statuses = 1..Len(statuses)
      /\ \A k \in DOMAIN statuses : IsStatus(statuses[k])
  BY DEF ModelInv, ContentsInv, IsContents
<1>2. IsStatus(status)
  BY DEF IsStatus
<1>3. statuses' = Append(statuses, status)
  BY DEF NewStatus
<1> HIDE DEF status
<1>4. /\ Len(statuses') = Len(statuses) + 1 /\ DOMAIN statuses' = 1..(Len(statuses) + 1)
      /\ statuses'[Len(statuses) + 1] = status
      /\ \A k \in 1..Len(statuses) : statuses'[k] = statuses[k]
  BY <1>1, <1>3
<1>5. \A k \in DOMAIN statuses' : IsStatus(statuses'[k])
  BY <1>1, <1>2, <1>4
<1> QED
  BY <1>1, <1>4, <1>5 DEF AreStatuses, More, status

\* What is put into a cell is no matrix.
LEMMA NoMatrices == \A v \in Values : v.type # "matrix"
BY DEF Values, Error, Nothing, NoResult

LEMMA SetFormulaCellKeepsModel ==
  ASSUME ModelInv, NEW a \in AllAddresses, NEW v \in {NoResult} \cup CellResults,
         SetFormulaCell(a, v)
  PROVE  ModelInv'
<1>1. /\ Call /\ OtherwiseUnchanged /\ NoNewString /\ NewStatus(0, 0, v)
      /\ Put(a, << FormulaCell(Len(statuses) + 1, Ungrouped, Ungrouped) >>, << v >>)
  BY DEF SetFormulaCell
<1>2. v \in PlainResults \cup {NoResult} /\ v \in Values
  BY ModelAssumption DEF PlainResults, Values
<1>3. PICK k : k = Len(statuses) + 1
  OBVIOUS
<1>4. /\ AreStatuses(statuses') /\ More(statuses, statuses')
      /\ k \in Nat \ {0} /\ k \in DOMAIN statuses'
      /\ statuses'[k] = [rows |-> 0, columns |-> 0, result |-> v]
  BY <1>1, <1>2, <1>3, StatusAppended
<1>5. PICK cell : cell = FormulaCell(k, Ungrouped, Ungrouped)
  OBVIOUS
<1>6. /\ cell \in StoredCells /\ cell.type = "formula" /\ cell.status = k /\ cell.row = Ungrouped
  BY <1>4, <1>5 DEF StoredCells, FormulaCell
<1>7. ShowsResult(cell, v, statuses'[k])
  BY <1>2, <1>4, <1>6, NoMatrices DEF ShowsResult
<1>8. Shows(cell, v, statuses', pool')
  BY <1>4, <1>6, <1>7, Zenon DEF Shows
<1> QED
  BY <1>1, <1>2, <1>3, <1>4, <1>5, <1>6, <1>8, PoolKept, OnePutKeepsModel

\* The cells at the positions of a group.
IsGroup(new, sz, X, sh, a, cells) ==
  /\ new \in Seq(Grids(sz, X)) /\ Len(new) = Len(sh)
  /\ \A t \in DOMAIN sh, d \in 1..sz.columns, q \in 1..sz.rows :
       new[t][d][q] = IF t = a.sheet + 1 /\ << q - 1 - a.row, d - 1 - a.column >> \in DOMAIN cells
                      THEN cells[<< q - 1 - a.row, d - 1 - a.column >>] ELSE sh[t][d][q]

LEMMA GroupFacts ==
  ASSUME NEW sz, IsASize(sz), NEW X, NEW sh \in Seq(Grids(sz, X)),
         NEW a, a.sheet + 1 \in DOMAIN sh, NEW cells, AllIn(cells, X)
  PROVE  IsGroup(SetGroup(sh, a, cells), sz, X, sh, a, cells)
<1> DEFINE s == a.sheet + 1
           p(r, c) == << r - 1 - a.row, c - 1 - a.column >>
           sheet == [c \in DOMAIN sh[s] |-> [r \in DOMAIN sh[s][c] |->
                       IF p(r, c) \in DOMAIN cells THEN cells[p(r, c)] ELSE sh[s][c][r]]]
           all == [sh EXCEPT ![s] = sheet]
<1>1. /\ DOMAIN sh[s] = 1..sz.columns /\ Len(sh) \in Nat /\ DOMAIN sh = 1..Len(sh)
      /\ \A c \in 1..sz.columns :
           DOMAIN sh[s][c] = 1..sz.rows /\ \A r \in 1..sz.rows : sh[s][c][r] \in X
  BY GridFacts
<1>2. SetGroup(sh, a, cells) = all
  BY DEF SetGroup
<1>3. sheet = [c \in 1..sz.columns |-> [r \in 1..sz.rows |->
                 IF p(r, c) \in DOMAIN cells THEN cells[p(r, c)] ELSE sh[s][c][r]]]
  BY <1>1
<1>4. \A c \in 1..sz.columns : \A r \in 1..sz.rows :
        (IF p(r, c) \in DOMAIN cells THEN cells[p(r, c)] ELSE sh[s][c][r]) \in X
  BY <1>1 DEF AllIn
<1>5. \A d \in 1..sz.columns, q \in 1..sz.rows :
        sheet[d][q] = IF p(q, d) \in DOMAIN cells THEN cells[p(q, d)] ELSE sh[s][d][q]
  <2> SUFFICES ASSUME NEW d \in 1..sz.columns, NEW q \in 1..sz.rows
               PROVE  sheet[d][q] = IF p(q, d) \in DOMAIN cells THEN cells[p(q, d)] ELSE sh[s][d][q]
    OBVIOUS
  <2>1. sheet[d] = [r \in 1..sz.rows |->
                      IF p(r, d) \in DOMAIN cells THEN cells[p(r, d)] ELSE sh[s][d][r]]
    BY <1>3
  <2> HIDE DEF p, sheet
  <2> QED
    BY <2>1
<1>6. sheet \in Grids(sz, X)
  BY <1>3, <1>4 DEF Grids
<1> HIDE DEF sheet
<1>7. all \in Seq(Grids(sz, X)) /\ Len(all) = Len(sh)
  BY <1>6
<1>8. all[s] = sheet /\ \A t \in DOMAIN sh \ {s} : all[t] = sh[t]
  OBVIOUS
<1> HIDE DEF all
<1>9. ASSUME NEW t \in DOMAIN sh, NEW d \in 1..sz.columns, NEW q \in 1..sz.rows
      PROVE  all[t][d][q] = IF t = s /\ p(q, d) \in DOMAIN cells THEN cells[p(q, d)] ELSE sh[t][d][q]
  BY <1>5, <1>8
<1> QED
  BY <1>2, <1>7, <1>9 DEF IsGroup

\* An element of a matrix, and what is shown of it.
LEMMA ElementFacts ==
  ASSUME NEW v, IsMatrix(v), NEW r \in 0..(Len(v.rows) - 1), NEW c \in 0..(Len(v.rows[1]) - 1)
  PROVE  Element(v, r, c) \in Values \ {NoResult} /\ Kept(Element(v, r, c)) \in Values \ {NoResult}
<1>1. /\ Len(v.rows) \in Nat /\ Len(v.rows[1]) \in Nat
      /\ v.rows \in [1..Len(v.rows) -> [1..Len(v.rows[1]) -> Values \ {NoResult}]]
  BY DEF IsMatrix
<1>2. r + 1 \in 1..Len(v.rows) /\ c + 1 \in 1..Len(v.rows[1])
  BY <1>1
<1>3. v.rows[r + 1][c + 1] \in Values \ {NoResult}
  BY <1>1, <1>2
<1>4. Element(v, r, c) \in Values \ {NoResult}
  BY <1>3 DEF Element
<1>5. Number(0) \in Values \ {NoResult}
  BY DEF Values, Number, NoResult
<1> QED
  BY <1>4, <1>5 DEF Kept

\* A cell of a new group shows its element.
LEMMA GroupCellShows ==
  ASSUME NEW k \in Nat \ {0}, NEW rows \in Nat, NEW columns \in Nat, NEW v,
         v = NoResult \/ (IsMatrix(v) /\ Shape(v) = << rows, columns >>),
         NEW r \in 0..(rows - 1), NEW c \in 0..(columns - 1), NEW cell, cell = FormulaCell(k, r, c),
         NEW w, w = IF v = NoResult THEN NoResult ELSE Kept(Element(v, r, c)),
         NEW status, status = [rows |-> rows, columns |-> columns, result |-> v]
  PROVE  /\ cell \in StoredCells /\ w \in Values
         /\ cell.type = "formula" /\ cell.status = k /\ cell.row = r /\ cell.column = c
         /\ ShowsResult(cell, w, status)
<1>1. /\ cell \in StoredCells /\ cell.type = "formula" /\ cell.status = k
      /\ cell.row = r /\ cell.column = c
  BY DEF FormulaCell, StoredCells
<1>2. cell.row # Ungrouped
  BY <1>1 DEF Ungrouped
<1>3. status.rows = rows /\ status.columns = columns /\ status.result = v
  OBVIOUS
<1>4. CASE v = NoResult
  <2>1. NoResult.type # "matrix" /\ NoResult \in Values
    BY DEF NoResult, Values
  <2>2. w = status.result /\ status.result.type # "matrix"
    BY <1>3, <1>4, <2>1
  <2> QED
    BY <1>1, <1>2, <1>3, <1>4, <2>1, <2>2 DEF ShowsResult
<1>5. CASE v # NoResult
  <2>1. IsMatrix(v) /\ Len(v.rows) = rows /\ Len(v.rows[1]) = columns
    BY <1>5 DEF Shape
  <2>2. w = Kept(Element(v, r, c)) /\ w \in Values
    BY <1>5, <2>1, ElementFacts
  <2>3. v.type = "matrix"
    BY <2>1 DEF IsMatrix
  <2>4. InMatrix(cell, v.rows)
    BY <1>1, <2>1 DEF InMatrix
  <2> QED
    BY <1>1, <1>2, <1>3, <2>2, <2>3, <2>4 DEF ShowsResult
<1> QED
  BY <1>4, <1>5

LEMMA SetGroupedFormulaCellsKeepsModel ==
  ASSUME ModelInv, NEW a \in AllAddresses, NEW g \in Groups, NEW v \in {NoResult} \cup GroupResults,
         SetGroupedFormulaCells(a, g.rows, g.columns, v)
  PROVE  ModelInv'
<1>1. Call /\ OtherwiseUnchanged /\ NoNewString
  BY DEF SetGroupedFormulaCells
<1>2. PICK rows \in Nat, columns \in Nat : rows = g.rows /\ columns = g.columns
  BY ModelAssumption
<1>3. CASE NoCellChanges
  BY <1>1, <1>3 DEF ModelInv, ContentsInv, NamesInv, PoolInv, ExpressionsInv, Call,
                    OtherwiseUnchanged, NoNewString, NamesIn, NoCellChanges
<1>4. CASE ~NoCellChanges
  <2> DEFINE R == Reached(a, rows, columns)
             value(p) == IF v = NoResult THEN NoResult ELSE Kept(Element(v, p[1], p[2]))
  <2>1. PICK k : k = Len(statuses) + 1
    OBVIOUS
  <2>2. PICK cells : cells = [p \in R |-> FormulaCell(k, p[1], p[2])]
    OBVIOUS
  <2>3. PICK values : values = [p \in R |-> value(p)]
    OBVIOUS
  <2>4. /\ v = NoResult \/ (v.type = "matrix" /\ Shape(v) = << rows, columns >>)
        /\ NewStatus(rows, columns, v)
        /\ sheets' = SetGroup(sheets, a, cells)
        /\ shown' = SetGroup(shown, a, values)
    BY <1>2, <1>4, <2>1, <2>2, <2>3 DEF SetGroupedFormulaCells
  <2>5. v = NoResult \/ (IsMatrix(v) /\ Shape(v) = << rows, columns >>)
    BY <2>4, ModelAssumption, NoMatrices DEF PlainResults
  <2>6. /\ AreStatuses(statuses') /\ More(statuses, statuses')
        /\ k \in Nat \ {0} /\ k \in DOMAIN statuses'
        /\ statuses'[k] = [rows |-> rows, columns |-> columns, result |-> v]
    BY <2>1, <2>4, <2>5, StatusAppended
  <2>7. R \subseteq (0..(rows - 1)) \X (0..(columns - 1))
    BY DEF Reached
  <2> HIDE DEF R
  <2>8. ASSUME NEW p \in R
        PROVE  /\ cells[p] \in StoredCells /\ values[p] \in Values
               /\ cells[p].type = "formula" /\ cells[p].status = k
               /\ cells[p].row = p[1] /\ cells[p].column = p[2]
               /\ ShowsResult(cells[p], values[p], statuses'[k])
    <3>1. PICK r \in 0..(rows - 1), c \in 0..(columns - 1) : p = << r, c >>
      BY <2>7
    <3>2. /\ cells[p] = FormulaCell(k, r, c)
          /\ values[p] = IF v = NoResult THEN NoResult ELSE Kept(Element(v, r, c))
      BY <2>2, <2>3, <3>1
    <3> QED
      BY <2>5, <2>6, <3>1, <3>2, GroupCellShows
  <2>9. DOMAIN cells = R /\ DOMAIN values = R
    BY <2>2, <2>3
  <2>10. AllIn(cells, StoredCells) /\ AllIn(values, Values)
    BY <2>8, <2>9 DEF AllIn
  <2>11. /\ size \in Sizes /\ IsASize(size) /\ IsContents(size, sheets, shown, statuses, pool)
         /\ sheets \in Seq(Grids(size, StoredCells)) /\ shown \in Seq(Grids(size, Values))
         /\ Len(shown) = Len(sheets) /\ DOMAIN shown = DOMAIN sheets
    <3>1. size \in Sizes /\ IsContents(size, sheets, shown, statuses, pool)
      BY DEF ModelInv, ContentsInv
    <3>2. sheets \in Seq(Grids(size, StoredCells)) /\ shown \in Seq(Grids(size, Values))
          /\ Len(shown) = Len(sheets)
      BY <3>1 DEF IsContents
    <3> QED
      BY <3>1, <3>2, SizeFacts
  <2>12. a.sheet \in Nat /\ a.row \in Nat /\ a.column \in Nat /\ a.sheet + 1 \in DOMAIN sheets
    BY <2>11, AddressFacts
  <2>13. IsGroup(sheets', size, StoredCells, sheets, a, cells)
    BY <2>4, <2>10, <2>11, <2>12, GroupFacts
  <2>14. IsGroup(shown', size, Values, shown, a, values)
    BY <2>4, <2>10, <2>11, <2>12, GroupFacts
  <2>15. Replaced(size, sheets, shown, statuses, a, sheets', shown', statuses', pool')
    <3> SUFFICES ASSUME NEW s \in DOMAIN sheets, NEW c \in 1..size.columns, NEW r \in 1..size.rows
        PROVE  \/ sheets'[s][c][r] = sheets[s][c][r] /\ shown'[s][c][r] = shown[s][c][r]
               \/ /\ Shows(sheets'[s][c][r], shown'[s][c][r], statuses', pool')
                  /\ IsNew(sheets'[s][c][r], s, c, r, a, statuses)
      BY DEF Replaced
    <3> DEFINE p == << r - 1 - a.row, c - 1 - a.column >>
    <3>1. CASE s = a.sheet + 1 /\ p \in R
      <4>1. sheets'[s][c][r] = cells[p] /\ shown'[s][c][r] = values[p]
        BY <2>9, <2>11, <2>13, <2>14, <3>1 DEF IsGroup
      <4>2. p[1] = r - 1 - a.row /\ p[2] = c - 1 - a.column
        OBVIOUS
      <4> HIDE DEF p
      <4>3. IsNew(cells[p], s, c, r, a, statuses)
        BY <2>1, <2>8, <3>1, <4>2 DEF IsNew
      <4>4. Shows(cells[p], values[p], statuses', pool')
        BY <2>6, <2>8, <3>1, Zenon DEF Shows
      <4> QED
        BY <4>1, <4>3, <4>4
    <3>2. CASE ~(s = a.sheet + 1 /\ p \in R)
      BY <2>9, <2>11, <2>13, <2>14, <3>2 DEF IsGroup
    <3> QED
      BY <3>1, <3>2
  <2>16. /\ sheets' \in Seq(Grids(size, StoredCells)) /\ shown' \in Seq(Grids(size, Values))
         /\ Len(sheets') = Len(sheets) /\ Len(shown') = Len(sheets)
    BY <2>11, <2>13, <2>14 DEF IsGroup
  <2>17. PoolInv' /\ More(pool, pool') /\ size' = size
    BY <1>1, PoolKept DEF OtherwiseUnchanged
  <2>18. IsContents(size, sheets', shown', statuses', pool')
    BY <2>6, <2>11, <2>12, <2>15, <2>16, <2>17, CellsPut
  <2>19. ContentsInv'
    BY <2>11, <2>17, <2>18 DEF ContentsInv
  <2>20. NamesInv' /\ ExpressionsInv'
    BY <1>1, <2>16 DEF ModelInv, NamesInv, ExpressionsInv, OtherwiseUnchanged, NamesIn
  <2>21. calls' \in Nat
    BY <1>1 DEF ModelInv, Call
  <2> QED
    BY <2>17, <2>19, <2>20, <2>21 DEF ModelInv
<1> QED
  BY <1>3, <1>4

-----------------------------------------------------------------------------
(***************************************************************************)
(* Results of formula cells.                                               *)
(***************************************************************************)

\* What ContentsInv says of sheets and history.
LEMMA ContentsFacts ==
  ASSUME ContentsInv
  PROVE  /\ size \in Sizes /\ IsASize(size) /\ IsContents(size, sheets, shown, statuses, pool)
         /\ sheets \in Seq(Grids(size, StoredCells)) /\ shown \in Seq(Grids(size, Values))
         /\ Len(shown) = Len(sheets) /\ DOMAIN shown = DOMAIN sheets
         /\ AreStatuses(statuses)
<1>1. size \in Sizes /\ IsContents(size, sheets, shown, statuses, pool)
  BY DEF ContentsInv
<1>2. sheets \in Seq(Grids(size, StoredCells)) /\ shown \in Seq(Grids(size, Values))
      /\ Len(shown) = Len(sheets) /\ AreStatuses(statuses)
  BY <1>1 DEF IsContents, AreStatuses
<1> QED
  BY <1>1, <1>2, SizeFacts

\* Every position in a sheet has an address.
LEMMA PositionFacts ==
  ASSUME ContentsInv, NEW s \in DOMAIN sheets, NEW c \in 1..size.columns, NEW r \in 1..size.rows
  PROVE  \E a \in AllAddresses : Cell(a) = sheets[s][c][r]
<1> DEFINE a == [sheet |-> s - 1, column |-> c - 1, row |-> r - 1]
<1>1. IsASize(size) /\ sheets \in Seq(Grids(size, StoredCells))
  BY ContentsFacts
<1>2. Len(sheets[s]) = size.columns /\ Len(sheets[s][1]) = size.rows /\ s \in Int
  BY <1>1, GridFacts
<1>3. size.columns \in Nat /\ size.rows \in Nat
  BY <1>1 DEF IsASize
<1>4. a \in Addresses(s)
  BY <1>2, <1>3 DEF Addresses
<1>5. a \in AllAddresses
  BY <1>4 DEF AllAddresses
<1>6. a.sheet + 1 = s /\ a.column + 1 = c /\ a.row + 1 = r
  BY <1>2
<1> QED
  BY <1>5, <1>6 DEF Cell

LEMMA SharingFacts ==
  ASSUME ContentsInv, NEW k, NEW s \in DOMAIN sheets, NEW c \in 1..size.columns, NEW r \in 1..size.rows
  PROVE  sheets[s][c][r] \in Sharing(k)
           <=> sheets[s][c][r].type = "formula" /\ sheets[s][c][r].status = k
BY PositionFacts DEF Sharing

\* A cell that shares a calc_status lies somewhere in a sheet.
LEMMA SharersFacts ==
  ASSUME ContentsInv, NEW k, NEW x \in Sharing(k)
  PROVE  /\ x \in StoredCells /\ x.type = "formula" /\ x.status = k /\ k \in DOMAIN statuses
         /\ \E v \in Values : ShowsResult(x, v, statuses[k])
<1>1. PICK a \in AllAddresses : x = Cell(a) /\ x.type = "formula" /\ x.status = k
  BY DEF Sharing
<1>2. PICK v \in Values : Shows(x, v, statuses, pool) /\ x \in StoredCells
  BY <1>1, CellFacts
<1>3. k \in DOMAIN statuses /\ ShowsResult(x, v, statuses[k])
  BY <1>1, <1>2, Zenon DEF Shows
<1> QED
  BY <1>1, <1>2, <1>3

\* A cell that is alone does not share with a group.
LEMMA SharersAreAlike ==
  ASSUME ContentsInv, NEW k, NEW x \in Sharing(k), NEW y \in Sharing(k)
  PROVE  /\ x.row = Ungrouped => y.row = Ungrouped
         /\ x.row # Ungrouped =>
              /\ y.row \in 0..(statuses[k].rows - 1) /\ y.column \in 0..(statuses[k].columns - 1)
              /\ statuses[k].rows \in Nat \ {0} /\ statuses[k].columns \in Nat \ {0}
              /\ y.row # Ungrouped
<1>1. PICK v, w : ShowsResult(x, v, statuses[k]) /\ ShowsResult(y, w, statuses[k])
  BY SharersFacts
<1>2. k \in DOMAIN statuses
  BY SharersFacts
<1>3. statuses[k].rows \in Nat /\ statuses[k].columns \in Nat
  BY <1>2, ContentsFacts DEF AreStatuses, IsStatus
<1>4. CASE x.row = Ungrouped
  BY <1>1, <1>3, <1>4 DEF ShowsResult, Ungrouped
<1>5. CASE x.row # Ungrouped
  BY <1>1, <1>3, <1>5 DEF ShowsResult, Ungrouped
<1> QED
  BY <1>4, <1>5

\* The history after cells of one calc_status show something else.
IsShown(values) ==
  /\ shown' \in Seq(Grids(size, Values)) /\ Len(shown') = Len(sheets)
  /\ \A s \in DOMAIN sheets, c \in 1..size.columns, r \in 1..size.rows :
       shown'[s][c][r] = IF sheets[s][c][r] \in DOMAIN values THEN values[sheets[s][c][r]]
                         ELSE shown[s][c][r]

LEMMA ShowOfFacts ==
  ASSUME ContentsInv, NEW values, AllIn(values, Values), ShowOf(values)
  PROVE  IsShown(values)
<1> DEFINE new(s, c, r) == IF sheets[s][c][r] \in DOMAIN values THEN values[sheets[s][c][r]]
                           ELSE shown[s][c][r]
           grid(s) == [c \in 1..size.columns |-> [r \in 1..size.rows |-> new(s, c, r)]]
<1>1. /\ IsASize(size) /\ sheets \in Seq(Grids(size, StoredCells))
      /\ shown \in Seq(Grids(size, Values)) /\ DOMAIN shown = DOMAIN sheets
  BY ContentsFacts
<1>2. ASSUME NEW s \in DOMAIN sheets
      PROVE  /\ DOMAIN sheets[s] = 1..size.columns
             /\ \A c \in 1..size.columns : DOMAIN sheets[s][c] = 1..size.rows
  BY <1>1, GridFacts
<1>3. ASSUME NEW s \in DOMAIN sheets, NEW c \in 1..size.columns, NEW r \in 1..size.rows
      PROVE  new(s, c, r) \in Values
  <2>1. shown[s][c][r] \in Values
    BY <1>1, GridFacts
  <2> QED
    BY <2>1 DEF AllIn
<1>4. shown' = [s \in DOMAIN sheets |-> [c \in DOMAIN sheets[s] |-> [r \in DOMAIN sheets[s][c] |-> new(s, c, r)]]]
  BY DEF ShowOf
<1>5. Len(sheets) \in Nat /\ DOMAIN sheets = 1..Len(sheets)
  BY <1>1
<1> HIDE DEF new
<1>6. ASSUME NEW s \in DOMAIN sheets
      PROVE  shown'[s] = grid(s) /\ grid(s) \in Grids(size, Values)
  <2>1. shown'[s] = [c \in 1..size.columns |-> [r \in DOMAIN sheets[s][c] |-> new(s, c, r)]]
    BY <1>2, <1>4
  <2>2. shown'[s] = grid(s)
    BY <1>2, <2>1
  <2> QED
    BY <1>3, <2>2 DEF Grids
<1>7. DOMAIN shown' = 1..Len(sheets) /\ shown' = [s \in 1..Len(sheets) |-> shown'[s]]
  BY <1>4, <1>5
<1>8. shown' \in Seq(Grids(size, Values))
  <2>1. shown' \in [1..Len(sheets) -> Grids(size, Values)]
    BY <1>5, <1>6, <1>7, Zenon
  <2> QED
    BY <1>5, <2>1
<1>9. Len(shown') = Len(sheets)
  BY <1>5, <1>7, <1>8
<1>10. ASSUME NEW s \in DOMAIN sheets, NEW c \in 1..size.columns, NEW r \in 1..size.rows
       PROVE  shown'[s][c][r] = new(s, c, r)
  <2>1. shown'[s] = grid(s)
    BY <1>6
  <2>2. shown'[s][c] = [q \in 1..size.rows |-> new(s, c, q)]
    BY <2>1, Zenon
  <2> QED
    BY <2>2, Zenon
<1> QED
  BY <1>8, <1>9, <1>10 DEF IsShown, new

\* A calc_status whose result is another one.
LEMMA StatusPut ==
  ASSUME ContentsInv, NEW k \in DOMAIN statuses, NEW x, x \in PlainResults \/ IsMatrix(x),
         NEW new, new = [statuses EXCEPT ![k].result = x]
  PROVE  /\ new[k] = [rows |-> statuses[k].rows, columns |-> statuses[k].columns, result |-> x]
         /\ IsStatus(new[k])
<1>1. /\ statuses[k] = [rows |-> statuses[k].rows, columns |-> statuses[k].columns,
                        result |-> statuses[k].result]
      /\ statuses[k].rows \in Nat /\ statuses[k].columns \in Nat
  BY ContentsFacts DEF AreStatuses, IsStatus
<1>2. new[k] = [statuses[k] EXCEPT !.result = x]
  BY ContentsFacts DEF AreStatuses
<1>3. new[k] = [rows |-> statuses[k].rows, columns |-> statuses[k].columns, result |-> x]
  BY <1>1, <1>2
<1> QED
  BY <1>1, <1>3 DEF IsStatus

\* What a call needs in order to keep the invariant when it puts a result.
ShowsNew(k, sw, status) == ResultShown(size, sheets, shown, k, sw, status)

LEMMA ResultKeepsModel ==
  ASSUME ModelInv, Call, OtherwiseUnchanged, NoNewString, UNCHANGED sheets,
         NEW k \in DOMAIN statuses, NEW x, x \in PlainResults \/ IsMatrix(x),
         statuses' = [statuses EXCEPT ![k].result = x],
         shown' \in Seq(Grids(size, Values)), Len(shown') = Len(sheets),
         ShowsNew(k, shown', [rows |-> statuses[k].rows, columns |-> statuses[k].columns, result |-> x])
  PROVE  ModelInv'
<1>1. ContentsInv
  BY DEF ModelInv
<1>2. PICK st2, sw2 : st2 = statuses' /\ sw2 = shown'
  OBVIOUS
<1>3. /\ st2[k] = [rows |-> statuses[k].rows, columns |-> statuses[k].columns, result |-> x]
      /\ IsStatus(st2[k])
  BY <1>1, <1>2, StatusPut
<1>4. /\ size \in Sizes /\ IsContents(size, sheets, shown, statuses, pool)
      /\ sw2 \in Seq(Grids(size, Values)) /\ Len(sw2) = Len(sheets)
      /\ st2 = [statuses EXCEPT ![k].result = x]
  BY <1>1, <1>2, ContentsFacts
<1>5. ShowsNew(k, sw2, st2[k])
  BY <1>2, <1>3
<1>6. ResultShown(size, sheets, shown, k, sw2, st2[k])
  BY <1>5 DEF ShowsNew
<1>7. IsContents(size, sheets, sw2, st2, pool)
  BY <1>3, <1>4, <1>6, ResultPut
<1>8. sheets' = sheets /\ size' = size /\ pool' = pool
  BY DEF OtherwiseUnchanged, NoNewString
<1>9. ContentsInv'
  BY <1>2, <1>4, <1>7, <1>8 DEF ContentsInv
<1>10. NamesInv' /\ ExpressionsInv' /\ PoolInv' /\ calls' \in Nat
  BY PoolKept DEF ModelInv, NamesInv, ExpressionsInv, OtherwiseUnchanged, NamesIn, Call
<1> QED
  BY <1>9, <1>10 DEF ModelInv

\* The cells that share a calc_status show a result of it.
LEMMA SharersShow ==
  ASSUME ContentsInv, NEW k \in DOMAIN statuses, NEW values, DOMAIN values = Sharing(k),
         NEW status, \A x \in Sharing(k) : values[x] \in Values /\ ShowsResult(x, values[x], status),
         ShowOf(values)
  PROVE  /\ shown' \in Seq(Grids(size, Values)) /\ Len(shown') = Len(sheets)
         /\ ShowsNew(k, shown', status)
<1>1. AllIn(values, Values)
  BY DEF AllIn
<1>2. IsShown(values)
  BY <1>1, ShowOfFacts
<1>3. ASSUME NEW s \in DOMAIN sheets, NEW c \in 1..size.columns, NEW r \in 1..size.rows
      PROVE  IF sheets[s][c][r].type = "formula" /\ sheets[s][c][r].status = k
             THEN ShowsResult(sheets[s][c][r], shown'[s][c][r], status)
             ELSE shown'[s][c][r] = shown[s][c][r]
  <2>1. shown'[s][c][r] = IF sheets[s][c][r] \in Sharing(k) THEN values[sheets[s][c][r]]
                          ELSE shown[s][c][r]
    BY <1>2 DEF IsShown
  <2> QED
    BY <2>1, SharingFacts
<1> QED
  BY <1>2, <1>3 DEF IsShown, ShowsNew, ResultShown

LEMMA InterpretKeepsModel ==
  ASSUME ModelInv, NEW a \in AllAddresses, NEW v \in CellResults \cup GroupResults, Interpret(a, v)
  PROVE  ModelInv'
<1> DEFINE value(x) ==
      IF v.type # "matrix" THEN v
      ELSE IF InMatrix(x, v.rows) THEN Kept(Element(v, x.row, x.column)) ELSE Error
<1>1. PICK cell, k : cell = Cell(a) /\ k = cell.status
  OBVIOUS
<1>2. PICK values : values = [x \in Sharing(k) |-> value(x)]
  OBVIOUS
<1>3. /\ Call /\ OtherwiseUnchanged /\ NoNewString /\ UNCHANGED sheets
      /\ cell.type = "formula" /\ cell.row \in {Ungrouped, 0}
      /\ v.type = "matrix" => cell.row = 0
      /\ statuses' = [statuses EXCEPT ![k].result = v]
      /\ ShowOf(values)
  BY <1>1, <1>2 DEF Interpret
<1>4. v \in PlainResults \/ IsMatrix(v)
  BY ModelAssumption
<1>5. ContentsInv
  BY DEF ModelInv
<1>6. cell \in Sharing(k)
  BY <1>1, <1>3 DEF Sharing
<1>7. k \in DOMAIN statuses
  BY <1>5, <1>6, SharersFacts
<1>8. PICK status :
        status = [rows |-> statuses[k].rows, columns |-> statuses[k].columns, result |-> v]
  OBVIOUS
<1>9. status.rows = statuses[k].rows /\ status.columns = statuses[k].columns /\ status.result = v
  BY <1>8
<1>10. ASSUME NEW x \in Sharing(k)
       PROVE  values[x] \in Values /\ ShowsResult(x, values[x], status)
  <2>1. values[x] = value(x)
    BY <1>2
  <2>2. CASE cell.row = Ungrouped
    <3>1. x.row = Ungrouped /\ v.type # "matrix" /\ v \in Values
      <4>1. v.type # "matrix"
        BY <1>3, <2>2 DEF Ungrouped
      <4>2. v \in Values
        BY <1>4, <4>1 DEF IsMatrix, PlainResults
      <4> QED
        BY <1>5, <1>6, <2>2, <4>1, <4>2, SharersAreAlike
    <3>2. status.rows = 0
      <4>1. PICK w \in Values : ShowsResult(x, w, statuses[k])
        BY <1>5, SharersFacts
      <4> QED
        BY <1>9, <3>1, <4>1 DEF ShowsResult
    <3> QED
      BY <1>9, <2>1, <3>1, <3>2 DEF ShowsResult
  <2>3. CASE cell.row # Ungrouped
    <3>1. /\ x.row \in 0..(status.rows - 1) /\ x.column \in 0..(status.columns - 1)
          /\ x.row # Ungrouped /\ status.rows \in Nat /\ status.columns \in Nat
      BY <1>5, <1>6, <1>9, <2>3, SharersAreAlike
    <3>2. CASE v.type # "matrix"
      <4>1. v \in Values
        BY <1>4, <3>2 DEF IsMatrix, PlainResults
      <4> QED
        BY <1>9, <2>1, <3>1, <3>2, <4>1 DEF ShowsResult
    <3>3. CASE v.type = "matrix"
      <4>1. IsMatrix(v)
        BY <1>4, <3>3, NoMatrices DEF PlainResults
      <4>2. CASE InMatrix(x, v.rows)
        <5>1. x.row \in 0..(Len(v.rows) - 1) /\ x.column \in 0..(Len(v.rows[1]) - 1)
          BY <3>1, <4>1, <4>2 DEF InMatrix, IsMatrix
        <5>2. Kept(Element(v, x.row, x.column)) \in Values
          BY <4>1, <5>1, ElementFacts
        <5> QED
          BY <1>9, <2>1, <3>1, <3>3, <4>2, <5>2 DEF ShowsResult
      <4>3. CASE ~InMatrix(x, v.rows)
        <5>1. Error \in Values
          BY DEF Values
        <5> QED
          BY <1>9, <2>1, <3>1, <3>3, <4>3, <5>1 DEF ShowsResult
      <4> QED
        BY <4>2, <4>3
    <3> QED
      BY <3>2, <3>3
  <2> QED
    BY <2>2, <2>3
<1>11. DOMAIN values = Sharing(k)
  BY <1>2
<1>12. /\ shown' \in Seq(Grids(size, Values)) /\ Len(shown') = Len(sheets)
       /\ ShowsNew(k, shown', status)
  BY <1>3, <1>5, <1>7, <1>10, <1>11, SharersShow
<1> QED
  BY <1>3, <1>4, <1>7, <1>8, <1>12, ResultKeepsModel

\* The matrix that the first result of a member of a group makes.
LEMMA EmptyMatrixFacts ==
  ASSUME NEW status, status.rows \in Nat \ {0}, status.columns \in Nat \ {0}
  PROVE  /\ IsMatrix(EmptyMatrix(status))
         /\ Len(EmptyMatrix(status).rows) = status.rows
         /\ Len(EmptyMatrix(status).rows[1]) = status.columns
         /\ \A r \in 0..(status.rows - 1), c \in 0..(status.columns - 1) :
              Element(EmptyMatrix(status), r, c) = Nothing
<1> DEFINE none == [c \in 1..status.columns |-> Nothing]
           m == EmptyMatrix(status)
<1>1. Nothing \in Values \ {NoResult}
  BY DEF Nothing, Values, NoResult
<1>2. /\ m = Matrix(m.rows) /\ m.type = "matrix"
      /\ m.rows = [r \in 1..status.rows |-> none]
  BY DEF EmptyMatrix, Matrix
<1>3. none \in [1..status.columns -> Values \ {NoResult}] /\ Len(none) = status.columns
  <2>1. none \in [1..status.columns -> Values \ {NoResult}]
    BY <1>1
  <2>2. none \in Seq(Values)
    BY <1>1
  <2> QED
    BY <2>1, <2>2, LenProperties
<1>4. \A c \in 1..status.columns : none[c] = Nothing
  OBVIOUS
<1> HIDE DEF none, m
<1>5. m.rows \in [1..status.rows -> [1..status.columns -> Values \ {NoResult}]]
  BY <1>2, <1>3
<1>6. Len(m.rows) = status.rows
  <2>1. m.rows \in Seq([1..status.columns -> Values \ {NoResult}])
    BY <1>5
  <2> QED
    BY <1>5, <2>1, LenProperties
<1>7. m.rows[1] = none
  BY <1>2
<1>8. IsMatrix(m) /\ Len(m.rows[1]) = status.columns
  BY <1>2, <1>3, <1>5, <1>6, <1>7 DEF IsMatrix
<1>9. ASSUME NEW r \in 0..(status.rows - 1), NEW c \in 0..(status.columns - 1)
      PROVE  Element(m, r, c) = Nothing
  <2>1. r + 1 \in 1..status.rows /\ c + 1 \in 1..status.columns
    OBVIOUS
  <2> QED
    BY <1>2, <1>4, <2>1 DEF Element
<1> QED
  BY <1>6, <1>8, <1>9 DEF m

\* A matrix with another element.
Inside(m, r, c) == r \in 0..(Len(m.rows) - 1) /\ c \in 0..(Len(m.rows[1]) - 1)
IsElementPut(new, m, r, c, v) ==
  /\ IsMatrix(new) /\ new.type = "matrix"
  /\ Len(new.rows) = Len(m.rows) /\ Len(new.rows[1]) = Len(m.rows[1])
  /\ \A i \in 0..(Len(m.rows) - 1), j \in 0..(Len(m.rows[1]) - 1) :
       Element(new, i, j) = IF i = r /\ j = c THEN v ELSE Element(m, i, j)

LEMMA ElementPut ==
  ASSUME NEW m, IsMatrix(m), NEW r, NEW c, Inside(m, r, c), NEW v \in Values, v # NoResult,
         NEW new, new = Matrix([m.rows EXCEPT ![r + 1][c + 1] = v])
  PROVE  IsElementPut(new, m, r, c, v)
<1> DEFINE V == Values \ {NoResult}
<1>1. PICK rows, height, width : rows = m.rows /\ height = Len(m.rows) /\ width = Len(m.rows[1])
  OBVIOUS
<1>2. /\ height \in Nat \ {0} /\ width \in Nat \ {0}
      /\ rows \in [1..height -> [1..width -> V]]
  BY <1>1 DEF IsMatrix
<1>3. PICK p, q : p = r + 1 /\ q = c + 1
  OBVIOUS
<1>4. p \in 1..height /\ q \in 1..width
  <2>1. r \in 0..(height - 1) /\ c \in 0..(width - 1)
    BY <1>1, Zenon DEF Inside
  <2> QED
    BY <1>2, <1>3, <2>1
<1>5. PICK new2 : new2 = [rows EXCEPT ![p][q] = v]
  OBVIOUS
<1>6. new.rows = new2 /\ new.type = "matrix" /\ new = Matrix(new.rows)
  BY <1>1, <1>3, <1>5 DEF Matrix
<1> HIDE DEF V
<1>7. v \in V
  BY DEF V
<1>8. new2 \in [1..height -> [1..width -> V]]
  BY <1>2, <1>4, <1>5, <1>7
<1>9. \A i \in 1..height, j \in 1..width : new2[i][j] = IF i = p /\ j = q THEN v ELSE rows[i][j]
  BY <1>2, <1>4, <1>5
<1>10. Len(new2) = height
  <2>1. new2 \in Seq([1..width -> V])
    BY <1>2, <1>8
  <2> QED
    BY <1>2, <1>8, <2>1, LenProperties
<1>11. Len(new2[1]) = width
  <2>1. new2[1] \in [1..width -> V]
    BY <1>2, <1>8
  <2>2. new2[1] \in Seq(V)
    BY <1>2, <2>1
  <2> QED
    BY <1>2, <2>1, <2>2, LenProperties
<1>12. IsMatrix(new)
  BY <1>2, <1>6, <1>8, <1>10, <1>11 DEF IsMatrix, V
<1>13. ASSUME NEW i \in 0..(height - 1), NEW j \in 0..(width - 1)
       PROVE  Element(new, i, j) = IF i = r /\ j = c THEN v ELSE Element(m, i, j)
  <2>1. PICK i2, j2 : i2 = i + 1 /\ j2 = j + 1
    OBVIOUS
  <2>2. i2 \in 1..height /\ j2 \in 1..width
    BY <1>2, <2>1
  <2>3. (i2 = p /\ j2 = q) <=> (i = r /\ j = c)
    BY <1>1, <1>2, <1>3, <2>1 DEF Inside
  <2>4. new2[i2][j2] = IF i = r /\ j = c THEN v ELSE rows[i2][j2]
    BY <1>9, <2>2, <2>3
  <2> QED
    BY <1>1, <1>6, <2>1, <2>4 DEF Element
<1> QED
  BY <1>1, <1>6, <1>10, <1>11, <1>12, <1>13 DEF IsElementPut

\* Another value at one position.
IsValuePut(new, sz, X, sw, s, c, r, v) ==
  /\ new \in Seq(Grids(sz, X)) /\ Len(new) = Len(sw)
  /\ \A t \in DOMAIN sw, d \in 1..sz.columns, q \in 1..sz.rows :
       new[t][d][q] = IF t = s /\ d = c /\ q = r THEN v ELSE sw[t][d][q]

LEMMA ValuePut ==
  ASSUME NEW sz, IsASize(sz), NEW X, NEW sw \in Seq(Grids(sz, X)), NEW v \in X,
         NEW s \in DOMAIN sw, NEW c \in 1..sz.columns, NEW r \in 1..sz.rows,
         NEW new, new = [sw EXCEPT ![s][c][r] = v]
  PROVE  IsValuePut(new, sz, X, sw, s, c, r, v)
<1>1. PICK column : column = [sw[s][c] EXCEPT ![r] = v]
  OBVIOUS
<1>2. PICK sheet : sheet = [sw[s] EXCEPT ![c] = column]
  OBVIOUS
<1>3. new = [sw EXCEPT ![s] = sheet]
  BY <1>1, <1>2
<1>4. sw[s] \in [1..sz.columns -> [1..sz.rows -> X]]
  BY DEF Grids
<1>5. column \in [1..sz.rows -> X] /\ \A q \in 1..sz.rows : column[q] = IF q = r THEN v ELSE sw[s][c][q]
  BY <1>1, <1>4
<1>6. sheet \in Grids(sz, X) /\ \A d \in 1..sz.columns : sheet[d] = IF d = c THEN column ELSE sw[s][d]
  BY <1>2, <1>4, <1>5 DEF Grids
<1>7. /\ new \in Seq(Grids(sz, X)) /\ Len(new) = Len(sw)
      /\ \A t \in DOMAIN sw : new[t] = IF t = s THEN sheet ELSE sw[t]
  <2> DEFINE all == [sw EXCEPT ![s] = sheet]
  <2>1. sheet \in Grids(sz, X)
    BY <1>6
  <2>2. all \in Seq(Grids(sz, X)) /\ Len(all) = Len(sw)
    BY <2>1
  <2>3. \A t \in DOMAIN sw : all[t] = IF t = s THEN sheet ELSE sw[t]
    OBVIOUS
  <2> QED
    BY <1>3, <2>2, <2>3
<1>8. ASSUME NEW t \in DOMAIN sw, NEW d \in 1..sz.columns, NEW q \in 1..sz.rows
      PROVE  new[t][d][q] = IF t = s /\ d = c /\ q = r THEN v ELSE sw[t][d][q]
  <2>1. CASE t = s /\ d = c
    <3>1. new[t][d] = column
      BY <1>6, <1>7, <2>1
    <3> QED
      BY <1>5, <2>1, <3>1
  <2>2. CASE t = s /\ d # c
    BY <1>6, <1>7, <2>2
  <2>3. CASE t # s
    BY <1>7, <2>3
  <2> QED
    BY <2>1, <2>2, <2>3
<1> QED
  BY <1>7, <1>8 DEF IsValuePut

\* Two cells of a group that lie at the same place in it are one cell.
LEMMA SharersAt ==
  ASSUME ContentsInv, NEW k, NEW x \in Sharing(k), NEW y \in Sharing(k),
         x.row = y.row, x.column = y.column
  PROVE  x = y
<1>1. /\ x \in StoredCells /\ x.type = "formula" /\ x.status = k
      /\ y \in StoredCells /\ y.type = "formula" /\ y.status = k
  BY SharersFacts
<1>2. ASSUME NEW z \in StoredCells, z.type = "formula"
      PROVE  z = [type |-> "formula", status |-> z.status, row |-> z.row, column |-> z.column]
  BY <1>2 DEF StoredCells, Nothing
<1>3. /\ x = [type |-> "formula", status |-> k, row |-> x.row, column |-> x.column]
      /\ y = [type |-> "formula", status |-> k, row |-> y.row, column |-> y.column]
  BY <1>1, <1>2
<1> QED
  BY <1>3

\* A value that nothing was put into shows as 0; every other one as it is.
LEMMA KeptFacts ==
  /\ Kept(Nothing) = Number(0)
  /\ \A v \in PlainResults : Kept(v) = v /\ v \in Values \ {NoResult}
  /\ Number(0) \in Values
BY DEF Kept, PlainResults, Nothing, Number, Values

\* The first result of a member of a group, and "value" what it shows then.
LEMMA FirstOfGroup ==
  ASSUME ContentsInv, NEW k, NEW cell \in Sharing(k), cell.row # Ungrouped,
         NEW m, IsMatrix(m), Len(m.rows) = statuses[k].rows, Len(m.rows[1]) = statuses[k].columns,
         NEW value \in Values, value = Kept(Element(m, cell.row, cell.column)),
         \A r \in 0..(statuses[k].rows - 1), c \in 0..(statuses[k].columns - 1) :
           ~(r = cell.row /\ c = cell.column) => Element(m, r, c) = Nothing,
         NEW values, values = [x \in Sharing(k) |-> IF x = cell THEN value ELSE Number(0)],
         ShowOf(values)
  PROVE  /\ shown' \in Seq(Grids(size, Values)) /\ Len(shown') = Len(sheets)
         /\ ShowsNew(k, shown',
              [rows |-> statuses[k].rows, columns |-> statuses[k].columns, result |-> m])
<1>1. PICK status :
        status = [rows |-> statuses[k].rows, columns |-> statuses[k].columns, result |-> m]
  OBVIOUS
<1>2. status.rows = statuses[k].rows /\ status.columns = statuses[k].columns /\ status.result = m
  BY <1>1
<1>3. m.type = "matrix"
  BY DEF IsMatrix
<1>4. ASSUME NEW x \in Sharing(k)
      PROVE  values[x] \in Values /\ ShowsResult(x, values[x], status)
  <2>1. /\ x.row \in 0..(status.rows - 1) /\ x.column \in 0..(status.columns - 1)
        /\ x.row # Ungrouped /\ status.rows \in Nat /\ status.columns \in Nat
    BY <1>2, SharersAreAlike
  <2>2. InMatrix(x, m.rows)
    BY <1>2, <2>1 DEF InMatrix
  <2>3. values[x] = Kept(Element(m, x.row, x.column)) /\ values[x] \in Values
    <3>1. CASE x = cell
      BY <3>1
    <3>2. CASE x # cell
      <4>1. ~(x.row = cell.row /\ x.column = cell.column)
        BY <3>2, SharersAt
      <4>2. Element(m, x.row, x.column) = Nothing
        BY <1>2, <2>1, <4>1
      <4> QED
        BY <3>2, <4>2, KeptFacts
    <3> QED
      BY <3>1, <3>2
  <2> QED
    BY <1>2, <1>3, <2>1, <2>2, <2>3 DEF ShowsResult
<1>5. k \in DOMAIN statuses /\ DOMAIN values = Sharing(k)
  BY SharersFacts
<1> QED
  BY <1>1, <1>4, <1>5, SharersShow

\* Another element of the matrix, which one cell shows.
LEMMA ElementOfGroup ==
  ASSUME ContentsInv, NEW a \in AllAddresses, NEW k, Cell(a) \in Sharing(k), Cell(a).row # Ungrouped,
         IsMatrix(statuses[k].result), InMatrix(Cell(a), statuses[k].result.rows),
         NEW v \in PlainResults, NEW m,
         m = Matrix([statuses[k].result.rows EXCEPT ![Cell(a).row + 1][Cell(a).column + 1] = v]),
         shown' = [shown EXCEPT ![a.sheet + 1][a.column + 1][a.row + 1] = v]
  PROVE  /\ IsMatrix(m)
         /\ shown' \in Seq(Grids(size, Values)) /\ Len(shown') = Len(sheets)
         /\ ShowsNew(k, shown',
              [rows |-> statuses[k].rows, columns |-> statuses[k].columns, result |-> m])
<1>1. PICK status :
        status = [rows |-> statuses[k].rows, columns |-> statuses[k].columns, result |-> m]
  OBVIOUS
<1>2. status.rows = statuses[k].rows /\ status.columns = statuses[k].columns /\ status.result = m
  BY <1>1
<1>3. PICK cell, old : cell = Cell(a) /\ old = statuses[k].result
  OBVIOUS
<1>4. /\ cell.row \in 0..(Len(old.rows) - 1) /\ cell.column \in 0..(Len(old.rows[1]) - 1)
      /\ old.type = "matrix"
  <2>1. Len(old.rows) \in Nat /\ Len(old.rows[1]) \in Nat /\ old.type = "matrix"
    BY <1>3 DEF IsMatrix
  <2>3. InMatrix(cell, old.rows)
    BY <1>3
  <2>4. cell.row < Len(old.rows) /\ cell.column < Len(old.rows[1])
    BY <2>3 DEF InMatrix
  <2>2. cell.row \in Nat /\ cell.column \in Nat
    <3>1. /\ cell.row \in 0..(statuses[k].rows - 1) /\ cell.column \in 0..(statuses[k].columns - 1)
          /\ statuses[k].rows \in Nat /\ statuses[k].columns \in Nat
      BY <1>3, SharersAreAlike
    <3> QED
      BY <3>1
  <2> QED
    BY <2>1, <2>2, <2>4
<1>5. /\ IsMatrix(m) /\ m.type = "matrix"
      /\ Len(m.rows) = Len(old.rows) /\ Len(m.rows[1]) = Len(old.rows[1])
      /\ \A i \in 0..(Len(old.rows) - 1), j \in 0..(Len(old.rows[1]) - 1) :
           Element(m, i, j) = IF i = cell.row /\ j = cell.column THEN v ELSE Element(old, i, j)
  <2>1. IsMatrix(old)
    BY <1>3
  <2>2. m = Matrix([old.rows EXCEPT ![cell.row + 1][cell.column + 1] = v])
    BY <1>3
  <2>3. v \in Values /\ v # NoResult
    BY KeptFacts
  <2>4. Inside(old, cell.row, cell.column)
    BY <1>4 DEF Inside
  <2>5. IsElementPut(m, old, cell.row, cell.column, v)
    BY <2>1, <2>2, <2>3, <2>4, ElementPut
  <2> QED
    BY <2>5 DEF IsElementPut
<1>6. PICK s, c, r : s = a.sheet + 1 /\ c = a.column + 1 /\ r = a.row + 1
  OBVIOUS
<1>7. /\ IsASize(size) /\ sheets \in Seq(Grids(size, StoredCells)) /\ shown \in Seq(Grids(size, Values))
      /\ Len(shown) = Len(sheets) /\ DOMAIN shown = DOMAIN sheets
  BY ContentsFacts
<1>8. s \in DOMAIN sheets /\ c \in 1..size.columns /\ r \in 1..size.rows
  BY <1>6, <1>7, AddressFacts
<1>9. PICK new : new = shown'
  OBVIOUS
<1>10. /\ new \in Seq(Grids(size, Values)) /\ Len(new) = Len(sheets)
       /\ \A t \in DOMAIN sheets, d \in 1..size.columns, q \in 1..size.rows :
            new[t][d][q] = IF t = s /\ d = c /\ q = r THEN v ELSE shown[t][d][q]
  <2>1. v \in Values /\ new = [shown EXCEPT ![s][c][r] = v]
    BY <1>6, <1>9, KeptFacts
  <2>2. s \in DOMAIN shown
    BY <1>7, <1>8
  <2>3. IsValuePut(new, size, Values, shown, s, c, r, v)
    BY <1>7, <1>8, <2>1, <2>2, ValuePut
  <2> QED
    BY <1>7, <2>3 DEF IsValuePut
<1>11. cell = sheets[s][c][r]
  BY <1>3, <1>6 DEF Cell
<1>12. ASSUME NEW t \in DOMAIN sheets, NEW d \in 1..size.columns, NEW q \in 1..size.rows
       PROVE  IF sheets[t][d][q].type = "formula" /\ sheets[t][d][q].status = k
              THEN ShowsResult(sheets[t][d][q], new[t][d][q], status)
              ELSE new[t][d][q] = shown[t][d][q]
  <2>1. PICK x : x = sheets[t][d][q]
    OBVIOUS
  <2>2. CASE t = s /\ d = c /\ q = r
    <3>1. x = cell /\ new[t][d][q] = v
      BY <1>10, <1>11, <2>1, <2>2
    <3>2. /\ cell.row \in 0..(status.rows - 1) /\ cell.column \in 0..(status.columns - 1)
          /\ cell.row # Ungrouped
      BY <1>2, <1>3, SharersAreAlike
    <3>3. InMatrix(cell, m.rows)
      BY <1>3, <1>5 DEF InMatrix
    <3>4. v = Kept(Element(m, cell.row, cell.column))
      BY <1>4, <1>5, KeptFacts
    <3>5. ShowsResult(cell, v, status)
      BY <1>2, <1>5, <3>2, <3>3, <3>4 DEF ShowsResult
    <3>6. cell.type = "formula" /\ cell.status = k
      BY <1>3, SharersFacts
    <3> QED
      BY <2>1, <3>1, <3>5, <3>6
  <2>3. CASE ~(t = s /\ d = c /\ q = r) /\ x \in Sharing(k)
    <3>1. new[t][d][q] = shown[t][d][q]
      BY <1>10, <2>3
    <3>2. ShowsResult(x, shown[t][d][q], statuses[k])
      <4>1. Shows(x, shown[t][d][q], statuses, pool)
        BY <2>1, ContentsFacts DEF IsContents
      <4>2. x.type = "formula" /\ x.status = k
        BY <2>3, SharersFacts
      <4> QED
        BY <4>1, <4>2, Zenon DEF Shows
    <3>3. /\ x.row \in 0..(status.rows - 1) /\ x.column \in 0..(status.columns - 1)
          /\ x.row # Ungrouped /\ status.rows \in Nat /\ status.columns \in Nat
      BY <1>2, <1>3, <2>3, SharersAreAlike
    <3>4. ~(x.row = cell.row /\ x.column = cell.column)
      <4>1. SameElement(cell, x) => t = s /\ d = c /\ q = r
        BY <1>3, <1>6, <2>1, CellFacts
      <4>2. cell.type = "formula" /\ x.type = "formula" /\ cell.status = x.status
        BY <1>3, <2>3, SharersFacts
      <4> QED
        BY <1>3, <2>3, <4>1, <4>2 DEF SameElement
    <3>5. shown[t][d][q] = IF InMatrix(x, old.rows) THEN Kept(Element(old, x.row, x.column)) ELSE Error
      BY <1>3, <1>4, <3>2, <3>3 DEF ShowsResult
    <3>6. InMatrix(x, m.rows) <=> InMatrix(x, old.rows)
      BY <1>5 DEF InMatrix
    <3>7. ASSUME InMatrix(x, old.rows) PROVE Element(m, x.row, x.column) = Element(old, x.row, x.column)
      <4>1. x.row \in 0..(Len(old.rows) - 1) /\ x.column \in 0..(Len(old.rows[1]) - 1)
        <5>1. x.row < Len(old.rows) /\ x.column < Len(old.rows[1])
          BY <3>7 DEF InMatrix
        <5>2. Len(old.rows) \in Nat /\ Len(old.rows[1]) \in Nat
          BY <1>3 DEF IsMatrix
        <5>3. x.row \in Nat /\ x.column \in Nat
          BY <3>3
        <5> QED
          BY <5>1, <5>2, <5>3
      <4> QED
        BY <1>5, <3>4, <4>1
    <3>8. shown[t][d][q] = IF InMatrix(x, m.rows) THEN Kept(Element(m, x.row, x.column)) ELSE Error
      BY <3>5, <3>6, <3>7
    <3>9. ShowsResult(x, shown[t][d][q], status)
      BY <1>2, <1>5, <3>3, <3>8 DEF ShowsResult
    <3>10. x.type = "formula" /\ x.status = k
      BY <2>3, SharersFacts
    <3> QED
      BY <2>1, <3>1, <3>9, <3>10
  <2>4. CASE ~(t = s /\ d = c /\ q = r) /\ x \notin Sharing(k)
    BY <1>10, <2>1, <2>4, SharingFacts
  <2> QED
    BY <2>2, <2>3, <2>4
<1>13. ShowsNew(k, new, status)
  BY <1>12, Zenon DEF ShowsNew, ResultShown
<1> QED
  BY <1>1, <1>5, <1>9, <1>10, <1>13

\* A value that is put where it is.
LEMMA SamePut ==
  ASSUME NEW sz, IsASize(sz), NEW X, NEW sw \in Seq(Grids(sz, X)),
         NEW s \in DOMAIN sw, NEW c \in 1..sz.columns, NEW r \in 1..sz.rows
  PROVE  [sw EXCEPT ![s][c][r] = sw[s][c][r]] = sw
<1>1. sw[s] \in [1..sz.columns -> [1..sz.rows -> X]]
  BY DEF Grids
<1>2. [sw[s][c] EXCEPT ![r] = sw[s][c][r]] = sw[s][c]
  BY <1>1
<1>3. [sw[s] EXCEPT ![c] = sw[s][c]] = sw[s]
  BY <1>1
<1>4. [sw EXCEPT ![s] = sw[s]] = sw
  OBVIOUS
<1> QED
  BY <1>2, <1>3, <1>4

LEMMA SetResultCacheKeepsModel ==
  ASSUME ModelInv, NEW a \in AllAddresses, NEW v \in CellResults \cup GroupResults, SetResultCache(a, v)
  PROVE  ModelInv'
<1>1. PICK cell, k : cell = Cell(a) /\ k = cell.status
  OBVIOUS
<1>2. PICK old : old = statuses[k].result
  OBVIOUS
<1>3. PICK base : base = IF old = NoResult THEN EmptyMatrix(statuses[k]) ELSE old
  OBVIOUS
<1> DEFINE Alone == cell.row = Ungrouped
           First(value) == [x \in Sharing(k) |-> IF x = cell THEN value ELSE Number(0)]
           showing(value) ==
             IF old = NoResult THEN ShowOf(First(value))
             ELSE shown' = [shown EXCEPT ![a.sheet + 1][a.column + 1][a.row + 1] = value]
           new == Matrix([base.rows EXCEPT ![cell.row + 1][cell.column + 1] = v])
<1>4. /\ Call /\ OtherwiseUnchanged /\ NoNewString /\ UNCHANGED sheets
      /\ cell.type = "formula"
  BY <1>1, Zenon DEF SetResultCache
<1>5. ContentsInv
  BY DEF ModelInv
<1>6. cell \in Sharing(k)
  BY <1>1, <1>4 DEF Sharing
<1>7. /\ k \in DOMAIN statuses
      /\ old \in PlainResults \cup {NoResult} \/ IsMatrix(old)
  BY <1>2, <1>5, <1>6, SharersFacts, ContentsFacts DEF AreStatuses, IsStatus
<1>8. v \in PlainResults \/ IsMatrix(v)
  BY ModelAssumption
<1>9. v.type # "matrix" => v \in PlainResults /\ v \in Values
  BY <1>8, KeptFacts DEF IsMatrix
<1>10. ASSUME ~Alone
       PROVE  /\ statuses[k].rows \in Nat \ {0} /\ statuses[k].columns \in Nat \ {0}
              /\ cell.row \in 0..(statuses[k].rows - 1) /\ cell.column \in 0..(statuses[k].columns - 1)
  BY <1>5, <1>6, <1>10, SharersAreAlike
<1>11. CASE /\ Alone /\ v.type # "matrix"
            /\ statuses' = [statuses EXCEPT ![k].result = v]
            /\ ShowOf([x \in Sharing(k) |-> v])
  <2>1. PICK values : values = [x \in Sharing(k) |-> v]
    OBVIOUS
  <2>2. PICK status :
          status = [rows |-> statuses[k].rows, columns |-> statuses[k].columns, result |-> v]
    OBVIOUS
  <2>3. ASSUME NEW x \in Sharing(k)
        PROVE  values[x] \in Values /\ ShowsResult(x, values[x], status)
    <3>1. x.row = Ungrouped
      BY <1>5, <1>6, <1>11, SharersAreAlike
    <3>2. PICK w \in Values : ShowsResult(x, w, statuses[k])
      BY <1>5, SharersFacts
    <3>3. status.rows = 0 /\ status.result = v
      BY <2>2, <3>1, <3>2 DEF ShowsResult
    <3>4. values[x] = v
      BY <2>1
    <3> QED
      BY <1>9, <1>11, <3>1, <3>3, <3>4 DEF ShowsResult
  <2>4. DOMAIN values = Sharing(k) /\ ShowOf(values)
    BY <1>11, <2>1
  <2>5. /\ shown' \in Seq(Grids(size, Values)) /\ Len(shown') = Len(sheets)
        /\ ShowsNew(k, shown', status)
    BY <1>5, <1>7, <2>3, <2>4, SharersShow
  <2> QED
    BY <1>4, <1>7, <1>9, <1>11, <2>2, <2>5, ResultKeepsModel
<1>12. CASE UNCHANGED << statuses, shown >>
  BY <1>4, <1>12 DEF ModelInv, ContentsInv, NamesInv, PoolInv, ExpressionsInv, Call,
                     OtherwiseUnchanged, NoNewString, NamesIn
<1>13. ASSUME ~Alone, base.type = "matrix"
       PROVE  /\ old = NoResult => /\ base = EmptyMatrix(statuses[k])
                                   /\ IsMatrix(base) /\ Len(base.rows) = statuses[k].rows
                                   /\ Len(base.rows[1]) = statuses[k].columns
                                   /\ \A r \in 0..(statuses[k].rows - 1), c \in 0..(statuses[k].columns - 1) :
                                        Element(base, r, c) = Nothing
              /\ old # NoResult => base = old /\ IsMatrix(old)
  <2>1. CASE old = NoResult
    <3>1. base = EmptyMatrix(statuses[k])
      BY <1>3, <2>1
    <3> QED
      BY <1>10, <1>13, <2>1, <3>1, EmptyMatrixFacts
  <2>2. CASE old # NoResult
    <3>1. base = old /\ old.type = "matrix"
      BY <1>3, <1>13, <2>2
    <3> QED
      BY <1>7, <2>2, <3>1, NoMatrices DEF PlainResults
  <2> QED
    BY <2>1, <2>2
<1>14. CASE /\ ~Alone /\ base.type = "matrix"
            /\ statuses' = [statuses EXCEPT ![k].result = base]
            /\ showing(IF old = NoResult THEN Number(0) ELSE shown[a.sheet + 1][a.column + 1][a.row + 1])
  <2>1. CASE old = NoResult
    <3>1. PICK values : values = First(Number(0))
      OBVIOUS
    <3>2. ShowOf(values)
      BY <1>14, <2>1, <3>1
    <3>3. /\ IsMatrix(base) /\ Len(base.rows) = statuses[k].rows
          /\ Len(base.rows[1]) = statuses[k].columns
          /\ \A r \in 0..(statuses[k].rows - 1), c \in 0..(statuses[k].columns - 1) :
               Element(base, r, c) = Nothing
      BY <1>13, <1>14, <2>1
    <3>4. Number(0) = Kept(Element(base, cell.row, cell.column))
      BY <1>10, <1>14, <3>3, KeptFacts
    <3>5. /\ shown' \in Seq(Grids(size, Values)) /\ Len(shown') = Len(sheets)
          /\ ShowsNew(k, shown',
               [rows |-> statuses[k].rows, columns |-> statuses[k].columns, result |-> base])
      BY <1>5, <1>6, <1>14, <3>1, <3>2, <3>3, <3>4, KeptFacts, FirstOfGroup
    <3> QED
      BY <1>4, <1>7, <1>14, <3>3, <3>5, ResultKeepsModel
  <2>2. CASE old # NoResult
    <3>1. base = old /\ shown' = [shown EXCEPT ![a.sheet + 1][a.column + 1][a.row + 1]
                                    = shown[a.sheet + 1][a.column + 1][a.row + 1]]
      BY <1>13, <1>14, <2>2
    <3>2. shown' = shown
      <4>1. PICK s, c, r : s = a.sheet + 1 /\ c = a.column + 1 /\ r = a.row + 1
        OBVIOUS
      <4>2. /\ IsASize(size) /\ sheets \in Seq(Grids(size, StoredCells))
            /\ shown \in Seq(Grids(size, Values)) /\ DOMAIN shown = DOMAIN sheets
        BY <1>5, ContentsFacts
      <4>3. s \in DOMAIN shown /\ c \in 1..size.columns /\ r \in 1..size.rows
        BY <4>1, <4>2, AddressFacts
      <4>4. shown' = [shown EXCEPT ![s][c][r] = shown[s][c][r]]
        BY <3>1, <4>1
      <4> QED
        BY <4>2, <4>3, <4>4, SamePut
    <3>3. statuses[k] = [rows |-> statuses[k].rows, columns |-> statuses[k].columns, result |-> base]
      BY <1>2, <1>5, <1>7, <3>1, ContentsFacts DEF AreStatuses, IsStatus
    <3>4. ShowsNew(k, shown, statuses[k])
      <4>1. ASSUME NEW s \in DOMAIN sheets, NEW c \in 1..size.columns, NEW r \in 1..size.rows,
                   sheets[s][c][r].type = "formula", sheets[s][c][r].status = k
            PROVE  ShowsResult(sheets[s][c][r], shown[s][c][r], statuses[k])
        <5>1. Shows(sheets[s][c][r], shown[s][c][r], statuses, pool)
          BY <1>5, ContentsFacts DEF IsContents
        <5> QED
          BY <4>1, <5>1, Zenon DEF Shows
      <4> QED
        BY <4>1 DEF ShowsNew, ResultShown
    <3>5. /\ shown' \in Seq(Grids(size, Values)) /\ Len(shown') = Len(sheets)
          /\ ShowsNew(k, shown',
               [rows |-> statuses[k].rows, columns |-> statuses[k].columns, result |-> base])
      BY <1>5, <3>2, <3>3, <3>4, ContentsFacts
    <3>6. IsMatrix(base)
      BY <1>13, <1>14, <2>2
    <3> QED
      BY <1>4, <1>7, <1>14, <3>5, <3>6, ResultKeepsModel
  <2> QED
    BY <2>1, <2>2
<1>15. CASE /\ ~Alone /\ base.type = "matrix" /\ v.type # "matrix"
            /\ InMatrix(cell, base.rows)
            /\ statuses' = [statuses EXCEPT ![k].result = new]
            /\ showing(v)
  <2>1. v \in PlainResults /\ v \in Values /\ v # NoResult /\ Kept(v) = v
    BY <1>9, <1>15, KeptFacts
  <2>2. PICK m : m = new
    OBVIOUS
  <2>3. CASE old = NoResult
    <3>1. PICK values : values = First(v)
      OBVIOUS
    <3>2. ShowOf(values)
      BY <1>15, <2>3, <3>1
    <3>3. /\ IsMatrix(base) /\ Len(base.rows) = statuses[k].rows
          /\ Len(base.rows[1]) = statuses[k].columns
          /\ \A r \in 0..(statuses[k].rows - 1), c \in 0..(statuses[k].columns - 1) :
               Element(base, r, c) = Nothing
      BY <1>13, <1>15, <2>3
    <3>4. Inside(base, cell.row, cell.column)
      BY <1>10, <1>15, <3>3 DEF Inside
    <3>5. IsElementPut(m, base, cell.row, cell.column, v)
      BY <2>1, <2>2, <3>3, <3>4, ElementPut
    <3>6. IsMatrix(m) /\ Len(m.rows) = statuses[k].rows /\ Len(m.rows[1]) = statuses[k].columns
      BY <3>3, <3>5 DEF IsElementPut
    <3>7. v = Kept(Element(m, cell.row, cell.column))
      BY <2>1, <3>4, <3>5 DEF IsElementPut, Inside
    <3>8. \A r \in 0..(statuses[k].rows - 1), c \in 0..(statuses[k].columns - 1) :
            ~(r = cell.row /\ c = cell.column) => Element(m, r, c) = Nothing
      BY <3>3, <3>5 DEF IsElementPut
    <3>9. /\ shown' \in Seq(Grids(size, Values)) /\ Len(shown') = Len(sheets)
          /\ ShowsNew(k, shown',
               [rows |-> statuses[k].rows, columns |-> statuses[k].columns, result |-> m])
      BY <1>5, <1>6, <1>15, <2>1, <3>1, <3>2, <3>6, <3>7, <3>8, FirstOfGroup
    <3> QED
      BY <1>4, <1>7, <1>15, <2>2, <3>6, <3>9, ResultKeepsModel
  <2>4. CASE old # NoResult
    <3>1. base = statuses[k].result /\ IsMatrix(base)
      BY <1>2, <1>13, <1>15, <2>4
    <3>2. shown' = [shown EXCEPT ![a.sheet + 1][a.column + 1][a.row + 1] = v]
      BY <1>15, <2>4
    <3>3. m = Matrix([statuses[k].result.rows EXCEPT ![Cell(a).row + 1][Cell(a).column + 1] = v])
      BY <1>1, <2>2, <3>1
    <3>4. /\ Cell(a) \in Sharing(k) /\ Cell(a).row # Ungrouped
          /\ IsMatrix(statuses[k].result) /\ InMatrix(Cell(a), statuses[k].result.rows)
      BY <1>1, <1>6, <1>15, <3>1
    <3>5. /\ IsMatrix(m)
          /\ shown' \in Seq(Grids(size, Values)) /\ Len(shown') = Len(sheets)
          /\ ShowsNew(k, shown',
               [rows |-> statuses[k].rows, columns |-> statuses[k].columns, result |-> m])
      BY <1>5, <2>1, <3>2, <3>3, <3>4, ElementOfGroup
    <3> QED
      BY <1>4, <1>7, <1>15, <2>2, <3>5, ResultKeepsModel
  <2> QED
    BY <2>3, <2>4
<1>16. \/ /\ Alone /\ v.type # "matrix"
          /\ statuses' = [statuses EXCEPT ![k].result = v]
          /\ ShowOf([x \in Sharing(k) |-> v])
       \/ UNCHANGED << statuses, shown >>
       \/ /\ ~Alone /\ base.type = "matrix"
          /\ statuses' = [statuses EXCEPT ![k].result = base]
          /\ showing(IF old = NoResult THEN Number(0) ELSE shown[a.sheet + 1][a.column + 1][a.row + 1])
       \/ /\ ~Alone /\ base.type = "matrix" /\ v.type # "matrix"
          /\ InMatrix(cell, base.rows)
          /\ statuses' = [statuses EXCEPT ![k].result = new]
          /\ showing(v)
  BY <1>1, <1>2, <1>3, Zenon DEF SetResultCache
<1> QED
  BY <1>11, <1>12, <1>14, <1>15, <1>16

-----------------------------------------------------------------------------
(***************************************************************************)
(* Sheets, names and strings.                                              *)
(***************************************************************************)

LEMMA SetSheetSizeKeepsModel ==
  ASSUME ModelInv, NEW new \in Sizes, SetSheetSize(new)
  PROVE  ModelInv'
<1>1. /\ Call /\ NoCellChanges /\ NoNewString /\ UNCHANGED << names, expressions >>
      /\ size' = size \/ (sheets = << >> /\ size' = new)
  BY DEF SetSheetSize
<1>2. NamesInv' /\ ExpressionsInv' /\ PoolInv' /\ calls' \in Nat
  BY <1>1, PoolKept DEF ModelInv, NamesInv, ExpressionsInv, NoCellChanges, NamesIn, Call
<1>3. ContentsInv'
  <2>1. CASE size' = size
    BY <1>1, <2>1 DEF ModelInv, ContentsInv, NoCellChanges, NoNewString
  <2>2. CASE sheets = << >> /\ size' = new
    <3>1. IsContents(size, sheets, shown, statuses, pool)
      BY DEF ModelInv, ContentsInv
    <3>2. shown = << >>
      BY <2>2, <3>1 DEF IsContents
    <3>3. << >> \in Seq(Grids(new, StoredCells)) /\ << >> \in Seq(Grids(new, Values))
          /\ DOMAIN << >> = {}
      OBVIOUS
    <3>4. IsContents(new, sheets, shown, statuses, pool)
      BY <2>2, <3>1, <3>2, <3>3 DEF IsContents
    <3> QED
      BY <1>1, <2>2, <3>4 DEF ContentsInv, NoCellChanges, NoNewString
  <2> QED
    BY <1>1, <2>1, <2>2
<1> QED
  BY <1>2, <1>3 DEF ModelInv

\* A sheet without cells that is the last one now.
LEMMA SheetAppended ==
  ASSUME NEW sz, IsASize(sz), NEW sh, NEW sw, NEW st, NEW pl, IsContents(sz, sh, sw, st, pl),
         NEW sheet, sheet = [c \in 1..sz.columns |-> [r \in 1..sz.rows |-> Nothing]]
  PROVE  IsContents(sz, Append(sh, sheet), Append(sw, sheet), st, pl)
<1>1. PICK sh2, sw2 : sh2 = Append(sh, sheet) /\ sw2 = Append(sw, sheet)
  OBVIOUS
<1>2. /\ sh \in Seq(Grids(sz, StoredCells)) /\ sw \in Seq(Grids(sz, Values)) /\ Len(sw) = Len(sh)
  BY DEF IsContents
<1>3. Nothing \in StoredCells /\ Nothing \in Values /\ Nothing.type = "empty"
  BY DEF Nothing, StoredCells, Values
<1>4. /\ sheet \in Grids(sz, StoredCells) /\ sheet \in Grids(sz, Values)
      /\ \A c \in 1..sz.columns, r \in 1..sz.rows : sheet[c][r] = Nothing
  BY <1>3 DEF Grids
<1>5. PICK n : n = Len(sh) + 1
  OBVIOUS
<1>6. /\ sh2 \in Seq(Grids(sz, StoredCells)) /\ sw2 \in Seq(Grids(sz, Values)) /\ Len(sw2) = Len(sh2)
      /\ DOMAIN sh2 = 1..n /\ sh2[n] = sheet /\ sw2[n] = sheet
  BY <1>1, <1>2, <1>4, <1>5
<1>7. ASSUME NEW s \in 1..n, s # n
      PROVE  s \in DOMAIN sh /\ sh2[s] = sh[s] /\ sw2[s] = sw[s]
  BY <1>1, <1>2, <1>5, <1>7
<1>8. ASSUME NEW s \in DOMAIN sh2, NEW c \in 1..sz.columns, NEW r \in 1..sz.rows
      PROVE  Shows(sh2[s][c][r], sw2[s][c][r], st, pl)
  <2>1. CASE s = n
    <3>1. sh2[s] = sheet /\ sw2[s] = sheet /\ sheet[c][r] = Nothing
      BY <1>4, <1>6, <2>1
    <3>2. Shows(Nothing, Nothing, st, pl)
      BY <1>3, Zenon DEF Shows
    <3> QED
      BY <3>1, <3>2, Zenon
  <2>2. CASE s # n
    BY <1>6, <1>7, <2>2 DEF IsContents
  <2> QED
    BY <2>1, <2>2
<1>9. ASSUME NEW s \in DOMAIN sh2, NEW c \in 1..sz.columns, NEW r \in 1..sz.rows,
             NEW t \in DOMAIN sh2, NEW d \in 1..sz.columns, NEW q \in 1..sz.rows,
             SameElement(sh2[s][c][r], sh2[t][d][q])
      PROVE  s = t /\ c = d /\ r = q
  <2>4. sh2[n][c][r].type = "empty" /\ sh2[n][d][q].type = "empty"
    BY <1>3, <1>4, <1>6
  <2>5. sh2[s][c][r].type = "formula" /\ sh2[t][d][q].type = "formula"
    BY <1>9 DEF SameElement
  <2>1. s # n
    BY <2>4, <2>5
  <2>2. t # n
    BY <2>4, <2>5
  <2>3. SameElement(sh[s][c][r], sh[t][d][q]) /\ s \in DOMAIN sh /\ t \in DOMAIN sh
    BY <1>6, <1>7, <1>9, <2>1, <2>2
  <2> QED
    BY <2>3 DEF IsContents
<1>10. Len(st) \in Nat /\ DOMAIN st = 1..Len(st) /\ \A k \in DOMAIN st : IsStatus(st[k])
  BY DEF IsContents
<1>11. IsContents(sz, sh2, sw2, st, pl)
  BY <1>6, <1>8, <1>9, <1>10 DEF IsContents
<1> QED
  BY <1>1, <1>11

LEMMA AppendSheetKeepsModel ==
  ASSUME ModelInv, NEW name \in SheetNames, AppendSheet(name)
  PROVE  ModelInv'
<1>1. Call /\ NoNewString /\ UNCHANGED << size, statuses >>
  BY DEF AppendSheet
<1>2. CASE UNCHANGED << sheets, names, expressions, shown >>
  BY <1>1, <1>2 DEF ModelInv, ContentsInv, NamesInv, PoolInv, ExpressionsInv, Call,
                    NoNewString, NamesIn
<1>3. CASE /\ \A s \in DOMAIN names : names[s] # name
           /\ sheets' = Append(sheets, EmptySheet) /\ shown' = Append(shown, EmptySheet)
           /\ names' = Append(names, name)
           /\ expressions' = [s \in 0..Len(sheets') |->
                                IF s \in DOMAIN expressions THEN expressions[s] ELSE << >>]
  <2>1. /\ size \in Sizes /\ IsASize(size) /\ IsContents(size, sheets, shown, statuses, pool)
        /\ sheets \in Seq(Grids(size, StoredCells))
    BY ContentsFacts DEF ModelInv
  <2>2. IsContents(size, sheets', shown', statuses, pool)
    <3>1. PICK sheet : sheet = EmptySheet
      OBVIOUS
    <3>2. sheet = [c \in 1..size.columns |-> [r \in 1..size.rows |-> Nothing]]
      BY <3>1 DEF EmptySheet
    <3> QED
      BY <1>3, <2>1, <3>1, <3>2, SheetAppended
  <2>3. ContentsInv'
    BY <1>1, <2>1, <2>2 DEF ContentsInv, NoNewString
  <2>4. Len(sheets) \in Nat /\ Len(sheets') = Len(sheets) + 1
    BY <1>3, <2>1
  <2>5. NamesInv'
    <3>1. names \in Seq(SheetNames) /\ Len(names) = Len(sheets) /\ AllDifferent(names)
      BY DEF ModelInv, NamesInv
    <3>2. names' \in Seq(SheetNames) /\ Len(names') = Len(names) + 1
      BY <1>3, <3>1
    <3>3. ASSUME NEW i \in DOMAIN names', NEW j \in DOMAIN names', names'[i] = names'[j]
          PROVE  i = j
      BY <1>3, <3>1, <3>3 DEF AllDifferent
    <3> QED
      BY <2>4, <3>1, <3>2, <3>3 DEF NamesInv, AllDifferent
  <2>6. ExpressionsInv'
    <3>1. DOMAIN expressions' = 0..Len(sheets')
      BY <1>3
    <3>2. ASSUME NEW s \in DOMAIN expressions', NEW n \in DOMAIN expressions'[s]
          PROVE  expressions'[s][n] \in Expressions
      <4>1. CASE s \in DOMAIN expressions
        BY <1>3, <3>1, <3>2, <4>1 DEF ModelInv, ExpressionsInv, NamesIn
      <4>2. CASE s \notin DOMAIN expressions
        BY <1>3, <3>1, <3>2, <4>2
      <4> QED
        BY <4>1, <4>2
    <3> QED
      BY <3>1, <3>2 DEF ExpressionsInv, NamesIn
  <2> QED
    BY <1>1, <2>3, <2>5, <2>6, PoolKept DEF ModelInv, Call
<1> QED
  BY <1>2, <1>3 DEF AppendSheet

LEMMA SetSheetNameKeepsModel ==
  ASSUME ModelInv, NEW s, NEW name \in SheetNames, SetSheetName(s, name)
  PROVE  ModelInv'
<1>1. Call /\ NoCellChanges /\ NoNewString /\ UNCHANGED << size, expressions >>
  BY DEF SetSheetName
<1>2. ContentsInv' /\ ExpressionsInv' /\ PoolInv' /\ calls' \in Nat
  BY <1>1, PoolKept DEF ModelInv, ContentsInv, ExpressionsInv, NoCellChanges, NoNewString, NamesIn, Call
<1>3. NamesInv'
  <2>1. names \in Seq(SheetNames) /\ Len(names) = Len(sheets) /\ AllDifferent(names)
        /\ sheets' = sheets
    BY <1>1 DEF ModelInv, NamesInv, NoCellChanges
  <2>2. CASE UNCHANGED names
    BY <2>1, <2>2 DEF NamesInv
  <2>3. CASE /\ s \in DOMAIN names /\ \A t \in DOMAIN names : t # s => names[t] # name
             /\ names' = [names EXCEPT ![s] = name]
    <3>1. names' \in Seq(SheetNames) /\ Len(names') = Len(names) /\ DOMAIN names' = DOMAIN names
      BY <2>1, <2>3
    <3>2. AllDifferent(names')
      BY <2>1, <2>3 DEF AllDifferent
    <3> QED
      BY <2>1, <3>1, <3>2 DEF NamesInv
  <2> QED
    BY <2>2, <2>3 DEF SetSheetName
<1> QED
  BY <1>2, <1>3 DEF ModelInv

LEMMA SetNamedExpressionKeepsModel ==
  ASSUME ModelInv, NEW scope, NEW n \in ExpressionNames, NEW e \in Expressions,
         SetNamedExpression(scope, n, e)
  PROVE  ModelInv'
<1>1. Call /\ NoCellChanges /\ NoNewString /\ UNCHANGED << names, size >>
  BY DEF SetNamedExpression
<1>2. ContentsInv' /\ NamesInv' /\ PoolInv' /\ calls' \in Nat
  BY <1>1, PoolKept DEF ModelInv, ContentsInv, NamesInv, NoCellChanges, NoNewString, Call
<1>3. ExpressionsInv'
  <2>1. sheets' = sheets
    BY <1>1 DEF NoCellChanges
  <2>2. CASE UNCHANGED expressions
    BY <2>1, <2>2 DEF ModelInv, ExpressionsInv, NamesIn
  <2>3. CASE ~ UNCHANGED expressions
    <3>1. /\ scope \in DOMAIN expressions
          /\ expressions' = [expressions EXCEPT ![scope] =
               [m \in DOMAIN expressions[scope] \cup {n} |->
                  IF m \in DOMAIN expressions[scope] THEN expressions[scope][m] ELSE e]]
      BY <2>3 DEF SetNamedExpression
    <3>2. \A s \in DOMAIN expressions : \A m \in DOMAIN expressions[s] : expressions[s][m] \in Expressions
      BY DEF ModelInv, ExpressionsInv, NamesIn
    <3>3. \A s \in DOMAIN expressions' : \A m \in DOMAIN expressions'[s] : expressions'[s][m] \in Expressions
      BY <3>1, <3>2
    <3>4. DOMAIN expressions' = 0..Len(sheets')
      BY <2>1, <3>1 DEF ModelInv, ExpressionsInv
    <3> QED
      BY <3>3, <3>4 DEF ExpressionsInv, NamesIn
  <2> QED
    BY <2>2, <2>3
<1> QED
  BY <1>2, <1>3 DEF ModelInv

LEMMA StringsKeepModel ==
  ASSUME ModelInv, NEW s \in Texts, AppendString(s) \/ AddString(s)
  PROVE  ModelInv'
<1>1. /\ Call /\ NoCellChanges /\ UNCHANGED << names, size, expressions >>
      /\ AppendToPool(s) \/ AddToPool(s)
  BY DEF AppendString, AddString
<1>2. PoolInv' /\ More(pool, pool')
  BY <1>1, AppendKeepsPool, AddKeepsPool DEF ModelInv
<1>3. NamesInv' /\ ExpressionsInv' /\ calls' \in Nat
  BY <1>1 DEF ModelInv, NamesInv, ExpressionsInv, NoCellChanges, NamesIn, Call
<1>4. ContentsInv'
  <2>1. /\ size \in Sizes /\ IsContents(size, sheets, shown, statuses, pool)
        /\ More(statuses, statuses')
    BY <1>1 DEF ModelInv, ContentsInv, NoCellChanges, More
  <2>2. IsContents(size, sheets, shown, statuses, pool')
    <3>1. ASSUME NEW t \in DOMAIN sheets, NEW c \in 1..size.columns, NEW r \in 1..size.rows
          PROVE  Shows(sheets[t][c][r], shown[t][c][r], statuses, pool')
      <4>1. Shows(sheets[t][c][r], shown[t][c][r], statuses, pool)
        BY <2>1 DEF IsContents
      <4>2. More(statuses, statuses)
        BY DEF More
      <4> QED
        BY <1>2, <4>1, <4>2, ShowsMore
    <3> QED
      BY <2>1, <3>1 DEF IsContents
  <2> QED
    BY <1>1, <2>1, <2>2 DEF ContentsInv, NoCellChanges
<1> QED
  BY <1>2, <1>3, <1>4 DEF ModelInv

-----------------------------------------------------------------------------
(***************************************************************************)
(* Theorems.                                                               *)
(***************************************************************************)

LEMMA ModelStep == ModelInv /\ [Next]_vars => ModelInv'
<1> SUFFICES ASSUME ModelInv, [Next]_vars PROVE ModelInv'
  OBVIOUS
<1>1. ASSUME NEW a \in AllAddresses, SetCell(a) PROVE ModelInv'
  <2>1. CASE EmptyCell(a)
    BY <2>1, EmptyCellKeepsModel
  <2>2. CASE \E n \in Numbers : SetNumericCell(a, n)
    BY <2>2, SetNumericCellKeepsModel
  <2>3. CASE \E b \in BOOLEAN : SetBooleanCell(a, b)
    BY <2>3, SetBooleanCellKeepsModel
  <2>4. CASE \E s \in Texts : SetStringCell(a, s)
    BY <2>4, SetStringCellKeepsModel
  <2>5. CASE \E id \in {EmptyId} \cup DOMAIN pool : SetStringCellById(a, id)
    BY <2>5, SetStringCellByIdKeepsModel
  <2>6. CASE \E n \in 1..2 : FillDownCells(a, n)
    <3>1. 1..2 \subseteq Nat
      OBVIOUS
    <3> QED
      BY <2>6, <3>1, FillDownCellsKeepsModel
  <2> QED
    BY <1>1, <2>1, <2>2, <2>3, <2>4, <2>5, <2>6 DEF SetCell
<1>2. ASSUME NEW a \in AllAddresses, SetFormula(a) PROVE ModelInv'
  <2>1. CASE \E v \in {NoResult} \cup CellResults : SetFormulaCell(a, v)
    BY <2>1, SetFormulaCellKeepsModel
  <2>2. CASE \E g \in Groups, v \in {NoResult} \cup GroupResults :
               SetGroupedFormulaCells(a, g.rows, g.columns, v)
    BY <2>2, SetGroupedFormulaCellsKeepsModel
  <2>3. CASE \E v \in CellResults \cup GroupResults : SetResultCache(a, v) \/ Interpret(a, v)
    BY <2>3, SetResultCacheKeepsModel, InterpretKeepsModel
  <2> QED
    BY <1>2, <2>1, <2>2, <2>3 DEF SetFormula
<1>3. ASSUME ChangeStrings PROVE ModelInv'
  BY <1>3, StringsKeepModel DEF ChangeStrings
<1>4. ASSUME ChangeNames PROVE ModelInv'
  <2>1. CASE \E new \in Sizes : SetSheetSize(new)
    BY <2>1, SetSheetSizeKeepsModel
  <2>2. CASE \E name \in SheetNames : AppendSheet(name) \/ \E s \in 0..2 : SetSheetName(s, name)
    BY <2>2, AppendSheetKeepsModel, SetSheetNameKeepsModel
  <2>3. CASE \E scope \in 0..2, n \in ExpressionNames, e \in Expressions : SetNamedExpression(scope, n, e)
    BY <2>3, SetNamedExpressionKeepsModel
  <2> QED
    BY <1>4, <2>1, <2>2, <2>3 DEF ChangeNames
<1>5. CASE UNCHANGED vars
  BY <1>5 DEF vars, ModelInv, ContentsInv, NamesInv, PoolInv, ExpressionsInv, NamesIn
<1> QED
  BY <1>1, <1>2, <1>3, <1>4, <1>5 DEF Next

LEMMA ModelAlways == Spec => []ModelInv
<1> QED
  BY ModelStarts, ModelStep, PTL DEF Spec

\* All sheets are of one size, and their cells, the names, the texts of the
\* pool and the history are what they should be (TypeOK): whatever is set,
\* filled down or cut off at the edge of a sheet (model_context_impl).
THEOREM ModelWellTyped == Spec => []TypeOK
<1>1. ModelInv => TypeOK
  <2> SUFFICES ASSUME ModelInv PROVE TypeOK
    OBVIOUS
  <2>1. /\ size \in Sizes /\ IsASize(size) /\ IsContents(size, sheets, shown, statuses, pool)
        /\ sheets \in Seq(Grids(size, StoredCells)) /\ shown \in Seq(Grids(size, Values))
        /\ Len(shown) = Len(sheets) /\ DOMAIN shown = DOMAIN sheets
    BY ContentsFacts DEF ModelInv
  <2>2. ASSUME NEW s \in DOMAIN sheets
        PROVE  Len(sheets[s]) = size.columns /\ Len(shown[s]) = size.columns
    <3>1. Len(sheets[s]) = size.columns
      BY <2>1, GridFacts
    <3>2. Len(shown[s]) = size.columns
      BY <2>1, GridFacts
    <3> QED
      BY <3>1, <3>2
  <2>3. ASSUME NEW s \in DOMAIN sheets, NEW c \in 1..size.columns, NEW r \in 1..size.rows
        PROVE  /\ sheets[s][c][r] \in StoredCells /\ shown[s][c][r] \in Values
               /\ sheets[s][c][r].type = "formula" => sheets[s][c][r].status \in DOMAIN statuses
    <3>1. sheets[s][c][r] \in StoredCells
      BY <2>1, GridFacts
    <3>2. shown[s][c][r] \in Values
      BY <2>1, GridFacts
    <3>3. Shows(sheets[s][c][r], shown[s][c][r], statuses, pool)
      BY <2>1 DEF IsContents
    <3> QED
      BY <3>1, <3>2, <3>3, Zenon DEF Shows
  <2> QED
    BY <2>1, <2>2, <2>3 DEF TypeOK, ModelInv, NamesInv, PoolInv, ExpressionsInv
<1> QED
  BY <1>1, ModelAlways, PTL

\* A name or an identifier that was given leads back to what it was given
\* to (LookupsAgree), also after names were exchanged and texts appended
\* twice (get_sheet_index, safe_string_pool, get_named_expression).
THEOREM LookupsLeadBack == Spec => []LookupsAgree
<1>1. ModelInv => LookupsAgree
  <2> SUFFICES ASSUME ModelInv PROVE LookupsAgree
    OBVIOUS
  <2>1. ASSUME NEW s \in DOMAIN names
        PROVE  SheetIndex(names[s]) = IF names[s] = NoText THEN -1 ELSE s
    <3> DEFINE found == { t \in DOMAIN names : names[t] # NoText /\ names[t] = names[s] }
    <3>1. \A t \in DOMAIN names : names[t] = names[s] => t = s
      BY DEF ModelInv, NamesInv, AllDifferent
    <3>2. CASE names[s] = NoText
      <4>1. found = {}
        BY <3>2
      <4> QED
        BY <3>2, <4>1 DEF SheetIndex
    <3>3. CASE names[s] # NoText
      <4>1. found = {s}
        BY <3>1, <3>3
      <4>2. s \in Nat
        BY DEF ModelInv, NamesInv
      <4>3. (CHOOSE t \in found : \A u \in found : t <= u) = s
        <5>1. \A t \in found : t = s
          BY <4>1
        <5>2. s \in found /\ \A u \in found : s <= u
          BY <4>1, <4>2
        <5> HIDE DEF found
        <5>3. \E t \in found : \A u \in found : t <= u
          BY <5>2
        <5>4. (CHOOSE t \in found : \A u \in found : t <= u) \in found
          BY <5>3
        <5> QED
          BY <5>1, <5>4
      <4>4. SheetIndex(names[s]) = IF found = {} THEN -1 ELSE CHOOSE t \in found : \A u \in found : t <= u
        BY DEF SheetIndex
      <4>5. found # {}
        BY <4>1
      <4> HIDE DEF found
      <4> QED
        BY <3>3, <4>3, <4>4, <4>5
    <3> QED
      BY <3>2, <3>3
  <2>2. ASSUME NEW k \in DOMAIN pool
        PROVE  /\ pool[k] \in DOMAIN string_map
               /\ pool[string_map[pool[k]]] = pool[k]
               /\ string_map[pool[k]] <= k
    BY DEF ModelInv, PoolInv
  <2>3. ASSUME NEW a \in AllAddresses, Cell(a).type = "string"
        PROVE  Cell(a).id \in {EmptyId} \cup DOMAIN pool
    <3>1. Shows(Cell(a), shown[a.sheet + 1][a.column + 1][a.row + 1], statuses, pool)
      BY CellFacts DEF ModelInv
    <3> QED
      BY <2>3, <3>1, Zenon DEF Shows
  <2>4. ASSUME NEW s \in 0..Len(sheets) + 1, NEW n \in ExpressionNames
        PROVE  GetNamedExpression(s, n) # NoExpression
                 <=> \E scope \in {0, s} \cap DOMAIN expressions : n \in NamesIn(scope)
    <3>1. /\ DOMAIN expressions = 0..Len(sheets) /\ Len(sheets) \in Nat
          /\ DOMAIN sheets = 1..Len(sheets)
      <4>1. sheets \in Seq(Grids(size, StoredCells))
        BY ContentsFacts DEF ModelInv
      <4> QED
        BY <4>1 DEF ModelInv, ExpressionsInv
    <3>2. \A scope \in DOMAIN expressions : n \in NamesIn(scope) => expressions[scope][n] # NoExpression
      BY ModelAssumption DEF ModelInv, ExpressionsInv
    <3>3. 0 \in DOMAIN expressions /\ (s \in DOMAIN sheets => s \in DOMAIN expressions)
          /\ (s \in DOMAIN expressions => s = 0 \/ s \in DOMAIN sheets)
      BY <3>1
    <3>4. CASE s \in DOMAIN sheets /\ n \in NamesIn(s)
      BY <3>2, <3>3, <3>4 DEF GetNamedExpression
    <3>5. CASE ~(s \in DOMAIN sheets /\ n \in NamesIn(s))
      BY <3>2, <3>3, <3>5 DEF GetNamedExpression
    <3> QED
      BY <3>4, <3>5
  <2> QED
    BY <2>1, <2>2, <2>3, <2>4 DEF LookupsAgree
<1> QED
  BY <1>1, ModelAlways, PTL

\* What the readers say of a cell that is no formula cell.
Reads(cell, v) ==
  /\ NumericValue(cell) = ShownNumber(cell, v)
  /\ StringValue(cell) = IF v.type = "string" THEN v.text
                         ELSE IF cell.type = "formula" THEN Threw ELSE NoText
  /\ CellValueType(cell) = ShownType(cell, v)

LEMMA PlainCellReads ==
  ASSUME ModelInv, NEW cell \in StoredCells, NEW v \in Values, Shows(cell, v, statuses, pool),
         cell.type # "formula"
  PROVE  Reads(cell, v)
<1>1. CASE cell.type = "string"
  <2>1. EmptyId \notin DOMAIN pool
    BY DEF ModelInv, PoolInv, EmptyId
  <2>2. v = Text(PoolString(cell.id))
    <3>1. /\ cell.id \in {EmptyId} \cup DOMAIN pool
          /\ v = Text(IF cell.id = EmptyId THEN NoText ELSE pool[cell.id])
      BY <1>1, Zenon DEF Shows
    <3> QED
      BY <2>1, <3>1 DEF PoolString
  <2>3. v.type = "string" /\ v.text = PoolString(cell.id)
    BY <2>2 DEF Text
  <2>4. NumericValue(cell) = 0
    BY <1>1 DEF NumericValue
  <2>5. ShownNumber(cell, v) = 0
    BY <1>1, <2>3 DEF ShownNumber
  <2>6. StringValue(cell) = PoolString(cell.id)
    BY <1>1 DEF StringValue
  <2>7. CellValueType(cell) = "string" /\ ShownType(cell, v) = "string"
    BY <1>1, <2>3 DEF CellValueType, ShownType
  <2> QED
    BY <2>3, <2>4, <2>5, <2>6, <2>7 DEF Reads
<1>2. CASE cell.type # "string"
  <2>1. v = cell
    BY <1>2, Zenon DEF Shows
  <2>2. cell.type \in {"numeric", "boolean", "empty"}
    BY <1>2 DEF StoredCells, Nothing
  <2>3. NumericValue(cell) = ShownNumber(cell, cell)
    BY <2>2 DEF NumericValue, ShownNumber, Truth
  <2>4. StringValue(cell) = NoText
    BY <2>2 DEF StringValue
  <2>5. CellValueType(cell) = ShownType(cell, cell)
    BY <2>2 DEF CellValueType, ShownType
  <2> QED
    BY <2>1, <2>2, <2>3, <2>4, <2>5 DEF Reads
<1> QED
  BY <1>1, <1>2

\* The same of a formula cell, whose result may be in a matrix.
LEMMA FormulaCellReads ==
  ASSUME ModelInv, NEW cell \in StoredCells, NEW v \in Values, Shows(cell, v, statuses, pool),
         cell.type = "formula"
  PROVE  Reads(cell, v)
<1>1. PICK status : status = statuses[cell.status]
  OBVIOUS
<1>2. ShowsResult(cell, v, status) /\ IsStatus(status)
  <2>1. cell.status \in DOMAIN statuses /\ ShowsResult(cell, v, statuses[cell.status])
    BY Zenon DEF Shows
  <2> QED
    BY <1>1, <2>1, ContentsFacts DEF ModelInv, AreStatuses
<1>3. PICK r : r = status.result
  OBVIOUS
<1>4. PICK read : read = Result(cell)
  OBVIOUS
<1>5. /\ NumericValue(cell) = ResultNumber(cell)
      /\ StringValue(cell) = IF read.type = "string" THEN read.text ELSE Threw
      /\ CellValueType(cell) = IF read.type = "no_result" THEN Threw ELSE read.type
  <2>1. NumericValue(cell) = ResultNumber(cell)
    BY Zenon DEF NumericValue
  <2>2. StringValue(cell) = IF read.type = "string" THEN read.text ELSE Threw
    BY <1>4, Zenon DEF StringValue
  <2>3. CellValueType(cell) = IF read.type = "no_result" THEN Threw ELSE read.type
    BY <1>4 DEF CellValueType
  <2> QED
    BY <2>1, <2>2, <2>3
<1>6. ResultNumber(cell) = CASE read.type = "numeric" -> read.number
                             [] read.type = "boolean" -> IF read.boolean THEN 1 ELSE 0
                             [] OTHER -> Threw
  BY <1>4, Zenon DEF ResultNumber
<1>7. ShownType(cell, v) = CASE v.type = "no_result" -> Threw
                             [] v.type = "boolean" /\ r.type = "matrix" -> "numeric"
                             [] OTHER -> v.type
  BY <1>1, <1>3, Zenon DEF ShownType
<1>8. ShownNumber(cell, v) = CASE v.type = "numeric" -> v.number
                               [] v.type = "boolean" -> IF v.boolean THEN 1 ELSE 0
                               [] OTHER -> Threw
  BY Zenon DEF ShownNumber, Truth
<1>9. v.type \in {"numeric", "boolean", "string", "error", "empty", "no_result"}
  BY DEF Values, Error, Nothing, NoResult
<1>10. CASE r.type # "matrix"
  <2>1. read = r /\ v = r
    <3>1. v = r
      BY <1>2, <1>3, <1>10 DEF ShowsResult
    <3>2. read = r
      BY <1>1, <1>3, <1>4, <1>10 DEF Result
    <3> QED
      BY <3>1, <3>2
  <2>2. ResultNumber(cell) = ShownNumber(cell, v)
    BY <1>6, <1>8, <1>9, <2>1
  <2>3. ShownType(cell, v) = IF v.type = "no_result" THEN Threw ELSE v.type
    BY <1>7, <1>9, <1>10
  <2> QED
    BY <1>5, <2>1, <2>2, <2>3 DEF Reads
<1>11. CASE r.type = "matrix"
  <2>1. IsMatrix(r)
    BY <1>2, <1>3, <1>11, NoMatrices DEF IsStatus, PlainResults, NoResult
  <2>2. /\ cell.row # Ungrouped
        /\ cell.row \in 0..(status.rows - 1) /\ cell.column \in 0..(status.columns - 1)
        /\ v = IF InMatrix(cell, r.rows) THEN Kept(Element(r, cell.row, cell.column)) ELSE Error
    BY <1>2, <1>3, <1>11 DEF ShowsResult
  <2>3. read = IF InMatrix(cell, r.rows) THEN Picked(Element(r, cell.row, cell.column)) ELSE Error
    BY <1>1, <1>3, <1>4, <1>11, <2>2 DEF Result, Element
  <2>4. CASE InMatrix(cell, r.rows)
    <3>1. PICK e : e = Element(r, cell.row, cell.column)
      OBVIOUS
    <3>2. e \in Values \ {NoResult}
      <4>1. Len(r.rows) \in Nat /\ Len(r.rows[1]) \in Nat
        BY <2>1 DEF IsMatrix
      <4>2. cell.row < Len(r.rows) /\ cell.column < Len(r.rows[1])
        BY <2>4 DEF InMatrix
      <4>3. cell.row \in Nat /\ cell.column \in Nat
        BY <1>2, <2>2 DEF IsStatus
      <4>4. cell.row \in 0..(Len(r.rows) - 1) /\ cell.column \in 0..(Len(r.rows[1]) - 1)
        BY <4>1, <4>2, <4>3
      <4> QED
        BY <2>1, <3>1, <4>4, ElementFacts
    <3>3. v = Kept(e) /\ read = Picked(e)
      BY <2>2, <2>3, <2>4, <3>1
    <3>4. CASE e.type = "boolean"
      <4>1. v = e
        BY <3>3, <3>4 DEF Kept, Nothing
      <4>2. read = Number(IF e.boolean THEN 1 ELSE 0)
        BY <3>3, <3>4, Zenon DEF Picked
      <4>3. read.type = "numeric" /\ read.number = IF e.boolean THEN 1 ELSE 0
        BY <4>2 DEF Number
      <4>4. ResultNumber(cell) = ShownNumber(cell, v)
        BY <1>6, <1>8, <3>4, <4>1, <4>3
      <4>5. ShownType(cell, v) = "numeric"
        BY <1>7, <1>11, <3>4, <4>1
      <4> QED
        BY <1>5, <3>4, <4>1, <4>3, <4>4, <4>5 DEF Reads
    <3>5. CASE e.type = "empty"
      <4>1. e = Nothing
        BY <3>2, <3>5 DEF Values, Error, NoResult
      <4>2. v = Number(0)
        BY <3>3, <4>1 DEF Kept
      <4>3. read = Number(0)
        BY <3>3, <3>5, Zenon DEF Picked
      <4>4. v.type = "numeric" /\ read = v
        BY <4>2, <4>3 DEF Number
      <4>5. ResultNumber(cell) = ShownNumber(cell, v) /\ ShownType(cell, v) = "numeric"
        BY <1>6, <1>7, <1>8, <4>4
      <4> QED
        BY <1>5, <4>4, <4>5 DEF Reads
    <3>6. CASE e.type \notin {"boolean", "empty"}
      <4>1. v = e
        BY <3>3, <3>6 DEF Kept, Nothing
      <4>2. read = e
        BY <3>3, <3>6, Zenon DEF Picked
      <4>3. v.type # "no_result"
        BY <3>2, <4>1 DEF Values, Error, Nothing
      <4>4. ResultNumber(cell) = ShownNumber(cell, v)
        BY <1>6, <1>8, <1>9, <4>1, <4>2
      <4>5. ShownType(cell, v) = v.type
        BY <1>7, <3>6, <4>1, <4>3
      <4> QED
        BY <1>5, <4>1, <4>2, <4>3, <4>4, <4>5 DEF Reads
    <3> QED
      BY <3>4, <3>5, <3>6
  <2>5. CASE ~InMatrix(cell, r.rows)
    <3>1. v = Error /\ read = Error /\ Error.type = "error"
      BY <2>2, <2>3, <2>5 DEF Error
    <3>2. ResultNumber(cell) = ShownNumber(cell, v) /\ ShownType(cell, v) = "error"
      BY <1>6, <1>7, <1>8, <3>1
    <3> QED
      BY <1>5, <3>1, <3>2 DEF Reads
  <2> QED
    BY <2>4, <2>5
<1> QED
  BY <1>10, <1>11

\* Every reader shows of every cell what was put there last
\* (ReadsWhatWasPut): whatever was appended to the pool, filled down, set
\* in a group or put as a result of another cell of a group since
\* (get_numeric_value, get_string_value, get_cell_value_type).
THEOREM ReadersShowWhatWasPut == Spec => []ReadsWhatWasPut
<1>1. ModelInv => ReadsWhatWasPut
  <2> SUFFICES ASSUME ModelInv,
                      NEW s \in DOMAIN sheets, NEW c \in DOMAIN sheets[s], NEW r \in DOMAIN sheets[s][c]
      PROVE  LET cell == sheets[s][c][r]
                 v    == shown[s][c][r]
                 n    == ShownNumber(cell, v)
             IN  /\ HasNumber(cell, v) =>
                      /\ NumericValue(cell) = n
                      /\ BooleanValue(cell) = IF n = Threw THEN Threw ELSE n # 0
                 /\ HasText(cell, v) => StringValue(cell) = IF v.type = "string" THEN v.text ELSE NoText
                 /\ CellValueType(cell) = ShownType(cell, v)
    BY DEF ReadsWhatWasPut
  <2>1. /\ IsASize(size) /\ IsContents(size, sheets, shown, statuses, pool)
        /\ sheets \in Seq(Grids(size, StoredCells)) /\ shown \in Seq(Grids(size, Values))
        /\ DOMAIN shown = DOMAIN sheets
    BY ContentsFacts DEF ModelInv
  <2>2. c \in 1..size.columns
    BY <2>1, GridFacts
  <2>3. r \in 1..size.rows /\ sheets[s][c][r] \in StoredCells
    BY <2>1, <2>2, GridFacts
  <2>4. shown[s][c][r] \in Values
    BY <2>1, <2>2, <2>3, GridFacts
  <2>5. Shows(sheets[s][c][r], shown[s][c][r], statuses, pool)
    BY <2>1, <2>2, <2>3 DEF IsContents
  <2>6. PICK cell, v : cell = sheets[s][c][r] /\ v = shown[s][c][r]
    OBVIOUS
  <2>7. Reads(cell, v)
    BY <2>3, <2>4, <2>5, <2>6, PlainCellReads, FormulaCellReads
  <2>8. BooleanValue(cell) = IF ShownNumber(cell, v) = Threw THEN Threw ELSE ShownNumber(cell, v) # 0
    BY <2>7 DEF BooleanValue, Reads
  <2>9. HasText(cell, v) => StringValue(cell) = IF v.type = "string" THEN v.text ELSE NoText
    BY <2>7 DEF Reads, HasText
  <2> QED
    BY <2>6, <2>7, <2>8, <2>9 DEF Reads
<1> QED
  BY <1>1, ModelAlways, PTL

-----------------------------------------------------------------------------
(* Address iterators.                                                        *)

\* An iterator of the range; the end is a place behind the last address.
IsIterator(range, it) ==
  /\ it \in [position : Address, end : BOOLEAN] /\ Contains(range, it.position)
  /\ it.end => it.position = range.last

\* The orders of the two directions.
Precedes(a, b, fast, slow) ==
  \/ a.sheet < b.sheet
  \/ a.sheet = b.sheet /\ a[slow] < b[slow]
  \/ a.sheet = b.sheet /\ a[slow] = b[slow] /\ a[fast] < b[fast]

AreDirections(fast, slow) ==
  \/ fast = "row" /\ slow = "column"
  \/ fast = "column" /\ slow = "row"

Is(a, sheet, slow, s, fast, f) == a \in Address /\ a.sheet = sheet /\ a[slow] = s /\ a[fast] = f

LEMMA AddressMoved ==
  ASSUME NEW fast, NEW slow, AreDirections(fast, slow), NEW p \in Address, NEW x \in Int, NEW y \in Int
  PROVE  /\ Is([p EXCEPT ![fast] = x], p.sheet, slow, p[slow], fast, x)
         /\ Is([p EXCEPT ![slow] = y, ![fast] = x], p.sheet, slow, y, fast, x)
         /\ Is([p EXCEPT !.sheet = x], x, slow, p[slow], fast, p[fast])
BY DEF AreDirections, Is, Address

LEMMA SameAddress ==
  ASSUME NEW fast, NEW slow, AreDirections(fast, slow), NEW p \in Address, NEW q \in Address,
         p.sheet = q.sheet, p[fast] = q[fast], p[slow] = q[slow]
  PROVE  p = q
BY DEF AreDirections, Address

\* An iterator with another position.
LEMMA IteratorMoved ==
  ASSUME NEW p, NEW e, NEW c, NEW y, NEW d, NEW z, NEW it, it = [position |-> p, end |-> e]
  PROVE  /\ [it EXCEPT !.position = z] = [position |-> z, end |-> e]
         /\ [it EXCEPT !.end = z] = [position |-> p, end |-> z]
         /\ [it EXCEPT !.position[c] = z] = [position |-> [p EXCEPT ![c] = z], end |-> e]
         /\ [it EXCEPT !.position[c] = z, !.position[d] = y]
            = [position |-> [p EXCEPT ![c] = z, ![d] = y], end |-> e]
<1>1. it.position = p
  OBVIOUS
<1>2. [it EXCEPT !.position[c] = z] = [position |-> [p EXCEPT ![c] = z], end |-> e]
  OBVIOUS
<1>3. PICK jt : jt = [it EXCEPT !.position[c] = z]
  OBVIOUS
<1>4. PICK q : q = [p EXCEPT ![c] = z]
  OBVIOUS
<1>5. jt = [position |-> q, end |-> e]
  BY <1>2, <1>3, <1>4
<1>6. [jt EXCEPT !.position[d] = y] = [position |-> [q EXCEPT ![d] = y], end |-> e]
  BY <1>5
<1>7. [it EXCEPT !.position = z] = [position |-> z, end |-> e]
  OBVIOUS
<1>8. [it EXCEPT !.end = z] = [position |-> p, end |-> z]
  OBVIOUS
<1> QED
  BY <1>2, <1>3, <1>4, <1>6, <1>7, <1>8

\* The bounds of a range, in the directions of an iterator.
Bounds(range, f, l, fast, slow) ==
  /\ f \in Address /\ l \in Address /\ range.first = f /\ range.last = l
  /\ \A a \in Address : a.sheet \in Int /\ a[fast] \in Int /\ a[slow] \in Int
  /\ f.sheet <= l.sheet /\ f[fast] <= l[fast] /\ f[slow] <= l[slow]
  /\ \A a \in Address : Contains(range, a) <=>
       a.sheet \in f.sheet..l.sheet /\ a[fast] \in f[fast]..l[fast] /\ a[slow] \in f[slow]..l[slow]

LEMMA RangeBounds ==
  ASSUME NEW fast, NEW slow, AreDirections(fast, slow), NEW range \in CellRanges, ValidRange(range)
  PROVE  Bounds(range, range.first, range.last, fast, slow)
BY DEF AreDirections, Bounds, CellRanges, Address, ValidRange, Contains

\* What an iterator comes to in a step: no address of the range is passed over.
LeadsOn(range, it, next, fast, slow) ==
  /\ IsIterator(range, next)
  /\ IF next.end THEN it.position = range.last
     ELSE Precedes(it.position, next.position, fast, slow)
  /\ \A a \in Address : Contains(range, a) /\ Precedes(it.position, a, fast, slow) =>
       ~next.end /\ ~Precedes(a, next.position, fast, slow)

LEMMA AddressAhead ==
  ASSUME NEW fast, NEW slow, AreDirections(fast, slow),
         NEW range \in CellRanges, ValidRange(range), NEW it, IsIterator(range, it), ~it.end
  PROVE  /\ LeadsOn(range, it, Increment(range, it, fast, slow), fast, slow)
         /\ Decrement(range, Increment(range, it, fast, slow), fast, slow) = it
<1>1. PICK p \in Address : it = [position |-> p, end |-> FALSE] /\ Contains(range, p)
  BY DEF IsIterator
<1>2. PICK f, l : Bounds(range, f, l, fast, slow)
  BY RangeBounds
<1> USE <1>2 DEF Bounds
<1>3. PICK next : next = Increment(range, it, fast, slow)
  OBVIOUS
<1>4. /\ p.sheet \in f.sheet..l.sheet /\ p[fast] \in f[fast]..l[fast] /\ p[slow] \in f[slow]..l[slow]
      /\ p.sheet \in Int /\ p[fast] \in Int /\ p[slow] \in Int
  BY <1>1
<1>6. CASE p[fast] < l[fast]
  <2>1. PICK x \in Int : x = p[fast] + 1
    BY <1>4
  <2>2. PICK n : n = [p EXCEPT ![fast] = x]
    OBVIOUS
  <2>3. Is(n, p.sheet, slow, p[slow], fast, x)
    BY <2>2, AddressMoved
  <2>4. next = [position |-> n, end |-> FALSE]
    <3>1. next = [it EXCEPT !.position[fast] = x]
      BY <1>1, <1>3, <1>6, <2>1 DEF Increment
    <3> QED
      BY <1>1, <2>2, <3>1, IteratorMoved
  <2>5. LeadsOn(range, it, next, fast, slow)
    BY <1>1, <1>4, <1>6, <2>1, <2>3, <2>4 DEF LeadsOn, IsIterator, Precedes, Is
  <2>6. Decrement(range, next, fast, slow) = [next EXCEPT !.position[fast] = p[fast]]
    <3>1. /\ ~next.end /\ next.position = n /\ n[fast] - 1 = p[fast] /\ f[fast] < n[fast]
      BY <1>4, <2>1, <2>3, <2>4 DEF Is
    <3> QED
      BY <3>1 DEF Decrement
  <2>7. [n EXCEPT ![fast] = p[fast]] = p
    <3>1. PICK q : q = [n EXCEPT ![fast] = p[fast]]
      OBVIOUS
    <3>2. Is(q, p.sheet, slow, p[slow], fast, p[fast])
      <4>1. n \in Address /\ n.sheet = p.sheet /\ n[slow] = p[slow] /\ p[fast] \in Int
        BY <1>4, <2>3 DEF Is
      <4> QED
        BY <3>1, <4>1, AddressMoved
    <3> QED
      BY <3>1, <3>2, SameAddress DEF Is
  <2>8. Decrement(range, next, fast, slow) = it
    BY <1>1, <2>4, <2>6, <2>7, IteratorMoved
  <2> QED
    BY <1>3, <2>5, <2>8
<1>7. CASE p[fast] >= l[fast] /\ p[slow] < l[slow]
  <2>1. PICK x \in Int : x = p[slow] + 1
    BY <1>4
  <2>2. PICK n : n = [p EXCEPT ![slow] = x, ![fast] = f[fast]]
    OBVIOUS
  <2>3. Is(n, p.sheet, slow, x, fast, f[fast])
    BY <2>2, AddressMoved
  <2>4. next = [position |-> n, end |-> FALSE]
    <3>1. next = [it EXCEPT !.position[slow] = x, !.position[fast] = f[fast]]
      BY <1>1, <1>3, <1>4, <1>7, <2>1 DEF Increment
    <3> QED
      BY <1>1, <2>2, <3>1, IteratorMoved
  <2>5. LeadsOn(range, it, next, fast, slow)
    BY <1>1, <1>4, <1>7, <2>1, <2>3, <2>4 DEF LeadsOn, IsIterator, Precedes, Is
  <2>6. Decrement(range, next, fast, slow) =
          [next EXCEPT !.position[slow] = p[slow], !.position[fast] = l[fast]]
    <3>1. /\ ~next.end /\ next.position = n /\ n[slow] - 1 = p[slow] /\ f[slow] < n[slow]
          /\ ~(f[fast] < n[fast])
      BY <1>4, <2>1, <2>3, <2>4 DEF Is
    <3> QED
      BY <3>1 DEF Decrement
  <2>7. [n EXCEPT ![slow] = p[slow], ![fast] = l[fast]] = p
    <3>1. PICK q : q = [n EXCEPT ![slow] = p[slow], ![fast] = l[fast]]
      OBVIOUS
    <3>2. Is(q, p.sheet, slow, p[slow], fast, p[fast])
      <4>1. /\ n \in Address /\ n.sheet = p.sheet /\ p[slow] \in Int /\ l[fast] = p[fast]
            /\ l[fast] \in Int
        BY <1>4, <1>7, <2>3 DEF Is
      <4> QED
        BY <3>1, <4>1, AddressMoved
    <3> QED
      BY <3>1, <3>2, SameAddress DEF Is
  <2>8. Decrement(range, next, fast, slow) = it
    BY <1>1, <2>4, <2>6, <2>7, IteratorMoved
  <2> QED
    BY <1>3, <2>5, <2>8
<1>8. CASE p[fast] >= l[fast] /\ p[slow] >= l[slow] /\ p.sheet < l.sheet
  <2>1. PICK x \in Int : x = p.sheet + 1
    BY <1>4
  <2>2. PICK n : n = [f EXCEPT !.sheet = x]
    OBVIOUS
  <2>3. Is(n, x, slow, f[slow], fast, f[fast])
    BY <2>2, AddressMoved
  <2>4. next = [position |-> n, end |-> FALSE]
    <3>1. next = [it EXCEPT !.position = n]
      BY <1>1, <1>3, <1>4, <1>8, <2>1, <2>2 DEF Increment, NextSheet
    <3> QED
      BY <1>1, <3>1, IteratorMoved
  <2>5. LeadsOn(range, it, next, fast, slow)
    BY <1>1, <1>4, <1>8, <2>1, <2>3, <2>4 DEF LeadsOn, IsIterator, Precedes, Is
  <2>6. Decrement(range, next, fast, slow) = [next EXCEPT !.position = [l EXCEPT !.sheet = p.sheet]]
    <3>1. /\ ~next.end /\ next.position = n /\ n.sheet - 1 = p.sheet /\ f.sheet < n.sheet
          /\ ~(f[fast] < n[fast]) /\ ~(f[slow] < n[slow])
      BY <1>4, <2>1, <2>3, <2>4 DEF Is
    <3> QED
      BY <3>1 DEF Decrement, PreviousSheet
  <2>7. [l EXCEPT !.sheet = p.sheet] = p
    <3>1. PICK q : q = [l EXCEPT !.sheet = p.sheet]
      OBVIOUS
    <3>2. Is(q, p.sheet, slow, p[slow], fast, p[fast])
      <4>1. l \in Address /\ p.sheet \in Int /\ l[fast] = p[fast] /\ l[slow] = p[slow]
        BY <1>4, <1>8
      <4> QED
        BY <3>1, <4>1, AddressMoved
    <3> QED
      BY <3>1, <3>2, SameAddress DEF Is
  <2>8. Decrement(range, next, fast, slow) = it
    BY <1>1, <2>4, <2>6, <2>7, IteratorMoved
  <2> QED
    BY <1>3, <2>5, <2>8
<1>9. CASE p[fast] >= l[fast] /\ p[slow] >= l[slow] /\ p.sheet >= l.sheet
  <2>1. next = [position |-> p, end |-> TRUE]
    <3>1. next = [it EXCEPT !.end = TRUE]
      BY <1>1, <1>3, <1>4, <1>9 DEF Increment, NextSheet
    <3> QED
      BY <1>1, <3>1, IteratorMoved
  <2>2. p = l
    BY <1>4, <1>9, SameAddress
  <2>3. LeadsOn(range, it, next, fast, slow)
    BY <1>1, <1>4, <2>1, <2>2 DEF LeadsOn, IsIterator, Precedes
  <2>4. Decrement(range, next, fast, slow) = [next EXCEPT !.end = FALSE]
    BY <2>1 DEF Decrement
  <2>5. Decrement(range, next, fast, slow) = it
    BY <1>1, <2>1, <2>4, IteratorMoved
  <2> QED
    BY <1>3, <2>3, <2>5
<1> QED
  BY <1>4, <1>6, <1>7, <1>8, <1>9


\* Every place of an iterator but the first is the next one of another.
LEMMA AddressBehind ==
  ASSUME NEW fast, NEW slow, AreDirections(fast, slow),
         NEW range \in CellRanges, ValidRange(range), NEW it, IsIterator(range, it), it # Begin(range)
  PROVE  \E jt : IsIterator(range, jt) /\ ~jt.end /\ it = Increment(range, jt, fast, slow)
<1>1. PICK p \in Address, e \in BOOLEAN : it = [position |-> p, end |-> e] /\ Contains(range, p)
  BY DEF IsIterator
<1>2. PICK f, l : Bounds(range, f, l, fast, slow)
  BY RangeBounds
<1> USE <1>2 DEF Bounds
<1>3. /\ p.sheet \in f.sheet..l.sheet /\ p[fast] \in f[fast]..l[fast] /\ p[slow] \in f[slow]..l[slow]
      /\ p.sheet \in Int /\ p[fast] \in Int /\ p[slow] \in Int
  BY <1>1
<1>4. ASSUME NEW n \in Address, Contains(range, n)
      PROVE  IsIterator(range, [position |-> n, end |-> FALSE])
  BY <1>4 DEF IsIterator
<1>5. CASE e = TRUE
  <2>1. PICK jt : jt = [position |-> p, end |-> FALSE]
    OBVIOUS
  <2>2. p = l
    BY <1>1, <1>5 DEF IsIterator
  <2>3. Increment(range, jt, fast, slow) = [jt EXCEPT !.end = TRUE]
    BY <1>3, <2>1, <2>2 DEF Increment, NextSheet
  <2> QED
    BY <1>1, <1>4, <1>5, <2>1, <2>3, IteratorMoved
<1>6. CASE e = FALSE /\ f[fast] < p[fast]
  <2>1. PICK x \in Int : x = p[fast] - 1
    BY <1>3
  <2>2. PICK n : n = [p EXCEPT ![fast] = x]
    OBVIOUS
  <2>3. Is(n, p.sheet, slow, p[slow], fast, x)
    BY <2>2, AddressMoved
  <2>4. Contains(range, n) /\ n \in Address
    BY <1>3, <1>6, <2>1, <2>3 DEF Is
  <2>5. PICK jt : jt = [position |-> n, end |-> FALSE]
    OBVIOUS
  <2>6. Increment(range, jt, fast, slow) = [jt EXCEPT !.position[fast] = p[fast]]
    <3>1. n[fast] < l[fast] /\ n[fast] + 1 = p[fast]
      BY <1>3, <2>1, <2>3 DEF Is
    <3> QED
      BY <2>5, <3>1 DEF Increment
  <2>7. [n EXCEPT ![fast] = p[fast]] = p
    <3>1. PICK q : q = [n EXCEPT ![fast] = p[fast]]
      OBVIOUS
    <3>2. Is(q, p.sheet, slow, p[slow], fast, p[fast])
      <4>1. n \in Address /\ n.sheet = p.sheet /\ n[slow] = p[slow] /\ p[fast] \in Int
        BY <1>3, <2>3 DEF Is
      <4> QED
        BY <3>1, <4>1, AddressMoved
    <3> QED
      BY <3>1, <3>2, SameAddress DEF Is
  <2>8. Increment(range, jt, fast, slow) = [position |-> p, end |-> FALSE]
    BY <2>5, <2>6, <2>7, IteratorMoved
  <2> QED
    BY <1>1, <1>4, <1>6, <2>4, <2>5, <2>8
<1>7. CASE e = FALSE /\ ~(f[fast] < p[fast]) /\ f[slow] < p[slow]
  <2>1. PICK x \in Int : x = p[slow] - 1
    BY <1>3
  <2>2. PICK n : n = [p EXCEPT ![slow] = x, ![fast] = l[fast]]
    OBVIOUS
  <2>3. Is(n, p.sheet, slow, x, fast, l[fast])
    BY <2>2, AddressMoved
  <2>4. Contains(range, n) /\ n \in Address
    BY <1>3, <1>7, <2>1, <2>3 DEF Is
  <2>5. PICK jt : jt = [position |-> n, end |-> FALSE]
    OBVIOUS
  <2>6. Increment(range, jt, fast, slow) =
          [jt EXCEPT !.position[slow] = p[slow], !.position[fast] = f[fast]]
    <3>1. n[slow] < l[slow] /\ n[slow] + 1 = p[slow] /\ ~(n[fast] < l[fast])
      BY <1>3, <2>1, <2>3 DEF Is
    <3> QED
      BY <2>5, <3>1 DEF Increment
  <2>7. [n EXCEPT ![slow] = p[slow], ![fast] = f[fast]] = p
    <3>1. PICK q : q = [n EXCEPT ![slow] = p[slow], ![fast] = f[fast]]
      OBVIOUS
    <3>2. Is(q, p.sheet, slow, p[slow], fast, p[fast])
      <4>1. /\ n \in Address /\ n.sheet = p.sheet /\ p[slow] \in Int /\ f[fast] = p[fast]
            /\ f[fast] \in Int
        BY <1>3, <1>7, <2>3 DEF Is
      <4> QED
        BY <3>1, <4>1, AddressMoved
    <3> QED
      BY <3>1, <3>2, SameAddress DEF Is
  <2>8. Increment(range, jt, fast, slow) = [position |-> p, end |-> FALSE]
    BY <2>5, <2>6, <2>7, IteratorMoved
  <2> QED
    BY <1>1, <1>4, <1>7, <2>4, <2>5, <2>8
<1>8. CASE e = FALSE /\ ~(f[fast] < p[fast]) /\ ~(f[slow] < p[slow])
  <2>1. p[fast] = f[fast] /\ p[slow] = f[slow] /\ f.sheet < p.sheet
    <3>1. p[fast] = f[fast] /\ p[slow] = f[slow]
      BY <1>3, <1>8
    <3>2. CASE p.sheet = f.sheet
      BY <1>1, <1>8, <3>1, <3>2, SameAddress DEF Begin
    <3> QED
      BY <1>3, <3>1, <3>2
  <2>2. PICK x \in Int : x = p.sheet - 1
    BY <1>3
  <2>3. PICK n : n = [l EXCEPT !.sheet = x]
    OBVIOUS
  <2>4. Is(n, x, slow, l[slow], fast, l[fast])
    BY <2>3, AddressMoved
  <2>5. Contains(range, n) /\ n \in Address
    BY <1>3, <2>1, <2>2, <2>4 DEF Is
  <2>6. PICK jt : jt = [position |-> n, end |-> FALSE]
    OBVIOUS
  <2>7. Increment(range, jt, fast, slow) = [jt EXCEPT !.position = [f EXCEPT !.sheet = p.sheet]]
    <3>1. n.sheet < l.sheet /\ n.sheet + 1 = p.sheet /\ ~(n[fast] < l[fast]) /\ ~(n[slow] < l[slow])
      BY <1>3, <2>2, <2>4 DEF Is
    <3> QED
      BY <2>6, <3>1 DEF Increment, NextSheet
  <2>8. [f EXCEPT !.sheet = p.sheet] = p
    <3>1. PICK q : q = [f EXCEPT !.sheet = p.sheet]
      OBVIOUS
    <3>2. Is(q, p.sheet, slow, p[slow], fast, p[fast])
      BY <1>3, <2>1, <3>1, AddressMoved
    <3> QED
      BY <3>1, <3>2, SameAddress DEF Is
  <2>9. Increment(range, jt, fast, slow) = [position |-> p, end |-> FALSE]
    BY <2>6, <2>7, <2>8, IteratorMoved
  <2> QED
    BY <1>1, <1>4, <1>8, <2>5, <2>6, <2>9
<1> QED
  BY <1>5, <1>6, <1>7, <1>8

\* An iterator that goes by these steps starts before all other addresses,
\* passes none over, leads back the way it came, and throws at both ends.
GoesThrough(range, it, fast, slow) ==
  LET inc == Increment(range, it, fast, slow)
      dec == Decrement(range, it, fast, slow)
  IN  /\ IF it.end THEN inc = Threw
         ELSE LeadsOn(range, it, inc, fast, slow) /\ Decrement(range, inc, fast, slow) = it
      /\ IF it = Begin(range)
         THEN dec = Threw
              /\ \A a \in Address : Contains(range, a) /\ a # it.position => Precedes(it.position, a, fast, slow)
         ELSE IsIterator(range, dec) /\ ~dec.end /\ Increment(range, dec, fast, slow) = it

LEMMA IteratorGoes ==
  ASSUME NEW fast, NEW slow, AreDirections(fast, slow),
         NEW range \in CellRanges, ValidRange(range), NEW it, IsIterator(range, it)
  PROVE  GoesThrough(range, it, fast, slow)
<1>1. IF it.end THEN Increment(range, it, fast, slow) = Threw
      ELSE /\ LeadsOn(range, it, Increment(range, it, fast, slow), fast, slow)
           /\ Decrement(range, Increment(range, it, fast, slow), fast, slow) = it
  <2>1. CASE it.end
    BY <2>1 DEF Increment
  <2>2. CASE ~it.end
    BY <2>2, AddressAhead
  <2> QED
    BY <2>1, <2>2
<1>2. CASE it = Begin(range)
  <2>1. PICK f, l : Bounds(range, f, l, fast, slow)
    BY RangeBounds
  <2>2. it.position = f /\ ~it.end
    BY <1>2, <2>1 DEF Begin, Bounds
  <2>3. Decrement(range, it, fast, slow) = Threw
    <3>1. ~(f[fast] < f[fast]) /\ ~(f[slow] < f[slow]) /\ ~(f.sheet < f.sheet)
      BY <2>1 DEF Bounds
    <3> QED
      BY <2>1, <2>2, <3>1 DEF Decrement, PreviousSheet, Bounds
  <2>4. ASSUME NEW a \in Address, Contains(range, a), a # f
        PROVE  Precedes(f, a, fast, slow)
    BY <2>1, <2>4, SameAddress DEF Bounds, Precedes
  <2> QED
    BY <1>1, <1>2, <2>2, <2>3, <2>4 DEF GoesThrough
<1>3. CASE it # Begin(range)
  <2>1. PICK jt : IsIterator(range, jt) /\ ~jt.end /\ it = Increment(range, jt, fast, slow)
    BY <1>3, AddressBehind
  <2>2. Decrement(range, it, fast, slow) = jt
    BY <2>1, AddressAhead
  <2> QED
    BY <1>1, <1>3, <2>1, <2>2 DEF GoesThrough
<1> QED
  BY <1>2, <1>3

\* abs_address_iterator, over any valid range and in both directions: begin() is
\* before every other address of the range, ++ passes over none and comes behind
\* the last one, -- undoes ++ and ++ undoes --, and ++ at the end and -- at the
\* beginning throw.
THEOREM AddressesGoneThrough ==
  ASSUME NEW range \in CellRanges, ValidRange(range), NEW it, IsIterator(range, it)
  PROVE  GoesThrough(range, it, "row", "column") /\ GoesThrough(range, it, "column", "row")
<1>1. AreDirections("row", "column") /\ AreDirections("column", "row")
  BY DEF AreDirections
<1> QED
  BY <1>1, IteratorGoes

-----------------------------------------------------------------------------
(* Emptiness by blocks.                                                      *)

\* A column has a row at least.
IsColumn(column) == Len(column) \in Nat \ {0}

\* A set of natural numbers has a least member, and a bounded set of integers
\* a greatest.
LEMMA LeastMember ==
  ASSUME NEW S \in SUBSET Nat, S # {}
  PROVE  \E m \in S : \A k \in S : m <= k
<1>1. PICK m \in S : \A k \in S : ~(<<k, m>> \in OpToRel(<, Nat))
  BY NatLessThanWellFounded, WFMin
<1>2. \A k \in S : ~(k < m)
  BY <1>1 DEF OpToRel
<1>3. m \in Nat /\ \A k \in S : k \in Nat
  OBVIOUS
<1>4. \A k \in S : m <= k
  BY <1>2, <1>3
<1> QED
  BY <1>4

LEMMA Greatest ==
  ASSUME NEW S, S \subseteq Int, S # {}, NEW n \in Int, \A x \in S : x <= n
  PROVE  FX!Max(S) \in S /\ \A x \in S : x <= FX!Max(S)
<1>1. PICK D : D = { n - x : x \in S }
  OBVIOUS
<1>2. \A x \in S : n - x \in D /\ n - x \in Nat
  BY <1>1
<1>3. D \in SUBSET Nat /\ D # {}
  BY <1>1, <1>2
<1>4. PICK d \in D : \A e \in D : d <= e
  BY <1>3, LeastMember
<1>5. PICK x \in S : d = n - x
  BY <1>1
<1>6. ASSUME NEW y \in S PROVE x >= y
  <2>1. n - x <= n - y
    BY <1>2, <1>4, <1>5
  <2> QED
    BY <2>1
<1>7. FX!Max(S) = CHOOSE z \in S : \A y \in S : z >= y
  BY DEF FX!Max
<1>8. FX!Max(S) \in S /\ \A y \in S : FX!Max(S) >= y
  BY <1>6, <1>7
<1> QED
  BY <1>8

\* The block of a row goes as far as the type does.
LEMMA LastOfBlock ==
  ASSUME NEW column, IsColumn(column), NEW row \in Nat, row < Len(column)
  PROVE  /\ BlockLast(column, row) \in row..(Len(column) - 1)
         /\ \A k \in row..BlockLast(column, row) : TypeAt(column, k) = TypeAt(column, row)
         /\ \A r \in row..(Len(column) - 1) :
              (\A k \in row..r : TypeAt(column, k) = TypeAt(column, row)) => r <= BlockLast(column, row)
<1>1. PICK S : S = { r \in row..(Len(column) - 1) : \A k \in row..r : TypeAt(column, k) = TypeAt(column, row) }
  OBVIOUS
<1>2. PICK n \in Int : n = Len(column) - 1
  BY DEF IsColumn
<1>3. S \subseteq Int /\ row \in S /\ \A x \in S : x <= n
  BY <1>1, <1>2 DEF IsColumn
<1>4. FX!Max(S) \in S /\ \A x \in S : x <= FX!Max(S)
  BY <1>3, Greatest
<1>5. BlockLast(column, row) = FX!Max(S)
  BY <1>1 DEF BlockLast
<1> QED
  BY <1>1, <1>4, <1>5

\* Sheets are rectangular, with a row and a column at least.
IsSheet(sheet) ==
  /\ Len(sheet) \in Nat \ {0}
  /\ \A c \in 1..Len(sheet) : IsColumn(sheet[c]) /\ Len(sheet[c]) = Len(sheet[1])

\* A column is empty in some rows if the block at their top is and goes on.
LEMMA ColumnEmptiness ==
  ASSUME NEW column, IsColumn(column), NEW range, NEW lo \in Nat, NEW hi \in Nat,
         range.first.row = lo, range.last.row = hi, lo <= hi, hi < Len(column)
  PROVE  ColumnIsEmpty(column, range) <=> \A k \in lo..hi : TypeAt(column, k) = "empty"
<1>1. /\ BlockLast(column, lo) \in lo..(Len(column) - 1)
      /\ \A k \in lo..BlockLast(column, lo) : TypeAt(column, k) = TypeAt(column, lo)
      /\ \A r \in lo..(Len(column) - 1) :
           (\A k \in lo..r : TypeAt(column, k) = TypeAt(column, lo)) => r <= BlockLast(column, lo)
  BY LastOfBlock
<1>2. lo \in lo..hi /\ hi \in lo..(Len(column) - 1) /\ Len(column) \in Nat
  BY DEF IsColumn
<1>3. ASSUME ColumnIsEmpty(column, range), NEW k \in lo..hi PROVE TypeAt(column, k) = "empty"
  <2>1. TypeAt(column, lo) = "empty" /\ BlockLast(column, lo) >= hi
    BY <1>3 DEF ColumnIsEmpty
  <2>2. k \in lo..BlockLast(column, lo)
    BY <1>1, <1>2, <2>1
  <2> QED
    BY <1>1, <2>1, <2>2
<1>4. ASSUME \A k \in lo..hi : TypeAt(column, k) = "empty" PROVE ColumnIsEmpty(column, range)
  <2>1. TypeAt(column, lo) = "empty" /\ \A k \in lo..hi : TypeAt(column, k) = TypeAt(column, lo)
    BY <1>2, <1>4
  <2>2. hi <= BlockLast(column, lo)
    BY <1>1, <1>2, <2>1
  <2> QED
    BY <1>1, <1>2, <2>1, <2>2 DEF ColumnIsEmpty
<1> QED
  BY <1>3, <1>4

\* The bounds of a range in ascending order.
Ordered(r) ==
  /\ r \in CellRanges
  /\ r.first.row \in Nat /\ r.last.row \in Nat /\ r.first.row <= r.last.row
  /\ r.first.column \in Nat /\ r.last.column \in Nat /\ r.first.column <= r.last.column

LEMMA ReorderedIsOrdered ==
  ASSUME NEW range \in CellRanges,
         range.first.row >= 0, range.last.row >= 0, range.first.column >= 0, range.last.column >= 0
  PROVE  Ordered(Reorder(range))
<1>1. /\ range.first.sheet \in Int /\ range.last.sheet \in Int
      /\ range.first.row \in Nat /\ range.last.row \in Nat
      /\ range.first.column \in Nat /\ range.last.column \in Nat
  BY DEF CellRanges, Address
<1> DEFINE low(x, y)  == IF x <= y THEN x ELSE y
           high(x, y) == IF x <= y THEN y ELSE x
<1>2. \A x, y \in Int : low(x, y) \in {x, y} /\ high(x, y) \in {x, y} /\ low(x, y) <= high(x, y)
  OBVIOUS
<1>3. Reorder(range) = [first |-> [sheet  |-> low(range.first.sheet, range.last.sheet),
                                   row    |-> low(range.first.row, range.last.row),
                                   column |-> low(range.first.column, range.last.column)],
                        last  |-> [sheet  |-> high(range.first.sheet, range.last.sheet),
                                   row    |-> high(range.first.row, range.last.row),
                                   column |-> high(range.first.column, range.last.column)]]
  BY Zenon DEF Reorder
<1> HIDE DEF low, high
<1>4. PICK s1 \in Int, s2 \in Int, r1 \in Nat, r2 \in Nat, c1 \in Nat, c2 \in Nat :
        /\ Reorder(range) = [first |-> [sheet |-> s1, row |-> r1, column |-> c1],
                             last  |-> [sheet |-> s2, row |-> r2, column |-> c2]]
        /\ r1 <= r2 /\ c1 <= c2
  <2>1. low(range.first.sheet, range.last.sheet) \in Int /\ high(range.first.sheet, range.last.sheet) \in Int
    BY <1>1, <1>2
  <2>2. /\ low(range.first.row, range.last.row) \in Nat /\ high(range.first.row, range.last.row) \in Nat
        /\ low(range.first.row, range.last.row) <= high(range.first.row, range.last.row)
    BY <1>1, <1>2
  <2>3. /\ low(range.first.column, range.last.column) \in Nat /\ high(range.first.column, range.last.column) \in Nat
        /\ low(range.first.column, range.last.column) <= high(range.first.column, range.last.column)
    BY <1>1, <1>2
  <2> QED
    BY <1>3, <2>1, <2>2, <2>3
<1> QED
  BY <1>4 DEF Ordered, CellRanges, Address

LEMMA LeastIs ==
  ASSUME NEW m \in Int, NEW n \in Int
  PROVE  Least(m, n) \in {m, n} /\ Least(m, n) <= m /\ Least(m, n) <= n
BY DEF Least

\* A range in order that begins in the sheet, cut off where the sheet ends.
CutOff(sheet, r) ==
  [r EXCEPT !.last.column = Least(@, LastColumn(sheet)),
            !.last.row    = Least(@, LastRow(sheet))]

LEMMA CutOffIs ==
  ASSUME NEW sheet, NEW r, Ordered(r), NEW rows \in Nat, NEW columns \in Nat,
         LastRow(sheet) = rows, LastColumn(sheet) = columns,
         r.first.row <= rows, r.first.column <= columns
  PROVE  /\ Ordered(CutOff(sheet, r))
         /\ CutOff(sheet, r).first = r.first
         /\ CutOff(sheet, r).last.row = Least(r.last.row, rows)
         /\ CutOff(sheet, r).last.column = Least(r.last.column, columns)
<1>1. PICK a \in Int : a = Least(r.last.row, rows)
  BY DEF Least, Ordered
<1>2. PICK b \in Int : b = Least(r.last.column, columns)
  BY DEF Least, Ordered
<1>3. a \in Nat /\ b \in Nat /\ r.first.row <= a /\ r.first.column <= b
  BY <1>1, <1>2 DEF Least, Ordered
<1>4. CutOff(sheet, r) = [first |-> r.first, last |-> [sheet |-> r.last.sheet, row |-> a, column |-> b]]
  <2>1. PICK f, l : r = [first |-> f, last |-> l] /\ l = [sheet |-> l.sheet, row |-> l.row, column |-> l.column]
    BY DEF Ordered, CellRanges, Address
  <2>2. r.first = f /\ r.last = l
    BY <2>1
  <2>3. PICK q : q = [r EXCEPT !.last.column = b]
    OBVIOUS
  <2>4. PICK m : m = [l EXCEPT !.column = b]
    OBVIOUS
  <2>5. m = [sheet |-> l.sheet, row |-> l.row, column |-> b]
    BY <2>1, <2>4
  <2>6. q = [first |-> f, last |-> m]
    BY <2>1, <2>2, <2>3, <2>4
  <2>7. [m EXCEPT !.row = a] = [sheet |-> l.sheet, row |-> a, column |-> b]
    BY <2>5
  <2>8. [q EXCEPT !.last.row = a] = [first |-> f, last |-> [m EXCEPT !.row = a]]
    BY <2>6
  <2>9. CutOff(sheet, r) = [q EXCEPT !.last.row = a]
    BY <1>1, <1>2, <2>2, <2>3, <2>5, <2>6 DEF CutOff
  <2> QED
    BY <2>2, <2>7, <2>8, <2>9
<1> QED
  BY <1>1, <1>2, <1>3, <1>4 DEF Ordered, CellRanges, Address

\* is_empty() looked at cell by cell: that the range has none but empty ones, or
\* an exception if the range, brought into order, has no cell of the sheet.
EmptyByCells(sheet, range) ==
  LET asked == Within(sheet, Reorder(range))
  IN  IF asked = {} THEN Threw ELSE asked \cap NonEmpty(sheet) = {}

LEMMA EmptinessOfCells ==
  ASSUME Threw \notin CellRanges, NEW sheet, IsSheet(sheet), NEW range \in CellRanges,
         range.first.row >= 0, range.last.row >= 0, range.first.column >= 0, range.last.column >= 0
  PROVE  IsEmptyRange(sheet, range) = EmptyByCells(sheet, range)
<1> USE DEF EmptyByCells
<1>1. PICK r : r = Reorder(range) /\ Ordered(r)
  BY ReorderedIsOrdered
<1>2. PICK rows \in Nat, columns \in Nat :
        /\ LastRow(sheet) = rows /\ LastColumn(sheet) = columns
        /\ \A c \in 0..columns : IsColumn(sheet[c + 1]) /\ Len(sheet[c + 1]) = rows + 1
  <2>1. sheet # << >> /\ Len(sheet[1]) \in Nat \ {0}
    BY DEF IsSheet, IsColumn
  <2>2. LastRow(sheet) = Len(sheet[1]) - 1 /\ LastColumn(sheet) = Len(sheet) - 1
    BY <2>1 DEF LastRow, LastColumn
  <2>3. LastRow(sheet) \in Nat /\ LastColumn(sheet) \in Nat /\ Len(sheet[1]) = LastRow(sheet) + 1
    BY <2>1, <2>2 DEF IsSheet
  <2>4. ASSUME NEW c \in 0..LastColumn(sheet)
        PROVE  IsColumn(sheet[c + 1]) /\ Len(sheet[c + 1]) = LastRow(sheet) + 1
    <3>1. PICK k : k = c + 1 /\ k \in 1..Len(sheet)
      BY <2>2, <2>4 DEF IsSheet
    <3> QED
      BY <2>3, <3>1 DEF IsSheet
  <2> QED
    BY <2>3, <2>4
<1>3. CASE r.first.column > columns \/ r.first.row > rows
  <2>1. Within(sheet, r) = {}
    BY <1>1, <1>2, <1>3 DEF Within, Ordered
  <2>2. Shrunk(sheet, range) = Threw
    BY <1>1, <1>2, <1>3 DEF Shrunk
  <2> QED
    BY <1>1, <2>1, <2>2 DEF IsEmptyRange
<1>4. CASE r.first.column <= columns /\ r.first.row <= rows
  <2>1. PICK t : t = CutOff(sheet, r)
    OBVIOUS
  <2>2. /\ Ordered(t) /\ t.first = r.first
        /\ t.last.row = Least(r.last.row, rows) /\ t.last.column = Least(r.last.column, columns)
    BY <1>1, <1>2, <1>4, <2>1, CutOffIs
  <2>3. Shrunk(sheet, range) = t
    BY <1>1, <1>2, <1>4, <2>1 DEF Shrunk, CutOff, Ordered, CellRanges, Address
  <2>4. t # Threw
    BY <2>2 DEF Ordered
  <2>5. t.last.row <= rows /\ t.last.column <= columns
    BY <1>1, <2>2, LeastIs DEF Ordered
  <2>6. Within(sheet, r) = (t.first.row..t.last.row) \X (t.first.column..t.last.column)
    BY <1>1, <1>2, <2>2 DEF Within, Least, Ordered
  <2>7. << t.first.row, t.first.column >> \in Within(sheet, r)
    BY <2>2, <2>6 DEF Ordered
  <2>8. ASSUME NEW c \in t.first.column..t.last.column
        PROVE  ColumnIsEmpty(sheet[c + 1], t)
               <=> \A k \in t.first.row..t.last.row : TypeAt(sheet[c + 1], k) = "empty"
    <3>1. IsColumn(sheet[c + 1]) /\ Len(sheet[c + 1]) = rows + 1
      BY <1>2, <2>2, <2>5, <2>8 DEF Ordered
    <3>2. PICK column : column = sheet[c + 1]
      OBVIOUS
    <3>3. t.last.row < Len(column) /\ t.first.row \in Nat /\ t.last.row \in Nat /\ t.first.row <= t.last.row
      BY <2>2, <2>5, <3>1, <3>2 DEF Ordered
    <3> QED
      BY <3>1, <3>2, <3>3, ColumnEmptiness
  <2>9. ASSUME NEW k \in t.first.row..t.last.row, NEW c \in t.first.column..t.last.column
        PROVE  << k, c >> \in NonEmpty(sheet) <=> TypeAt(sheet[c + 1], k) # "empty"
    <3>1. k \in 0..rows /\ c \in 0..columns
      BY <2>2, <2>5, <2>9 DEF Ordered
    <3>2. At0(sheet, << k, c >>) = sheet[c + 1][k + 1]
      BY DEF At0
    <3>3. << k, c >> \in NonEmpty(sheet) <=> At0(sheet, << k, c >>).type # "empty"
      BY <1>2, <3>1 DEF NonEmpty
    <3> QED
      BY <3>2, <3>3 DEF TypeAt
  <2>10. Within(sheet, r) \cap NonEmpty(sheet) = {}
         <=> \A c \in t.first.column..t.last.column, k \in t.first.row..t.last.row :
               TypeAt(sheet[c + 1], k) = "empty"
    <3>1. \A p \in Within(sheet, r) : \E k \in t.first.row..t.last.row, c \in t.first.column..t.last.column :
            p = << k, c >>
      BY <2>6
    <3>2. \A k \in t.first.row..t.last.row, c \in t.first.column..t.last.column :
            << k, c >> \in Within(sheet, r)
      BY <2>6
    <3>3. Within(sheet, r) \cap NonEmpty(sheet) = {}
          <=> \A c \in t.first.column..t.last.column, k \in t.first.row..t.last.row :
                << k, c >> \notin NonEmpty(sheet)
      <4>1. ASSUME Within(sheet, r) \cap NonEmpty(sheet) = {},
                   NEW c \in t.first.column..t.last.column, NEW k \in t.first.row..t.last.row
            PROVE  << k, c >> \notin NonEmpty(sheet)
        <5>1. << k, c >> \in Within(sheet, r)
          BY <3>2
        <5> QED
          BY <4>1, <5>1
      <4>2. ASSUME \A c \in t.first.column..t.last.column, k \in t.first.row..t.last.row :
                     << k, c >> \notin NonEmpty(sheet),
                   NEW p \in Within(sheet, r)
            PROVE  p \notin NonEmpty(sheet)
        <5>1. PICK k \in t.first.row..t.last.row, c \in t.first.column..t.last.column : p = << k, c >>
          BY <3>1
        <5> QED
          BY <4>2, <5>1
      <4> QED
        BY <4>1, <4>2
    <3>4. \A c \in t.first.column..t.last.column, k \in t.first.row..t.last.row :
            << k, c >> \notin NonEmpty(sheet) <=> TypeAt(sheet[c + 1], k) = "empty"
      <4> TAKE c \in t.first.column..t.last.column, k \in t.first.row..t.last.row
      <4> QED
        BY <2>9
    <3> QED
      BY <3>3, <3>4
  <2>11. IsEmptyRange(sheet, range)
         = \A c \in t.first.column..t.last.column : ColumnIsEmpty(sheet[c + 1], t)
    BY <2>3, <2>4 DEF IsEmptyRange
  <2> QED
    BY <1>1, <2>7, <2>8, <2>10, <2>11
<1> QED
  BY <1>1, <1>2, <1>3, <1>4 DEF Ordered

\* The length of a sequence with these indices.
LEMMA LengthOf ==
  ASSUME NEW n \in Nat, NEW f, DOMAIN f = 1..n, f = [k \in 1..n |-> f[k]]
  PROVE  Len(f) = n
<1>1. f \in Seq({ f[k] : k \in 1..n })
  OBVIOUS
<1> QED
  BY <1>1, LenProperties

-----------------------------------------------------------------------------
(* Recursion over places, and sequences.                                     *)

\* Induction up to n, on the members of a set.
LEMMA UpTo ==
  ASSUME NEW n \in Nat, NEW S, 0 \in S, \A k \in 0..(n - 1) : k \in S => k + 1 \in S
  PROVE  \A k \in 0..n : k \in S
<1> SUFFICES ASSUME ~(0..n \subseteq S) PROVE FALSE
  OBVIOUS
<1>1. PICK B : B = { k \in 0..n : k \notin S }
  OBVIOUS
<1>2. B \in SUBSET Nat /\ B # {}
  BY <1>1
<1>3. PICK m \in B : \A k \in B : m <= k
  BY <1>2, LeastMember
<1>4. m \in 0..n /\ m \notin S /\ m # 0
  BY <1>1
<1>5. m - 1 \in 0..(n - 1) /\ (m - 1) + 1 = m /\ ~(m <= m - 1) /\ m - 1 \in 0..n
  BY <1>4
<1>6. m - 1 \in S
  BY <1>1, <1>3, <1>5
<1> QED
  BY <1>4, <1>5, <1>6

\* What holds where a measure is 0, and where it holds for all smaller measures.
LEMMA ByMeasure ==
  ASSUME NEW D, NEW N \in Nat, NEW rk \in [D -> 0..N], NEW S,
         \A d \in D : (\A e \in D : rk[e] < rk[d] => e \in S) => d \in S
  PROVE  D \subseteq S
<1> SUFFICES ASSUME ~(D \subseteq S) PROVE FALSE
  OBVIOUS
<1>1. PICK B : B = { rk[d] : d \in D \ S }
  OBVIOUS
<1>2. \A d \in D : rk[d] \in Nat
  OBVIOUS
<1>3. B \in SUBSET Nat /\ B # {}
  BY <1>1, <1>2
<1>4. PICK m \in B : \A k \in B : m <= k
  BY <1>3, LeastMember
<1>5. PICK d \in D : d \notin S /\ rk[d] = m
  BY <1>1, <1>4
<1>6. ASSUME NEW e \in D, rk[e] < rk[d] PROVE e \in S
  <2>1. ~(rk[d] <= rk[e])
    BY <1>2, <1>6
  <2> QED
    BY <1>1, <1>4, <1>5, <2>1
<1> QED
  BY <1>5, <1>6

\* A function that is s at some places and at all others made of its value at a
\* next place, which is nearer.
Recurs(f, D, X, leaf, s, h, g) ==
  /\ f \in [D -> X]
  /\ \A d \in D : f[d] = IF d \in leaf THEN s[d] ELSE g[d][f[h[d]]]

RecursBelow(f, D, X, leaf, s, h, g, rk, m) ==
  /\ f \in [D -> X]
  /\ \A d \in D : rk[d] < m => f[d] = IF d \in leaf THEN s[d] ELSE g[d][f[h[d]]]

LEMMA RecursFurther ==
  ASSUME NEW D, NEW X, NEW N \in Nat, NEW rk \in [D -> 0..N], NEW leaf, NEW s \in [D -> X],
         NEW h \in [D -> D], NEW g \in [D -> [X -> X]], \A d \in D : d \notin leaf => rk[h[d]] < rk[d],
         NEW m \in Nat, NEW f, RecursBelow(f, D, X, leaf, s, h, g, rk, m)
  PROVE  \E f2 : RecursBelow(f2, D, X, leaf, s, h, g, rk, m + 1)
<1>1. PICK f2 : f2 = [d \in D |-> IF rk[d] < m THEN f[d] ELSE IF d \in leaf THEN s[d] ELSE g[d][f[h[d]]]]
  OBVIOUS
<1>2. \A d \in D : rk[d] \in Nat /\ h[d] \in D /\ f[d] \in X /\ f[h[d]] \in X /\ s[d] \in X
  BY DEF RecursBelow
<1>3. f2 \in [D -> X]
  BY <1>1, <1>2
<1>4. ASSUME NEW d \in D, rk[d] < m + 1
      PROVE  f2[d] = IF d \in leaf THEN s[d] ELSE g[d][f2[h[d]]]
  <2>1. CASE d \in leaf
    BY <1>1, <2>1 DEF RecursBelow
  <2>2. CASE d \notin leaf
    <3>1. rk[h[d]] < rk[d] /\ h[d] \in D
      BY <2>2, <1>2
    <3>2. rk[h[d]] < m
      BY <1>2, <1>4, <3>1
    <3>3. f2[h[d]] = f[h[d]]
      BY <1>1, <3>1, <3>2
    <3>4. f2[d] = g[d][f[h[d]]]
      BY <1>1, <2>2 DEF RecursBelow
    <3> QED
      BY <2>2, <3>3, <3>4
  <2> QED
    BY <2>1, <2>2
<1> QED
  BY <1>3, <1>4 DEF RecursBelow

LEMMA RecursionExists ==
  ASSUME NEW D, NEW X, NEW N \in Nat, NEW rk \in [D -> 0..N], NEW leaf, NEW s \in [D -> X],
         NEW h \in [D -> D], NEW g \in [D -> [X -> X]], \A d \in D : d \notin leaf => rk[h[d]] < rk[d]
  PROVE  \E f : Recurs(f, D, X, leaf, s, h, g)
<1>1. PICK G : G = { m \in Nat : \E f : RecursBelow(f, D, X, leaf, s, h, g, rk, m) }
  OBVIOUS
<1>2. \A d \in D : rk[d] \in Nat /\ ~(rk[d] < 0) /\ rk[d] < N + 1
  OBVIOUS
<1>3. 0 \in G
  <2>1. RecursBelow(s, D, X, leaf, s, h, g, rk, 0)
    BY <1>2 DEF RecursBelow
  <2> QED
    BY <1>1, <2>1
<1>4. ASSUME NEW m \in 0..N, m \in G PROVE m + 1 \in G
  <2>1. PICK f : RecursBelow(f, D, X, leaf, s, h, g, rk, m)
    BY <1>1, <1>4
  <2>2. m \in Nat
    OBVIOUS
  <2>3. \E f2 : RecursBelow(f2, D, X, leaf, s, h, g, rk, m + 1)
    BY <2>1, <2>2, RecursFurther
  <2> QED
    BY <1>1, <2>2, <2>3
<1>5. N + 1 \in G
  <2>1. N + 1 \in Nat /\ 0..((N + 1) - 1) = 0..N
    OBVIOUS
  <2>2. \A k \in 0..(N + 1) : k \in G
    BY <1>3, <1>4, <2>1, UpTo
  <2> QED
    BY <2>1, <2>2
<1>6. PICK f : RecursBelow(f, D, X, leaf, s, h, g, rk, N + 1)
  BY <1>1, <1>5
<1>7. Recurs(f, D, X, leaf, s, h, g)
  BY <1>2, <1>6 DEF Recurs, RecursBelow
<1> QED
  BY <1>7

\* A sequence behind one more element, and one behind another.
IsCons(w, e, s) ==
  /\ Len(w) = Len(s) + 1 /\ w[1] = e
  /\ \A k \in 1..Len(s) : w[k + 1] = s[k]

LEMMA ConsFacts ==
  ASSUME NEW X, NEW e \in X, NEW s \in Seq(X)
  PROVE  << e >> \o s \in Seq(X) /\ IsCons(<< e >> \o s, e, s)
<1>1. << e >> \in Seq(X) /\ Len(<< e >>) = 1 /\ << e >>[1] = e
  OBVIOUS
<1>2. PICK o : o = << e >>
  OBVIOUS
<1>3. o \o s \in Seq(X) /\ Len(o \o s) = Len(s) + 1
  BY <1>1, <1>2
<1>4. (o \o s)[1] = e
  BY <1>1, <1>2
<1>5. ASSUME NEW k \in 1..Len(s) PROVE (o \o s)[k + 1] = s[k]
  <2>1. k + 1 \in (Len(o) + 1)..(Len(o) + Len(s)) /\ (k + 1) - Len(o) = k
    BY <1>1, <1>2
  <2> QED
    BY <1>1, <1>2, <1>3, <2>1
<1> QED
  BY <1>2, <1>3, <1>4, <1>5 DEF IsCons

IsJoined(w, s, t) ==
  /\ Len(w) = Len(s) + Len(t)
  /\ \A k \in 1..Len(s) : w[k] = s[k]
  /\ \A k \in 1..Len(t) : w[Len(s) + k] = t[k]

LEMMA JoinFacts ==
  ASSUME NEW X, NEW s \in Seq(X), NEW t \in Seq(X)
  PROVE  s \o t \in Seq(X) /\ IsJoined(s \o t, s, t)
<1>1. s \o t \in Seq(X) /\ Len(s \o t) = Len(s) + Len(t)
  OBVIOUS
<1>2. \A k \in 1..Len(s) : (s \o t)[k] = s[k]
  OBVIOUS
<1>3. \A k \in 1..Len(t) : (s \o t)[Len(s) + k] = t[k]
  OBVIOUS
<1> QED
  BY <1>1, <1>2, <1>3 DEF IsJoined

\* The block of a row begins where the type does.
LEMMA FirstOfBlock ==
  ASSUME NEW column, IsColumn(column), NEW row \in Nat, row < Len(column)
  PROVE  /\ BlockFirst(column, row) \in 0..row
         /\ \A k \in BlockFirst(column, row)..row : TypeAt(column, k) = TypeAt(column, row)
         /\ \A r \in 0..row :
              (\A k \in r..row : TypeAt(column, k) = TypeAt(column, row)) => BlockFirst(column, row) <= r
<1>1. PICK S : S = { r \in 0..row : \A k \in r..row : TypeAt(column, k) = TypeAt(column, row) }
  OBVIOUS
<1>2. S \in SUBSET Nat /\ row \in S
  BY <1>1
<1>3. PICK m \in S : \A k \in S : m <= k
  BY <1>2, LeastMember
<1>4. FX!Min(S) = CHOOSE z \in S : \A y \in S : z <= y
  BY DEF FX!Min
<1>5. FX!Min(S) \in S /\ \A y \in S : FX!Min(S) <= y
  BY <1>3, <1>4
<1>6. BlockFirst(column, row) = FX!Min(S)
  BY <1>1 DEF BlockFirst
<1> QED
  BY <1>1, <1>5, <1>6

-----------------------------------------------------------------------------
(* The parts of blocks in some rows.                                         *)

PieceFrom(column, row, last) ==
  [first |-> row, last |-> Least(BlockLast(column, row), last), type |-> TypeAt(column, row)]

IsPieces(f, column, last) ==
  f = [row \in 0..Len(column) |->
         IF row > last \/ row = Len(column) THEN << >>
         ELSE << [first |-> row, last |-> Least(BlockLast(column, row), last),
                  type |-> TypeAt(column, row)] >> \o f[BlockLast(column, row) + 1]]

LEMMA PiecesAre ==
  ASSUME NEW column, NEW first, NEW last
  PROVE  Pieces(column, first, last) = (CHOOSE f : IsPieces(f, column, last))[first]
BY Zenon DEF Pieces, IsPieces

PieceRecords(column, last) == { PieceFrom(column, row, last) : row \in 0..Len(column) }

\* The pieces from each row on.
PiecesFollow(f, column, last) ==
  /\ f \in [0..Len(column) -> Seq(PieceRecords(column, last))]
  /\ \A row \in 0..Len(column) :
       f[row] = IF row > last \/ row = Len(column) THEN << >>
                ELSE << PieceFrom(column, row, last) >> \o f[BlockLast(column, row) + 1]

LEMMA PiecesExist ==
  ASSUME NEW column, IsColumn(column), NEW last \in Nat
  PROVE  \E f : PiecesFollow(f, column, last)
<1>1. PICK n \in Nat : n = Len(column)
  BY DEF IsColumn
<1>2. PICK D : D = 0..n
  OBVIOUS
<1>3. PICK X : X = Seq(PieceRecords(column, last))
  OBVIOUS
<1>4. PICK rk : rk = [d \in D |-> n - d]
  OBVIOUS
<1>5. PICK leaf : leaf = { d \in D : d > last \/ d = n }
  OBVIOUS
<1>6. PICK s : s = [d \in D |-> << >>]
  OBVIOUS
<1>7. PICK h : h = [d \in D |-> IF d = n THEN n ELSE BlockLast(column, d) + 1]
  OBVIOUS
<1>8. PICK g : g = [d \in D |-> [x \in X |-> << PieceFrom(column, d, last) >> \o x]]
  OBVIOUS
<1>9. \A d \in D : rk[d] \in 0..n
  BY <1>2, <1>4
<1>10. rk \in [D -> 0..n]
  BY <1>4, <1>9
<1>11. s \in [D -> X]
  <2>1. << >> \in X
    BY <1>3
  <2> QED
    BY <1>6, <2>1
<1>12. ASSUME NEW d \in D, d # n
       PROVE  h[d] = BlockLast(column, d) + 1 /\ h[d] \in D /\ rk[h[d]] < rk[d]
  <2>1. d \in Nat /\ d < Len(column)
    BY <1>1, <1>2, <1>12
  <2>2. BlockLast(column, d) \in d..(Len(column) - 1)
    BY <2>1, LastOfBlock
  <2>3. PICK b \in d..(n - 1) : b = BlockLast(column, d)
    BY <1>1, <2>2
  <2>4. h[d] = b + 1 /\ b + 1 \in D
    BY <1>2, <1>7, <1>12, <2>3
  <2>5. rk[b + 1] = n - (b + 1) /\ rk[d] = n - d
    BY <1>4, <2>4
  <2> QED
    BY <1>2, <2>1, <2>3, <2>4, <2>5
<1>13. h \in [D -> D]
  <2>1. \A d \in D : h[d] \in D
    <3> TAKE d \in D
    <3>1. CASE d = n
      BY <1>7, <3>1
    <3> QED
      BY <1>12, <3>1
  <2> QED
    BY <1>7, <2>1
<1>14. g \in [D -> [X -> X]]
  <2>1. ASSUME NEW d \in D, NEW x \in X PROVE << PieceFrom(column, d, last) >> \o x \in X
    <3>1. PieceFrom(column, d, last) \in PieceRecords(column, last)
      BY <1>1, <1>2 DEF PieceRecords
    <3> QED
      BY <1>3, <3>1, ConsFacts
  <2> QED
    BY <1>8, <2>1
<1>15. \A d \in D : d \notin leaf => rk[h[d]] < rk[d]
  BY <1>5, <1>12
<1>16. PICK f : Recurs(f, D, X, leaf, s, h, g)
  BY <1>10, <1>11, <1>13, <1>14, <1>15, RecursionExists
<1>17. ASSUME NEW d \in D
       PROVE  f[d] = IF d > last \/ d = n THEN << >>
                     ELSE << PieceFrom(column, d, last) >> \o f[BlockLast(column, d) + 1]
  <2>1. f[d] = IF d \in leaf THEN s[d] ELSE g[d][f[h[d]]]
    BY <1>16 DEF Recurs
  <2>2. CASE d > last \/ d = n
    BY <1>5, <1>6, <2>1, <2>2
  <2>3. CASE ~(d > last \/ d = n)
    <3>1. f[h[d]] \in X /\ d \notin leaf
      BY <1>5, <1>13, <1>16, <2>3 DEF Recurs
    <3>2. g[d][f[h[d]]] = << PieceFrom(column, d, last) >> \o f[h[d]]
      BY <1>8, <3>1
    <3>3. h[d] = BlockLast(column, d) + 1
      BY <1>12, <2>3
    <3> QED
      BY <2>1, <2>3, <3>1, <3>2, <3>3
  <2> QED
    BY <2>2, <2>3
<1>18. f \in [D -> X]
  BY <1>16 DEF Recurs
<1>19. PiecesFollow(f, column, last)
  BY <1>1, <1>2, <1>3, <1>17, <1>18 DEF PiecesFollow
<1> QED
  BY <1>19

\* Pieces that follow one another from row a to row b, one type in each and
\* another one in the next.
ArePieces(ps, column, a, b) ==
  /\ ps \in Seq([first : Nat, last : Nat, type : { TypeAt(column, k) : k \in Nat }])
  /\ a > b => ps = << >>
  /\ a <= b => /\ Len(ps) \in Nat \ {0}
               /\ ps[1].first = a /\ ps[Len(ps)].last = b
  /\ \A k \in 1..Len(ps) :
       /\ ps[k].first \in a..b /\ ps[k].last \in ps[k].first..b
       /\ \A r \in ps[k].first..ps[k].last : TypeAt(column, r) = ps[k].type
  /\ \A k \in 1..(Len(ps) - 1) : ps[k + 1].first = ps[k].last + 1 /\ ps[k + 1].type # ps[k].type

IsPieceFrom(p, column, row, b, last) ==
  /\ p \in [first : Nat, last : Nat, type : { TypeAt(column, k) : k \in Nat }]
  /\ p.first = row /\ p.last = b /\ p.type = TypeAt(column, row)
  /\ \A r \in row..b : TypeAt(column, r) = TypeAt(column, row)
  /\ BlockLast(column, row) \in b..(Len(column) - 1)
  /\ b < last => BlockLast(column, row) = b /\ TypeAt(column, b + 1) # TypeAt(column, row)

LEMMA PieceFromFacts ==
  ASSUME NEW column, IsColumn(column), NEW last \in Nat, last < Len(column), NEW row \in 0..last
  PROVE  \E b \in row..last, p \in {PieceFrom(column, row, last)} : IsPieceFrom(p, column, row, b, last)
<1>1. row \in Nat /\ row < Len(column) /\ Len(column) \in Nat
  BY DEF IsColumn
<1>2. /\ BlockLast(column, row) \in row..(Len(column) - 1)
      /\ \A k \in row..BlockLast(column, row) : TypeAt(column, k) = TypeAt(column, row)
      /\ \A r \in row..(Len(column) - 1) :
           (\A k \in row..r : TypeAt(column, k) = TypeAt(column, row)) => r <= BlockLast(column, row)
  BY <1>1, LastOfBlock
<1>3. PICK m \in row..(Len(column) - 1) : m = BlockLast(column, row)
  BY <1>2
<1>4. PICK b \in row..last : b = Least(m, last)
  BY <1>1, <1>3 DEF Least
<1>5. b <= m /\ (b < last => m = b)
  BY <1>1, <1>3, <1>4 DEF Least
<1>6. \A r \in row..b : TypeAt(column, r) = TypeAt(column, row)
  <2>1. \A r \in row..b : r \in row..m
    BY <1>1, <1>3, <1>4, <1>5
  <2> QED
    BY <1>2, <1>3, <2>1
<1>7. ASSUME b < last PROVE TypeAt(column, b + 1) # TypeAt(column, row)
  <2> SUFFICES ASSUME TypeAt(column, b + 1) = TypeAt(column, row) PROVE FALSE
    OBVIOUS
  <2>1. b + 1 \in row..(Len(column) - 1) /\ ~(b + 1 <= m)
    BY <1>1, <1>4, <1>5, <1>7
  <2>2. \A k \in row..(b + 1) : k \in row..b \/ k = b + 1
    BY <1>1, <1>4
  <2>3. \A k \in row..(b + 1) : TypeAt(column, k) = TypeAt(column, row)
    BY <1>6, <2>2
  <2> QED
    BY <1>2, <1>3, <2>1, <2>3
<1>8. PICK p : p = PieceFrom(column, row, last)
  OBVIOUS
<1>9. p = [first |-> row, last |-> b, type |-> TypeAt(column, row)]
  BY <1>3, <1>4, <1>8 DEF PieceFrom
<1>10. b \in Nat /\ TypeAt(column, row) \in { TypeAt(column, k) : k \in Nat }
  BY <1>1, <1>4
<1>11. p \in [first : Nat, last : Nat, type : { TypeAt(column, k) : k \in Nat }]
  BY <1>1, <1>9, <1>10
<1>12. BlockLast(column, row) \in b..(Len(column) - 1)
  BY <1>1, <1>3, <1>4, <1>5
<1> QED
  BY <1>3, <1>4, <1>5, <1>6, <1>7, <1>8, <1>9, <1>11, <1>12 DEF IsPieceFrom

\* One more piece above others.
LEMMA PieceAbove ==
  ASSUME NEW column, NEW a \in Nat, NEW b \in Nat, NEW m \in a..b, NEW p, NEW ps,
         p \in [first : Nat, last : Nat, type : { TypeAt(column, k) : k \in Nat }],
         p.first = a, p.last = m, \A r \in a..m : TypeAt(column, r) = p.type,
         ArePieces(ps, column, m + 1, b),
         m < b => TypeAt(column, m + 1) # p.type
  PROVE  ArePieces(<< p >> \o ps, column, a, b)
<1>1. PICK X : X = [first : Nat, last : Nat, type : { TypeAt(column, k) : k \in Nat }]
  OBVIOUS
<1>2. p \in X /\ ps \in Seq(X)
  BY <1>1 DEF ArePieces
<1>3. PICK w : w = << p >> \o ps
  OBVIOUS
<1>4. w \in Seq(X) /\ IsCons(w, p, ps)
  BY <1>2, <1>3, ConsFacts
<1>5. PICK n \in Nat : n = Len(ps)
  BY <1>2
<1>6. Len(w) = n + 1 /\ w[1] = p /\ \A k \in 1..n : w[k + 1] = ps[k]
  BY <1>4, <1>5 DEF IsCons
<1>7. \A k \in 1..n :
        /\ ps[k].first \in (m + 1)..b /\ ps[k].last \in ps[k].first..b
        /\ \A r \in ps[k].first..ps[k].last : TypeAt(column, r) = ps[k].type
  BY <1>5 DEF ArePieces
<1>8. \A k \in 1..(n - 1) : ps[k + 1].first = ps[k].last + 1 /\ ps[k + 1].type # ps[k].type
  BY <1>5 DEF ArePieces
<1>9. CASE m = b
  <2>1. ps = << >>
    BY <1>9 DEF ArePieces
  <2>2. n = 0
    BY <1>5, <2>1
  <2>3. w[1].first \in a..b /\ w[1].last \in w[1].first..b /\ w[Len(w)].last = b
    BY <1>6, <1>9, <2>2
  <2>4. \A k \in 1..Len(w) : k = 1
    BY <1>6, <2>2
  <2>5. \A k \in 1..Len(w) :
          /\ w[k].first \in a..b /\ w[k].last \in w[k].first..b
          /\ \A r \in w[k].first..w[k].last : TypeAt(column, r) = w[k].type
    BY <1>6, <2>3, <2>4
  <2>6. 1..(Len(w) - 1) = {} /\ Len(w) \in Nat \ {0} /\ ~(a > b)
    BY <1>6, <2>2
  <2> QED
    BY <1>1, <1>3, <1>4, <1>6, <2>3, <2>5, <2>6 DEF ArePieces
<1>10. CASE m < b
  <2>1. n \in Nat \ {0} /\ ps[1].first = m + 1 /\ ps[n].last = b
    <3>1. m + 1 <= b
      BY <1>10
    <3> QED
      BY <1>5, <3>1 DEF ArePieces
  <2>2. ps[1].type # p.type
    <3>1. 1 \in 1..n
      BY <2>1
    <3>2. ps[1].last \in (m + 1)..b /\ \A r \in (m + 1)..ps[1].last : TypeAt(column, r) = ps[1].type
      BY <1>7, <2>1, <3>1
    <3>3. m + 1 \in (m + 1)..ps[1].last
      BY <3>2
    <3>4. TypeAt(column, m + 1) = ps[1].type
      BY <3>2, <3>3
    <3> QED
      BY <1>10, <3>4
  <2>3. \A k \in 1..(n + 1) : k = 1 \/ \E j \in 1..n : k = j + 1
    <3> TAKE k \in 1..(n + 1)
    <3>1. k = 1 \/ (k - 1 \in 1..n /\ k = (k - 1) + 1)
      OBVIOUS
    <3> QED
      BY <3>1
  <2>4. ASSUME NEW k \in 1..Len(w)
        PROVE  /\ w[k].first \in a..b /\ w[k].last \in w[k].first..b
               /\ \A r \in w[k].first..w[k].last : TypeAt(column, r) = w[k].type
    <3>1. CASE k = 1
      BY <1>6, <3>1
    <3>2. CASE k # 1
      <4>1. PICK j \in 1..n : k = j + 1
        BY <1>6, <2>3, <2>4, <3>2
      <4>2. w[k] = ps[j]
        BY <1>6, <4>1
      <4>3. ps[j].first \in a..b
        BY <1>7
      <4> QED
        BY <1>7, <4>2, <4>3
    <3> QED
      BY <3>1, <3>2
  <2>5. ASSUME NEW k \in 1..(Len(w) - 1)
        PROVE  w[k + 1].first = w[k].last + 1 /\ w[k + 1].type # w[k].type
    <3>1. k \in 1..n
      BY <1>6
    <3>2. w[k + 1] = ps[k]
      BY <1>6, <3>1
    <3>3. CASE k = 1
      BY <1>6, <2>1, <2>2, <3>2, <3>3
    <3>4. CASE k # 1
      <4>1. PICK j : j = k - 1 /\ j \in 1..(n - 1) /\ j \in 1..n /\ k = j + 1
        BY <3>1, <3>4
      <4>2. w[k] = ps[j]
        BY <1>6, <4>1
      <4>3. ps[j + 1].first = ps[j].last + 1 /\ ps[j + 1].type # ps[j].type
        BY <1>8, <4>1
      <4> QED
        BY <3>2, <4>1, <4>2, <4>3
    <3> QED
      BY <3>3, <3>4
  <2>6. Len(w) \in Nat \ {0} /\ ~(a > b) /\ w[1].first = a
    BY <1>6, <1>10
  <2>7. w[Len(w)].last = b
    <3>1. w[n + 1] = ps[n]
      BY <1>6, <2>1
    <3> QED
      BY <1>6, <2>1, <3>1
  <2> QED
    BY <1>1, <1>3, <1>4, <2>4, <2>5, <2>6, <2>7 DEF ArePieces
<1> QED
  BY <1>9, <1>10

LEMMA NoPieces ==
  ASSUME NEW column, NEW a \in Nat, NEW b \in Nat, a > b
  PROVE  ArePieces(<< >>, column, a, b)
<1>1. PICK w : w = << >>
  OBVIOUS
<1>3. PICK X : X = [first : Nat, last : Nat, type : { TypeAt(column, k) : k \in Nat }]
  OBVIOUS
<1>4. w \in Seq(X)
  BY <1>1
<1>2. Len(w) = 0 /\ 1..0 = {} /\ 1..(0 - 1) = {} /\ ~(a <= b)
  BY <1>1
<1> QED
  BY <1>1, <1>2, <1>3, <1>4 DEF ArePieces

\* What walk() and count_range() go through: the cells of a column, in parts of
\* one type that are as long as they can be.
LEMMA PiecesCover ==
  ASSUME NEW column, IsColumn(column), NEW last \in Nat, last < Len(column), NEW first \in 0..last
  PROVE  ArePieces(Pieces(column, first, last), column, first, last)
<1>1. PICK n \in Nat : n = Len(column)
  BY DEF IsColumn
<1>2. PICK f : f = CHOOSE x : IsPieces(x, column, last)
  OBVIOUS
<1>3. IsPieces(f, column, last)
  <2>1. PICK e : PiecesFollow(e, column, last)
    BY PiecesExist
  <2>2. e = [row \in 0..Len(column) |-> e[row]]
    BY <2>1 DEF PiecesFollow
  <2>3. \A row \in 0..Len(column) :
          e[row] = IF row > last \/ row = Len(column) THEN << >>
                   ELSE << [first |-> row, last |-> Least(BlockLast(column, row), last),
                            type |-> TypeAt(column, row)] >> \o e[BlockLast(column, row) + 1]
    BY <2>1 DEF PiecesFollow, PieceFrom
  <2>4. IsPieces(e, column, last)
    BY <2>2, <2>3, Zenon DEF IsPieces
  <2> QED
    BY <1>2, <2>4
<1>4. \A row \in 0..n :
        f[row] = IF row > last \/ row = n THEN << >>
                 ELSE << PieceFrom(column, row, last) >> \o f[BlockLast(column, row) + 1]
  BY <1>1, <1>3, Zenon DEF IsPieces, PieceFrom
<1>5. PICK D : D = 0..n
  OBVIOUS
<1>6. PICK rk : rk = [d \in D |-> n - d]
  OBVIOUS
<1>7. rk \in [D -> 0..n]
  <2>1. \A d \in D : n - d \in 0..n
    BY <1>5
  <2> QED
    BY <1>6, <2>1
<1>8. PICK S : S = { d \in D : d <= last + 1 => ArePieces(f[d], column, d, last) }
  OBVIOUS
<1>9. ASSUME NEW d \in D, \A e \in D : rk[e] < rk[d] => e \in S
      PROVE  d \in S
  <2>1. d \in Nat /\ d \in 0..n
    BY <1>5
  <2>2. CASE d > last + 1
    BY <1>8, <2>1, <2>2
  <2>3. CASE d = last + 1
    <3>1. f[d] = << >>
      <4>1. d > last
        BY <2>1, <2>3
      <4> QED
        BY <1>4, <2>1, <4>1, Zenon
    <3>2. d > last
      BY <2>3
    <3>3. ArePieces(f[d], column, d, last)
      BY <2>1, <3>1, <3>2, NoPieces
    <3> QED
      BY <1>8, <3>3
  <2>4. CASE d <= last
    <3>1. d \in 0..last
      BY <2>1, <2>4
    <3>2. PICK b \in d..last, p \in {PieceFrom(column, d, last)} : IsPieceFrom(p, column, d, b, last)
      BY <3>1, PieceFromFacts
    <3>3. PICK m \in b..(n - 1) : m = BlockLast(column, d)
      BY <1>1, <3>2 DEF IsPieceFrom
    <3>4. PICK ps : ps = f[m + 1]
      OBVIOUS
    <3>5. f[d] = << p >> \o ps
      <4>1. ~(d > last \/ d = n)
        BY <1>1, <2>1, <2>4
      <4> QED
        BY <1>4, <2>1, <3>2, <3>3, <3>4, <4>1
    <3>6. m + 1 \in D /\ rk[m + 1] < rk[d]
      <4>1. m + 1 \in D /\ n - (m + 1) < n - d
        BY <1>5, <2>1, <3>3
      <4> QED
        BY <1>6, <4>1
    <3>7. ArePieces(ps, column, b + 1, last)
      <4>1. CASE b < last
        <5>1. m = b
          BY <3>2, <3>3, <4>1 DEF IsPieceFrom
        <5>2. b + 1 \in S /\ b + 1 <= last + 1
          BY <1>9, <3>6, <4>1, <5>1
        <5> QED
          BY <1>8, <3>4, <5>1, <5>2
      <4>2. CASE b = last
        <5>1. m + 1 \in 0..n /\ m + 1 > last
          BY <1>5, <2>1, <3>3, <4>2
        <5>2. ps = << >>
          BY <1>4, <3>4, <5>1
        <5>3. b + 1 \in Nat /\ b + 1 > last
          BY <4>2
        <5> QED
          BY <5>2, <5>3, NoPieces
      <4> QED
        BY <4>1, <4>2
    <3>8. b < last => TypeAt(column, b + 1) # p.type
      BY <3>2 DEF IsPieceFrom
    <3>9. \A r \in d..b : TypeAt(column, r) = p.type
      BY <3>2 DEF IsPieceFrom
    <3>10. ArePieces(<< p >> \o ps, column, d, last)
      BY <2>1, <3>2, <3>7, <3>8, <3>9, PieceAbove DEF IsPieceFrom
    <3> QED
      BY <1>8, <3>5, <3>10
  <2> QED
    BY <2>1, <2>2, <2>3, <2>4
<1>10. D \subseteq S
  BY <1>7, <1>9, ByMeasure
<1>11. first \in S /\ first <= last + 1
  <2>1. first \in D
    BY <1>1, <1>5
  <2> QED
    BY <1>10, <2>1
<1>12. Pieces(column, first, last) = f[first]
  BY <1>2, PiecesAre
<1> QED
  BY <1>8, <1>11, <1>12

-----------------------------------------------------------------------------
(* Going through the columns of a sheet.                                     *)

\* A function that is the base up to m, and from there on made of the one before.
Steps(f, n, m, base, g, X) ==
  /\ f \in [0..n -> X]
  /\ \A k \in 0..n : f[k] = IF k <= m THEN base ELSE g[k][f[k - 1]]

LEMMA StepsExist ==
  ASSUME NEW n \in Nat, NEW m \in Nat, NEW X, NEW base \in X, NEW g \in [1..n -> [X -> X]]
  PROVE  \E f : Steps(f, n, m, base, g, X)
<1>1. PICK D : D = 0..n
  OBVIOUS
<1>2. PICK rk : rk = [d \in D |-> d]
  OBVIOUS
<1>3. PICK leaf : leaf = { d \in D : d <= m }
  OBVIOUS
<1>4. PICK s : s = [d \in D |-> base]
  OBVIOUS
<1>5. PICK h : h = [d \in D |-> IF d = 0 THEN 0 ELSE d - 1]
  OBVIOUS
<1>6. PICK g2 : g2 = [d \in D |-> IF d = 0 THEN [x \in X |-> x] ELSE g[d]]
  OBVIOUS
<1>7. rk \in [D -> 0..n] /\ s \in [D -> X]
  BY <1>1, <1>2, <1>4
<1>8. h \in [D -> D]
  <2>1. \A d \in D : (IF d = 0 THEN 0 ELSE d - 1) \in D
    BY <1>1
  <2> QED
    BY <1>5, <2>1
<1>9. g2 \in [D -> [X -> X]]
  <2>1. ASSUME NEW d \in D PROVE (IF d = 0 THEN [x \in X |-> x] ELSE g[d]) \in [X -> X]
    <3>1. CASE d = 0
      BY <3>1
    <3>2. CASE d # 0
      <4>1. d \in 1..n
        BY <1>1, <3>2
      <4> QED
        BY <3>2, <4>1
    <3> QED
      BY <3>1, <3>2
  <2> QED
    BY <1>6, <2>1
<1>10. ASSUME NEW d \in D, d \notin leaf
       PROVE  d # 0 /\ h[d] = d - 1 /\ rk[h[d]] < rk[d] /\ g2[d] = g[d] /\ ~(d <= m)
  <2>1. d \in Nat /\ ~(d <= m) /\ d # 0
    BY <1>1, <1>3, <1>10
  <2>2. h[d] = d - 1 /\ d - 1 \in D
    BY <1>1, <1>5, <2>1
  <2>3. rk[d - 1] = d - 1 /\ rk[d] = d
    BY <1>2, <2>2
  <2> QED
    BY <1>6, <2>1, <2>2, <2>3
<1>11. PICK f : Recurs(f, D, X, leaf, s, h, g2)
  <2>1. \A d \in D : d \notin leaf => rk[h[d]] < rk[d]
    BY <1>10
  <2> QED
    BY <1>7, <1>8, <1>9, <2>1, RecursionExists
<1>12. ASSUME NEW k \in 0..n PROVE f[k] = IF k <= m THEN base ELSE g[k][f[k - 1]]
  <2>1. k \in D /\ f[k] = IF k \in leaf THEN s[k] ELSE g2[k][f[h[k]]]
    BY <1>1, <1>11 DEF Recurs
  <2>2. CASE k \in leaf
    <3>1. k <= m
      BY <1>3, <2>2
    <3> QED
      BY <1>4, <2>1, <2>2, <3>1
  <2>3. CASE k \notin leaf
    BY <1>10, <2>1, <2>3
  <2> QED
    BY <2>2, <2>3
<1>13. f \in [0..n -> X]
  BY <1>1, <1>11 DEF Recurs
<1> QED
  BY <1>12, <1>13 DEF Steps

\* What a walk shows of the columns from lo to hi and the rows from a to b.
ShownAfter(v, w) == \/ w.column < v.column
                    \/ w.column = v.column /\ w.piece.last < v.piece.first
OtherType(v, w)  == w.column = v.column => w.piece.type # v.piece.type

ShowsOf(w, sheet, a, b) ==
  /\ w.piece.first \in a..b /\ w.piece.last \in w.piece.first..b
  /\ \A r \in w.piece.first..w.piece.last : TypeAt(sheet[w.column + 1], r) = w.piece.type

ShowsCell(w, c, r) == w.column = c /\ r \in w.piece.first..w.piece.last

IsWalked(w, X, sheet, lo, hi, a, b) ==
  /\ w \in Seq(X)
  /\ \A k \in 1..Len(w) : w[k].column \in lo..hi /\ ShowsOf(w[k], sheet, a, b)
  /\ \A k \in 1..(Len(w) - 1) : ShownAfter(w[k + 1], w[k]) /\ OtherType(w[k + 1], w[k])
  /\ \A c \in lo..hi, r \in a..b : \E k \in 1..Len(w) : ShowsCell(w[k], c, r)

\* Pieces of a whole stretch leave no row out.
LEMMA PiecesFill ==
  ASSUME NEW column, NEW a \in Nat, NEW b \in Nat, a <= b, NEW ps, ArePieces(ps, column, a, b), NEW r \in a..b
  PROVE  \E k \in 1..Len(ps) : r \in ps[k].first..ps[k].last
<1>1. PICK n \in Nat : n = Len(ps) - 1 /\ Len(ps) = n + 1 /\ n + 1 \in Nat
  <2>1. Len(ps) \in Nat \ {0}
    BY DEF ArePieces
  <2> QED
    BY <2>1
<1>2. /\ ps[1].first = a /\ ps[n + 1].last = b
      /\ \A k \in 1..(n + 1) : ps[k].first \in a..b /\ ps[k].last \in ps[k].first..b
      /\ \A k \in 1..n : ps[k + 1].first = ps[k].last + 1
  BY <1>1 DEF ArePieces
<1>3. PICK S : S = { k \in 0..n : r <= ps[k + 1].last => \E j \in 1..(n + 1) : r \in ps[j].first..ps[j].last }
  OBVIOUS
<1>4. 0 \in S
  <2>1. 1 \in 1..(n + 1) /\ 0 \in 0..n
    OBVIOUS
  <2>2. r <= ps[1].last => r \in ps[1].first..ps[1].last
    BY <1>2, <2>1
  <2> QED
    BY <1>3, <2>1, <2>2
<1>5. ASSUME NEW k \in 0..(n - 1), k \in S PROVE k + 1 \in S
  <2>1. PICK i \in 1..n : i = k + 1 /\ i \in 0..n /\ i \in 1..(n + 1) /\ i + 1 \in 1..(n + 1)
    OBVIOUS
  <2>2. /\ ps[i + 1].first = ps[i].last + 1
        /\ ps[i].last \in Int /\ ps[i + 1].last \in Int /\ r \in Int
    BY <1>2, <2>1
  <2>3. CASE r <= ps[i].last
    BY <1>3, <1>5, <2>1, <2>3
  <2>4. CASE ~(r <= ps[i].last)
    <3>1. r <= ps[i + 1].last => r \in ps[i + 1].first..ps[i + 1].last
      BY <2>2, <2>4
    <3> QED
      BY <1>3, <2>1, <3>1
  <2> QED
    BY <2>3, <2>4
<1>6. n \in S
  <2>1. \A k \in 0..n : k \in S
    BY <1>4, <1>5, UpTo
  <2> QED
    BY <2>1
<1> QED
  BY <1>1, <1>2, <1>3, <1>6

LEMMA ShownFacts ==
  ASSUME NEW sheet, NEW c \in Nat, NEW column, column = sheet[c + 1], NEW a \in Nat, NEW b \in Nat, a <= b,
         NEW ps, ArePieces(ps, column, a, b),
         NEW X, \A k \in 1..Len(ps) : [column |-> c, piece |-> ps[k]] \in X
  PROVE  IsWalked(Shown(c, ps), X, sheet, c, c, a, b)
<1>1. PICK n \in Nat : n = Len(ps) /\ DOMAIN ps = 1..n
  BY DEF ArePieces
<1>2. PICK w : w = Shown(c, ps)
  OBVIOUS
<1>3. w = [k \in 1..n |-> [column |-> c, piece |-> ps[k]]]
  BY <1>1, <1>2 DEF Shown
<1>4. w \in Seq(X) /\ Len(w) = n
  <2>1. w \in [1..n -> X]
    BY <1>1, <1>3
  <2> QED
    BY <1>1, <1>3, <2>1, LengthOf
<1>5. \A k \in 1..n : w[k].column = c /\ w[k].piece = ps[k]
  BY <1>3
<1>6. ASSUME NEW k \in 1..n PROVE w[k].column \in c..c /\ ShowsOf(w[k], sheet, a, b)
  <2>1. /\ ps[k].first \in a..b /\ ps[k].last \in ps[k].first..b
        /\ \A r \in ps[k].first..ps[k].last : TypeAt(column, r) = ps[k].type
    BY <1>1 DEF ArePieces
  <2> QED
    BY <1>5, <2>1 DEF ShowsOf
<1>7. ASSUME NEW k \in 1..(n - 1) PROVE ShownAfter(w[k + 1], w[k]) /\ OtherType(w[k + 1], w[k])
  <2>1. k \in 1..n /\ k + 1 \in 1..n
    OBVIOUS
  <2>2. ps[k + 1].first = ps[k].last + 1 /\ ps[k + 1].type # ps[k].type
    BY <1>1 DEF ArePieces
  <2>3. ps[k].last \in Int
    <3>1. ps[k].first \in a..b /\ ps[k].last \in ps[k].first..b
      BY <1>1, <2>1 DEF ArePieces
    <3> QED
      BY <3>1
  <2>4. ps[k].last < ps[k + 1].first
    BY <2>2, <2>3
  <2> QED
    BY <1>5, <2>1, <2>2, <2>4 DEF ShownAfter, OtherType
<1>8. ASSUME NEW d \in c..c, NEW r \in a..b PROVE \E k \in 1..n : ShowsCell(w[k], d, r)
  <2>1. PICK k \in 1..n : r \in ps[k].first..ps[k].last
    BY <1>1, PiecesFill
  <2> QED
    BY <1>5, <2>1 DEF ShowsCell
<1> QED
  BY <1>2, <1>4, <1>6, <1>7, <1>8 DEF IsWalked

LEMMA WalkOn ==
  ASSUME NEW X, NEW sheet, NEW a \in Nat, NEW b \in Nat, NEW lo \in Nat, NEW c \in Nat, lo <= c,
         NEW u, IsWalked(u, X, sheet, lo, c - 1, a, b), NEW v, IsWalked(v, X, sheet, c, c, a, b)
  PROVE  IsWalked(u \o v, X, sheet, lo, c, a, b)
<1>1. PICK w : w = u \o v
  OBVIOUS
<1>2. PICK m \in Nat, n \in Nat : m = Len(u) /\ n = Len(v)
  BY DEF IsWalked
<1>3. w \in Seq(X) /\ Len(w) = m + n /\ (\A k \in 1..m : w[k] = u[k]) /\ (\A k \in 1..n : w[m + k] = v[k])
  <2>1. u \in Seq(X) /\ v \in Seq(X)
    BY DEF IsWalked
  <2>2. w \in Seq(X) /\ IsJoined(w, u, v)
    BY <1>1, <2>1, JoinFacts
  <2> QED
    BY <1>2, <2>2 DEF IsJoined
<1>4. /\ \A k \in 1..m : u[k].column \in lo..(c - 1) /\ ShowsOf(u[k], sheet, a, b)
      /\ \A k \in 1..(m - 1) : ShownAfter(u[k + 1], u[k]) /\ OtherType(u[k + 1], u[k])
      /\ \A d \in lo..(c - 1), r \in a..b : \E k \in 1..m : ShowsCell(u[k], d, r)
  BY <1>2 DEF IsWalked
<1>5. /\ \A k \in 1..n : v[k].column \in c..c /\ ShowsOf(v[k], sheet, a, b)
      /\ \A k \in 1..(n - 1) : ShownAfter(v[k + 1], v[k]) /\ OtherType(v[k + 1], v[k])
      /\ \A d \in c..c, r \in a..b : \E k \in 1..n : ShowsCell(v[k], d, r)
  BY <1>2 DEF IsWalked
<1>6. \A k \in 1..(m + n) : k \in 1..m \/ \E j \in 1..n : k = m + j
  <2> TAKE k \in 1..(m + n)
  <2>1. k \in 1..m \/ (k - m \in 1..n /\ k = m + (k - m))
    OBVIOUS
  <2> QED
    BY <2>1
<1>7. ASSUME NEW k \in 1..(m + n) PROVE w[k].column \in lo..c /\ ShowsOf(w[k], sheet, a, b)
  <2>1. CASE k \in 1..m
    <3>1. w[k] = u[k] /\ u[k].column \in lo..(c - 1)
      BY <1>3, <1>4, <2>1
    <3>2. u[k].column \in lo..c
      BY <3>1
    <3> QED
      BY <1>4, <2>1, <3>1, <3>2
  <2>2. CASE k \notin 1..m
    <3>1. PICK j \in 1..n : k = m + j
      BY <1>6, <2>2
    <3>2. w[k] = v[j] /\ v[j].column \in c..c /\ ShowsOf(v[j], sheet, a, b)
      BY <1>3, <1>5, <3>1
    <3>3. v[j].column \in lo..c
      BY <3>2
    <3> QED
      BY <3>2, <3>3
  <2> QED
    BY <2>1, <2>2
<1>8. ASSUME NEW k \in 1..(m + n - 1) PROVE ShownAfter(w[k + 1], w[k]) /\ OtherType(w[k + 1], w[k])
  <2>1. CASE k \in 1..(m - 1)
    <3>1. k \in 1..m /\ k + 1 \in 1..m
      BY <2>1
    <3> QED
      BY <1>3, <1>4, <2>1, <3>1
  <2>2. CASE k = m
    <3>1. k \in 1..m /\ 1 \in 1..n /\ k + 1 = m + 1
      BY <2>2
    <3>2. w[k] = u[k] /\ w[k + 1] = v[1]
      BY <1>3, <3>1
    <3>3. u[k].column \in lo..(c - 1) /\ v[1].column \in c..c
      BY <1>4, <1>5, <3>1
    <3>4. u[k].column < v[1].column /\ u[k].column # v[1].column
      BY <3>3
    <3> QED
      BY <3>2, <3>4 DEF ShownAfter, OtherType
  <2>3. CASE k > m
    <3>1. PICK j : j = k - m /\ j \in 1..(n - 1) /\ j \in 1..n /\ j + 1 \in 1..n /\ k = m + j /\ k + 1 = m + (j + 1)
      BY <2>3
    <3>2. w[k] = v[j] /\ w[k + 1] = v[j + 1]
      BY <1>3, <3>1
    <3> QED
      BY <1>5, <3>1, <3>2
  <2> QED
    BY <2>1, <2>2, <2>3
<1>9. ASSUME NEW d \in lo..c, NEW r \in a..b PROVE \E k \in 1..(m + n) : ShowsCell(w[k], d, r)
  <2>1. CASE d = c
    <3>1. PICK j \in 1..n : ShowsCell(v[j], d, r)
      BY <1>5, <2>1
    <3>2. m + j \in 1..(m + n) /\ w[m + j] = v[j]
      BY <1>3
    <3> QED
      BY <3>1, <3>2
  <2>2. CASE d # c
    <3>1. d \in lo..(c - 1)
      BY <2>2
    <3>2. PICK j \in 1..m : ShowsCell(u[j], d, r)
      BY <1>4, <3>1
    <3>3. j \in 1..(m + n) /\ w[j] = u[j]
      BY <1>3
    <3> QED
      BY <3>2, <3>3
  <2> QED
    BY <2>1, <2>2
<1>10. \A k \in 1..Len(w) : w[k].column \in lo..c /\ ShowsOf(w[k], sheet, a, b)
  BY <1>3, <1>7
<1>11. \A k \in 1..(Len(w) - 1) : ShownAfter(w[k + 1], w[k]) /\ OtherType(w[k + 1], w[k])
  BY <1>3, <1>8
<1>12. \A d \in lo..c, r \in a..b : \E k \in 1..Len(w) : ShowsCell(w[k], d, r)
  BY <1>3, <1>9
<1> QED
  BY <1>1, <1>3, <1>10, <1>11, <1>12, Zenon DEF IsWalked

PieceOfSheet(sheet) == [first : Nat, last : Nat, type : UNION { { TypeAt(sheet[c], r) : r \in Nat } : c \in Nat }]
ShownPieces(sheet) == [column : Nat, piece : PieceOfSheet(sheet)]

\* Some columns and rows of a sheet.
IsArea(sheet, lo, hi, a, b) ==
  /\ IsSheet(sheet)
  /\ lo \in Nat /\ hi \in Nat /\ lo <= hi /\ hi < Len(sheet)
  /\ a \in Nat /\ b \in Nat /\ a <= b /\ b < Len(sheet[1])

LEMMA ColumnShown ==
  ASSUME NEW sheet, NEW lo, NEW hi, NEW a, NEW b, IsArea(sheet, lo, hi, a, b), NEW k \in 1..Len(sheet)
  PROVE  /\ ArePieces(Pieces(sheet[k], a, b), sheet[k], a, b)
         /\ IsWalked(Shown(k - 1, Pieces(sheet[k], a, b)), ShownPieces(sheet), sheet, k - 1, k - 1, a, b)
<1>1. PICK column : column = sheet[k]
  OBVIOUS
<1>2. IsColumn(column) /\ b < Len(column) /\ a \in Nat /\ b \in Nat /\ a <= b /\ a \in 0..b
  BY <1>1 DEF IsArea, IsSheet
<1>3. PICK ps : ps = Pieces(column, a, b)
  OBVIOUS
<1>4. ArePieces(ps, column, a, b)
  BY <1>2, <1>3, PiecesCover
<1>5. k \in Nat /\ k - 1 \in Nat /\ (k - 1) + 1 = k
  BY DEF IsArea, IsSheet
<1>6. ASSUME NEW i \in 1..Len(ps) PROVE [column |-> k - 1, piece |-> ps[i]] \in ShownPieces(sheet)
  <2>8. PICK T : T = { TypeAt(column, r) : r \in Nat }
    OBVIOUS
  <2>6. PICK T2 : T2 = UNION { { TypeAt(sheet[c], r) : r \in Nat } : c \in Nat }
    OBVIOUS
  <2>1. PICK Y : Y = [first : Nat, last : Nat, type : T]
    OBVIOUS
  <2>2. ps \in Seq(Y)
    BY <1>4, <2>1, <2>8 DEF ArePieces
  <2>3. ps[i] \in Y
    BY <2>2
  <2>4. T \subseteq T2
    BY <1>1, <1>5, <2>6, <2>8
  <2>7. ps[i] \in [first : Nat, last : Nat, type : T2]
    BY <2>1, <2>3, <2>4
  <2>5. ps[i] \in PieceOfSheet(sheet)
    BY <2>6, <2>7 DEF PieceOfSheet
  <2> QED
    BY <1>5, <2>5 DEF ShownPieces
<1>7. PICK c \in Nat : c = k - 1 /\ column = sheet[c + 1]
  BY <1>1, <1>5
<1>8. \A i \in 1..Len(ps) : [column |-> c, piece |-> ps[i]] \in ShownPieces(sheet)
  BY <1>6, <1>7
<1>9. IsWalked(Shown(c, ps), ShownPieces(sheet), sheet, c, c, a, b)
  BY <1>2, <1>4, <1>7, <1>8, ShownFacts
<1> QED
  BY <1>1, <1>3, <1>4, <1>7, <1>9

IsWalk(f, sheet, range) ==
  f = [c \in 0..Len(sheet) |->
         IF c <= range.first.column THEN << >>
         ELSE f[c - 1] \o Shown(c - 1, Pieces(sheet[c], range.first.row, range.last.row))]

LEMMA WalkIs ==
  ASSUME NEW sheet, NEW range
  PROVE  Walked(sheet, range) = (CHOOSE f : IsWalk(f, sheet, range))[range.last.column + 1]
BY Zenon DEF Walked, IsWalk

LEMMA WalkExists ==
  ASSUME NEW sheet, NEW range, NEW lo, NEW hi, NEW a, NEW b, IsArea(sheet, lo, hi, a, b),
         range.first.column = lo, range.last.column = hi, range.first.row = a, range.last.row = b
  PROVE  \E f : IsWalk(f, sheet, range)
<1>1. PICK n \in Nat : n = Len(sheet)
  BY DEF IsArea, IsSheet
<1>2. PICK X : X = Seq(ShownPieces(sheet))
  OBVIOUS
<1>3. PICK v : v = [k \in 1..n |-> Shown(k - 1, Pieces(sheet[k], a, b))]
  OBVIOUS
<1>4. \A k \in 1..n : v[k] \in X
  BY <1>1, <1>2, <1>3, ColumnShown DEF IsWalked
<1>5. PICK g : g = [k \in 1..n |-> [x \in X |-> x \o v[k]]]
  OBVIOUS
<1>6. g \in [1..n -> [X -> X]]
  <2>1. ASSUME NEW k \in 1..n, NEW x \in X PROVE x \o v[k] \in X
    BY <1>2, <1>4, JoinFacts
  <2> QED
    BY <1>5, <2>1
<1>7. << >> \in X /\ lo \in Nat
  BY <1>2 DEF IsArea
<1>8. PICK f : Steps(f, n, lo, << >>, g, X)
  BY <1>6, <1>7, StepsExist
<1>9. ASSUME NEW k \in 0..n
      PROVE  f[k] = IF k <= lo THEN << >> ELSE f[k - 1] \o Shown(k - 1, Pieces(sheet[k], a, b))
  <2>1. f[k] = IF k <= lo THEN << >> ELSE g[k][f[k - 1]]
    BY <1>8 DEF Steps
  <2>2. CASE k <= lo
    BY <2>1, <2>2
  <2>3. CASE ~(k <= lo)
    <3>1. k \in 1..n /\ k - 1 \in 0..n
      BY <1>7, <2>3
    <3>2. f[k - 1] \in X
      BY <1>8, <3>1 DEF Steps
    <3>3. g[k][f[k - 1]] = f[k - 1] \o v[k]
      BY <1>5, <3>1, <3>2
    <3> QED
      BY <1>3, <2>1, <2>3, <3>1, <3>3
  <2> QED
    BY <2>2, <2>3
<1>10. f = [k \in 0..n |-> f[k]]
  BY <1>8 DEF Steps
<1>11. IsWalk(f, sheet, range)
  BY <1>1, <1>9, <1>10, Zenon DEF IsWalk
<1> QED
  BY <1>11

\* walk() shows the cells of its range column by column, in pieces.
LEMMA WalkFacts ==
  ASSUME NEW sheet, NEW range, NEW lo, NEW hi, NEW a, NEW b, IsArea(sheet, lo, hi, a, b),
         range.first.column = lo, range.last.column = hi, range.first.row = a, range.last.row = b
  PROVE  IsWalked(Walked(sheet, range), ShownPieces(sheet), sheet, lo, hi, a, b)
<1>1. PICK n \in Nat : n = Len(sheet)
  BY DEF IsArea, IsSheet
<1>2. PICK f : f = CHOOSE x : IsWalk(x, sheet, range)
  OBVIOUS
<1>3. IsWalk(f, sheet, range)
  BY <1>2, WalkExists
<1>4. \A k \in 0..n : f[k] = IF k <= lo THEN << >> ELSE f[k - 1] \o Shown(k - 1, Pieces(sheet[k], a, b))
  BY <1>1, <1>3, Zenon DEF IsWalk
<1>5. lo \in Nat /\ hi \in Nat /\ lo <= hi /\ hi < n /\ a \in Nat /\ b \in Nat
  BY <1>1 DEF IsArea
<1>6. PICK X : X = ShownPieces(sheet)
  OBVIOUS
<1>7. PICK S : S = { k \in 0..(n - lo) : IsWalked(f[lo + k], X, sheet, lo, lo + k - 1, a, b) }
  OBVIOUS
<1>8. 0 \in S
  <2>1. lo \in 0..n /\ lo <= lo /\ lo + 0 = lo /\ 0 \in 0..(n - lo)
    BY <1>5
  <2>2. f[lo] = << >>
    BY <1>4, <2>1
  <2>6. PICK w : w = << >>
    OBVIOUS
  <2>3. w = << >> /\ w \in Seq(X)
    BY <2>6
  <2>4. 1..Len(w) = {} /\ 1..(Len(w) - 1) = {} /\ lo..(lo + 0 - 1) = {}
    BY <1>5, <2>3
  <2>5. IsWalked(w, X, sheet, lo, lo + 0 - 1, a, b)
    BY <2>3, <2>4, Zenon DEF IsWalked
  <2> QED
    BY <1>7, <2>1, <2>2, <2>3, <2>5
<1>9. ASSUME NEW k \in 0..(n - lo - 1), k \in S PROVE k + 1 \in S
  <2>1. PICK c \in Nat : c = lo + k /\ c + 1 \in 1..n /\ c + 1 = lo + (k + 1) /\ lo <= c /\ ~(c + 1 <= lo)
    BY <1>5
  <2>2. IsWalked(f[c], X, sheet, lo, c - 1, a, b)
    <3>1. IsWalked(f[lo + k], X, sheet, lo, lo + k - 1, a, b)
      BY <1>7, <1>9
    <3>2. lo + k = c /\ lo + k - 1 = c - 1
      BY <1>5, <2>1
    <3> QED
      BY <3>1, <3>2
  <2>3. (c + 1) - 1 = c
    OBVIOUS
  <2>4. PICK v : v = Shown(c, Pieces(sheet[c + 1], a, b))
    OBVIOUS
  <2>5. IsWalked(v, X, sheet, c, c, a, b)
    <3>1. IsWalked(Shown((c + 1) - 1, Pieces(sheet[c + 1], a, b)), ShownPieces(sheet), sheet, (c + 1) - 1, (c + 1) - 1, a, b)
      BY <1>1, <2>1, ColumnShown
    <3> QED
      BY <1>6, <2>3, <2>4, <3>1
  <2>6. f[c + 1] = f[c] \o v
    <3>1. f[c + 1] = f[(c + 1) - 1] \o Shown((c + 1) - 1, Pieces(sheet[c + 1], a, b))
      <4>1. c + 1 \in 0..n
        BY <2>1
      <4> QED
        BY <1>4, <2>1, <4>1, Zenon
    <3> QED
      BY <2>3, <2>4, <3>1
  <2>7. IsWalked(f[c] \o v, X, sheet, lo, c, a, b)
    BY <1>5, <2>1, <2>2, <2>5, WalkOn
  <2>8. lo + (k + 1) - 1 = c /\ k + 1 \in 0..(n - lo)
    BY <1>5, <2>1
  <2> QED
    BY <1>7, <2>1, <2>6, <2>7, <2>8
<1>10. \A k \in 0..(n - lo) : k \in S
  <2>1. n - lo \in Nat
    BY <1>5
  <2> QED
    BY <1>8, <1>9, <2>1, UpTo
<1>11. PICK j : j = hi + 1 - lo /\ j \in 0..(n - lo) /\ lo + j = hi + 1 /\ lo + j - 1 = hi
  BY <1>5
<1>12. IsWalked(f[hi + 1], X, sheet, lo, hi, a, b)
  BY <1>7, <1>10, <1>11
<1> QED
  BY <1>2, <1>6, <1>12, WalkIs

LEMMA InSheet ==
  ASSUME NEW sheet, NEW range, NEW lo, NEW hi, NEW a, NEW b, IsArea(sheet, lo, hi, a, b),
         range.first.column = lo, range.last.column = hi, range.first.row = a, range.last.row = b
  PROVE  Within(sheet, range) = (a..b) \X (lo..hi)
<1>1. sheet # << >> /\ Len(sheet) \in Nat /\ Len(sheet[1]) \in Nat
  BY DEF IsArea, IsSheet, IsColumn
<1>2. LastColumn(sheet) = Len(sheet) - 1 /\ LastRow(sheet) = Len(sheet[1]) - 1
  BY <1>1 DEF LastColumn, LastRow
<1>3. \A p \in (a..b) \X (lo..hi) : p[1] <= LastRow(sheet) /\ p[2] <= LastColumn(sheet)
  BY <1>1, <1>2 DEF IsArea
<1> QED
  BY <1>3 DEF Within

IsWalkOver(walked, sheet, range) ==
  /\ \A k \in 1..(Len(walked) - 1) :
       /\ \/ walked[k].column < walked[k + 1].column
          \/ walked[k].column = walked[k + 1].column /\ walked[k].piece.last < walked[k + 1].piece.first
       /\ walked[k].column = walked[k + 1].column => walked[k].piece.type # walked[k + 1].piece.type
  /\ Within(sheet, range) =
       UNION { { <<r, walked[k].column>> : r \in walked[k].piece.first..walked[k].piece.last } :
                 k \in DOMAIN walked }
  /\ \A k \in DOMAIN walked : \A r \in walked[k].piece.first..walked[k].piece.last :
       At0(sheet, << r, walked[k].column >>).type = walked[k].piece.type

LEMMA WalksIs ==
  ASSUME NEW sheet, NEW range, NEW w, w = Walked(sheet, range), IsWalkOver(w, sheet, range)
  PROVE  WalksOverCells(sheet, range)
<1> DEFINE walked == Walked(sheet, range)
           before(x, v) == \/ x.column < v.column
                           \/ x.column = v.column /\ x.piece.last < v.piece.first
<1>1. walked = w
  OBVIOUS
<1> HIDE DEF walked
<1>2. \A k \in 1..(Len(walked) - 1) :
        /\ before(walked[k], walked[k + 1])
        /\ walked[k].column = walked[k + 1].column => walked[k].piece.type # walked[k + 1].piece.type
  BY <1>1 DEF IsWalkOver
<1>3. Within(sheet, range) =
        UNION { { <<r, walked[k].column>> : r \in walked[k].piece.first..walked[k].piece.last } :
                  k \in DOMAIN walked }
  BY <1>1 DEF IsWalkOver
<1>4. \A k \in DOMAIN walked : \A r \in walked[k].piece.first..walked[k].piece.last :
        At0(sheet, << r, walked[k].column >>).type = walked[k].piece.type
  BY <1>1 DEF IsWalkOver
<1> QED
  BY <1>2, <1>3, <1>4, Zenon DEF WalksOverCells, walked

\* walk() shows each cell once, in order, with its type, and with as many others
\* of that type as there are.
LEMMA WalkIsOfCells ==
  ASSUME NEW sheet, NEW range, NEW lo, NEW hi, NEW a, NEW b, IsArea(sheet, lo, hi, a, b),
         range.first.column = lo, range.last.column = hi, range.first.row = a, range.last.row = b
  PROVE  WalksOverCells(sheet, range)
<1>1. PICK w : w = Walked(sheet, range)
  OBVIOUS
<1>2. PICK n \in Nat : n = Len(w) /\ DOMAIN w = 1..n
  BY <1>1, WalkFacts DEF IsWalked
<1>3. /\ \A k \in 1..n : w[k].column \in lo..hi /\ ShowsOf(w[k], sheet, a, b)
      /\ \A k \in 1..(n - 1) : ShownAfter(w[k + 1], w[k]) /\ OtherType(w[k + 1], w[k])
      /\ \A c \in lo..hi, r \in a..b : \E k \in 1..n : ShowsCell(w[k], c, r)
  BY <1>1, <1>2, WalkFacts DEF IsWalked
<1>4. ASSUME NEW k \in 1..(Len(w) - 1)
      PROVE  /\ \/ w[k].column < w[k + 1].column
                \/ w[k].column = w[k + 1].column /\ w[k].piece.last < w[k + 1].piece.first
             /\ w[k].column = w[k + 1].column => w[k].piece.type # w[k + 1].piece.type
  <2>1. ShownAfter(w[k + 1], w[k]) /\ OtherType(w[k + 1], w[k])
    BY <1>2, <1>3
  <2> QED
    BY <2>1 DEF ShownAfter, OtherType
<1>5. \A k \in 1..n : /\ w[k].column \in lo..hi
                      /\ w[k].piece.first \in a..b /\ w[k].piece.last \in w[k].piece.first..b
  BY <1>3 DEF ShowsOf
<1>6. Within(sheet, range) = (a..b) \X (lo..hi)
  BY InSheet
<1>7. PICK U : U = UNION { { << r, w[k].column >> : r \in w[k].piece.first..w[k].piece.last } : k \in DOMAIN w }
  OBVIOUS
<1>8. ASSUME NEW p \in Within(sheet, range) PROVE p \in U
  <2>1. PICK r \in a..b, c \in lo..hi : p = << r, c >>
    BY <1>6
  <2>2. PICK k \in 1..n : ShowsCell(w[k], c, r)
    BY <1>3
  <2>3. p \in { << q, w[k].column >> : q \in w[k].piece.first..w[k].piece.last }
    BY <2>1, <2>2 DEF ShowsCell
  <2> QED
    BY <1>2, <1>7, <2>3
<1>9. ASSUME NEW p \in U PROVE p \in Within(sheet, range)
  <2>1. PICK k \in 1..n : p \in { << q, w[k].column >> : q \in w[k].piece.first..w[k].piece.last }
    BY <1>2, <1>7
  <2>2. PICK r \in w[k].piece.first..w[k].piece.last : p = << r, w[k].column >>
    BY <2>1
  <2>3. r \in a..b /\ w[k].column \in lo..hi
    <3>1. w[k].piece.first \in a..b /\ w[k].piece.last \in w[k].piece.first..b
      BY <1>5
    <3>2. w[k].piece.first \in Int /\ w[k].piece.last \in Int /\ a \in Int /\ b \in Int
      BY <3>1 DEF IsArea
    <3>3. r \in a..b
      BY <2>2, <3>1, <3>2
    <3> QED
      BY <1>5, <3>3
  <2> QED
    BY <1>6, <2>2, <2>3
<1>10. ASSUME NEW k \in DOMAIN w, NEW r \in w[k].piece.first..w[k].piece.last
       PROVE  At0(sheet, << r, w[k].column >>).type = w[k].piece.type
  BY <1>2, <1>3, <1>10 DEF ShowsOf, At0, TypeAt
<1>11. Within(sheet, range) = U
  BY <1>8, <1>9
<1> QED
  <2>1. IsWalkOver(w, sheet, range)
    BY <1>4, <1>7, <1>10, <1>11, Zenon DEF IsWalkOver
  <2> QED
    BY <1>1, <2>1, WalksIs

-----------------------------------------------------------------------------
(* Counting.                                                                 *)

\* A set of two parts.
IsSplit(S, A, B) == S = A \cup B /\ A \cap B = {}

LEMMA SplitCount ==
  ASSUME NEW S, NEW A, NEW B, IsSplit(S, A, B), IsFiniteSet(A), IsFiniteSet(B)
  PROVE  IsFiniteSet(S) /\ Cardinality(S) = Cardinality(A) + Cardinality(B)
<1>1. Cardinality(A \cap B) = 0
  BY FS_EmptySet DEF IsSplit
<1>2. Cardinality(A) \in Nat /\ Cardinality(B) \in Nat
  BY FS_CardinalityType
<1>3. IsFiniteSet(A \cup B) /\ Cardinality(A \cup B) = Cardinality(A) + Cardinality(B) - Cardinality(A \cap B)
  BY FS_Union
<1> QED
  BY <1>1, <1>2, <1>3 DEF IsSplit

\* The rows from x to y whose cells show one of the types.
RowsOf(column, x, y, types) == { r \in x..y : column[r + 1].counts \in types }

LEMMA RowsAreFinite ==
  ASSUME NEW column, NEW x \in Int, NEW y \in Int, NEW types
  PROVE  /\ IsFiniteSet(RowsOf(column, x, y, types)) /\ Cardinality(RowsOf(column, x, y, types)) \in Nat
         /\ x > y => RowsOf(column, x, y, types) = {}
<1>1. IsFiniteSet(x..y)
  BY FS_Interval
<1>2. RowsOf(column, x, y, types) \in SUBSET (x..y)
  BY DEF RowsOf
<1>3. IsFiniteSet(RowsOf(column, x, y, types))
  BY <1>1, <1>2, FS_Subset
<1>4. x > y => x..y = {}
  OBVIOUS
<1>5. x > y => RowsOf(column, x, y, types) = {}
  BY <1>2, <1>4
<1>6. Cardinality(RowsOf(column, x, y, types)) \in Nat
  BY <1>3, FS_CardinalityType
<1> QED
  BY <1>3, <1>5, <1>6

LEMMA RowsSplit ==
  ASSUME NEW column, NEW types, NEW x \in Int, NEW m \in Int, NEW y \in Int, x <= m + 1, m <= y
  PROVE  Cardinality(RowsOf(column, x, y, types))
         = Cardinality(RowsOf(column, x, m, types)) + Cardinality(RowsOf(column, m + 1, y, types))
<1>1. PICK S, A, B : /\ S = RowsOf(column, x, y, types) /\ A = RowsOf(column, x, m, types)
                     /\ B = RowsOf(column, m + 1, y, types)
  OBVIOUS
<1>2. \A r : r \in x..y <=> r \in x..m \/ r \in (m + 1)..y
  OBVIOUS
<1>3. \A r : ~(r \in x..m /\ r \in (m + 1)..y)
  OBVIOUS
<1>4. IsSplit(S, A, B)
  BY <1>1, <1>2, <1>3 DEF IsSplit, RowsOf
<1>5. IsFiniteSet(A) /\ IsFiniteSet(B)
  BY <1>1, RowsAreFinite
<1> QED
  BY <1>1, <1>4, <1>5, SplitCount

\* What a cell other than a formula cell counts as is its type.
CountsByType(column) ==
  \A r \in 1..Len(column) : column[r].type # "formula" => column[r].counts = column[r].type

LEMMA PieceCounts ==
  ASSUME NEW column, IsColumn(column), CountsByType(column), NEW b \in Nat, b < Len(column), NEW a \in Nat,
         NEW p, p.first \in a..b, p.last \in p.first..b,
         \A r \in p.first..p.last : TypeAt(column, r) = p.type, NEW types
  PROVE  PieceCount(column, p, types) = Cardinality(RowsOf(column, p.first, p.last, types))
<1>1. PICK x \in Nat, y \in Nat : x = p.first /\ y = p.last /\ x <= y /\ y <= b
  OBVIOUS
<1>2. CASE p.type = "formula"
  BY <1>2 DEF PieceCount, RowsOf
<1>3. CASE p.type # "formula"
  <2>1. ASSUME NEW r \in x..y PROVE column[r + 1].counts = p.type
    <3>1. r + 1 \in 1..Len(column)
      BY <1>1, <2>1 DEF IsColumn
    <3>2. column[r + 1].type = p.type
      BY <1>1, <2>1 DEF TypeAt
    <3> QED
      BY <1>3, <3>1, <3>2 DEF CountsByType
  <2>2. CASE p.type \in types
    <3>1. RowsOf(column, x, y, types) = x..y
      BY <2>1, <2>2 DEF RowsOf
    <3>2. Cardinality(x..y) = y - x + 1
      <4>1. x \in Int /\ y \in Int /\ ~(x > y)
        BY <1>1
      <4> QED
        BY <4>1, FS_Interval
    <3>3. PieceCount(column, p, types) = y - x + 1
      BY <1>1, <1>3, <2>2 DEF PieceCount
    <3> QED
      BY <1>1, <3>1, <3>2, <3>3
  <2>3. CASE p.type \notin types
    <3>1. RowsOf(column, x, y, types) = {}
      BY <2>1, <2>3 DEF RowsOf
    <3>2. PieceCount(column, p, types) = 0
      BY <1>3, <2>3 DEF PieceCount
    <3> QED
      BY <1>1, <3>1, <3>2, FS_EmptySet
  <2> QED
    BY <2>2, <2>3
<1> QED
  BY <1>2, <1>3

\* The sum over the pieces of a column.
IsPieceSum(f, column, pieces, types) ==
  f = [n \in 0..Len(pieces) |-> IF n = 0 THEN 0 ELSE f[n - 1] + PieceCount(column, pieces[n], types)]

LEMMA ColumnCountIs ==
  ASSUME NEW column, NEW range, NEW types,
         NEW pieces, pieces = Pieces(column, range.first.row, range.last.row), range.first.row # Len(column)
  PROVE  ColumnCount(column, range, types) = (CHOOSE f : IsPieceSum(f, column, pieces, types))[Len(pieces)]
BY Zenon DEF ColumnCount, IsPieceSum

LEMMA PieceSumExists ==
  ASSUME NEW column, NEW pieces, NEW types, NEW n \in Nat, Len(pieces) = n,
         \A k \in 1..n : PieceCount(column, pieces[k], types) \in Nat
  PROVE  \E f : IsPieceSum(f, column, pieces, types)
<1>1. PICK v : v = [k \in 1..n |-> PieceCount(column, pieces[k], types)]
  OBVIOUS
<1>2. PICK g : g = [k \in 1..n |-> [x \in Nat |-> x + v[k]]]
  OBVIOUS
<1>3. \A k \in 1..n : v[k] \in Nat
  BY <1>1
<1>4. g \in [1..n -> [Nat -> Nat]]
  <2>1. \A k \in 1..n, x \in Nat : x + v[k] \in Nat
    BY <1>3
  <2>2. \A k \in 1..n : [x \in Nat |-> x + v[k]] \in [Nat -> Nat]
    BY <2>1
  <2> QED
    BY <1>2, <2>2
<1>5. PICK f : Steps(f, n, 0, 0, g, Nat)
  <2>1. 0 \in Nat
    OBVIOUS
  <2>2. \E f : Steps(f, n, 0, 0, g, Nat)
    BY <1>4, <2>1, StepsExist
  <2> QED
    BY <2>2
<1>6. ASSUME NEW k \in 0..n
      PROVE  f[k] = IF k = 0 THEN 0 ELSE f[k - 1] + PieceCount(column, pieces[k], types)
  <2>1. f[k] = IF k <= 0 THEN 0 ELSE g[k][f[k - 1]]
    BY <1>5 DEF Steps
  <2>2. CASE k = 0
    BY <2>1, <2>2
  <2>3. CASE k # 0
    <3>1. k \in 1..n /\ k - 1 \in 0..n /\ ~(k <= 0)
      BY <2>3
    <3>2. f[k - 1] \in Nat
      BY <1>5, <3>1 DEF Steps
    <3>3. g[k][f[k - 1]] = f[k - 1] + v[k]
      BY <1>2, <3>1, <3>2
    <3> QED
      BY <1>1, <2>1, <2>3, <3>1, <3>3
  <2> QED
    BY <2>2, <2>3
<1>7. f = [k \in 0..n |-> f[k]]
  BY <1>5 DEF Steps
<1>8. IsPieceSum(f, column, pieces, types)
  BY <1>6, <1>7, Zenon DEF IsPieceSum
<1> QED
  BY <1>8

\* count_range() of one column counts the rows one by one.
LEMMA ColumnCounts ==
  ASSUME NEW column, IsColumn(column), CountsByType(column), NEW range, NEW a \in Nat, NEW b \in Nat,
         range.first.row = a, range.last.row = b, a <= b, b < Len(column), NEW types
  PROVE  ColumnCount(column, range, types) = Cardinality(RowsOf(column, a, b, types))
<1>1. PICK ps : ps = Pieces(column, a, b)
  OBVIOUS
<1>2. ArePieces(ps, column, a, b)
  BY <1>1, PiecesCover
<1>3. PICK n \in Nat \ {0} : n = Len(ps)
  BY <1>2 DEF ArePieces
<1>4. /\ ps[1].first = a /\ ps[n].last = b
      /\ \A k \in 1..(n - 1) : ps[k + 1].first = ps[k].last + 1
  BY <1>2, <1>3 DEF ArePieces
<1>5. \A k \in 1..n : /\ ps[k].first \in a..b /\ ps[k].last \in ps[k].first..b
                      /\ \A r \in ps[k].first..ps[k].last : TypeAt(column, r) = ps[k].type
  BY <1>2, <1>3 DEF ArePieces
<1>6. ASSUME NEW k \in 1..n
      PROVE  PieceCount(column, ps[k], types) = Cardinality(RowsOf(column, ps[k].first, ps[k].last, types))
  BY <1>5, PieceCounts
<1>7. ASSUME NEW k \in 1..n
      PROVE  /\ ps[k].first \in Int /\ ps[k].last \in Int
             /\ a <= ps[k].first /\ ps[k].first <= ps[k].last /\ ps[k].last <= b
  <2>1. ps[k].first \in a..b /\ ps[k].last \in ps[k].first..b
    BY <1>5
  <2> QED
    BY <2>1
<1>8. \A k \in 1..n : PieceCount(column, ps[k], types) \in Nat
  BY <1>6, <1>7, RowsAreFinite
<1>9. PICK f : f = CHOOSE x : IsPieceSum(x, column, ps, types)
  OBVIOUS
<1>10. IsPieceSum(f, column, ps, types)
  <2>1. \E x : IsPieceSum(x, column, ps, types)
    BY <1>3, <1>8, PieceSumExists
  <2> QED
    BY <1>9, <2>1
<1>11. \A k \in 0..n : f[k] = IF k = 0 THEN 0 ELSE f[k - 1] + PieceCount(column, ps[k], types)
  BY <1>3, <1>10, Zenon DEF IsPieceSum
<1>12. PICK S : S = { k \in 0..(n - 1) : f[k + 1] = Cardinality(RowsOf(column, a, ps[k + 1].last, types)) }
  OBVIOUS
<1>13. 0 \in S
  <2>1. 0 \in 0..(n - 1) /\ 1 \in 1..n /\ 1 \in 0..n /\ 0 \in 0..n /\ 1 - 1 = 0 /\ 0 + 1 = 1 /\ 1 # 0
    OBVIOUS
  <2>2. f[0] = 0 /\ f[1] = f[0] + PieceCount(column, ps[1], types)
    BY <1>11, <2>1
  <2>3. PieceCount(column, ps[1], types) = Cardinality(RowsOf(column, a, ps[1].last, types))
    BY <1>4, <1>6, <2>1
  <2>4. PieceCount(column, ps[1], types) \in Nat
    BY <1>8, <2>1
  <2> QED
    BY <1>12, <2>1, <2>2, <2>3, <2>4
<1>14. ASSUME NEW k \in 0..(n - 2), k \in S PROVE k + 1 \in S
  <2>1. PICK i \in 1..(n - 1) : i = k + 1 /\ i \in 1..n /\ i + 1 \in 1..n /\ i + 1 \in 0..n /\ i \in 0..(n - 1)
                                /\ (i + 1) - 1 = i /\ i + 1 # 0
    OBVIOUS
  <2>2. f[i] = Cardinality(RowsOf(column, a, ps[i].last, types))
    BY <1>12, <1>14, <2>1
  <2>3. f[i + 1] = f[i] + PieceCount(column, ps[i + 1], types)
    BY <1>11, <2>1
  <2>4. PICK m \in Int, y \in Int : m = ps[i].last /\ y = ps[i + 1].last /\ ps[i + 1].first = m + 1 /\ a <= m /\ m <= y
    <3>1. /\ ps[i].last \in Int /\ ps[i + 1].last \in Int /\ ps[i].first \in Int
          /\ a <= ps[i].first /\ ps[i].first <= ps[i].last /\ ps[i + 1].first <= ps[i + 1].last
      BY <1>7, <2>1
    <3>2. ps[i + 1].first = ps[i].last + 1
      BY <1>4, <2>1
    <3> QED
      BY <3>1, <3>2
  <2>5. PieceCount(column, ps[i + 1], types) = Cardinality(RowsOf(column, m + 1, y, types))
    BY <1>6, <2>1, <2>4
  <2>6. Cardinality(RowsOf(column, a, y, types))
        = Cardinality(RowsOf(column, a, m, types)) + Cardinality(RowsOf(column, m + 1, y, types))
    BY <2>4, RowsSplit
  <2> QED
    BY <1>12, <2>1, <2>2, <2>3, <2>4, <2>5, <2>6
<1>15. n - 1 \in S
  <2>1. n - 1 \in Nat /\ (n - 1) - 1 = n - 2
    OBVIOUS
  <2>2. \A k \in 0..(n - 1) : k \in S
    BY <1>13, <1>14, <2>1, UpTo
  <2> QED
    BY <2>1, <2>2
<1>16. f[n] = Cardinality(RowsOf(column, a, b, types))
  BY <1>4, <1>12, <1>15
<1>17. ColumnCount(column, range, types) = f[n]
  <2>1. a # Len(column)
    BY DEF IsColumn
  <2>2. ps = Pieces(column, range.first.row, range.last.row)
    BY <1>1
  <2> QED
    BY <1>3, <1>9, <2>1, <2>2, ColumnCountIs
<1> QED
  BY <1>16, <1>17

\* The cells of an area that show one of the types.
CellsOf(sheet, lo, hi, a, b, types) == { p \in (a..b) \X (lo..hi) : At0(sheet, p).counts \in types }

LEMMA OneColumnOfCells ==
  ASSUME NEW sheet, NEW c \in Int, NEW a \in Int, NEW b \in Int, NEW types
  PROVE  LET B == CellsOf(sheet, c, c, a, b, types)
         IN  IsFiniteSet(B) /\ Cardinality(B) = Cardinality(RowsOf(sheet[c + 1], a, b, types))
<1>1. PICK R : R = RowsOf(sheet[c + 1], a, b, types)
  OBVIOUS
<1>2. PICK B : B = CellsOf(sheet, c, c, a, b, types)
  OBVIOUS
<1>3. IsFiniteSet(R)
  BY <1>1, RowsAreFinite
<1>4. \A r \in a..b : << r, c >> \in B <=> r \in R
  <2> TAKE r \in a..b
  <2>1. << r, c >> \in (a..b) \X (c..c)
    OBVIOUS
  <2>2. At0(sheet, << r, c >>) = sheet[c + 1][r + 1]
    BY DEF At0
  <2> QED
    BY <1>1, <1>2, <2>1, <2>2 DEF CellsOf, RowsOf
<1>5. \A r \in R : r \in a..b
  BY <1>1 DEF RowsOf
<1>6. \A p \in B : \E r \in a..b : p = << r, c >>
  BY <1>2 DEF CellsOf
<1>7. PICK f : f = [r \in R |-> << r, c >>]
  OBVIOUS
<1>8. f \in [R -> B]
  BY <1>4, <1>5, <1>7
<1>9. \A p \in B : \E r \in R : f[r] = p
  BY <1>4, <1>6, <1>7
<1>10. \A r, q \in R : f[r] = f[q] => r = q
  BY <1>7
<1>11. f \in Surjection(R, B) /\ f \in Injection(R, B)
  BY <1>8, <1>9, <1>10 DEF Surjection, Injection, IsInjective
<1>12. IsFiniteSet(B) /\ Cardinality(B) = Cardinality(R)
  BY <1>3, <1>11, FS_Surjection
<1> QED
  BY <1>1, <1>2, <1>12

LEMMA CellsSplit ==
  ASSUME NEW sheet, NEW types, NEW lo \in Int, NEW c \in Int, lo <= c, NEW d, d = c - 1, NEW a \in Int, NEW b \in Int,
         IsFiniteSet(CellsOf(sheet, lo, d, a, b, types))
  PROVE  /\ IsFiniteSet(CellsOf(sheet, lo, c, a, b, types))
         /\ Cardinality(CellsOf(sheet, lo, c, a, b, types))
            = Cardinality(CellsOf(sheet, lo, d, a, b, types)) + Cardinality(RowsOf(sheet[c + 1], a, b, types))
<1>1. PICK S, A, B : /\ S = CellsOf(sheet, lo, c, a, b, types) /\ A = CellsOf(sheet, lo, d, a, b, types)
                     /\ B = CellsOf(sheet, c, c, a, b, types)
  OBVIOUS
<1>2. \A x : x \in lo..c <=> x \in lo..d \/ x \in c..c
  OBVIOUS
<1>3. \A x : ~(x \in lo..d /\ x \in c..c)
  OBVIOUS
<1>4. \A p : p \in (a..b) \X (lo..c) <=> p \in (a..b) \X (lo..d) \/ p \in (a..b) \X (c..c)
  BY <1>2
<1>5. \A p : ~(p \in (a..b) \X (lo..d) /\ p \in (a..b) \X (c..c))
  BY <1>3
<1>6. IsSplit(S, A, B)
  BY <1>1, <1>4, <1>5 DEF IsSplit, CellsOf
<1>7. IsFiniteSet(B) /\ Cardinality(B) = Cardinality(RowsOf(sheet[c + 1], a, b, types))
  BY <1>1, OneColumnOfCells
<1>8. IsFiniteSet(A)
  BY <1>1
<1>9. IsFiniteSet(S) /\ Cardinality(S) = Cardinality(A) + Cardinality(B)
  BY <1>6, <1>7, <1>8, SplitCount
<1> QED
  BY <1>1, <1>7, <1>9

\* The sum over the columns of a range.
IsCount(f, sheet, range, clipped, types) ==
  f = [c \in 0..Len(sheet) |->
         IF c <= range.first.column THEN 0 ELSE f[c - 1] + ColumnCount(sheet[c], clipped, types)]

LEMMA CountRangeIs ==
  ASSUME NEW sheet, NEW range, NEW types,
         ~(range.last.column > LastColumn(sheet) \/ ClipRows(range, sheet).first.row > LastRow(sheet) + 1)
  PROVE  CountRange(sheet, range, types)
         = IF Uncounted(sheet, ClipRows(range, sheet)) THEN Threw
           ELSE (CHOOSE f : IsCount(f, sheet, range, ClipRows(range, sheet), types))[range.last.column + 1]
BY Zenon DEF CountRange, IsCount

LEMMA CountExists ==
  ASSUME NEW sheet, NEW range, NEW clipped, NEW types, NEW n \in Nat, Len(sheet) = n, NEW m \in Nat,
         range.first.column = m, \A k \in 1..n : ColumnCount(sheet[k], clipped, types) \in Nat
  PROVE  \E f : IsCount(f, sheet, range, clipped, types)
<1>1. PICK v : v = [k \in 1..n |-> ColumnCount(sheet[k], clipped, types)]
  OBVIOUS
<1>2. PICK g : g = [k \in 1..n |-> [x \in Nat |-> x + v[k]]]
  OBVIOUS
<1>3. \A k \in 1..n : v[k] \in Nat
  BY <1>1
<1>4. g \in [1..n -> [Nat -> Nat]]
  <2>1. \A k \in 1..n, x \in Nat : x + v[k] \in Nat
    BY <1>3
  <2>2. \A k \in 1..n : [x \in Nat |-> x + v[k]] \in [Nat -> Nat]
    BY <2>1
  <2> QED
    BY <1>2, <2>2
<1>5. PICK f : Steps(f, n, m, 0, g, Nat)
  <2>1. 0 \in Nat
    OBVIOUS
  <2>2. \E f : Steps(f, n, m, 0, g, Nat)
    BY <1>4, <2>1, StepsExist
  <2> QED
    BY <2>2
<1>6. ASSUME NEW k \in 0..n
      PROVE  f[k] = IF k <= m THEN 0 ELSE f[k - 1] + ColumnCount(sheet[k], clipped, types)
  <2>1. f[k] = IF k <= m THEN 0 ELSE g[k][f[k - 1]]
    BY <1>5 DEF Steps
  <2>2. CASE k <= m
    BY <2>1, <2>2
  <2>3. CASE ~(k <= m)
    <3>1. k \in 1..n /\ k - 1 \in 0..n
      BY <2>3
    <3>2. f[k - 1] \in Nat
      BY <1>5, <3>1 DEF Steps
    <3>3. g[k][f[k - 1]] = f[k - 1] + v[k]
      BY <1>2, <3>1, <3>2
    <3> QED
      BY <1>1, <2>1, <2>3, <3>1, <3>3
  <2> QED
    BY <2>2, <2>3
<1>7. f = [k \in 0..n |-> f[k]]
  BY <1>5 DEF Steps
<1>8. IsCount(f, sheet, range, clipped, types)
  BY <1>6, <1>7, Zenon DEF IsCount
<1> QED
  BY <1>8

\* A range whose rows, once they are clipped, are those of an area.
IsClipped(sheet, range, lo, hi, a, b) ==
  LET clipped == ClipRows(range, sheet)
  IN  /\ range.first.column = lo /\ range.last.column = hi
      /\ clipped.first.column = lo /\ clipped.last.column = hi
      /\ clipped.first.row = a /\ clipped.last.row = b

CountedByType(sheet) == \A c \in 1..Len(sheet) : CountsByType(sheet[c])

\* count_range() counts the cells of its range one by one.
LEMMA CountIsOfCells ==
  ASSUME NEW sheet, NEW range, NEW lo, NEW hi, NEW a, NEW b, IsArea(sheet, lo, hi, a, b),
         CountedByType(sheet), IsClipped(sheet, range, lo, hi, a, b), NEW types
  PROVE  CountRange(sheet, range, types)
         = IF \E p \in (a..b) \X (lo..hi) : At0(sheet, p).counts = Threw THEN Threw
           ELSE Cardinality(CellsOf(sheet, lo, hi, a, b, types))
<1>1. PICK n \in Nat : n = Len(sheet)
  BY DEF IsArea, IsSheet
<1>2. lo \in Nat /\ hi \in Nat /\ lo <= hi /\ hi < n /\ a \in Nat /\ b \in Nat /\ a <= b
  BY <1>1 DEF IsArea
<1>3. LastColumn(sheet) = n - 1 /\ LastRow(sheet) \in Nat /\ b <= LastRow(sheet)
  <2>1. sheet # << >> /\ Len(sheet[1]) \in Nat
    BY DEF IsArea, IsSheet, IsColumn
  <2>2. LastRow(sheet) = Len(sheet[1]) - 1 /\ b < Len(sheet[1])
    BY <2>1 DEF LastRow, IsArea
  <2> QED
    BY <1>1, <1>2, <2>1, <2>2 DEF LastColumn
<1>4. PICK clipped : clipped = ClipRows(range, sheet)
  OBVIOUS
<1>5. /\ range.first.column = lo /\ range.last.column = hi
      /\ clipped.first.column = lo /\ clipped.last.column = hi
      /\ clipped.first.row = a /\ clipped.last.row = b
  BY <1>4 DEF IsClipped
<1>6. ASSUME NEW k \in 1..n
      PROVE  /\ ColumnCount(sheet[k], clipped, types) = Cardinality(RowsOf(sheet[k], a, b, types))
             /\ ColumnCount(sheet[k], clipped, types) \in Nat
  <2>1. IsColumn(sheet[k]) /\ CountsByType(sheet[k]) /\ b < Len(sheet[k])
    BY <1>1 DEF IsArea, IsSheet, CountedByType
  <2>2. ColumnCount(sheet[k], clipped, types) = Cardinality(RowsOf(sheet[k], a, b, types))
    <3>1. PICK column : column = sheet[k]
      OBVIOUS
    <3>2. IsColumn(column) /\ CountsByType(column) /\ b < Len(column)
      BY <2>1, <3>1
    <3>3. a \in Nat /\ b \in Nat /\ a <= b /\ clipped.first.row = a /\ clipped.last.row = b
      BY <1>2, <1>5
    <3>4. ColumnCount(column, clipped, types) = Cardinality(RowsOf(column, a, b, types))
      BY <3>2, <3>3, ColumnCounts
    <3> QED
      BY <3>1, <3>4
  <2>3. Cardinality(RowsOf(sheet[k], a, b, types)) \in Nat
    BY <1>2, RowsAreFinite
  <2> QED
    BY <2>2, <2>3
<1>7. PICK f : f = CHOOSE x : IsCount(x, sheet, range, clipped, types)
  OBVIOUS
<1>8. IsCount(f, sheet, range, clipped, types)
  <2>1. \E x : IsCount(x, sheet, range, clipped, types)
    BY <1>1, <1>2, <1>5, <1>6, CountExists
  <2> QED
    BY <1>7, <2>1
<1>9. \A k \in 0..n : f[k] = IF k <= lo THEN 0 ELSE f[k - 1] + ColumnCount(sheet[k], clipped, types)
  BY <1>1, <1>5, <1>8, Zenon DEF IsCount
<1>10. PICK S : S = { k \in 0..(n - lo) : /\ IsFiniteSet(CellsOf(sheet, lo, lo + k - 1, a, b, types))
                                          /\ f[lo + k] = Cardinality(CellsOf(sheet, lo, lo + k - 1, a, b, types)) }
  OBVIOUS
<1>11. 0 \in S
  <2>1. lo \in 0..n /\ lo <= lo /\ lo + 0 = lo /\ 0 \in 0..(n - lo) /\ lo..(lo + 0 - 1) = {}
    BY <1>2
  <2>2. f[lo] = 0
    BY <1>9, <2>1
  <2>3. CellsOf(sheet, lo, lo + 0 - 1, a, b, types) = {}
    BY <2>1 DEF CellsOf
  <2> QED
    BY <1>10, <2>1, <2>2, <2>3, FS_EmptySet
<1>12. ASSUME NEW k \in 0..(n - lo - 1), k \in S PROVE k + 1 \in S
  <2>1. PICK c \in Nat : c = lo + k /\ c + 1 \in 1..n /\ c + 1 = lo + (k + 1) /\ lo <= c /\ ~(c + 1 <= lo) /\ c + 1 \in 0..n
    BY <1>2
  <2>2. IsFiniteSet(CellsOf(sheet, lo, c - 1, a, b, types)) /\ f[c] = Cardinality(CellsOf(sheet, lo, c - 1, a, b, types))
    <3>1. /\ IsFiniteSet(CellsOf(sheet, lo, lo + k - 1, a, b, types))
          /\ f[lo + k] = Cardinality(CellsOf(sheet, lo, lo + k - 1, a, b, types))
      BY <1>10, <1>12
    <3>2. lo + k = c /\ lo + k - 1 = c - 1
      BY <1>2, <2>1
    <3> QED
      BY <3>1, <3>2
  <2>3. f[c + 1] = f[c] + Cardinality(RowsOf(sheet[c + 1], a, b, types))
    <3>1. (c + 1) - 1 = c
      OBVIOUS
    <3>2. f[c + 1] = f[(c + 1) - 1] + ColumnCount(sheet[c + 1], clipped, types)
      BY <1>9, <2>1
    <3> QED
      BY <1>6, <2>1, <3>1, <3>2
  <2>4. /\ IsFiniteSet(CellsOf(sheet, lo, c, a, b, types))
        /\ Cardinality(CellsOf(sheet, lo, c, a, b, types))
           = Cardinality(CellsOf(sheet, lo, c - 1, a, b, types)) + Cardinality(RowsOf(sheet[c + 1], a, b, types))
    <3>1. PICK d : d = c - 1
      OBVIOUS
    <3>2. IsFiniteSet(CellsOf(sheet, lo, d, a, b, types)) /\ lo \in Int /\ c \in Int /\ lo <= c /\ a \in Int /\ b \in Int
      BY <1>2, <2>1, <2>2, <3>1
    <3>3. /\ IsFiniteSet(CellsOf(sheet, lo, c, a, b, types))
          /\ Cardinality(CellsOf(sheet, lo, c, a, b, types))
             = Cardinality(CellsOf(sheet, lo, d, a, b, types)) + Cardinality(RowsOf(sheet[c + 1], a, b, types))
      BY <3>1, <3>2, CellsSplit
    <3> QED
      BY <3>1, <3>3
  <2>5. lo + (k + 1) - 1 = c /\ k + 1 \in 0..(n - lo)
    BY <1>2, <2>1
  <2> QED
    BY <1>10, <2>1, <2>2, <2>3, <2>4, <2>5
<1>13. \A k \in 0..(n - lo) : k \in S
  <2>1. n - lo \in Nat
    BY <1>2
  <2> QED
    BY <1>11, <1>12, <2>1, UpTo
<1>14. PICK j : j = hi + 1 - lo /\ j \in 0..(n - lo) /\ lo + j = hi + 1 /\ lo + j - 1 = hi
  BY <1>2
<1>15. f[hi + 1] = Cardinality(CellsOf(sheet, lo, hi, a, b, types))
  BY <1>10, <1>13, <1>14
<1>16. Uncounted(sheet, clipped) <=> \E p \in (a..b) \X (lo..hi) : At0(sheet, p).counts = Threw
  <2>1. \A r \in a..b : r <= LastRow(sheet)
    BY <1>2, <1>3
  <2>2. Uncounted(sheet, clipped) <=> \E c \in lo..hi, r \in a..b : sheet[c + 1][r + 1].counts = Threw
    BY <1>5, <2>1 DEF Uncounted
  <2>3. \A c \in lo..hi, r \in a..b : At0(sheet, << r, c >>) = sheet[c + 1][r + 1]
    BY DEF At0
  <2>4. \A c \in lo..hi, r \in a..b : << r, c >> \in (a..b) \X (lo..hi)
    OBVIOUS
  <2>5. ASSUME NEW p \in (a..b) \X (lo..hi), At0(sheet, p).counts = Threw
        PROVE  \E c \in lo..hi, r \in a..b : sheet[c + 1][r + 1].counts = Threw
    <3>1. PICK r \in a..b, c \in lo..hi : p = << r, c >>
      OBVIOUS
    <3> QED
      BY <2>3, <2>5, <3>1
  <2>6. ASSUME NEW c \in lo..hi, NEW r \in a..b, sheet[c + 1][r + 1].counts = Threw
        PROVE  \E p \in (a..b) \X (lo..hi) : At0(sheet, p).counts = Threw
    BY <2>3, <2>4, <2>6
  <2> QED
    BY <2>2, <2>5, <2>6
<1>17. ~(range.last.column > LastColumn(sheet) \/ clipped.first.row > LastRow(sheet) + 1)
  BY <1>2, <1>3, <1>5
<1>18. CountRange(sheet, range, types) = IF Uncounted(sheet, clipped) THEN Threw ELSE f[hi + 1]
  <2>1. ~(range.last.column > LastColumn(sheet) \/ ClipRows(range, sheet).first.row > LastRow(sheet) + 1)
    BY <1>4, <1>17
  <2>2. CountRange(sheet, range, types)
        = IF Uncounted(sheet, ClipRows(range, sheet)) THEN Threw
          ELSE (CHOOSE x : IsCount(x, sheet, range, ClipRows(range, sheet), types))[range.last.column + 1]
    BY <2>1, CountRangeIs
  <2> QED
    BY <1>4, <1>5, <1>7, <2>2
<1> QED
  BY <1>15, <1>16, <1>18

LEMMA SheetRangeIs ==
  ASSUME NEW r1, NEW r2, NEW c1, NEW c2
  PROVE  LET range == SheetRange(r1, r2, c1, c2)
         IN  /\ range.first.row = r1 /\ range.last.row = r2
             /\ range.first.column = c1 /\ range.last.column = c2
             /\ range.first.sheet = 0 /\ range.last.sheet = 0
BY DEF SheetRange

\* A range with other rows.
WithRows(range, x, y) == [range EXCEPT !.first.row = x, !.last.row = y]

LEMMA OtherRows ==
  ASSUME NEW r1, NEW r2, NEW c1, NEW c2, NEW x, NEW y
  PROVE  WithRows(SheetRange(r1, r2, c1, c2), x, y) = SheetRange(x, y, c1, c2)
<1>1. PICK f : f = [sheet |-> 0, row |-> r1, column |-> c1]
  OBVIOUS
<1>2. PICK l : l = [sheet |-> 0, row |-> r2, column |-> c2]
  OBVIOUS
<1>3. SheetRange(r1, r2, c1, c2) = [first |-> f, last |-> l]
  BY <1>1, <1>2 DEF SheetRange
<1>4. PICK f2 : f2 = [f EXCEPT !.row = x]
  OBVIOUS
<1>5. PICK l2 : l2 = [l EXCEPT !.row = y]
  OBVIOUS
<1>6. WithRows(SheetRange(r1, r2, c1, c2), x, y) = [first |-> f2, last |-> l2]
  <2>1. PICK q : q = [SheetRange(r1, r2, c1, c2) EXCEPT !.first.row = x]
    OBVIOUS
  <2>2. q = [first |-> f2, last |-> l]
    BY <1>3, <1>4, <2>1
  <2>3. [q EXCEPT !.last.row = y] = [first |-> f2, last |-> l2]
    BY <1>5, <2>2
  <2> QED
    BY <1>3, <2>1, <2>2, <2>3 DEF WithRows
<1>7. f2 = [sheet |-> 0, row |-> x, column |-> c1] /\ l2 = [sheet |-> 0, row |-> y, column |-> c2]
  BY <1>1, <1>2, <1>4, <1>5
<1> QED
  BY <1>6, <1>7 DEF SheetRange

LEMMA ClippedRange ==
  ASSUME NEW sheet, NEW r1, NEW r2, NEW c1, NEW c2
  PROVE  ClipRows(SheetRange(r1, r2, c1, c2), sheet)
         = SheetRange(IF r1 = RowUnset THEN 0 ELSE r1, IF r2 = RowUnset THEN LastRow(sheet) ELSE r2, c1, c2)
<1>1. PICK x : x = IF r1 = RowUnset THEN 0 ELSE r1
  OBVIOUS
<1>2. PICK y : y = IF r2 = RowUnset THEN LastRow(sheet) ELSE r2
  OBVIOUS
<1>3. PICK range : range = SheetRange(r1, r2, c1, c2)
  OBVIOUS
<1>4. range.first.row = r1 /\ range.last.row = r2
  BY <1>3, SheetRangeIs
<1>5. ClipRows(range, sheet) = [range EXCEPT !.first.row = IF range.first.row = RowUnset THEN 0 ELSE range.first.row,
                                             !.last.row = IF range.last.row = RowUnset THEN LastRow(sheet) ELSE range.last.row]
  BY <1>3 DEF ClipRows, SheetRange
<1>6. ClipRows(range, sheet) = WithRows(range, x, y)
  BY <1>1, <1>2, <1>4, <1>5 DEF WithRows
<1>7. WithRows(range, x, y) = SheetRange(x, y, c1, c2)
  BY <1>3, OtherRows
<1> QED
  BY <1>1, <1>2, <1>3, <1>6, <1>7

\* What counting looks like cell by cell.
CountOf(sheet, range, type) ==
  IF Threw \in { At0(sheet, p).counts : p \in Within(sheet, range) } THEN Threw
  ELSE Cardinality({ p \in Within(sheet, range) : At0(sheet, p).counts = type })

LEMMA CountsAre ==
  ASSUME NEW sheet, NEW range,
         \A type : /\ CountRange(sheet, range, {type}) = CountOf(sheet, range, type)
                   /\ CountRange(sheet, WithRows(range, RowUnset, RowUnset), {type})
                      = CountOf(sheet, WithRows(range, 0, LastRow(sheet)), type)
  PROVE  CountsCells(sheet, range)
<1> DEFINE every == [range EXCEPT !.first.row = RowUnset, !.last.row = RowUnset]
           whole == [range EXCEPT !.first.row = 0, !.last.row = LastRow(sheet)]
           count(r, type) == IF Threw \in { At0(sheet, p).counts : p \in Within(sheet, r) } THEN Threw
                             ELSE Cardinality({ p \in Within(sheet, r) : At0(sheet, p).counts = type })
<1>1. \A r, type : count(r, type) = CountOf(sheet, r, type)
  BY Zenon DEF CountOf
<1>2. every = WithRows(range, RowUnset, RowUnset) /\ whole = WithRows(range, 0, LastRow(sheet))
  BY Zenon DEF WithRows
<1> HIDE DEF every, whole, count
<1>3. \A type \in {"numeric", "string", "empty"} :
        /\ CountRange(sheet, range, {type}) = count(range, type)
        /\ CountRange(sheet, every, {type}) = count(whole, type)
  BY <1>1, <1>2
<1> QED
  BY <1>3, Zenon DEF CountsCells, every, whole, count

LEMMA CountOfArea ==
  ASSUME NEW sheet, NEW range, NEW lo, NEW hi, NEW a, NEW b, IsArea(sheet, lo, hi, a, b),
         CountedByType(sheet), IsClipped(sheet, range, lo, hi, a, b),
         NEW area, area.first.column = lo, area.last.column = hi, area.first.row = a, area.last.row = b,
         NEW type
  PROVE  CountRange(sheet, range, {type}) = CountOf(sheet, area, type)
<1>1. PICK W : W = (a..b) \X (lo..hi)
  OBVIOUS
<1>2. Within(sheet, area) = W
  BY <1>1, InSheet
<1>3. CountRange(sheet, range, {type})
      = IF \E p \in W : At0(sheet, p).counts = Threw THEN Threw
        ELSE Cardinality(CellsOf(sheet, lo, hi, a, b, {type}))
  BY <1>1, CountIsOfCells
<1>4. CellsOf(sheet, lo, hi, a, b, {type}) = { p \in W : At0(sheet, p).counts = type }
  BY <1>1 DEF CellsOf
<1>5. Threw \in { At0(sheet, p).counts : p \in W } <=> \E p \in W : At0(sheet, p).counts = Threw
  OBVIOUS
<1> QED
  BY <1>2, <1>3, <1>4, <1>5 DEF CountOf

LEMMA CountsAreOfCells ==
  ASSUME NEW sheet, NEW lo, NEW hi, NEW a, NEW b, IsArea(sheet, lo, hi, a, b), CountedByType(sheet),
         LastRow(sheet) < RowUnset
  PROVE  CountsCells(sheet, SheetRange(a, b, lo, hi))
<1>1. PICK last : last = LastRow(sheet)
  OBVIOUS
<1>2. last \in Nat /\ b <= last /\ a \in Nat /\ b \in Nat /\ a <= b /\ IsArea(sheet, lo, hi, 0, last)
  <2>1. sheet # << >> /\ Len(sheet[1]) \in Nat \ {0}
    BY DEF IsArea, IsSheet, IsColumn
  <2>2. last = Len(sheet[1]) - 1
    BY <1>1, <2>1 DEF LastRow
  <2>3. last \in Nat /\ b <= last /\ 0 <= last /\ last < Len(sheet[1])
    BY <2>1, <2>2 DEF IsArea
  <2> QED
    BY <2>3 DEF IsArea
<1>3. a # RowUnset /\ b # RowUnset
  BY <1>1, <1>2, UnsetAssumption
<1>4. PICK range : range = SheetRange(a, b, lo, hi)
  OBVIOUS
<1>5. PICK every : every = SheetRange(RowUnset, RowUnset, lo, hi)
  OBVIOUS
<1>6. PICK whole : whole = SheetRange(0, last, lo, hi)
  OBVIOUS
<1>7. every = WithRows(range, RowUnset, RowUnset)
  BY <1>4, <1>5, OtherRows
<1>8. whole = WithRows(range, 0, LastRow(sheet))
  BY <1>1, <1>4, <1>6, OtherRows
<1>9. IsClipped(sheet, range, lo, hi, a, b)
  <2>1. ClipRows(range, sheet) = range
    BY <1>3, <1>4, ClippedRange
  <2> QED
    BY <1>4, <2>1, SheetRangeIs DEF IsClipped
<1>10. IsClipped(sheet, every, lo, hi, 0, last)
  <2>1. ClipRows(every, sheet) = whole
    BY <1>1, <1>5, <1>6, ClippedRange
  <2> QED
    BY <1>5, <1>6, <2>1, SheetRangeIs DEF IsClipped
<1>11. ASSUME NEW type
       PROVE  /\ CountRange(sheet, range, {type}) = CountOf(sheet, range, type)
              /\ CountRange(sheet, every, {type}) = CountOf(sheet, whole, type)
  <2>1. CountRange(sheet, range, {type}) = CountOf(sheet, range, type)
    <3>1. range.first.column = lo /\ range.last.column = hi /\ range.first.row = a /\ range.last.row = b
      BY <1>4, SheetRangeIs
    <3> QED
      BY <1>9, <3>1, CountOfArea
  <2>2. CountRange(sheet, every, {type}) = CountOf(sheet, whole, type)
    <3>1. whole.first.column = lo /\ whole.last.column = hi /\ whole.first.row = 0 /\ whole.last.row = last
      BY <1>6, SheetRangeIs
    <3> QED
      BY <1>2, <1>10, <3>1, CountOfArea
  <2> QED
    BY <2>1, <2>2
<1>12. CountsCells(sheet, range)
  BY <1>7, <1>8, <1>11, CountsAre
<1> QED
  BY <1>4, <1>12

-----------------------------------------------------------------------------
(* The data range.                                                           *)

IsEmptyColumn(column) == \A r \in 0..(Len(column) - 1) : TypeAt(column, r) = "empty"
Top(column) == IF TypeAt(column, 0) = "empty" THEN BlockLast(column, 0) + 1 ELSE 0
Foot(column) ==
  IF TypeAt(column, Len(column) - 1) = "empty" THEN BlockFirst(column, Len(column) - 1) - 1
  ELSE Len(column) - 1

\* The first and the last cell of a column that is not empty.
LEMMA ColumnEdges ==
  ASSUME NEW column, IsColumn(column), ~IsEmptyColumn(column), NEW n \in Nat \ {0}, n = Len(column)
  PROVE  /\ Top(column) \in 0..(n - 1) /\ TypeAt(column, Top(column)) # "empty"
         /\ Foot(column) \in 0..(n - 1) /\ TypeAt(column, Foot(column)) # "empty"
         /\ \A r \in 0..(n - 1) : TypeAt(column, r) # "empty" => Top(column) <= r /\ r <= Foot(column)
<1>1. PICK q \in 0..(n - 1) : TypeAt(column, q) # "empty"
  BY DEF IsEmptyColumn
<1>2. /\ Top(column) \in 0..(n - 1) /\ TypeAt(column, Top(column)) # "empty"
      /\ \A r \in 0..(n - 1) : TypeAt(column, r) # "empty" => Top(column) <= r
  <2>1. CASE TypeAt(column, 0) # "empty"
    <3>1. Top(column) = 0 /\ 0 \in 0..(n - 1)
      BY <2>1 DEF Top
    <3> QED
      BY <2>1, <3>1
  <2>2. CASE TypeAt(column, 0) = "empty"
    <3>1. 0 \in Nat /\ 0 < Len(column)
      OBVIOUS
    <3>2. /\ BlockLast(column, 0) \in 0..(Len(column) - 1)
          /\ \A k \in 0..BlockLast(column, 0) : TypeAt(column, k) = TypeAt(column, 0)
          /\ \A r \in 0..(Len(column) - 1) :
               (\A k \in 0..r : TypeAt(column, k) = TypeAt(column, 0)) => r <= BlockLast(column, 0)
      BY <3>1, LastOfBlock
    <3>3. PICK m \in 0..(n - 1) : m = BlockLast(column, 0)
      BY <3>2
    <3>4. Top(column) = m + 1
      BY <2>2, <3>3 DEF Top
    <3>5. \A k \in 0..m : TypeAt(column, k) = "empty"
      BY <2>2, <3>2, <3>3
    <3>6. \A r \in 0..(n - 1) : TypeAt(column, r) # "empty" => m + 1 <= r
      <4>1. \A r \in 0..(n - 1) : r \notin 0..m => m + 1 <= r
        OBVIOUS
      <4> QED
        BY <3>5, <4>1
    <3>7. m + 1 \in 0..(n - 1)
      BY <1>1, <3>6
    <3>8. TypeAt(column, m + 1) # "empty"
      <4> SUFFICES ASSUME TypeAt(column, m + 1) = "empty" PROVE FALSE
        OBVIOUS
      <4>1. \A k \in 0..(m + 1) : k \in 0..m \/ k = m + 1
        OBVIOUS
      <4>2. \A k \in 0..(m + 1) : TypeAt(column, k) = TypeAt(column, 0)
        BY <2>2, <3>5, <4>1
      <4>3. m + 1 <= m
        BY <3>2, <3>3, <3>7, <4>2
      <4> QED
        BY <4>3
    <3> QED
      BY <3>4, <3>6, <3>7, <3>8
  <2> QED
    BY <2>1, <2>2
<1>3. /\ Foot(column) \in 0..(n - 1) /\ TypeAt(column, Foot(column)) # "empty"
      /\ \A r \in 0..(n - 1) : TypeAt(column, r) # "empty" => r <= Foot(column)
  <2>0. PICK z \in Nat : z = n - 1 /\ z = Len(column) - 1
    OBVIOUS
  <2>1. CASE TypeAt(column, z) # "empty"
    <3>1. Foot(column) = z /\ z \in 0..(n - 1)
      BY <2>0, <2>1 DEF Foot
    <3>2. \A r \in 0..(n - 1) : r <= z
      BY <2>0
    <3> QED
      BY <2>1, <3>1, <3>2
  <2>2. CASE TypeAt(column, z) = "empty"
    <3>1. z \in Nat /\ z < Len(column)
      BY <2>0
    <3>2. /\ BlockFirst(column, z) \in 0..z
          /\ \A k \in BlockFirst(column, z)..z : TypeAt(column, k) = TypeAt(column, z)
          /\ \A r \in 0..z : (\A k \in r..z : TypeAt(column, k) = TypeAt(column, z)) => BlockFirst(column, z) <= r
      BY <3>1, FirstOfBlock
    <3>3. PICK m \in 0..z : m = BlockFirst(column, z)
      BY <3>2
    <3>4. Foot(column) = m - 1
      BY <2>0, <2>2, <3>3 DEF Foot
    <3>5. \A k \in m..z : TypeAt(column, k) = "empty"
      BY <2>2, <3>2, <3>3
    <3>6. \A r \in 0..(n - 1) : TypeAt(column, r) # "empty" => r <= m - 1
      <4>1. \A r \in 0..(n - 1) : r \notin m..z => r <= m - 1
        BY <2>0
      <4> QED
        BY <3>5, <4>1
    <3>7. m - 1 \in 0..(n - 1) /\ m - 1 \in 0..z
      BY <1>1, <2>0, <3>6
    <3>8. TypeAt(column, m - 1) # "empty"
      <4> SUFFICES ASSUME TypeAt(column, m - 1) = "empty" PROVE FALSE
        OBVIOUS
      <4>1. \A k \in (m - 1)..z : k \in m..z \/ k = m - 1
        OBVIOUS
      <4>2. \A k \in (m - 1)..z : TypeAt(column, k) = TypeAt(column, z)
        BY <2>2, <3>5, <4>1
      <4>3. m <= m - 1
        BY <3>2, <3>3, <3>7, <4>2
      <4> QED
        BY <4>3
    <3> QED
      BY <3>4, <3>6, <3>7, <3>8
  <2> QED
    BY <2>1, <2>2
<1> QED
  BY <1>2, <1>3

DataBounds == [first_column : Int, first_row : Int, last_column : Int, last_row : Int]

\* The bounds after a column without cells, and after one with cells.
LEMMA BoundsAfterEmpty ==
  ASSUME NEW d \in DataBounds, NEW c, NEW column, IsColumn(column), NEW n, n = Len(column), IsEmptyColumn(column)
  PROVE  LET e == AfterColumn(d, c, column)
         IN  /\ e \in DataBounds
             /\ e.first_row = d.first_row /\ e.last_row = d.last_row /\ e.last_column = d.last_column
             /\ e.first_column = IF (d.first_row > 0 \/ d.last_row < n - 1) /\ d.last_column < 0
                                 THEN d.first_column + 1 ELSE d.first_column
<1>1. PICK e : e = AfterColumn(d, c, column)
  OBVIOUS
<1>2. PICK moving : moving <=> d.first_row > 0 \/ d.last_row < n - 1
  OBVIOUS
<1>3. CASE d.first_row > 0 \/ d.last_row < n - 1
  <2>1. e = IF d.last_column < 0 THEN [d EXCEPT !.first_column = d.first_column + 1] ELSE d
    BY <1>1, <1>3, Zenon DEF AfterColumn, NoData, IsEmptyColumn
  <2> QED
    BY <1>1, <1>3, <2>1 DEF DataBounds
<1>4. CASE ~(d.first_row > 0 \/ d.last_row < n - 1)
  <2>1. e = [d EXCEPT !.first_row = d.first_row, !.last_row = d.last_row, !.last_column = d.last_column]
    BY <1>1, <1>4, Zenon DEF AfterColumn, IsEmptyColumn
  <2> QED
    BY <1>1, <1>4, <2>1 DEF DataBounds
<1> QED
  BY <1>3, <1>4

LEMMA BoundsAfterCells ==
  ASSUME NEW d \in DataBounds, NEW c \in Int, NEW column, IsColumn(column), NEW n, n = Len(column),
         ~IsEmptyColumn(column)
  PROVE  LET e == AfterColumn(d, c, column)
         IN  /\ e \in DataBounds
             /\ e.first_row = IF d.first_row > 0 /\ Top(column) < d.first_row THEN Top(column) ELSE d.first_row
             /\ e.last_row = IF d.last_row < n - 1 /\ Foot(column) > d.last_row THEN Foot(column) ELSE d.last_row
             /\ e.last_column = c
             /\ e.first_column = d.first_column
<1>1. PICK e : e = AfterColumn(d, c, column)
  OBVIOUS
<1>2. PICK x : x = IF d.first_row > 0 /\ Top(column) < d.first_row THEN Top(column) ELSE d.first_row
  OBVIOUS
<1>3. PICK y : y = IF d.last_row < n - 1 /\ Foot(column) > d.last_row THEN Foot(column) ELSE d.last_row
  OBVIOUS
<1>4. e = [d EXCEPT !.first_row = x, !.last_row = y, !.last_column = c]
  BY <1>1, <1>2, <1>3, ZenonT(60) DEF AfterColumn, IsEmptyColumn, Top, Foot
<1>5. x \in Int /\ y \in Int
  <2>1. Top(column) \in Int /\ Foot(column) \in Int
    BY ColumnEdges DEF IsColumn
  <2>2. d.first_row \in Int /\ d.last_row \in Int
    BY DEF DataBounds
  <2> QED
    BY <1>2, <1>3, <2>1, <2>2
<1>6. /\ e \in DataBounds /\ e.first_row = x /\ e.last_row = y /\ e.last_column = c
      /\ e.first_column = d.first_column
  BY <1>4, <1>5 DEF DataBounds
<1> QED
  BY <1>1, <1>2, <1>3, <1>6, Zenon

\* Whether a cell of a sheet has something in it, and the cells of the first
\* columns: none, or some, of which these are the bounds.
Filled(sheet, k, r) == TypeAt(sheet[k + 1], r) # "empty"
Rows(n) == 0..(n - 1)

Blank(d, sheet, n, c) ==
  /\ d.first_column = c /\ d.first_row = n - 1 /\ d.last_column = -1 /\ d.last_row = 0
  /\ \A k \in 0..c, r \in Rows(n) : k < c => ~Filled(sheet, k, r)
BoundsCells(d, sheet, n, c) ==
  /\ d.first_column \in Rows(c) /\ d.last_column \in Rows(c)
  /\ d.first_row \in Rows(n) /\ d.last_row \in Rows(n)
  /\ \E r \in Rows(n) : Filled(sheet, d.first_column, r)
  /\ \E r \in Rows(n) : Filled(sheet, d.last_column, r)
  /\ \E k \in Rows(c) : Filled(sheet, k, d.first_row)
  /\ \E k \in Rows(c) : Filled(sheet, k, d.last_row)
  /\ \A k \in Rows(c), r \in Rows(n) : Filled(sheet, k, r) =>
       /\ d.first_column <= k /\ k <= d.last_column
       /\ d.first_row <= r /\ r <= d.last_row

HasRows(column, n) == IsColumn(column) /\ n = Len(column)
Bounded(d, sheet, n, c) == Blank(d, sheet, n, c) \/ BoundsCells(d, sheet, n, c)

LEMMA MoreThanOne == ASSUME NEW n \in Nat \ {0, 1} PROVE n - 1 > 0
OBVIOUS

\* One column more.
LEMMA OneColumnMore ==
  ASSUME NEW sheet, NEW n \in Nat \ {0, 1}, NEW d \in DataBounds, NEW c \in Nat,
         NEW c1, c1 = c + 1, NEW column, column = sheet[c1], HasRows(column, n),
         NEW e, e = AfterColumn(d, c, column), Bounded(d, sheet, n, c)
  PROVE  e \in DataBounds /\ Bounded(e, sheet, n, c1)
<1> USE DEF Bounded
<1>0. IsColumn(column) /\ n = Len(column)
  BY DEF HasRows
<1>1. \A r : Filled(sheet, c, r) <=> TypeAt(column, r) # "empty"
  BY DEF Filled
<1>2. \A k \in Rows(c1) : k \in Rows(c) \/ k = c
  BY DEF Rows
<1>3. Rows(c) \subseteq Rows(c1) /\ c \in Rows(c1) /\ c1 \in Nat
  BY DEF Rows
<1>4. CASE IsEmptyColumn(column)
  <2>1. \A r \in Rows(n) : ~Filled(sheet, c, r)
    BY <1>0, <1>1, <1>4 DEF IsEmptyColumn, Rows
  <2>2. /\ e \in DataBounds
        /\ e.first_row = d.first_row /\ e.last_row = d.last_row /\ e.last_column = d.last_column
        /\ e.first_column = IF (d.first_row > 0 \/ d.last_row < n - 1) /\ d.last_column < 0
                            THEN d.first_column + 1 ELSE d.first_column
    BY <1>4, <1>0, BoundsAfterEmpty
  <2>3. CASE Blank(d, sheet, n, c)
    <3>1. e.first_column = c1 /\ e.first_row = n - 1 /\ e.last_column = -1 /\ e.last_row = 0
      <4>1. d.first_column = c /\ d.first_row = n - 1 /\ d.last_column = -1 /\ d.last_row = 0
        BY <2>3 DEF Blank
      <4>2. n - 1 > 0
        BY MoreThanOne, Zenon
      <4>3. e.first_column = d.first_column + 1
        BY <2>2, <4>1, <4>2
      <4> QED
        BY <2>2, <4>1, <4>3
    <3>2. ASSUME NEW k \in 0..c1, NEW r \in Rows(n), k < c1 PROVE ~Filled(sheet, k, r)
      <4>1. k = c \/ (k \in 0..c /\ k < c)
        BY <3>2
      <4> QED
        BY <2>1, <2>3, <4>1 DEF Blank
    <3> QED
      BY <2>2, <3>1, <3>2 DEF Blank
  <2>4. CASE BoundsCells(d, sheet, n, c)
    <3>1. d.last_column >= 0 /\ d.last_column \in Int
      BY <2>4 DEF BoundsCells, Rows
    <3>2. e.first_column = d.first_column
      BY <2>2, <3>1
    <3>3. BoundsCells(e, sheet, n, c1)
      BY <1>2, <1>3, <2>1, <2>2, <2>4, <3>2 DEF BoundsCells
    <3> QED
      BY <2>2, <3>3
  <2> QED
    BY <2>3, <2>4
<1>5. CASE ~IsEmptyColumn(column)
  <2>1. PICK top : top = Top(column)
    OBVIOUS
  <2>2. PICK foot : foot = Foot(column)
    OBVIOUS
  <2>3. /\ top \in Rows(n) /\ Filled(sheet, c, top) /\ foot \in Rows(n) /\ Filled(sheet, c, foot)
        /\ \A r \in Rows(n) : Filled(sheet, c, r) => top <= r /\ r <= foot
    BY <1>1, <1>5, <2>1, <2>2, <1>0, ColumnEdges DEF Rows
  <2>4. c \in Int
    OBVIOUS
  <2>5. /\ e \in DataBounds
        /\ e.first_row = IF d.first_row > 0 /\ top < d.first_row THEN top ELSE d.first_row
        /\ e.last_row = IF d.last_row < n - 1 /\ foot > d.last_row THEN foot ELSE d.last_row
        /\ e.last_column = c /\ e.first_column = d.first_column
    BY <1>5, <2>1, <2>2, <2>4, <1>0, BoundsAfterCells
  <2>6. CASE Blank(d, sheet, n, c)
    <3>1. e.first_row = top /\ e.last_row = foot /\ e.first_column = c
      BY <2>3, <2>5, <2>6 DEF Blank, Rows
    <3>2. ASSUME NEW k \in Rows(c1), NEW r \in Rows(n), Filled(sheet, k, r)
          PROVE  c <= k /\ k <= c /\ top <= r /\ r <= foot
      <4>1. k = c
        <5>1. k \in 0..c /\ (k < c \/ k = c)
          BY <1>2 DEF Rows
        <5> QED
          BY <2>6, <3>2, <5>1 DEF Blank
      <4> QED
        BY <2>3, <3>2, <4>1
    <3>3. BoundsCells(e, sheet, n, c1)
      BY <1>3, <2>3, <2>5, <3>1, <3>2 DEF BoundsCells
    <3> QED
      BY <2>5, <3>3
  <2>7. CASE BoundsCells(d, sheet, n, c)
    <3>1. PICK x : x = e.first_row
      OBVIOUS
    <3>2. PICK y : y = e.last_row
      OBVIOUS
    <3>3. PICK dx \in Rows(n) : dx = d.first_row
      BY <2>7 DEF BoundsCells
    <3>4. PICK dy \in Rows(n) : dy = d.last_row
      BY <2>7 DEF BoundsCells
    <3>5. x \in Rows(n) /\ (x = dx \/ x = top) /\ x <= dx /\ x <= top
      BY <2>3, <2>5, <3>1, <3>3 DEF Rows
    <3>6. y \in Rows(n) /\ (y = dy \/ y = foot) /\ dy <= y /\ foot <= y
      BY <2>3, <2>5, <3>2, <3>4 DEF Rows
    <3>7. ASSUME NEW k \in Rows(c1), NEW r \in Rows(n), Filled(sheet, k, r)
          PROVE  d.first_column <= k /\ k <= c /\ x <= r /\ r <= y
      <4>1. CASE k = c
        <5>1. d.first_column <= k
          BY <2>7, <4>1 DEF BoundsCells, Rows
        <5>2. top <= r /\ r <= foot
          BY <2>3, <3>7, <4>1
        <5>3. x <= r /\ r <= y
          BY <2>3, <3>5, <3>6, <5>2 DEF Rows
        <5> QED
          BY <4>1, <5>1, <5>3
      <4>2. CASE k # c
        <5>1. k \in Rows(c) /\ k <= c
          BY <1>2, <4>2 DEF Rows
        <5>2. d.first_column <= k /\ dx <= r /\ r <= dy
          BY <2>7, <3>3, <3>4, <3>7, <5>1 DEF BoundsCells
        <5>3. x <= r /\ r <= y
          BY <3>3, <3>4, <3>5, <3>6, <5>2 DEF Rows
        <5> QED
          BY <5>1, <5>2, <5>3
      <4> QED
        BY <4>1, <4>2
    <3>8. /\ \E k \in Rows(c1) : Filled(sheet, k, x)
          /\ \E k \in Rows(c1) : Filled(sheet, k, y)
      <4>1. \E k \in Rows(c1) : Filled(sheet, k, dx)
        BY <1>3, <2>7, <3>3 DEF BoundsCells
      <4>2. \E k \in Rows(c1) : Filled(sheet, k, dy)
        BY <1>3, <2>7, <3>4 DEF BoundsCells
      <4> QED
        BY <1>3, <2>3, <3>5, <3>6, <4>1, <4>2
    <3>9. /\ d.first_column \in Rows(c1)
          /\ \E r \in Rows(n) : Filled(sheet, d.first_column, r)
      BY <1>3, <2>7 DEF BoundsCells
    <3>10. BoundsCells(e, sheet, n, c1)
      BY <1>3, <2>3, <2>5, <3>1, <3>2, <3>5, <3>6, <3>7, <3>8, <3>9 DEF BoundsCells
    <3> QED
      BY <2>5, <3>10
  <2> QED
    BY <2>6, <2>7
<1> QED
  BY <1>4, <1>5

LEMMA OneColumnBounded ==
  ASSUME NEW sheet, NEW n \in Nat \ {0, 1}, NEW d \in DataBounds, NEW c \in Nat,
         NEW c1, c1 = c + 1, NEW column, column = sheet[c1], HasRows(column, n), Bounded(d, sheet, n, c)
  PROVE  Bounded(AfterColumn(d, c, column), sheet, n, c1)
BY OneColumnMore

\* The bounds found after each column.
Found(f, sheet) ==
  f = [c \in 0..Len(sheet) |->
         IF c = 0 THEN [first_column |-> 0, first_row |-> LastRow(sheet), last_column |-> -1, last_row |-> 0]
         ELSE AfterColumn(f[c - 1], c - 1, sheet[c])]

LEMMA DataRangeIs ==
  ASSUME NEW sheet
  PROVE  DataRange(sheet) = LET d == (CHOOSE f : Found(f, sheet))[Len(sheet)]
                            IN  IF LastRow(sheet) < 0 \/ d.last_column < 0 THEN << >> ELSE d
BY Zenon DEF DataRange, Found

LEMMA DataBoundsStep ==
  ASSUME NEW d \in DataBounds, NEW c \in Int, NEW column, IsColumn(column)
  PROVE  AfterColumn(d, c, column) \in DataBounds
<1>1. PICK n : n = Len(column)
  OBVIOUS
<1>2. CASE IsEmptyColumn(column)
  BY <1>1, <1>2, BoundsAfterEmpty
<1>3. CASE ~IsEmptyColumn(column)
  BY <1>1, <1>3, BoundsAfterCells
<1> QED
  BY <1>2, <1>3

LEMMA FoundExists ==
  ASSUME NEW sheet, IsSheet(sheet)
  PROVE  \E f : Found(f, sheet)
<1>1. PICK n \in Nat : n = Len(sheet)
  BY DEF IsSheet
<1>2. PICK base : base = [first_column |-> 0, first_row |-> LastRow(sheet), last_column |-> -1, last_row |-> 0]
  OBVIOUS
<1>3. base \in DataBounds
  <2>1. LastRow(sheet) \in Int
    BY DEF LastRow, IsSheet, IsColumn
  <2> QED
    BY <1>2, <2>1 DEF DataBounds
<1>4. PICK g : g = [c \in 1..n |-> [x \in DataBounds |-> AfterColumn(x, c - 1, sheet[c])]]
  OBVIOUS
<1>5. g \in [1..n -> [DataBounds -> DataBounds]]
  <2>1. \A c \in 1..n, x \in DataBounds : AfterColumn(x, c - 1, sheet[c]) \in DataBounds
    BY <1>1, DataBoundsStep DEF IsSheet
  <2>2. \A c \in 1..n : [x \in DataBounds |-> AfterColumn(x, c - 1, sheet[c])] \in [DataBounds -> DataBounds]
    BY <2>1
  <2> QED
    BY <1>4, <2>2
<1>6. 0 \in Nat
  OBVIOUS
<1>7. PICK f : Steps(f, n, 0, base, g, DataBounds)
  BY <1>3, <1>5, <1>6, StepsExist
<1>8. f \in [0..n -> DataBounds] /\ \A k \in 0..n : f[k] = IF k <= 0 THEN base ELSE g[k][f[k - 1]]
  BY <1>7 DEF Steps
<1>9. ASSUME NEW c \in 0..n
      PROVE  f[c] = IF c = 0 THEN base ELSE AfterColumn(f[c - 1], c - 1, sheet[c])
  <2>1. CASE c = 0
    BY <1>8, <2>1
  <2>2. CASE c # 0
    <3>1. c \in 1..n /\ c - 1 \in 0..n
      BY <2>2
    <3>2. f[c] = g[c][f[c - 1]] /\ f[c - 1] \in DataBounds
      BY <1>8, <2>2, <3>1
    <3> QED
      BY <1>4, <2>2, <3>1, <3>2
  <2> QED
    BY <2>1, <2>2
<1>10. f = [c \in 0..n |-> IF c = 0 THEN base ELSE AfterColumn(f[c - 1], c - 1, sheet[c])]
  BY <1>8, <1>9
<1> QED
  BY <1>1, <1>2, <1>10, Zenon DEF Found

\* The bounds that were found are those of the cells.
LEMMA FoundAre ==
  ASSUME NEW sheet, IsSheet(sheet), NEW f, Found(f, sheet), NEW n \in Nat \ {0, 1}, n = Len(sheet[1]),
         NEW m \in Nat, m = Len(sheet)
  PROVE  f[m] \in DataBounds /\ Bounded(f[m], sheet, n, m)
<1>1. PICK S : S = { c \in 0..m : f[c] \in DataBounds /\ Bounded(f[c], sheet, n, c) }
  OBVIOUS
<1>2. LastRow(sheet) = n - 1
  BY DEF LastRow, IsSheet
<1>3. \A c \in 0..m : f[c] = IF c = 0 THEN [first_column |-> 0, first_row |-> n - 1, last_column |-> -1, last_row |-> 0]
                             ELSE AfterColumn(f[c - 1], c - 1, sheet[c])
  BY <1>2 DEF Found
<1>4. 0 \in S
  <2>1. f[0] = [first_column |-> 0, first_row |-> n - 1, last_column |-> -1, last_row |-> 0]
    BY <1>3
  <2>2. f[0] \in DataBounds
    BY <2>1 DEF DataBounds
  <2>3. Bounded(f[0], sheet, n, 0)
    BY <2>1 DEF Blank, Bounded
  <2> QED
    BY <1>1, <2>2, <2>3
<1>5. ASSUME NEW c \in 0..(m - 1), c \in S PROVE c + 1 \in S
  <2>1. PICK c1 \in 0..m : c1 = c + 1 /\ c1 - 1 = c /\ c1 # 0
    OBVIOUS
  <2>2. PICK d \in DataBounds : d = f[c] /\ Bounded(d, sheet, n, c)
    BY <1>1, <1>5
  <2>3. PICK column : column = sheet[c1]
    OBVIOUS
  <2>4. PICK e : e = f[c1]
    OBVIOUS
  <2>5. e = AfterColumn(d, c, column)
    BY <1>3, <2>1, <2>2, <2>3, <2>4
  <2>6. HasRows(column, n)
    <3>1. c1 \in 1..Len(sheet)
      BY <2>1
    <3> QED
      BY <2>3, <3>1 DEF IsSheet, HasRows
  <2>7. c \in Nat /\ c1 = c + 1
    BY <2>1
  <2>8. e \in DataBounds /\ Bounded(e, sheet, n, c1)
    <3>1. n \in Nat \ {0, 1} /\ d \in DataBounds /\ c \in Nat /\ c1 = c + 1
      BY <2>2, <2>7
    <3>2. Bounded(d, sheet, n, c) /\ HasRows(column, n) /\ column = sheet[c1] /\ e = AfterColumn(d, c, column)
      BY <2>1, <2>2, <2>3, <2>5, <2>6
    <3> HIDE <1>1, <1>2, <1>3, <1>4, <1>5
    <3>3. e \in DataBounds
      BY <3>1, <3>2, OneColumnMore
    <3>4. Bounded(e, sheet, n, c1)
      BY <3>1, <3>2, OneColumnBounded
    <3> QED
      BY <3>3, <3>4
  <2> QED
    BY <1>1, <2>1, <2>4, <2>8
<1>6. \A c \in 0..m : c \in S
  BY <1>4, <1>5, UpTo
<1>7. m \in 0..m
  OBVIOUS
<1> QED
  BY <1>1, <1>6, <1>7

\* The bounding box is the one that these bounds make.
LEMMA TheBox ==
  ASSUME NEW C, NEW d \in DataBounds,
         \A p \in C : p[1] \in Int /\ p[2] \in Int,
         \E p \in C : p[2] = d.first_column,
         \E p \in C : p[2] = d.last_column,
         \E p \in C : p[1] = d.first_row,
         \E p \in C : p[1] = d.last_row,
         \A p \in C : /\ d.first_column <= p[2] /\ p[2] <= d.last_column
                      /\ d.first_row <= p[1] /\ p[1] <= d.last_row
  PROVE  d = BoundingBox(C)
<1>1. PICK a \in Int, b \in Int, x \in Int, y \in Int :
        d = [first_column |-> a, first_row |-> b, last_column |-> x, last_row |-> y]
  BY DEF DataBounds
<1>2. PICK V : V = { p[2] : p \in C }
  OBVIOUS
<1>3. /\ a = CHOOSE c \in V : \A p \in C : c <= p[2]
      /\ x = CHOOSE c \in V : \A p \in C : c >= p[2]
  <2>1. \A v \in V : v \in Int /\ a <= v /\ v <= x
    BY <1>1, <1>2
  <2>2. a \in V /\ x \in V /\ (\A p \in C : p[2] \in V)
    BY <1>1, <1>2
  <2>3. PICK u \in V : u = (CHOOSE c \in V : \A p \in C : c <= p[2]) /\ \A p \in C : u <= p[2]
    BY <1>1, <2>2
  <2>4. PICK w \in V : w = (CHOOSE c \in V : \A p \in C : c >= p[2]) /\ \A p \in C : w >= p[2]
    BY <1>1, <2>2
  <2>5. u <= a /\ a <= u /\ u \in Int
    BY <1>2, <2>1, <2>2, <2>3
  <2>6. w >= x /\ w <= x /\ w \in Int
    BY <1>2, <2>1, <2>2, <2>4
  <2> QED
    BY <2>3, <2>4, <2>5, <2>6
<1>4. PICK W : W = { p[1] : p \in C }
  OBVIOUS
<1>5. /\ b = CHOOSE c \in W : \A p \in C : c <= p[1]
      /\ y = CHOOSE c \in W : \A p \in C : c >= p[1]
  <2>1. \A v \in W : v \in Int /\ b <= v /\ v <= y
    BY <1>1, <1>4
  <2>2. b \in W /\ y \in W /\ (\A p \in C : p[1] \in W)
    BY <1>1, <1>4
  <2>3. PICK u \in W : u = (CHOOSE c \in W : \A p \in C : c <= p[1]) /\ \A p \in C : u <= p[1]
    BY <1>1, <2>2
  <2>4. PICK w \in W : w = (CHOOSE c \in W : \A p \in C : c >= p[1]) /\ \A p \in C : w >= p[1]
    BY <1>1, <2>2
  <2>5. u <= b /\ b <= u /\ u \in Int
    BY <1>4, <2>1, <2>2, <2>3
  <2>6. w >= y /\ w <= y /\ w \in Int
    BY <1>4, <2>1, <2>2, <2>4
  <2> QED
    BY <2>3, <2>4, <2>5, <2>6
<1>6. BoundingBox(C) = [first_column |-> CHOOSE c \in V : \A p \in C : c <= p[2],
                        first_row    |-> CHOOSE c \in W : \A p \in C : c <= p[1],
                        last_column  |-> CHOOSE c \in V : \A p \in C : c >= p[2],
                        last_row     |-> CHOOSE c \in W : \A p \in C : c >= p[1]]
  BY <1>2, <1>4, Zenon DEF BoundingBox
<1> QED
  BY <1>1, <1>3, <1>5, <1>6

\* get_data_range() is the bounding box of the cells of a sheet of several rows.
LEMMA DataRangeIsOfCells ==
  ASSUME NEW sheet, IsSheet(sheet), NEW n \in Nat \ {0, 1}, n = Len(sheet[1])
  PROVE  DataRange(sheet) = IF NonEmpty(sheet) = {} THEN << >> ELSE BoundingBox(NonEmpty(sheet))
<1>1. PICK m \in Nat \ {0} : m = Len(sheet)
  BY DEF IsSheet
<1>2. PICK f : f = (CHOOSE g : Found(g, sheet)) /\ Found(f, sheet)
  BY FoundExists
<1>3. PICK d : d = f[m]
  OBVIOUS
<1>4. d \in DataBounds /\ Bounded(d, sheet, n, m)
  BY <1>1, <1>2, <1>3, FoundAre
<1>5. LastRow(sheet) = n - 1 /\ LastColumn(sheet) = m - 1
  BY <1>1 DEF LastRow, LastColumn, IsSheet
<1>6. ~(LastRow(sheet) < 0)
  BY <1>5
<1>7. DataRange(sheet) = IF d.last_column < 0 THEN << >> ELSE d
  BY <1>1, <1>2, <1>3, <1>6, DataRangeIs
<1>8. PICK C : C = NonEmpty(sheet)
  OBVIOUS
<1>9. C = { p \in Rows(n) \X Rows(m) : Filled(sheet, p[2], p[1]) }
  BY <1>5, <1>8 DEF NonEmpty, Rows, Filled, At0, TypeAt
<1>10. CASE Blank(d, sheet, n, m)
  <2>1. d.last_column < 0
    BY <1>10 DEF Blank
  <2>2. ASSUME NEW p \in C PROVE FALSE
    <3>1. p[1] \in Rows(n) /\ p[2] \in Rows(m) /\ Filled(sheet, p[2], p[1])
      BY <1>9
    <3>2. p[2] \in 0..m /\ p[2] < m
      BY <3>1 DEF Rows
    <3> QED
      BY <1>10, <3>1, <3>2 DEF Blank
  <2> QED
    BY <1>7, <1>8, <2>1, <2>2
<1>11. CASE BoundsCells(d, sheet, n, m)
  <2>1. ~(d.last_column < 0) /\ d.last_column \in Rows(m)
    BY <1>11 DEF BoundsCells, Rows
  <2>2. \A k \in Rows(m), r \in Rows(n) :
          Filled(sheet, k, r) => \E p \in C : p[1] = r /\ p[2] = k
    <3>1. ASSUME NEW k \in Rows(m), NEW r \in Rows(n), Filled(sheet, k, r)
          PROVE  \E p \in C : p[1] = r /\ p[2] = k
      <4>1. PICK p : p = << r, k >>
        OBVIOUS
      <4>2. p \in Rows(n) \X Rows(m) /\ p[1] = r /\ p[2] = k
        BY <4>1
      <4> QED
        BY <1>9, <3>1, <4>2
    <3> QED
      BY <3>1
  <2>3. \A p \in C : p[1] \in Rows(n) /\ p[2] \in Rows(m) /\ Filled(sheet, p[2], p[1])
    BY <1>9
  <2>4. \A p \in C : p[1] \in Int /\ p[2] \in Int
    BY <2>3 DEF Rows
  <2>5. \A p \in C : /\ d.first_column <= p[2] /\ p[2] <= d.last_column
                     /\ d.first_row <= p[1] /\ p[1] <= d.last_row
    BY <1>11, <2>3 DEF BoundsCells
  <2>6. /\ \E p \in C : p[2] = d.first_column
        /\ \E p \in C : p[2] = d.last_column
        /\ \E p \in C : p[1] = d.first_row
        /\ \E p \in C : p[1] = d.last_row
    BY <1>11, <2>2 DEF BoundsCells
  <2>7. d \in DataBounds
    BY <1>4
  <2>8. d = BoundingBox(C)
    BY <2>4, <2>5, <2>6, <2>7, TheBox
  <2>9. C # {}
    BY <2>6
  <2> QED
    BY <1>7, <1>8, <2>1, <2>8, <2>9
<1> QED
  BY <1>4, <1>10, <1>11 DEF Bounded

\* A sheet of the model is one, and what is neither a formula nor empty counts by its type.
LEMMA ViewFacts ==
  ASSUME ModelInv, NEW s \in DOMAIN sheets
  PROVE  /\ IsSheet(View(s)) /\ CountedByType(View(s))
         /\ Len(View(s)) = size.columns /\ Len(View(s)[1]) = size.rows /\ IsASize(size)
<1>1. /\ IsASize(size) /\ sheets \in Seq(Grids(size, StoredCells))
  BY ContentsFacts DEF ModelInv
<1>2. PICK view : view = View(s)
  OBVIOUS
<1>3. DOMAIN sheets[s] = 1..size.columns /\ \A c \in 1..size.columns : DOMAIN sheets[s][c] = 1..size.rows
  BY <1>1, GridFacts
<1>4. view = [c \in 1..size.columns |-> [r \in 1..size.rows |->
                [type |-> sheets[s][c][r].type, counts |-> CellValueType(sheets[s][c][r])]]]
  BY <1>2, <1>3, Zenon DEF View
<1>5. Len(view) = size.columns
  BY <1>1, <1>4, LengthOf DEF IsASize
<1>6. ASSUME NEW c \in 1..size.columns
      PROVE  Len(view[c]) = size.rows
  <2>1. view[c] = [r \in 1..size.rows |-> [type |-> sheets[s][c][r].type,
                                            counts |-> CellValueType(sheets[s][c][r])]]
    BY <1>4
  <2> QED
    BY <1>1, <2>1, LengthOf DEF IsASize
<1>7. 1 \in 1..size.columns
  BY <1>1 DEF IsASize
<1>8. IsSheet(view)
  <2>1. \A c \in 1..Len(view) : IsColumn(view[c]) /\ Len(view[c]) = size.rows
    BY <1>1, <1>5, <1>6 DEF IsASize, IsColumn
  <2> QED
    BY <1>1, <1>5, <2>1, <1>7 DEF IsASize, IsSheet
<1>9. CountedByType(view)
  <2>1. ASSUME NEW c \in 1..size.columns PROVE CountsByType(view[c])
    <3>1. ASSUME NEW r \in 1..size.rows, view[c][r].type # "formula"
          PROVE  view[c][r].counts = view[c][r].type
      <4>1. /\ view[c][r].type = sheets[s][c][r].type
            /\ view[c][r].counts = CellValueType(sheets[s][c][r])
        BY <1>4
      <4> QED
        BY <3>1, <4>1 DEF CellValueType
    <3> QED
      BY <1>6, <3>1 DEF CountsByType
  <2> QED
    BY <1>5, <2>1 DEF CountedByType
<1> QED
  BY <1>1, <1>2, <1>5, <1>6, <1>7, <1>8, <1>9

\* is_empty(), asked of any sheet of the model and any range.
EmptinessByCells ==
  \A s \in DOMAIN sheets, range \in CellRanges :
    {range.first.row, range.last.row, range.first.column, range.last.column} \subseteq Nat
      => IsEmptyRange(View(s), range) = EmptyByCells(View(s), range)

\* is_empty() looks at one block of each column only, and says what looking at
\* every cell of the range would say: after any operations on the model, for
\* every sheet and every range, in order or not, beyond the sheet or not.
THEOREM EmptinessIsOfCells ==
  ASSUME Threw \notin CellRanges
  PROVE  Spec => []EmptinessByCells
<1>1. ModelInv => EmptinessByCells
  <2> SUFFICES ASSUME ModelInv, NEW s \in DOMAIN sheets, NEW range \in CellRanges,
                      {range.first.row, range.last.row, range.first.column, range.last.column} \subseteq Nat
               PROVE  IsEmptyRange(View(s), range) = EmptyByCells(View(s), range)
    BY DEF EmptinessByCells
  <2>1. PICK view : view = View(s)
    OBVIOUS
  <2>2. IsSheet(view)
    BY <2>1, ViewFacts
  <2>3. /\ range.first.row >= 0 /\ range.last.row >= 0
        /\ range.first.column >= 0 /\ range.last.column >= 0
    OBVIOUS
  <2> QED
    BY <2>1, <2>2, <2>3, EmptinessOfCells
<1> QED
  BY <1>1, ModelAlways, PTL

LEMMA SheetRangeTyped ==
  ASSUME NEW r1 \in Int, NEW r2 \in Int, NEW c1 \in Int, NEW c2 \in Int
  PROVE  SheetRange(r1, r2, c1, c2) \in CellRanges
BY DEF SheetRange, CellRanges, Address

LEMMA QueriesByCells ==
  ASSUME Threw \notin CellRanges, NEW sheet, IsSheet(sheet), CountedByType(sheet),
         NEW n \in Nat \ {0, 1}, n = Len(sheet[1]), n <= RowUnset
  PROVE  QueriesAgree(sheet)
<1>1. PICK m \in Nat \ {0} : m = Len(sheet)
  BY DEF IsSheet
<1>2. LastRow(sheet) = n - 1 /\ LastColumn(sheet) = m - 1
  BY <1>1 DEF LastRow, LastColumn, IsSheet
<1>3. DataRange(sheet) = IF NonEmpty(sheet) = {} THEN << >> ELSE BoundingBox(NonEmpty(sheet))
  BY DataRangeIsOfCells
<1>4. ASSUME NEW r1 \in 0..n, NEW r2 \in 0..n, NEW c1 \in 0..m, NEW c2 \in 0..m
      PROVE  /\ IsEmptyRange(sheet, SheetRange(r1, r2, c1, c2)) = EmptyByCells(sheet, SheetRange(r1, r2, c1, c2))
             /\ r1 <= r2 /\ c1 <= c2 /\ r2 <= n - 1 /\ c2 <= m - 1
                  => /\ CountsCells(sheet, SheetRange(r1, r2, c1, c2))
                     /\ WalksOverCells(sheet, SheetRange(r1, r2, c1, c2))
  <2>1. PICK range \in CellRanges : range = SheetRange(r1, r2, c1, c2)
    BY SheetRangeTyped
  <2>2. /\ range.first.row = r1 /\ range.last.row = r2
        /\ range.first.column = c1 /\ range.last.column = c2
    BY <2>1, SheetRangeIs
  <2>3. IsEmptyRange(sheet, range) = EmptyByCells(sheet, range)
    BY <2>2, EmptinessOfCells
  <2>4. ASSUME r1 <= r2, c1 <= c2, r2 <= n - 1, c2 <= m - 1
        PROVE  CountsCells(sheet, range) /\ WalksOverCells(sheet, range)
    <3>1. IsArea(sheet, c1, c2, r1, r2)
      BY <1>1, <2>4 DEF IsArea
    <3>2. LastRow(sheet) < RowUnset
      BY <1>2, UnsetAssumption
    <3>3. CountsCells(sheet, range)
      BY <2>1, <3>1, <3>2, CountsAreOfCells
    <3>4. WalksOverCells(sheet, range)
      BY <2>2, <3>1, WalkIsOfCells
    <3> QED
      BY <3>3, <3>4
  <2> QED
    BY <2>1, <2>3, <2>4
<1>5. \A r1, r2 \in 0..(LastRow(sheet) + 1), c1, c2 \in 0..(LastColumn(sheet) + 1) :
        r1 \in 0..n /\ r2 \in 0..n /\ c1 \in 0..m /\ c2 \in 0..m
  BY <1>2
<1>6. ASSUME NEW r1 \in 0..LastRow(sheet) + 1, NEW r2 \in 0..LastRow(sheet) + 1,
             NEW c1 \in 0..LastColumn(sheet) + 1, NEW c2 \in 0..LastColumn(sheet) + 1
      PROVE  LET range == SheetRange(r1, r2, c1, c2) IN
             /\ IsEmptyRange(sheet, range) =
                  IF Within(sheet, Reorder(range)) = {} THEN Threw
                  ELSE Within(sheet, Reorder(range)) \cap NonEmpty(sheet) = {}
             /\ r1 <= r2 /\ c1 <= c2 /\ r2 <= LastRow(sheet) /\ c2 <= LastColumn(sheet)
                  => CountsCells(sheet, range) /\ WalksOverCells(sheet, range)
  <2>1. PICK range : range = SheetRange(r1, r2, c1, c2)
    OBVIOUS
  <2>2. r1 \in 0..n /\ r2 \in 0..n /\ c1 \in 0..m /\ c2 \in 0..m
    BY <1>5
  <2>3. /\ IsEmptyRange(sheet, range) = EmptyByCells(sheet, range)
        /\ r1 <= r2 /\ c1 <= c2 /\ r2 <= LastRow(sheet) /\ c2 <= LastColumn(sheet)
             => CountsCells(sheet, range) /\ WalksOverCells(sheet, range)
    BY <1>2, <1>4, <2>1, <2>2
  <2>4. EmptyByCells(sheet, range) = IF Within(sheet, Reorder(range)) = {} THEN Threw
                                     ELSE Within(sheet, Reorder(range)) \cap NonEmpty(sheet) = {}
    BY Zenon DEF EmptyByCells
  <2> QED
    BY <2>1, <2>3, <2>4
<1> QED
  BY <1>3, <1>6, Zenon DEF QueriesAgree

\* What is asked of every sheet of several rows, after any operations.
QueriesAgreeEverywhere == \A s \in DOMAIN sheets : size.rows > 1 => QueriesAgree(View(s))

\* Going through the columns by blocks says what looking at every cell would, after
\* any operations on the model and for every sheet and range: count_range() counts
\* the cells that show a value of the type, walk() shows each cell of the range once,
\* in order and with its type, and in blocks that cannot be joined, is_empty() is as
\* in EmptinessIsOfCells, and get_data_range() is the bounding box of the cells.
\* That no row of a sheet has the number for "all rows" is what the code relies on.
THEOREM QueriesAreOfCells ==
  ASSUME Threw \notin CellRanges, \A sz \in Sizes : sz.rows <= RowUnset
  PROVE  Spec => [](QueriesAgreeEverywhere /\ RangeQueries)
<1>1. ModelInv => QueriesAgreeEverywhere /\ RangeQueries
  <2>1. ASSUME ModelInv, NEW s \in DOMAIN sheets, size.rows > 1
        PROVE  QueriesAgree(View(s))
    <3>1. PICK view : view = View(s)
      OBVIOUS
    <3>2. /\ IsSheet(view) /\ CountedByType(view) /\ Len(view[1]) = size.rows /\ IsASize(size)
      BY <2>1, <3>1, ViewFacts
    <3>3. PICK n \in Nat \ {0, 1} : n = Len(view[1]) /\ n = size.rows
      BY <2>1, <3>2 DEF IsASize
    <3>4. n <= RowUnset
      BY <2>1, <3>3 DEF ModelInv, ContentsInv
    <3> QED
      BY <3>1, <3>2, <3>3, <3>4, QueriesByCells
  <2> QED
    BY <2>1 DEF QueriesAgreeEverywhere, RangeQueries
<1> QED
  BY <1>1, ModelAlways, PTL

-----------------------------------------------------------------------------
(* How far an address iterator has come.                                     *)

LEMMA TimesMonotone ==
  ASSUME NEW a \in Int, NEW b \in Int, NEW c \in Nat, a <= b
  PROVE  a * c <= b * c
OBVIOUS

\* The number of a place in a box of so many sheets, columns and rows, or rows
\* and columns, each counted from 0.
Number3(S, w, h, W, H) == (S * W + w) * H + h

LEMMA Number3Next ==
  ASSUME NEW S \in Int, NEW w \in Int, NEW h \in Int, NEW W \in Int, NEW H \in Int
  PROVE  /\ Number3(S, w, h + 1, W, H) = Number3(S, w, h, W, H) + 1
         /\ Number3(S, w + 1, 0, W, H) = Number3(S, w, H - 1, W, H) + 1
         /\ Number3(S + 1, 0, 0, W, H) = Number3(S, W - 1, H - 1, W, H) + 1
BY DEF Number3

LEMMA Number3Typed ==
  ASSUME NEW S \in Int, NEW w \in Int, NEW h \in Int, NEW W \in Int, NEW H \in Int
  PROVE  Number3(S, w, h, W, H) \in Int
BY DEF Number3

LEMMA Number3Ends ==
  ASSUME NEW D \in Int, NEW W \in Int, NEW H \in Int, NEW z, z = Number3(D - 1, W - 1, H - 1, W, H)
  PROVE  z \in Int /\ z + 1 = H * W * D /\ z + 1 = W * H * D
BY DEF Number3

LEMMA Number3Starts ==
  ASSUME NEW W \in Int, NEW H \in Int, NEW z, z = 0
  PROVE  Number3(z, z, z, W, H) = 0
BY DEF Number3

LEMMA Number3Within ==
  ASSUME NEW D \in Nat \ {0}, NEW W \in Nat \ {0}, NEW H \in Nat \ {0},
         NEW S \in 0..(D - 1), NEW w \in 0..(W - 1), NEW h \in 0..(H - 1)
  PROVE  Number3(S, w, h, W, H) <= Number3(D - 1, W - 1, H - 1, W, H)
<1>1. S * W <= (D - 1) * W /\ S * W \in Int /\ (D - 1) * W \in Int
  BY TimesMonotone
<1>2. PICK x \in Int, y \in Int : x = S * W + w /\ y = (D - 1) * W + (W - 1)
  BY <1>1
<1>3. x <= y
  BY <1>1, <1>2
<1>4. x * H <= y * H /\ x * H \in Int /\ y * H \in Int
  BY <1>2, <1>3, TimesMonotone
<1>5. x * H + h <= y * H + (H - 1)
  BY <1>4
<1> QED
  BY <1>2, <1>5 DEF Number3

\* The number of an address in its range.
RankOf(range, a, fast, slow) ==
  Number3(a.sheet - range.first.sheet, a[slow] - range.first[slow], a[fast] - range.first[fast],
          range.last[slow] - range.first[slow] + 1, range.last[fast] - range.first[fast] + 1)

\* The size of a range.
Extent(range) ==
  (range.last.row - range.first.row + 1) * (range.last.column - range.first.column + 1)
    * (range.last.sheet - range.first.sheet + 1)

LEMMA RankAtEnds ==
  ASSUME NEW fast, NEW slow, AreDirections(fast, slow), NEW range \in CellRanges, ValidRange(range)
  PROVE  /\ RankOf(range, range.first, fast, slow) = 0
         /\ RankOf(range, range.last, fast, slow) + 1 = Extent(range)
         /\ \A a \in Address : Contains(range, a) =>
              RankOf(range, a, fast, slow) \in Int /\ RankOf(range, a, fast, slow) < Extent(range)
<1>1. PICK f, l : Bounds(range, f, l, fast, slow)
  BY RangeBounds
<1> USE <1>1 DEF Bounds
<1>2. PICK D \in Nat \ {0} : D = l.sheet - f.sheet + 1 /\ l.sheet - f.sheet = D - 1
  OBVIOUS
<1>3. PICK W \in Nat \ {0} : W = l[slow] - f[slow] + 1 /\ l[slow] - f[slow] = W - 1
  OBVIOUS
<1>4. PICK H \in Nat \ {0} : H = l[fast] - f[fast] + 1 /\ l[fast] - f[fast] = H - 1
  OBVIOUS
<1>5. f.sheet - f.sheet = 0 /\ f[fast] - f[fast] = 0 /\ f[slow] - f[slow] = 0
  OBVIOUS
<1>6. \A a : RankOf(range, a, fast, slow) = Number3(a.sheet - f.sheet, a[slow] - f[slow], a[fast] - f[fast], W, H)
  BY <1>3, <1>4 DEF RankOf
<1>7. RankOf(range, f, fast, slow) = 0
  BY <1>5, <1>6, Number3Starts
<1>8. RankOf(range, l, fast, slow) = Number3(D - 1, W - 1, H - 1, W, H)
  BY <1>2, <1>3, <1>4, <1>6
<1>9. Extent(range) = H * W * D \/ Extent(range) = W * H * D
  BY <1>2, <1>3, <1>4 DEF Extent, AreDirections
<1>10. RankOf(range, l, fast, slow) + 1 = Extent(range)
  BY <1>8, <1>9, Number3Ends
<1>11. ASSUME NEW a \in Address, Contains(range, a)
       PROVE  RankOf(range, a, fast, slow) \in Int /\ RankOf(range, a, fast, slow) < Extent(range)
  <2>1. PICK S \in 0..(D - 1), w \in 0..(W - 1), h \in 0..(H - 1) :
          S = a.sheet - f.sheet /\ w = a[slow] - f[slow] /\ h = a[fast] - f[fast]
    BY <1>2, <1>3, <1>4, <1>11
  <2>2. PICK r : r = Number3(S, w, h, W, H) /\ r \in Int
    <3>1. PICK r : r = Number3(S, w, h, W, H)
      OBVIOUS
    <3>2. S \in Int /\ w \in Int /\ h \in Int /\ W \in Int /\ H \in Int
      BY <1>2, <1>3, <1>4, <2>1
    <3>3. Number3(S, w, h, W, H) \in Int
      BY <3>2, Number3Typed
    <3> QED
      BY <3>1, <3>3
  <2>3. RankOf(range, a, fast, slow) = r
    BY <1>6, <2>1, <2>2
  <2>4. PICK z : z = Number3(D - 1, W - 1, H - 1, W, H)
    OBVIOUS
  <2>5. z \in Int
    BY <2>4, Number3Ends
  <2>6. r <= z
    BY <2>1, <2>2, <2>4, Number3Within
  <2>7. Extent(range) = z + 1
    BY <1>8, <1>10, <2>4
  <2> QED
    BY <2>2, <2>3, <2>5, <2>6, <2>7
<1> QED
  BY <1>7, <1>10, <1>11

\* Each step is to the next number, and the end comes behind the last one.
LEMMA RankGoesUp ==
  ASSUME NEW fast, NEW slow, AreDirections(fast, slow),
         NEW range \in CellRanges, ValidRange(range), NEW it, IsIterator(range, it), ~it.end,
         NEW next, next = Increment(range, it, fast, slow), ~next.end
  PROVE  RankOf(range, next.position, fast, slow) = RankOf(range, it.position, fast, slow) + 1
<1>1. PICK p \in Address : it = [position |-> p, end |-> FALSE] /\ Contains(range, p)
  BY DEF IsIterator
<1>2. PICK f, l : Bounds(range, f, l, fast, slow)
  BY RangeBounds
<1> USE <1>2 DEF Bounds
<1>3. PICK W \in Int : W = l[slow] - f[slow] + 1 /\ l[slow] - f[slow] = W - 1
  OBVIOUS
<1>4. PICK H \in Int : H = l[fast] - f[fast] + 1 /\ l[fast] - f[fast] = H - 1
  OBVIOUS
<1>5. \A a : RankOf(range, a, fast, slow) = Number3(a.sheet - f.sheet, a[slow] - f[slow], a[fast] - f[fast], W, H)
  BY <1>3, <1>4 DEF RankOf
<1>6. /\ p.sheet \in f.sheet..l.sheet /\ p[fast] \in f[fast]..l[fast] /\ p[slow] \in f[slow]..l[slow]
      /\ p.sheet \in Int /\ p[fast] \in Int /\ p[slow] \in Int
  BY <1>1
<1>7. PICK S \in Int, w \in Int, h \in Int : S = p.sheet - f.sheet /\ w = p[slow] - f[slow] /\ h = p[fast] - f[fast]
  BY <1>6
<1>8. RankOf(range, p, fast, slow) = Number3(S, w, h, W, H)
  BY <1>5, <1>7
<1>9. CASE p[fast] < l[fast]
  <2>1. PICK x \in Int : x = p[fast] + 1 /\ x - f[fast] = h + 1
    BY <1>6, <1>7
  <2>2. PICK n : n = [p EXCEPT ![fast] = x]
    OBVIOUS
  <2>3. Is(n, p.sheet, slow, p[slow], fast, x)
    BY <2>2, AddressMoved
  <2>4. next = [position |-> n, end |-> FALSE]
    <3>1. next = [it EXCEPT !.position[fast] = x]
      BY <1>1, <1>9, <2>1 DEF Increment
    <3> QED
      BY <1>1, <2>2, <3>1, IteratorMoved
  <2>5. RankOf(range, n, fast, slow) = Number3(S, w, h + 1, W, H)
    BY <1>5, <1>7, <2>1, <2>3 DEF Is
  <2> QED
    BY <1>1, <1>8, <2>4, <2>5, Number3Next
<1>10. CASE p[fast] >= l[fast] /\ p[slow] < l[slow]
  <2>1. PICK x \in Int : x = p[slow] + 1 /\ x - f[slow] = w + 1
    BY <1>6, <1>7
  <2>2. PICK n : n = [p EXCEPT ![slow] = x, ![fast] = f[fast]]
    OBVIOUS
  <2>3. Is(n, p.sheet, slow, x, fast, f[fast])
    BY <2>2, AddressMoved
  <2>4. next = [position |-> n, end |-> FALSE]
    <3>1. next = [it EXCEPT !.position[slow] = x, !.position[fast] = f[fast]]
      BY <1>1, <1>6, <1>10, <2>1 DEF Increment
    <3> QED
      BY <1>1, <2>2, <3>1, IteratorMoved
  <2>5. h = H - 1 /\ f[fast] - f[fast] = 0
    BY <1>4, <1>6, <1>7, <1>10
  <2>6. RankOf(range, n, fast, slow) = Number3(S, w + 1, 0, W, H)
    BY <1>5, <1>7, <2>1, <2>3, <2>5 DEF Is
  <2> QED
    BY <1>1, <1>8, <2>4, <2>5, <2>6, Number3Next
<1>11. CASE p[fast] >= l[fast] /\ p[slow] >= l[slow] /\ p.sheet < l.sheet
  <2>1. PICK x \in Int : x = p.sheet + 1 /\ x - f.sheet = S + 1
    BY <1>6, <1>7
  <2>2. PICK n : n = [f EXCEPT !.sheet = x]
    OBVIOUS
  <2>3. Is(n, x, slow, f[slow], fast, f[fast])
    BY <2>2, AddressMoved
  <2>4. next = [position |-> n, end |-> FALSE]
    <3>1. next = [it EXCEPT !.position = n]
      BY <1>1, <1>6, <1>11, <2>1, <2>2 DEF Increment, NextSheet
    <3> QED
      BY <1>1, <3>1, IteratorMoved
  <2>5. h = H - 1 /\ w = W - 1 /\ f[fast] - f[fast] = 0 /\ f[slow] - f[slow] = 0
    BY <1>3, <1>4, <1>6, <1>7, <1>11
  <2>6. RankOf(range, n, fast, slow) = Number3(S + 1, 0, 0, W, H)
    BY <1>5, <2>1, <2>3, <2>5 DEF Is
  <2> QED
    BY <1>1, <1>8, <2>4, <2>5, <2>6, Number3Next
<1>12. CASE p[fast] >= l[fast] /\ p[slow] >= l[slow] /\ p.sheet >= l.sheet
  <2>1. next = [it EXCEPT !.end = TRUE]
    BY <1>1, <1>6, <1>12 DEF Increment, NextSheet
  <2>2. next.end = TRUE
    BY <1>1, <2>1
  <2> QED
    BY <2>2
<1> QED
  BY <1>6, <1>9, <1>10, <1>11, <1>12

\* Where an iterator is after moves from its first position.
IsMoves(f, range, n, fast, slow) ==
  f = [k \in 0..n |-> IF k = 0 THEN Begin(range) ELSE Increment(range, f[k - 1], fast, slow)]

LEMMA MovesAre ==
  ASSUME NEW range, NEW n
  PROVE  /\ Moves(range, n, IncVertical) = CHOOSE f : IsMoves(f, range, n, "row", "column")
         /\ Moves(range, n, IncHorizontal) = CHOOSE f : IsMoves(f, range, n, "column", "row")
BY Zenon DEF Moves, IsMoves, IncVertical, IncHorizontal

\* After k moves it is at the address with this number, or at the end.
Came(f, range, n, fast, slow) ==
  /\ DOMAIN f = 0..n /\ f[0] = Begin(range)
  /\ \A k \in 0..n :
       /\ IsIterator(range, f[k])
       /\ f[k].end <=> k = n
       /\ k < n => RankOf(range, f[k].position, fast, slow) = k
       /\ k < n => f[k + 1] = Increment(range, f[k], fast, slow)

\* The iterators of a range, and what follows each but the end.
Iterators(range) == { it \in [position : Address, end : BOOLEAN] : IsIterator(range, it) }
Follows(range, it, fast, slow) == IF it.end THEN it ELSE Increment(range, it, fast, slow)

LEMMA BeginIsIterator ==
  ASSUME NEW range \in CellRanges, ValidRange(range)
  PROVE  Begin(range) \in Iterators(range) /\ ~Begin(range).end /\ Begin(range).position = range.first
<1>1. range.first \in Address /\ Contains(range, range.first)
  BY DEF CellRanges, Address, ValidRange, Contains
<1>2. PICK p \in Address : p = range.first
  BY <1>1
<1>3. PICK b : b = [position |-> p, end |-> FALSE]
  OBVIOUS
<1>4. b = Begin(range)
  BY <1>2, <1>3 DEF Begin
<1>5. b \in [position : Address, end : BOOLEAN] /\ b.position = p /\ ~b.end
  BY <1>3
<1>6. IsIterator(range, b)
  BY <1>1, <1>2, <1>5 DEF IsIterator
<1> QED
  BY <1>2, <1>4, <1>5, <1>6 DEF Iterators

LEMMA FollowsIterator ==
  ASSUME NEW fast, NEW slow, AreDirections(fast, slow), NEW range \in CellRanges, ValidRange(range),
         NEW it \in Iterators(range)
  PROVE  Follows(range, it, fast, slow) \in Iterators(range)
<1>1. IsIterator(range, it)
  BY DEF Iterators
<1>2. CASE it.end
  BY <1>2 DEF Follows
<1>3. CASE ~it.end
  <2>1. LeadsOn(range, it, Increment(range, it, fast, slow), fast, slow)
    BY <1>1, <1>3, AddressAhead
  <2> QED
    BY <1>3, <2>1 DEF Follows, LeadsOn, Iterators, IsIterator
<1> QED
  BY <1>2, <1>3

\* One more move.
LEMMA OneMoveOn ==
  ASSUME NEW fast, NEW slow, AreDirections(fast, slow), NEW range \in CellRanges, ValidRange(range),
         NEW it, IsIterator(range, it), ~it.end, NEW next, next = Increment(range, it, fast, slow),
         NEW k \in Int, RankOf(range, it.position, fast, slow) = k, NEW d, d = k + 1,
         NEW n \in Nat, n = Extent(range)
  PROVE  /\ IsIterator(range, next) /\ k < n
         /\ next.end <=> d = n
         /\ d < n => RankOf(range, next.position, fast, slow) = d
<1>1. LeadsOn(range, it, next, fast, slow)
  BY AddressAhead
<1>2. it.position \in Address /\ Contains(range, it.position)
  BY DEF IsIterator
<1>3. k < n
  BY <1>2, RankAtEnds
<1>4. IsIterator(range, next)
  BY <1>1 DEF LeadsOn
<1>5. CASE next.end
  <2>1. it.position = range.last
    BY <1>1, <1>5 DEF LeadsOn
  <2>2. d = n
    BY <2>1, RankAtEnds
  <2> QED
    BY <1>3, <1>4, <1>5, <2>2
<1>6. CASE ~next.end
  <2>1. RankOf(range, next.position, fast, slow) = d
    BY <1>6, RankGoesUp
  <2>2. next.position \in Address /\ Contains(range, next.position)
    BY <1>4 DEF IsIterator
  <2>3. d < n
    BY <2>1, <2>2, RankAtEnds
  <2> QED
    BY <1>3, <1>4, <1>6, <2>1, <2>3
<1> QED
  BY <1>5, <1>6

LEMMA ExtentIs ==
  ASSUME NEW range \in CellRanges, ValidRange(range)
  PROVE  Extent(range) \in Nat \ {0}
<1>1. AreDirections("row", "column")
  BY DEF AreDirections
<1>2. range.first \in Address /\ Contains(range, range.first)
  BY DEF CellRanges, Address, ValidRange, Contains
<1>3. PICK a \in Nat \ {0}, b \in Nat \ {0}, c \in Nat \ {0} :
        /\ a = range.last.row - range.first.row + 1 /\ b = range.last.column - range.first.column + 1
        /\ c = range.last.sheet - range.first.sheet + 1
  BY DEF CellRanges, Address, ValidRange
<1>4. Extent(range) = a * b * c /\ a * b * c \in Int
  BY <1>3 DEF Extent
<1>5. 0 < Extent(range)
  BY <1>1, <1>2, RankAtEnds
<1> QED
  BY <1>4, <1>5

\* Goes on as long as it is not at the end.
GoesOn(f, range, n, fast, slow) ==
  /\ DOMAIN f = 0..n /\ f[0] = Begin(range)
  /\ \A k \in 0..n : k < n /\ IsIterator(range, f[k]) /\ ~f[k].end =>
       f[k + 1] = Increment(range, f[k], fast, slow)

LEMMA GoesOnComes ==
  ASSUME NEW fast, NEW slow, AreDirections(fast, slow), NEW range \in CellRanges, ValidRange(range),
         NEW n, n = Extent(range), NEW f, GoesOn(f, range, n, fast, slow)
  PROVE  Came(f, range, n, fast, slow)
<1>1. n \in Nat \ {0} /\ n \in Nat
  BY ExtentIs
<1>2. PICK S : S = { k \in 0..n : /\ IsIterator(range, f[k])
                                  /\ f[k].end <=> k = n
                                  /\ k < n => RankOf(range, f[k].position, fast, slow) = k }
  OBVIOUS
<1>3. 0 \in S
  <2>1. IsIterator(range, f[0]) /\ ~f[0].end /\ f[0].position = range.first
    BY BeginIsIterator DEF Iterators, GoesOn
  <2>2. RankOf(range, f[0].position, fast, slow) = 0
    BY <2>1, RankAtEnds
  <2>3. 0 \in 0..n /\ 0 # n
    BY <1>1
  <2> QED
    BY <1>2, <2>1, <2>2, <2>3
<1>4. ASSUME NEW k \in 0..(n - 1), k \in S PROVE k + 1 \in S
  <2>1. k < n /\ k # n /\ k \in Int /\ k \in 0..n
    BY <1>1
  <2>2. IsIterator(range, f[k]) /\ ~f[k].end /\ RankOf(range, f[k].position, fast, slow) = k
    BY <1>2, <1>4, <2>1
  <2>3. PICK d \in 0..n : d = k + 1
    BY <1>1
  <2>4. f[d] = Increment(range, f[k], fast, slow)
    BY <2>1, <2>2, <2>3 DEF GoesOn
  <2>5. PICK it : it = f[k]
    OBVIOUS
  <2>6. PICK next : next = f[d]
    OBVIOUS
  <2>7. /\ IsIterator(range, next)
        /\ next.end <=> d = n
        /\ d < n => RankOf(range, next.position, fast, slow) = d
    BY <1>1, <2>1, <2>2, <2>3, <2>4, <2>5, <2>6, OneMoveOn
  <2> QED
    BY <1>2, <2>3, <2>6, <2>7
<1>5. \A k \in 0..n : k \in S
  BY <1>1, <1>3, <1>4, UpTo
<1>6. ASSUME NEW k \in 0..n
      PROVE  /\ IsIterator(range, f[k])
             /\ f[k].end <=> k = n
             /\ k < n => RankOf(range, f[k].position, fast, slow) = k
             /\ k < n => f[k + 1] = Increment(range, f[k], fast, slow)
  <2>1. /\ IsIterator(range, f[k])
        /\ f[k].end <=> k = n
        /\ k < n => RankOf(range, f[k].position, fast, slow) = k
    BY <1>2, <1>5
  <2>2. k < n => ~f[k].end
    BY <1>1, <2>1
  <2>3. k < n => f[k + 1] = Increment(range, f[k], fast, slow)
    BY <2>1, <2>2 DEF GoesOn
  <2> QED
    BY <2>1, <2>3
<1> QED
  BY <1>6 DEF Came, GoesOn

LEMMA MovesExist ==
  ASSUME NEW fast, NEW slow, AreDirections(fast, slow), NEW range \in CellRanges, ValidRange(range),
         NEW n, n = Extent(range)
  PROVE  \E f : IsMoves(f, range, n, fast, slow)
<1>1. n \in Nat \ {0} /\ n \in Nat /\ 0 \in Nat
  BY ExtentIs
<1>2. PICK X : X = Iterators(range)
  OBVIOUS
<1>3. PICK base \in X : base = Begin(range)
  BY <1>2, BeginIsIterator
<1>4. PICK g : g = [k \in 1..n |-> [x \in X |-> Follows(range, x, fast, slow)]]
  OBVIOUS
<1>5. g \in [1..n -> [X -> X]]
  <2>1. \A x \in X : Follows(range, x, fast, slow) \in X
    BY <1>2, FollowsIterator
  <2>2. [x \in X |-> Follows(range, x, fast, slow)] \in [X -> X]
    BY <2>1
  <2> QED
    BY <1>4, <2>2
<1>6. PICK h : Steps(h, n, 0, base, g, X)
  BY <1>1, <1>3, <1>5, StepsExist
<1>7. h \in [0..n -> X] /\ \A k \in 0..n : h[k] = IF k <= 0 THEN base ELSE g[k][h[k - 1]]
  BY <1>6 DEF Steps
<1>8. h[0] = base
  BY <1>1, <1>7
<1>9. ASSUME NEW k \in 0..n, k < n PROVE h[k + 1] = Follows(range, h[k], fast, slow)
  <2>1. PICK d \in 1..n : d = k + 1 /\ d - 1 = k /\ d \in 0..n /\ ~(d <= 0)
    BY <1>1, <1>9
  <2>2. h[d] = g[d][h[k]] /\ h[k] \in X
    BY <1>7, <2>1
  <2> QED
    BY <1>4, <2>1, <2>2
<1>10. GoesOn(h, range, n, fast, slow)
  <2>1. ASSUME NEW k \in 0..n, k < n, ~h[k].end PROVE h[k + 1] = Increment(range, h[k], fast, slow)
    BY <1>9, <2>1 DEF Follows
  <2> QED
    BY <1>3, <1>7, <1>8, <2>1 DEF GoesOn
<1>11. Came(h, range, n, fast, slow)
  BY <1>10, GoesOnComes
<1>12. ASSUME NEW k \in 0..n PROVE h[k] = IF k = 0 THEN Begin(range) ELSE Increment(range, h[k - 1], fast, slow)
  <2>1. CASE k = 0
    BY <1>3, <1>8, <2>1
  <2>2. CASE k # 0
    <3>1. PICK d \in 0..n : d = k - 1 /\ d + 1 = k /\ d < n
      BY <1>1, <2>2
    <3> QED
      BY <1>11, <2>2, <3>1 DEF Came
  <2> QED
    BY <2>1, <2>2
<1>13. h = [k \in 0..n |-> IF k = 0 THEN Begin(range) ELSE Increment(range, h[k - 1], fast, slow)]
  BY <1>7, <1>12
<1> QED
  BY <1>13, Zenon DEF IsMoves

LEMMA MovesCome ==
  ASSUME NEW fast, NEW slow, AreDirections(fast, slow), NEW range \in CellRanges, ValidRange(range),
         NEW n, n = Extent(range), NEW f, f = CHOOSE g : IsMoves(g, range, n, fast, slow)
  PROVE  Came(f, range, n, fast, slow)
<1>1. n \in Nat \ {0}
  BY ExtentIs
<1>2. \E g : IsMoves(g, range, n, fast, slow)
  BY MovesExist
<1>3. IsMoves(f, range, n, fast, slow)
  BY <1>2, Zenon
<1>4. f = [k \in 0..n |-> IF k = 0 THEN Begin(range) ELSE Increment(range, f[k - 1], fast, slow)]
  BY <1>3, Zenon DEF IsMoves
<1>5. DOMAIN f = 0..n /\ f[0] = Begin(range)
  <2>1. DOMAIN f = 0..n
    BY <1>4, Zenon
  <2>2. 0 \in 0..n
    BY <1>1
  <2>3. f[0] = IF 0 = 0 THEN Begin(range) ELSE Increment(range, f[0 - 1], fast, slow)
    BY <1>4, <2>2, Zenon
  <2> QED
    BY <2>1, <2>3
<1>6. ASSUME NEW k \in 0..n, k < n PROVE f[k + 1] = Increment(range, f[k], fast, slow)
  <2>1. PICK d \in 0..n : d = k + 1 /\ d - 1 = k /\ d # 0
    BY <1>1, <1>6
  <2>2. f[d] = Increment(range, f[k], fast, slow)
    BY <1>4, <2>1
  <2> QED
    BY <2>1, <2>2
<1>7. GoesOn(f, range, n, fast, slow)
  BY <1>5, <1>6 DEF GoesOn
<1> QED
  BY <1>7, GoesOnComes

LEMMA AddressesDiffer ==
  ASSUME NEW fast, NEW slow, AreDirections(fast, slow), NEW range \in CellRanges, ValidRange(range),
         NEW a \in Address, NEW b \in Address, a # b
  PROVE  Precedes(a, b, fast, slow) \/ Precedes(b, a, fast, slow)
<1>1. PICK f, l : Bounds(range, f, l, fast, slow)
  BY RangeBounds
<1>2. /\ a.sheet \in Int /\ a[fast] \in Int /\ a[slow] \in Int
      /\ b.sheet \in Int /\ b[fast] \in Int /\ b[slow] \in Int
  BY <1>1 DEF Bounds
<1>3. a.sheet # b.sheet \/ a[fast] # b[fast] \/ a[slow] # b[slow]
  BY SameAddress
<1> QED
  BY <1>2, <1>3 DEF Precedes

LEMMA LastIsLast ==
  ASSUME NEW fast, NEW slow, AreDirections(fast, slow), NEW range \in CellRanges, ValidRange(range),
         NEW a \in Address, Contains(range, a)
  PROVE  ~Precedes(range.last, a, fast, slow)
<1>1. PICK f, l : Bounds(range, f, l, fast, slow)
  BY RangeBounds
<1>2. /\ a.sheet \in f.sheet..l.sheet /\ a[fast] \in f[fast]..l[fast] /\ a[slow] \in f[slow]..l[slow]
      /\ l = range.last
      /\ f.sheet \in Int /\ f[fast] \in Int /\ f[slow] \in Int
      /\ l.sheet \in Int /\ l[fast] \in Int /\ l[slow] \in Int
  BY <1>1 DEF Bounds
<1> QED
  BY <1>2 DEF Precedes

\* An iterator that came to the end was at every address.
LEMMA AllAddressesCome ==
  ASSUME NEW fast, NEW slow, AreDirections(fast, slow), NEW range \in CellRanges, ValidRange(range),
         NEW n \in Nat \ {0}, NEW f, Came(f, range, n, fast, slow),
         NEW a \in Address, Contains(range, a)
  PROVE  \E k \in 0..n : f[k].position = a
<1> SUFFICES ASSUME \A k \in 0..n : f[k].position # a PROVE FALSE
  OBVIOUS
<1>1. n \in Nat
  OBVIOUS
<1>2. PICK S : S = { k \in 0..n : Precedes(f[k].position, a, fast, slow) }
  OBVIOUS
<1>3. \A k \in 0..n : IsIterator(range, f[k]) /\ f[k].position \in Address /\ (f[k].end <=> k = n)
  BY DEF Came, IsIterator
<1>4. 0 \in S
  <2>1. f[0] = Begin(range) /\ IsIterator(range, f[0]) /\ f[0].position # a /\ 0 \in 0..n
    BY <1>3 DEF Came
  <2>2. GoesThrough(range, f[0], fast, slow)
    BY <2>1, IteratorGoes
  <2>3. Precedes(f[0].position, a, fast, slow)
    BY <2>1, <2>2 DEF GoesThrough
  <2> QED
    BY <1>2, <2>1, <2>3
<1>5. ASSUME NEW k \in 0..(n - 1), k \in S PROVE k + 1 \in S
  <2>1. k \in 0..n /\ k < n /\ k # n
    OBVIOUS
  <2>2. PICK d \in 0..n : d = k + 1
    OBVIOUS
  <2>3. PICK it : it = f[k] /\ IsIterator(range, it) /\ ~it.end
    BY <1>3, <2>1
  <2>4. PICK next : next = f[d]
    OBVIOUS
  <2>5. next = Increment(range, it, fast, slow)
    BY <2>1, <2>2, <2>3, <2>4 DEF Came
  <2>6. LeadsOn(range, it, next, fast, slow)
    BY <2>3, <2>5, AddressAhead
  <2>7. Precedes(it.position, a, fast, slow)
    BY <1>2, <1>5, <2>3
  <2>8. ~Precedes(a, next.position, fast, slow)
    BY <2>6, <2>7 DEF LeadsOn
  <2>9. Precedes(next.position, a, fast, slow)
    BY <1>3, <2>2, <2>4, <2>8, AddressesDiffer
  <2> QED
    BY <1>2, <2>2, <2>4, <2>9
<1>6. \A k \in 0..n : k \in S
  BY <1>1, <1>4, <1>5, UpTo
<1>7. n \in 0..n /\ n \in S
  BY <1>6
<1>8. f[n].position = range.last
  BY <1>3, <1>7 DEF IsIterator
<1> QED
  BY <1>2, <1>7, <1>8, LastIsLast

LEMMA WayBack ==
  ASSUME NEW fast, NEW slow, AreDirections(fast, slow), NEW range \in CellRanges, ValidRange(range),
         NEW n \in Nat \ {0}, NEW f, Came(f, range, n, fast, slow)
  PROVE  /\ f[n] = PastEnd(range) /\ \A k \in 0..(n - 1) : ~f[k].end
         /\ Increment(range, f[n], fast, slow) = Threw /\ Decrement(range, f[0], fast, slow) = Threw
         /\ \A k \in 1..n : Decrement(range, f[k], fast, slow) = f[k - 1]
<1>1. \A k \in 0..n : IsIterator(range, f[k]) /\ (f[k].end <=> k = n)
  BY DEF Came
<1>2. n \in 0..n /\ 0 \in 0..n /\ f[0] = Begin(range)
  BY DEF Came
<1>3. f[n] = PastEnd(range)
  <2>1. PICK it : it = f[n]
    OBVIOUS
  <2>2. it \in [position : Address, end : BOOLEAN] /\ it.position = range.last /\ it.end = TRUE
    BY <1>1, <1>2, <2>1 DEF IsIterator
  <2>3. it = [position |-> range.last, end |-> TRUE]
    BY <2>2
  <2> QED
    BY <2>1, <2>3 DEF PastEnd
<1>4. Increment(range, f[n], fast, slow) = Threw
  <2>1. f[n].end /\ IsIterator(range, f[n])
    BY <1>1, <1>2
  <2>2. GoesThrough(range, f[n], fast, slow)
    BY <2>1, IteratorGoes
  <2> QED
    BY <2>1, <2>2 DEF GoesThrough
<1>5. Decrement(range, f[0], fast, slow) = Threw
  <2>1. GoesThrough(range, f[0], fast, slow)
    BY <1>1, <1>2, IteratorGoes
  <2> QED
    BY <1>2, <2>1 DEF GoesThrough
<1>6. \A k \in 0..(n - 1) : ~f[k].end
  <2>1. ASSUME NEW k \in 0..(n - 1) PROVE ~f[k].end
    <3>1. k \in 0..n /\ k # n
      OBVIOUS
    <3> QED
      BY <1>1, <3>1
  <2> QED
    BY <2>1
<1>7. ASSUME NEW k \in 1..n PROVE Decrement(range, f[k], fast, slow) = f[k - 1]
  <2>1. PICK d \in 0..n : d = k - 1 /\ d + 1 = k /\ d < n /\ d # n
    OBVIOUS
  <2>2. PICK it : it = f[d] /\ IsIterator(range, it) /\ ~it.end
    BY <1>1, <2>1
  <2>3. f[k] = Increment(range, it, fast, slow)
    BY <2>1, <2>2 DEF Came
  <2>4. Decrement(range, f[k], fast, slow) = it
    BY <2>2, <2>3, AddressAhead
  <2> QED
    BY <2>1, <2>2, <2>4
<1> QED
  BY <1>3, <1>4, <1>5, <1>6, <1>7

LEMMA AddressesOfMoves ==
  ASSUME NEW fast, NEW slow, AreDirections(fast, slow), NEW range \in CellRanges, ValidRange(range),
         NEW n \in Nat \ {0}, NEW f, Came(f, range, n, fast, slow)
  PROVE  { f[k].position : k \in 0..n } = { a \in Around(range) : Contains(range, a) }
<1>1. ASSUME NEW a \in Around(range), Contains(range, a) PROVE \E k \in 0..n : a = f[k].position
  <2>1. a \in Address
    BY DEF Around, Address, CellRanges
  <2> QED
    BY <1>1, <2>1, AllAddressesCome
<1>2. ASSUME NEW k \in 0..n PROVE f[k].position \in Around(range) /\ Contains(range, f[k].position)
  <2>1. PICK a : a = f[k].position /\ a \in Address /\ Contains(range, a)
    BY DEF Came, IsIterator
  <2>2. a \in Around(range)
    BY <2>1 DEF Address, CellRanges, Around, Contains
  <2> QED
    BY <2>1, <2>2
<1> QED
  BY <1>1, <1>2

\* What is asked of an address iterator, of the function that its moves make.
Completes(f, range, n, fast, slow) ==
  /\ { f[k].position : k \in 0..n } = { a \in Around(range) : Contains(range, a) }
  /\ f[n] = PastEnd(range) /\ \A k \in 0..(n - 1) : ~f[k].end
  /\ Increment(range, f[n], fast, slow) = Threw /\ Decrement(range, f[0], fast, slow) = Threw
  /\ \A k \in 1..n : Decrement(range, f[k], fast, slow) = f[k - 1]

AgreesVertically(range)   == AddressIteratorAgrees(range, IncVertical, DecVertical)
AgreesHorizontally(range) == AddressIteratorAgrees(range, IncHorizontal, DecHorizontal)

LEMMA AgreesIs ==
  ASSUME NEW range, NEW n, n = Extent(range), NEW f
  PROVE  /\ f = (CHOOSE g : IsMoves(g, range, n, "row", "column")) /\ Completes(f, range, n, "row", "column")
            => AgreesVertically(range)
         /\ f = (CHOOSE g : IsMoves(g, range, n, "column", "row")) /\ Completes(f, range, n, "column", "row")
            => AgreesHorizontally(range)
<1>1. n = (range.last.row - range.first.row + 1) * (range.last.column - range.first.column + 1)
            * (range.last.sheet - range.first.sheet + 1)
  BY DEF Extent
<1>2. ASSUME f = CHOOSE g : IsMoves(g, range, n, "row", "column"), Completes(f, range, n, "row", "column")
      PROVE  AgreesVertically(range)
  <2>1. f = Moves(range, n, IncVertical)
    BY <1>2, MovesAre
  <2>2. /\ { f[k].position : k \in 0..n } = { a \in Around(range) : Contains(range, a) }
        /\ f[n] = PastEnd(range) /\ \A k \in 0..(n - 1) : ~f[k].end
        /\ IncVertical(range, f[n]) = Threw /\ DecVertical(range, f[0]) = Threw
        /\ \A k \in 1..n : DecVertical(range, f[k]) = f[k - 1]
    BY <1>2, Zenon DEF Completes, IncVertical, DecVertical
  <2> QED
    BY <1>1, <2>1, <2>2, Zenon DEF AgreesVertically, AddressIteratorAgrees
<1>3. ASSUME f = CHOOSE g : IsMoves(g, range, n, "column", "row"), Completes(f, range, n, "column", "row")
      PROVE  AgreesHorizontally(range)
  <2>1. f = Moves(range, n, IncHorizontal)
    BY <1>3, MovesAre
  <2>2. /\ { f[k].position : k \in 0..n } = { a \in Around(range) : Contains(range, a) }
        /\ f[n] = PastEnd(range) /\ \A k \in 0..(n - 1) : ~f[k].end
        /\ IncHorizontal(range, f[n]) = Threw /\ DecHorizontal(range, f[0]) = Threw
        /\ \A k \in 1..n : DecHorizontal(range, f[k]) = f[k - 1]
    BY <1>3, Zenon DEF Completes, IncHorizontal, DecHorizontal
  <2> QED
    BY <1>1, <2>1, <2>2, Zenon DEF AgreesHorizontally, AddressIteratorAgrees
<1> QED
  BY <1>2, <1>3, Zenon

LEMMA AddressIteratorsAgree ==
  ASSUME NEW range \in CellRanges, ValidRange(range)
  PROVE  AgreesVertically(range) /\ AgreesHorizontally(range)
<1>1. PICK n \in Nat \ {0} : n = Extent(range)
  BY ExtentIs
<1>2. AreDirections("row", "column") /\ AreDirections("column", "row")
  BY DEF AreDirections
<1>3. ASSUME NEW fast, NEW slow, AreDirections(fast, slow), NEW f, f = CHOOSE g : IsMoves(g, range, n, fast, slow)
      PROVE  Completes(f, range, n, fast, slow)
  <2>0. AreDirections(fast, slow)
    BY <1>3
  <2>1. Came(f, range, n, fast, slow)
    BY <1>1, <1>3, MovesCome
  <2>2. { f[k].position : k \in 0..n } = { a \in Around(range) : Contains(range, a) }
    BY <1>1, <2>0, <2>1, AddressesOfMoves
  <2>3. /\ f[n] = PastEnd(range) /\ \A k \in 0..(n - 1) : ~f[k].end
        /\ Increment(range, f[n], fast, slow) = Threw /\ Decrement(range, f[0], fast, slow) = Threw
        /\ \A k \in 1..n : Decrement(range, f[k], fast, slow) = f[k - 1]
    BY <1>1, <2>0, <2>1, WayBack
  <2> QED
    BY <2>2, <2>3, Zenon DEF Completes
<1>4. PICK f : f = CHOOSE g : IsMoves(g, range, n, "row", "column")
  OBVIOUS
<1>5. PICK h : h = CHOOSE g : IsMoves(g, range, n, "column", "row")
  OBVIOUS
<1>6. Completes(f, range, n, "row", "column") /\ Completes(h, range, n, "column", "row")
  BY <1>2, <1>3, <1>4, <1>5, Zenon
<1>7. AgreesVertically(range)
  BY <1>1, <1>4, <1>6, AgreesIs, Zenon
<1>8. AgreesHorizontally(range)
  BY <1>1, <1>5, <1>6, AgreesIs, Zenon
<1> QED
  BY <1>7, <1>8

-----------------------------------------------------------------------------
(* Iterators over cells.                                                     *)

LEMMA QuotientIs ==
  ASSUME NEW W \in Nat \ {0}, NEW q \in Int, NEW t \in 0..(W - 1), NEW x \in Nat, x = W * q + t
  PROVE  q = x \div W /\ t = x % W
OBVIOUS

IsQuotient(x, W, q, t) ==
  x \in Nat /\ W \in Nat \ {0} /\ q \in Int /\ t \in 0..(W - 1) /\ x = W * q + t

LEMMA QuotientOf ==
  ASSUME NEW x, NEW W, NEW q, NEW t, IsQuotient(x, W, q, t)
  PROVE  q = x \div W /\ t = x % W
<1>1. x \in Nat /\ W \in Nat \ {0} /\ q \in Int /\ t \in 0..(W - 1) /\ x = W * q + t
  BY Zenon DEF IsQuotient
<1> QED
  BY <1>1, QuotientIs

LEMMA DividesUp ==
  ASSUME NEW W \in Nat \ {0}, NEW x \in Nat, NEW H \in Nat, x < W * H
  PROVE  x \div W \in 0..(H - 1) /\ x % W \in 0..(W - 1)
<1>1. x \div W \in Nat
  OBVIOUS
<1>2. x % W \in 0..(W - 1)
  OBVIOUS
<1>3. x \div W < H
  OBVIOUS
<1> QED
  BY <1>1, <1>2, <1>3

LEMMA DividedIs ==
  ASSUME NEW W \in Nat \ {0}, NEW x \in Nat, NEW q \in Nat, q = x \div W, NEW t \in Nat, t = x % W
  PROVE  x = W * q + t
OBVIOUS

\* What comes next in a row, and in the first place of the next row.
LEMMA DividesNext ==
  ASSUME NEW W \in Nat \ {0}, NEW x \in Nat, NEW H \in Nat, x < W * H, NEW y, y = x + 1
  PROVE  \/ y \div W = x \div W /\ y % W = (x % W) + 1
         \/ y \div W = (x \div W) + 1 /\ y % W = 0
<1>1. PICK q \in Nat : q = x \div W
  BY DividesUp
<1>2. PICK t \in 0..(W - 1) : t = x % W
  BY DividesUp
<1>3. t \in Nat /\ x = W * q + t
  BY <1>1, <1>2, DividedIs
<1>4. CASE t < W - 1
  <2>1. PICK u \in 0..(W - 1) : u = t + 1
    BY <1>4
  <2>2. y = W * q + u /\ y \in Nat
    BY <1>3, <2>1
  <2>3. q = y \div W /\ u = y % W
    BY <2>1, <2>2, QuotientIs
  <2> QED
    BY <1>1, <1>2, <2>1, <2>3
<1>5. CASE ~(t < W - 1)
  <2>1. t = W - 1
    BY <1>2, <1>5
  <2>2. PICK p \in Nat : p = q + 1
    OBVIOUS
  <2>3. y = W * p + 0 /\ y \in Nat /\ 0 \in 0..(W - 1)
    BY <1>3, <2>1, <2>2
  <2>4. p = y \div W /\ 0 = y % W
    BY <2>3, QuotientIs
  <2> QED
    BY <1>1, <2>2, <2>4
<1> QED
  BY <1>4, <1>5

LEMMA CellsInAre ==
  ASSUME NEW sheet, NEW R, NEW C, NEW x
  PROVE  x \in CellsIn(sheet, R, C) <=> \E r \in R, c \in C : x = CellAt(sheet, r, c)
BY SMT DEF CellsIn

LEMMA CellIsAt ==
  ASSUME NEW sheet, NEW r, NEW c
  PROVE  CellAt(sheet, r, c).row = r /\ CellAt(sheet, r, c).column = c
BY DEF CellAt

\* Going through them row by row or column by column.
SweepsRows(list, set)    == Sweeps(list, set, ByRow)
SweepsColumns(list, set) == Sweeps(list, set, ByColumn)

Lists(list, set, n) ==
  /\ DOMAIN list = 1..n /\ Len(list) = n
  /\ \A k \in 1..n : list[k] \in set
  /\ \A x \in set : \E k \in 1..n : x = list[k]
InRows(list, n)    == \A k \in 1..(n - 1) : ByRow(list[k], list[k + 1])
InColumns(list, n) == \A k \in 1..(n - 1) : ByColumn(list[k], list[k + 1])

LEMMA SweepIs ==
  ASSUME NEW list, NEW set, NEW n \in Nat, Lists(list, set, n)
  PROVE  /\ InRows(list, n) => SweepsRows(list, set)
         /\ InColumns(list, n) => SweepsColumns(list, set)
<1>1. { list[k] : k \in DOMAIN list } = set /\ Len(list) = n
  BY DEF Lists
<1>2. InRows(list, n) => SweepsRows(list, set)
  BY <1>1, Zenon DEF SweepsRows, Sweeps, InRows
<1>3. InColumns(list, n) => SweepsColumns(list, set)
  BY <1>1, Zenon DEF SweepsColumns, Sweeps, InColumns
<1> QED
  BY <1>2, <1>3

LEMMA RowsSwept ==
  ASSUME NEW sheet, NEW r1 \in Nat, NEW c1 \in Nat, NEW W \in Nat, NEW H \in Nat, NEW n, n = W * H,
         NEW list, list = [k \in 1..n |-> CellAt(sheet, r1 + ((k - 1) \div W), c1 + ((k - 1) % W))],
         NEW set, set = CellsIn(sheet, r1..(r1 + H - 1), c1..(c1 + W - 1))
  PROVE  SweepsRows(list, set)
<1>1. n \in Nat
  OBVIOUS
<1>2. DOMAIN list = 1..n /\ Len(list) = n
  <2>1. \A k \in 1..n : list[k] = CellAt(sheet, r1 + ((k - 1) \div W), c1 + ((k - 1) % W))
    OBVIOUS
  <2>2. DOMAIN list = 1..n /\ list = [k \in 1..n |-> list[k]]
    BY <2>1
  <2> QED
    BY <1>1, <2>2, LengthOf
<1>3. ASSUME NEW k \in 1..n
      PROVE  \E x \in Nat, q \in 0..(H - 1), t \in 0..(W - 1) :
               /\ x = k - 1 /\ x < W * H /\ q = x \div W /\ t = x % W /\ W \in Nat \ {0}
               /\ list[k] = CellAt(sheet, r1 + q, c1 + t)
  <2>1. PICK x \in Nat : x = k - 1 /\ x < W * H
    BY <1>1
  <2>2. W # 0
    BY <2>1
  <2>3. x \div W \in 0..(H - 1) /\ x % W \in 0..(W - 1)
    BY <2>1, <2>2, DividesUp
  <2>4. list[k] = CellAt(sheet, r1 + (x \div W), c1 + (x % W))
    BY <2>1
  <2> QED
    BY <2>1, <2>2, <2>3, <2>4
<1>4. ASSUME NEW k \in 1..n PROVE list[k] \in set
  <2>1. PICK q \in 0..(H - 1), t \in 0..(W - 1) : list[k] = CellAt(sheet, r1 + q, c1 + t)
    BY <1>3
  <2>2. r1 + q \in r1..(r1 + H - 1) /\ c1 + t \in c1..(c1 + W - 1)
    BY <2>1
  <2> QED
    BY <2>1, <2>2, CellsInAre
<1>5. ASSUME NEW e \in set PROVE \E k \in 1..n : e = list[k]
  <2>1. PICK r \in r1..(r1 + H - 1), c \in c1..(c1 + W - 1) : e = CellAt(sheet, r, c)
    BY CellsInAre
  <2>2. PICK q \in 0..(H - 1) : r = r1 + q
    BY <2>1
  <2>3. PICK t \in 0..(W - 1) : c = c1 + t
    BY <2>1
  <2>4. W \in Nat \ {0} /\ q \in Nat /\ t \in Nat /\ W * q \in Nat /\ q + 1 <= H
    BY <2>2, <2>3
  <2>5. PICK x \in Nat : x = W * q + t
    <3>1. PICK z \in Nat : z = W * q
      BY <2>4
    <3>2. z + t \in Nat
      BY <2>4
    <3> QED
      BY <3>1, <3>2
  <2>6. x < W * H
    <3>1. (q + 1) * W <= H * W
      BY <2>4, TimesMonotone
    <3>2. (q + 1) * W = W * q + W /\ H * W = W * H /\ W * q \in Int /\ W * H \in Int
      BY <2>4
    <3>3. t < W /\ t \in Int
      BY <2>3, <2>4
    <3>4. PICK z \in Int : z = W * q
      BY <3>2
    <3>5. PICK v \in Int : v = W * H
      BY <3>2
    <3>6. z + W <= v /\ x = z + t
      BY <2>5, <3>1, <3>2, <3>4, <3>5
    <3>7. x < v
      BY <3>3, <3>6
    <3> QED
      BY <3>5, <3>7
  <2>7. q = x \div W /\ t = x % W
    <3>1. q \in Int /\ t \in 0..(W - 1) /\ W \in Nat \ {0} /\ x \in Nat /\ x = W * q + t
      BY <2>3, <2>4, <2>5
    <3>2. IsQuotient(x, W, q, t)
      BY <3>1, Zenon DEF IsQuotient
    <3> QED
      BY <3>2, QuotientOf
  <2>8. PICK k \in 1..n : k = x + 1 /\ k - 1 = x
    BY <2>6
  <2>9. list[k] = CellAt(sheet, r1 + ((k - 1) \div W), c1 + ((k - 1) % W))
    BY <2>8
  <2> QED
    BY <2>1, <2>2, <2>3, <2>7, <2>8, <2>9
<1>6. ASSUME NEW k \in 1..(n - 1) PROVE ByRow(list[k], list[k + 1])
  <2>1. k \in 1..n /\ k + 1 \in 1..n
    BY <1>1
  <2>2. PICK x \in Nat, q \in 0..(H - 1), t \in 0..(W - 1) :
               /\ x = k - 1 /\ x < W * H /\ q = x \div W /\ t = x % W /\ W \in Nat \ {0}
               /\ list[k] = CellAt(sheet, r1 + q, c1 + t)
    BY <1>3, <2>1
  <2>3. PICK y \in Nat, p \in 0..(H - 1), u \in 0..(W - 1) :
               /\ y = (k + 1) - 1 /\ p = y \div W /\ u = y % W
               /\ list[k + 1] = CellAt(sheet, r1 + p, c1 + u)
    BY <1>3, <2>1
  <2>4. y = x + 1
    BY <2>2, <2>3
  <2>5. (p = q /\ u = t + 1) \/ (p = q + 1 /\ u = 0)
    BY <2>2, <2>3, <2>4, DividesNext
  <2>6. /\ list[k].row = r1 + q /\ list[k].column = c1 + t
        /\ list[k + 1].row = r1 + p /\ list[k + 1].column = c1 + u
    BY <2>2, <2>3, CellIsAt
  <2>7. q \in Nat /\ p \in Nat /\ t \in Nat /\ u \in Nat
    BY <2>2, <2>3
  <2>8. r1 + q < r1 + p \/ (r1 + q = r1 + p /\ c1 + t < c1 + u)
    BY <2>5, <2>7
  <2> QED
    BY <2>6, <2>8 DEF ByRow
<1>7. Lists(list, set, n) /\ InRows(list, n)
  BY <1>2, <1>4, <1>5, <1>6, Zenon DEF Lists, InRows
<1> QED
  BY <1>1, <1>7, SweepIs

\* The bounds that are asked for in one direction.
Lower(valid, v, unset)       == IF valid THEN Bound(v, unset, 0) ELSE 0
Upper(valid, v, unset, last) == IF valid THEN Bound(v, unset, last) ELSE last

IsAxis(lo, hi, last) ==
  /\ lo \in Nat /\ hi \in Nat /\ last \in Nat
  /\ lo <= hi + 1 /\ (hi > last => lo <= hi)

LEMMA AxisIs ==
  ASSUME NEW valid, NEW last \in Nat, NEW unset \in Nat,
         NEW v1 \in (0..(last + 1)) \cup {unset}, NEW v2 \in (0..(last + 1)) \cup {unset},
         valid => unset \in {v1, v2} \/ v1 <= v2
  PROVE  IsAxis(Lower(valid, v1, unset), Upper(valid, v2, unset, last), last)
<1>1. PICK lo : lo = Lower(valid, v1, unset)
  OBVIOUS
<1>2. PICK hi : hi = Upper(valid, v2, unset, last)
  OBVIOUS
<1>3. CASE valid
  <2>1. lo = (IF v1 = unset THEN 0 ELSE v1) /\ hi = (IF v2 = unset THEN last ELSE v2)
    BY <1>1, <1>2, <1>3 DEF Lower, Upper, Bound
  <2>2. /\ v1 \in Nat /\ (v1 = unset \/ v1 <= last + 1)
        /\ v2 \in Nat /\ (v2 = unset \/ v2 <= last + 1)
    OBVIOUS
  <2>3. v1 = unset \/ v2 = unset \/ v1 <= v2
    BY <1>3
  <2>4. lo \in Nat /\ hi \in Nat
    BY <2>1, <2>2
  <2>5. lo <= hi + 1
    BY <2>1, <2>2, <2>3
  <2>6. hi > last => lo <= hi
    BY <2>1, <2>2, <2>3
  <2> QED
    BY <1>1, <1>2, <2>4, <2>5, <2>6 DEF IsAxis
<1>4. CASE ~valid
  <2>1. lo = 0 /\ hi = last
    BY <1>1, <1>2, <1>4 DEF Lower, Upper
  <2> QED
    BY <1>1, <1>2, <2>1 DEF IsAxis
<1> QED
  BY <1>3, <1>4

LEMMA AxisFacts ==
  ASSUME NEW lo, NEW hi, NEW last, IsAxis(lo, hi, last)
  PROVE  /\ ~((lo..hi) \subseteq 0..last) <=> hi > last
         /\ ~(hi > last) => (lo..hi) \cap (0..last) = lo..hi
         /\ (lo..hi) \cap (0..last) = lo..Least(hi, last)
         /\ (lo..hi) \cap (0..last) # {} => lo <= Least(hi, last)
         /\ Least(hi, last) \in Nat
<1>1. lo \in Nat /\ hi \in Nat /\ last \in Nat
  BY DEF IsAxis
<1>2. Least(hi, last) \in Nat /\ Least(hi, last) <= hi /\ Least(hi, last) <= last
      /\ (Least(hi, last) = hi \/ Least(hi, last) = last)
  BY <1>1 DEF Least
<1>3. (lo..hi) \cap (0..last) = lo..Least(hi, last)
  BY <1>1, <1>2
<1>4. (lo..hi) \cap (0..last) # {} => lo <= Least(hi, last)
  BY <1>1, <1>2, <1>3
<1>5. ~(hi > last) => (lo..hi) \cap (0..last) = lo..hi
  BY <1>1
<1>6. ~((lo..hi) \subseteq 0..last) <=> hi > last
  <2>1. ASSUME hi > last PROVE ~((lo..hi) \subseteq 0..last)
    <3>1. hi \in lo..hi /\ hi \notin 0..last
      BY <1>1, <2>1 DEF IsAxis
    <3> QED
      BY <3>1
  <2>2. ASSUME ~(hi > last) PROVE (lo..hi) \subseteq 0..last
    BY <1>1, <2>2
  <2> QED
    BY <2>1, <2>2
<1> QED
  BY <1>2, <1>3, <1>4, <1>5, <1>6

\* The horizontal iterator.
LEMMA HorizontalIs ==
  ASSUME NEW sheet, NEW range, NEW valid, valid <=> ValidRcRange(range),
         NEW lr, lr = Lower(valid, range.first.row, RowUnset),
         NEW hr, hr = Upper(valid, range.last.row, RowUnset, LastRow(sheet)),
         NEW lc, lc = Lower(valid, range.first.column, ColumnUnset),
         NEW hc, hc = Upper(valid, range.last.column, ColumnUnset, LastColumn(sheet))
  PROVE  HorizontalCells(sheet, range) =
           IF sheet = << >> THEN << >>
           ELSE IF lc > hc THEN Undefined
           ELSE IF hc > LastColumn(sheet) THEN Threw
           ELSE IF lr > hr THEN Undefined
           ELSE IF hr > LastRow(sheet) THEN Threw
           ELSE [k \in 1..((hc - lc + 1) * (hr - lr + 1)) |->
                   CellAt(sheet, lr + ((k - 1) \div (hc - lc + 1)), lc + ((k - 1) % (hc - lc + 1)))]
<1>1. /\ lr = IF ValidRcRange(range) THEN Bound(range.first.row, RowUnset, 0) ELSE 0
      /\ hr = IF ValidRcRange(range) THEN Bound(range.last.row, RowUnset, LastRow(sheet)) ELSE LastRow(sheet)
      /\ lc = IF ValidRcRange(range) THEN Bound(range.first.column, ColumnUnset, 0) ELSE 0
      /\ hc = IF ValidRcRange(range) THEN Bound(range.last.column, ColumnUnset, LastColumn(sheet)) ELSE LastColumn(sheet)
  BY DEF Lower, Upper
<1> QED
  BY <1>1, Zenon DEF HorizontalCells

\* The list of the cells of a block, row by row.
IsRowList(list, sheet, r1, c1, W, H) ==
  list = [k \in 1..(W * H) |-> CellAt(sheet, r1 + ((k - 1) \div W), c1 + ((k - 1) % W))]
IsBlock(set, sheet, r1, c1, W, H) == set = CellsIn(sheet, r1..(r1 + H - 1), c1..(c1 + W - 1))

LEMMA RowListSweeps ==
  ASSUME NEW sheet, NEW r1 \in Nat, NEW c1 \in Nat, NEW W \in Nat, NEW H \in Nat,
         NEW list, IsRowList(list, sheet, r1, c1, W, H), NEW set, IsBlock(set, sheet, r1, c1, W, H)
  PROVE  SweepsRows(list, set)
<1>1. PICK n : n = W * H
  OBVIOUS
<1>2. list = [k \in 1..n |-> CellAt(sheet, r1 + ((k - 1) \div W), c1 + ((k - 1) % W))]
  BY <1>1, Zenon DEF IsRowList
<1>3. set = CellsIn(sheet, r1..(r1 + H - 1), c1..(c1 + W - 1))
  BY Zenon DEF IsBlock
<1> QED
  BY <1>1, <1>2, <1>3, RowsSwept

LEMMA HorizontalSweeps ==
  ASSUME NEW sheet, NEW range, NEW valid, valid <=> ValidRcRange(range),
         NEW lr, lr = Lower(valid, range.first.row, RowUnset),
         NEW hr, hr = Upper(valid, range.last.row, RowUnset, LastRow(sheet)),
         NEW lc, lc = Lower(valid, range.first.column, ColumnUnset),
         NEW hc, hc = Upper(valid, range.last.column, ColumnUnset, LastColumn(sheet)),
         IsAxis(lr, hr, LastRow(sheet)), IsAxis(lc, hc, LastColumn(sheet)),
         sheet # << >>, ~(lr > hr), ~(lc > hc), ~(hr > LastRow(sheet)), ~(hc > LastColumn(sheet))
  PROVE  SweepsRows(HorizontalCells(sheet, range), CellsIn(sheet, lr..hr, lc..hc))
<1>1. PICK list : list = HorizontalCells(sheet, range)
  OBVIOUS
<1>2. lr \in Nat /\ hr \in Nat /\ lc \in Nat /\ hc \in Nat /\ lr <= hr + 1 /\ lc <= hc + 1
  BY DEF IsAxis
<1>a. \A lo, hi \in Nat : lo <= hi + 1 => hi - lo + 1 \in Nat /\ lo + (hi - lo + 1) - 1 = hi
  OBVIOUS
<1>b. /\ hc - lc + 1 \in Nat /\ lc + (hc - lc + 1) - 1 = hc
      /\ hr - lr + 1 \in Nat /\ lr + (hr - lr + 1) - 1 = hr
  BY <1>2, <1>a
<1>3. PICK W \in Nat : W = hc - lc + 1 /\ lc + W - 1 = hc
  BY <1>b, Zenon
<1>4. PICK H \in Nat : H = hr - lr + 1 /\ lr + H - 1 = hr
  BY <1>b, Zenon
<1>6. list = [k \in 1..((hc - lc + 1) * (hr - lr + 1)) |->
                CellAt(sheet, lr + ((k - 1) \div (hc - lc + 1)), lc + ((k - 1) % (hc - lc + 1)))]
  BY <1>1, HorizontalIs
<1>7. IsRowList(list, sheet, lr, lc, W, H)
  BY <1>3, <1>4, <1>6, Zenon DEF IsRowList
<1>8. PICK set : set = CellsIn(sheet, lr..hr, lc..hc)
  OBVIOUS
<1>9. IsBlock(set, sheet, lr, lc, W, H)
  BY <1>3, <1>4, <1>8, Zenon DEF IsBlock
<1>10. SweepsRows(list, set)
  BY <1>2, <1>7, <1>9, RowListSweeps
<1> QED
  BY <1>1, <1>8, <1>10

\* The vertical iterator.
Spot(c, r, end, first, last) == [column |-> c, end |-> end, row |-> r, first |-> first, last |-> last]
Spots(end, first, last) == [column : 0..end, end : {end}, row : 0..last, first : {first}, last : {last}]

LEMMA SpotFacts ==
  ASSUME NEW c, NEW r, NEW end, NEW first, NEW last
  PROVE  /\ Spot(c, r, end, first, last).column = c /\ Spot(c, r, end, first, last).row = r
         /\ Has(Spot(c, r, end, first, last)) <=> c # end
BY DEF Spot, Has

LEMMA SpotsAre ==
  ASSUME NEW end, NEW first, NEW last, NEW d
  PROVE  d \in Spots(end, first, last) <=> \E c \in 0..end, r \in 0..last : d = Spot(c, r, end, first, last)
<1>1. ASSUME d \in Spots(end, first, last)
      PROVE  \E c \in 0..end, r \in 0..last : d = Spot(c, r, end, first, last)
  <2>1. d.column \in 0..end /\ d.row \in 0..last /\ d = Spot(d.column, d.row, end, first, last)
    BY <1>1 DEF Spots, Spot
  <2> QED
    BY <2>1
<1>2. ASSUME NEW c \in 0..end, NEW r \in 0..last, d = Spot(c, r, end, first, last)
      PROVE  d \in Spots(end, first, last)
  BY <1>2 DEF Spots, Spot
<1> QED
  BY <1>1, <1>2

LEMMA NextSpot ==
  ASSUME NEW c, NEW r, NEW end, NEW first, NEW last, NEW d, d = Spot(c, r, end, first, last)
  PROVE  /\ r < last => NextVertical(d) = Spot(c, r + 1, end, first, last)
         /\ ~(r < last) => NextVertical(d) = Spot(c + 1, first, end, first, last)
BY DEF Spot, NextVertical

IsVertical(f, sheet, D) ==
  f = [it \in D |-> IF Has(it) THEN << CellAt(sheet, it.row, it.column) >> \o f[NextVertical(it)] ELSE << >>]

LEMMA VerticalIs ==
  ASSUME NEW sheet, NEW range, NEW start, start = StartVertical(sheet, range), start.row # Undefined
  PROVE  VerticalCells(sheet, range) = (CHOOSE f : IsVertical(f, sheet, PlacesFrom(start)))[start]
BY Zenon DEF VerticalCells, IsVertical

LEMMA SpotsOfStart ==
  ASSUME NEW c, NEW r, NEW end, NEW first, NEW last, NEW start, start = Spot(c, r, end, first, last)
  PROVE  PlacesFrom(start) = Spots(end, first, last)
BY DEF Spot, Spots, PlacesFrom

\* How far a place is from the end.
Away(d, end, last) == (end - d.column) * (last + 1) + (last - d.row)

LEMMA AwayIs ==
  ASSUME NEW end \in Nat, NEW last \in Nat, NEW first \in 0..last, NEW d \in Spots(end, first, last)
  PROVE  Away(d, end, last) \in 0..(end * (last + 1) + last)
<1>1. PICK c \in 0..end, r \in 0..last : d = Spot(c, r, end, first, last)
  BY SpotsAre
<1>2. Away(d, end, last) = (end - c) * (last + 1) + (last - r)
  <2>1. d.column = c /\ d.row = r
    BY <1>1, SpotFacts
  <2> QED
    BY <2>1 DEF Away
<1>3. PICK a \in Nat : a = end - c /\ a <= end
  BY <1>1
<1>4. a * (last + 1) <= end * (last + 1)
  BY <1>3, TimesMonotone
<1>5. PICK z \in Nat : z = a * (last + 1)
  BY <1>3
<1>6. PICK v \in Nat : v = end * (last + 1)
  OBVIOUS
<1>7. z + (last - r) \in 0..(v + last)
  BY <1>1, <1>4, <1>5, <1>6
<1> QED
  BY <1>2, <1>3, <1>5, <1>6, <1>7

LEMMA NextIsNearer ==
  ASSUME NEW end \in Nat, NEW last \in Nat, NEW first \in 0..last, NEW d \in Spots(end, first, last), Has(d),
         NEW e, e = NextVertical(d)
  PROVE  e \in Spots(end, first, last) /\ Away(e, end, last) < Away(d, end, last)
<1>1. PICK c \in 0..end, r \in 0..last : d = Spot(c, r, end, first, last)
  BY SpotsAre
<1>2. c # end /\ c + 1 \in 0..end
  BY <1>1, SpotFacts
<1>3. Away(d, end, last) = (end - c) * (last + 1) + (last - r)
  <2>1. d.column = c /\ d.row = r
    BY <1>1, SpotFacts
  <2> QED
    BY <2>1 DEF Away
<1>4. CASE r < last
  <2>1. e = Spot(c, r + 1, end, first, last) /\ r + 1 \in 0..last
    BY <1>1, <1>4, NextSpot
  <2>2. e \in Spots(end, first, last)
    BY <1>1, <2>1, SpotsAre
  <2>3. Away(e, end, last) = (end - c) * (last + 1) + (last - (r + 1))
    BY <2>1, SpotFacts DEF Away
  <2>4. PICK z \in Int : z = (end - c) * (last + 1)
    BY <1>1
  <2>5. z + (last - (r + 1)) < z + (last - r)
    BY <1>1
  <2> QED
    BY <1>3, <2>2, <2>3, <2>4, <2>5
<1>5. CASE ~(r < last)
  <2>1. e = Spot(c + 1, first, end, first, last) /\ r = last
    BY <1>1, <1>5, NextSpot
  <2>2. e \in Spots(end, first, last)
    BY <1>2, <2>1, SpotsAre
  <2>3. Away(e, end, last) = (end - (c + 1)) * (last + 1) + (last - first)
    BY <2>1, SpotFacts DEF Away
  <2>4. PICK a \in Int : a = end - (c + 1) /\ end - c = a + 1
    BY <1>1
  <2>5. PICK z \in Int : z = a * (last + 1)
    BY <2>4
  <2>6. (a + 1) * (last + 1) = z + (last + 1)
    BY <2>4, <2>5
  <2>7. Away(d, end, last) = z + (last + 1) + (last - r)
    BY <1>3, <2>4, <2>6
  <2>8. Away(e, end, last) = z + (last - first)
    BY <2>3, <2>4, <2>5
  <2>9. z + (last - first) < z + (last + 1) + (last - r)
    BY <1>1, <2>1
  <2> QED
    BY <2>2, <2>7, <2>8, <2>9
<1> QED
  BY <1>4, <1>5

LEMMA VerticalExists ==
  ASSUME NEW sheet, NEW end \in Nat, NEW last \in Nat, NEW first \in 0..last,
         NEW D, D = Spots(end, first, last)
  PROVE  \E f : IsVertical(f, sheet, D)
<1>1. PICK U : U = { CellAt(sheet, d.row, d.column) : d \in D }
  OBVIOUS
<1>2. PICK X : X = Seq(U)
  OBVIOUS
<1>3. PICK N \in Nat : N = end * (last + 1) + last
  OBVIOUS
<1>4. PICK rk : rk = [d \in D |-> Away(d, end, last)]
  OBVIOUS
<1>5. \A d \in D : Away(d, end, last) \in 0..N
  BY <1>3, AwayIs
<1>6. rk \in [D -> 0..N]
  BY <1>4, <1>5
<1>7. PICK leaf : leaf = { d \in D : ~Has(d) }
  OBVIOUS
<1>8. PICK s : s = [d \in D |-> << >>]
  OBVIOUS
<1>9. s \in [D -> X]
  <2>1. << >> \in X
    BY <1>2
  <2> QED
    BY <1>8, <2>1
<1>10. PICK h : h = [d \in D |-> IF Has(d) THEN NextVertical(d) ELSE d]
  OBVIOUS
<1>11. \A d \in D : Has(d) => NextVertical(d) \in D /\ Away(NextVertical(d), end, last) < Away(d, end, last)
  BY NextIsNearer
<1>12. h \in [D -> D]
  BY <1>10, <1>11
<1>13. PICK g : g = [d \in D |-> [x \in X |-> << CellAt(sheet, d.row, d.column) >> \o x]]
  OBVIOUS
<1>14. ASSUME NEW d \in D, NEW x \in X PROVE << CellAt(sheet, d.row, d.column) >> \o x \in X
  <2>1. CellAt(sheet, d.row, d.column) \in U
    BY <1>1
  <2> QED
    BY <1>2, <2>1, ConsFacts
<1>15. g \in [D -> [X -> X]]
  BY <1>13, <1>14
<1>16. \A d \in D : d \notin leaf => rk[h[d]] < rk[d]
  BY <1>4, <1>7, <1>10, <1>11
<1>17. PICK f : Recurs(f, D, X, leaf, s, h, g)
  BY <1>6, <1>9, <1>12, <1>15, <1>16, RecursionExists
<1>18. f \in [D -> X] /\ \A d \in D : f[d] = IF d \in leaf THEN s[d] ELSE g[d][f[h[d]]]
  BY <1>17 DEF Recurs
<1>19. ASSUME NEW d \in D
       PROVE  f[d] = IF Has(d) THEN << CellAt(sheet, d.row, d.column) >> \o f[NextVertical(d)] ELSE << >>
  <2>1. CASE Has(d)
    <3>1. d \notin leaf /\ h[d] = NextVertical(d) /\ h[d] \in D
      BY <1>7, <1>10, <1>11, <2>1
    <3>2. f[d] = g[d][f[h[d]]] /\ f[h[d]] \in X
      BY <1>18, <3>1
    <3> QED
      BY <1>13, <2>1, <3>1, <3>2
  <2>2. CASE ~Has(d)
    <3>1. d \in leaf /\ s[d] = << >>
      BY <1>7, <1>8, <2>2
    <3> QED
      BY <1>18, <2>2, <3>1
  <2> QED
    BY <2>1, <2>2
<1>20. f = [d \in D |-> IF Has(d) THEN << CellAt(sheet, d.row, d.column) >> \o f[NextVertical(d)] ELSE << >>]
  BY <1>18, <1>19
<1>21. IsVertical(f, sheet, D)
  BY <1>20, Zenon DEF IsVertical
<1> QED
  BY <1>21

\* The cells a vertical iterator has in front of it where it is at a row and a
\* column: the rest of the column, and the columns behind it.
Ahead(c, r, end, first, last, x, y) ==
  /\ c < end
  /\ (x = c /\ y \in r..last) \/ (x \in (c + 1)..(end - 1) /\ y \in first..last)

ListsAhead(v, n, sheet, c, r, end, first, last) ==
  /\ DOMAIN v = 1..n /\ Len(v) = n
  /\ \A k \in 1..n : \E x \in Nat, y \in Nat : Ahead(c, r, end, first, last, x, y) /\ v[k] = CellAt(sheet, y, x)
  /\ \A x \in Nat, y \in Nat : Ahead(c, r, end, first, last, x, y) => \E k \in 1..n : v[k] = CellAt(sheet, y, x)
  /\ InColumns(v, n)
  /\ 1 <= n => v[1] = CellAt(sheet, r, c)

LEMMA AheadBeyond ==
  ASSUME NEW end \in Nat, NEW last \in Nat, NEW first \in 0..last, NEW c \in Nat, NEW r \in 0..last, ~(c < end)
  PROVE  \A sheet : ListsAhead(<< >>, 0, sheet, c, r, end, first, last)
<1>1. \A x, y : ~Ahead(c, r, end, first, last, x, y)
  BY DEF Ahead
<1>2. 1..0 = {} /\ 1..(0 - 1) = {} /\ ~(1 <= 0) /\ DOMAIN << >> = 1..0 /\ Len(<< >>) = 0
  OBVIOUS
<1> QED
  BY <1>1, <1>2, Zenon DEF ListsAhead, InColumns

LEMMA AheadNext ==
  ASSUME NEW end \in Nat, NEW last \in Nat, NEW first \in 0..last, NEW c \in 0..(end - 1), NEW r \in 0..last,
         NEW c2, NEW r2,
         (r < last /\ c2 = c /\ r2 = r + 1) \/ (r = last /\ c2 = c + 1 /\ r2 = first),
         NEW x \in Nat, NEW y \in Nat
  PROVE  Ahead(c, r, end, first, last, x, y) <=> (x = c /\ y = r) \/ Ahead(c2, r2, end, first, last, x, y)
<1>1. CASE r < last /\ c2 = c /\ r2 = r + 1
  BY <1>1 DEF Ahead
<1>2. CASE r = last /\ c2 = c + 1 /\ r2 = first
  BY <1>2 DEF Ahead
<1> QED
  BY <1>1, <1>2

LEMMA GoesOneOn ==
  ASSUME NEW end \in Nat, NEW last \in Nat, NEW first \in 0..last, NEW c \in 0..(end - 1), NEW r \in 0..last,
         NEW c2, NEW r2,
         (r < last /\ c2 = c /\ r2 = r + 1) \/ (r = last /\ c2 = c + 1 /\ r2 = first),
         NEW sheet, NEW e, e = CellAt(sheet, r, c),
         NEW n \in Nat, NEW w, ListsAhead(w, n, sheet, c2, r2, end, first, last),
         NEW X, w \in Seq(X), NEW v \in Seq(X), IsCons(v, e, w)
  PROVE  ListsAhead(v, n + 1, sheet, c, r, end, first, last)
<1>1. /\ Len(v) = n + 1 /\ v[1] = e /\ \A k \in 1..n : v[k + 1] = w[k]
  BY DEF IsCons, ListsAhead
<1>2. DOMAIN v = 1..(n + 1)
  BY <1>1
<1>3. \A x \in Nat, y \in Nat :
        Ahead(c, r, end, first, last, x, y) <=> (x = c /\ y = r) \/ Ahead(c2, r2, end, first, last, x, y)
  BY AheadNext
<1>4. c \in Nat /\ r \in Nat
  OBVIOUS
<1>5. ASSUME NEW k \in 1..(n + 1)
      PROVE  \E x \in Nat, y \in Nat : Ahead(c, r, end, first, last, x, y) /\ v[k] = CellAt(sheet, y, x)
  <2>1. CASE k = 1
    BY <1>1, <1>3, <1>4, <2>1
  <2>2. CASE k # 1
    <3>1. PICK i \in 1..n : k = i + 1
      BY <2>2
    <3>2. PICK x \in Nat, y \in Nat : Ahead(c2, r2, end, first, last, x, y) /\ w[i] = CellAt(sheet, y, x)
      BY <3>1 DEF ListsAhead
    <3> QED
      BY <1>1, <1>3, <3>1, <3>2
  <2> QED
    BY <2>1, <2>2
<1>6. ASSUME NEW x \in Nat, NEW y \in Nat, Ahead(c, r, end, first, last, x, y)
      PROVE  \E k \in 1..(n + 1) : v[k] = CellAt(sheet, y, x)
  <2>1. CASE x = c /\ y = r
    <3>1. 1 \in 1..(n + 1)
      OBVIOUS
    <3> QED
      BY <1>1, <2>1, <3>1
  <2>2. CASE ~(x = c /\ y = r)
    <3>1. Ahead(c2, r2, end, first, last, x, y)
      BY <1>3, <1>6, <2>2
    <3>2. PICK i \in 1..n : w[i] = CellAt(sheet, y, x)
      BY <3>1 DEF ListsAhead
    <3>3. i + 1 \in 1..(n + 1)
      OBVIOUS
    <3> QED
      BY <1>1, <3>2, <3>3
  <2> QED
    BY <2>1, <2>2
<1>7. ASSUME NEW k \in 1..((n + 1) - 1) PROVE ByColumn(v[k], v[k + 1])
  <2>1. CASE k = 1
    <3>1. 1 <= n /\ 1 \in 1..n
      BY <1>7
    <3>2. w[1] = CellAt(sheet, r2, c2) /\ v[1 + 1] = w[1]
      BY <1>1, <3>1 DEF ListsAhead
    <3>3. v[1].column = c /\ v[1].row = r /\ v[1 + 1].column = c2 /\ v[1 + 1].row = r2
      BY <1>1, <3>2, CellIsAt
    <3>4. c < c2 \/ (c = c2 /\ r < r2)
      BY <1>4
    <3> QED
      BY <2>1, <3>3, <3>4 DEF ByColumn
  <2>2. CASE k # 1
    <3>1. PICK i \in 1..(n - 1) : k = i + 1 /\ i \in 1..n /\ i + 1 \in 1..n
      BY <1>7, <2>2
    <3>2. ByColumn(w[i], w[i + 1])
      BY <3>1 DEF ListsAhead, InColumns
    <3>3. v[i + 1] = w[i] /\ v[(i + 1) + 1] = w[i + 1]
      BY <1>1, <3>1
    <3> QED
      BY <3>1, <3>2, <3>3
  <2> QED
    BY <2>1, <2>2
<1>8. InColumns(v, n + 1)
  BY <1>7 DEF InColumns
<1> QED
  BY <1>1, <1>2, <1>5, <1>6, <1>8 DEF ListsAhead

LEMMA VerticalGoesThrough ==
  ASSUME NEW sheet, NEW end \in Nat, NEW last \in Nat, NEW first \in 0..last,
         NEW D, D = Spots(end, first, last), NEW f, IsVertical(f, sheet, D), NEW c0 \in 0..end, NEW r0 \in 0..last
  PROVE  \E n \in Nat : ListsAhead(f[Spot(c0, r0, end, first, last)], n, sheet, c0, r0, end, first, last)
<1>1. \A d \in D : f[d] = IF Has(d) THEN << CellAt(sheet, d.row, d.column) >> \o f[NextVertical(d)] ELSE << >>
  BY Zenon DEF IsVertical
<1>2. PICK U : U = { CellAt(sheet, d.row, d.column) : d \in D }
  OBVIOUS
<1>3. PICK N \in Nat : N = end * (last + 1) + last
  OBVIOUS
<1>4. PICK rk : rk = [d \in D |-> Away(d, end, last)]
  OBVIOUS
<1>5. \A d \in D : Away(d, end, last) \in 0..N
  BY <1>3, AwayIs
<1>6. rk \in [D -> 0..N]
  BY <1>4, <1>5
<1>7. PICK S : S = { d \in D : f[d] \in Seq(U) /\
                       \A c \in 0..end, r \in 0..last : d = Spot(c, r, end, first, last) =>
                         \E n \in Nat : ListsAhead(f[d], n, sheet, c, r, end, first, last) }
  OBVIOUS
<1>8. ASSUME NEW d \in D, \A e \in D : rk[e] < rk[d] => e \in S
      PROVE  d \in S
  <2>1. CASE ~Has(d)
    <3>1. f[d] = << >>
      BY <1>1, <2>1
    <3>2. ASSUME NEW c \in 0..end, NEW r \in 0..last, d = Spot(c, r, end, first, last)
          PROVE  \E n \in Nat : ListsAhead(f[d], n, sheet, c, r, end, first, last)
      <4>1. ~(c < end) /\ c \in Nat
        BY <2>1, <3>2, SpotFacts
      <4>2. ListsAhead(<< >>, 0, sheet, c, r, end, first, last)
        BY <4>1, AheadBeyond
      <4>3. 0 \in Nat
        OBVIOUS
      <4> QED
        BY <3>1, <4>2, <4>3
    <3>3. f[d] \in Seq(U)
      BY <3>1
    <3> QED
      BY <1>7, <3>2, <3>3
  <2>2. CASE Has(d)
    <3>1. PICK e : e = NextVertical(d)
      OBVIOUS
    <3>2. e \in D /\ Away(e, end, last) < Away(d, end, last)
      BY <2>2, <3>1, NextIsNearer
    <3>3. e \in S
      BY <1>4, <1>8, <3>2
    <3>4. PICK w : w = f[e]
      OBVIOUS
    <3>5. PICK x : x = CellAt(sheet, d.row, d.column)
      OBVIOUS
    <3>6. f[d] = << x >> \o w
      BY <1>1, <2>2, <3>1, <3>4, <3>5
    <3>7. w \in Seq(U) /\ x \in U
      BY <1>2, <1>7, <3>3, <3>4, <3>5
    <3>8. PICK v : v = f[d]
      OBVIOUS
    <3>9. v \in Seq(U) /\ IsCons(v, x, w)
      BY <3>6, <3>7, <3>8, ConsFacts
    <3>10. ASSUME NEW c \in 0..end, NEW r \in 0..last, d = Spot(c, r, end, first, last)
           PROVE  \E n \in Nat : ListsAhead(v, n, sheet, c, r, end, first, last)
      <4>1. c # end /\ d.column = c /\ d.row = r
        BY <2>2, <3>10, SpotFacts
      <4>2. c \in 0..(end - 1) /\ c + 1 \in 0..end
        BY <4>1
      <4>3. x = CellAt(sheet, r, c)
        BY <3>5, <4>1
      <4>4. PICK c2 \in 0..end, r2 \in 0..last :
              /\ e = Spot(c2, r2, end, first, last)
              /\ (r < last /\ c2 = c /\ r2 = r + 1) \/ (r = last /\ c2 = c + 1 /\ r2 = first)
        <5>1. CASE r < last
          <6>1. e = Spot(c, r + 1, end, first, last) /\ r + 1 \in 0..last
            BY <3>1, <3>10, <5>1, NextSpot
          <6> QED
            BY <5>1, <6>1
        <5>2. CASE ~(r < last)
          <6>1. e = Spot(c + 1, first, end, first, last) /\ r = last
            BY <3>1, <3>10, <5>2, NextSpot
          <6> QED
            BY <4>2, <6>1
        <5> QED
          BY <5>1, <5>2
      <4>5. PICK n \in Nat : ListsAhead(w, n, sheet, c2, r2, end, first, last)
        BY <1>7, <3>3, <3>4, <4>4
      <4>6. ListsAhead(v, n + 1, sheet, c, r, end, first, last)
        BY <3>7, <3>9, <4>2, <4>3, <4>4, <4>5, GoesOneOn
      <4>7. n + 1 \in Nat
        OBVIOUS
      <4> QED
        BY <4>6, <4>7
    <3> QED
      BY <1>7, <3>8, <3>9, <3>10
  <2> QED
    BY <2>1, <2>2
<1>9. D \subseteq S
  BY <1>6, <1>8, ByMeasure
<1>10. Spot(c0, r0, end, first, last) \in D
  BY SpotsAre
<1> QED
  BY <1>7, <1>9, <1>10

ClippedAt(valid, v, unset, last) == IF valid /\ v # unset THEN Least(v, last) ELSE last

LEMMA ClippedIs ==
  ASSUME NEW valid, NEW v, NEW unset, NEW last \in Nat
  PROVE  ClippedAt(valid, v, unset, last) = Least(Upper(valid, v, unset, last), last)
<1>1. Least(last, last) = last
  BY DEF Least
<1>2. CASE valid /\ v # unset
  BY <1>2 DEF ClippedAt, Upper, Bound
<1>3. CASE ~(valid /\ v # unset)
  <2>1. Upper(valid, v, unset, last) = last
    BY <1>3 DEF Upper, Bound
  <2>2. ClippedAt(valid, v, unset, last) = last
    BY <1>3 DEF ClippedAt
  <2> QED
    BY <1>1, <2>1, <2>2
<1> QED
  BY <1>2, <1>3

LEMMA StartIs ==
  ASSUME NEW sheet, NEW range, NEW valid, valid <=> ValidRcRange(range),
         NEW lr, lr = Lower(valid, range.first.row, RowUnset),
         NEW er, er = ClippedAt(valid, range.last.row, RowUnset, LastRow(sheet)),
         NEW lc, lc = Lower(valid, range.first.column, ColumnUnset),
         NEW ec, ec = ClippedAt(valid, range.last.column, ColumnUnset, LastColumn(sheet)),
         ~(lc > ec), ~(lr > er)
  PROVE  StartVertical(sheet, range) = Spot(lc, lr, ec + 1, lr, er)
<1>1. /\ lr = IF ValidRcRange(range) THEN Bound(range.first.row, RowUnset, 0) ELSE 0
      /\ er = IF ValidRcRange(range) /\ range.last.row # RowUnset
              THEN Least(range.last.row, LastRow(sheet)) ELSE LastRow(sheet)
      /\ lc = IF ValidRcRange(range) THEN Bound(range.first.column, ColumnUnset, 0) ELSE 0
      /\ ec = IF ValidRcRange(range) /\ range.last.column # ColumnUnset
              THEN Least(range.last.column, LastColumn(sheet)) ELSE LastColumn(sheet)
  BY DEF Lower, ClippedAt
<1>2. PICK whole : whole = [column |-> 0, end |-> ec + 1, row |-> Undefined, first |-> 0, last |-> er]
  OBVIOUS
<1>3. StartVertical(sheet, range) =
        IF lc > ec THEN whole ELSE IF lr > er THEN [whole EXCEPT !.column = lc]
        ELSE [whole EXCEPT !.column = lc, !.row = lr, !.first = lr]
  BY <1>1, <1>2, Zenon DEF StartVertical
<1>4. [whole EXCEPT !.column = lc, !.row = lr, !.first = lr] = Spot(lc, lr, ec + 1, lr, er)
  <2>1. PICK w1 : w1 = [whole EXCEPT !.column = lc]
    OBVIOUS
  <2>2. w1 = [column |-> lc, end |-> ec + 1, row |-> Undefined, first |-> 0, last |-> er]
    BY <1>2, <2>1
  <2>3. PICK w2 : w2 = [w1 EXCEPT !.row = lr]
    OBVIOUS
  <2>4. w2 = [column |-> lc, end |-> ec + 1, row |-> lr, first |-> 0, last |-> er]
    BY <2>2, <2>3
  <2>5. [w2 EXCEPT !.first = lr] = Spot(lc, lr, ec + 1, lr, er)
    BY <2>4 DEF Spot
  <2> QED
    BY <2>1, <2>3, <2>5, Zenon
<1> QED
  BY <1>3, <1>4, Zenon

LEMMA VerticalSweeps ==
  ASSUME Undefined \notin Nat,
         NEW sheet, NEW range, NEW valid, valid <=> ValidRcRange(range),
         NEW lr \in Nat, lr = Lower(valid, range.first.row, RowUnset),
         NEW er \in Nat, er = ClippedAt(valid, range.last.row, RowUnset, LastRow(sheet)),
         NEW lc \in Nat, lc = Lower(valid, range.first.column, ColumnUnset),
         NEW ec \in Nat, ec = ClippedAt(valid, range.last.column, ColumnUnset, LastColumn(sheet)),
         lc <= ec, lr <= er
  PROVE  SweepsColumns(VerticalCells(sheet, range), CellsIn(sheet, lr..er, lc..ec))
<1>1. PICK start : start = Spot(lc, lr, ec + 1, lr, er)
  OBVIOUS
<1>2. start = StartVertical(sheet, range)
  <2>1. ~(lc > ec) /\ ~(lr > er)
    OBVIOUS
  <2> QED
    BY <1>1, <2>1, StartIs
<1>3. start.row # Undefined
  BY <1>1, SpotFacts
<1>4. PICK end \in Nat : end = ec + 1 /\ lc \in 0..end /\ lc < end
  OBVIOUS
<1>5. PICK D : D = Spots(end, lr, er)
  OBVIOUS
<1>6. lr \in 0..er
  OBVIOUS
<1>7. PlacesFrom(start) = D
  BY <1>1, <1>4, <1>5, SpotsOfStart
<1>8. PICK f : f = CHOOSE g : IsVertical(g, sheet, D)
  OBVIOUS
<1>9. IsVertical(f, sheet, D)
  <2>1. \E g : IsVertical(g, sheet, D)
    BY <1>5, <1>6, VerticalExists
  <2> QED
    BY <1>8, <2>1, Zenon
<1>10. PICK list : list = VerticalCells(sheet, range)
  OBVIOUS
<1>11. VerticalCells(sheet, range) = (CHOOSE g : IsVertical(g, sheet, PlacesFrom(start)))[start]
  BY <1>2, <1>3, VerticalIs
<1>12. list = f[start]
  BY <1>7, <1>8, <1>10, <1>11, Zenon
<1>13. start = Spot(lc, lr, end, lr, er)
  BY <1>1, <1>4
<1>14. \E n \in Nat : ListsAhead(f[Spot(lc, lr, end, lr, er)], n, sheet, lc, lr, end, lr, er)
  BY <1>4, <1>5, <1>6, <1>9, VerticalGoesThrough
<1>15. PICK n \in Nat : ListsAhead(list, n, sheet, lc, lr, end, lr, er)
  BY <1>12, <1>13, <1>14, Zenon
<1>16. ASSUME NEW x \in Nat, NEW y \in Nat
       PROVE  Ahead(lc, lr, end, lr, er, x, y) <=> x \in lc..ec /\ y \in lr..er
  BY <1>4 DEF Ahead
<1>17. PICK set : set = CellsIn(sheet, lr..er, lc..ec)
  OBVIOUS
<1>18. ASSUME NEW k \in 1..n PROVE list[k] \in set
  <2>1. PICK x \in Nat, y \in Nat : Ahead(lc, lr, end, lr, er, x, y) /\ list[k] = CellAt(sheet, y, x)
    BY <1>15 DEF ListsAhead
  <2>2. x \in lc..ec /\ y \in lr..er
    BY <1>16, <2>1
  <2>3. PICK e : e = list[k]
    OBVIOUS
  <2>4. \E r \in lr..er, c \in lc..ec : e = CellAt(sheet, r, c)
    BY <2>1, <2>2, <2>3
  <2>5. e \in CellsIn(sheet, lr..er, lc..ec)
    BY <2>4, CellsInAre
  <2> QED
    BY <1>17, <2>3, <2>5
<1>19. ASSUME NEW e \in set PROVE \E k \in 1..n : e = list[k]
  <2>1. PICK y \in lr..er, x \in lc..ec : e = CellAt(sheet, y, x)
    BY <1>17, CellsInAre
  <2>2. x \in Nat /\ y \in Nat /\ Ahead(lc, lr, end, lr, er, x, y)
    BY <1>16, <2>1
  <2>3. PICK k \in 1..n : list[k] = CellAt(sheet, y, x)
    BY <1>15, <2>2 DEF ListsAhead
  <2> QED
    BY <2>1, <2>3
<1>20. Lists(list, set, n) /\ InColumns(list, n)
  BY <1>15, <1>18, <1>19, Zenon DEF Lists, ListsAhead
<1>21. SweepsColumns(list, set)
  BY <1>20, SweepIs
<1> QED
  BY <1>10, <1>17, <1>21

\* What the iterators over cells promise of one range, which asks for the rows R and
\* the columns C.
IteratorsSweep(sheet, range, R, C, cells) ==
  /\ R # {} /\ C # {} =>
       IF R \subseteq 0..LastRow(sheet) /\ C \subseteq 0..LastColumn(sheet)
       THEN SweepsRows(HorizontalCells(sheet, range), cells)
       ELSE HorizontalCells(sheet, range) = Threw
  /\ cells # {} => SweepsColumns(VerticalCells(sheet, range), cells)

AreCells(cells, R, C, sheet) ==
  cells = CellsIn(sheet, R \cap 0..LastRow(sheet), C \cap 0..LastColumn(sheet))

LEMMA IteratorsOfRange ==
  ASSUME Undefined \notin Nat, NEW sheet, sheet # << >>,
         LastRow(sheet) \in Nat, LastColumn(sheet) \in Nat,
         NEW r1 \in (0..(LastRow(sheet) + 1)) \cup {RowUnset}, NEW r2 \in (0..(LastRow(sheet) + 1)) \cup {RowUnset},
         NEW c1 \in (0..(LastColumn(sheet) + 1)) \cup {ColumnUnset},
         NEW c2 \in (0..(LastColumn(sheet) + 1)) \cup {ColumnUnset},
         NEW range, range = SheetRange(r1, r2, c1, c2), NEW valid, valid <=> ValidRcRange(range),
         NEW R, R = Lower(valid, r1, RowUnset)..Upper(valid, r2, RowUnset, LastRow(sheet)),
         NEW C, C = Lower(valid, c1, ColumnUnset)..Upper(valid, c2, ColumnUnset, LastColumn(sheet)),
         NEW cells, AreCells(cells, R, C, sheet)
  PROVE  IteratorsSweep(sheet, range, R, C, cells)
<1> DEFINE beyond == ~(R \subseteq 0..LastRow(sheet) /\ C \subseteq 0..LastColumn(sheet))
           bare   == R = {} \/ C = {}
<1>0. cells = CellsIn(sheet, R \cap 0..LastRow(sheet), C \cap 0..LastColumn(sheet))
  BY Zenon DEF AreCells
<1>1. PICK LR \in Nat : LR = LastRow(sheet)
  OBVIOUS
<1>2. PICK LC \in Nat : LC = LastColumn(sheet)
  OBVIOUS
<1>3. /\ range.first.row = r1 /\ range.last.row = r2 /\ range.first.column = c1 /\ range.last.column = c2
  BY DEF SheetRange
<1>4. RowUnset \in Nat /\ ColumnUnset \in Nat
  BY UnsetAssumption
<1>5. valid => (RowUnset \in {r1, r2} \/ r1 <= r2) /\ (ColumnUnset \in {c1, c2} \/ c1 <= c2)
  BY <1>3 DEF ValidRcRange
<1>6. PICK lr : lr = Lower(valid, r1, RowUnset)
  OBVIOUS
<1>7. PICK hr : hr = Upper(valid, r2, RowUnset, LR)
  OBVIOUS
<1>8. PICK lc : lc = Lower(valid, c1, ColumnUnset)
  OBVIOUS
<1>9. PICK hc : hc = Upper(valid, c2, ColumnUnset, LC)
  OBVIOUS
<1>10. IsAxis(lr, hr, LR)
  BY <1>1, <1>4, <1>5, <1>6, <1>7, AxisIs
<1>11. IsAxis(lc, hc, LC)
  BY <1>2, <1>4, <1>5, <1>8, <1>9, AxisIs
<1>12. R = lr..hr /\ C = lc..hc
  BY <1>1, <1>2, <1>6, <1>7, <1>8, <1>9
<1>13. /\ ~(R \subseteq 0..LR) <=> hr > LR
       /\ ~(hr > LR) => R \cap (0..LR) = R
       /\ R \cap (0..LR) = lr..Least(hr, LR)
       /\ R \cap (0..LR) # {} => lr <= Least(hr, LR)
       /\ Least(hr, LR) \in Nat
  <2>1. /\ ~((lr..hr) \subseteq 0..LR) <=> hr > LR
        /\ ~(hr > LR) => (lr..hr) \cap (0..LR) = lr..hr
        /\ (lr..hr) \cap (0..LR) = lr..Least(hr, LR)
        /\ (lr..hr) \cap (0..LR) # {} => lr <= Least(hr, LR)
        /\ Least(hr, LR) \in Nat
    BY <1>10, AxisFacts
  <2> QED
    BY <1>12, <2>1
<1>14. /\ ~(C \subseteq 0..LC) <=> hc > LC
       /\ ~(hc > LC) => C \cap (0..LC) = C
       /\ C \cap (0..LC) = lc..Least(hc, LC)
       /\ C \cap (0..LC) # {} => lc <= Least(hc, LC)
       /\ Least(hc, LC) \in Nat
  <2>1. /\ ~((lc..hc) \subseteq 0..LC) <=> hc > LC
        /\ ~(hc > LC) => (lc..hc) \cap (0..LC) = lc..hc
        /\ (lc..hc) \cap (0..LC) = lc..Least(hc, LC)
        /\ (lc..hc) \cap (0..LC) # {} => lc <= Least(hc, LC)
        /\ Least(hc, LC) \in Nat
    BY <1>11, AxisFacts
  <2> QED
    BY <1>12, <2>1
<1>15. /\ lr = Lower(valid, range.first.row, RowUnset)
       /\ hr = Upper(valid, range.last.row, RowUnset, LastRow(sheet))
       /\ lc = Lower(valid, range.first.column, ColumnUnset)
       /\ hc = Upper(valid, range.last.column, ColumnUnset, LastColumn(sheet))
  BY <1>1, <1>2, <1>3, <1>6, <1>7, <1>8, <1>9
<1>a. beyond <=> hr > LR \/ hc > LC
  BY <1>1, <1>2, <1>13, <1>14
<1>b. ASSUME ~bare PROVE ~(lr > hr) /\ ~(lc > hc)
  <2>1. lr \in Nat /\ hr \in Nat /\ lc \in Nat /\ hc \in Nat
    BY <1>10, <1>11 DEF IsAxis
  <2>2. PICK x, y : x \in lr..hr /\ y \in lc..hc
    BY <1>12, <1>b, Zenon
  <2>3. lr <= x /\ x <= hr /\ x \in Int /\ lc <= y /\ y <= hc /\ y \in Int
    BY <2>1, <2>2
  <2> QED
    BY <2>1, <2>3
<1> HIDE DEF beyond, bare
<1>16. /\ beyond <=> hr > LR \/ hc > LC
       /\ ~bare => ~(lr > hr) /\ ~(lc > hc)
  BY <1>a, <1>b
<1>17. ASSUME beyond, ~bare PROVE HorizontalCells(sheet, range) = Threw
  <2>1. /\ hc > LastColumn(sheet) \/ hr > LastRow(sheet)
        /\ ~(lr > hr) /\ ~(lc > hc)
    BY <1>1, <1>2, <1>16, <1>17
  <2>2. HorizontalCells(sheet, range) =
           IF sheet = << >> THEN << >>
           ELSE IF lc > hc THEN Undefined
           ELSE IF hc > LastColumn(sheet) THEN Threw
           ELSE IF lr > hr THEN Undefined
           ELSE IF hr > LastRow(sheet) THEN Threw
           ELSE [k \in 1..((hc - lc + 1) * (hr - lr + 1)) |->
                   CellAt(sheet, lr + ((k - 1) \div (hc - lc + 1)), lc + ((k - 1) % (hc - lc + 1)))]
    BY <1>15, HorizontalIs
  <2> QED
    BY <2>1, <2>2, Zenon
<1>18. ASSUME ~beyond, ~bare PROVE SweepsRows(HorizontalCells(sheet, range), cells)
  <2>1. /\ ~(hr > LastRow(sheet)) /\ ~(hc > LastColumn(sheet))
        /\ ~(lr > hr) /\ ~(lc > hc)
    BY <1>1, <1>2, <1>16, <1>18
  <2>2. R \cap (0..LR) = lr..hr /\ C \cap (0..LC) = lc..hc
    BY <1>1, <1>2, <1>12, <1>13, <1>14, <2>1
  <2>3. cells = CellsIn(sheet, lr..hr, lc..hc)
    BY <1>0, <1>1, <1>2, <2>2, Zenon
  <2>4. IsAxis(lr, hr, LastRow(sheet)) /\ IsAxis(lc, hc, LastColumn(sheet))
    BY <1>1, <1>2, <1>10, <1>11
  <2>5. SweepsRows(HorizontalCells(sheet, range), CellsIn(sheet, lr..hr, lc..hc))
    BY <1>15, <2>1, <2>4, HorizontalSweeps
  <2> QED
    BY <2>3, <2>5
<1>19. ASSUME cells # {} PROVE SweepsColumns(VerticalCells(sheet, range), cells)
  <2>1. PICK er \in Nat : er = Least(hr, LR)
    BY <1>13
  <2>2. PICK ec \in Nat : ec = Least(hc, LC)
    BY <1>14
  <2>3. cells = CellsIn(sheet, lr..er, lc..ec)
    BY <1>0, <1>1, <1>2, <1>13, <1>14, <2>1, <2>2, Zenon
  <2>4. lr <= er /\ lc <= ec
    <3>1. PICK x : x \in CellsIn(sheet, R \cap 0..LastRow(sheet), C \cap 0..LastColumn(sheet))
      BY <1>0, <1>19
    <3>2. \E r \in R \cap 0..LastRow(sheet), c \in C \cap 0..LastColumn(sheet) : x = CellAt(sheet, r, c)
      BY <3>1, CellsInAre
    <3>3. R \cap (0..LR) # {} /\ C \cap (0..LC) # {}
      BY <1>1, <1>2, <3>2
    <3> QED
      BY <1>13, <1>14, <2>1, <2>2, <3>3
  <2>5. er = ClippedAt(valid, range.last.row, RowUnset, LastRow(sheet))
    BY <1>1, <1>15, <2>1, ClippedIs
  <2>6. ec = ClippedAt(valid, range.last.column, ColumnUnset, LastColumn(sheet))
    BY <1>2, <1>15, <2>2, ClippedIs
  <2>7. lr \in Nat /\ lc \in Nat
    BY <1>10, <1>11 DEF IsAxis
  <2>8. SweepsColumns(VerticalCells(sheet, range), CellsIn(sheet, lr..er, lc..ec))
    BY <1>15, <2>4, <2>5, <2>6, <2>7, VerticalSweeps
  <2> QED
    BY <2>3, <2>8
<1> QED
  BY <1>17, <1>18, <1>19, Zenon DEF IteratorsSweep, beyond, bare

LEMMA AskedIs ==
  ASSUME NEW valid, NEW lo, NEW hi, NEW unset, NEW last
  PROVE  Asked(valid, lo, hi, unset, last) = Lower(valid, lo, unset)..Upper(valid, hi, unset, last)
<1>1. CASE valid
  BY <1>1, Zenon DEF Asked, Lower, Upper
<1>2. CASE ~valid
  BY <1>2, Zenon DEF Asked, Lower, Upper
<1> QED
  BY <1>1, <1>2

SweepsFor(sheet, range) ==
  IteratorsSweep(sheet, range, AskedRows(sheet, range), AskedColumns(sheet, range), AskedCells(sheet, range))

LEMMA SweepsAre ==
  ASSUME NEW sheet, \A range \in AskedRanges(sheet) : SweepsFor(sheet, range)
  PROVE  CellIteratorsAgree(sheet)
BY Zenon DEF CellIteratorsAgree, SweepsFor, IteratorsSweep, SweepsRows, SweepsColumns

LEMMA CellIteratorsSweep ==
  ASSUME Undefined \notin Nat, NEW sheet, sheet # << >>,
         LastRow(sheet) \in Nat, LastColumn(sheet) \in Nat
  PROVE  CellIteratorsAgree(sheet)
<1>1. ASSUME NEW range \in AskedRanges(sheet) PROVE SweepsFor(sheet, range)
  <2>1. PICK r1 \in (0..(LastRow(sheet) + 1)) \cup {RowUnset}, r2 \in (0..(LastRow(sheet) + 1)) \cup {RowUnset},
             c1 \in (0..(LastColumn(sheet) + 1)) \cup {ColumnUnset},
             c2 \in (0..(LastColumn(sheet) + 1)) \cup {ColumnUnset} :
          range = SheetRange(r1, r2, c1, c2)
    BY SMT DEF AskedRanges
  <2>2. PICK valid \in BOOLEAN : valid = ValidRcRange(range)
    BY DEF ValidRcRange
  <2>3. PICK rows : rows = AskedRows(sheet, range)
    OBVIOUS
  <2>4. PICK columns : columns = AskedColumns(sheet, range)
    OBVIOUS
  <2>5. PICK cells : cells = AskedCells(sheet, range)
    OBVIOUS
  <2>6. /\ rows = Asked(valid, r1, r2, RowUnset, LastRow(sheet))
        /\ columns = Asked(valid, c1, c2, ColumnUnset, LastColumn(sheet))
    BY <2>1, <2>2, <2>3, <2>4, SheetRangeIs DEF AskedRows, AskedColumns
  <2>7. /\ rows = Lower(valid, r1, RowUnset)..Upper(valid, r2, RowUnset, LastRow(sheet))
        /\ columns = Lower(valid, c1, ColumnUnset)..Upper(valid, c2, ColumnUnset, LastColumn(sheet))
    BY <2>6, AskedIs
  <2>8. AreCells(cells, rows, columns, sheet)
    BY <2>3, <2>4, <2>5, Zenon DEF AskedCells, AreCells
  <2>9. valid <=> ValidRcRange(range)
    BY <2>2
  <2>10. IteratorsSweep(sheet, range, rows, columns, cells)
    BY <2>1, <2>7, <2>8, <2>9, IteratorsOfRange
  <2> QED
    BY <2>3, <2>4, <2>5, <2>10, Zenon DEF SweepsFor
<1> QED
  BY <1>1, SweepsAre

\* An address iterator comes to every address of its range and to no other, once and
\* in the order of its direction, ends one past the last, leads back the way it came
\* and throws at both ends, for every valid range (abs_address_iterator).
THEOREM AddressIteratorsComplete ==
  ASSUME NEW range \in CellRanges, ValidRange(range)
  PROVE  /\ AddressIteratorAgrees(range, IncVertical, DecVertical)
         /\ AddressIteratorAgrees(range, IncHorizontal, DecHorizontal)
BY AddressIteratorsAgree, Zenon DEF AgreesVertically, AgreesHorizontally

\* What is asked of the iterators over the cells of every sheet, at any time.
CellIteratorsAgreeEverywhere == \A s \in DOMAIN sheets : CellIteratorsAgree(sheets[s])

\* The iterators over cells come to every cell of the range once, column by column or
\* row by row, whether its bounds are unset, unordered or beyond the sheet (where the
\* horizontal one throws), for every range that asks for some row and some column, on
\* every sheet and after any operations (model_iterator); with the iterators over
\* addresses this is what the runs look at in the first states.
THEOREM IteratorsAreComplete ==
  ASSUME Undefined \notin Nat
  PROVE  Spec => [](CellIteratorsAgreeEverywhere /\ IteratorsComplete)
<1>1. ASSUME ModelInv PROVE CellIteratorsAgreeEverywhere
  <2>1. ASSUME NEW s \in DOMAIN sheets PROVE CellIteratorsAgree(sheets[s])
    <3>1. size \in Sizes /\ IsASize(size) /\ sheets \in Seq(Grids(size, StoredCells))
      BY <1>1, ContentsFacts DEF ModelInv
    <3>2. Len(sheets[s]) = size.columns /\ Len(sheets[s][1]) = size.rows
      BY <2>1, <3>1, GridFacts
    <3>3. size.columns \in Nat \ {0} /\ size.rows \in Nat \ {0}
      BY <3>1 DEF IsASize
    <3>4. PICK sheet : sheet = sheets[s]
      OBVIOUS
    <3>5. sheet # << >>
      BY <3>2, <3>3, <3>4
    <3>6. LastRow(sheet) \in Nat /\ LastColumn(sheet) \in Nat
      BY <3>2, <3>3, <3>4, <3>5 DEF LastRow, LastColumn
    <3> QED
      BY <3>4, <3>5, <3>6, CellIteratorsSweep
  <2> QED
    BY <2>1 DEF CellIteratorsAgreeEverywhere
<1>2. ASSUME NEW first \in [sheet : 0..1, row : 0..2, column : 0..1],
             NEW last \in [sheet : 0..1, row : 0..2, column : 0..1], ValidRange([first |-> first, last |-> last])
      PROVE  /\ AddressIteratorAgrees([first |-> first, last |-> last], IncVertical, DecVertical)
             /\ AddressIteratorAgrees([first |-> first, last |-> last], IncHorizontal, DecHorizontal)
  <2>1. PICK range : range = [first |-> first, last |-> last]
    OBVIOUS
  <2>2. range \in CellRanges /\ ValidRange(range)
    BY <1>2, <2>1 DEF CellRanges, Address
  <2>3. AgreesVertically(range) /\ AgreesHorizontally(range)
    BY <2>2, AddressIteratorsAgree
  <2> QED
    BY <2>1, <2>3, Zenon DEF AgreesVertically, AgreesHorizontally
<1>3. CellIteratorsAgreeEverywhere => IteratorsComplete
  BY <1>2, Zenon DEF CellIteratorsAgreeEverywhere, IteratorsComplete
<1>4. ModelInv => CellIteratorsAgreeEverywhere /\ IteratorsComplete
  BY <1>1, <1>3
<1> QED
  BY <1>4, ModelAlways, PTL
=============================================================================

------------------------------ MODULE SheetEdit -------------------------------
(***************************************************************************)
(* Insertion and deletion of rows and columns, composed with the calls of  *)
(* Sheet.  A formula is the sequence of positions in its CellStatements    *)
(* (References).                                                           *)
(*                                                                         *)
(* Holders move during these calls, so within one call a holder is named   *)
(* by the position it had when the call began, and the loops are folds     *)
(* over a record of what they change (see Began).  When the call ends      *)
(* every holder is renamed after its new position; an entry of usedBy that *)
(* names a destroyed holder has no new name and is noted in dangling.      *)
(* What a later call does with such a pointer is undefined: the model      *)
(* stops there.                                                            *)
(***************************************************************************)
EXTENDS Sheet, References, FiniteSetsExt, Folds, Functions

CONSTANTS
  Entered(_), \* the texts entered at a position; edits make others of them
  Ranges,     \* where rows and columns are inserted and deleted, and how many
  MaxCalls    \* bound on the number of calls

\* A formula of the table names no other position: one outside the sheet makes
\* Evaluate throw, and such a text is an UnplacedFormula.
ASSUME EnteredAssumption ==
  /\ \A p \in Pos : Entered(p) \subseteq Text
  /\ Absent \notin Pos
  /\ \A f \in Formula : f \in Seq([row : Int, col : Int]) /\ Refs(f) = UpdateRefs(f)
  /\ \A f \in Formula : \A i \in DOMAIN f : f[i] \in Pos \cup {Deleted}
  /\ \A t \in Content \ Formula : t \notin Seq([row : Int, col : Int])
  /\ Ranges \subseteq [index : Nat, count : Nat \ {0}] /\ MaxCalls \in Nat

ValueAt(v, p) == IF p \in Pos THEN v[p] ELSE Zero

\* The handlers change the positions of the tree and nothing else of it.
ASSUME RenamingAssumption ==
  \A f \in Formula, axis \in Axis, r \in Ranges :
    /\ InsertedAll(f, axis, r.index, r.count) \in Formula =>
         \A v \in [Pos -> Value] :
           Apply(InsertedAll(f, axis, r.index, r.count), v)
             = Apply(f, [p \in Pos |-> ValueAt(v, Inserted(p, axis, r.index, r.count))])
    /\ (/\ RemovedAll(f, axis, r.index, r.count) \in Formula
        /\ \A i \in DOMAIN f : ~Within(f[i], axis, r.index, r.count)) =>
         \A v \in [Pos -> Value] :
           Apply(RemovedAll(f, axis, r.index, r.count), v)
             = Apply(f, [p \in Pos |-> ValueAt(v, Removed(p, axis, r.index, r.count))])

VARIABLES
  width,      \* width[i]: the size of row i of cells
  dangling,   \* the holders whose usedBy lists a destroyed holder
  intact,     \* no call so far was one that loses cells or their dependents
  calls       \* the number of calls so far

editVars == <<content, usedBy, cache, rowsCount, colsCount, outcome, width, dangling, intact, calls>>

Row == 0 .. Rows - 1

-----------------------------------------------------------------------------
(* A call in progress.  at[p]: the holder at p; content, usedBy and cache  *)
(* by holder (a destroyed one has the content Absent); changed: the set    *)
(* allreadyChanged; undefined: a destroyed holder was used.                *)

Began ==
  [at |-> [p \in Pos |-> IF CellExists(content, p) THEN p ELSE Absent],
   content |-> content, usedBy |-> usedBy, cache |-> cache,
   changed |-> {}, undefined |-> FALSE]

Users(e, h) == {u \in Pos : e.usedBy[h][u] > 0}

Dead(e, S) == \E u \in S : ~CellExists(e.content, u)

\* InvalidateCache of each holder of S.
InvalidateAll(e, S) ==
  LET next == [q \in Pos |-> Users(e, q) \ Invalid(e.content, e.cache)]
      reached == Closure(S, next)
  IN  [e EXCEPT !.cache = [q \in Pos |-> IF q \in reached THEN Stale ELSE @[q]],
                !.undefined = @ \/ Dead(e, UNION {Users(e, q) : q \in reached})]

\* Every formula that uses the holder h and was not handled before.
UpdateFormulas(e, h, Handled(_)) ==
  LET users == Users(e, h) \ e.changed
  IN  [e EXCEPT
         !.content = [u \in Pos |-> IF u \in users /\ @[u] \in Formula
                                    THEN Handled(@[u]) ELSE @[u]],
         !.changed = @ \cup users,
         !.undefined = @ \/ Dead(e, users)]

UpdateFormulaOnInsert(e, p, axis, before, count) ==
  IF e.at[p] = Absent THEN e
  ELSE UpdateFormulas(e, e.at[p], LAMBDA f : InsertedAll(f, axis, before, count))

\* The holders of U whose formulas lose a reference: ReferencesChanged.
Losing(e, U, axis, first, count) ==
  {u \in U : \E q \in Range(e.content[u]) : Within(q, axis, first, count)}

\* The same for a deletion; a formula that loses a reference is invalidated.
UpdateFormulaOnDelete(e, p, axis, first, count) ==
  IF e.at[p] = Absent THEN e
  ELSE LET done == UpdateFormulas(e, e.at[p], LAMBDA f : RemovedAll(f, axis, first, count))
           formulas == {u \in done.changed \ e.changed : e.content[u] \in Formula}
       IN  InvalidateAll(done, Losing(e, formulas, axis, first, count))

\* ClearGraph: the entries of the holder h, looked up where its references
\* point to by now.
ClearGraph(e, h) ==
  LET found == {e.at[r] : r \in GetReferencedCells(e.content[h])} \ {Absent}
  IN  [e EXCEPT !.usedBy = [Unlink(@, found, h) EXCEPT ![h] = [u \in Pos |-> 0]]]

\* The destructor of the holder at p.
Destroy(e, p) ==
  IF e.at[p] = Absent THEN e
  ELSE [e EXCEPT !.content[e.at[p]] = Absent,
                 !.usedBy[e.at[p]] = [u \in Pos |-> 0],
                 !.cache[e.at[p]] = Stale,
                 !.at[p] = Absent]

\* Mutant: a deleted cell is destroyed without ClearGraph.
DeleteCellOnly(e, p, axis, first, count) ==
  IF e.at[p] = Absent THEN e
  ELSE LET updated == UpdateFormulaOnDelete(e, p, axis, first, count)
       IN  Destroy(InvalidateAll(updated, {e.at[p]}), p)

\* A cell of the deleted rows or columns.
DeleteCell(e, p, axis, first, count) ==
  IF e.at[p] = Absent THEN e
  ELSE LET updated == UpdateFormulaOnDelete(e, p, axis, first, count)
       IN  Destroy(ClearGraph(InvalidateAll(updated, {e.at[p]}), e.at[p]), p)

\* unique_ptr's move assignment: what was at q is destroyed.
Move(e, p, q) ==
  IF p = q THEN e ELSE [Destroy(e, q) EXCEPT !.at[q] = e.at[p], !.at[p] = Absent]

\* The order of the loops: row by row, the columns up or down.
Forward(p, q) == p.row < q.row \/ (p.row = q.row /\ p.col < q.col)
Backward(p, q) == p.row < q.row \/ (p.row = q.row /\ p.col > q.col)

Last(S, Before(_, _)) == CHOOSE p \in S : \A q \in S \ {p} : Before(q, p)

\* Step(... Step(Step(e, p1), p2) ..., pn) for the members of S in their order.
ForEach(e, S, Step(_, _)) ==
  MapThenFoldSet(LAMBDA p, x : Step(x, p), e, LAMBDA p : p, LAMBDA T : Last(T, Forward), S)
ForEachBackward(e, S, Step(_, _)) ==
  MapThenFoldSet(LAMBDA p, x : Step(x, p), e, LAMBDA p : p, LAMBDA T : Last(T, Backward), S)
ForEachIndex(e, S, Step(_, _)) ==
  MapThenFoldSet(LAMBDA i, x : Step(x, i), e, LAMBDA i : i, Max, S)

InRow(i) == {p \in Pos : p.row = i}

MoveRow(e, i, j) == ForEach(e, InRow(i), LAMBDA x, p : Move(x, p, At(j, p.col)))

\* The end of a call that returns or throws: holders get their new names.
Finish(e) ==
  LET Exists(p) == e.at[p] # Absent
  IN  /\ content' = [p \in Pos |-> IF Exists(p) THEN e.content[e.at[p]] ELSE Absent]
      /\ usedBy' = [r \in Pos |-> [p \in Pos |->
                      IF Exists(r) /\ Exists(p) THEN e.usedBy[e.at[r]][e.at[p]] ELSE 0]]
      /\ cache' = [p \in Pos |-> IF Exists(p) THEN e.cache[e.at[p]] ELSE Stale]
      /\ dangling' = {r \in Pos : Exists(r) /\ Dead(e, Users(e, e.at[r]))}

\* A destroyed holder was used, or a row behind the end of cells.
Undefined ==
  /\ outcome' = "Undefined"
  /\ UNCHANGED <<content, usedBy, cache, rowsCount, colsCount, width, dangling>>

\* Bound: the edits keep holders and references inside Rows and Cols.
Fits(e) == \A p \in Pos : e.content[p] \in Content

-----------------------------------------------------------------------------
(* The four edits.  The rows up to rowsCount exist in cells after each.    *)

EditInit ==
  Init /\ width = [i \in Row |-> 0] /\ dangling = {} /\ intact = TRUE /\ calls = 0

\* Where the model goes on.  After length_error rowsCount is negative.
Going ==
  /\ Running /\ outcome \notin {"Undefined", "length_error"}
  /\ dangling = {} /\ calls < MaxCalls
  /\ calls' = calls + 1

InsertTooMany(size, count) ==
  /\ size + count >= Limit
  /\ outcome' = "TableTooBigException"
  /\ UNCHANGED <<content, usedBy, cache, rowsCount, colsCount, width, dangling>>

UpdateRowOnInsert(e, i, before, count) ==
  ForEach(e, InRow(i), LAMBDA x, p : UpdateFormulaOnInsert(x, p, "row", before, count))

InsertRowsLoop(before, count) ==
  ForEachIndex(Began, before .. before + count - 1, LAMBDA e, i :
                 MoveRow(UpdateRowOnInsert(e, i, before, count), i, i + count))

\* The rows from before on that there is room for move, the first one first.
InsertRows(before, count) ==
  \/ InsertTooMany(rowsCount, count)
  \/ /\ rowsCount + count < Limit /\ rowsCount + count <= Rows
     /\ before + count > rowsCount   \* writes behind the end of cells
     /\ Undefined
  \/ /\ rowsCount + count < Limit /\ rowsCount + count <= Rows
     /\ before + count <= rowsCount
     /\ \E e \in {InsertRowsLoop(before, count)} :
            \/ e.undefined /\ Undefined
            \/ /\ ~e.undefined /\ Fits(e)
               /\ Finish(e)
               /\ width' = [i \in Row |->
                    IF i \in before .. before + count - 1 \/ i >= rowsCount + count THEN 0
                    ELSE IF i \in before + count .. before + 2 * count - 1 THEN width[i - count]
                    ELSE width[i]]
               /\ rowsCount' = rowsCount + count
               /\ outcome' = "Ok"
               /\ UNCHANGED colsCount

\* What every row moves.
ColsMoved(before) == {p \in Pos : p.row < rowsCount /\ p.col \in before .. colsCount - 1}

InsertColsLoop(before, count) ==
  ForEachBackward(Began, ColsMoved(before), LAMBDA e, p :
    Move(UpdateFormulaOnInsert(e, p, "col", before, count), p, At(p.row, p.col + count)))

\* Every row moves its cells from before on, the last one first.
InsertCols(before, count) ==
  \/ InsertTooMany(colsCount, count)
  \/ /\ colsCount + count < Limit /\ colsCount + count <= Cols
     /\ \E e \in {InsertColsLoop(before, count)} :
            \/ e.undefined /\ Undefined
            \/ /\ ~e.undefined /\ Fits(e)
               /\ Finish(e)
               /\ colsCount' = colsCount + count
               /\ width' = [i \in Row |->
                    IF i < rowsCount /\ width[i] \in 1 .. colsCount' THEN colsCount'
                    ELSE width[i]]
               /\ outcome' = "Ok"
               /\ UNCHANGED rowsCount

UpdateRowOnDelete(e, i, first, count) ==
  ForEach(e, InRow(i), LAMBDA x, p : UpdateFormulaOnDelete(x, p, "row", first, count))

DeleteCells(e, S, axis, first, count) ==
  ForEach(e, S, LAMBDA x, p : DeleteCell(x, p, axis, first, count))

DeleteRowsLoop(first, count) ==
  LET Emptied(e, i) == DeleteCells(UpdateRowOnDelete(e, i + count, first, count),
                                   InRow(i), "row", first, count)
  IN  ForEachIndex(Began, first .. rowsCount - count - 1, LAMBDA e, i :
                     MoveRow(Emptied(e, i), i + count, i))

\* A resize destroys what is behind the new end as it is.
DestroyAll(e, S) == ForEach(e, S, Destroy)

ResizeRows(e, n) == DestroyAll(e, {p \in Pos : p.row >= n})

\* The rows behind the deleted ones move, the first one first, and the end
\* is cut off: resize throws when there are fewer rows than are deleted.
DeleteRows(first, count) ==
  \/ /\ count > rowsCount
     /\ rowsCount' = rowsCount - count
     /\ outcome' = "length_error"
     /\ UNCHANGED <<content, usedBy, cache, colsCount, width, dangling>>
  \/ /\ count <= rowsCount
     /\ \E e \in {ResizeRows(DeleteRowsLoop(first, count), rowsCount - count)} :
            \/ e.undefined /\ Undefined
            \/ /\ ~e.undefined /\ Fits(e)
               /\ Finish(e)
               /\ rowsCount' = rowsCount - count
               /\ width' = [i \in Row |-> IF i >= rowsCount' THEN 0
                                          ELSE IF i >= first THEN width[i + count]
                                          ELSE width[i]]
               /\ colsCount' = IF colsCount = 1 /\ rowsCount' = 0 THEN 0 ELSE colsCount
               /\ outcome' = "Ok"

\* One row of DeleteCols: its deleted cells go, the others move to the left.
InRowWithin(i, first, count) == {p \in InRow(i) : Within(p, "col", first, count)}
InRowBehind(i, first, count) == {p \in InRow(i) : p.col \in first + count .. colsCount - 1}

MoveLeft(e, i, first, count) ==
  ForEach(e, InRowBehind(i, first, count), LAMBDA x, p :
    Move(UpdateFormulaOnDelete(x, p, "col", first, count), p, At(i, p.col - count)))

DeleteInRow(e, i, first, count) ==
  MoveLeft(DeleteCells(e, InRowWithin(i, first, count), "col", first, count), i, first, count)

ResizeRow(e, i, n) == DestroyAll(e, {p \in InRow(i) : p.col >= n})

\* The rows at which DeleteCols throws: row.at behind the end of a short row,
\* row.resize to a negative size.
ShortRows(first, count) ==
  {i \in Row : i < rowsCount /\ width[i] > 0 /\ width[i] < first + count}
ThrowingRows(first, count) ==
  ShortRows(first, count)
    \cup {i \in Row : i < rowsCount /\ width[i] > 0 /\ colsCount < count}

\* The rows it has finished before it throws, or all of them.
FinishedRows(first, count) ==
  {i \in Row : /\ i < rowsCount /\ width[i] > 0
               /\ \A j \in ThrowingRows(first, count) : i < j}

DeleteColsLoop(first, count) ==
  ForEachIndex(Began, FinishedRows(first, count), LAMBDA e, i :
                 ResizeRow(DeleteInRow(e, i, first, count), i, colsCount - count))

NarrowedRows(first, count) ==
  [i \in Row |-> IF i \in FinishedRows(first, count) THEN colsCount - count ELSE width[i]]

\* Mutant: colsCount may become negative.
ColsLeftUnchecked(count) == colsCount - count

ColsLeft(count) == IF colsCount < count THEN 0 ELSE colsCount - count

DeleteCols(first, count) ==
  /\ ThrowingRows(first, count) = {}
  /\ \E e \in {DeleteColsLoop(first, count)} :
       \/ e.undefined /\ Undefined
       \/ /\ ~e.undefined /\ Fits(e)
          /\ Finish(e)
          /\ colsCount' = ColsLeft(count)
          /\ rowsCount' = IF ColsLeft(count) = 0 /\ rowsCount = 1 THEN 0 ELSE rowsCount
          /\ width' = NarrowedRows(first, count)
          /\ outcome' = "Ok"

\* The rows before the one that throws are done, that one has lost its deleted
\* cells, and the size is still the old one.
DeleteColsThrows(first, count) ==
  \E i \in ThrowingRows(first, count) :
    /\ \A j \in ThrowingRows(first, count) : i <= j
    /\ \E e \in {DeleteInRow(DeleteColsLoop(first, count), i, first, count)} :
           \/ e.undefined /\ Undefined
           \/ /\ ~e.undefined /\ Fits(e)
              /\ Finish(e)
              /\ width' = NarrowedRows(first, count)
              /\ outcome' = IF i \in ShortRows(first, count) THEN "out_of_range"
                                                             ELSE "length_error"
              /\ UNCHANGED <<rowsCount, colsCount>>

-----------------------------------------------------------------------------
\* CreateCell at each position of S: the rows get as wide as it takes.
Widened(S) == [i \in Row |-> Max({width[i]} \cup {q.col + 1 : q \in S \cap InRow(i)})]

\* What a call must not do to leave the others what they rely on (intact).

\* No formula uses the cell that is cleared.
Unused(p) == \A q \in Pos : usedBy[p][q] = 0

\* All the rows behind the inserted ones are moved.
AllRowsMove(before, count) ==
  \/ rowsCount + count >= Limit
  \/ /\ before + count <= rowsCount
     /\ \A p \in Pos : p.row >= before + count => ~CellExists(content, p)

\* No deleted formula reads what is renamed before it is gone.
DeletedReadBefore(axis, first, count) ==
  \A p \in Pos : Within(p, axis, first, count) =>
    \A r \in GetReferencedCells(content[p]) : r[axis] < first

\* The resize at the end cuts no row off that the loop has not visited, none
\* of the deleted ones and none before them.
DeletedRowsAreVisited(first, count) ==
  /\ count <= rowsCount
  /\ \A p \in Pos : (p.row < first + count /\ CellExists(content, p)) =>
       p.row < rowsCount - count

\* No row is resized to less than its cells before the deleted ones take (a
\* row may be wider than colsCount).
ColsBeforeAreKept(first, count) ==
  \A p \in Pos : (p.col < first /\ CellExists(content, p)) => p.col < colsCount - count

\* The calls that lose nothing.
RowsGoCleanly(first, count) ==
  DeletedReadBefore("row", first, count) /\ DeletedRowsAreVisited(first, count)
ColsGoCleanly(first, count) ==
  DeletedReadBefore("col", first, count) /\ ColsBeforeAreKept(first, count)

SetCellOf(p) ==
  /\ SetCellToSameText(p) \/ \E t \in Entered(p) : SetCell(p, t)
  /\ width' = Widened({p} \cup {q \in Pos : content'[q] # Absent})
  /\ intact' = (intact /\ (outcome' = "Ok" \/ content[p] \notin Formula))
  /\ UNCHANGED dangling

ReadCell(p) == GetValue(p) /\ UNCHANGED <<width, dangling, intact>>

ClearCellOf(p) ==
  ClearCell(p) /\ intact' = (intact /\ Unused(p)) /\ UNCHANGED <<width, dangling>>

Edit(index, count) ==
  \/ InsertRows(index, count) /\ intact' = (intact /\ AllRowsMove(index, count))
  \/ InsertCols(index, count) /\ UNCHANGED intact
  \/ DeleteRows(index, count) /\ intact' = (intact /\ RowsGoCleanly(index, count))
  \/ DeleteCols(index, count) /\ intact' = (intact /\ ColsGoCleanly(index, count))
  \/ DeleteColsThrows(index, count) /\ intact' = FALSE

EditNext ==
  /\ Going
  /\ \/ \E r \in Ranges : Edit(r.index, r.count)
     \/ \E p \in Pos : SetCellOf(p) \/ ReadCell(p) \/ ClearCellOf(p)

EditSpec == EditInit /\ [][EditNext]_editVars

-----------------------------------------------------------------------------
EditTypeOK ==
  /\ content \in [Pos -> Content]
  /\ usedBy \in [Pos -> [Pos -> Nat]]
  /\ cache \in [Pos -> Value \cup {Stale}]
  /\ rowsCount \in Int /\ colsCount \in 0 .. Cols
  /\ width \in [Row -> 0 .. Cols]
  /\ dangling \subseteq Pos /\ intact \in BOOLEAN

\* Insertions and deletions that lose nothing leave what every later call
\* relies on: each formula is listed by all cells it reads and by no other, no
\* list names a destroyed holder, and every valid cache is what its formula,
\* renamed or not, has for the cells as they are now.
IntactIsTidy ==
  intact =>
    /\ \A p \in Pos : Linked(p) /\ (CellExists(content, p) => p.col < width[p.row])
    /\ EdgesMatchFormulas /\ StaleUpwards /\ CachedValueIsCurrent /\ SizeCovers
    /\ dangling = {} /\ outcome # "Undefined"

EditContract == INSTANCE SpreadsheetEdits WITH
  Cells <- Pos, Empty <- EmptyText, Stored <- Content \ {Absent},
  Formulas <- Formula \cup UnplacedFormula, Reads <- TextReads, texts <- Texts

\* What the code does for an edit that returns, among the steps of the contract
\* the one it promises for that edit.  (The sizes tell most other calls apart.)
KeepsPromise(index, count) ==
  /\ (/\ rowsCount' = rowsCount + count
      /\ AllRowsMove(index, count) /\ InsertRows(index, count)) =>
        EditContract!Insert("row", index, count)
  /\ (colsCount' = colsCount + count /\ InsertCols(index, count)) =>
        EditContract!Insert("col", index, count)
  /\ (/\ rowsCount' = rowsCount - count
      /\ RowsGoCleanly(index, count) /\ DeleteRows(index, count)) =>
        EditContract!Delete("row", index, count)
  /\ (/\ colsCount' = ColsLeft(count)
      /\ ColsGoCleanly(index, count) /\ DeleteCols(index, count)) =>
        EditContract!Delete("col", index, count)

\* They move each text with its cell and each reference with what it points
\* to, and the other calls keep their part of the contract on what edits left.
IntactCallsFollowContract ==
  [][intact' => /\ EditContract!NextWithEdits(Ranges)
                /\ \A r \in Ranges : KeepsPromise(r.index, r.count)]_editVars

-----------------------------------------------------------------------------
(* What the interface promises and the code does not keep.                 *)

\* Insertion keeps the cells, and references point to the same cells as before.
InsertedRowsMoveTexts ==
  [][\A r \in Ranges : (InsertRows(r.index, r.count) /\ outcome' = "Ok") =>
       EditContract!Insert("row", r.index, r.count)]_editVars

\* After a deletion references point to the same cells as before, and a
\* reference to a deleted cell is replaced.
DeletedRowsMoveTexts ==
  [][\A r \in Ranges : (DeleteRows(r.index, r.count) /\ outcome' = "Ok") =>
       EditContract!Delete("row", r.index, r.count)]_editVars
=============================================================================

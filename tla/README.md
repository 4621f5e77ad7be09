# A verification of the spreadsheet engine

The repository is a spreadsheet engine in C++: a table of cells that hold text
or formulas, with cached values, cycle detection and insertion and deletion of
rows and columns. The specifications here are written from `src/src/*.cpp` and
`*.h`; line numbers in this file are lines of those files. TLC checks them on
small tables and TLAPS proves their main properties for every table.

## 1. The system

| Component | State | Operations | Interacts with |
|---|---|---|---|
| **Position** (`common.h/.cpp`) | row, column | validity, order, `ToString`, `FromString` | every component; the order decides in which order references are visited |
| **Sheet storage** (`sheet.*`) | `cells`: rows of owning pointers to holders; `rowsCount`, `colsCount` | `CreateCell`, `SetCell`, `ClearCell`, `GetCell`, `InsertRows/Cols`, `DeleteRows/Cols`, `GetPrintableSize`, `Print*` | owns holders; calls the parser, the formulas and the graph |
| **CellHolder and InnerCell** (`cell.*`) | what the cell holds (nothing, literal, formula, error), `usedBy`, the static `totalObjects` | `reset` (4 forms), `GetValue`, `GetText`, `DepCheckFlag`, `Update` | calls back into the sheet (`InvalidateCache`, `UpdateDependent`) |
| **Dependency graph** (`usedBy` of every holder) | for each cell the raw pointers of the formula cells that read it | registration in `HandleFormulaCreation`, `ClearUsedGraph`, `ClearGraph` | followed by invalidation and structural edits |
| **Cached values** (`FormulaCell`) | `cellValue`, `cacheInvalid` | `InvalidateCache`, `UpdateChache`, `UpdateDependent`, `Update` | refreshed lazily by `GetValue`, and on the way by `CheckDependency` |
| **Formula** (`formula*.{h,cpp}`) | syntax tree, pointers to its `CellStatement`s, the sorted list of references | `Evaluate`, `GetExpression`, `HandleInserted*`, `HandleDeleted*` | reads cells through the sheet |
| **Syntax tree** (`ast.*`) | literals, references, operations | `Execute`, `Formula` | reads cells, propagates errors |
| **Parser and listener** (`listener.*`, `Formula.g4`) | a static listener with a stack of subtrees and a list of references | `ParseFormula` | builds formulas; drops redundant parentheses |
| ANTLR runtime, tests, profiler, memory checker | | | third-party or diagnostics, not modelled |

The program is sequential; there are no threads, files or messages. What makes
it hard is that three views of the same fact - the text of a formula, the
`usedBy` lists of what it reads, and the cached values - are updated at
different moments of one call, that calls fail in the middle, that reading a
value is itself a change of state, and that every walk over the graph is
recursive and pruned by a flag that only a global invariant justifies.

What makes each component correct:

- *graph*: whoever a `usedBy` lists is alive and does read that cell, and is
  listed once (the lists hold raw pointers);
- *caches*: a cache that is not marked invalid is the value of the formula;
  whatever depends on an invalid cell is invalid;
- *SetCell*: a call that throws leaves the table as it was; a formula that
  closes a cycle, and no other, is refused; every walk ends;
- *storage*: the printable size is the bounding rectangle of the texts;
- *structural edits*: every holder and every reference moves by the same rule,
  or the call throws and nothing moves;
- *positions, formulas*: names and positions correspond; the printed expression
  means what was entered.

## 2. The modules

| Module | Contents | Uses |
|---|---|---|
| `Position`, `MCPosition`, `PositionProofs`, `MCPositionProofs` | order, validity, names | |
| `References`, `ReferencesProofs` | what renaming does to the references of one expression | |
| `FormulaRefs`, `MCFormulaRefs`, `FormulaRefsProofs` | the handlers of one formula, with the exception in the middle of their loop | `References` |
| `Syntax`, `MCSyntax` | `ParseFormula`, the static listener, parenthesis removal, printing, evaluation | |
| `Spreadsheet` | abstract: what `ISheet` promises of the texts | |
| `Sheet`, `MCSheet`, `SheetProofs` | texts, graph, caches, size under `SetCell`, `ClearCell`, `GetValue`, `PrintValues`, each call one step; implements `Spreadsheet` | `Position`, `Spreadsheet` |
| `Recalculation`, `MCRecalculation`, `RecalculationProofs`, `CallProofs` | the same calls with their recursive walks one call or return at a time, on an explicit stack, and exceptions in the middle of a walk; compared with the steps of `Sheet` | `Sheet` |
| `SpreadsheetEdits` | abstract: what `ISheet` promises of insertion and deletion | `Spreadsheet`, `References` |
| `SheetEdit`, `MCSheetEdit`, `SheetEditProofs` | `InsertRows/Cols`, `DeleteRows/Cols` over rows of holders, between the calls of `Sheet`; compared with `SpreadsheetEdits` | `Sheet`, `References` |

`Sheet` is the middle of the project. Below it, `Recalculation` takes its steps
apart, and says of every call that nothing unreadable has ended that the parts
add up to the step. Above it, `Spreadsheet` is the contract it implements. Next
to it, `SheetEdit` adds the calls that move holders, with the same variables.

What could still be done: an instance of `Syntax` with the rounding of doubles,
and a run of `SheetEdit` with the texts that make `SetCell` throw (its theorems
cover them).

## 3. Modules and code

### Position, MCPosition
`At`, `IsValid`, `PosLess`, `ToName`, `FromName` are `struct Position`.
`operator<` compares by column and then by row: its last comparison adds
`this->row` to both sides. A name is letters and a number, because the grammar
has no other token for a cell; a number that no `int` holds is `Overlong`.
`MCPosition` is a counter: it goes through the names in the order of a table's
heads (A ... Z, AA ... ZZ, AAA ... ZZZ) next to the columns 0, 1, 2 ...

### References, FormulaRefs, MCFormulaRefs
`References` is what the loops of the handlers do to the positions of one
expression: `InsertedAll`, `RemovedAll` (a deleted reference becomes `{-1, -1}`),
and `UpdateRefs`, the references that are left, each once. It has no state, so
that one formula (`FormulaRefs`), the whole table (`SheetEdit`) and the contract
(`SpreadsheetEdits`) share it.

`FormulaRefs` is one formula: `statements` are the positions in its `CellStatement`s, `refCells`
the list that `GetReferencedCells` returns, `result` what the last handler
returned or threw. The row and the column handler of the code are the same text
with `row` and `col` exchanged and become one action with the axis as a
parameter. `HandleInsertedThrows` is the loop that throws at the first reference
it has moved out of the table. A formula may name what is no cell (`A0`, `XFE1`,
four letters): `ParseFormula` accepts it, only its evaluation fails.

### Syntax, MCSyntax
| Variable | Code |
|---|---|
| `lastStatements`, `rootStatement`, `referencedPtrs` | the members of the static `Listener` |
| `entered`, `exits` | the parse tree and the exit events the walker has not sent yet |
| `formula` | the `Formula` that `ParseFormula` returns, until its caller takes it |

`Parse` is `Formula.g4`: unary operators first, then `*` and `/`, then `+` and
`-`, from left to right. `After` is what each exit handler does to the stack,
`Argument`, `Left` and `Right` are the parentheses it drops. `Formula` and
`Execute` are the two methods of the statements. A cell statement has an address
(`NewCell` takes one that no statement on the stack has); `referencedPtrs` and the
references of a formula are addresses, while the statements themselves move from
the stack into operations, out of parentheses and into the formula. Literals are names; `Shown` is
the literal that is printed in place of one. Numbers are exact fractions, so the
rounding and overflow of doubles are left out; the division error (every divisor
up to 1e-200, so every one that is not positive) is kept.

### Sheet
| Variable | Code |
|---|---|
| `content[p]` | the holder at `p` (`Absent` if none) and its `InnerCell` (`EmptyText` if null) |
| `usedBy[r][p]` | how often `usedBy` of the holder at `r` lists the holder at `p` |
| `cache[p]` | `cellValue` of a formula cell, or `Stale` when `cacheInvalid` is set |
| `rowsCount`, `colsCount` | the members of the same names |
| `outcome` | how the last call ended: `Ok`, an exception, or `StackOverflow` (after which nothing runs) |

A holder is created at a position and stays there until `ClearCell`, so within
this module the position is its address, and a `usedBy` entry naming a position
without a holder is a dangling pointer. The texts are six kinds, one per path
through `SetCell`: stored as it is; digits whose number no double holds
(`LiteralCell`'s `stod` throws); a formula; a formula that names a cell outside
the table (`Evaluate` throws `FormulaException`); a formula that is one literal
no double holds (becomes an `ErrorCell`); text that does not parse.

| Action | Code |
|---|---|
| `RejectPosition` | `IsValid` tests of `SetCell`, `GetCell`, `ClearCell` |
| `SetCellToSameText` | `SetCell`, early return (lines 137-145); the holder is still created |
| `SetCellToText` | `reset` to nothing, to a literal or to an `ErrorCell`, with the invalidation that `reset` ends with |
| `SetCellThrows` | the constructor of `LiteralCell` or the parser throws, after `ClearUsedGraph` |
| `SetCellRejects` | `CheckDependency` finds a cycle, or `Evaluate` throws `FormulaException` |
| `SetCellToFormula` | the formula is accepted: registration, refreshes, `reset`, holders for the missing references |
| `SetCellOverflows` | a recursion of the above never ends |
| `ClearCell` | with the reset of the size when no sheet of the process has a holder |
| `GetValue`, `PrintValues` | lazy recalculation of one cell, of the printed rectangle |

The recursive walks are one step each. `InvalidateCache` is the closure of the
cell under "is listed in `usedBy` and is not invalid yet"; a recalculation
refreshes the closure of what is asked for under "reads and is invalid" and
gives the values that solve the formulas (`Fresh`: on acyclic parts the solution
is unique); `CheckDependency` follows the references of cells that hold an error
and are used, in the order of `operator<` and up to the place where it finds
the cell, which decides what else it refreshes. A walk that does not end is
`StackOverflow`. `Recalculation` takes the walks apart.

Left out of `Sheet`: a text cell such as `'` followed by 400 digits, whose
`stod` throws out of `Evaluate` in the middle of a walk (`Recalculation` has
it), and literals in a formula that fail after another token was parsed
(`Syntax` has them).

### MCSheet
Formulas are sequences of the cells they name; a value is 0, 1 or an error; a
formula adds modulo 2 and the first error wins. Literals are a number and a word
(an error when read by a formula).

### Spreadsheet, SpreadsheetEdits
The contract of `ISheet` on two variables: what `GetText` returns for each cell,
and how the last call ended. A call sets the text of the one cell it names, or
changes none and reports why; a formula is refused as circular only if it closes
a cycle; a stack overflow needs formulas that form one. The interface promises
more than this (no cycle is ever accepted, values are always right): the runs
`cycle` and `cleared` show that the code does not keep it. `Sheet` implements the
rest: `ImplementsContract` is `Contract!Spec` with `texts <- Texts`.
`SpreadsheetEdits` adds `Insert` and `Delete`: each text moves with its cell and
each reference with what it points to.

### Recalculation, MCRecalculation
| Variable | Code |
|---|---|
| `stack` | the frames of the recursive functions, the current one first: the function, its cell and what its loop has not looked at |
| `call` | the call in progress and the table it began with (which `CallsAreSheetSteps` compares with; the steps read its cell, its text and whether the cell existed) |

| Action | Code |
|---|---|
| `CallWithoutWalk` | the calls that throw, or return, before any walk: steps of `Sheet` |
| `BeginText`, `BeginFormula`, `BeginClear`, `BeginReads` | `SetCell` and `HandleFormulaCreation` up to their first walk, `ClearCell` up to its walk, `GetValue` and `PrintValues` |
| `InvalidateNext` | one turn of the loop of `InvalidateCache` (366-372) |
| `RefreshNext`, `Evaluate` | the loops of `UpdateChache` and `Update`; the evaluation, which may throw |
| `CheckNext`, `CycleIsFound` | the loop of `CheckDependency` (80-103) with `DepCheckFlag`, which refreshes; it finds the cell |
| `EvaluationFails`, `EvaluationThrows`, `Install`, `CreateMissing` | the rest of `HandleFormulaCreation`: the handler of `FormulaException`, the exception no handler catches, `reset` and the holders for missing references |
| `Destroy` | the rest of `ClearCell`: `ClearGraph`, the holder, the size |
| `ReadNext`, `ReadsEnd` | the cells that are read, row by row |

An `Unreadable` literal is digits behind an apostrophe whose number no double
holds: `Evaluate` throws `out_of_range` when it reads one, and the call ends
wherever it is. A call that would destroy a holder some `usedBy` still lists (an
entry left by such an exception) ends as `Dangling`; the next use of the table
is undefined and the model stops there. `MaxDepth`, which ends a recursion as
`StackOverflow`, is assumed to be at least the number of cells and three more,
so that a stack too small for the table is not mistaken for a recursion without
end: a walk that ends has one frame for each cell at most (a cell that
`CheckDependency` is in has been refreshed, one that `Update` is in has not), and
the call has up to three of its own below them; `MaxListed`
bounds how often a text that throws each time is listed.

### SheetEdit, MCSheetEdit
The variables of `Sheet` and:

| Variable | Code |
|---|---|
| `width[i]` | the size of row `i` of `cells` |
| `dangling` | the holders whose `usedBy` lists a destroyed holder |
| `intact` | history: no call so far was one that loses cells or their dependents |
| `calls` | their number, up to `MaxCalls` |

Within a call holders move, so there a holder is named by the position it had
when the call began; the loops are folds over a record of the table (`Began`),
cell by cell in the order of the code, with the set `allreadyChanged`, and at the
end every holder is renamed after its new position (`Finish`). What the code does
with a destroyed holder or with a row behind the end of `cells` is undefined:
the call ends as `Undefined` and the model stops. It stops in the same way when
a `usedBy` lists a destroyed holder, and after `length_error`, which leaves
`rowsCount` negative.

| Action | Code |
|---|---|
| `InsertRows` (`InsertTooMany`, `InsertRowsLoop`) | 320-337: rows `before` to `before + count - 1` move by `count`, the first one first, and no others |
| `InsertCols` (`InsertColsLoop`) | 340-362: in every row the cells from `before` on, the last one first |
| `DeleteRows` (`DeleteRowsLoop`, `ResizeRows`) | 376-403: rows from `first` on are overwritten by those `count` further; the rest is cut off, unregistered or not |
| `DeleteCols`, `DeleteColsThrows` (`DeleteInRow`, `ResizeRow`) | 407-443: row by row; `row.at` throws at a row that is too short, `row.resize` at a negative size, with the rows before it done |
| `SetCellOf`, `ReadCell`, `ClearCellOf` | the calls of `Sheet`, with the widths that `CreateCell` gives the rows |

`intact` becomes false with a call that loses something the later calls rely on,
and each of these has a name in the module:

| Call | Keeps the table intact unless |
|---|---|
| `SetCellOf` | it fails and the cell held a formula, which is not registered any more |
| `ClearCellOf` | a formula uses the cell (`Unused`) |
| `InsertRows` | some row behind the inserted ones stays where it is and is overwritten (`AllRowsMove`) |
| `InsertCols` | - |
| `DeleteRows` | a deleted formula reads what lies at or behind the first deleted row (`DeletedReadBefore`), or the `resize` at the end cuts off a row the loop has not visited, a deleted one or one before them (`DeletedRowsAreVisited`) |
| `DeleteCols` | a deleted formula reads what lies at or behind the first deleted column, or `row.resize` cuts off cells before the deleted ones, as it does in a row wider than `colsCount` (`ColsBeforeAreKept`); a call that throws half-way always breaks it |

As long as there is no such call, everything `Sheet` promises still holds after
any insertion or deletion, the caches of all formulas are right (`IntactIsTidy`),
and every edit that returns does what `SpreadsheetEdits` promises of that edit,
with its own index and count (`KeepsPromise` in `IntactCallsFollowContract`).

What a formula is worth is a parameter, so `RenamingAssumption` says what the
handlers may rely on: a formula whose references are renamed is worth what it was
worth when every value is taken from where its reference points to by now. It is
asked of a deletion only for formulas that lose no reference. `EnteredAssumption`
says of the texts that a formula is a sequence of cells of the table and deleted
references, that no other text is one, and that no cell is the mark `Absent`.

## 4. What the runs show

| Run | Instance | Shows |
|---|---|---|
| `row` | A1, B1, C1; 3 formulas and a text for every path through `SetCell` | graph exact, staleness upward closed, linked caches current, size covers, walks overflow only on cycles, changes reach dependents, failed calls keep texts, only formulas that close a cycle are refused, and the contract of `ISheet` on texts is implemented |
| `cycle` | A1, B1, C1 | **violated**: a cycle is accepted |
| `cleared` | A1, B1, C1; no failing call | **violated**: clearing detaches the formulas that use the cell |
| `walks` | A1, B1, C1, walk by walk; C1 unreadable at times | calls do what the one step of `Sheet` does, evaluation reads fresh cells, a broken walk leaves caches and texts that later calls can rely on, every call on a table without cycles and leftover entries returns |
| `leftover` | the same | **violated**: two broken calls leave a cycle of entries, and invalidation recurses for ever on a table without a circular formula |
| `table` | 3 by 3 cells, all edits and calls | calls that lose nothing follow the contract and leave the table tidy |
| `insert_rows` | the same | **violated**: an insertion destroys the row it is moved onto |
| `delete_rows` | the same | **violated**: a reference to a deleted row stays |
| `names` | all 18278 names of one to three letters, five row numbers | printing and reading agree with the heads of the table; nothing outside it is read as a cell |
| `edits` | 5 formulas at the corners of the table, 4 calls | deletion undoes insertion; the list follows the expression; references keep their order; every loss is reported |
| `texts` | 6000 texts: every operator next to every operator, with and without parentheses | the listener is left empty, the tree means what was entered, the printed text means and prints the same when entered again, the pointers kept for renaming are those of the cells in the tree |
| `divisor` | division by a signed product | **violated**: the printed text means something else |

*Sheet.* The runs start from the empty table and take every call with every
argument at every step. Calls are unbounded; the state space is finite because
`usedBy` stays at most 1 (proved) and values are modulo 2 (11343 states in
`row`). Three cells are enough for a chain of two, a fork, a cycle of each length
up to three and a bystander: the shapes on which the pruning of
`InvalidateCache`, the order of `CheckDependency` and the error paths differ.
Deadlock is not checked: after a stack overflow the process is gone.

*Recalculation.* The texts are those that make walks: chains, a fork, cycles of
two and three, a formula that names no cell, one that names a cell outside the
table, a text that does not parse, and C1, which alone is unreadable at times
(329423 states, up to 94 steps from the start). `MaxDepth` = 8 is beyond every
walk that ends: the creation, and at most a check and a refresh of each of three
cells. `MaxListed` = 2 lets a text that throws be
entered twice, which is what the entries of two broken calls take.

*SheetEdit.* `MaxCalls` = 4: two cells to connect, a read to fill a cache, an
edit; or a formula, an edit, a change and a read (21037 states). A text is
entered where it reads up, down, to the left or to the right. The edits are at
the indices 0 and 1, of one or two rows or columns, and one of 16384. Deadlock
is not checked because of the bound.

*FormulaRefs.* `MaxEdits` = 4 calls let a reference be moved, moved back, lost
and followed by another. The handlers compare a coordinate with an index and
with the limit of 16384, so the corners of the table (indices 0 to 2 and the
last) with one or two rows or columns at once meet every outcome of every
comparison. Deadlock is not checked because of the bound.

*Syntax.* Calls are unbounded, since the listener returns to its initial state.
Whether parentheses are dropped depends on the operator, the side and the
outermost operator within; the texts have every combination of the three, with
two levels of operators inside. Two shapes are left out because of disagreements
below: a division by a signed product, which `divisor` has, and a literal no
double holds after another operand.

### The disagreements
Each of the first six has a run that ends in it.

1. `sheet.cpp:98` - `CheckDependency` descends only into cells that hold an
   error and are used. `A1 = "=B1"`, then `B1 = "=A1"` is accepted; reading A1
   overflows the stack. `common.h:120-123` promises an exception. (`cycle`)
2. `sheet.cpp:298` - `ClearCell(B1)` destroys B1's `usedBy` list. A1 read while
   B1 is missing keeps that value after B1 is set. (`cleared`)
3. `sheet.cpp:203` - `Evaluate` throws `out_of_range` past every handler, and
   the entries of a formula that was never installed stay in `usedBy`. Two such
   calls make two cells list each other; invalidating one of them, with neither
   a formula any more, recurses for ever. (`leftover`)
4. `sheet.cpp:326` - `InsertRows` moves a row onto one that has not moved yet:
   with `A1 = "1"`, `A2 = "2"`, `InsertRows(0, 1)` destroys the second row.
   (`insert_rows`)
5. `sheet.cpp:378` - the loop of `DeleteRows` does not reach a deleted row at the
   end of the table: with `A1 = "=A2"`, `DeleteRows(1)` leaves `=A2`.
   (`delete_rows`)
6. `listener.cpp:46` - `=12/+(2*3)` is worth 2 and printed as `=12/+2*3`, which
   is worth 18. Entering that text into the same cell is ignored as no change.
   (`divisor`)

The models of the other runs contain these as well, and the properties there are
stated so that they hold in spite of them:

- `sheet.cpp:148` - `ClearUsedGraph` runs before the new text is known to be
  good: after a failing `SetCell(A1, "=(")`, A1 keeps its formula and never hears
  again of what it reads (`LinkedCellsAreCurrent` asks for linked cells; see also
  `PlainCallsKeepValues`).
- `formula.cpp:57` - `HandleInsertedRows/Cols` throw half way: some references
  have moved, the list of references has not been updated.
- `listener.cpp:86` - `=1+1e1000` leaves `1` on the static stack, and the next
  formula of the process has a null root (the texts of `texts` have no literal
  that fails after an operand, so `NothingLeftBehind` holds of them and says
  nothing of this case).
- `sheet.cpp:391`, `sheet.cpp:398` - a deleted formula that reads cells at or
  behind the deleted ones looks for its entries at the wrong places, and a holder
  cut off by `resize` does not look at all: `usedBy` lists destroyed holders. With
  `A1 = "=B1+A2"` and the second row read, `DeleteRows(0)` may use one within the
  call.
- `sheet.cpp:415` - `DeleteCols(0, 2)` throws `out_of_range` at a row that is one
  cell wide, after it has changed the rows before.
- `sheet.cpp:398`, `sheet.cpp:435` - the `resize` at the end takes `count` rows or
  cells off the end wherever `first` is: `DeleteRows(1, 2)` on two rows destroys
  both, and `DeleteCols` cuts off cells of a row that is wider than `colsCount`.
- `sheet.cpp:330` - `InsertRows(0, 1)` on an empty table, and any insertion with
  `before + count` beyond the old `rowsCount`, writes a row behind the end of the
  vector that was resized for it.
- `sheet.cpp:281` - the counter of holders is static: a table that has lost its
  last cell keeps its size as long as another sheet has a holder.
- `ast.cpp:37` - a formula with a deleted reference evaluates to `#VALUE!`;
  `formula.h:57-59` says that it returns `FormulaError::Ref`. The values of the
  models do not tell these two apart, and no property depends on it.
- The printable size counts cells that were cleared, emptied or merely
  referenced (`sheet.cpp:470`; `common.h:158-160` says bounding rectangle of the
  cells with text); a literal of more than six decimals is printed as another
  number (`ast.cpp:25`); needless parentheses stay around a whole expression or
  where they are doubled (`listener.cpp:60`; `formula.h:38`).

## 5. Fairness and liveness
The engine does nothing unless it is called, so no specification here makes a
call begin. In `Sheet`, `SheetEdit`, `FormulaRefs` and `Syntax` a call, or a
handler, is one step or runs to its end, and that the walks end is a safety
property (`OverflowNeedsCycle`). In `Recalculation` a call is many steps:
`SpecWalk` has `WF_walkVars(Step)`, weak fairness of the steps of a call in
progress, since the program is sequential and a function that has something left
to do goes on. `CallsReturn` says that then every call which begins on a table
without circular formulas, and with a `usedBy` whose entries all stand for
formulas, returns or throws. A stack overflow is no return: the property is about
the recursions themselves, which keep no mark of where they have been
(`sheet.cpp:248`, `sheet.cpp:98`). They end because `HandleFormulaCreation` puts the
new formula into its cell only after it has been checked, so until then the
walks see a table without a cycle, and because in the rest of the call it is followed
only by `InvalidateCache`, which marks. With the formula in its cell before the
check, the second of two formulas that read each other makes the refresh within
`CheckDependency` go round between them. Both conditions are needed: the runs
`cycle` and `leftover` show how a table comes to break one of them, and the next
call may then overflow.

## 6. What is proved
`SheetProofs` proves, for every table size, every set of texts and values, every
`Refs` and every `Apply` that depends only on the cells it names:

- `TypeCorrect`, `NoDanglingEdges`, `PruningIsRight`, `LinkedCachesAreCurrent`,
  `SizeCoversHolders`, `OverflowOnlyOnCycles`: the six invariants of `row`;
- `RejectionsAreCycles`, `ChangesReach`, `RejectionKeepsTexts`: its three action
  properties;
- `SheetImplementsContract`: the refinement of `Spreadsheet`;
- `PlainCallsKeepValues`: with no failing and no clearing call every valid cache
  is the value of its formula. Together with `cleared` and the first of the
  smaller disagreements it says which calls break the cached values.

The inductive invariant is `DataOK` (`TypeOK` without the outcome, which the edits
share) with three parts (`GraphInv`). None is
inductive alone. `EdgesOK` (exact edges) is what makes `ClearUsedGraph` remove
all a formula ever registered. `StaleOK` (invalid cells are upward closed along
`usedBy`) is what makes the pruned walk of `InvalidateCache` reach every valid
dependent (`InvalidateReach`), and a refresh keeps it because it refreshes
everything invalid below (`NeedFacts`). `CurrentOK` (a fully registered valid
cache is the formula's value) needs both: a change of a cell makes exactly its
dependents stale, so the others still read what they did (`ResetKeeps`), and a
refresh computes from refreshed values (`RefreshKeeps`). Every action is one of
three patterns: forget and create (`StartFacts`), reset and invalidate
(`ResetKeeps`), refresh (`RefreshKeeps`). `PlainCallsKeepValues` adds `AllLinked`:
without failing and clearing calls every formula is registered everywhere.

The refinement follows action by action from what each does to the texts
(`NextPromised`), with two facts about the graph: the walk that finds the cell
has come there over references, so any set of cells that contains what the new
text reads, and what is read from the set, contains the cell
(`RejectedClosesCycle`); and cells that reach themselves in `Sheet` are a set
each of which reads another of it (`CyclicIsCircular`).

Assumptions: the sets of texts are disjoint where the code tells them apart,
values of formulas are values, a formula's value depends only on the cells in
its reference list, and that list lies in the table.

`RecalculationProofs`, for every table, every stack bound and every text,
unreadable ones included: `WalkTypeCorrect`, `FreshReads` (whenever a formula is
evaluated nothing it reads is stale) and `BrokenCallsKeepTexts` (a call that
throws in the middle of a walk has changed no text). The inductive invariant
`WalkInv` is about the whole stack. `KindsOK`: no frame on the stack reads
values, or no frame has changed a text yet; `Install`, which is at the bottom of
the stack, is where a call goes from the one kind to the other. `WaitsOK`: what a
waiting `Update` frame still needs is in its loop or is being refreshed by the
frame directly above it. That a loop in the order of `operator<` skips nothing
comes from `StrictTotalOrder` and the well-foundedness of the naturals
(`FirstIsLeast`). The additional assumptions are that unreadable texts are
literals and that the bounds are naturals, the one on the stack no less than the
table needs (section 3).

With `WalkInv` and under the same assumptions the module proves what the two kinds
of walk leave behind, each from an invariant of its own:

- `InvalidationEnds`: invalidation overflows the stack only if the call began
  with a `usedBy` that lists a cell that is no formula. `InvalidationInv` says
  that while every entry stands for a formula (`UsersAreFormulas`; the cell that
  is being set is excepted until `Install`), `InvalidateCache` only descends into
  formulas whose flag it has just set, so there are at most as many frames as
  there are marks, plus three (`MarksOK`). Together with the run `leftover` this
  says exactly what the leftover entries of a broken call put at risk.
- `BrokenWalksAreHarmless`: a walk broken off by an exception that no handler
  catches leaves no cell, except the one that was to be set, valid with a wrong
  value or valid above an invalid one. `CachesInv` says of every moment of a
  refresh that what is valid is right (`CachesOK`), and of the stack that an
  `Update` frame stands for an invalid cell and the frame above it for one of its
  references (`RefreshesOK`): so whoever reads a cell that is being refreshed is
  still invalid.

`CallProofs` proves `CallsAreSteps`: what the calls of `Recalculation` do, one call
or return at a time and with the order of the references and the users that the
code's containers happen to have, is what the one step of `Sheet` does that stands
for the call. So the theorems about `Sheet` hold of the walks too, for every call
that no unreadable literal breaks off. The invariant `CallInv` says of every
moment of a call which of five kinds it is (`KnownCall`) and what it has done,
measured against the table it began with:

- `ReadCall`, for `GetValue` and `PrintValues`: the cells refreshed so far are among
  those `Sheet` refreshes (`RefreshesNeeded`), read no invalid cell any more, and
  hold the values of `Solution`, any solution of the formulas whose refresh ends
  (`ValuesOK`). That there is one is proved by adding one value after the other
  (`FreshExists`). The values agree with what `Evaluate` computes, because by then
  all it reads is valid, so the solution is the only one.
- `CheckCall`, for a formula until it is installed: besides that, each loop of
  `CheckDependency` on the stack has left only harmless cells behind it
  (`LoopOK`). From a harmless cell the walk reaches nothing invalid, not the cell
  to be set, and no cycle, so nothing later in the call changes what was read
  there, although the walk follows a cell by a value that was only just computed.
  When a loop meets the cell to be set, the frames of the loops are the path by
  which `Sheet` says there is a cycle, and all cells `Sheet` looks at lie before
  it (`FoundEnds`); when the last loop ends, there is none (`HarmlessEnds`).
- `TextCall`, `ClearCall`, `InstallCall`, which end with an invalidation: the cells
  marked are reached by `InvalidateCache` over the table as it was at its
  beginning, and a valid user of a marked cell is marked or still awaited by a
  loop (`MarkedOK`). In the last of the three `CreateMissing` comes between two
  such loops and adds holders and entries; it adds no user that is not marked.

A stack that is full has more refreshes or more loops of `CheckDependency` on it
than there are cells, so two for one cell, and what lies between is a cycle
(`TwoAlike`, `AlikeIsCycle`): the overflow that `Sheet` predicts, and the reason
that `MaxDepth` must not be less than the assumption says. An overflow of
`InvalidateCache` is no step of `Sheet`; `InvalidationEnds` says when there is none.
The proof needs one more invariant of the walks, that the printable size covers
every holder (`SizesOK`), to see that the table grows to what one step makes of it.

`SheetEditProofs` proves `EditTypeCorrect`: insertions, deletions and the calls
between them keep the table well-formed, for every size, index and count. The
loops of the code are folds, so each loop has a lemma: the fold exists and its
result keeps whatever its step keeps (`FoldExists`, `FoldKeeps`, proved by
induction on the number of cells left, as the cells of a loop are finite and
have a last one in its order). The invariant `EditInv` adds to the types that
`rowsCount` never exceeds the table: that is what keeps the rows that move
inside it, and why an insertion that would push them out throws.

It also proves `IntactTablesAreTidy` (`IntactIsTidy`) and `IntactCallsAreContract`
(`IntactCallsFollowContract`): for every table, every set of ranges and every
sequence of calls, edits that lose nothing leave exact graphs, right caches and
sizes that cover the cells, and each does to the texts what `ISheet` promises of
it. The invariant is `TidyInv`: `EditInv`, and a table that is intact is `Tidy`,
which is the invariant of `Sheet` (`GraphInv`) with every formula registered
wherever it reads (`AllLinked`), rows wide enough for their cells, and nothing
dangling. The calls of `Sheet` keep it by the lemmas of `SheetProofs`
(`CallTidy`). For an edit the argument has two halves.

- *What a finished loop leaves.* `Edited(e, to)` says that the holders that are
  left (`Kept`) stand where the new names `to` send them, that each formula among
  them has all its references renamed, that entries and caches are the old ones,
  except that a formula that lost a reference and all that uses it are stale.
  From that alone the renamed table has the invariant again (`EditedGraph`): an
  entry stands for a reference because both ends were renamed by one function,
  and a valid cache is still right because what it reads has moved with its value
  (`EditedReading`, which is where `RenamingAssumption` is used). The texts are
  the promised ones (`InsertedIsPromised`, `RemovedIsPromised`).
- *That the loops get there.* A loop is followed by the part `T` of its set that
  is done (`LoopInduction`, `LoopSteps`): `InsertedSo` and `Removing` say which
  holders are where, and that exactly the users of the holders visited so far are
  renamed. A formula is renamed once, although several moved cells list it,
  because `allreadyChanged` is the set of those users (`InsertUpdateStep`,
  `DeleteUpdateStep`). A holder is never moved onto one that is still needed:
  under `AllRowsMove` the target row is empty, `InsertCols` goes from the last
  column down, a deletion empties a place first. `ClearGraph` of a deleted formula
  finds all its entries (`ClearedStep`) as long as what it reads lies before the
  first deleted index and so has neither moved nor been renamed, which is
  `DeletedReadBefore`; and the `resize` at the end destroys nothing
  (`DestroyNothing`). At the end all that moves has been visited (`HasMoving`,
  `HasDeleted`), so all its users are renamed, and those that do not use it have
  nothing to rename.

Each condition of the table in section 3 is a hypothesis of the lemma about its
call, and the place where the proof uses it is the line of code that depends on
it.

`MCPositionProofs` proves both properties of the run `names`, with no bound on
the names: `HeadsAreNames` and `OnlyCellsAreValid`. The invariant `Counting`
says which column the letters reached stand for, one case for each length.

`ReferencesProofs` holds the lemmas about one renamed reference that
`FormulaRefsProofs` and `SheetEditProofs` share.

`PositionProofs`: `ColumnFirst` and `StrictTotalOrder` - `operator<` orders all
positions by column and then by row, so `set<Position>` loses no reference and
lists none twice; `NamesRoundTrip` - every position of the table is printed as a
name that reads back as that position (the three lengths of a column's letters
are separate cases, each from the division theorem).

`FormulaRefsProofs` proves the five properties of the run `edits` for every
formula, index and count: `RefsTypeCorrect`, `UndoRestores`, `ListStaysTrue`,
`LossIsReported`, `OrderIsKept`. `TypeOK` is inductive, and the others follow
from it and from what an insertion (`InsertedFacts`) and a deletion
(`RemovedFacts`) do to the two coordinates of one reference. The only
assumptions are that indices are not negative and counts are positive.

Model-checked only: `CallsReturn`, as liveness is out of the prover's reach (the
safety half of it, that only circular tables or leftover entries overflow, is
`CallsAreSteps` with `OverflowOnlyOnCycles` and `InvalidationEnds`);
everything about `Syntax`, whose trees need recursive operators and induction
over them; and the violations.

## 7. Not modelled
- Vendored and generated code: the ANTLR runtime and the parser and lexer it
  generates, which are most of the lines of the repository. They are no part of
  the table's logic; the grammar and the listener that use them are in `Syntax`.
- The tests, `profile.h` and `memchecker.h`: a harness and diagnostics.
- Rounding and overflow of doubles and the conversion of a literal beyond `int`
  (`ast.cpp:23`): numbers are exact fractions in `Syntax`, small integers
  elsewhere. The lexer: a text is a sequence of tokens. The characters that
  `PrintValues` and `PrintTexts` write; the recalculation that the first one does
  is modelled.
- A table of just under 16384 rows (`sheet.cpp:321`): the comparison is in
  `InsertTooMany`, but only a count that is far too large meets it in a run.
- The run of `SheetEdit` has texts that are formulas, literals and empty; the
  texts that make `SetCell` throw are in the runs of `Sheet` and `Recalculation`,
  and in the theorems about all three.

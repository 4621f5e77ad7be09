------------------------------- MODULE Sheet --------------------------------
(***************************************************************************)
(* One sheet: the cells' texts, the dependency graph (CellHolder::usedBy)  *)
(* and the cached formula values, under SetCell, ClearCell, GetValue and   *)
(* PrintValues.  The recursive walks over the graph are one step each:     *)
(* what InvalidateCache reaches, what a recalculation needs and what       *)
(* CheckDependency looks at are least sets closed under one relation.      *)
(*                                                                         *)
(* A holder is created once at a position and stays there until ClearCell  *)
(* destroys it, so the position stands for its address; an entry of usedBy *)
(* that names a position without a holder is a dangling pointer.           *)
(***************************************************************************)
EXTENDS Position

CONSTANTS
  Rows, Cols,        \* the part of the table the calls and the formulas use
  OtherHolders,      \* how many holders the other sheets may have (a static
                     \* counter of CellHolder counts them all)
  Literal,           \* texts stored as they are
  HugeLiteral,       \* digits of a number no double holds
  Formula,           \* formulas the parser accepts and Evaluate computes
  UnplacedFormula,   \* formulas that also name a cell outside the table
  HugeFormula,       \* formulas with a literal no double holds
  MalformedFormula,  \* texts after "=" that the grammar rejects
  Refs(_),           \* the positions a formula reads
  Apply(_, _),       \* its value, given the value read from every position
  Value, Errors, Zero, Div0,
  AsOperand(_),      \* what a formula reads from a literal
  Absent,            \* no holder
  EmptyText,         \* a holder whose InnerCell is null
  Stale              \* cacheInvalid is set; also the cache of other cells

Pos == {At(i, j) : i \in 0 .. Rows - 1, j \in 0 .. Cols - 1}

Content == {Absent, EmptyText} \cup Literal \cup Formula \cup HugeFormula

Text == {EmptyText} \cup Literal \cup HugeLiteral \cup Formula
          \cup UnplacedFormula \cup HugeFormula \cup MalformedFormula

ASSUME TableAssumption ==
  /\ Rows \in 1 .. kMaxRows /\ Cols \in 1 .. kMaxCols
  /\ OtherHolders \subseteq Nat /\ OtherHolders # {}

ASSUME TextAssumption ==
  /\ Absent \notin Text
  /\ EmptyText \notin Literal \cup HugeLiteral \cup Formula
                      \cup UnplacedFormula \cup HugeFormula \cup MalformedFormula
  /\ (Formula \cup UnplacedFormula) \cap (Literal \cup HugeFormula) = {}
  /\ Formula \cap UnplacedFormula = {}
  /\ Literal \cap HugeFormula = {}

ASSUME ValueAssumption ==
  /\ Errors \subseteq Value /\ Stale \notin Value
  /\ Zero \in Value /\ Div0 \in Value
  /\ \A t \in Literal : AsOperand(t) \in Value

ASSUME FormulaAssumption ==
  /\ \A f \in Formula \cup UnplacedFormula : Refs(f) \subseteq Pos
  /\ \A f \in Formula, v \in [Pos -> Value] : Apply(f, v) \in Value
  /\ \A f \in Formula, v \in [Pos -> Value] :
        Apply(f, v) = Apply(f, [q \in Pos |-> IF q \in Refs(f) THEN v[q] ELSE Zero])

VARIABLES
  content,    \* what each cell holds
  usedBy,     \* usedBy[r][p]: how often r's usedBy lists the holder at p
  cache,      \* the cached value of each formula cell
  rowsCount, colsCount,
  outcome     \* how the last call ended

vars == <<content, usedBy, cache, rowsCount, colsCount, outcome>>

Outcome == {"Ok", "InvalidPositionException", "FormulaException",
            "CircularDependencyException", "out_of_range", "StackOverflow"}

-----------------------------------------------------------------------------
(* Graphs: the least superset of S that next does not leave, and whether   *)
(* a walk along next inside T can go on for ever.                          *)

Closure(S, next) ==
  LET ends == Pos \cap (S \cup UNION {next[x] : x \in Pos})
  IN  {p \in ends : \A X \in SUBSET ends :
         (S \subseteq X /\ \A x \in X : next[x] \subseteq X) => p \in X}

Cyclic(T, next) ==
  \E X \in SUBSET T : X # {} /\ \A x \in X : next[x] \cap X # {}

-----------------------------------------------------------------------------
(* Cells.  Every operator takes the part of the state it reads, because a  *)
(* call changes it several times.                                          *)

CellExists(c, p) == c[p] # Absent

GetReferencedCells(t) == IF t \in Formula THEN Refs(t) ELSE {}

\* CreateCell at p: a holder with no InnerCell.
Created(c, p) == [c EXCEPT ![p] = IF @ = Absent THEN EmptyText ELSE @]

\* The formula cells whose cacheInvalid is set.
Invalid(c, k) == {p \in Pos : c[p] \in Formula /\ k[p] = Stale}

\* Mutant: the comparison of CreateCell off by one.
GrownShort(n, indices, max) ==
  {m \in 0 .. max : n <= m /\ (\A i \in indices : i <= m) /\ (m = n \/ m \in indices)}

\* CreateCell at each position of S: rowsCount and colsCount cover them.
Grown(n, indices, max) ==
  {m \in 0 .. max : /\ n <= m /\ \A i \in indices : i < m
                    /\ m = n \/ m - 1 \in indices}

GrowTo(S) ==
  /\ rowsCount' \in Grown(rowsCount, {q.row : q \in S}, Rows)
  /\ colsCount' \in Grown(colsCount, {q.col : q \in S}, Cols)

\* The same, then ClearCell's test of the number of holders of every sheet.
GrowToThenCount(S, c) ==
  \E others \in OtherHolders :
    IF others = 0 /\ \A q \in Pos : ~CellExists(c, q)
    THEN rowsCount' = 0 /\ colsCount' = 0
    ELSE GrowTo(S)

\* push_back of the holder at p to the usedBy of each position of refs.
Link(u, refs, p) ==
  [r \in Pos |-> [u[r] EXCEPT ![p] = IF r \in refs THEN @ + 1 ELSE @]]

\* Mutant: ClearUsedGraph erases without looking at what find returned.
UnlinkUnchecked(u, refs, p) ==
  [r \in Pos |-> [u[r] EXCEPT ![p] = IF r \in refs THEN @ - 1 ELSE @]]

\* ClearUsedGraph: one entry for the holder at p goes from each of them.
Unlink(u, refs, p) ==
  [r \in Pos |-> [u[r] EXCEPT ![p] = IF r \in refs /\ @ > 0 THEN @ - 1 ELSE @]]

\* Mutant: InvalidateCache does not go on from the direct dependents.
InvalidateCacheOnce(c, u, k, p) ==
  [q \in Pos |-> IF q = p \/ u[p][q] > 0 THEN Stale ELSE k[q]]

\* InvalidateCache(p): the walk does not go past a dependent that is
\* already invalid.
InvalidateCache(c, u, k, p) ==
  LET next == [q \in Pos |-> {d \in Pos : u[q][d] > 0 /\ d \notin Invalid(c, k)}]
  IN  [q \in Pos |-> IF q \in Closure({p}, next) THEN Stale ELSE k[q]]

-----------------------------------------------------------------------------
(* Recalculation: FormulaCell::Update, UpdateDependent and UpdateChache    *)
(* refresh the invalid cells a formula depends on, and Evaluate reads them.*)

\* For each cell, the cells it reads that have to be refreshed first.
StaleReads(c, k) ==
  [p \in Pos |-> GetReferencedCells(c[p]) \cap Invalid(c, k)]

\* Mutant: Update without UpdateDependent.
NeedItself(c, k, S) == S \cap Invalid(c, k)

\* The cells that a refresh of S refreshes.
Need(c, k, S) == Closure(S \cap Invalid(c, k), StaleReads(c, k))

\* The recursion of the refresh does not end.
Endless(c, k, S) == Cyclic(Need(c, k, S), StaleReads(c, k))

\* The invalid cells whose refresh ends.
Solvable(c, k) == {p \in Invalid(c, k) : ~Endless(c, k, {p})}

\* What a formula reads from each cell when f gives the fresh values.
\* (A cell outside f that is invalid is never read: the refresh would not end.)
Reading(c, k, f) ==
  [p \in Pos |-> IF p \in DOMAIN f THEN f[p]
                 ELSE IF c[p] \in Formula /\ k[p] # Stale THEN k[p]
                 ELSE IF c[p] \in Literal THEN AsOperand(c[p])
                 ELSE IF c[p] \in HugeFormula THEN Div0
                 ELSE Zero]

NoFresh == [p \in {} |-> Zero]

\* Every solvable cell has the value of its formula.
Fresh(c, k) ==
  {f \in [Solvable(c, k) -> Value] :
     \A p \in DOMAIN f : f[p] = Apply(c[p], Reading(c, k, f))}

\* The caches after the cells of T are refreshed.
Refreshed(k, T, v) == [p \in Pos |-> IF p \in T THEN v[p] ELSE k[p]]

-----------------------------------------------------------------------------
(* CheckDependency(p, refs).  It follows the references of the formula     *)
(* cells that hold an error and have a dependent, in the order of          *)
(* operator<, refreshes each cell it looks at, and stops at p.             *)

\* Mutant: the walk of CheckDependency goes to the users of a cell.
FollowedUsers(c, u, v, p) ==
  [q \in Pos |-> IF q # p /\ c[q] \in Formula THEN {d \in Pos : u[q][d] > 0} ELSE {}]

\* The references the walk follows from each cell; v gives the values.
Followed(c, u, v, p) ==
  [q \in Pos |-> IF /\ q # p /\ c[q] \in Formula /\ v[q] \in Errors
                    /\ \E d \in Pos : u[q][d] > 0
                 THEN Refs(c[q]) ELSE {}]

\* The cells from which the walk comes to p.
Leading(p, next) == Closure({p}, [q \in Pos |-> {r \in Pos : q \in next[r]}])

\* The references of R the walk looks at before it has found p.
LookedAt(R, leading) == {r \in R : \A e \in R : PosLess(e, r) => e \notin leading}

CycleFound(refs, p, next) == refs \cap Leading(p, next) # {}

Steps(p, next) ==
  LET leading == Leading(p, next)
  IN  [q \in Pos |-> LookedAt(next[q], leading)]

\* Every cell the walk looks at.
Examined(refs, p, next) == Closure(LookedAt(refs, Leading(p, next)), Steps(p, next))

-----------------------------------------------------------------------------
Init ==
  /\ content = [p \in Pos |-> Absent]
  /\ usedBy = [r \in Pos |-> [p \in Pos |-> 0]]
  /\ cache = [p \in Pos |-> Stale]
  /\ rowsCount = 0 /\ colsCount = 0
  /\ outcome = "Ok"

Running == outcome # "StackOverflow"

\* Mutant: SetCell without ClearUsedGraph.
ForgottenNothing(p) == usedBy

\* SetCell up to the choice by the text: the holder, and usedBy without the
\* entries of the formula it holds.
Started(p) == Created(content, p)
Forgotten(p) == Unlink(usedBy, GetReferencedCells(Started(p)[p]), p)

\* SetCell, GetCell and ClearCell of a position outside the table.
RejectPosition ==
  /\ Running
  /\ outcome' = "InvalidPositionException"
  /\ UNCHANGED <<content, usedBy, cache, rowsCount, colsCount>>

\* GetLastCall() == text.  A formula spelled otherwise does not get here.
SetCellToSameText(p) ==
  /\ Running
  /\ outcome' = "Ok"
  /\ content' = Started(p)
  /\ GrowTo({p})
  /\ UNCHANGED <<usedBy, cache>>

\* reset() to nothing, a LiteralCell or the ErrorCell of a HugeFormula.  The
\* loop that ends SetCell finds no valid dependent after it.
SetCellToText(p, t) ==
  /\ Running
  /\ t \in {EmptyText} \cup Literal \cup HugeFormula
  /\ t # Started(p)[p]
  /\ content' = [content EXCEPT ![p] = t]
  /\ usedBy' = Forgotten(p)
  /\ cache' = InvalidateCache(content', usedBy', cache, p)
  /\ GrowTo({p})
  /\ outcome' = "Ok"

\* Mutant: the cell is emptied before the text is parsed.
SetCellThrowsEmptied(p, t) ==
  /\ Running
  /\ t \in HugeLiteral \cup MalformedFormula
  /\ content' = [content EXCEPT ![p] = EmptyText]
  /\ usedBy' = Forgotten(p)
  /\ cache' = InvalidateCache(content', usedBy', cache, p)
  /\ GrowTo({p})
  /\ outcome' = IF t \in HugeLiteral THEN "out_of_range" ELSE "FormulaException"

\* The constructor of LiteralCell, or ParseFormula, throws after the entries
\* of the old formula are gone and before its cell is replaced.
SetCellThrows(p, t) ==
  /\ Running
  /\ t \in HugeLiteral \cup MalformedFormula
  /\ content' = Started(p)
  /\ usedBy' = Forgotten(p)
  /\ GrowTo({p})
  /\ outcome' = IF t \in HugeLiteral THEN "out_of_range" ELSE "FormulaException"
  /\ UNCHANGED cache

\* HandleFormulaCreation up to the end of CheckDependency.
Registered(p, t) ==
  Link(Forgotten(p), {r \in Refs(t) : CellExists(Started(p), r)}, p)

Walk(p, t, v) == Followed(Started(p), Registered(p, t), v, p)

\* The cells CheckDependency refreshes, one after the other.
Checked(p, t, v) == Examined(Refs(t), p, Walk(p, t, v)) \ {p}

\* Mutant: the new formula is in its cell before CheckDependency.
OverflowsInstalled(p, t, v) ==
  LET c == [Started(p) EXCEPT ![p] = t]
  IN  Endless(c, [cache EXCEPT ![p] = Stale], Checked(p, t, v))

\* A refresh, or CheckDependency itself, recurses without end.
Overflows(p, t, v) ==
  \/ Endless(Started(p), cache, Checked(p, t, v))
  \/ Cyclic(Examined(Refs(t), p, Walk(p, t, v)), Steps(p, Walk(p, t, v)))

CacheAfterCheck(p, t, v) ==
  Refreshed(cache, Need(Started(p), cache, Checked(p, t, v)), v)

Readings(p) ==
  {Reading(Started(p), cache, f) : f \in Fresh(Started(p), cache)}

SetCellOverflows(p, t) ==
  /\ Running
  /\ t \in Formula \cup UnplacedFormula
  /\ \E v \in Readings(p) : Overflows(p, t, v)
  /\ outcome' = "StackOverflow"
  /\ UNCHANGED <<content, usedBy, cache, rowsCount, colsCount>>

\* Mutant: a rejected formula clears its cell though the call did not create it.
SetCellRejectsAndClears(p, t) ==
  /\ Running
  /\ t \in Formula \cup UnplacedFormula
  /\ \E v \in Readings(p) :
       LET found == CycleFound(Refs(t), p, Walk(p, t, v))
       IN  /\ ~Overflows(p, t, v)
           /\ found \/ t \in UnplacedFormula
           /\ cache' = InvalidateCache(Started(p), Unlink(Registered(p, t), Refs(t), p),
                                       CacheAfterCheck(p, t, v), p)
           /\ outcome' = IF found THEN "CircularDependencyException"
                                  ELSE "FormulaException"
  /\ usedBy' = [Unlink(Registered(p, t), Refs(t), p) EXCEPT ![p] = [q \in Pos |-> 0]]
  /\ GrowToThenCount({p}, content)
  /\ content' = [content EXCEPT ![p] = Absent]

\* A cycle is found, or Evaluate meets the position outside the table: the
\* new entries go, and the holder if this call created it.
SetCellRejects(p, t) ==
  /\ Running
  /\ t \in Formula \cup UnplacedFormula
  /\ \E v \in Readings(p) :
       LET found == CycleFound(Refs(t), p, Walk(p, t, v))
       IN  /\ ~Overflows(p, t, v)
           /\ found \/ t \in UnplacedFormula
           /\ cache' = CacheAfterCheck(p, t, v)
           /\ outcome' = IF found THEN "CircularDependencyException"
                                  ELSE "FormulaException"
  /\ usedBy' = Unlink(Registered(p, t), Refs(t), p)
  /\ GrowToThenCount({p}, content)
  /\ UNCHANGED content

\* reset() to the FormulaCell, then a holder for each missing reference.  All
\* references that exist are fresh by now, so UpdateChache finds nothing to do.
SetCellToFormula(p, t) ==
  /\ Running
  /\ t \in Formula
  /\ \E v \in Readings(p) :
       LET c == [Started(p) EXCEPT ![p] = t]
       IN  /\ ~Overflows(p, t, v)
           /\ ~CycleFound(Refs(t), p, Walk(p, t, v))
           /\ cache' = InvalidateCache(c, Registered(p, t),
                                       CacheAfterCheck(p, t, v), p)
  /\ content' = [q \in Pos |-> IF q = p THEN t
                               ELSE IF q \in Refs(t) /\ content[q] = Absent
                                    THEN EmptyText ELSE content[q]]
  /\ usedBy' = Link(Registered(p, t),
                    {r \in Refs(t) : ~CellExists(Started(p), r)}, p)
  /\ GrowTo({p} \cup Refs(t))
  /\ outcome' = "Ok"

\* Mutant: ClearGraph before InvalidateCache.
ClearCellForgetsFirst(p) ==
  /\ Running
  /\ usedBy' = [Unlink(usedBy, GetReferencedCells(content[p]), p)
                  EXCEPT ![p] = [q \in Pos |-> 0]]
  /\ cache' = InvalidateCache(content, usedBy', cache, p)
  /\ content' = [content EXCEPT ![p] = Absent]
  /\ GrowToThenCount({}, content')
  /\ outcome' = "Ok"

\* With no holder at p the call only counts the holders: then usedBy[p] is
\* empty, and nothing else below changes anything.
ClearCell(p) ==
  /\ Running
  /\ cache' = InvalidateCache(content, usedBy, cache, p)
  /\ content' = [content EXCEPT ![p] = Absent]
  /\ usedBy' = [Unlink(usedBy, GetReferencedCells(content[p]), p)
                  EXCEPT ![p] = [q \in Pos |-> 0]]
  /\ GrowToThenCount({}, content')
  /\ outcome' = "Ok"

\* CellHolder::GetValue of each cell of S, in any order.
Recalculate(S) ==
  /\ Running
  /\ Need(content, cache, S) # {}
  /\ IF Endless(content, cache, S)
     THEN outcome' = "StackOverflow" /\ UNCHANGED cache
     ELSE /\ outcome' = "Ok"
          /\ \E f \in Fresh(content, cache) :
               cache' = Refreshed(cache, Need(content, cache, S),
                                  Reading(content, cache, f))
  /\ UNCHANGED <<content, usedBy, rowsCount, colsCount>>

GetValue(p) == Recalculate({p})

PrintValues ==
  Recalculate({p \in Pos : p.row < rowsCount /\ p.col < colsCount})

SetCell(p, t) ==
  \/ SetCellToText(p, t) \/ SetCellThrows(p, t)
  \/ SetCellOverflows(p, t) \/ SetCellRejects(p, t) \/ SetCellToFormula(p, t)

Next ==
  \/ RejectPosition \/ PrintValues
  \/ \E p \in Pos : \/ SetCellToSameText(p) \/ ClearCell(p) \/ GetValue(p)
                    \/ \E t \in Text : SetCell(p, t)

Spec == Init /\ [][Next]_vars

-----------------------------------------------------------------------------
(* What every state and every step of a sheet satisfies.                   *)

TypeOK ==
  /\ content \in [Pos -> Content]
  /\ usedBy \in [Pos -> [Pos -> Nat]]
  /\ cache \in [Pos -> Value \cup {Stale}]
  /\ rowsCount \in 0 .. Rows /\ colsCount \in 0 .. Cols
  /\ outcome \in Outcome

\* No dangling or duplicate pointer in the dependency graph: whoever usedBy
\* lists is a holder whose formula, as it is now, reads the cell that lists
\* it, and is listed once (SetCell, ClearUsedGraph, ClearGraph).
EdgesMatchFormulas ==
  \A r, p \in Pos : usedBy[r][p] > 0 =>
    /\ usedBy[r][p] = 1
    /\ CellExists(content, r)
    /\ r \in GetReferencedCells(content[p])

\* InvalidateCache may stop at a dependent that is already invalid: all that
\* depends on an invalid cell through usedBy is invalid too.
StaleUpwards ==
  \A r, p \in Pos :
    (usedBy[r][p] > 0 /\ r \in Invalid(content, cache)) => p \in Invalid(content, cache)

\* The formula cell at p is listed by every cell it reads.
Linked(p) == \A r \in GetReferencedCells(content[p]) : usedBy[r][p] > 0

\* A valid formula cell that every cell it reads knows of caches the value its
\* formula has for what those cells show now: no chain of edits, clears,
\* refreshes and rejected calls leaves it behind.
LinkedCellsAreCurrent ==
  \A p \in Pos :
    (content[p] \in Formula /\ cache[p] # Stale /\ Linked(p)) =>
      /\ \A r \in Refs(content[p]) : r \notin Invalid(content, cache)
      /\ cache[p] = Apply(content[p], Reading(content, cache, NoFresh))

\* GetPrintableSize covers every holder, so printing misses no text, and a
\* holder it leaves out does not exist.
SizeCovers ==
  \A p \in Pos : CellExists(content, p) => p.row < rowsCount /\ p.col < colsCount

\* Everything that depends on p along usedBy, directly or not.
Dependents(p) == Closure({p}, [q \in Pos |-> {d \in Pos : usedBy[q][d] > 0}])

\* A call that changes the text of p leaves none of its registered dependents,
\* however far, with the value it had: not even ClearCell, which then forgets
\* who depended on p.
ChangesReachDependents ==
  [][\A p \in Pos : content'[p] # Started(p)[p] =>
       \A d \in Dependents(p) \ {p} : cache'[d] = Stale]_vars

GetText(t) == IF t = Absent THEN EmptyText ELSE t

\* A call that throws leaves the text of every cell as it was, whatever it had
\* done before it failed (the contract of SetCell).
RejectedKeepsTexts ==
  [][outcome' # "Ok" => \A p \in Pos : GetText(content'[p]) = GetText(content[p])]_vars

\* CheckDependency accuses no formula that closes no cycle, whatever errors,
\* stale caches and missing entries of usedBy it meets on its way.
OnlyCyclesAreRejected ==
  [][outcome' = "CircularDependencyException" =>
       \A p \in Pos, t \in Formula \cup UnplacedFormula : SetCellRejects(p, t) =>
         p \in Closure(Refs(t), [q \in Pos |-> GetReferencedCells(content[q])])]_vars

\* No walk of the code recurses without end unless the formulas of the table
\* form a cycle.
OverflowNeedsCycle ==
  outcome = "StackOverflow" =>
    Cyclic(Pos, [p \in Pos |-> GetReferencedCells(content[p])])

-----------------------------------------------------------------------------
(* The calls, seen as calls of ISheet.                                     *)

Texts == [p \in Pos |-> GetText(content[p])]

TextReads(t) == IF t \in Formula \cup UnplacedFormula THEN Refs(t) ELSE {}

Contract == INSTANCE Spreadsheet WITH
  Cells <- Pos, Empty <- EmptyText, Stored <- Content \ {Absent},
  Formulas <- Formula \cup UnplacedFormula, Reads <- TextReads, texts <- Texts

\* Every call changes the text of the cell it names and of no other, or fails
\* and changes none; it fails as circular, or overflows, only where formulas
\* form a cycle.
ImplementsContract == Contract!Spec

-----------------------------------------------------------------------------
(* What the interface promises and the code does not keep.                 *)

\* SetCell throws CircularDependencyException for a formula that leads to a
\* cyclic dependency, so no formulas of the table form a cycle.
NoCircularDependency ==
  ~Cyclic(Pos, [p \in Pos |-> GetReferencedCells(content[p])])

\* GetValue of a formula cell is the value of the formula: a valid cache holds
\* what the formula computes from what the cells it reads show now.
CachedValueIsCurrent ==
  \A p \in Pos :
    (content[p] \in Formula /\ cache[p] # Stale) =>
      cache[p] = Apply(content[p], Reading(content, cache, NoFresh))

\* Calls none of which fails, and none of which clears a cell.
NextWithoutClear ==
  \/ PrintValues
  \/ \E p \in Pos : \/ SetCellToSameText(p) \/ GetValue(p)
                    \/ \E t \in Text : SetCell(p, t)
NextWithoutThrow == Next /\ outcome' = "Ok"
NextPlainCall == NextWithoutClear /\ outcome' = "Ok"

SpecWithoutThrow == Init /\ [][NextWithoutThrow]_vars
SpecPlainCalls == Init /\ [][NextPlainCall]_vars
=============================================================================

------------------------------ MODULE CallProofs ------------------------------
(***************************************************************************)
(* Call by call, Recalculation does what the steps of Sheet say.           *)
(*                                                                         *)
(* A call that runs is of one of five kinds, each with what it has done so *)
(* far in terms of the table it began with: the cells a refresh has come   *)
(* to hold the values that solve their formulas; the loops of              *)
(* CheckDependency have left only harmless cells behind them; the loops of *)
(* InvalidateCache have marked cells that it reaches, and still await the  *)
(* valid users of all of those.  When the call ends that is what the step  *)
(* of Sheet does, and a stack that is full shows a recursion without end.  *)
(***************************************************************************)
EXTENDS RecalculationProofs

-----------------------------------------------------------------------------
(* The steps of Sheet on the table the caller sees.                        *)

\* Sheet computes on that table with the same operators: on graphs,
LEMMA SeenGraphs ==
  /\ Seen!Pos = Pos
  /\ \A S, next : Seen!Closure(S, next) = Closure(S, next)
  /\ \A T, next : Seen!Cyclic(T, next) = Cyclic(T, next)
<1>1. Seen!Pos = Pos
  BY DEF Seen!Pos, Pos, Seen!At, At
<1>2. \A S, next : Seen!Closure(S, next) = Closure(S, next)
  BY <1>1 DEF Seen!Closure, Closure
<1>3. \A T, next : Seen!Cyclic(T, next) = Cyclic(T, next)
  BY DEF Seen!Cyclic, Cyclic
<1>. QED BY <1>1, <1>2, <1>3

\* on cells, entries and sizes,
LEMMA SeenCells ==
  /\ \A c, p : Seen!CellExists(c, p) = CellExists(c, p)
  /\ \A t : Seen!GetReferencedCells(t) = GetReferencedCells(t)
  /\ \A c, p : Seen!Created(c, p) = Created(c, p)
  /\ \A c, k : Seen!Invalid(c, k) = Invalid(c, k)
  /\ \A u, refs, p : Seen!Link(u, refs, p) = Link(u, refs, p)
  /\ \A u, refs, p : Seen!Unlink(u, refs, p) = Unlink(u, refs, p)
  /\ \A c, u, k, p : Seen!InvalidateCache(c, u, k, p) = InvalidateCache(c, u, k, p)
  /\ \A n, S, max : Seen!Grown(n, S, max) = Grown(n, S, max)
<1>1. \A c, k : Seen!Invalid(c, k) = Invalid(c, k)
  BY SeenGraphs DEF Seen!Invalid, Invalid
<1>2. \A c, p : Seen!CellExists(c, p) = CellExists(c, p)
  BY DEF Seen!CellExists, CellExists
<1>3. \A t : Seen!GetReferencedCells(t) = GetReferencedCells(t)
  BY DEF Seen!GetReferencedCells, GetReferencedCells
<1>4. \A c, p : Seen!Created(c, p) = Created(c, p)
  BY DEF Seen!Created, Created
<1>5. /\ \A u, refs, p : Seen!Link(u, refs, p) = Link(u, refs, p)
      /\ \A u, refs, p : Seen!Unlink(u, refs, p) = Unlink(u, refs, p)
  BY SeenGraphs DEF Seen!Link, Link, Seen!Unlink, Unlink
<1>6. \A c, u, k, p : Seen!InvalidateCache(c, u, k, p) = InvalidateCache(c, u, k, p)
  BY SeenGraphs, <1>1 DEF Seen!InvalidateCache, InvalidateCache
<1>7. \A n, S, max : Seen!Grown(n, S, max) = Grown(n, S, max)
  BY DEF Seen!Grown, Grown
<1>. QED BY <1>1, <1>2, <1>3, <1>4, <1>5, <1>6, <1>7

\* on refreshes,
LEMMA SeenRefreshes ==
  /\ \A c, k : Seen!StaleReads(c, k) = StaleReads(c, k)
  /\ \A c, k, S : Seen!Need(c, k, S) = Need(c, k, S)
  /\ \A c, k, S : Seen!Endless(c, k, S) = Endless(c, k, S)
  /\ \A c, k : Seen!Solvable(c, k) = Solvable(c, k)
  /\ \A c, k, f : Seen!Reading(c, k, f) = Reading(c, k, f)
  /\ \A c, k : Seen!Fresh(c, k) = Fresh(c, k)
  /\ \A k, T, v : Seen!Refreshed(k, T, v) = Refreshed(k, T, v)
<1>1. \A c, k : Seen!StaleReads(c, k) = StaleReads(c, k)
  BY SeenGraphs, SeenCells DEF Seen!StaleReads, StaleReads
<1>2. \A c, k, S : Seen!Need(c, k, S) = Need(c, k, S)
  BY SeenGraphs, SeenCells, <1>1 DEF Seen!Need, Need
<1>3. \A c, k, S : Seen!Endless(c, k, S) = Endless(c, k, S)
  BY SeenGraphs, <1>1, <1>2 DEF Seen!Endless, Endless
<1>4. \A c, k : Seen!Solvable(c, k) = Solvable(c, k)
  BY SeenCells, <1>3 DEF Seen!Solvable, Solvable
<1>5. \A c, k, f : Seen!Reading(c, k, f) = Reading(c, k, f)
  BY SeenGraphs DEF Seen!Reading, Reading
<1>6. \A c, k : Seen!Fresh(c, k) = Fresh(c, k)
  BY <1>4, <1>5 DEF Seen!Fresh, Fresh
<1>7. \A k, T, v : Seen!Refreshed(k, T, v) = Refreshed(k, T, v)
  BY SeenGraphs DEF Seen!Refreshed, Refreshed
<1>. QED BY <1>1, <1>2, <1>3, <1>4, <1>5, <1>6, <1>7

\* and on the walk of CheckDependency.
LEMMA SeenChecks ==
  /\ \A c, u, v, p : Seen!Followed(c, u, v, p) = Followed(c, u, v, p)
  /\ \A p, next : Seen!Leading(p, next) = Leading(p, next)
  /\ \A R, leading : Seen!LookedAt(R, leading) = LookedAt(R, leading)
  /\ \A refs, p, next : Seen!CycleFound(refs, p, next) = CycleFound(refs, p, next)
  /\ \A p, next : Seen!Steps(p, next) = Steps(p, next)
  /\ \A refs, p, next : Seen!Examined(refs, p, next) = Examined(refs, p, next)
<1>1. \A c, u, v, p : Seen!Followed(c, u, v, p) = Followed(c, u, v, p)
  BY SeenGraphs DEF Seen!Followed, Followed
<1>2. \A p, next : Seen!Leading(p, next) = Leading(p, next)
  BY SeenGraphs DEF Seen!Leading, Leading
<1>3. \A R, leading : Seen!LookedAt(R, leading) = LookedAt(R, leading)
  BY DEF Seen!LookedAt, LookedAt, Seen!PosLess, PosLess
<1>4. \A refs, p, next : Seen!CycleFound(refs, p, next) = CycleFound(refs, p, next)
  BY <1>2 DEF Seen!CycleFound, CycleFound
<1>5. \A p, next : Seen!Steps(p, next) = Steps(p, next)
  BY SeenGraphs, <1>2, <1>3 DEF Seen!Steps, Steps
<1>6. \A refs, p, next : Seen!Examined(refs, p, next) = Examined(refs, p, next)
  BY SeenGraphs, <1>2, <1>3, <1>5 DEF Seen!Examined, Examined
<1>. QED BY <1>1, <1>2, <1>3, <1>4, <1>5, <1>6

\* The table the call begins to work on, and the entries of usedBy without
\* those of the old formula and with those of the new one.
Start == Created(call.content, call.cell)
Unlisted == Unlink(call.usedBy, GetReferencedCells(Start[call.cell]), call.cell)
Listed == Link(Unlisted, {r \in Refs(call.text) : CellExists(Start, r)}, call.cell)

\* The size of the table covers the cells of S as well.
Grew(S) ==
  /\ rowsCount \in Grown(call.rowsCount, {q.row : q \in S}, Rows)
  /\ colsCount \in Grown(call.colsCount, {q.col : q \in S}, Cols)
SameSize == rowsCount = call.rowsCount /\ colsCount = call.colsCount

\* What a step that ends a call shows its caller.
LEMMA SeenEnd ==
  ASSUME ~Idle, Idle', outcome' # "StackOverflow"
  PROVE  /\ ~Unseen' /\ Unseen /\ Idle' /\ ~Idle
         /\ Seen!Started(call.cell) = Start /\ Seen!Forgotten(call.cell) = Unlisted
         /\ Seen!Registered(call.cell, call.text) = Listed
         /\ Seen!Running
<1>1. ~Unseen' /\ Unseen
  BY DEF Unseen
<1>2. Seen!Started(call.cell) = Start
  BY <1>1, SeenCells DEF Seen!Started, Start
<1>3. Seen!Forgotten(call.cell) = Unlisted
  BY <1>1, <1>2, SeenCells DEF Seen!Forgotten, Unlisted
<1>4. Seen!Registered(call.cell, call.text) = Listed
  BY <1>2, <1>3, SeenCells DEF Seen!Registered, Listed
<1>. QED BY <1>1, <1>2, <1>3, <1>4 DEF Seen!Running

\* The invalidation that ends a SetCell without formula.
LEMMA TextIsSheetStep ==
  ASSUME ~Idle, Idle', outcome' = "Ok", call.op = "SetCell",
         call.text \in {EmptyText} \cup Literal \cup HugeFormula,
         call.text # Start[call.cell],
         content' = [call.content EXCEPT ![call.cell] = call.text], usedBy' = Unlisted,
         cache' = InvalidateCache(content', usedBy', call.cache, call.cell),
         rowsCount' \in Grown(call.rowsCount, {q.row : q \in {call.cell}}, Rows),
         colsCount' \in Grown(call.colsCount, {q.col : q \in {call.cell}}, Cols)
  PROVE  SheetStep
<1>1. Seen!SetCellToText(call.cell, call.text)
  BY SeenEnd, SeenCells DEF Seen!SetCellToText, Seen!GrowTo
<1>. QED BY <1>1 DEF SheetStep, Seen!SetCell

\* The end of ClearCell.
LEMMA ClearIsSheetStep ==
  ASSUME ~Idle, Idle', outcome' = "Ok", call.op = "ClearCell",
         content' = [call.content EXCEPT ![call.cell] = Absent],
         usedBy' = [Unlink(call.usedBy, GetReferencedCells(call.content[call.cell]), call.cell)
                      EXCEPT ![call.cell] = [q \in Pos |-> 0]],
         cache' = InvalidateCache(call.content, call.usedBy, call.cache, call.cell),
         SameSize, GrowToThenCount({}, content')
  PROVE  SheetStep
<1>1. Seen!GrowToThenCount({}, content')
  BY SeenEnd, SeenCells, SeenGraphs
     DEF Seen!GrowToThenCount, GrowToThenCount, Seen!GrowTo, GrowTo, SameSize
<1>2. Seen!ClearCell(call.cell)
  BY <1>1, SeenEnd, SeenCells, SeenGraphs DEF Seen!ClearCell
<1>. QED BY <1>2 DEF SheetStep

\* The table while values are computed, and the values: any solution of the
\* formulas will do, as it is the only one.
Base == IF call.op = "SetCell" THEN Start ELSE call.content
Solution == CHOOSE f \in Fresh(Base, call.cache) : TRUE
Shown == Reading(Base, call.cache, Solution)

\* The walk of CheckDependency, and the cells it looks at.
Follows == Followed(Start, Listed, Shown, call.cell)
Looked == Examined(Refs(call.text), call.cell, Follows) \ {call.cell}
Overflowing ==
  \/ Endless(Start, call.cache, Looked)
  \/ Cyclic(Examined(Refs(call.text), call.cell, Follows), Steps(call.cell, Follows))
Found == CycleFound(Refs(call.text), call.cell, Follows)

\* The cells whose values the call needs, and those it refreshes for that.
Targets ==
  IF call.op = "SetCell" THEN Looked
  ELSE IF call.op = "GetValue" THEN {call.cell}
  ELSE {q \in Pos : q.row < call.rowsCount /\ q.col < call.colsCount}
Needed == Need(Base, call.cache, Targets)

CallTypes ==
  /\ call.op \in {"SetCell", "ClearCell", "GetValue", "PrintValues"}
  /\ call.cell \in Pos /\ call.content \in Contents
  /\ call.usedBy \in Graph /\ call.cache \in Cache

\* The table CreateCell leaves, and the graphs of the call, have their types.
LEMMA StartOfCall ==
  ASSUME CallTypes
  PROVE  /\ Start \in Contents /\ Base \in Contents
         /\ Unlisted \in Graph /\ Listed \in Graph
         /\ \A q \in Pos : q # call.cell => Start[q] = call.content[q]
         /\ CellExists(call.content, call.cell) => Start = call.content
         /\ ~CellExists(call.content, call.cell) =>
              Start[call.cell] = EmptyText /\ call.content[call.cell] = Absent
<1>1. /\ Start \in Contents
      /\ \A q \in Pos : q # call.cell => Start[q] = call.content[q]
      /\ CellExists(call.content, call.cell) => Start = call.content
      /\ ~CellExists(call.content, call.cell) =>
           Start[call.cell] = EmptyText /\ call.content[call.cell] = Absent
  BY DEF CallTypes, Start, Created, CellExists, Contents, Content
<1>2. Unlisted \in Graph
  BY UnlinkFacts DEF CallTypes, Unlisted
<1>3. Listed \in Graph
  BY <1>2, LinkFacts DEF CallTypes, Listed
<1>. QED BY <1>1, <1>2, <1>3 DEF Base, CallTypes

\* The values computed solve the formulas of the cells whose refresh ends.
LEMMA ShownFacts ==
  ASSUME CallTypes
  PROVE  /\ Solution \in Fresh(Base, call.cache)
         /\ Solution \in [Solvable(Base, call.cache) -> Value]
         /\ Shown \in [Pos -> Value]
         /\ \A q \in Solvable(Base, call.cache) :
              Shown[q] = Apply(Base[q], Shown) /\ q \in Invalid(Base, call.cache)
<1>1. Base \in Contents /\ call.cache \in Cache
  BY StartOfCall DEF CallTypes
<1>2. Solution \in Fresh(Base, call.cache)
  BY <1>1, FreshExists DEF Solution
<1>3. Solvable(Base, call.cache) \subseteq Invalid(Base, call.cache)
      /\ Invalid(Base, call.cache) \subseteq Pos
  BY DEF Solvable, Invalid
<1>4. /\ Solution \in [Solvable(Base, call.cache) -> Value]
      /\ \A q \in Solvable(Base, call.cache) : Solution[q] = Apply(Base[q], Shown)
  BY <1>2 DEF Fresh, Shown
<1>5. /\ Shown \in [Pos -> Value]
      /\ \A q \in Solvable(Base, call.cache) : Shown[q] = Solution[q]
  BY <1>1, <1>3, <1>4, ReadingType DEF Shown
<1>. QED BY <1>2, <1>3, <1>4, <1>5

\* The last refresh of a GetValue or of PrintValues.
LEMMA ReadIsSheetStep ==
  ASSUME ~Idle, Idle', outcome' = "Ok", CallTypes, call.op \in {"GetValue", "PrintValues"},
         content' = call.content, usedBy' = call.usedBy,
         rowsCount' = call.rowsCount, colsCount' = call.colsCount,
         Needed # {}, ~Endless(Base, call.cache, Targets),
         cache' = Refreshed(call.cache, Needed, Shown)
  PROVE  SheetStep
<1>1. Base = call.content
  BY DEF Base
<1>2. Seen!Recalculate(Targets)
  BY <1>1, SeenEnd, SeenRefreshes, ShownFacts DEF Seen!Recalculate, Needed, Shown
<1>3. CASE call.op = "GetValue"
  BY <1>2, <1>3 DEF SheetStep, Seen!GetValue, Targets
<1>4. CASE call.op = "PrintValues"
  <2>1. Targets = {q \in Seen!Pos : q.row < call.rowsCount /\ q.col < call.colsCount}
    BY <1>4, SeenGraphs DEF Targets
  <2>2. Seen!PrintValues
    BY <1>2, <2>1, SeenEnd DEF Seen!PrintValues
  <2>. QED BY <1>4, <2>2 DEF SheetStep
<1>. QED BY <1>3, <1>4

\* A recursion of a refresh that does not end.
LEMMA EndlessIsSheetStep ==
  ASSUME ~Idle, Idle', outcome' = "StackOverflow", call' = call, CallTypes,
         call.op \in {"GetValue", "PrintValues"},
         Needed # {}, Endless(Base, call.cache, Targets)
  PROVE  SheetStep
<1>1. Base = call.content
  BY DEF Base
<1>2. Unseen /\ Unseen'
  BY DEF Unseen
<1>3. Seen!Recalculate(Targets)
  BY <1>1, <1>2, SeenRefreshes DEF Seen!Recalculate, Needed, Seen!Running
<1>4. CASE call.op = "GetValue"
  BY <1>3, <1>4 DEF SheetStep, Seen!GetValue, Targets
<1>5. CASE call.op = "PrintValues"
  <2>1. Targets = {q \in Seen!Pos : q.row < call.rowsCount /\ q.col < call.colsCount}
    BY <1>5, SeenGraphs DEF Targets
  <2>2. Seen!PrintValues
    BY <1>2, <1>3, <2>1 DEF Seen!PrintValues
  <2>. QED BY <1>5, <2>2 DEF SheetStep
<1>. QED BY <1>4, <1>5

\* The walk of CheckDependency as the step of Sheet has it.
LEMMA SeenWalk ==
  ASSUME ~Idle, CallTypes, call.op = "SetCell"
  PROVE  /\ Shown \in Seen!Readings(call.cell)
         /\ Seen!Overflows(call.cell, call.text, Shown) = Overflowing
         /\ Seen!CycleFound(Refs(call.text), call.cell, Seen!Walk(call.cell, call.text, Shown))
              = Found
         /\ Seen!CacheAfterCheck(call.cell, call.text, Shown)
              = Refreshed(call.cache, Needed, Shown)
<1>1. Unseen /\ Base = Start /\ Targets = Looked
  BY DEF Unseen, Base, Targets
<1>2. Seen!Started(call.cell) = Start
  BY <1>1, SeenCells DEF Seen!Started, Start
<1>3. Seen!Registered(call.cell, call.text) = Listed
  BY <1>1, <1>2, SeenCells DEF Seen!Registered, Listed, Seen!Forgotten, Unlisted
<1>4. Seen!Walk(call.cell, call.text, Shown) = Follows
  BY <1>2, <1>3, SeenChecks DEF Seen!Walk, Follows
<1>5. Seen!Checked(call.cell, call.text, Shown) = Looked
  BY <1>4, SeenChecks DEF Seen!Checked, Looked
<1>6. Shown \in Seen!Readings(call.cell)
  BY <1>1, <1>2, SeenRefreshes, ShownFacts DEF Seen!Readings, Shown
<1>7. Seen!Overflows(call.cell, call.text, Shown) = Overflowing
  BY <1>1, <1>2, <1>4, <1>5, SeenRefreshes, SeenChecks, SeenGraphs DEF Seen!Overflows, Overflowing
<1>8. Seen!CacheAfterCheck(call.cell, call.text, Shown) = Refreshed(call.cache, Needed, Shown)
  BY <1>1, <1>2, <1>5, SeenRefreshes DEF Seen!CacheAfterCheck, Needed
<1>. QED BY <1>4, <1>6, <1>7, <1>8, SeenChecks DEF Found

\* The recursion of a CheckDependency that does not end.
LEMMA OverflowIsSheetStep ==
  ASSUME ~Idle, Idle', outcome' = "StackOverflow", call' = call, CallTypes,
         call.op = "SetCell", call.text \in Formula \cup UnplacedFormula, Overflowing
  PROVE  SheetStep
<1>1. Unseen /\ Unseen'
  BY DEF Unseen
<1>2. Seen!SetCellOverflows(call.cell, call.text)
  BY <1>1, SeenWalk DEF Seen!SetCellOverflows, Seen!Running
<1>. QED BY <1>2 DEF SheetStep, Seen!SetCell

\* A table that has grown does not grow any more for no cell.
LEMMA GrewEnough ==
  ASSUME Grew({call.cell}), NEW c, GrowToThenCount({}, c)
  PROVE  \E others \in OtherHolders :
           IF others = 0 /\ \A q \in Pos : ~CellExists(c, q)
           THEN rowsCount' = 0 /\ colsCount' = 0
           ELSE /\ rowsCount' \in Grown(call.rowsCount, {q.row : q \in {call.cell}}, Rows)
                /\ colsCount' \in Grown(call.colsCount, {q.col : q \in {call.cell}}, Cols)
<1>1. GrowTo({}) => rowsCount' = rowsCount /\ colsCount' = colsCount
  BY DEF GrowTo, Grown
<1>. QED BY <1>1 DEF GrowToThenCount, Grew

\* A formula that is not accepted.
LEMMA RejectIsSheetStep ==
  ASSUME ~Idle, Idle', CallTypes, call.op = "SetCell",
         call.text \in Formula \cup UnplacedFormula,
         Grew({call.cell}), ~Overflowing, Found \/ call.text \in UnplacedFormula,
         outcome' = IF Found THEN "CircularDependencyException" ELSE "FormulaException",
         content = Start, usedBy = Listed, cache = Refreshed(call.cache, Needed, Shown),
         Reject(outcome')
  PROVE  SheetStep
<1>1. /\ usedBy' = Unlink(Listed, Refs(call.text), call.cell)
      /\ content' = [Start EXCEPT ![call.cell] =
                       IF CellExists(call.content, call.cell) THEN @ ELSE Absent]
      /\ GrowToThenCount({}, content') /\ cache' = cache
  BY DEF Reject
<1>2. content' = call.content
  <2>1. /\ Start \in [Pos -> Content] /\ call.content \in [Pos -> Content]
        /\ call.cell \in Pos
    BY StartOfCall DEF CallTypes, Contents
  <2>. QED BY <1>1, <2>1, StartOfCall DEF CallTypes, CellExists
<1>3. outcome' # "StackOverflow"
  OBVIOUS
<1>4. Seen!GrowToThenCount({call.cell}, call.content)
  <2>1. PICK others \in OtherHolders :
          IF others = 0 /\ \A q \in Pos : ~CellExists(call.content, q)
          THEN rowsCount' = 0 /\ colsCount' = 0
          ELSE /\ rowsCount' \in Grown(call.rowsCount, {q.row : q \in {call.cell}}, Rows)
               /\ colsCount' \in Grown(call.colsCount, {q.col : q \in {call.cell}}, Cols)
    BY <1>1, <1>2, GrewEnough
  <2>2. ~Unseen' /\ Unseen
    BY <1>3, SeenEnd
  <2>. QED BY <2>1, <2>2, SeenCells, SeenGraphs DEF Seen!GrowToThenCount, Seen!GrowTo
<1>5. Seen!SetCellRejects(call.cell, call.text)
  BY <1>1, <1>2, <1>3, <1>4, SeenEnd, SeenWalk, SeenCells DEF Seen!SetCellRejects
<1>. QED BY <1>5 DEF SheetStep, Seen!SetCell

Installed == [Start EXCEPT ![call.cell] = call.text]
Missing == {r \in Refs(call.text) : ~CellExists(Start, r)}

\* A formula that is accepted.
LEMMA FormulaIsSheetStep ==
  ASSUME ~Idle, Idle', outcome' = "Ok", CallTypes, call.op = "SetCell",
         call.text \in Formula, ~Overflowing, ~Found,
         content' = [q \in Pos |-> IF q \in Missing THEN EmptyText ELSE Installed[q]],
         usedBy' = Link(Listed, Missing, call.cell),
         cache' = InvalidateCache(Installed, Listed, Refreshed(call.cache, Needed, Shown),
                                  call.cell),
         rowsCount' \in Grown(call.rowsCount,
                              {q.row : q \in {call.cell} \cup Refs(call.text)}, Rows),
         colsCount' \in Grown(call.colsCount,
                              {q.col : q \in {call.cell} \cup Refs(call.text)}, Cols)
  PROVE  SheetStep
<1>1. CellExists(Start, call.cell)
  BY StartOfCall, TextAssumption DEF CallTypes, CellExists, Text
<1>2. content' = [q \in Pos |-> IF q = call.cell THEN call.text
                               ELSE IF q \in Refs(call.text) /\ call.content[q] = Absent
                                    THEN EmptyText ELSE call.content[q]]
  <2>1. Start \in [Pos -> Content]
    BY StartOfCall DEF Contents
  <2>. QED BY <1>1, <2>1, StartOfCall DEF Installed, Missing, CellExists
<1>3. {r \in Refs(call.text) : ~Seen!CellExists(Start, r)} = Missing
  BY SeenCells DEF Missing
<1>4. Seen!SetCellToFormula(call.cell, call.text)
  BY <1>2, <1>3, SeenEnd, SeenWalk, SeenCells, SeenGraphs
     DEF Seen!SetCellToFormula, Seen!GrowTo, Installed
<1>. QED BY <1>4 DEF SheetStep, Seen!SetCell

-----------------------------------------------------------------------------
(* The refreshes of a call.                                                *)

\* What a call is to do does not change while it runs.
LEMMA SameCall ==
  ASSUME call' = call
  PROVE  /\ Start' = Start /\ Unlisted' = Unlisted /\ Listed' = Listed
         /\ Base' = Base /\ Solution' = Solution /\ Shown' = Shown
         /\ Follows' = Follows /\ Looked' = Looked /\ Targets' = Targets /\ Needed' = Needed
         /\ Overflowing' = Overflowing /\ Found' = Found
         /\ Installed' = Installed /\ Missing' = Missing
         /\ Solvable(Base, call.cache)' = Solvable(Base, call.cache)
         /\ CallTypes' = CallTypes
<1>1. Start' = Start
  BY DEF Start
<1>2. Unlisted' = Unlisted
  BY <1>1 DEF Unlisted
<1>3. Listed' = Listed
  BY <1>1, <1>2 DEF Listed
<1>4. Base' = Base
  BY <1>1 DEF Base
<1>5. Solution' = Solution
  BY <1>4 DEF Solution
<1>6. Shown' = Shown
  BY <1>4, <1>5 DEF Shown
<1>7. Follows' = Follows
  BY <1>1, <1>3, <1>6 DEF Follows
<1>8. Looked' = Looked
  BY <1>7 DEF Looked
<1>9. Targets' = Targets
  BY <1>8 DEF Targets
<1>10. Needed' = Needed
  BY <1>4, <1>9 DEF Needed
<1>11. Overflowing' = Overflowing /\ Found' = Found
  BY <1>1, <1>7, <1>8 DEF Overflowing, Found
<1>12. Installed' = Installed /\ Missing' = Missing
  BY <1>1 DEF Installed, Missing
<1>13. Solvable(Base, call.cache)' = Solvable(Base, call.cache)
  BY <1>4
<1>14. CallTypes' = CallTypes
  BY DEF CallTypes
<1>. QED BY <1>1, <1>2, <1>3, <1>4, <1>5, <1>6, <1>7, <1>8, <1>9, <1>10, <1>11, <1>12, <1>13,
            <1>14

Done == Invalid(Base, call.cache) \ InvalidNow

\* Each refresh on the stack is one the call needs.
RefreshesNeeded ==
  \A i \in 1 .. Len(stack) : stack[i].fn = "Update" => stack[i].cell \in Needed

\* The cells refreshed so far have their values, and read no other invalid cell.
ValuesOK ==
  /\ content = Base
  /\ cache = Refreshed(call.cache, Done, Shown)
  /\ Done \subseteq Needed /\ Done \subseteq Solvable(Base, call.cache)
  /\ \A q \in Done : Refs(Base[q]) \cap InvalidNow = {}

\* While values are computed, whatever is valid shows its value.
LEMMA ValuesFacts ==
  ASSUME CallTypes, ValuesOK
  PROVE  /\ Base \in Contents /\ call.cache \in Cache /\ Targets \in SUBSET Pos
         /\ InvalidNow \subseteq Invalid(Base, call.cache)
         /\ Done \subseteq Invalid(Base, call.cache)
         /\ \A q \in Done : cache[q] = Shown[q] /\ cache[q] # Stale
         /\ \A q \in Pos : q \notin Done => cache[q] = call.cache[q]
         /\ \A q \in Pos : q \notin InvalidNow => Reading(content, cache, NoFresh)[q] = Shown[q]
         /\ \A q \in Pos : (content[q] \in Formula /\ q \notin InvalidNow) => cache[q] = Shown[q]
<1>1. Base \in Contents /\ call.cache \in Cache
  BY StartOfCall DEF CallTypes
<1>2. Targets \in SUBSET Pos
  BY ClosureInPos DEF Targets, Looked, Examined, CallTypes
<1>3. Done \subseteq Invalid(Base, call.cache) /\ Invalid(Base, call.cache) \subseteq Pos
  BY DEF Done, Invalid
<1>4. Shown \in [Pos -> Value]
  BY ShownFacts
<1>5. /\ \A q \in Done : cache[q] = Shown[q]
      /\ \A q \in Pos : q \notin Done => cache[q] = call.cache[q]
  BY <1>3 DEF ValuesOK, Refreshed
<1>6. \A q \in Done : cache[q] # Stale
  BY <1>3, <1>4, <1>5, ValueAssumption
<1>7. InvalidNow \subseteq Invalid(Base, call.cache)
  BY <1>5, <1>6 DEF InvalidNow, Invalid, ValuesOK
<1>8. \A q \in Solvable(Base, call.cache) : q \in Invalid(Base, call.cache)
  BY DEF Solvable
<1>9. ASSUME NEW q \in Pos, q \notin InvalidNow
      PROVE  /\ Reading(content, cache, NoFresh)[q] = Shown[q]
             /\ content[q] \in Formula => cache[q] = Shown[q]
  <2>1. CASE q \in Done
    <3>1. Base[q] \in Formula
      BY <1>3, <2>1 DEF Invalid
    <3>. QED BY <1>5, <1>6, <2>1, <3>1 DEF ValuesOK, Reading, NoFresh
  <2>2. CASE q \notin Done
    <3>1. q \notin Invalid(Base, call.cache) /\ q \notin Solvable(Base, call.cache)
      BY <1>8, <1>9, <2>2 DEF Done
    <3>2. cache[q] = call.cache[q] /\ (content[q] \in Formula => call.cache[q] # Stale)
      BY <1>5, <1>9, <2>2, <3>1 DEF ValuesOK, Invalid
    <3>3. q \notin DOMAIN Solution
      BY <3>1, ShownFacts
    <3>. QED BY <1>9, <3>2, <3>3 DEF ValuesOK, Reading, NoFresh, Shown
  <2>. QED BY <2>1, <2>2
<1>. QED BY <1>1, <1>2, <1>3, <1>5, <1>6, <1>7, <1>9

\* Evaluate finds the value that belongs there.
LEMMA ValuesGoOn ==
  ASSUME WalkInv, CallTypes, ValuesOK, RefreshesOK, RefreshesNeeded, ~Idle, ~Idle',
         RefreshNext \/ Evaluate \/ CheckNext \/ ReadNext \/ ReadsEnd
  PROVE  /\ ValuesOK' /\ InvalidNow' \subseteq InvalidNow
         /\ Evaluate => Top.cell \notin InvalidNow'
<1>1. UNCHANGED <<content, call>>
  BY EvaluatingShape
<1>2. /\ Base' = Base /\ Shown' = Shown /\ Needed' = Needed /\ Targets' = Targets
      /\ Solvable(Base, call.cache)' = Solvable(Base, call.cache)
  BY <1>1, SameCall
<1>3. CASE ~Evaluate
  <2>1. cache' = cache
    BY <1>3, EvaluatingShape
  <2>2. InvalidNow' = InvalidNow /\ Done' = Done
    BY <1>1, <1>2, <2>1 DEF InvalidNow, Done
  <2>. QED BY <1>1, <1>2, <1>3, <2>1, <2>2 DEF ValuesOK
<1>4. CASE Evaluate
  <2> DEFINE p == Top.cell
             v == Reading(content, cache, NoFresh)
  <2>2. /\ Top.fn = "Update" /\ Pending = {}
        /\ cache' = [cache EXCEPT ![p] = Apply(content[p], v)]
    BY <1>4 DEF Evaluate, In, End, Idle
  <2>3. p \in InvalidNow /\ p \in Needed
    <3>1. 1 \in 1 .. Len(stack) /\ Top = stack[1]
      BY StackParts DEF WalkInv, StackOK
    <3>. QED BY <2>2, <3>1 DEF RefreshesOK, RefreshesNeeded
  <2>4. Refs(content[p]) \cap InvalidNow = {}
    BY <2>2, TopFacts DEF Pending
  <2>5. p \in Pos /\ content[p] \in Formula /\ Refs(content[p]) \subseteq Pos
    BY <2>3, FormulaAssumption DEF InvalidNow, Invalid
  <2>6. Refs(Base[p]) \cap Invalid(Base, call.cache) \subseteq Done
    BY <2>4 DEF ValuesOK, Done
  <2>7. p \in Invalid(Base, call.cache)
    BY <2>3, ValuesFacts
  <2>8. p \in Solvable(Base, call.cache)
    BY <2>6, <2>7, SolvableStep DEF ValuesOK
  <2>9. Apply(content[p], v) = Shown[p]
    <3>1. \A r \in Refs(content[p]) : v[r] = Shown[r]
      BY <2>4, <2>5, ValuesFacts
    <3>2. v \in [Pos -> Value]
      BY ReadingHasValues DEF WalkInv, TableOK
    <3>3. Shown \in [Pos -> Value] /\ Shown[p] = Apply(Base[p], Shown)
      BY <2>8, ShownFacts
    <3> HIDE DEF p, v
    <3>4. Apply(content[p], v) = Apply(content[p], Shown)
      BY <2>5, <3>1, <3>2, <3>3, SameApply
    <3>. QED BY <3>3, <3>4 DEF ValuesOK
  <2>10. Shown[p] \in Value /\ Shown[p] # Stale
    BY <2>5, ShownFacts, ValueAssumption
  <2>11. cache \in Cache /\ cache' = [cache EXCEPT ![p] = Shown[p]]
    BY <2>2, <2>9 DEF WalkInv, TableOK
  <2> HIDE DEF v
  <2>12. InvalidNow' = InvalidNow \ {p}
    BY <1>1, <2>5, <2>10, <2>11 DEF InvalidNow, Invalid, Cache
  <2>13. Done' = Done \cup {p}
    BY <1>1, <1>2, <2>7, <2>12 DEF Done
  <2>14. cache' = Refreshed(call.cache, Done \cup {p}, Shown)
    BY <2>11 DEF ValuesOK, Refreshed
  <2>15. \A q \in Done \cup {p} : Refs(Base[q]) \cap InvalidNow = {}
    BY <2>4 DEF ValuesOK
  <2>. QED BY <1>1, <1>2, <2>3, <2>8, <2>12, <2>13, <2>14, <2>15 DEF ValuesOK
<1>. QED BY <1>3, <1>4

\* With no target left to refresh all is done, and the refresh had an end.
LEMMA AllDone ==
  ASSUME CallTypes, ValuesOK, Targets \cap InvalidNow = {}
  PROVE  Done = Needed /\ ~Endless(Base, call.cache, Targets)
<1>1. Targets \in SUBSET Pos /\ Done \in SUBSET Pos
  BY ValuesFacts DEF Done, Invalid
<1>2. Targets \cap Invalid(Base, call.cache) \subseteq Done
  BY DEF Done
<1>3. \A q \in Done : Refs(Base[q]) \cap Invalid(Base, call.cache) \subseteq Done
  BY DEF ValuesOK, Done
<1>4. Needed \subseteq Done
  BY <1>1, <1>2, <1>3, NeedParts DEF Needed
<1>5. Need(Base, call.cache, Targets) \subseteq Solvable(Base, call.cache)
  BY <1>4 DEF ValuesOK, Needed
<1>. QED BY <1>4, <1>5, SolvableEnds DEF ValuesOK

\* A cell that is refreshed for itself has no end of refreshes.
LEMMA RefreshedTwice ==
  ASSUME WalkInv, CallTypes, ValuesOK, RefreshesOK, RefreshesNeeded,
         NEW i \in 1 .. Len(stack), NEW j \in 1 .. Len(stack), i < j,
         stack[i].cell = stack[j].cell, \A m \in 1 .. j : stack[m].fn = "Update"
  PROVE  Endless(Base, call.cache, Targets)
<1>1. stack \in Seq(Frames) /\ Len(stack) \in Nat
  BY DEF WalkInv, StackOK
<1>2. \A m \in i .. j : m \in 1 .. Len(stack) /\ m \in 1 .. j
  BY <1>1
<1>3. \A m \in i .. j : stack[m].cell \in Needed /\ stack[m].cell \in InvalidNow
  BY <1>2 DEF RefreshesOK, RefreshesNeeded
<1>4. ASSUME NEW m \in i + 1 .. j
      PROVE  stack[m - 1].cell \in StaleReads(Base, call.cache)[stack[m].cell]
  <2>1. m \in i .. j /\ m - 1 \in i .. j /\ m > 1
    OBVIOUS
  <2>2. stack[m - 1].cell \in Refs(content[stack[m].cell])
    BY <1>2, <2>1 DEF RefreshesOK
  <2>3. stack[m - 1].cell \in InvalidNow /\ stack[m].cell \in InvalidNow
    BY <1>3, <2>1
  <2>4. InvalidNow \subseteq Invalid(Base, call.cache) /\ content = Base
    BY ValuesFacts DEF ValuesOK
  <2>5. \A q \in Invalid(Base, call.cache) :
          StaleReads(Base, call.cache)[q] = Refs(Base[q]) \cap Invalid(Base, call.cache)
    BY StaleReadsFacts
  <2>. QED BY <2>2, <2>3, <2>4, <2>5
<1>5. Cyclic(Needed, StaleReads(Base, call.cache))
  BY <1>1, <1>3, <1>4, AlikeIsCycle
<1>. QED BY <1>5 DEF Endless, Needed

-----------------------------------------------------------------------------
(* GetValue and PrintValues.                                               *)

\* A refresh needs those it calls.
LEMMA NeededGoesOn ==
  ASSUME WalkInv, CallTypes, ValuesOK, RefreshesOK, RefreshesNeeded, ~Idle, ~Idle',
         RefreshNext \/ Evaluate \/ CheckNext \/ ReadNext \/ ReadsEnd,
         \/ Top.fn = "Update" \/ stack'[1].fn # "Update"
         \/ stack' = Below \/ stack'[1].cell \in Targets
  PROVE  RefreshesNeeded'
<1>1. stack \in Seq(Frames) /\ call' = call /\ Needed' = Needed
  BY EvaluatingShape, SameCall DEF WalkInv, StackOK
<1>2. CASE stack' = Below
  <2>1. \A i \in 1 .. Len(stack') : stack'[i] = stack[i + 1] /\ i + 1 \in 1 .. Len(stack)
    BY <1>1, <1>2, PoppedStack
  <2>. QED BY <1>1, <2>1 DEF RefreshesNeeded
<1>3. CASE stack' # Below
  <2>1. PICK f \in Frames, S \in SUBSET Pos :
          /\ stack' = Pushed(f, S)
          /\ f.fn = "Update" => f.cell \in InvalidNow
          /\ Top.fn = "Update" => f.cell \in Top.left
    BY <1>3, EvaluatingShape
  <2>2. /\ stack'[1] = f /\ Len(stack) \in Nat \ {0} /\ stack[1] = Top
        /\ Len(stack') = Len(stack) + 1
        /\ \A i \in 1 .. Len(stack) :
             stack'[i + 1].fn = stack[i].fn /\ stack'[i + 1].cell = stack[i].cell
    BY <1>1, <2>1, PushedStack
  <2>3. ASSUME f.fn = "Update" PROVE f.cell \in Needed
    <3>1. f.cell \in InvalidNow /\ f.cell \in Invalid(Base, call.cache) /\ content = Base
      BY <2>1, <2>3, ValuesFacts DEF ValuesOK
    <3>2. CASE Top.fn = "Update"
      <4>1. Top.cell \in Needed
        BY <2>2, <3>2 DEF RefreshesNeeded
      <4>2. f.cell \in Refs(content[Top.cell])
        <5>1. f.cell \in Top.left
          BY <2>1, <3>2
        <5>2. 1 \in 1 .. Len(stack)
          BY <2>2
        <5>. QED BY <2>2, <3>2, <5>1, <5>2 DEF RefreshesOK
      <4>3. Targets \in SUBSET Pos
        BY ValuesFacts
      <4>4. \A q \in Needed : Refs(Base[q]) \cap Invalid(Base, call.cache) \subseteq Needed
        BY <4>3, NeedParts DEF Needed
      <4>. QED BY <3>1, <4>1, <4>2, <4>4
    <3>3. CASE Top.fn # "Update"
      <4>1. f.cell \in Targets /\ Targets \in SUBSET Pos
        BY <1>3, <2>2, <2>3, <3>3, ValuesFacts
      <4>2. Targets \cap Invalid(Base, call.cache) \subseteq Needed
        BY <4>1, NeedParts DEF Needed
      <4>. QED BY <3>1, <4>1, <4>2
    <3>. QED BY <3>2, <3>3
  <2>4. ASSUME NEW i \in 1 .. Len(stack'), stack'[i].fn = "Update"
        PROVE  stack'[i].cell \in Needed
    <3>1. CASE i = 1
      BY <2>2, <2>3, <2>4, <3>1
    <3>2. CASE i # 1
      <4>1. i - 1 \in 1 .. Len(stack) /\ (i - 1) + 1 = i
        BY <2>2, <3>2
      <4>2. stack'[i].fn = stack[i - 1].fn /\ stack'[i].cell = stack[i - 1].cell
        BY <2>2, <4>1
      <4>. QED BY <2>4, <4>1, <4>2 DEF RefreshesNeeded
    <3>. QED BY <3>1, <3>2
  <2>. QED BY <1>1, <2>4 DEF RefreshesNeeded
<1>. QED BY <1>2, <1>3

\* The frames are refreshes, and below them the loop of the call, which has
\* still to look at all that is invalid but the cell being refreshed.
ReadsOK ==
  /\ Len(stack) \in Nat \ {0}
  /\ stack[Len(stack)].fn = "GetValue" /\ stack[Len(stack)].left \subseteq Targets
  /\ \A i \in 1 .. Len(stack) - 1 : stack[i].fn = "Update"
  /\ \A r \in Targets \cap InvalidNow :
       r \in stack[Len(stack)].left \/ (Len(stack) > 1 /\ r = stack[Len(stack) - 1].cell)

ReadCall ==
  /\ call.op \in {"GetValue", "PrintValues"}
  /\ Targets \cap Invalid(Base, call.cache) # {}
  /\ usedBy = call.usedBy /\ SameSize
  /\ ValuesOK /\ RefreshesNeeded /\ ReadsOK

\* The steps such a call takes.
LEMMA ReadSteps ==
  ASSUME WalkInv, ReadCall, ~Idle, Step
  PROVE  /\ Top.fn = "GetValue" <=> Len(stack) = 1
         /\ Top.fn \in {"GetValue", "Update"}
         /\ \/ Top.fn = "Update" /\ RefreshNext
            \/ Top.fn = "Update" /\ Evaluate
            \/ Len(stack) = 1 /\ ReadNext
            \/ Len(stack) = 1 /\ ReadsEnd
<1>1. Len(stack) \in Nat \ {0} /\ Top = stack[1]
  BY StackParts DEF WalkInv, StackOK
<1>2. Top.fn = "GetValue" <=> Len(stack) = 1
  <2>1. Len(stack) # 1 => 1 \in 1 .. Len(stack) - 1
    BY <1>1
  <2>. QED BY <1>1, <2>1 DEF ReadCall, ReadsOK
<1>3. Len(stack) # 1 => Top.fn = "Update"
  <2>1. Len(stack) # 1 => 1 \in 1 .. Len(stack) - 1
    BY <1>1
  <2>. QED BY <1>1, <2>1 DEF ReadCall, ReadsOK
<1>4. Top.fn \in {"GetValue", "Update"}
  BY <1>2, <1>3
<1>. QED BY <1>2, <1>3, <1>4
     DEF Step, InvalidateNext, RefreshNext, Evaluate, CheckNext, CycleIsFound, EvaluationFails,
         EvaluationThrows, Install, CreateMissing, Destroy, ReadNext, ReadsEnd, In

\* A refresh that calls another, and one that is done.
LEMMA RefreshCalls ==
  ASSUME WalkInv, ~Idle, ~Idle', RefreshNext
  PROVE  /\ UNCHANGED <<content, usedBy, cache, rowsCount, colsCount, outcome, call>>
         /\ \E f \in Frames, S \in SUBSET Pos :
              /\ stack' = Pushed(f, S) /\ f.fn = "Update"
              /\ f.cell \in Top.left /\ f.cell \in InvalidNow
<1>1. Pending # {} /\ Pending \subseteq InvalidNow \cap Top.left /\ InvalidNow \subseteq Pos
  BY WalkTypes DEF RefreshNext, Pending
<1>2. First(Pending) \in Pending
  BY <1>1, FirstIsLeast
<1> PICK r \in Pending : r = First(Pending)
  BY <1>2
<1>3. Call(Refreshing(r), After(Top.left, r))
  BY DEF RefreshNext
<1>4. /\ Refreshing(r) \in Frames /\ After(Top.left, r) \in SUBSET Pos
      /\ Refreshing(r).fn = "Update" /\ Refreshing(r).cell = r
  BY <1>1, TopFacts, WalkTypes DEF After, Frame
<1>5. stack' = Pushed(Refreshing(r), After(Top.left, r)) /\ UNCHANGED <<outcome, call>>
  BY <1>3, Called
<1>6. \E f \in Frames, S \in SUBSET Pos :
              /\ stack' = Pushed(f, S) /\ f.fn = "Update"
              /\ f.cell \in Top.left /\ f.cell \in InvalidNow
  BY <1>1, <1>4, <1>5
<1>. QED BY <1>5, <1>6 DEF RefreshNext

\* An Evaluate that does not end the call goes back to the frame below.
LEMMA EvaluateReturns ==
  ASSUME WalkInv, ~Idle, ~Idle', Evaluate
  PROVE  stack' = Below /\ UNCHANGED <<content, usedBy, rowsCount, colsCount, outcome, call>>
<1>1. Resume(Below)
  BY DEF Evaluate, End, Idle
<1>. QED BY <1>1, Returned DEF Evaluate

\* A read that goes on is one, in the middle of a refresh or between two.
LEMMA ReadGoesOn ==
  ASSUME WalkInv, CallTypes, RefreshesOK, ReadCall, ~Idle, ~Idle', Step
  PROVE  ReadCall'
<1>1. stack \in Seq(Frames) /\ ValuesOK /\ RefreshesNeeded
  BY DEF WalkInv, StackOK, ReadCall
<1>2. RefreshNext \/ Evaluate \/ ReadNext \/ ReadsEnd
  BY ReadSteps
<1>3. /\ UNCHANGED <<content, usedBy, call, rowsCount, colsCount>>
      /\ ValuesOK' /\ InvalidNow' \subseteq InvalidNow
      /\ Evaluate => Top.cell \notin InvalidNow'
  <2>1. UNCHANGED <<rowsCount, colsCount>>
    BY <1>2 DEF RefreshNext, Evaluate, ReadNext, ReadsEnd
  <2>. QED BY <1>1, <1>2, <2>1, EvaluatingShape, ValuesGoOn
<1>4. /\ Targets' = Targets /\ Base' = Base
      /\ Targets \cap Invalid(Base, call.cache) # {} => (Targets \cap Invalid(Base, call.cache) # {})'
  BY <1>3, SameCall
<1>5. CASE ReadNext
  <2>1. PICK r \in Pending : Call(Refreshing(r), Top.left \ {r})
    BY <1>5 DEF ReadNext
  <2>2. stack' = Pushed(Refreshing(r), Top.left \ {r})
    BY <2>1, Called
  <2>3. /\ r \in InvalidNow /\ r \in Top.left
        /\ Refreshing(r) \in Frames /\ Top.left \in SUBSET Pos
        /\ Refreshing(r).fn = "Update" /\ Refreshing(r).cell = r
    BY <2>1, TopFacts, WalkTypes DEF Pending, Frame
  <2> PICK f \in Frames : f = Refreshing(r)
    BY <2>3
  <2> PICK S \in SUBSET Pos : S = Top.left \ {r}
    BY <2>3
  <2>4. /\ Len(stack) = 1 /\ Top.left \subseteq Targets /\ Top.fn = "GetValue" /\ stack[1] = Top
        /\ \A q \in Targets \cap InvalidNow : q \in Top.left
    BY <1>1, <1>5, ReadSteps, StackParts DEF ReadNext, In, ReadCall, ReadsOK
  <2>5. /\ Len(stack') = 2 /\ stack'[1] = f /\ stack'[2] = Left(S)
        /\ Left(S).fn = "GetValue" /\ Left(S).left = S
    <3>1. stack' = Pushed(f, S)
      BY <2>2
    <3>2. /\ Len(stack') = Len(stack) + 1 /\ stack'[1] = f /\ stack'[2] = Left(S)
          /\ Left(S).fn = Top.fn /\ Left(S).left = S
      BY <1>1, <3>1, PushedStack
    <3>. QED BY <2>4, <3>2
  <2>6. InvalidNow' = InvalidNow
    BY <1>3, <1>5 DEF ReadNext, InvalidNow
  <2>7. RefreshesNeeded'
    <3>1. stack'[1].cell \in Targets
      BY <2>3, <2>4, <2>5
    <3>. QED BY <1>1, <1>2, <3>1, NeededGoesOn
  <2>8. ReadsOK'
    BY <1>4, <2>3, <2>4, <2>5, <2>6 DEF ReadsOK
  <2>. QED BY <1>3, <1>4, <2>7, <2>8 DEF ReadCall, SameSize
<1>6. CASE ReadsEnd
  <2>1. Len(stack) = 1 /\ stack' = Below
    BY <1>6, ReadSteps, Returned DEF ReadsEnd, In
  <2>2. Len(stack') = 0
    BY <1>1, <2>1, PoppedStack
  <2>. QED BY <1>1, <2>1, <2>2, EmptySeq, StackParts DEF Idle
<1>7. CASE RefreshNext
  <2>1. PICK f \in Frames, S \in SUBSET Pos : stack' = Pushed(f, S) /\ f.fn = "Update"
    BY <1>7, RefreshCalls
  <2>2. Top.fn = "Update" /\ Len(stack) \in Nat /\ Len(stack) >= 2
    <3>1. Top.fn = "Update" /\ Len(stack) # 1 /\ Len(stack) \in Nat \ {0}
      BY <1>1, <1>7, ReadSteps, StackParts DEF RefreshNext, In
    <3>. QED BY <3>1
  <2>3. /\ Len(stack') = Len(stack) + 1 /\ stack'[1] = f
        /\ \A i \in 2 .. Len(stack) : stack'[i + 1] = stack[i]
        /\ \A i \in 1 .. Len(stack) :
              stack'[i + 1].fn = stack[i].fn /\ stack'[i + 1].cell = stack[i].cell
    BY <1>1, <2>1, PushedStack
  <2>4. InvalidNow' = InvalidNow
    BY <1>7, RefreshCalls DEF InvalidNow
  <2>5. RefreshesNeeded'
    BY <1>1, <1>2, <2>2, NeededGoesOn DEF ReadCall
  <2>6. stack'[Len(stack')] = stack[Len(stack)]
    <3>1. Len(stack) \in 2 .. Len(stack) /\ Len(stack') = Len(stack) + 1
      BY <2>2, <2>3
    <3>. QED BY <2>3, <3>1
  <2>7. stack'[Len(stack') - 1].cell = stack[Len(stack) - 1].cell
    <3>1. Len(stack') = Len(stack) + 1
      BY <2>3
    <3>2. Len(stack) - 1 \in 1 .. Len(stack) /\ (Len(stack) - 1) + 1 = Len(stack') - 1
      BY <2>2, <3>1
    <3>. QED BY <2>3, <3>2
  <2>8. ASSUME NEW i \in 1 .. Len(stack') - 1 PROVE stack'[i].fn = "Update"
    <3>1. CASE i = 1
      BY <2>1, <2>3, <3>1
    <3>2. CASE i # 1
      <4>1. i - 1 \in 1 .. Len(stack) /\ (i - 1) + 1 = i /\ i - 1 \in 1 .. Len(stack) - 1
        BY <2>2, <2>3, <3>2
      <4>. QED BY <2>3, <4>1 DEF ReadCall, ReadsOK
    <3>. QED BY <3>1, <3>2
  <2>9. ReadsOK'
    BY <1>4, <2>2, <2>3, <2>4, <2>6, <2>7, <2>8 DEF ReadCall, ReadsOK
  <2>. QED BY <1>3, <1>4, <2>5, <2>9 DEF ReadCall, SameSize
<1>8. CASE Evaluate
  <2>1. stack' = Below
    BY <1>8, EvaluateReturns
  <2>2. Len(stack) # 1 /\ Len(stack) \in Nat \ {0} /\ Top = stack[1]
    BY <1>1, <1>8, ReadSteps, StackParts DEF Evaluate, In
  <2>3. /\ Len(stack') = Len(stack) - 1
        /\ \A i \in 1 .. Len(stack') : stack'[i] = stack[i + 1]
    BY <1>1, <2>1, PoppedStack
  <2>4. RefreshesNeeded'
    BY <1>1, <1>2, <2>1, NeededGoesOn DEF ReadCall
  <2>5. stack'[Len(stack')] = stack[Len(stack)]
    BY <2>2, <2>3
  <2>6. \A i \in 1 .. Len(stack') - 1 : stack'[i].fn = "Update"
    BY <2>2, <2>3 DEF ReadCall, ReadsOK
  <2>7. ASSUME NEW r \in Targets \cap InvalidNow', r \notin stack'[Len(stack')].left
        PROVE  Len(stack') > 1 /\ r = stack'[Len(stack') - 1].cell
    <3>1. r = stack[Len(stack) - 1].cell
      BY <1>3, <2>5, <2>7 DEF ReadCall, ReadsOK
    <3>2. Len(stack) - 1 # 1
      BY <1>3, <1>8, <2>2, <2>7, <3>1
    <3>3. Len(stack') > 1 /\ Len(stack') - 1 \in 1 .. Len(stack')
          /\ (Len(stack') - 1) + 1 = Len(stack) - 1
      BY <2>2, <2>3, <3>2
    <3>. QED BY <2>3, <3>1, <3>3
  <2>8. ReadsOK'
    BY <1>4, <2>2, <2>3, <2>5, <2>6, <2>7 DEF ReadCall, ReadsOK
  <2>. QED BY <1>3, <1>4, <2>4, <2>8 DEF ReadCall, SameSize
<1>. QED BY <1>2, <1>5, <1>6, <1>7, <1>8

\* How a call that overflows leaves its caller.
LEMMA Overflown ==
  ASSUME NEW f, NEW S, Call(f, S), Idle', Pushed(f, S) # <<>>
  PROVE  Len(stack) = MaxDepth /\ outcome' = "StackOverflow" /\ call' = call
<1>1. CASE Len(stack) = MaxDepth
  BY <1>1 DEF Call, End
<1>2. CASE Len(stack) # MaxDepth
  <2>1. stack' = Pushed(f, S)
    BY <1>2 DEF Call, Resume, Pushed, Left
  <2>. QED BY <2>1 DEF Idle
<1>. QED BY <1>1, <1>2

\* A refresh that ends the call has overflown or met something unreadable.
LEMMA RefreshOverflows ==
  ASSUME WalkInv, ~Idle, Idle', RefreshNext \/ Evaluate, Len(stack) # 1,
         outcome' # "out_of_range"
  PROVE  Len(stack) = MaxDepth /\ outcome' = "StackOverflow" /\ call' = call
<1>1. CASE RefreshNext
  <2>1. Pending # {} /\ Pending \subseteq InvalidNow \cap Top.left /\ InvalidNow \subseteq Pos
    BY <1>1, WalkTypes DEF RefreshNext, Pending
  <2>2. First(Pending) \in Pending
    BY <2>1, FirstIsLeast
  <2> PICK r \in Pending : r = First(Pending)
    BY <2>2
  <2>3. Call(Refreshing(r), After(Top.left, r))
    BY <1>1 DEF RefreshNext
  <2>4. Refreshing(r) \in Frames /\ After(Top.left, r) \in SUBSET Pos
    BY <2>1, TopFacts, WalkTypes DEF After
  <2>5. Pushed(Refreshing(r), After(Top.left, r)) # <<>>
    BY <2>4, PushParts DEF WalkInv, StackOK
  <2>. QED BY <2>3, <2>5, Overflown
<1>2. CASE Evaluate
  <2>1. Resume(Below)
    BY <1>2 DEF Evaluate, End
  <2>2. Below # <<>>
    BY StackParts, EmptySeq DEF WalkInv, StackOK
  <2>. QED BY <2>1, <2>2 DEF Resume, Idle
<1>. QED BY <1>1, <1>2

\* A read that ends has done its step of Sheet, overflow included.
LEMMA ReadEnds ==
  ASSUME WalkInv, CallTypes, RefreshesOK, ReadCall, ~Idle, Idle', Step, outcome' # "out_of_range"
  PROVE  SheetStep
<1>1. stack \in Seq(Frames) /\ Len(stack) \in Nat /\ Len(stack) > 0
  BY StackParts DEF WalkInv, StackOK
<1>2. Needed # {}
  <2>1. Targets \in SUBSET Pos
    BY ValuesFacts DEF ReadCall
  <2>. QED BY <2>1, NeedParts DEF Needed, ReadCall
<1>3. CASE Len(stack) = 1 /\ ReadsEnd
  <2>1. Targets \cap InvalidNow = {}
    <3>1. Pending = {} /\ Top = stack[1]
      BY <1>1, <1>3, StackParts DEF ReadsEnd
    <3>. QED BY <1>3, <3>1 DEF ReadCall, ReadsOK, Pending
  <2>2. Done = Needed /\ ~Endless(Base, call.cache, Targets)
    BY <2>1, AllDone DEF ReadCall
  <2>3. /\ UNCHANGED <<content, usedBy, cache, rowsCount, colsCount>>
        /\ Base = call.content
    BY <1>3 DEF ReadsEnd, Base, ReadCall
  <2>4. outcome' = "Ok"
    <3>1. Len(Below) = 0
      BY <1>1, <1>3, StackParts
    <3>2. Below = <<>>
      BY <1>1, <3>1, StackParts, EmptySeq
    <3>. QED BY <1>3, <3>2 DEF ReadsEnd, Resume, End
  <2>5. cache' = Refreshed(call.cache, Needed, Shown)
    BY <2>2, <2>3 DEF ReadCall, ValuesOK
  <2>6. /\ content' = call.content /\ usedBy' = call.usedBy
        /\ rowsCount' = call.rowsCount /\ colsCount' = call.colsCount
    BY <2>3 DEF ReadCall, ValuesOK, SameSize
  <2>. QED BY <1>2, <2>2, <2>4, <2>5, <2>6, ReadIsSheetStep DEF ReadCall
<1>4. CASE Len(stack) = 1 /\ ReadNext
  <2>1. PICK r \in Pending : Call(Refreshing(r), Top.left \ {r})
    BY <1>4 DEF ReadNext
  <2>2. Refreshing(r) \in Frames /\ Top.left \ {r} \in SUBSET Pos
    BY <2>1, TopFacts, WalkTypes DEF Pending
  <2>3. Pushed(Refreshing(r), Top.left \ {r}) # <<>>
    BY <1>1, <2>2, PushParts
  <2>4. Len(stack) = MaxDepth
    BY <2>1, <2>3, Overflown
  <2>. QED BY <1>4, <2>4, DepthSuffices, WalkAssumption
<1>5. CASE Top.fn = "Update" /\ (RefreshNext \/ Evaluate)
  <2>1. Len(stack) = MaxDepth /\ outcome' = "StackOverflow" /\ call' = call
    BY <1>5, ReadSteps, RefreshOverflows
  <2> DEFINE n == Len(stack) - 1
  <2>2. n \in Nat /\ n <= Len(stack) /\ n > Cardinality(Pos)
    BY <2>1, DepthSuffices, WalkAssumption
  <2>3. PICK i \in 1 .. n : \E j \in 1 .. n : i < j /\ stack[i].cell = stack[j].cell
    <3> HIDE DEF n
    <3>. QED BY <1>1, <2>2, TwoAlike
  <2>4. PICK j \in 1 .. n : i < j /\ stack[i].cell = stack[j].cell
    BY <2>3
  <2>5. \A m \in 1 .. j : m \in 1 .. Len(stack) - 1
    BY <2>2
  <2>6. \A m \in 1 .. j : stack[m].fn = "Update"
    BY <2>5 DEF ReadCall, ReadsOK
  <2>7. i \in 1 .. Len(stack) /\ j \in 1 .. Len(stack)
    BY <1>1
  <2>8. Endless(Base, call.cache, Targets)
    BY <2>4, <2>6, <2>7, RefreshedTwice DEF ReadCall
  <2>. QED BY <1>2, <2>1, <2>8, EndlessIsSheetStep DEF ReadCall
<1>. QED BY <1>3, <1>4, <1>5, ReadSteps

-----------------------------------------------------------------------------
(* The walk of CheckDependency.                                            *)

\* From e the walk comes to nothing invalid and not to the cell that is set,
\* and it ends: when it is done with e, all it has read of e stays so.
Harmless(e) ==
  /\ Closure({e}, Follows) \cap (InvalidNow \cup {call.cell}) = {}
  /\ ~Cyclic(Closure({e}, Follows), Follows)

\* What the loop of CheckDependency for q goes through.
LoopOf(q) == IF q = call.cell THEN Refs(call.text) ELSE Follows[q]

\* Where the walk of CheckDependency may go.
LEMMA FollowsFacts ==
  ASSUME CallTypes, call.text \in Formula \cup UnplacedFormula
  PROVE  /\ Follows \in Relation /\ Follows[call.cell] = {}
         /\ \A q \in Pos : LoopOf(q) \in SUBSET Pos
<1>1. Start \in Contents /\ call.cell \in Pos
  BY StartOfCall DEF CallTypes
<1>2. \A q \in Pos : Follows[q] \in SUBSET Pos
  BY <1>1, FormulaAssumption DEF Follows, Followed
<1>3. Follows \in Relation
  BY <1>2 DEF Follows, Followed, Relation
<1>4. Follows[call.cell] = {}
  BY <1>1 DEF Follows, Followed
<1>. QED BY <1>2, <1>3, <1>4, FormulaAssumption DEF LoopOf

\* What follows a harmless cell is harmless, and leads nowhere.
LEMMA HarmlessFacts ==
  ASSUME CallTypes, call.text \in Formula \cup UnplacedFormula, NEW e \in Pos, Harmless(e)
  PROVE  /\ e \notin InvalidNow /\ e # call.cell
         /\ e \notin Leading(call.cell, Follows)
         /\ \A d \in Follows[e] : Harmless(d)
<1>1. Follows \in Relation /\ call.cell \in Pos
  BY FollowsFacts DEF CallTypes
<1>2. e \in Closure({e}, Follows)
  BY ClosureContains
<1>3. e \notin Leading(call.cell, Follows)
  <2>1. \A x \in Pos : Follows[x] \subseteq Pos
    BY <1>1 DEF Relation
  <2>2. e \in Leading(call.cell, Follows) => call.cell \in Closure({e}, Follows)
    BY <1>1, <2>1, LeadingLeads
  <2>. QED BY <2>2 DEF Harmless
<1>4. ASSUME NEW d \in Follows[e] PROVE Harmless(d)
  <2>1. d \in Pos
    BY <1>1 DEF Relation
  <2>2. d \in Closure({e}, Follows)
    BY <1>2, <2>1, ClosureClosed
  <2>3. Closure({d}, Follows) \subseteq Closure({e}, Follows)
    BY <1>1, <2>2, ClosureWithin
  <2>. QED BY <2>3, CyclicWhole DEF Harmless
<1>. QED BY <1>2, <1>3, <1>4 DEF Harmless

\* CheckDependency returns from q when all that follows q is harmless.
LEMMA HarmlessReturn ==
  ASSUME CallTypes, call.text \in Formula \cup UnplacedFormula,
         NEW q \in Pos, q \notin InvalidNow, q # call.cell, \A e \in Follows[q] : Harmless(e)
  PROVE  Harmless(q)
<1>1. Follows \in Relation
  BY FollowsFacts
<1>2. ~Cyclic(Closure({q}, Follows), Follows)
  BY <1>1, EndsFrom DEF Harmless
<1>3. \A x \in Closure({q}, Follows) : x = q \/ \E e \in Follows[q] : x \in Closure({e}, Follows)
  BY <1>1, ClosureStep
<1>. QED BY <1>2, <1>3 DEF Harmless

\* A cell stays harmless as long as no more cells are invalid.
LEMMA HarmlessStays ==
  ASSUME call' = call, InvalidNow' \subseteq InvalidNow, NEW e, Harmless(e)
  PROVE  Harmless(e)'
<1>1. Follows' = Follows
  BY SameCall
<1>. QED BY <1>1 DEF Harmless

CheckedTable ==
  /\ call.op = "SetCell" /\ call.text \in Formula \cup UnplacedFormula
  /\ usedBy = Listed /\ ValuesOK

\* The walk stops where Sheet says it goes on, or at what is to be refreshed.
LEMMA SuspectFacts ==
  ASSUME CallTypes, CheckedTable, NEW r \in Pos, r \notin InvalidNow, r # call.cell
  PROVE  /\ Suspect(r) => content[r] \in Formula /\ Follows[r] = Refs(content[r])
         /\ ~Suspect(r) => Harmless(r)
<1>1. content = Start /\ usedBy = Listed
  BY DEF CheckedTable, ValuesOK, Base
<1>2. content[r] \in Formula => cache[r] = Shown[r]
  BY ValuesFacts DEF CheckedTable
<1>3. Users(r) # {} <=> \E d \in Pos : Listed[r][d] > 0
  BY <1>1 DEF Users
<1>4. Suspect(r) <=> /\ content[r] \in Formula /\ Shown[r] \in Errors
                     /\ \E d \in Pos : Listed[r][d] > 0
  BY <1>2, <1>3 DEF Suspect
<1>5. Follows[r] = IF Suspect(r) THEN Refs(content[r]) ELSE {}
  BY <1>1, <1>4 DEF Follows, Followed
<1>6. ~Suspect(r) => Harmless(r)
  BY <1>5, HarmlessReturn DEF CheckedTable
<1>. QED BY <1>4, <1>5, <1>6

\* A cell before which the loop has found nothing is one that Sheet looks at.
LEMMA LoopLooksAt ==
  ASSUME CallTypes, call.text \in Formula \cup UnplacedFormula,
         NEW q \in Pos, q # call.cell => q \in Looked,
         NEW r \in LoopOf(q), \A e \in LoopOf(q) : PosLess(e, r) => Harmless(e)
  PROVE  /\ r # call.cell => r \in Looked
         /\ q # call.cell => r \in Steps(call.cell, Follows)[q]
<1>1. LoopOf(q) \in SUBSET Pos /\ Follows \in Relation /\ call.cell \in Pos
  BY FollowsFacts DEF CallTypes
<1>2. r \in LookedAt(LoopOf(q), Leading(call.cell, Follows))
  <2>1. \A e \in LoopOf(q) : Harmless(e) => e \notin Leading(call.cell, Follows)
    BY <1>1, HarmlessFacts
  <2>. QED BY <2>1 DEF LookedAt
<1>3. q # call.cell => r \in Steps(call.cell, Follows)[q]
  BY <1>2 DEF Steps, LoopOf
<1> DEFINE R == LookedAt(Refs(call.text), Leading(call.cell, Follows))
           E == Closure(R, Steps(call.cell, Follows))
<1>4. R \in SUBSET Pos /\ Examined(Refs(call.text), call.cell, Follows) = E
  BY FormulaAssumption DEF LookedAt, Examined
<1>5. r \in E
  <2>1. CASE q = call.cell
    BY <1>2, <1>4, <2>1, ClosureContains DEF LoopOf
  <2>2. CASE q # call.cell
    <3>1. q \in E
      BY <1>4, <2>2 DEF Looked
    <3>. QED BY <1>1, <1>3, <2>2, <3>1, ClosureClosed
  <2>. QED BY <2>1, <2>2
<1>. QED BY <1>3, <1>4, <1>5 DEF Looked

\* The loop of CheckDependency in the frame i.  What it does not look at any
\* more is harmless, or the walk is there; and all before that is harmless.
LoopOK(i) ==
  LET q == stack[i].cell
  IN  /\ q = call.cell <=> i = Len(stack) - 1
      /\ q # call.cell => q \in Looked \ InvalidNow
      /\ stack[i].left \subseteq LoopOf(q)
      /\ \A e \in LoopOf(q) :
           \/ e \in stack[i].left \/ Harmless(e)
           \/ i > 1 /\ stack[i - 1].fn = "CheckDependency" /\ e = stack[i - 1].cell
      /\ i > 1 => /\ stack[i - 1].cell \in LoopOf(q)
                  /\ \A e \in LoopOf(q) : PosLess(e, stack[i - 1].cell) => Harmless(e)

\* At the bottom is HandleFormulaCreation, then the loop for the new formula.
CheckOK ==
  /\ Len(stack) \in Nat \ {0}
  /\ stack[Len(stack)].fn = "HandleFormulaCreation"
  /\ stack[Len(stack)].left \subseteq Refs(call.text)
  /\ Len(stack) = 1 => \A e \in Refs(call.text) : Harmless(e)
  /\ Len(stack) > 1 => stack[Len(stack) - 1].fn = "CheckDependency"
  /\ \A i \in 1 .. Len(stack) - 1 :
       /\ stack[i].fn \in {"Update", "CheckDependency"}
       /\ stack[i].fn = "CheckDependency" => LoopOK(i)

CheckCall == CheckedTable /\ Grew({call.cell}) /\ RefreshesNeeded /\ CheckOK

\* The steps such a call takes.
LEMMA CheckSteps ==
  ASSUME WalkInv, CallTypes, CheckCall, ~Idle, Step
  PROVE  /\ Len(stack) \in Nat /\ Len(stack) >= 1 /\ Top = stack[1]
         /\ Len(stack) = 1 =>
              /\ Pending = {}
              /\ EvaluationFails \/ EvaluationThrows \/ Install
         /\ Len(stack) # 1 =>
              \/ Top.fn = "Update" /\ Len(stack) > 2 /\ (RefreshNext \/ Evaluate)
              \/ Top.fn = "CheckDependency" /\ LoopOK(1) /\ (CheckNext \/ CycleIsFound)
<1>1. Len(stack) \in Nat /\ Len(stack) >= 1 /\ Top = stack[1]
  BY StackParts DEF WalkInv, StackOK
<1>2. CASE Len(stack) = 1
  <2>1. Top.fn = "HandleFormulaCreation" /\ Top.left \subseteq Refs(call.text)
    BY <1>1, <1>2 DEF CheckCall, CheckOK
  <2>2. Refs(call.text) \subseteq Pos
    BY FormulaAssumption DEF CheckCall, CheckedTable
  <2>3. \A e \in Refs(call.text) : e \notin InvalidNow
    <3>1. \A e \in Refs(call.text) : Harmless(e)
      BY <1>2 DEF CheckCall, CheckOK
    <3>. QED BY <2>2, <3>1, HarmlessFacts DEF CheckCall, CheckedTable
  <2>4. Pending = {}
    BY <2>1, <2>3 DEF Pending
  <2>. QED BY <1>1, <1>2, <2>1, <2>4
     DEF Step, InvalidateNext, RefreshNext, Evaluate, CheckNext, CycleIsFound, EvaluationFails,
         EvaluationThrows, Install, CreateMissing, Destroy, ReadNext, ReadsEnd, In
<1>3. CASE Len(stack) # 1
  <2>1. 1 \in 1 .. Len(stack) - 1 /\ Len(stack) > 1
    BY <1>1, <1>3
  <2>2. Top.fn \in {"Update", "CheckDependency"} /\ (Top.fn = "CheckDependency" => LoopOK(1))
    BY <1>1, <2>1 DEF CheckCall, CheckOK
  <2>3. Top.fn = "Update" => Len(stack) > 2
    <3>1. stack[Len(stack) - 1].fn = "CheckDependency"
      BY <2>1 DEF CheckCall, CheckOK
    <3>2. Top.fn = "Update" => Len(stack) - 1 # 1
      BY <1>1, <3>1
    <3>3. \A n \in Nat : n > 1 /\ n - 1 # 1 => n > 2
      OBVIOUS
    <3>4. Len(stack) - 1 # 1 => Len(stack) > 2
      BY <1>1, <2>1, <3>3
    <3>. QED BY <3>2, <3>4
  <2>. QED BY <1>1, <1>3, <2>2, <2>3
     DEF Step, InvalidateNext, RefreshNext, Evaluate, CheckNext, CycleIsFound, EvaluationFails,
         EvaluationThrows, Install, CreateMissing, Destroy, ReadNext, ReadsEnd, In
<1>. QED BY <1>1, <1>2, <1>3

\* A loop in the middle of the stack is where it was.
LEMMA LoopStays ==
  ASSUME call' = call, InvalidNow' \subseteq InvalidNow,
         Len(stack) \in Nat, Len(stack') \in Nat,
         NEW i \in Nat, NEW j \in Nat, i > 1, j > 1,
         Len(stack') - j = Len(stack) - i, stack'[j] = stack[i],
         stack'[j - 1].fn = stack[i - 1].fn, stack'[j - 1].cell = stack[i - 1].cell,
         LoopOK(i)
  PROVE  LoopOK(j)'
<1>1. Looked' = Looked /\ Follows' = Follows /\ \A q : LoopOf(q)' = LoopOf(q)
  BY SameCall DEF LoopOf
<1>2. \A e : Harmless(e) => Harmless(e)'
  BY HarmlessStays
<1>3. j = Len(stack') - 1 <=> i = Len(stack) - 1
  OBVIOUS
<1>. QED BY <1>1, <1>2, <1>3 DEF LoopOK

\* What a suspect the loop comes to says about all before it.
LEMMA LoopBefore ==
  ASSUME CallTypes, CheckedTable, NEW q \in Pos, NEW left \in SUBSET Pos,
         \A e \in LoopOf(q) : e \in left \/ Harmless(e),
         NEW r \in Pos, \A e \in left : PosLess(e, r) => ~Suspect(e)
  PROVE  \A e \in LoopOf(q) : PosLess(e, r) => Harmless(e)
<1>1. \A e \in left : ~Suspect(e) => e \notin InvalidNow /\ e # call.cell
  BY DEF Suspect
<1>. QED BY <1>1, SuspectFacts

\* operator< orders the references of a formula.
LEMMA PositionOrder ==
  /\ \A p \in Pos : ~PosLess(p, p)
  /\ \A p, q \in Pos : p = q \/ PosLess(p, q) \/ PosLess(q, p)
  /\ \A p, q \in Pos : PosLess(p, q) => ~PosLess(q, p)
<1>1. Pos \subseteq Positions
  BY DEF Pos, Positions, At
<1>2. /\ \A p \in Positions : ~PosLess(p, p)
      /\ \A p, q, r \in Positions : PosLess(p, q) /\ PosLess(q, r) => PosLess(p, r)
      /\ \A p, q \in Positions : p = q \/ PosLess(p, q) \/ PosLess(q, p)
  BY StrictTotalOrder
<1>. QED BY <1>1, <1>2

\* The reference the loop of CheckDependency stops at.
Stops(r) ==
  /\ r \in Top.left /\ r \in Pos /\ Suspect(r)
  /\ \A e \in Top.left : PosLess(e, r) => ~Suspect(e)

\* The loop of CheckDependency is through, or it stops at a reference.
LEMMA CheckNextCases ==
  ASSUME WalkInv, ~Idle, CheckNext
  PROVE  \/ Resume(Below) /\ \A e \in Top.left : ~Suspect(e)
         \/ \E r \in Pos :
              /\ Stops(r) /\ r # call.cell
              /\ r \in InvalidNow => Call(Refreshing(r), Top.left)
              /\ r \notin InvalidNow =>
                   Call(Frame("CheckDependency", r, Refs(content[r])), After(Top.left, r))
<1> DEFINE suspects == {r \in Top.left : Suspect(r)}
<1>1. CASE suspects = {}
  <2>1. Resume(Below)
    BY <1>1 DEF CheckNext
  <2>. QED BY <1>1, <2>1
<1>2. CASE suspects # {}
  <2>1. suspects \in SUBSET Pos
    BY TopFacts
  <2>2. First(suspects) \in suspects /\ \A q \in suspects \ {First(suspects)} : PosLess(First(suspects), q)
    <3> HIDE DEF suspects
    <3>. QED BY <1>2, <2>1, FirstIsLeast
  <2> PICK r \in suspects : r = First(suspects)
    BY <2>2
  <2>3. /\ r # call.cell
        /\ IF r \in InvalidNow THEN Call(Refreshing(r), Top.left)
           ELSE Call(Frame("CheckDependency", r, Refs(content[r])), After(Top.left, r))
    BY <1>2 DEF CheckNext
  <2>4. \A e \in Top.left : PosLess(e, r) => ~Suspect(e)
    <3> SUFFICES ASSUME NEW e \in Top.left, PosLess(e, r), Suspect(e) PROVE FALSE
      OBVIOUS
    <3>1. e \in suspects /\ e \in Pos /\ r \in Pos
      BY <2>1
    <3>2. e # r => PosLess(r, e)
      BY <2>2, <3>1
    <3>. QED BY <3>1, <3>2, PositionOrder
  <2>5. Stops(r) /\ r \in Pos
    BY <2>1, <2>4 DEF Stops
  <2>. QED BY <2>3, <2>5
<1>. QED BY <1>1, <1>2

\* A new frame on top leaves the others as they are.
LEMMA CheckPushes ==
  ASSUME stack \in Seq(Frames), ~Idle, CheckOK, call' = call, InvalidNow' \subseteq InvalidNow,
         NEW f \in Frames, NEW S \in SUBSET Pos, stack' = Pushed(f, S), Len(stack) > 1,
         f.fn \in {"Update", "CheckDependency"},
         f.fn = "CheckDependency" => LoopOK(1)',
         Top.fn = "CheckDependency" => LoopOK(2)'
  PROVE  CheckOK'
<1>1. /\ Len(stack) \in Nat /\ Len(stack') = Len(stack) + 1
      /\ stack'[1] = f /\ stack'[2] = Left(S) /\ stack[1] = Top /\ Left(S).fn = Top.fn
      /\ \A i \in 2 .. Len(stack) : stack'[i + 1] = stack[i]
      /\ \A i \in 1 .. Len(stack) :
           stack'[i + 1].fn = stack[i].fn /\ stack'[i + 1].cell = stack[i].cell
  BY PushedStack
<1>2. stack'[Len(stack')] = stack[Len(stack)]
  <2>1. Len(stack) \in 2 .. Len(stack)
    BY <1>1
  <2>. QED BY <1>1, <2>1
<1>3. Len(stack') > 1 /\ stack'[Len(stack') - 1].fn = "CheckDependency"
  <2>1. Len(stack) - 1 \in 1 .. Len(stack) /\ (Len(stack) - 1) + 1 = Len(stack') - 1
    BY <1>1
  <2>2. stack'[Len(stack') - 1].fn = stack[Len(stack) - 1].fn
    BY <1>1, <2>1
  <2>. QED BY <1>1, <2>2 DEF CheckOK
<1>4. ASSUME NEW i \in 1 .. Len(stack') - 1
      PROVE  /\ stack'[i].fn \in {"Update", "CheckDependency"}
             /\ stack'[i].fn = "CheckDependency" => LoopOK(i)'
  <2>1. CASE i = 1
    BY <1>1, <2>1
  <2>2. CASE i = 2
    <3>1. 1 \in 1 .. Len(stack) - 1
      BY <1>1
    <3>. QED BY <1>1, <2>2, <3>1 DEF CheckOK
  <2>3. CASE i # 1 /\ i # 2
    <3>1. /\ i - 1 \in 2 .. Len(stack) /\ i - 1 \in 1 .. Len(stack) - 1 /\ (i - 1) + 1 = i
          /\ (i - 1) - 1 \in 1 .. Len(stack) /\ ((i - 1) - 1) + 1 = i - 1
          /\ i - 1 \in Nat /\ i \in Nat /\ i > 1 /\ i - 1 > 1
          /\ Len(stack') - i = Len(stack) - (i - 1)
      BY <1>1, <2>3
    <3>2. /\ stack'[i] = stack[i - 1]
          /\ stack'[i - 1].fn = stack[(i - 1) - 1].fn /\ stack'[i - 1].cell = stack[(i - 1) - 1].cell
      BY <1>1, <3>1
    <3>3. /\ stack[i - 1].fn \in {"Update", "CheckDependency"}
          /\ stack[i - 1].fn = "CheckDependency" => LoopOK(i - 1)
      BY <3>1 DEF CheckOK
    <3>4. LoopOK(i - 1) => LoopOK(i)'
      <4>1. Len(stack) \in Nat /\ Len(stack') \in Nat
        BY <1>1
      <4>. QED BY <3>1, <3>2, <4>1, LoopStays
    <3>. QED BY <3>2, <3>3, <3>4
  <2>. QED BY <2>1, <2>2, <2>3
<1>5. Len(stack') \in Nat \ {0} /\ Len(stack') # 1
  BY <1>1
<1>6. stack'[Len(stack')].fn = "HandleFormulaCreation"
      /\ stack'[Len(stack')].left \subseteq Refs(call'.text)
  BY <1>2 DEF CheckOK
<1>. QED BY <1>3, <1>4, <1>5, <1>6 DEF CheckOK

\* And so does the return of the top one.
LEMMA CheckPops ==
  ASSUME stack \in Seq(Frames), ~Idle, CheckOK, call' = call, InvalidNow' \subseteq InvalidNow,
         stack' = Below, Len(stack) > 1,
         Len(stack) = 2 => \A e \in Refs(call.text) : Harmless(e),
         Len(stack) # 2 /\ stack[2].fn = "CheckDependency" => LoopOK(1)'
  PROVE  CheckOK'
<1>1. /\ Len(stack) \in Nat /\ Len(stack') = Len(stack) - 1
      /\ \A i \in 1 .. Len(stack') : stack'[i] = stack[i + 1]
  BY PoppedStack
<1>2. stack'[Len(stack')] = stack[Len(stack)]
  BY <1>1
<1>3. Len(stack') > 1 => stack'[Len(stack') - 1].fn = "CheckDependency"
  <2> SUFFICES ASSUME Len(stack') > 1 PROVE stack'[Len(stack') - 1].fn = "CheckDependency"
    OBVIOUS
  <2>1. Len(stack') - 1 \in 1 .. Len(stack') /\ (Len(stack') - 1) + 1 = Len(stack) - 1
    BY <1>1
  <2>2. stack'[Len(stack') - 1] = stack[Len(stack) - 1]
    BY <1>1, <2>1
  <2>. QED BY <1>1, <2>2 DEF CheckOK
<1>4. ASSUME NEW i \in 1 .. Len(stack') - 1
      PROVE  /\ stack'[i].fn \in {"Update", "CheckDependency"}
             /\ stack'[i].fn = "CheckDependency" => LoopOK(i)'
  <2>1. /\ i \in 1 .. Len(stack') /\ i + 1 \in 1 .. Len(stack) - 1 /\ Len(stack) # 2
        /\ i \in Nat /\ i + 1 \in Nat /\ i + 1 > 1 /\ Len(stack') - i = Len(stack) - (i + 1)
    BY <1>1
  <2>2. stack'[i] = stack[i + 1]
    BY <1>1, <2>1
  <2>3. /\ stack[i + 1].fn \in {"Update", "CheckDependency"}
        /\ stack[i + 1].fn = "CheckDependency" => LoopOK(i + 1)
    BY <2>1 DEF CheckOK
  <2>4. CASE i = 1
    BY <2>1, <2>2, <2>3, <2>4
  <2>5. CASE i # 1
    <3>1. /\ i - 1 \in 1 .. Len(stack') /\ (i - 1) + 1 = i /\ i > 1 /\ (i + 1) - 1 = i
      BY <1>1, <2>5
    <3>2. stack'[i - 1] = stack[(i + 1) - 1]
      BY <1>1, <3>1
    <3>3. LoopOK(i + 1) => LoopOK(i)'
      <4>1. Len(stack) \in Nat /\ Len(stack') \in Nat
        BY <1>1
      <4>. QED BY <2>1, <2>2, <3>1, <3>2, <4>1, LoopStays
    <3>. QED BY <2>2, <2>3, <3>3
  <2>. QED BY <2>4, <2>5
<1>5. Len(stack') \in Nat \ {0} /\ (Len(stack') = 1 => Len(stack) = 2)
  BY <1>1
<1>6. \A e \in Refs(call.text) : Harmless(e) => Harmless(e)'
  BY HarmlessStays
<1>7. stack'[Len(stack')].fn = "HandleFormulaCreation"
      /\ stack'[Len(stack')].left \subseteq Refs(call'.text)
  BY <1>2 DEF CheckOK
<1>. QED BY <1>3, <1>4, <1>5, <1>6, <1>7 DEF CheckOK

\* What is left to the loop on top may be looked at again.
LEMMA TopLoop ==
  ASSUME WalkInv, CallTypes, CheckCall, ~Idle, Top.fn = "CheckDependency"
  PROVE  /\ Len(stack) \in Nat /\ Len(stack) > 1 /\ LoopOK(1) /\ Top = stack[1]
         /\ Top.cell \in Pos /\ LoopOf(Top.cell) \in SUBSET Pos
         /\ Top.cell = call.cell <=> Len(stack) = 2
         /\ Top.cell # call.cell => Top.cell \in Looked \ InvalidNow
         /\ Top.left \subseteq LoopOf(Top.cell)
         /\ \A e \in LoopOf(Top.cell) : e \in Top.left \/ Harmless(e)
         /\ \A r \in Pos : Stops(r) =>
              /\ r \in LoopOf(Top.cell)
              /\ \A e \in LoopOf(Top.cell) : PosLess(e, r) => Harmless(e)
              /\ r # call.cell => r \in Looked
<1>1. Len(stack) \in Nat \ {0} /\ Top = stack[1] /\ Top.cell \in Pos /\ Top.left \in SUBSET Pos
  BY StackParts, TopFacts DEF WalkInv, StackOK
<1>2. Len(stack) > 1
  <2>1. Len(stack) # 1
    BY <1>1 DEF CheckCall, CheckOK
  <2>2. \A n \in Nat \ {0} : n # 1 => n > 1
    OBVIOUS
  <2>. QED BY <1>1, <2>1, <2>2
<1>3. LoopOK(1)
  <2>1. 1 \in 1 .. Len(stack) - 1
    BY <1>1, <1>2
  <2>. QED BY <1>1, <2>1 DEF CheckCall, CheckOK
<1>4. /\ Top.cell = call.cell <=> 1 = Len(stack) - 1
      /\ Top.cell # call.cell => Top.cell \in Looked \ InvalidNow
      /\ Top.left \subseteq LoopOf(Top.cell)
      /\ \A e \in LoopOf(Top.cell) : e \in Top.left \/ Harmless(e)
  BY <1>1, <1>3 DEF LoopOK
<1>5. 1 = Len(stack) - 1 <=> Len(stack) = 2
  BY <1>1
<1>6. LoopOf(Top.cell) \in SUBSET Pos
  BY <1>1, FollowsFacts DEF CheckCall, CheckedTable
<1>7. ASSUME NEW r \in Pos, Stops(r)
      PROVE  /\ r \in LoopOf(Top.cell)
             /\ \A e \in LoopOf(Top.cell) : PosLess(e, r) => Harmless(e)
             /\ r # call.cell => r \in Looked
  <2>1. r \in LoopOf(Top.cell)
    BY <1>4, <1>7 DEF Stops
  <2>2. \A e \in Top.left : PosLess(e, r) => ~Suspect(e)
    BY <1>7 DEF Stops
  <2>3. \A e \in LoopOf(Top.cell) : PosLess(e, r) => Harmless(e)
    BY <1>1, <1>4, <2>2, LoopBefore DEF CheckCall
  <2>4. r # call.cell => r \in Looked
    BY <1>1, <1>4, <2>1, <2>3, LoopLooksAt DEF CheckCall, CheckedTable
  <2>. QED BY <2>1, <2>3, <2>4
<1>. QED BY <1>1, <1>2, <1>3, <1>4, <1>5, <1>6, <1>7

\* A loop that is done: all it went through is harmless, and so is its cell.
LEMMA CheckReturns ==
  ASSUME WalkInv, CallTypes, CheckCall, ~Idle, Top.fn = "CheckDependency",
         \A e \in Top.left : ~Suspect(e), stack' = Below, call' = call,
         InvalidNow' = InvalidNow
  PROVE  CheckOK'
<1>1. stack \in Seq(Frames) /\ CheckedTable /\ CheckOK
      /\ call.text \in Formula \cup UnplacedFormula
  BY DEF WalkInv, StackOK, CheckCall, CheckedTable
<1>2. \A e \in Top.left : e \in Pos /\ e \notin InvalidNow /\ e # call.cell
  BY TopFacts DEF Suspect
<1>3. \A e \in Top.left : Harmless(e)
  BY <1>1, <1>2, SuspectFacts
<1>4. \A e \in LoopOf(Top.cell) : Harmless(e)
  BY <1>3, TopLoop
<1>5. Len(stack) = 2 => \A e \in Refs(call.text) : Harmless(e)
  BY <1>4, TopLoop DEF LoopOf
<1>6. Len(stack) # 2 => Harmless(Top.cell)
  <2> SUFFICES ASSUME Len(stack) # 2 PROVE Harmless(Top.cell)
    OBVIOUS
  <2>1. Top.cell \in Pos /\ Top.cell # call.cell /\ Top.cell \notin InvalidNow
    BY TopLoop
  <2>2. \A e \in Follows[Top.cell] : Harmless(e)
    BY <1>4, <2>1 DEF LoopOf
  <2>. QED BY <1>1, <2>1, <2>2, HarmlessReturn
<1>7. ASSUME Len(stack) # 2, stack[2].fn = "CheckDependency" PROVE LoopOK(1)'
  <2>1. /\ Len(stack) \in Nat /\ Len(stack') = Len(stack) - 1 /\ Top = stack[1]
        /\ \A i \in 1 .. Len(stack') : stack'[i] = stack[i + 1]
    BY <1>1, PoppedStack
  <2>2. Len(stack) > 2
    <3>1. \A n \in Nat : n > 1 /\ n # 2 => n > 2
      OBVIOUS
    <3>2. Len(stack) > 1
      BY TopLoop
    <3>. QED BY <1>7, <2>1, <3>1, <3>2
  <2>3. stack'[1] = stack[2]
    BY <2>1, <2>2
  <2>4. LoopOK(2)
    <3>1. 2 \in 1 .. Len(stack) - 1
      BY <2>1, <2>2
    <3>. QED BY <1>1, <1>7, <3>1 DEF CheckOK
  <2>5. 1 = Len(stack') - 1 <=> 2 = Len(stack) - 1
    BY <2>1
  <2>6. /\ Looked' = Looked /\ Follows' = Follows /\ \A q : LoopOf(q)' = LoopOf(q)
        /\ \A e : Harmless(e) => Harmless(e)'
    BY SameCall, HarmlessStays DEF LoopOf
  <2>7. \A e \in LoopOf(stack[2].cell) : e \in stack[2].left \/ Harmless(e)
    BY <1>6, <1>7, <2>1, <2>4 DEF LoopOK
  <2>. QED BY <2>3, <2>4, <2>5, <2>6, <2>7 DEF LoopOK
<1>. QED BY <1>1, <1>5, <1>7, TopLoop, CheckPops

\* A loop that comes to a cell to be refreshed, or to one to be followed.
LEMMA CheckStops ==
  ASSUME WalkInv, CallTypes, CheckCall, ~Idle, Top.fn = "CheckDependency",
         NEW r \in Pos, Stops(r), r # call.cell, call' = call, InvalidNow' = InvalidNow,
         NEW f \in Frames, NEW S \in SUBSET Pos, stack' = Pushed(f, S), f.cell = r,
         \/ f.fn = "Update" /\ S = Top.left
         \/ /\ r \notin InvalidNow /\ f.fn = "CheckDependency" /\ f.left = Refs(content[r])
            /\ S = After(Top.left, r)
  PROVE  CheckOK'
<1>1. stack \in Seq(Frames) /\ CheckedTable /\ CheckOK
      /\ call.text \in Formula \cup UnplacedFormula
  BY DEF WalkInv, StackOK, CheckCall, CheckedTable
<1>2. /\ Len(stack) \in Nat /\ Len(stack') = Len(stack) + 1 /\ Top = stack[1]
      /\ stack'[1] = f /\ stack'[2] = Left(S)
      /\ Left(S).fn = Top.fn /\ Left(S).cell = Top.cell /\ Left(S).left = S
  BY <1>1, PushedStack
<1>3. /\ Looked' = Looked /\ Follows' = Follows /\ \A q : LoopOf(q)' = LoopOf(q)
      /\ \A e : Harmless(e) => Harmless(e)'
  BY SameCall, HarmlessStays DEF LoopOf
<1>4. /\ r \in LoopOf(Top.cell) /\ r \in Looked
      /\ \A e \in LoopOf(Top.cell) : PosLess(e, r) => Harmless(e)
      /\ \A e \in LoopOf(Top.cell) : e \in Top.left \/ Harmless(e)
      /\ Top.left \subseteq LoopOf(Top.cell)
      /\ Top.cell # call.cell => Top.cell \in Looked \ InvalidNow
      /\ Len(stack) > 1 /\ LoopOf(Top.cell) \in SUBSET Pos
  BY TopLoop
<1>5. 2 = Len(stack') - 1 <=> Top.cell = call.cell
  <2>1. Top.cell = call.cell <=> Len(stack) = 2
    BY TopLoop
  <2>2. 2 = Len(stack') - 1 <=> Len(stack) = 2
    BY <1>2
  <2>. QED BY <2>1, <2>2
<1>6. S \subseteq Top.left
  BY DEF After
<1>7. \A e \in LoopOf(Top.cell) : e \in S \/ Harmless(e)
                                  \/ (f.fn = "CheckDependency" /\ e = r)
  <2>1. CASE S = Top.left
    BY <1>4, <2>1
  <2>2. CASE f.fn = "CheckDependency" /\ S = After(Top.left, r)
    BY <1>4, <2>2, PositionOrder DEF After
  <2>. QED BY <2>1, <2>2
<1>8. LoopOK(2)'
  <2>1. stack'[2].cell = Top.cell /\ stack'[2].left = S /\ stack'[2 - 1] = f
    BY <1>2
  <2>. QED BY <1>3, <1>4, <1>5, <1>6, <1>7, <2>1 DEF LoopOK
<1>9. ASSUME f.fn = "CheckDependency" PROVE LoopOK(1)'
  <2>1. r \notin InvalidNow /\ f.left = Refs(content[r]) /\ Suspect(r)
    BY <1>9 DEF Stops
  <2>2. LoopOf(r) = Refs(content[r])
    BY <1>1, <2>1, SuspectFacts DEF LoopOf
  <2>3. 1 # Len(stack') - 1
    <3>1. \A n \in Nat : n > 1 => 1 # (n + 1) - 1
      OBVIOUS
    <3>. QED BY <1>2, <1>4, <3>1
  <2>. QED BY <1>2, <1>3, <1>4, <2>1, <2>2, <2>3 DEF LoopOK
<1>10. f.fn \in {"Update", "CheckDependency"}
  OBVIOUS
<1>. QED BY <1>1, <1>4, <1>8, <1>9, <1>10, CheckPushes

\* CheckDependency keeps its order of frames and calls what the call needs.
LEMMA CheckNextGoesOn ==
  ASSUME WalkInv, CallTypes, RefreshesOK, CheckCall, ~Idle, ~Idle', CheckNext
  PROVE  CheckOK' /\ RefreshesNeeded'
<1>1. /\ stack \in Seq(Frames) /\ ValuesOK /\ RefreshesNeeded /\ Top.fn = "CheckDependency"
  BY DEF WalkInv, StackOK, CheckCall, CheckedTable, CheckNext, In
<1>2. UNCHANGED <<content, usedBy, cache, call>>
  BY EvaluatingShape DEF CheckNext
<1>3. InvalidNow' = InvalidNow
  BY <1>2 DEF InvalidNow
<1>4. CASE Resume(Below) /\ \A e \in Top.left : ~Suspect(e)
  <2>1. stack' = Below
    BY <1>4, Returned
  <2>2. CheckOK'
    BY <1>1, <1>2, <1>3, <1>4, <2>1, CheckReturns
  <2>3. RefreshesNeeded'
    BY <1>1, <2>1, NeededGoesOn
  <2>. QED BY <2>2, <2>3
<1>5. ASSUME NEW r \in Pos, Stops(r), r # call.cell,
             r \in InvalidNow => Call(Refreshing(r), Top.left),
             r \notin InvalidNow =>
               Call(Frame("CheckDependency", r, Refs(content[r])), After(Top.left, r))
      PROVE  CheckOK' /\ RefreshesNeeded'
  <2>1. Top.left \in SUBSET Pos /\ After(Top.left, r) \in SUBSET Pos
    BY TopFacts DEF After
  <2>2. CASE r \in InvalidNow
    <3>1. Refreshing(r) \in Frames /\ Refreshing(r).fn = "Update" /\ Refreshing(r).cell = r
      BY <2>2, WalkTypes DEF Frame
    <3> PICK f \in Frames : f = Refreshing(r)
      BY <3>1
    <3>2. stack' = Pushed(f, Top.left)
      BY <1>5, <2>2, Called
    <3>3. CheckOK'
      BY <1>1, <1>2, <1>3, <1>5, <2>1, <3>1, <3>2, CheckStops
    <3>4. stack'[1].cell = r /\ r \in Targets
      <4>1. stack'[1] = f
        BY <1>1, <2>1, <3>2, PushedStack
      <4>2. r \in Looked
        BY <1>1, <1>5, TopLoop
      <4>. QED BY <3>1, <4>1, <4>2 DEF Targets, CheckCall, CheckedTable
    <3>5. RefreshesNeeded'
      BY <1>1, <3>4, NeededGoesOn
    <3>. QED BY <3>3, <3>5
  <2>3. CASE r \notin InvalidNow
    <3> DEFINE g == Frame("CheckDependency", r, Refs(content[r]))
    <3>1. /\ g \in Frames /\ g.fn = "CheckDependency" /\ g.cell = r /\ g.left = Refs(content[r])
      <4>1. content[r] \in Formula
        BY <1>5, <2>3 DEF Stops, Suspect
      <4>. QED BY <4>1, FormulaAssumption DEF Frame, Frames, Loops
    <3>2. stack' = Pushed(g, After(Top.left, r))
      BY <1>5, <2>3, Called
    <3> PICK f \in Frames : f = g
      BY <3>1
    <3> PICK S \in SUBSET Pos : S = After(Top.left, r)
      BY <2>1
    <3> HIDE DEF g
    <3>3. stack' = Pushed(f, S)
      BY <3>2
    <3>4. CheckOK'
      BY <1>1, <1>2, <1>3, <1>5, <2>3, <3>1, <3>3, CheckStops
    <3>5. stack'[1].fn # "Update"
      <4>1. stack'[1] = f
        BY <1>1, <3>3, PushedStack
      <4>. QED BY <3>1, <4>1
    <3>6. RefreshesNeeded'
      BY <1>1, <3>5, NeededGoesOn
    <3>. QED BY <3>4, <3>6
  <2>. QED BY <2>2, <2>3
<1>. QED BY <1>4, <1>5, CheckNextCases

\* A check that goes on is one, in its own loops or in those of a refresh.
LEMMA CheckGoesOn ==
  ASSUME WalkInv, CallTypes, RefreshesOK, CheckCall, ~Idle, ~Idle', Step, ~Install
  PROVE  CheckCall'
<1>1. /\ stack \in Seq(Frames) /\ ValuesOK /\ RefreshesNeeded /\ CheckOK
  BY DEF WalkInv, StackOK, CheckCall, CheckedTable
<1>2. (Top.fn = "Update" /\ (RefreshNext \/ Evaluate)) \/ CheckNext
  <2>1. ~CycleIsFound /\ ~EvaluationFails /\ ~EvaluationThrows
    BY DEF CycleIsFound, EvaluationFails, EvaluationThrows, Reject, End, Idle
  <2>. QED BY <2>1, CheckSteps
<1>3. /\ UNCHANGED <<content, usedBy, call, rowsCount, colsCount>>
      /\ ValuesOK' /\ InvalidNow' \subseteq InvalidNow
  <2>1. UNCHANGED <<rowsCount, colsCount>>
    BY <1>2 DEF RefreshNext, Evaluate, CheckNext
  <2>. QED BY <1>1, <1>2, <2>1, EvaluatingShape, ValuesGoOn
<1>4. CheckedTable' /\ Grew({call.cell})'
  BY <1>3, SameCall DEF CheckedTable, CheckCall, Grew
<1>5. CASE CheckNext
  BY <1>4, <1>5, CheckNextGoesOn DEF CheckCall
<1>6. CASE Top.fn = "Update" /\ RefreshNext
  <2>1. PICK f \in Frames, S \in SUBSET Pos : stack' = Pushed(f, S) /\ f.fn = "Update"
    BY <1>6, RefreshCalls
  <2>2. Len(stack) > 1
    <3>1. Len(stack) \in Nat /\ Len(stack) >= 1 /\ Len(stack) # 1
      BY <1>6, CheckSteps DEF RefreshNext
    <3>2. \A n \in Nat : n >= 1 /\ n # 1 => n > 1
      OBVIOUS
    <3>. QED BY <3>1, <3>2
  <2>3. CheckOK'
    BY <1>1, <1>3, <1>6, <2>1, <2>2, CheckPushes
  <2>4. RefreshesNeeded'
    BY <1>1, <1>6, NeededGoesOn
  <2>. QED BY <1>4, <2>3, <2>4 DEF CheckCall
<1>7. CASE Top.fn = "Update" /\ Evaluate
  <2>1. stack' = Below
    BY <1>7, EvaluateReturns
  <2>2. Len(stack) \in Nat /\ Len(stack) > 2 /\ Top = stack[1]
    BY <1>7, CheckSteps DEF Evaluate, EvaluationFails, EvaluationThrows, Install, In
  <2>3. ASSUME stack[2].fn = "CheckDependency" PROVE LoopOK(1)'
    <3>1. /\ Len(stack') = Len(stack) - 1 /\ \A i \in 1 .. Len(stack') : stack'[i] = stack[i + 1]
      BY <1>1, <2>1, PoppedStack
    <3>2. stack'[1] = stack[2]
      BY <2>2, <3>1
    <3>3. LoopOK(2)
      <4>1. 2 \in 1 .. Len(stack) - 1
        BY <2>2
      <4>. QED BY <1>1, <2>3, <4>1 DEF CheckOK
    <3>4. 1 = Len(stack') - 1 <=> 2 = Len(stack) - 1
      BY <2>2, <3>1
    <3>5. /\ Looked' = Looked /\ Follows' = Follows /\ \A q : LoopOf(q)' = LoopOf(q)
          /\ \A e : Harmless(e) => Harmless(e)'
      BY <1>3, SameCall, HarmlessStays DEF LoopOf
    <3>6. \A e \in LoopOf(stack[2].cell) : e \in stack[2].left \/ Harmless(e)
      BY <1>7, <2>2, <3>3 DEF LoopOK
    <3>. QED BY <1>3, <3>2, <3>3, <3>4, <3>5, <3>6 DEF LoopOK
  <2>4. Len(stack) > 1 /\ Len(stack) # 2
    BY <2>2
  <2>5. CheckOK'
    BY <1>1, <1>3, <2>1, <2>3, <2>4, CheckPops
  <2>6. RefreshesNeeded'
    BY <1>1, <2>1, <1>7, NeededGoesOn
  <2>. QED BY <1>4, <2>5, <2>6 DEF CheckCall
<1>. QED BY <1>2, <1>5, <1>6, <1>7

-----------------------------------------------------------------------------
(* How the walk of CheckDependency ends.                                   *)

\* Only refreshes are above a refresh.
LEMMA UpdatesAbove ==
  ASSUME WalkInv, NEW j \in 1 .. Len(stack), stack[j].fn = "Update"
  PROVE  \A m \in 1 .. j : stack[m].fn = "Update"
<1> DEFINE T == {n \in Nat : j - n \in 1 .. j /\ stack[j - n].fn # "Update"}
<1>1. Len(stack) \in Nat /\ j \in Nat
  BY DEF WalkInv, StackOK
<1>2. T = {}
  <2> SUFFICES ASSUME T # {} PROVE FALSE
    OBVIOUS
  <2>1. PICK n \in T : \A m \in T : n <= m
    <3>1. T \in SUBSET Nat
      OBVIOUS
    <3> HIDE DEF T
    <3>. QED BY <3>1, LeastNumber
  <2>2. n # 0
    <3>1. j - 0 = j
      BY <1>1
    <3>. QED BY <3>1
  <2>3. n - 1 \in Nat /\ n - 1 < n /\ j - (n - 1) \in 1 .. j /\ (j - (n - 1)) - 1 = j - n
        /\ j - (n - 1) > 1 /\ j - (n - 1) \in 1 .. Len(stack)
    BY <1>1, <2>1, <2>2
  <2>4. stack[j - (n - 1)].fn = "Update"
    <3>1. n - 1 \notin T
      <4>1. ~(n <= n - 1)
        BY <2>3
      <4> HIDE DEF T
      <4>. QED BY <2>1, <4>1
    <3>. QED BY <2>3, <3>1
  <2>5. stack[(j - (n - 1)) - 1].fn = "Update"
    BY <2>3, <2>4 DEF WalkInv, WaitsOK
  <2>. QED BY <2>1, <2>3, <2>5
<1>3. ASSUME NEW m \in 1 .. j PROVE stack[m].fn = "Update"
  <2>1. j - m \in Nat /\ j - (j - m) = m
    BY <1>1
  <2>2. j - m \notin T
    BY <1>2
  <2>. QED BY <2>1, <2>2
<1>. QED BY <1>3

\* A formula all of whose references are harmless.
LEMMA HarmlessEnds ==
  ASSUME CallTypes, CheckedTable, \A e \in Refs(call.text) : Harmless(e)
  PROVE  ~Found /\ ~Overflowing /\ Done = Needed
<1>1. /\ Refs(call.text) \in SUBSET Pos /\ Follows \in Relation
      /\ call.text \in Formula \cup UnplacedFormula
      /\ Base = Start /\ Targets = Looked /\ ValuesOK
  BY FollowsFacts, FormulaAssumption DEF CheckedTable, Base, Targets
<1>2. \A e \in Pos : Harmless(e) => /\ e \notin InvalidNow /\ e \notin Leading(call.cell, Follows)
                                    /\ \A d \in Follows[e] : Harmless(d)
  BY <1>1, HarmlessFacts
<1>3. ~Found
  BY <1>1, <1>2 DEF Found, CycleFound
<1> DEFINE Y == {e \in Pos : Harmless(e)}
           leading == Leading(call.cell, Follows)
<1>4. \A q \in Pos : Steps(call.cell, Follows)[q] \subseteq Follows[q] /\ Follows[q] \subseteq Pos
  BY <1>1 DEF Steps, LookedAt, Relation
<1>5. Examined(Refs(call.text), call.cell, Follows) \subseteq Y
  <2>1. LookedAt(Refs(call.text), leading) \subseteq Y
    BY <1>1 DEF LookedAt
  <2>2. \A y \in Y : Steps(call.cell, Follows)[y] \subseteq Y
    BY <1>2, <1>4
  <2>3. Y \in SUBSET Pos
    OBVIOUS
  <2> HIDE DEF Y
  <2>. QED BY <2>1, <2>2, <2>3, ClosureLeast DEF Examined
<1>6. Targets \cap InvalidNow = {}
  BY <1>1, <1>2, <1>5 DEF Looked
<1>7. Done = Needed /\ ~Endless(Start, call.cache, Looked)
  BY <1>1, <1>6, AllDone
<1>8. ~Cyclic(Examined(Refs(call.text), call.cell, Follows), Steps(call.cell, Follows))
  <2> SUFFICES ASSUME NEW X \in SUBSET Y, X # {},
                      \A y \in X : Steps(call.cell, Follows)[y] \cap X # {}
               PROVE  FALSE
    BY <1>5 DEF Cyclic
  <2>1. X \in SUBSET Pos /\ \A y \in X : Follows[y] \cap X # {}
    BY <1>4
  <2>2. PICK x : x \in X
    OBVIOUS
  <2>3. Cyclic(Closure({x}, Follows), Follows)
    BY <1>1, <2>1, <2>2, CyclicFrom
  <2>. QED BY <2>2, <2>3 DEF Harmless
<1>. QED BY <1>3, <1>7, <1>8 DEF Overflowing

\* A formula that names a cell outside the table is rejected after the check.
LEMMA FailureIsSheetStep ==
  ASSUME WalkInv, CallTypes, CheckCall, ~Idle, Idle', Step, EvaluationFails
  PROVE  SheetStep
<1>1. Top.fn = "HandleFormulaCreation" /\ call.text \in UnplacedFormula
      /\ Reject("FormulaException")
  BY DEF EvaluationFails, In
<1>2. Len(stack) = 1
  <2>1. Len(stack) # 1 => Top.fn \in {"Update", "CheckDependency"}
    BY CheckSteps
  <2>. QED BY <1>1, <2>1
<1>3. CheckedTable /\ \A e \in Refs(call.text) : Harmless(e)
  BY <1>2 DEF CheckCall, CheckOK
<1>4. ~Found /\ ~Overflowing /\ Done = Needed
  BY <1>3, HarmlessEnds
<1>5. outcome' = "FormulaException"
  BY <1>1 DEF Reject, End
<1>6. /\ call.op = "SetCell" /\ content = Start /\ usedBy = Listed
      /\ cache = Refreshed(call.cache, Needed, Shown) /\ Grew({call.cell})
  BY <1>3, <1>4 DEF CheckedTable, ValuesOK, Base, CheckCall
<1>. QED BY <1>1, <1>4, <1>5, <1>6, RejectIsSheetStep

\* A stack as high as it may be shows a recursion that does not end.
LEMMA FullStackOverflows ==
  ASSUME WalkInv, CallTypes, RefreshesOK, CheckCall, Len(stack) = MaxDepth
  PROVE  Overflowing
<1>1. /\ stack \in Seq(Frames) /\ CheckOK /\ CheckedTable /\ RefreshesNeeded /\ ValuesOK
      /\ call.text \in Formula \cup UnplacedFormula
      /\ Base = Start /\ Targets = Looked
  BY DEF WalkInv, StackOK, CheckCall, CheckedTable, Base, Targets
<1> DEFINE n == Len(stack) - 2
           E == Examined(Refs(call.text), call.cell, Follows)
<1>2. n \in Nat /\ n <= Len(stack) /\ n > Cardinality(Pos) /\ Len(stack) \in Nat /\ Len(stack) >= 3
  BY DepthSuffices, WalkAssumption
<1>3. PICK i \in 1 .. n : \E j \in 1 .. n : i < j /\ stack[i].cell = stack[j].cell
  <2> HIDE DEF n
  <2>. QED BY <1>1, <1>2, TwoAlike
<1>4. PICK j \in 1 .. n : i < j /\ stack[i].cell = stack[j].cell
  BY <1>3
<1>5. \A m \in 1 .. n : m \in 1 .. Len(stack) - 1 /\ m \in 1 .. Len(stack) /\ m # Len(stack) - 1
  BY <1>2
<1>6. \A m \in 1 .. n : stack[m].fn = "Update" \/ (stack[m].fn = "CheckDependency" /\ LoopOK(m))
  BY <1>1, <1>5 DEF CheckOK
<1>7. CASE stack[j].fn = "Update"
  <2>1. \A m \in 1 .. j : stack[m].fn = "Update"
    BY <1>5, <1>7, UpdatesAbove
  <2>2. Endless(Base, call.cache, Targets)
    BY <1>1, <1>4, <1>5, <2>1, RefreshedTwice
  <2>. QED BY <1>1, <2>2 DEF Overflowing
<1>8. CASE stack[j].fn # "Update"
  <2>1. stack[j].cell \notin InvalidNow
    <3>1. LoopOK(j) /\ j # Len(stack) - 1
      BY <1>5, <1>6, <1>8
    <3>. QED BY <3>1 DEF LoopOK
  <2>2. stack[i].fn # "Update"
    BY <1>4, <1>5, <2>1 DEF RefreshesOK
  <2>3. ASSUME NEW m \in i .. j PROVE stack[m].fn = "CheckDependency" /\ LoopOK(m)
    <3>1. m \in 1 .. n /\ i \in 1 .. m
      BY <1>2
    <3>2. stack[m].fn # "Update"
      BY <1>5, <2>2, <3>1, UpdatesAbove
    <3>. QED BY <1>6, <3>1, <3>2
  <2>4. ASSUME NEW m \in i .. j
        PROVE  stack[m].cell \in Looked /\ stack[m].cell # call.cell /\ stack[m].cell \in E
    <3>1. m \in 1 .. n
      BY <1>2
    <3>2. m # Len(stack) - 1
      BY <1>5, <3>1
    <3>. QED BY <2>3, <3>2 DEF LoopOK, Looked
  <2>5. ASSUME NEW m \in i + 1 .. j
        PROVE  stack[m - 1].cell \in Steps(call.cell, Follows)[stack[m].cell]
    <3>1. m \in i .. j /\ m > 1
      BY <1>2
    <3>2. /\ stack[m - 1].cell \in LoopOf(stack[m].cell)
          /\ \A e \in LoopOf(stack[m].cell) : PosLess(e, stack[m - 1].cell) => Harmless(e)
      BY <2>3, <3>1 DEF LoopOK
    <3>3. stack[m].cell \in Looked /\ stack[m].cell # call.cell /\ stack[m].cell \in Pos
      <4>1. E \subseteq Pos
        BY ClosureInPos DEF Examined
      <4>. QED BY <2>4, <3>1, <4>1
    <3>. QED BY <1>1, <3>2, <3>3, LoopLooksAt
  <2>6. i \in 1 .. Len(stack) /\ j \in 1 .. Len(stack)
    BY <1>5
  <2>7. \A m \in i .. j : stack[m].cell \in E
    BY <2>4
  <2>8. Cyclic(E, Steps(call.cell, Follows))
    <3> HIDE DEF E
    <3>. QED BY <1>1, <1>4, <2>5, <2>6, <2>7, AlikeIsCycle
  <2>. QED BY <2>8 DEF Overflowing
<1>. QED BY <1>7, <1>8

\* A check that fills the stack is one that Sheet says has no end.
LEMMA CheckOverflows ==
  ASSUME WalkInv, CallTypes, RefreshesOK, CheckCall, ~Idle, Idle',
         \/ Top.fn = "Update" /\ (RefreshNext \/ Evaluate)
         \/ Top.fn = "CheckDependency" /\ CheckNext,
         outcome' # "out_of_range"
  PROVE  SheetStep
<1>1. stack \in Seq(Frames) /\ CheckOK /\ CheckedTable
  BY DEF WalkInv, StackOK, CheckCall
<1>2. Len(stack) # 1
  <2>1. Top = stack[1]
    BY <1>1, StackParts
  <2>. QED BY <1>1, <2>1 DEF CheckOK
<1>3. Len(stack) = MaxDepth /\ outcome' = "StackOverflow" /\ call' = call
  <2>1. CASE Top.fn = "Update"
    BY <1>2, <2>1, RefreshOverflows DEF CheckNext, In
  <2>2. CASE CheckNext
    <3>1. Top.left \in SUBSET Pos /\ \A r \in Pos : After(Top.left, r) \in SUBSET Pos
      BY TopFacts DEF After
    <3>2. CASE Resume(Below)
      <4>1. Below # <<>>
        BY <1>1, <1>2, StackParts, EmptySeq
      <4>. QED BY <3>2, <4>1 DEF Resume, Idle
    <3>3. ASSUME NEW r \in Pos, Stops(r), r # call.cell,
                 r \in InvalidNow => Call(Refreshing(r), Top.left),
                 r \notin InvalidNow =>
                   Call(Frame("CheckDependency", r, Refs(content[r])), After(Top.left, r))
          PROVE  Len(stack) = MaxDepth /\ outcome' = "StackOverflow" /\ call' = call
      <4>1. CASE r \in InvalidNow
        <5>1. Refreshing(r) \in Frames
          BY <4>1, WalkTypes
        <5>2. Pushed(Refreshing(r), Top.left) # <<>>
          BY <1>1, <3>1, <5>1, PushParts
        <5>. QED BY <3>3, <4>1, <5>2, Overflown
      <4>2. CASE r \notin InvalidNow
        <5> PICK f : f = Frame("CheckDependency", r, Refs(content[r]))
          OBVIOUS
        <5>1. f \in Frames
          <6>1. content[r] \in Formula
            BY <3>3, <4>2 DEF Stops, Suspect
          <6>. QED BY <6>1, FormulaAssumption DEF Frame, Frames, Loops
        <5>2. Pushed(f, After(Top.left, r)) # <<>>
          BY <1>1, <3>1, <5>1, PushParts
        <5>. QED BY <3>3, <4>2, <5>2, Overflown
      <4>. QED BY <4>1, <4>2
    <3>. QED BY <2>2, <3>2, <3>3, CheckNextCases
  <2>. QED BY <2>1, <2>2
<1>4. Overflowing
  BY <1>3, FullStackOverflows
<1>. QED BY <1>1, <1>3, <1>4, OverflowIsSheetStep DEF CheckedTable

\* Where the loop in the frame i is: the loop above it goes through its cell,
\* and the one on top has found the cell that is set.
Ahead(i) == IF i = 1 THEN call.cell ELSE stack[i - 1].cell

\* All frames of a walk that has found the cell.
FoundWalk(n) ==
  \A i \in 1 .. n :
    /\ stack[i].cell \in Pos /\ (stack[i].cell = call.cell <=> i = n)
    /\ Ahead(i) \in LoopOf(stack[i].cell)
    /\ \A e \in LoopOf(stack[i].cell) : PosLess(e, Ahead(i)) => Harmless(e)

\* When the cell is found, the frames of the loops are such a walk.
LEMMA FoundFrames ==
  ASSUME WalkInv, CallTypes, CheckCall, ~Idle, CycleIsFound
  PROVE  \E n \in Nat \ {0} :
           FoundWalk(n) /\ \A i \in 1 .. n : stack[i].cell \notin InvalidNow \/ i = n
<1> DEFINE n == Len(stack) - 1
<1>1. stack \in Seq(Frames) /\ Top.fn = "CheckDependency" /\ call.cell \in Pos
  BY DEF WalkInv, StackOK, CycleIsFound, In, CallTypes
<1>2. Len(stack) \in Nat /\ Len(stack) > 1 /\ Top = stack[1] /\ n \in Nat \ {0}
  <2>1. Len(stack) \in Nat /\ Len(stack) > 1 /\ Top = stack[1]
    BY <1>1, TopLoop
  <2>2. \A m \in Nat : m > 1 => m - 1 \in Nat \ {0}
    OBVIOUS
  <2>. QED BY <2>1, <2>2
<1>3. Stops(call.cell)
  BY <1>1 DEF CycleIsFound, Stops, Suspect
<1>4. ASSUME NEW i \in 1 .. n PROVE stack[i].fn = "CheckDependency" /\ LoopOK(i)
  <2>1. /\ stack[i].fn \in {"Update", "CheckDependency"}
        /\ stack[i].fn = "CheckDependency" => LoopOK(i)
    BY DEF CheckCall, CheckOK
  <2>2. stack[i].fn # "Update"
    <3>1. i \in 1 .. Len(stack) /\ 1 \in 1 .. i
      BY <1>2
    <3>. QED BY <1>1, <1>2, <3>1, UpdatesAbove
  <2>. QED BY <2>1, <2>2
<1>5. ASSUME NEW i \in 1 .. n
      PROVE  /\ stack[i].cell \in Pos /\ (stack[i].cell = call.cell <=> i = n)
             /\ Ahead(i) \in LoopOf(stack[i].cell)
             /\ \A e \in LoopOf(stack[i].cell) : PosLess(e, Ahead(i)) => Harmless(e)
  <2>1. stack[i].cell \in Pos
    <3>1. i \in 1 .. Len(stack)
      BY <1>2
    <3>2. stack[i] \in Frames
      BY <1>1, <3>1
    <3>. QED BY <3>2 DEF Frames
  <2>2. CASE i = 1
    BY <1>1, <1>2, <1>3, <1>4, <2>1, <2>2, TopLoop DEF Ahead, LoopOK
  <2>3. CASE i # 1
    <3>1. i > 1
      BY <1>2, <2>3
    <3>. QED BY <1>4, <2>1, <2>3, <3>1 DEF Ahead, LoopOK
  <2>. QED BY <2>2, <2>3
<1>6. \A i \in 1 .. n : stack[i].cell \notin InvalidNow \/ i = n
  BY <1>4 DEF LoopOK
<1>7. FoundWalk(n)
  <2> HIDE DEF n
  <2>. QED BY <1>5 DEF FoundWalk
<1>. QED BY <1>2, <1>6, <1>7

\* The cells it goes through lead to the cell that is set.
LEMMA FoundLeads ==
  ASSUME CallTypes, CheckedTable, NEW n \in Nat \ {0}, FoundWalk(n)
  PROVE  /\ \A i \in 1 .. n : Ahead(i) \in Leading(call.cell, Follows)
         /\ Found
<1> DEFINE back == [q \in Pos |-> {r \in Pos : q \in Follows[r]}]
           leading == Leading(call.cell, Follows)
           T == {i \in Nat : i \in 1 .. n /\ Ahead(i) \notin leading}
<1>1. call.cell \in Pos /\ call.cell \in leading
  <2>1. {call.cell} \in SUBSET Pos
    BY DEF CallTypes
  <2>. QED BY <2>1, ClosureContains DEF Leading
<1>2. ASSUME NEW q \in Pos, NEW e \in Follows[q], e \in leading PROVE q \in leading
  <2>1. e \in Pos /\ e \in Closure({call.cell}, back)
    BY <1>2, ClosureInPos DEF Leading
  <2>2. q \in back[e]
    BY <1>2, <2>1
  <2>. QED BY <2>1, <2>2, ClosureClosed DEF Leading
<1>3. T = {}
  <2> SUFFICES ASSUME T # {} PROVE FALSE
    OBVIOUS
  <2>1. PICK i \in T : \A m \in T : i <= m
    <3>1. T \in SUBSET Nat
      OBVIOUS
    <3> HIDE DEF T
    <3>. QED BY <3>1, LeastNumber
  <2>2. i \in 1 .. n /\ Ahead(i) \notin leading /\ i # 1
    BY <1>1, <2>1 DEF Ahead
  <2>3. i - 1 \in 1 .. n /\ i - 1 \in Nat /\ ~(i <= i - 1) /\ i - 1 # n
    BY <2>2
  <2>4. i - 1 \notin T
    <3> HIDE DEF T
    <3>. QED BY <2>1, <2>3
  <2>5. Ahead(i - 1) \in leading
    BY <2>3, <2>4
  <2>6. stack[i - 1].cell \in Pos /\ stack[i - 1].cell # call.cell
        /\ Ahead(i - 1) \in LoopOf(stack[i - 1].cell)
    BY <2>3 DEF FoundWalk
  <2>7. stack[i - 1].cell \in leading
    <3> HIDE DEF leading
    <3>. QED BY <1>2, <2>5, <2>6 DEF LoopOf
  <2>. QED BY <2>2, <2>7 DEF Ahead
<1>4. \A i \in 1 .. n : Ahead(i) \in leading
  BY <1>3
<1>5. Found
  <2>1. n \in 1 .. n
    OBVIOUS
  <2>2. Ahead(n) \in LoopOf(stack[n].cell) /\ stack[n].cell = call.cell
    BY <2>1 DEF FoundWalk
  <2>3. Ahead(n) \in Refs(call.text) \cap leading
    BY <1>4, <2>1, <2>2 DEF LoopOf
  <2>. QED BY <2>3 DEF Found, CycleFound
<1>. QED BY <1>4, <1>5

\* Sheet looks at those cells and at harmless ones, so all is refreshed and no
\* recursion is without end.
LEMMA FoundEnds ==
  ASSUME CallTypes, CheckedTable, NEW n \in Nat \ {0}, FoundWalk(n),
         \A i \in 1 .. n : stack[i].cell \notin InvalidNow \/ i = n
  PROVE  ~Overflowing /\ Done = Needed
<1> DEFINE Y == {e \in Pos : Harmless(e)} \cup {call.cell} \cup {stack[i].cell : i \in 1 .. n}
           leading == Leading(call.cell, Follows)
           E == Examined(Refs(call.text), call.cell, Follows)
<1>1. /\ Refs(call.text) \in SUBSET Pos /\ Follows \in Relation /\ Follows[call.cell] = {}
      /\ call.text \in Formula \cup UnplacedFormula /\ call.cell \in Pos
      /\ Base = Start /\ Targets = Looked /\ ValuesOK
      /\ \A q \in Pos : LoopOf(q) \in SUBSET Pos
  BY FollowsFacts, FormulaAssumption DEF CheckedTable, Base, Targets, CallTypes
<1>2. \A e \in Pos : Harmless(e) => /\ e \notin InvalidNow /\ e \notin leading /\ e # call.cell
                                    /\ \A d \in Follows[e] : Harmless(d)
  BY <1>1, HarmlessFacts
<1>3. \A q \in Pos : Steps(call.cell, Follows)[q] = LookedAt(Follows[q], leading)
  BY <1>1 DEF Steps
<1>4. ASSUME NEW i \in 1 .. n, NEW e \in LookedAt(LoopOf(stack[i].cell), leading)
      PROVE  e = Ahead(i) \/ Harmless(e)
  <2>1. /\ Ahead(i) \in leading /\ Ahead(i) \in LoopOf(stack[i].cell) /\ stack[i].cell \in Pos
        /\ \A d \in LoopOf(stack[i].cell) : PosLess(d, Ahead(i)) => Harmless(d)
    BY FoundLeads DEF FoundWalk
  <2>2. /\ e \in LoopOf(stack[i].cell)
        /\ \A d \in LoopOf(stack[i].cell) : PosLess(d, e) => d \notin leading
    BY <1>4 DEF LookedAt
  <2>3. e \in Pos /\ Ahead(i) \in Pos
    BY <1>1, <2>1, <2>2
  <2>4. ~PosLess(Ahead(i), e)
    BY <2>1, <2>2
  <2>5. e = Ahead(i) \/ PosLess(e, Ahead(i))
    BY <2>3, <2>4, PositionOrder
  <2>. QED BY <2>1, <2>2, <2>5
<1>5. Y \in SUBSET Pos
  BY <1>1 DEF FoundWalk
<1>6. \A i \in 1 .. n : Ahead(i) \in Y
  <2> TAKE i \in 1 .. n
  <2>1. CASE i = 1
    BY <2>1 DEF Ahead
  <2>2. CASE i # 1
    <3>1. i - 1 \in 1 .. n
      BY <2>2
    <3>. QED BY <2>2, <3>1 DEF Ahead
  <2>. QED BY <2>1, <2>2
<1>7. E \subseteq Y
  <2>1. LookedAt(Refs(call.text), leading) \subseteq Y
    <3>1. n \in 1 .. n /\ stack[n].cell = call.cell
      BY DEF FoundWalk
    <3>2. LookedAt(Refs(call.text), leading) \subseteq Refs(call.text)
      BY DEF LookedAt
    <3>3. LoopOf(stack[n].cell) = Refs(call.text)
      BY <3>1 DEF LoopOf
    <3> SUFFICES ASSUME NEW e \in LookedAt(Refs(call.text), leading) PROVE e \in Y
      OBVIOUS
    <3>4. e = Ahead(n) \/ Harmless(e)
      BY <1>4, <3>1, <3>3
    <3>. QED BY <1>1, <1>6, <3>1, <3>2, <3>4
  <2>2. ASSUME NEW y \in Y PROVE Steps(call.cell, Follows)[y] \subseteq Y
    <3>1. y \in Pos /\ Follows[y] \in SUBSET Pos /\ LookedAt(Follows[y], leading) \subseteq Follows[y]
      BY <1>1, <1>5 DEF Relation, LookedAt
    <3>2. CASE y = call.cell
      BY <1>1, <1>3, <3>1, <3>2
    <3>3. CASE Harmless(y)
      BY <1>2, <1>3, <3>1, <3>3
    <3>4. ASSUME NEW i \in 1 .. n, y = stack[i].cell, y # call.cell
          PROVE  Steps(call.cell, Follows)[y] \subseteq Y
      <4>1. LoopOf(stack[i].cell) = Follows[y]
        BY <3>4 DEF LoopOf
      <4>2. ASSUME NEW e \in LookedAt(Follows[y], leading) PROVE e \in Y
        <5>1. e = Ahead(i) \/ Harmless(e)
          BY <1>4, <4>1, <4>2
        <5>. QED BY <1>6, <3>1, <4>2, <5>1
      <4>. QED BY <1>3, <3>1, <4>2
    <3>. QED BY <2>2, <3>2, <3>3, <3>4
  <2> HIDE DEF Y
  <2>. QED BY <1>5, <2>1, <2>2, ClosureLeast DEF Examined
<1>8. Targets \cap InvalidNow = {}
  <2> SUFFICES ASSUME NEW e \in Looked, e \in InvalidNow PROVE FALSE
    BY <1>1
  <2>1. e \in Y /\ e # call.cell /\ e \in Pos
    BY <1>5, <1>7 DEF Looked
  <2>2. ~Harmless(e)
    BY <1>2, <2>1
  <2>3. PICK i \in 1 .. n : e = stack[i].cell
    BY <2>1, <2>2
  <2>. QED BY <2>1, <2>3 DEF FoundWalk
<1>9. Done = Needed /\ ~Endless(Start, call.cache, Looked)
  BY <1>1, <1>8, AllDone
<1>10. ~Cyclic(E, Steps(call.cell, Follows))
  <2> SUFFICES ASSUME NEW X \in SUBSET E, X # {},
                      \A y \in X : Steps(call.cell, Follows)[y] \cap X # {}
               PROVE  FALSE
    BY DEF Cyclic
  <2>1. X \in SUBSET Pos /\ X \subseteq Y
    BY <1>5, <1>7
  <2>2. \A y \in X : LookedAt(Follows[y], leading) \cap X # {} /\ Follows[y] \cap X # {}
    BY <1>3, <2>1 DEF LookedAt
  <2>3. call.cell \notin X
    BY <1>1, <2>2
  <2>4. ASSUME NEW x \in X, Harmless(x) PROVE FALSE
    <3>1. Cyclic(Closure({x}, Follows), Follows)
      BY <1>1, <2>1, <2>2, CyclicFrom
    <3>. QED BY <2>4, <3>1 DEF Harmless
  <2> DEFINE T == {i \in Nat : i \in 1 .. n /\ stack[i].cell \in X}
  <2>5. T \in SUBSET Nat /\ T # {}
    <3>1. PICK x : x \in X
      OBVIOUS
    <3>2. x \in {stack[i].cell : i \in 1 .. n}
      BY <2>1, <2>3, <2>4, <3>1
    <3>. QED BY <3>1, <3>2
  <2>6. PICK i \in T : \A m \in T : i <= m
    <3> HIDE DEF T
    <3>. QED BY <2>5, LeastNumber
  <2>7. i \in 1 .. n /\ stack[i].cell \in X /\ stack[i].cell # call.cell
    BY <2>3, <2>6
  <2>8. PICK e \in X : e \in LookedAt(Follows[stack[i].cell], leading)
    BY <2>2, <2>7
  <2>9. LoopOf(stack[i].cell) = Follows[stack[i].cell]
    BY <2>7 DEF LoopOf
  <2>10. e = Ahead(i)
    BY <1>4, <2>4, <2>7, <2>8, <2>9
  <2>11. i # 1
    BY <2>3, <2>8, <2>10 DEF Ahead
  <2>12. i - 1 \in 1 .. n /\ ~(i <= i - 1) /\ stack[i - 1].cell \in X
    BY <2>7, <2>8, <2>10, <2>11 DEF Ahead
  <2>13. i - 1 \in T
    BY <2>12
  <2> HIDE DEF T
  <2>. QED BY <2>6, <2>12, <2>13
<1>. QED BY <1>9, <1>10 DEF Overflowing

\* The cycle that is found is the one Sheet finds, with the same refreshes.
LEMMA CycleIsSheetStep ==
  ASSUME WalkInv, CallTypes, CheckCall, ~Idle, Idle', CycleIsFound
  PROVE  SheetStep
<1>1. CheckedTable /\ Reject("CircularDependencyException")
  BY DEF CheckCall, CycleIsFound
<1>2. PICK n \in Nat \ {0} :
        FoundWalk(n) /\ \A i \in 1 .. n : stack[i].cell \notin InvalidNow \/ i = n
  BY FoundFrames
<1>3. Found /\ ~Overflowing /\ Done = Needed
  BY <1>1, <1>2, FoundLeads, FoundEnds
<1>4. outcome' = "CircularDependencyException"
  BY <1>1 DEF Reject, End
<1>5. /\ call.op = "SetCell" /\ call.text \in Formula \cup UnplacedFormula
      /\ content = Start /\ usedBy = Listed
      /\ cache = Refreshed(call.cache, Needed, Shown) /\ Grew({call.cell})
  BY <1>1, <1>3 DEF CheckedTable, ValuesOK, Base, CheckCall
<1>. QED BY <1>1, <1>3, <1>4, <1>5, RejectIsSheetStep

\* A check that ends the call has done its step of Sheet.
LEMMA CheckEnds ==
  ASSUME WalkInv, CallTypes, RefreshesOK, CheckCall, ~Idle, Idle', Step,
         outcome' # "out_of_range"
  PROVE  SheetStep
<1>1. CASE Len(stack) = 1
  <2>1. ~EvaluationThrows
    BY DEF EvaluationThrows, End
  <2>2. ~Install
    <3>1. Install => stack' # <<>>
      <4> SUFFICES ASSUME Install PROVE stack' # <<>>
        OBVIOUS
      <4>1. Resume(<<InvalidateUsers(call.cell, usedBy), Frame("CreateMissing", call.cell, {}),
                     InvalidateUsers(call.cell, usedBy)>>)
        BY DEF Install
      <4>. QED BY <4>1 DEF Resume
    <3>. QED BY <3>1 DEF Idle
  <2>. QED BY <1>1, <2>1, <2>2, CheckSteps, FailureIsSheetStep
<1>2. CASE Len(stack) # 1
  BY <1>2, CheckSteps, CheckOverflows, CycleIsSheetStep
<1>. QED BY <1>1, <1>2

-----------------------------------------------------------------------------
(* The calls that end with an invalidation.                                *)

\* The frame i is a loop of InvalidateCache, or as it was below such loops.
Kept(i, j) ==
  stack'[i].fn = stack[j].fn /\ stack'[i].cell = stack[j].cell

\* The loop of InvalidateCache calls itself, or returns; what is below stays.
LEMMA InvalidateSteps ==
  ASSUME WalkInv, ~Idle, ~Idle', InvalidateNext
  PROVE  /\ UNCHANGED <<content, usedBy, rowsCount, colsCount, outcome, call>>
         /\ Len(stack) \in Nat \ {0} /\ Len(stack') \in Nat \ {0}
         /\ stack[1].fn = "InvalidateCache"
         /\ \/ /\ Len(stack') = Len(stack) - 1
               /\ \A i \in 1 .. Len(stack') : Kept(i, i + 1) /\ i + 1 \in 1 .. Len(stack)
            \/ /\ Len(stack') = Len(stack) + 1 /\ stack'[1].fn = "InvalidateCache"
               /\ \A i \in 1 .. Len(stack) : Kept(i + 1, i)
<1>1. /\ stack \in Seq(Frames) /\ Top.fn = "InvalidateCache" /\ Top.left \in SUBSET Pos
      /\ UNCHANGED <<content, usedBy, rowsCount, colsCount>>
      /\ Len(stack) \in Nat \ {0} /\ Top = stack[1]
  BY StackParts, TopFacts DEF WalkInv, StackOK, InvalidateNext, In
<1>2. CASE Top.left \ InvalidNow = {}
  <2>1. Resume(Below)
    BY <1>2 DEF InvalidateNext
  <2>2. stack' = Below /\ Below # <<>> /\ UNCHANGED <<outcome, call>>
    BY <2>1, Returned
  <2>3. /\ Len(stack') = Len(stack) - 1
        /\ \A i \in 1 .. Len(stack') : stack'[i] = stack[i + 1] /\ i + 1 \in 1 .. Len(stack)
    BY <1>1, <2>2, PoppedStack
  <2>4. Len(stack') \in Nat \ {0}
    <3>1. Len(Below) # 0 /\ Len(Below) \in Nat
      BY <1>1, <2>2, StackParts, EmptySeq
    <3>. QED BY <2>2, <3>1
  <2>. QED BY <1>1, <2>2, <2>3, <2>4 DEF Kept
<1>3. CASE Top.left \ InvalidNow # {}
  <2>1. PICK d \in Top.left \ InvalidNow : Invalidated(d)
    BY <1>3 DEF InvalidateNext
  <2> DEFINE f == InvalidateUsers(d, usedBy)
             S == Top.left \ {d}
  <2>2. Call(f, S) /\ d \in Pos /\ S \in SUBSET Pos
    BY <1>1, <2>1 DEF Invalidated
  <2>3. f \in Frames /\ f.fn = "InvalidateCache"
    BY <2>2, WalkTypes DEF InvalidateUsers, Frame
  <2> HIDE DEF f, S
  <2>4. stack' = Pushed(f, S) /\ UNCHANGED <<outcome, call>>
    BY <2>2, Called
  <2>5. /\ Len(stack') = Len(stack) + 1 /\ stack'[1] = f
        /\ \A i \in 1 .. Len(stack) :
              stack'[i + 1].fn = stack[i].fn /\ stack'[i + 1].cell = stack[i].cell
    BY <1>1, <2>2, <2>3, <2>4, PushedStack
  <2>6. Len(stack') \in Nat \ {0}
    BY <1>1, <2>5
  <2>. QED BY <1>1, <2>3, <2>4, <2>5, <2>6 DEF Kept
<1>. QED BY <1>2, <1>3

\* The last loop returns, and has only invalid cells left.
LEMMA InvalidateEnds ==
  ASSUME WalkInv, ~Idle, Idle', InvalidateNext, outcome' # "StackOverflow"
  PROVE  /\ UNCHANGED <<content, usedBy, cache, rowsCount, colsCount>> /\ outcome' = "Ok"
         /\ Len(stack) = 1 /\ \A d : Awaited(d) => d \in InvalidNow
<1>1. /\ stack \in Seq(Frames) /\ Top.fn = "InvalidateCache" /\ Top.left \in SUBSET Pos
      /\ UNCHANGED <<content, usedBy, rowsCount, colsCount>>
      /\ Len(stack) \in Nat \ {0} /\ Top = stack[1]
  BY StackParts, TopFacts DEF WalkInv, StackOK, InvalidateNext, In
<1>2. CASE Top.left \ InvalidNow = {}
  <2>1. Resume(Below) /\ cache' = cache
    BY <1>2 DEF InvalidateNext
  <2>2. Below = <<>> /\ outcome' = "Ok"
    BY <2>1 DEF Resume, End, Idle
  <2>3. Len(stack) = 1
    <3>1. Len(Below) = 0 /\ Len(Below) = Len(stack) - 1
      BY <1>1, <2>2, StackParts, EmptySeq
    <3>. QED BY <1>1, <3>1
  <2>4. \A d : Awaited(d) => d \in InvalidNow
    <3>1. \A i \in 1 .. Len(stack) : stack[i].left = Top.left
      BY <1>1, <2>3
    <3>. QED BY <1>2, <3>1 DEF Awaited
  <2>. QED BY <1>1, <2>1, <2>2, <2>3, <2>4
<1>3. CASE Top.left \ InvalidNow # {}
  <2>1. PICK d \in Top.left \ InvalidNow : Invalidated(d)
    BY <1>3 DEF InvalidateNext
  <2> DEFINE f == InvalidateUsers(d, usedBy)
             S == Top.left \ {d}
  <2>2. Call(f, S) /\ d \in Pos /\ S \in SUBSET Pos
    BY <1>1, <2>1 DEF Invalidated
  <2>3. f \in Frames
    BY <2>2, WalkTypes
  <2> HIDE DEF f, S
  <2>4. Pushed(f, S) # <<>>
    BY <1>1, <2>2, <2>3, PushParts
  <2>. QED BY <2>2, <2>4, Overflown
<1>. QED BY <1>2, <1>3

\* An invalidation is going on, in the table C with the entries U and with the
\* caches K before it.
Invalidating(C, U, K) ==
  \E c, u, k, p : c = C /\ u = U /\ k = K /\ p = call.cell /\ MarkingOK(c, u, k, p)

TextCall ==
  /\ call.op = "SetCell" /\ call.text \in {EmptyText} \cup Literal \cup HugeFormula
  /\ call.text # Start[call.cell]
  /\ content = [call.content EXCEPT ![call.cell] = call.text] /\ usedBy = Unlisted
  /\ Grew({call.cell})
  /\ \A i \in 1 .. Len(stack) : stack[i].fn = "InvalidateCache"
  /\ Invalidating(content, usedBy, call.cache)

\* Of d frames below the loops, none is touched.
LEMMA FramesBelow ==
  ASSUME WalkInv, ~Idle, ~Idle', InvalidateNext, NEW d \in Nat, d < Len(stack),
         \A i \in 1 .. Len(stack) - d : stack[i].fn = "InvalidateCache"
  PROVE  /\ Len(stack) \in Nat /\ Len(stack') \in Nat \ {0} /\ d <= Len(stack')
         /\ \A i \in 1 .. Len(stack') - d : stack'[i].fn = "InvalidateCache"
         /\ \A j \in 0 .. d - 1 : Kept(Len(stack') - j, Len(stack) - j)
<1>1. Len(stack) \in Nat \ {0} /\ Len(stack') \in Nat \ {0}
  BY InvalidateSteps
<1>2. CASE Len(stack') = Len(stack) - 1 /\
           \A i \in 1 .. Len(stack') : Kept(i, i + 1) /\ i + 1 \in 1 .. Len(stack)
  <2>1. \A i \in 1 .. Len(stack') - d : i \in 1 .. Len(stack') /\ i + 1 \in 1 .. Len(stack) - d
    BY <1>1, <1>2
  <2>2. \A i \in 1 .. Len(stack') - d : stack'[i].fn = "InvalidateCache"
    BY <1>2, <2>1 DEF Kept
  <2>3. d <= Len(stack')
    BY <1>1, <1>2
  <2>4. ASSUME NEW j \in 0 .. d - 1 PROVE Kept(Len(stack') - j, Len(stack) - j)
    <3>1. Len(stack') - j \in 1 .. Len(stack') /\ (Len(stack') - j) + 1 = Len(stack) - j
      BY <1>1, <1>2, <2>3
    <3>2. Kept(Len(stack') - j, (Len(stack') - j) + 1)
      BY <1>2, <3>1
    <3>. QED BY <3>1, <3>2
  <2>. QED BY <1>1, <2>2, <2>3, <2>4
<1>3. CASE /\ Len(stack') = Len(stack) + 1 /\ stack'[1].fn = "InvalidateCache"
           /\ \A i \in 1 .. Len(stack) : Kept(i + 1, i)
  <2>1. ASSUME NEW i \in 1 .. Len(stack') - d PROVE stack'[i].fn = "InvalidateCache"
    <3>1. CASE i = 1
      BY <1>3, <3>1
    <3>2. CASE i # 1
      <4>1. i - 1 \in 1 .. Len(stack) - d /\ i - 1 \in 1 .. Len(stack) /\ (i - 1) + 1 = i
        BY <1>1, <1>3, <3>2
      <4>2. Kept((i - 1) + 1, i - 1)
        BY <1>3, <4>1
      <4>. QED BY <4>1, <4>2 DEF Kept
    <3>. QED BY <3>1, <3>2
  <2>2. d <= Len(stack')
    BY <1>1, <1>3
  <2>3. ASSUME NEW j \in 0 .. d - 1 PROVE Kept(Len(stack') - j, Len(stack) - j)
    <3>1. Len(stack) - j \in 1 .. Len(stack) /\ (Len(stack) - j) + 1 = Len(stack') - j
      BY <1>1, <1>3
    <3>2. Kept((Len(stack) - j) + 1, Len(stack) - j)
      BY <1>3, <3>1
    <3>. QED BY <3>1, <3>2
  <2>. QED BY <1>1, <2>1, <2>2, <2>3
<1>. QED BY <1>2, <1>3, InvalidateSteps

\* An invalidation that goes on is one of the same table.
LEMMA InvalidatingGoesOn ==
  ASSUME WalkInv, CallTypes, ~Idle, ~Idle', InvalidateNext, outcome = "Ok",
         NEW C, NEW U, NEW K, Invalidating(C, U, K)
  PROVE  Invalidating(C, U, K)'
<1>1. UNCHANGED <<outcome, call>>
  BY InvalidateSteps
<1>2. PICK c, u, k, p : c = C /\ u = U /\ k = K /\ p = call.cell /\ MarkingOK(c, u, k, p)
  BY DEF Invalidating
<1>3. p \in Pos /\ outcome' # "StackOverflow"
  BY <1>1, <1>2 DEF CallTypes
<1>. QED BY <1>1, <1>2, <1>3, MarkingGoesOn DEF Invalidating

\* A SetCell without formula that goes on is one.
LEMMA TextGoesOn ==
  ASSUME WalkInv, CallTypes, TextCall, ~Idle, ~Idle', Step, outcome = "Ok"
  PROVE  TextCall'
<1>1. InvalidateNext /\ Len(stack) \in Nat \ {0}
  <2>1. Top.fn = "InvalidateCache" /\ Len(stack) \in Nat \ {0}
    <3>1. Len(stack) \in Nat \ {0} /\ Top = stack[1]
      BY StackParts DEF WalkInv, StackOK
    <3>2. 1 \in 1 .. Len(stack)
      BY <3>1
    <3>. QED BY <3>1, <3>2 DEF TextCall
  <2>. QED BY <2>1
     DEF Step, InvalidateNext, RefreshNext, Evaluate, CheckNext, CycleIsFound, EvaluationFails,
         EvaluationThrows, Install, CreateMissing, Destroy, ReadNext, ReadsEnd, In
<1>2. UNCHANGED <<content, usedBy, rowsCount, colsCount, outcome, call>>
  BY <1>1, InvalidateSteps
<1>3. Start' = Start /\ Unlisted' = Unlisted /\ Grew({call.cell})' = Grew({call.cell})
  BY <1>2, SameCall DEF Grew
<1>4. \A i \in 1 .. Len(stack') : stack'[i].fn = "InvalidateCache"
  <2>1. 0 \in Nat /\ 0 < Len(stack) /\ Len(stack) - 0 = Len(stack)
    BY <1>1
  <2>2. \A i \in 1 .. Len(stack) - 0 : stack[i].fn = "InvalidateCache"
    BY <2>1 DEF TextCall
  <2>3. Len(stack') \in Nat \ {0} /\ \A i \in 1 .. Len(stack') - 0 : stack'[i].fn = "InvalidateCache"
    BY <1>1, <2>1, <2>2, FramesBelow
  <2>4. Len(stack') - 0 = Len(stack')
    BY <2>3
  <2>. QED BY <2>3, <2>4
<1>5. Invalidating(content, usedBy, call.cache)'
  <2>1. PICK C, U, K : C = content /\ U = usedBy /\ K = call.cache
    OBVIOUS
  <2>2. Invalidating(C, U, K)'
    BY <1>1, <2>1, InvalidatingGoesOn DEF TextCall
  <2>. QED BY <1>2, <2>1, <2>2 DEF Invalidating
<1>. QED BY <1>2, <1>3, <1>4, <1>5 DEF TextCall

\* What has been marked when the last loop is done.
LEMMA InvalidatingEnds ==
  ASSUME CallTypes, NEW C, NEW U, NEW K, Invalidating(C, U, K),
         \A d : Awaited(d) => d \in InvalidNow
  PROVE  cache = InvalidateCache(C, U, K, call.cell)
<1>1. PICK c, u, k, p : c = C /\ u = U /\ k = K /\ p = call.cell /\ MarkingOK(c, u, k, p)
  BY DEF Invalidating
<1>2. p \in Pos
  BY <1>1 DEF CallTypes
<1>3. cache = InvalidateCache(c, u, k, p)
  BY <1>1, <1>2, MarkingEnds
<1>. QED BY <1>1, <1>3

\* It ends when all is marked that InvalidateCache reaches.
LEMMA TextEnds ==
  ASSUME WalkInv, CallTypes, TextCall, ~Idle, Idle', Step
  PROVE  SheetStep \/ WalkIsLost
<1>1. InvalidateNext
  <2>1. Top.fn = "InvalidateCache"
    <3>1. Len(stack) \in Nat \ {0} /\ Top = stack[1]
      BY StackParts DEF WalkInv, StackOK
    <3>2. 1 \in 1 .. Len(stack)
      BY <3>1
    <3>. QED BY <3>1, <3>2 DEF TextCall
  <2>. QED BY <2>1
     DEF Step, InvalidateNext, RefreshNext, Evaluate, CheckNext, CycleIsFound, EvaluationFails,
         EvaluationThrows, Install, CreateMissing, Destroy, ReadNext, ReadsEnd, In
<1>2. CASE outcome' = "StackOverflow"
  BY <1>1, <1>2 DEF WalkIsLost, InvalidateNext
<1>3. CASE outcome' # "StackOverflow"
  <2>1. /\ UNCHANGED <<content, usedBy, cache, rowsCount, colsCount>> /\ outcome' = "Ok"
        /\ \A d : Awaited(d) => d \in InvalidNow
    BY <1>1, <1>3, InvalidateEnds
  <2>2. cache = InvalidateCache(content, usedBy, call.cache, call.cell)
    BY <2>1, InvalidatingEnds DEF TextCall
  <2>3. cache' = InvalidateCache(content', usedBy', call.cache, call.cell)
    BY <2>1, <2>2
  <2>4. /\ rowsCount' \in Grown(call.rowsCount, {q.row : q \in {call.cell}}, Rows)
        /\ colsCount' \in Grown(call.colsCount, {q.col : q \in {call.cell}}, Cols)
    BY <2>1 DEF TextCall, Grew
  <2>. QED BY <2>1, <2>3, <2>4, TextIsSheetStep DEF TextCall
<1>. QED BY <1>2, <1>3

\* The step that the frame on top takes.
LEMMA StepOfTop ==
  ASSUME ~Idle, Step
  PROVE  /\ Top.fn = "InvalidateCache" => InvalidateNext
         /\ Top.fn = "ClearCell" => Destroy
         /\ Top.fn = "CreateMissing" => CreateMissing
BY DEF Step, InvalidateNext, RefreshNext, Evaluate, CheckNext, CycleIsFound, EvaluationFails,
       EvaluationThrows, Install, CreateMissing, Destroy, ReadNext, ReadsEnd, In

ClearCall ==
  /\ call.op = "ClearCell"
  /\ content = call.content /\ usedBy = call.usedBy /\ SameSize
  /\ Len(stack) \in Nat \ {0}
  /\ stack[Len(stack)].fn = "ClearCell" /\ stack[Len(stack)].cell = call.cell
  /\ \A i \in 1 .. Len(stack) - 1 : stack[i].fn = "InvalidateCache"
  /\ Invalidating(content, usedBy, call.cache)

\* The loops, and then the end of the holder.
LEMMA ClearSteps ==
  ASSUME WalkInv, ClearCall, ~Idle, Step
  PROVE  /\ Len(stack) \in Nat /\ Top = stack[1]
         /\ \/ 1 < Len(stack) /\ InvalidateNext
            \/ Len(stack) = 1 /\ Destroy
<1>1. Len(stack) \in Nat \ {0} /\ Top = stack[1]
  BY StackParts DEF WalkInv, StackOK
<1>2. CASE Len(stack) = 1
  BY <1>1, <1>2, StepOfTop DEF ClearCall
<1>3. CASE Len(stack) # 1
  <2>1. \A n \in Nat \ {0} : n # 1 => 1 < n /\ 1 \in 1 .. n - 1
    OBVIOUS
  <2>2. 1 < Len(stack) /\ 1 \in 1 .. Len(stack) - 1
    BY <1>1, <1>3, <2>1
  <2>. QED BY <1>1, <2>2, StepOfTop DEF ClearCall
<1>. QED BY <1>1, <1>2, <1>3

\* A ClearCell that goes on is one.
LEMMA ClearGoesOn ==
  ASSUME WalkInv, CallTypes, ClearCall, ~Idle, ~Idle', Step, outcome = "Ok"
  PROVE  ClearCall'
<1>1. Len(stack) \in Nat /\ 1 < Len(stack) /\ InvalidateNext
  <2>1. ~Destroy
    BY DEF Destroy, End, Idle
  <2>. QED BY <2>1, ClearSteps
<1>2. UNCHANGED <<content, usedBy, rowsCount, colsCount, outcome, call>>
  BY <1>1, InvalidateSteps
<1>3. /\ Len(stack') \in Nat \ {0} /\ \A i \in 1 .. Len(stack') - 1 : stack'[i].fn = "InvalidateCache"
      /\ Kept(Len(stack'), Len(stack))
  <2>1. 1 \in Nat /\ \A i \in 1 .. Len(stack) - 1 : stack[i].fn = "InvalidateCache"
    BY DEF ClearCall
  <2>2. /\ Len(stack') \in Nat \ {0}
        /\ \A i \in 1 .. Len(stack') - 1 : stack'[i].fn = "InvalidateCache"
        /\ \A j \in 0 .. 1 - 1 : Kept(Len(stack') - j, Len(stack) - j)
    BY <1>1, <2>1, FramesBelow
  <2>3. Kept(Len(stack') - 0, Len(stack) - 0)
    BY <2>2
  <2>4. Len(stack') - 0 = Len(stack') /\ Len(stack) - 0 = Len(stack)
    BY <1>1, <2>2
  <2>. QED BY <2>2, <2>3, <2>4
<1>4. Invalidating(content, usedBy, call.cache)'
  <2>1. PICK C, U, K : C = content /\ U = usedBy /\ K = call.cache
    OBVIOUS
  <2>2. Invalidating(C, U, K)'
    BY <1>1, <2>1, InvalidatingGoesOn DEF ClearCall
  <2>. QED BY <1>2, <2>1, <2>2 DEF Invalidating
<1>. QED BY <1>2, <1>3, <1>4 DEF ClearCall, Kept, SameSize

\* It ends when all is marked and the holder is gone.
LEMMA ClearEnds ==
  ASSUME WalkInv, CallTypes, ClearCall, ~Idle, Idle', Step, outcome' # "Dangling"
  PROVE  SheetStep \/ WalkIsLost
<1>1. CASE 1 < Len(stack) /\ InvalidateNext
  <2>1. CASE outcome' = "StackOverflow"
    BY <1>1, <2>1 DEF WalkIsLost, InvalidateNext
  <2>2. CASE outcome' # "StackOverflow"
    <3>1. Len(stack) = 1
      BY <1>1, <2>2, InvalidateEnds
    <3>. QED BY <1>1, <3>1
  <2>. QED BY <2>1, <2>2
<1>2. CASE Len(stack) = 1 /\ Destroy
  <2>1. Top = stack[1] /\ Top.cell = call.cell
    BY <1>2, ClearSteps DEF ClearCall
  <2>2. cache = InvalidateCache(content, usedBy, call.cache, call.cell)
    <3>1. \A i \in 1 .. Len(stack) : i = Len(stack)
      BY <1>2
    <3>2. \A d : ~Awaited(d)
      BY <3>1 DEF Awaited, ClearCall
    <3>. QED BY <3>2, InvalidatingEnds DEF ClearCall
  <2>3. /\ cache' = cache /\ outcome' = "Ok"
        /\ content' = [call.content EXCEPT ![call.cell] = Absent]
        /\ usedBy' = [Unlink(call.usedBy, GetReferencedCells(call.content[call.cell]), call.cell)
                        EXCEPT ![call.cell] = [q \in Pos |-> 0]]
        /\ GrowToThenCount({}, content')
    BY <1>2, <2>1 DEF Destroy, End, ClearCall
  <2>. QED BY <2>2, <2>3, ClearIsSheetStep DEF ClearCall
<1>. QED BY <1>1, <1>2, ClearSteps

-----------------------------------------------------------------------------
(* A formula that has been evaluated and installed.                        *)

Evaluated == Refreshed(call.cache, Needed, Shown)

\* The holders it misses are still to be created, or they are there.
HoldersMissing ==
  /\ content = Installed /\ usedBy = Listed /\ Grew({call.cell})
  /\ Len(stack) \in Nat /\ 2 <= Len(stack)
  /\ stack[Len(stack)].fn = "InvalidateCache" /\ stack[Len(stack) - 1].fn = "CreateMissing"
  /\ \A i \in 1 .. Len(stack) - 2 : stack[i].fn = "InvalidateCache"

HoldersThere ==
  /\ content = [q \in Pos |-> IF q \in Missing THEN EmptyText ELSE Installed[q]]
  /\ usedBy = Link(Listed, Missing, call.cell)
  /\ Grew({call.cell} \cup Refs(call.text))
  /\ \A i \in 1 .. Len(stack) : stack[i].fn = "InvalidateCache"

InstallCall ==
  /\ call.op = "SetCell" /\ call.text \in Formula /\ ~Overflowing /\ ~Found
  /\ Invalidating(Installed, Listed, Evaluated)
  /\ HoldersMissing \/ HoldersThere

\* An invalidation that has marked its first cell.
LEMMA InvalidatingBegins ==
  ASSUME NEW C, NEW U, NEW K, K \in Cache, call'.cell \in Pos,
         \A q \in Pos : content'[q] \in Formula <=> C[q] \in Formula,
         usedBy' = U, cache' = [K EXCEPT ![call'.cell] = Stale],
         Len(stack') \in Nat \ {0}, stack'[1] = InvalidateUsers(call'.cell, U),
         \A i \in 1 .. Len(stack') : stack'[i].fn = "InvalidateCache" => stack'[i] = stack'[1]
  PROVE  Invalidating(C, U, K)'
<1>1. PICK c, u, k, p : c = C /\ u = U /\ k = K /\ p = call'.cell
  OBVIOUS
<1>2. SameGraph(c, u, p)'
  BY <1>1 DEF SameGraph
<1>3. MarkingOK(c, u, k, p)'
  BY <1>1, <1>2, MarkingBegins
<1>. QED BY <1>1, <1>3 DEF Invalidating

\* A formula whose references are all fresh is one that Sheet accepts.
LEMMA InstallBegins ==
  ASSUME WalkInv, CallTypes, CheckCall, ~Idle, ~Idle', Install
  PROVE  InstallCall'
<1> DEFINE A == InvalidateUsers(call.cell, usedBy)
           B == Frame("CreateMissing", call.cell, {})
<1>1. stack' = <<A, B, A>> /\ UNCHANGED <<outcome, call>>
  <2>1. PICK frames : frames = <<A, B, A>>
    OBVIOUS
  <2>2. Resume(frames)
    BY <2>1 DEF Install
  <2>. QED BY <2>1, <2>2, Returned
<1>2. /\ call.op = "SetCell" /\ call.text \in Formula /\ content = Start /\ usedBy = Listed
      /\ cache = Refreshed(call.cache, Done, Shown) /\ cache \in Cache
      /\ rowsCount' = rowsCount /\ colsCount' = colsCount /\ usedBy' = usedBy
      /\ content' = [content EXCEPT ![call.cell] = call.text]
      /\ cache' = [cache EXCEPT ![call.cell] = Stale]
      /\ call.cell \in Pos
  BY DEF CheckCall, CheckedTable, ValuesOK, Base, WalkInv, TableOK, Install, CallTypes
<1>3. \A e \in Refs(call.text) : Harmless(e)
  <2>1. Step /\ Top.fn = "HandleFormulaCreation"
    BY DEF Step, Install, In
  <2>2. Len(stack) = 1
    BY <2>1, CheckSteps
  <2>. QED BY <2>2 DEF CheckCall, CheckOK
<1>4. ~Found /\ ~Overflowing /\ Done = Needed
  BY <1>3, HarmlessEnds DEF CheckCall
<1>5. /\ Installed' = Installed /\ Listed' = Listed /\ Evaluated' = Evaluated
      /\ Overflowing' = Overflowing /\ Found' = Found
  BY <1>1, SameCall DEF Evaluated
<1>6. content' = Installed /\ usedBy' = Listed /\ cache = Evaluated
  BY <1>2, <1>4 DEF Installed, Evaluated
<1>7. Len(stack') = 3 /\ stack'[1] = A /\ stack'[2] = B /\ stack'[3] = A
  BY <1>1
<1>8. A.fn = "InvalidateCache" /\ B.fn = "CreateMissing"
  BY DEF InvalidateUsers, Frame
<1> HIDE DEF A, B
<1>9. HoldersMissing'
  <2>1. Grew({call.cell})'
    BY <1>1, <1>2 DEF Grew, CheckCall
  <2>2. Len(stack') \in Nat /\ 2 <= Len(stack') /\ Len(stack') - 1 = 2 /\ Len(stack') - 2 = 1
    BY <1>7
  <2>3. \A i \in 1 .. Len(stack') - 2 : i = 1
    BY <1>7
  <2>. QED BY <1>5, <1>6, <1>7, <1>8, <2>1, <2>2, <2>3 DEF HoldersMissing
<1>10. Invalidating(Installed, Listed, Evaluated)'
  <2>1. PICK C, U, K : C = Installed /\ U = Listed /\ K = Evaluated
    OBVIOUS
  <2>2. /\ K \in Cache /\ call'.cell \in Pos /\ usedBy' = U
        /\ cache' = [K EXCEPT ![call'.cell] = Stale]
        /\ \A q \in Pos : content'[q] \in Formula <=> C[q] \in Formula
    BY <1>1, <1>2, <1>6, <2>1
  <2>3. Len(stack') \in Nat \ {0} /\ stack'[1] = InvalidateUsers(call'.cell, U)
    BY <1>1, <1>2, <1>7, <2>1 DEF A
  <2>4. \A i \in 1 .. Len(stack') : i = 1 \/ i = 2 \/ i = 3
    BY <1>7
  <2>5. \A i \in 1 .. Len(stack') : stack'[i].fn = "InvalidateCache" => stack'[i] = stack'[1]
    BY <1>7, <1>8, <2>4
  <2>6. Invalidating(C, U, K)'
    BY <2>2, <2>3, <2>5, InvalidatingBegins
  <2>. QED BY <1>5, <2>1, <2>6 DEF Invalidating
<1>. QED BY <1>1, <1>2, <1>4, <1>5, <1>9, <1>10 DEF InstallCall

\* The size of the table when the call began.
CallSizes == call.rowsCount \in Nat /\ call.colsCount \in Nat

\* A table that covers old cells and grows twice covers all of them.
LEMMA GrownTwice ==
  ASSUME NEW a \in Nat, NEW max \in Nat, NEW I \in SUBSET Nat, NEW J \in SUBSET Nat,
         NEW K \in SUBSET Nat, I \subseteq K, J \subseteq K,
         NEW n \in Grown(a, I, max), NEW m \in Grown(n, J, max),
         \A i \in K : i \in I \/ i \in J \/ i < n
  PROVE  m \in Grown(a, K, max)
<1>1. n \in 0 .. max /\ m \in 0 .. max /\ a <= n /\ n <= m
  BY DEF Grown
<1>2. \A i \in K : i < m
  <2>1. ASSUME NEW i \in K PROVE i < m
    <3>1. i \in Nat
      OBVIOUS
    <3>2. i < n \/ i < m
      BY DEF Grown
    <3>. QED BY <1>1, <3>1, <3>2
  <2>. QED BY <2>1
<1>3. m = a \/ m - 1 \in K
  <2>1. (m = n \/ m - 1 \in J) /\ (n = a \/ n - 1 \in I)
    BY DEF Grown
  <2>. QED BY <2>1
<1>4. a <= m
  BY <1>1
<1>. QED BY <1>1, <1>2, <1>3, <1>4 DEF Grown

\* CreateCell for what a formula misses: the table covers all it refers to.
LEMMA MissingCovered ==
  ASSUME CallTypes, CallSizes, SizesOK, Grew({call.cell}), content = Installed,
         call' = call, call.text \in Formula, GrowTo(Missing)
  PROVE  Grew({call.cell} \cup Refs(call.text))'
<1>1. Rows \in Nat /\ Cols \in Nat /\ \A q \in Pos : q.row \in Nat /\ q.col \in Nat
  BY TableAssumption DEF Pos, At, kMaxRows, kMaxCols
<1>2. call.cell \in Pos /\ Refs(call.text) \subseteq Pos /\ Missing \subseteq Refs(call.text)
  BY FormulaAssumption DEF CallTypes, Missing
<1>3. \A q \in Refs(call.text) : q = call.cell \/ q \in Missing \/ CellExists(content, q)
  <2>1. Start \in Contents
    BY StartOfCall
  <2>2. \A q \in Pos : q # call.cell => content[q] = Start[q]
    BY <2>1 DEF Installed, Contents
  <2>. QED BY <1>2, <2>2 DEF Missing, CellExists
<1>4. \A q \in Pos : CellExists(content, q) => q.row < rowsCount /\ q.col < colsCount
  BY DEF SizesOK, SizeCovers
<1> DEFINE all == {call.cell} \cup Refs(call.text)
<1>5. rowsCount' \in Grown(call.rowsCount, {q.row : q \in all}, Rows)
  <2> DEFINE I == {q.row : q \in {call.cell}}
             J == {q.row : q \in Missing}
             K == {q.row : q \in all}
  <2>1. I \in SUBSET Nat /\ J \in SUBSET Nat /\ K \in SUBSET Nat /\ I \subseteq K /\ J \subseteq K
    BY <1>1, <1>2
  <2>2. \A i \in K : i \in I \/ i \in J \/ i < rowsCount
    BY <1>2, <1>3, <1>4
  <2>3. rowsCount \in Grown(call.rowsCount, I, Rows) /\ rowsCount' \in Grown(rowsCount, J, Rows)
    BY DEF Grew, GrowTo
  <2> HIDE DEF I, J, K
  <2>4. rowsCount' \in Grown(call.rowsCount, K, Rows)
    BY <1>1, <2>1, <2>2, <2>3, GrownTwice DEF CallSizes
  <2>. QED BY <2>4 DEF K
<1>6. colsCount' \in Grown(call.colsCount, {q.col : q \in all}, Cols)
  <2> DEFINE I == {q.col : q \in {call.cell}}
             J == {q.col : q \in Missing}
             K == {q.col : q \in all}
  <2>1. I \in SUBSET Nat /\ J \in SUBSET Nat /\ K \in SUBSET Nat /\ I \subseteq K /\ J \subseteq K
    BY <1>1, <1>2
  <2>2. \A i \in K : i \in I \/ i \in J \/ i < colsCount
    BY <1>2, <1>3, <1>4
  <2>3. colsCount \in Grown(call.colsCount, I, Cols) /\ colsCount' \in Grown(colsCount, J, Cols)
    BY DEF Grew, GrowTo
  <2> HIDE DEF I, J, K
  <2>4. colsCount' \in Grown(call.colsCount, K, Cols)
    BY <1>1, <2>1, <2>2, <2>3, GrownTwice DEF CallSizes
  <2>. QED BY <2>4 DEF K
<1>. QED BY <1>5, <1>6 DEF Grew

\* The stack while the holders are missing.
LEMMA MissingSteps ==
  ASSUME WalkInv, HoldersMissing, ~Idle, Step
  PROVE  /\ Top = stack[1]
         /\ \/ 2 < Len(stack) /\ InvalidateNext
            \/ Len(stack) = 2 /\ CreateMissing
<1>1. Top = stack[1] /\ Len(stack) \in Nat /\ 2 <= Len(stack)
  BY StackParts DEF WalkInv, StackOK, HoldersMissing
<1>2. CASE Len(stack) = 2
  <2>1. Len(stack) - 1 = 1
    BY <1>2
  <2>. QED BY <1>1, <1>2, <2>1, StepOfTop DEF HoldersMissing
<1>3. CASE Len(stack) # 2
  <2>1. \A n \in Nat : 2 <= n /\ n # 2 => 2 < n /\ 1 \in 1 .. n - 2
    OBVIOUS
  <2>2. 2 < Len(stack) /\ 1 \in 1 .. Len(stack) - 2
    BY <1>1, <1>3, <2>1
  <2>. QED BY <1>1, <2>2, StepOfTop DEF HoldersMissing
<1>. QED BY <1>1, <1>2, <1>3

\* The stack when the holders are there.
LEMMA ThereSteps ==
  ASSUME WalkInv, HoldersThere, ~Idle, Step
  PROVE  InvalidateNext /\ Len(stack) \in Nat \ {0}
<1>1. Top = stack[1] /\ Len(stack) \in Nat \ {0}
  BY StackParts DEF WalkInv, StackOK
<1>2. 1 \in 1 .. Len(stack)
  BY <1>1
<1>. QED BY <1>1, <1>2, StepOfTop DEF HoldersThere

\* What the loops still have to look at does not change when the frame above
\* them is gone, nor with holders that have no formula.
LEMMA MissingMarks ==
  ASSUME NEW c, NEW u \in Graph, NEW k, NEW p \in Pos, MarkingOK(c, u, k, p),
         Len(stack) = 2, Len(stack') = 1, stack'[1] = stack[2], stack[1].fn # "InvalidateCache",
         cache' = cache, NEW S, content' = [q \in Pos |-> IF q \in S THEN EmptyText ELSE c[q]],
         \A q \in S : c[q] \notin Formula, usedBy' = Link(u, S, p)
  PROVE  MarkingOK(c, u, k, p)'
<1>1. PICK V : MarkedOK(V, c, u, k, p)
  BY DEF MarkingOK
<1>2. SameGraph(c, u, p)'
  <2>1. \A q \in Pos : content'[q] \in Formula <=> c[q] \in Formula
    BY TextAssumption
  <2>2. \A q, d \in Pos : /\ u[q][d] > 0 => usedBy'[q][d] > 0
                          /\ usedBy'[q][d] > 0 => u[q][d] > 0 \/ d = p
    <3>1. \A q, d \in Pos : u[q][d] \in Nat
      BY DEF Graph
    <3>2. \A r, q \in Pos : q # p => usedBy'[r][q] = u[r][q]
      BY LinkFacts
    <3>3. \A r \in Pos : usedBy'[r][p] = IF r \in S THEN u[r][p] + 1 ELSE u[r][p]
      BY LinkFacts
    <3>. QED BY <3>1, <3>2, <3>3
  <2>. QED BY <2>1, <2>2 DEF SameGraph
<1>3. \A d : Awaited(d) => Awaited(d)'
  <2>1. \A i \in 1 .. Len(stack) : i = 1 \/ i = 2
    OBVIOUS
  <2>2. 1 \in 1 .. Len(stack')
    OBVIOUS
  <2>. QED BY <2>1, <2>2 DEF Awaited
<1>4. ASSUME NEW i \in 1 .. Len(stack'), stack'[i].fn = "InvalidateCache"
      PROVE  stack'[i].left \subseteq Reached(c, u, k, p) \cup Invalid(c, k)
  <2>1. i = 1 /\ 2 \in 1 .. Len(stack)
    OBVIOUS
  <2>2. stack[2].fn = "InvalidateCache"
    BY <1>4, <2>1
  <2>3. stack[2].left \subseteq Reached(c, u, k, p) \cup Invalid(c, k)
    BY <1>1, <2>1, <2>2 DEF MarkedOK
  <2>. QED BY <2>1, <2>3
<1>5. MarkedOK(V, c, u, k, p)'
  BY <1>1, <1>3, <1>4 DEF MarkedOK
<1>. QED BY <1>2, <1>5 DEF MarkingOK

\* CreateMissing leaves the marks as they are.
LEMMA MissingEnds ==
  ASSUME WalkInv, CallTypes, CallSizes, SizesOK, InstallCall, HoldersMissing,
         ~Idle, ~Idle', CreateMissing, Len(stack) = 2, Top = stack[1]
  PROVE  InstallCall'
<1>1. stack' = Below /\ UNCHANGED <<outcome, call>>
  BY Returned DEF CreateMissing
<1>2. Len(stack') = 1 /\ stack'[1] = stack[2]
  <2>1. Len(stack') = 1 /\ \A i \in 1 .. Len(stack') : stack'[i] = stack[i + 1]
    BY <1>1, PoppedStack DEF WalkInv, StackOK
  <2>2. 1 \in 1 .. Len(stack')
    BY <2>1
  <2>. QED BY <2>1, <2>2
<1>3. stack[1].fn = "CreateMissing" /\ stack[2].fn = "InvalidateCache"
  <2>1. Len(stack) - 1 = 1
    OBVIOUS
  <2>. QED BY <2>1 DEF HoldersMissing
<1>4. /\ Start \in Contents /\ Listed \in Graph /\ call.cell \in Pos
      /\ content = Installed /\ usedBy = Listed /\ Grew({call.cell})
      /\ call.text \in Formula /\ Refs(call.text) \subseteq Pos
  BY StartOfCall, FormulaAssumption DEF CallTypes, HoldersMissing, InstallCall
<1>5. {r \in Refs(call.text) : ~CellExists(content, r)} = Missing
  <2>1. \A q \in Pos : q # call.cell => content[q] = Start[q]
    BY <1>4 DEF Installed, Contents
  <2>2. content[call.cell] = call.text /\ Start[call.cell] # Absent /\ call.text # Absent
    <3>1. content[call.cell] = call.text
      BY <1>4 DEF Installed, Contents
    <3>2. Start[call.cell] # Absent
      <4>1. EmptyText # Absent
        BY TextAssumption DEF Text
      <4>. QED BY <4>1, <1>4, StartOfCall DEF CellExists
    <3>3. call.text # Absent
      BY <1>4, TextAssumption DEF Text
    <3>. QED BY <3>1, <3>2, <3>3
  <2>3. \A r \in Refs(call.text) : CellExists(content, r) <=> CellExists(Start, r)
    BY <1>4, <2>1, <2>2 DEF CellExists
  <2>. QED BY <2>3 DEF Missing
<1>6. /\ content' = [q \in Pos |-> IF q \in Missing THEN EmptyText ELSE Installed[q]]
      /\ usedBy' = Link(Listed, Missing, call.cell) /\ cache' = cache
      /\ GrowTo(Missing)
  BY <1>4, <1>5 DEF CreateMissing
<1>7. Grew({call.cell} \cup Refs(call.text))'
  BY <1>1, <1>4, <1>6, MissingCovered
<1>8. /\ Installed' = Installed /\ Listed' = Listed /\ Evaluated' = Evaluated
      /\ Missing' = Missing /\ Overflowing' = Overflowing /\ Found' = Found
  BY <1>1, SameCall DEF Evaluated
<1>9. \A i \in 1 .. Len(stack') : stack'[i].fn = "InvalidateCache"
  <2>1. \A i \in 1 .. Len(stack') : i = 1
    BY <1>2
  <2>. QED BY <1>2, <1>3, <2>1
<1>10. HoldersThere'
  BY <1>1, <1>6, <1>7, <1>8, <1>9 DEF HoldersThere
<1>11. Invalidating(Installed, Listed, Evaluated)'
  <2>1. PICK c, u, k, p : /\ c = Installed /\ u = Listed /\ k = Evaluated /\ p = call.cell
                          /\ MarkingOK(c, u, k, p)
    BY DEF InstallCall, Invalidating
  <2>2. PICK S : S = Missing
    OBVIOUS
  <2>3. /\ u \in Graph /\ p \in Pos /\ usedBy' = Link(u, S, p)
        /\ content' = [q \in Pos |-> IF q \in S THEN EmptyText ELSE c[q]]
    BY <1>4, <1>6, <2>1, <2>2
  <2>4. \A q \in S : c[q] \notin Formula
    <3>1. \A q \in Missing : q \in Refs(call.text) /\ content[q] = Absent
      BY <1>5 DEF CellExists
    <3>2. Absent \notin Formula
      BY TextAssumption DEF Text
    <3>. QED BY <1>4, <2>1, <2>2, <3>1, <3>2
  <2>5. MarkingOK(c, u, k, p)'
    BY <1>2, <1>3, <1>6, <2>1, <2>3, <2>4, MissingMarks
  <2>. QED BY <1>1, <1>8, <2>1, <2>5 DEF Invalidating
<1>. QED BY <1>1, <1>8, <1>10, <1>11 DEF InstallCall

\* The installation of a formula that goes on is one.
LEMMA InstallGoesOn ==
  ASSUME WalkInv, CallTypes, CallSizes, SizesOK, InstallCall, ~Idle, ~Idle', Step,
         outcome = "Ok"
  PROVE  InstallCall'
<1>1. CASE InvalidateNext
  <2>1. UNCHANGED <<content, usedBy, rowsCount, colsCount, outcome, call>>
    BY <1>1, InvalidateSteps
  <2>2. /\ Installed' = Installed /\ Listed' = Listed /\ Evaluated' = Evaluated
        /\ Missing' = Missing /\ Overflowing' = Overflowing /\ Found' = Found
    BY <2>1, SameCall DEF Evaluated
  <2>3. Invalidating(Installed, Listed, Evaluated)'
    <3>1. PICK C, U, K : C = Installed /\ U = Listed /\ K = Evaluated
      OBVIOUS
    <3>2. Invalidating(C, U, K)'
      BY <1>1, <3>1, InvalidatingGoesOn DEF InstallCall
    <3>. QED BY <2>2, <3>1, <3>2 DEF Invalidating
  <2>4. CASE HoldersMissing
    <3>1. Len(stack) \in Nat /\ 2 < Len(stack)
      <4>1. ~CreateMissing
        BY <1>1 DEF InvalidateNext, CreateMissing, In
      <4>. QED BY <2>4, <4>1, MissingSteps DEF HoldersMissing
    <3>2. 2 \in Nat /\ \A i \in 1 .. Len(stack) - 2 : stack[i].fn = "InvalidateCache"
      BY <2>4 DEF HoldersMissing
    <3>3. /\ Len(stack') \in Nat \ {0} /\ 2 <= Len(stack')
          /\ \A i \in 1 .. Len(stack') - 2 : stack'[i].fn = "InvalidateCache"
          /\ \A j \in 0 .. 2 - 1 : Kept(Len(stack') - j, Len(stack) - j)
      BY <1>1, <3>1, <3>2, FramesBelow
    <3>4. Kept(Len(stack') - 0, Len(stack) - 0) /\ Kept(Len(stack') - 1, Len(stack) - 1)
      BY <3>3
    <3>5. Len(stack') - 0 = Len(stack') /\ Len(stack) - 0 = Len(stack)
      BY <3>1, <3>3
    <3>6. Kept(Len(stack'), Len(stack))
      BY <3>4, <3>5
    <3>7. HoldersMissing'
      BY <2>1, <2>2, <2>4, <3>3, <3>4, <3>6 DEF HoldersMissing, Kept, Grew
    <3>. QED BY <2>1, <2>2, <2>3, <3>7 DEF InstallCall
  <2>5. CASE HoldersThere
    <3>1. 0 \in Nat /\ 0 < Len(stack) /\ Len(stack) - 0 = Len(stack)
      BY <2>5, ThereSteps
    <3>2. \A i \in 1 .. Len(stack) - 0 : stack[i].fn = "InvalidateCache"
      BY <2>5, <3>1 DEF HoldersThere
    <3>3. Len(stack') \in Nat \ {0} /\ \A i \in 1 .. Len(stack') - 0 : stack'[i].fn = "InvalidateCache"
      BY <1>1, <3>1, <3>2, FramesBelow
    <3>4. Len(stack') - 0 = Len(stack')
      BY <3>3
    <3>5. HoldersThere'
      BY <2>1, <2>2, <2>5, <3>3, <3>4 DEF HoldersThere, Grew
    <3>. QED BY <2>1, <2>2, <2>3, <3>5 DEF InstallCall
  <2>. QED BY <2>4, <2>5 DEF InstallCall
<1>2. CASE ~InvalidateNext
  <2>1. HoldersMissing
    BY <1>2, ThereSteps DEF InstallCall
  <2>2. Len(stack) = 2 /\ CreateMissing /\ Top = stack[1]
    BY <1>2, <2>1, MissingSteps
  <2>. QED BY <2>1, <2>2, MissingEnds
<1>. QED BY <1>1, <1>2

\* It ends as the SetCell of a formula.
LEMMA InstallEnds ==
  ASSUME WalkInv, CallTypes, InstallCall, ~Idle, Idle', Step
  PROVE  SheetStep \/ WalkIsLost
<1>1. CASE outcome' = "StackOverflow" /\ InvalidateNext
  BY <1>1 DEF WalkIsLost, InvalidateNext
<1>2. CASE outcome' # "StackOverflow" /\ InvalidateNext
  <2>1. /\ UNCHANGED <<content, usedBy, cache, rowsCount, colsCount>> /\ outcome' = "Ok"
        /\ Len(stack) = 1 /\ \A d : Awaited(d) => d \in InvalidNow
    BY <1>2, InvalidateEnds
  <2>2. HoldersThere
    <3>1. ~HoldersMissing
      BY <2>1 DEF HoldersMissing
    <3>. QED BY <3>1 DEF InstallCall
  <2>3. PICK C, U, K : C = Installed /\ U = Listed /\ K = Evaluated
    OBVIOUS
  <2>4. cache = InvalidateCache(C, U, K, call.cell)
    BY <2>1, <2>3, InvalidatingEnds DEF InstallCall
  <2>5. cache' = InvalidateCache(Installed, Listed, Refreshed(call.cache, Needed, Shown), call.cell)
    BY <2>1, <2>3, <2>4 DEF Evaluated
  <2>6. /\ rowsCount' \in Grown(call.rowsCount,
                               {q.row : q \in {call.cell} \cup Refs(call.text)}, Rows)
        /\ colsCount' \in Grown(call.colsCount,
                               {q.col : q \in {call.cell} \cup Refs(call.text)}, Cols)
    BY <2>1, <2>2 DEF HoldersThere, Grew
  <2>7. /\ content' = [q \in Pos |-> IF q \in Missing THEN EmptyText ELSE Installed[q]]
        /\ usedBy' = Link(Listed, Missing, call.cell)
    BY <2>1, <2>2 DEF HoldersThere
  <2>. QED BY <2>1, <2>5, <2>6, <2>7, FormulaIsSheetStep DEF InstallCall
<1>3. CASE ~InvalidateNext
  <2>1. Len(stack) = 2 /\ CreateMissing
    BY <1>3, ThereSteps, MissingSteps DEF InstallCall
  <2>2. Len(Below) = 1
    BY <2>1, StackParts DEF WalkInv, StackOK
  <2>3. Below # <<>>
    BY <2>2
  <2>. QED BY <2>1, <2>3 DEF CreateMissing, Resume, Idle
<1>. QED BY <1>1, <1>2, <1>3

-----------------------------------------------------------------------------
(* How a call begins.                                                      *)

\* The table it begins with is the one there is.
LEMMA TableOfCall ==
  ASSUME WalkInv, SizesOK, NEW op \in {"SetCell", "ClearCell", "GetValue", "PrintValues"},
         NEW p \in Pos, NEW t, NEW frames, Begin(op, p, t, frames)
  PROVE  /\ stack' = frames /\ CallTypes' /\ CallSizes'
         /\ call'.op = op /\ call'.cell = p /\ call'.text = t
         /\ call'.content = content /\ call'.usedBy = usedBy /\ call'.cache = cache
         /\ call'.rowsCount = rowsCount /\ call'.colsCount = colsCount
         /\ Start' = Started(p) /\ Unlisted' = Forgotten(p) /\ Listed' = Registered(p, t)
<1>1. /\ stack' = frames /\ call'.op = op /\ call'.cell = p /\ call'.text = t
      /\ call'.content = content /\ call'.usedBy = usedBy /\ call'.cache = cache
      /\ call'.rowsCount = rowsCount /\ call'.colsCount = colsCount
  BY DEF Begin
<1>2. CallTypes'
  BY <1>1 DEF CallTypes, WalkInv, TableOK
<1>3. CallSizes'
  <2>1. Rows \in Nat /\ Cols \in Nat
    BY TableAssumption
  <2>2. rowsCount \in Nat /\ colsCount \in Nat
    BY <2>1 DEF SizesOK
  <2>. QED BY <1>1, <2>2 DEF CallSizes
<1>4. Start' = Started(p)
  BY <1>1 DEF Start, Started
<1>5. Unlisted' = Forgotten(p)
  BY <1>1, <1>4 DEF Unlisted, Forgotten
<1>6. Listed' = Registered(p, t)
  BY <1>1, <1>4, <1>5 DEF Listed, Registered
<1>. QED BY <1>1, <1>2, <1>3, <1>4, <1>5, <1>6

\* A SetCell without formula begins by marking its cell,
LEMMA TextBegins ==
  ASSUME WalkInv, SizesOK, NEW p \in Pos, NEW t, BeginText(p, t)
  PROVE  CallTypes' /\ CallSizes' /\ TextCall'
<1> DEFINE A == InvalidateUsers(p, usedBy')
<1>1. /\ Begin("SetCell", p, t, <<A, A>>) /\ t \in {EmptyText} \cup Literal \cup HugeFormula
      /\ t # Started(p)[p] /\ content' = [content EXCEPT ![p] = t]
      /\ usedBy' = Forgotten(p) /\ cache' = [cache EXCEPT ![p] = Stale] /\ GrowTo({p})
  BY DEF BeginText
<1>2. A.fn = "InvalidateCache"
  BY DEF InvalidateUsers, Frame
<1>3. A = InvalidateUsers(p, usedBy')
  OBVIOUS
<1> HIDE DEF A
<1>4. /\ stack' = <<A, A>> /\ CallTypes' /\ CallSizes'
      /\ call'.op = "SetCell" /\ call'.cell = p /\ call'.text = t
      /\ call'.content = content /\ call'.usedBy = usedBy /\ call'.cache = cache
      /\ call'.rowsCount = rowsCount /\ call'.colsCount = colsCount
      /\ Start' = Started(p) /\ Unlisted' = Forgotten(p)
  BY <1>1, TableOfCall
<1>5. Grew({call.cell})'
  BY <1>1, <1>4 DEF Grew, GrowTo
<1>6. Len(stack') = 2 /\ stack'[1] = A /\ stack'[2] = A
  BY <1>4
<1>7. \A i \in 1 .. Len(stack') : stack'[i] = A
  <2>1. \A i \in 1 .. Len(stack') : i = 1 \/ i = 2
    BY <1>6
  <2>. QED BY <1>6, <2>1
<1>8. Invalidating(content, usedBy, call.cache)'
  <2>1. PICK C, U, K : C = content' /\ U = usedBy' /\ K = cache
    OBVIOUS
  <2>2. K \in Cache /\ cache' = [K EXCEPT ![call'.cell] = Stale] /\ call'.cell \in Pos
    BY <1>1, <1>4, <2>1 DEF WalkInv, TableOK
  <2>3. Len(stack') \in Nat \ {0} /\ stack'[1] = InvalidateUsers(call'.cell, U)
    BY <1>3, <1>4, <1>6, <2>1
  <2>4. \A i \in 1 .. Len(stack') : stack'[i] = stack'[1]
    BY <1>6, <1>7
  <2>5. Invalidating(C, U, K)'
    BY <2>1, <2>2, <2>3, <2>4, InvalidatingBegins
  <2>. QED BY <1>4, <2>1, <2>5 DEF Invalidating
<1>. QED BY <1>1, <1>2, <1>4, <1>5, <1>7, <1>8 DEF TextCall

\* and so does a ClearCell.
LEMMA ClearBegins ==
  ASSUME WalkInv, SizesOK, NEW p \in Pos, BeginClear(p)
  PROVE  CallTypes' /\ CallSizes' /\ ClearCall'
<1> DEFINE A == InvalidateUsers(p, usedBy)
           B == Frame("ClearCell", p, {})
<1>1. /\ Begin("ClearCell", p, EmptyText, <<A, B>>) /\ cache' = [cache EXCEPT ![p] = Stale]
      /\ UNCHANGED <<content, usedBy, rowsCount, colsCount>>
  BY DEF BeginClear
<1>2. A.fn = "InvalidateCache" /\ B.fn = "ClearCell" /\ B.cell = p
  BY DEF InvalidateUsers, Frame
<1>3. A = InvalidateUsers(p, usedBy)
  OBVIOUS
<1> HIDE DEF A, B
<1>4. /\ stack' = <<A, B>> /\ CallTypes' /\ CallSizes'
      /\ call'.op = "ClearCell" /\ call'.cell = p
      /\ call'.content = content /\ call'.usedBy = usedBy /\ call'.cache = cache
      /\ call'.rowsCount = rowsCount /\ call'.colsCount = colsCount
  BY <1>1, TableOfCall
<1>5. Len(stack') = 2 /\ stack'[1] = A /\ stack'[2] = B
  BY <1>4
<1>6. /\ Len(stack') \in Nat \ {0} /\ Len(stack') - 1 = 1
      /\ \A i \in 1 .. Len(stack') : i = 1 \/ i = 2
      /\ \A i \in 1 .. Len(stack') - 1 : i = 1
  BY <1>5
<1>7. Invalidating(content, usedBy, call.cache)'
  <2>1. PICK C, U, K : C = content /\ U = usedBy /\ K = cache
    OBVIOUS
  <2>2. /\ K \in Cache /\ cache' = [K EXCEPT ![call'.cell] = Stale] /\ call'.cell \in Pos
        /\ content' = C /\ usedBy' = U
    BY <1>1, <1>4, <2>1 DEF WalkInv, TableOK
  <2>3. stack'[1] = InvalidateUsers(call'.cell, U)
    BY <1>3, <1>4, <1>5, <2>1
  <2>4. \A i \in 1 .. Len(stack') : stack'[i].fn = "InvalidateCache" => stack'[i] = stack'[1]
    BY <1>2, <1>5, <1>6
  <2>5. Invalidating(C, U, K)'
    BY <1>6, <2>2, <2>3, <2>4, InvalidatingBegins
  <2>. QED BY <1>1, <1>4, <2>1, <2>5 DEF Invalidating
<1>. QED BY <1>1, <1>2, <1>4, <1>5, <1>6, <1>7 DEF ClearCall, SameSize

\* No value has been computed yet.
LEMMA ValuesBegin ==
  ASSUME CallTypes', content' = Base', cache' = call'.cache
  PROVE  ValuesOK' /\ Done' = {} /\ InvalidNow' = Invalid(Base, call.cache)'
<1>1. InvalidNow' = Invalid(Base, call.cache)' /\ Done' = {}
  BY DEF InvalidNow, Invalid, Done
<1>2. cache' = Refreshed(call.cache, Done, Shown)'
  <2>1. call'.cache \in Cache
    BY DEF CallTypes
  <2>2. Refreshed(call.cache, Done, Shown)' = [p \in Pos |-> call'.cache[p]]
    BY <1>1 DEF Refreshed
  <2>. QED BY <2>1, <2>2 DEF Cache
<1>. QED BY <1>1, <1>2 DEF ValuesOK

\* A read begins with all its cells to look at.
LEMMA ReadsBegin ==
  ASSUME WalkInv, SizesOK, NEW op, NEW p \in Pos, NEW S, BeginReads(op, p, S),
         \/ op = "GetValue" /\ S = {p}
         \/ op = "PrintValues" /\ S = {q \in Pos : q.row < rowsCount /\ q.col < colsCount}
  PROVE  CallTypes' /\ CallSizes' /\ ReadCall'
<1> DEFINE A == Frame("GetValue", p, S)
<1>1. /\ Begin(op, p, EmptyText, <<A>>) /\ S \cap InvalidNow # {}
      /\ UNCHANGED <<content, usedBy, cache, rowsCount, colsCount>>
  BY DEF BeginReads
<1>2. A.fn = "GetValue" /\ A.left = S
  BY DEF Frame
<1> HIDE DEF A
<1>3. op \in {"SetCell", "ClearCell", "GetValue", "PrintValues"} /\ op # "SetCell"
  OBVIOUS
<1>4. /\ stack' = <<A>> /\ CallTypes' /\ CallSizes' /\ call'.op = op /\ call'.cell = p
      /\ call'.content = content /\ call'.usedBy = usedBy /\ call'.cache = cache
      /\ call'.rowsCount = rowsCount /\ call'.colsCount = colsCount
  BY <1>1, <1>3, TableOfCall
<1>5. Base' = content /\ Targets' = S
  BY <1>3, <1>4 DEF Base, Targets
<1>6. ValuesOK' /\ InvalidNow' = Invalid(Base, call.cache)' /\ InvalidNow' = InvalidNow
  BY <1>1, <1>4, <1>5, ValuesBegin DEF InvalidNow
<1>7. Len(stack') = 1 /\ stack'[1] = A
  BY <1>4
<1>8. \A i \in 1 .. Len(stack') : stack'[i].fn = "GetValue"
  <2>1. \A i \in 1 .. Len(stack') : i = 1
    BY <1>7
  <2>. QED BY <1>2, <1>7, <2>1
<1>9. ReadsOK'
  <2>1. Len(stack') \in Nat \ {0} /\ \A i \in 1 .. Len(stack') - 1 : FALSE
    BY <1>7
  <2>. QED BY <1>2, <1>5, <1>7, <2>1 DEF ReadsOK
<1>10. RefreshesNeeded'
  BY <1>8 DEF RefreshesNeeded
<1>11. (Targets \cap Invalid(Base, call.cache))' # {}
  BY <1>1, <1>5, <1>6
<1>. QED BY <1>1, <1>3, <1>4, <1>6, <1>9, <1>10, <1>11 DEF ReadCall, SameSize

\* A SetCell of a formula begins with all its references to look at.
LEMMA FormulaBegins ==
  ASSUME WalkInv, SizesOK, NEW p \in Pos, NEW t, BeginFormula(p, t)
  PROVE  CallTypes' /\ CallSizes' /\ CheckCall'
<1> DEFINE A == Frame("CheckDependency", p, Refs(t))
           B == Frame("HandleFormulaCreation", p, Refs(t))
<1>1. /\ Begin("SetCell", p, t, <<A, B>>) /\ t \in Formula \cup UnplacedFormula
      /\ content' = Started(p) /\ usedBy' = Registered(p, t) /\ GrowTo({p})
      /\ cache' = cache
  BY DEF BeginFormula
<1>2. /\ A.fn = "CheckDependency" /\ A.cell = p /\ A.left = Refs(t)
      /\ B.fn = "HandleFormulaCreation" /\ B.left = Refs(t)
  BY DEF Frame
<1> HIDE DEF A, B
<1>3. /\ stack' = <<A, B>> /\ CallTypes' /\ CallSizes'
      /\ call'.op = "SetCell" /\ call'.cell = p /\ call'.text = t
      /\ call'.content = content /\ call'.usedBy = usedBy /\ call'.cache = cache
      /\ call'.rowsCount = rowsCount /\ call'.colsCount = colsCount
      /\ Start' = Started(p) /\ Listed' = Registered(p, t)
  BY <1>1, TableOfCall
<1>4. Grew({call.cell})'
  BY <1>1, <1>3 DEF Grew, GrowTo
<1>5. ValuesOK'
  <2>1. Base' = Started(p)
    BY <1>3 DEF Base
  <2>. QED BY <1>1, <1>3, <2>1, ValuesBegin
<1>6. Len(stack') = 2 /\ stack'[1] = A /\ stack'[2] = B
  BY <1>3
<1>7. /\ Len(stack') \in Nat \ {0} /\ Len(stack') - 1 = 1
      /\ \A i \in 1 .. Len(stack') : i = 1 \/ i = 2
      /\ \A i \in 1 .. Len(stack') - 1 : i = 1
  BY <1>6
<1>8. RefreshesNeeded'
  BY <1>2, <1>6, <1>7 DEF RefreshesNeeded
<1>9. ASSUME NEW i \in 1 .. Len(stack') - 1
      PROVE  stack'[i].fn = "CheckDependency" /\ LoopOK(i)'
  <2>1. i = 1
    BY <1>7
  <2>2. LoopOf(p)' = Refs(t)
    BY <1>3 DEF LoopOf
  <2>. QED BY <1>2, <1>3, <1>6, <1>7, <2>1, <2>2 DEF LoopOK
<1>10. CheckOK'
  <2>1. \A i \in 1 .. Len(stack') - 1 :
          stack'[i].fn \in {"Update", "CheckDependency"} /\ LoopOK(i)'
    BY <1>9
  <2>2. 1 \in 1 .. Len(stack') - 1
    BY <1>7
  <2>3. stack'[Len(stack') - 1].fn = "CheckDependency" /\ Len(stack') # 1
    BY <1>2, <1>6, <1>7
  <2>. QED BY <1>2, <1>3, <1>6, <1>7, <2>1, <2>3 DEF CheckOK
<1>. QED BY <1>1, <1>3, <1>4, <1>5, <1>8, <1>10 DEF CheckCall, CheckedTable

-----------------------------------------------------------------------------
(* The calls, whatever they are.                                           *)

KnownCall == TextCall \/ ClearCall \/ ReadCall \/ CheckCall \/ InstallCall

CallInv == SizesOK /\ (~Idle => CallTypes /\ CallSizes /\ KnownCall)

\* Every call begins as one of these.
LEMMA BeginCallInv ==
  ASSUME WalkInv, CallInv, BeginCall
  PROVE  CallTypes' /\ CallSizes' /\ KnownCall'
<1>1. At(0, 0) \in Pos
  BY TableAssumption DEF Pos, At
<1>2. CASE BeginReads("PrintValues", At(0, 0), {q \in Pos : q.row < rowsCount /\ q.col < colsCount})
  BY <1>1, <1>2, ReadsBegin DEF KnownCall, CallInv
<1>3. ASSUME NEW p \in Pos, BeginClear(p) PROVE CallTypes' /\ CallSizes' /\ KnownCall'
  BY <1>3, ClearBegins DEF KnownCall, CallInv
<1>4. ASSUME NEW p \in Pos, BeginReads("GetValue", p, {p})
      PROVE  CallTypes' /\ CallSizes' /\ KnownCall'
  BY <1>4, ReadsBegin DEF KnownCall, CallInv
<1>5. ASSUME NEW p \in Pos, NEW t, BeginText(p, t) PROVE CallTypes' /\ CallSizes' /\ KnownCall'
  BY <1>5, TextBegins DEF KnownCall, CallInv
<1>6. ASSUME NEW p \in Pos, NEW t, BeginFormula(p, t)
      PROVE  CallTypes' /\ CallSizes' /\ KnownCall'
  BY <1>6, FormulaBegins DEF KnownCall, CallInv
<1>. QED BY <1>2, <1>3, <1>4, <1>5, <1>6 DEF BeginCall

\* The calls whose frames read values.
LEMMA TopOfCall ==
  ASSUME WalkInv, CallInv, ~Idle, Step
  PROVE  /\ Install => CheckCall
         /\ CreateMissing => InstallCall
<1>1. Len(stack) \in Nat \ {0} /\ Top = stack[1] /\ 1 \in 1 .. Len(stack)
  BY StackParts DEF WalkInv, StackOK
<1>2. TextCall => Top.fn = "InvalidateCache"
  BY <1>1 DEF TextCall
<1>3. ClearCall => Top.fn \in {"InvalidateCache", "ClearCell"}
  BY ClearSteps DEF InvalidateNext, Destroy, In
<1>4. ReadCall => Top.fn \in {"GetValue", "Update"}
  BY ReadSteps
<1>5. CheckCall => Top.fn # "CreateMissing"
  <2>1. ASSUME CheckCall PROVE Top.fn # "CreateMissing"
    BY <2>1, CheckSteps DEF CallInv, EvaluationFails, EvaluationThrows, Install, In
  <2>. QED BY <2>1
<1>6. InstallCall => Top.fn \in {"InvalidateCache", "CreateMissing"}
  BY MissingSteps, ThereSteps DEF InstallCall, InvalidateNext, CreateMissing, In
<1>. QED BY <1>2, <1>3, <1>4, <1>5, <1>6 DEF CallInv, KnownCall, Install, CreateMissing, In

\* A call that goes on is one of these, for the same cell and text.
LEMMA KnownCallGoesOn ==
  ASSUME WalkInv, InvalidationInv, CachesInv, CallInv, ~Idle, ~Idle', Step
  PROVE  KnownCall' /\ call' = call
<1>1. outcome = "Ok" /\ RefreshesOK /\ CallTypes /\ CallSizes /\ SizesOK
  BY DEF InvalidationInv, CachesInv, CallInv
<1>2. call' = call
  BY DEF Step, InvalidateNext, Invalidated, RefreshNext, Evaluate, CheckNext, CycleIsFound,
         EvaluationFails, EvaluationThrows, Install, CreateMissing, Destroy, ReadNext, ReadsEnd,
         Reject, Call, Resume, End, Idle
<1>3. CASE TextCall
  BY <1>1, <1>2, <1>3, TextGoesOn DEF KnownCall
<1>4. CASE ClearCall
  BY <1>1, <1>2, <1>4, ClearGoesOn DEF KnownCall
<1>5. CASE ReadCall
  BY <1>1, <1>2, <1>5, ReadGoesOn DEF KnownCall
<1>6. CASE CheckCall
  BY <1>1, <1>2, <1>6, CheckGoesOn, InstallBegins DEF KnownCall
<1>7. CASE InstallCall
  BY <1>1, <1>2, <1>7, InstallGoesOn DEF KnownCall
<1>. QED BY <1>2, <1>3, <1>4, <1>5, <1>6, <1>7 DEF CallInv, KnownCall

\* A step that ends a call is the call's step of Sheet.
LEMMA KnownCallEnds ==
  ASSUME WalkInv, InvalidationInv, CachesInv, CallInv, ~Idle, Idle', Step,
         outcome' \notin {"out_of_range", "Dangling"}
  PROVE  SheetStep \/ WalkIsLost
<1>1. RefreshesOK /\ CallTypes
  BY DEF CachesInv, CallInv
<1>2. CASE TextCall
  BY <1>1, <1>2, TextEnds
<1>3. CASE ClearCall
  BY <1>1, <1>3, ClearEnds
<1>4. CASE ReadCall
  BY <1>1, <1>4, ReadEnds
<1>5. CASE CheckCall
  BY <1>1, <1>5, CheckEnds
<1>6. CASE InstallCall
  BY <1>1, <1>6, InstallEnds
<1>. QED BY <1>2, <1>3, <1>4, <1>5, <1>6 DEF CallInv, KnownCall

\* Whatever call is going on, the size covers every holder.
LEMMA NextCallSizes ==
  ASSUME WalkInv, CallInv, [NextWalk]_walkVars
  PROVE  SizesOK'
<1>1. Install => CellExists(content, call.cell)
  <2> SUFFICES ASSUME Install PROVE CellExists(content, call.cell)
    OBVIOUS
  <2>1. ~Idle /\ Step
    BY DEF Install, In, Step
  <2>2. CheckCall /\ CallTypes
    BY <2>1, TopOfCall DEF CallInv
  <2>3. content = Start
    BY <2>2 DEF CheckCall, CheckedTable, ValuesOK, Base
  <2>4. EmptyText # Absent
    BY TextAssumption DEF Text
  <2>. QED BY <2>2, <2>3, <2>4, StartOfCall DEF CellExists
<1>2. CreateMissing => call.text \in Formula
  <2> SUFFICES ASSUME CreateMissing PROVE call.text \in Formula
    OBVIOUS
  <2>1. ~Idle /\ Step
    BY DEF CreateMissing, In, Step
  <2>. QED BY <2>1, TopOfCall DEF InstallCall
<1>. QED BY <1>1, <1>2, NextSizes DEF CallInv

\* Where nothing happens the call is what it was.
LEMMA MarkingStays ==
  ASSUME UNCHANGED walkVars, NEW C, NEW U, NEW K, Invalidating(C, U, K)
  PROVE  Invalidating(C, U, K)'
<1>1. PICK c, u, k, p : c = C /\ u = U /\ k = K /\ p = call.cell /\ MarkingOK(c, u, k, p)
  BY DEF Invalidating
<1>2. PICK V : MarkedOK(V, c, u, k, p)
  BY <1>1 DEF MarkingOK
<1>3. UNCHANGED <<content, usedBy, cache, stack, call>>
  BY DEF walkVars
<1>4. \A d : Awaited(d)' <=> Awaited(d)
  BY <1>3 DEF Awaited
<1>5. MarkedOK(V, c, u, k, p)'
  BY <1>2, <1>3, <1>4 DEF MarkedOK
<1>6. SameGraph(c, u, p)'
  BY <1>1, <1>3 DEF MarkingOK, SameGraph
<1>. QED BY <1>1, <1>3, <1>5, <1>6 DEF Invalidating, MarkingOK

\* So it is with nothing changed.
LEMMA KnownCallStays ==
  ASSUME UNCHANGED walkVars, KnownCall
  PROVE  KnownCall'
<1>1. UNCHANGED <<content, usedBy, cache, rowsCount, colsCount, outcome, stack, call>>
  BY DEF walkVars
<1>2. /\ Start' = Start /\ Unlisted' = Unlisted /\ Listed' = Listed /\ Base' = Base
      /\ Shown' = Shown /\ Follows' = Follows /\ Looked' = Looked /\ Targets' = Targets
      /\ Needed' = Needed /\ Overflowing' = Overflowing /\ Found' = Found
      /\ Installed' = Installed /\ Missing' = Missing /\ Evaluated' = Evaluated
      /\ Solvable(Base, call.cache)' = Solvable(Base, call.cache)
  BY <1>1, SameCall DEF Evaluated
<1>3. InvalidNow' = InvalidNow
  BY <1>1 DEF InvalidNow
<1>4. Invalid(Base, call.cache)' = Invalid(Base, call.cache)
  BY <1>1, <1>2
<1>5. Done' = Done /\ \A S : Grew(S)' <=> Grew(S)
  BY <1>1, <1>3, <1>4 DEF Done, Grew
<1>6. ValuesOK => ValuesOK'
  <2>1. Refreshed(call.cache, Done, Shown)' = Refreshed(call.cache, Done, Shown)
    BY <1>1, <1>2, <1>5
  <2>. QED BY <1>1, <1>2, <1>3, <1>5, <2>1 DEF ValuesOK
<1>7. RefreshesNeeded => RefreshesNeeded'
  BY <1>1, <1>2 DEF RefreshesNeeded
<1>8. TextCall => TextCall'
  <2> SUFFICES ASSUME TextCall PROVE TextCall'
    OBVIOUS
  <2>1. PICK C, U, K : C = content /\ U = usedBy /\ K = call.cache
    OBVIOUS
  <2>2. Invalidating(C, U, K)'
    BY <2>1, MarkingStays DEF TextCall
  <2>3. Invalidating(content, usedBy, call.cache)'
    BY <1>1, <2>1, <2>2 DEF Invalidating
  <2>. QED BY <1>1, <1>2, <2>3 DEF TextCall, Grew
<1>9. ClearCall => ClearCall'
  <2> SUFFICES ASSUME ClearCall PROVE ClearCall'
    OBVIOUS
  <2>1. PICK C, U, K : C = content /\ U = usedBy /\ K = call.cache
    OBVIOUS
  <2>2. Invalidating(C, U, K)'
    BY <2>1, MarkingStays DEF ClearCall
  <2>3. Invalidating(content, usedBy, call.cache)'
    BY <1>1, <2>1, <2>2 DEF Invalidating
  <2>. QED BY <1>1, <2>3 DEF ClearCall, SameSize
<1>10. ReadCall => ReadCall'
  BY <1>1, <1>2, <1>3, <1>4, <1>6, <1>7 DEF ReadCall, ReadsOK, SameSize
<1>11. CheckCall => CheckCall'
  <2>1. \A e : Harmless(e) => Harmless(e)'
    BY <1>1, <1>3, HarmlessStays
  <2>2. \A q : LoopOf(q)' = LoopOf(q)
    BY <1>1, <1>2 DEF LoopOf
  <2>3. \A i : LoopOK(i) => LoopOK(i)'
    BY <1>1, <1>2, <1>3, <2>1, <2>2 DEF LoopOK
  <2>4. CheckOK => CheckOK'
    BY <1>1, <2>1, <2>3 DEF CheckOK
  <2>. QED BY <1>1, <1>2, <1>6, <1>7, <2>4 DEF CheckCall, CheckedTable, Grew
<1>12. InstallCall => InstallCall'
  <2> SUFFICES ASSUME InstallCall PROVE InstallCall'
    OBVIOUS
  <2>1. PICK C, U, K : C = Installed /\ U = Listed /\ K = Evaluated
    OBVIOUS
  <2>2. Invalidating(C, U, K)'
    BY <2>1, MarkingStays DEF InstallCall
  <2>3. Invalidating(Installed, Listed, Evaluated)'
    BY <1>2, <2>1, <2>2 DEF Invalidating
  <2>4. HoldersMissing => HoldersMissing'
    BY <1>1, <1>2 DEF HoldersMissing, Grew
  <2>5. HoldersThere => HoldersThere'
    BY <1>1, <1>2 DEF HoldersThere, Grew
  <2>. QED BY <1>1, <1>2, <2>3, <2>4, <2>5 DEF InstallCall
<1>. QED BY <1>8, <1>9, <1>10, <1>11, <1>12 DEF KnownCall

\* Every step keeps the invariant of the calls.
LEMMA NextCallInv ==
  WalkInv /\ InvalidationInv /\ CachesInv /\ CallInv /\ [NextWalk]_walkVars => CallInv'
<1> SUFFICES ASSUME WalkInv, InvalidationInv, CachesInv, CallInv, [NextWalk]_walkVars, ~Idle'
             PROVE  CallTypes' /\ CallSizes' /\ KnownCall'
  BY NextCallSizes DEF CallInv
<1>1. CASE BeginCall
  BY <1>1, BeginCallInv
<1>2. CASE Step
  <2>1. ~Idle
    BY <1>2 DEF Step, InvalidateNext, RefreshNext, Evaluate, CheckNext, CycleIsFound,
         EvaluationFails, EvaluationThrows, Install, CreateMissing, Destroy, ReadNext, ReadsEnd, In
  <2>2. KnownCall' /\ call' = call
    BY <1>2, <2>1, KnownCallGoesOn
  <2>. QED BY <2>1, <2>2 DEF CallInv, CallTypes, CallSizes
<1>3. CASE UNCHANGED walkVars
  <2>1. ~Idle /\ call' = call
    BY <1>3 DEF walkVars, Idle
  <2>. QED BY <1>3, <2>1, KnownCallStays DEF CallInv, CallTypes, CallSizes
<1>4. ~CallWithoutWalk
  BY DEF CallWithoutWalk, Ready, Idle
<1>. QED BY <1>1, <1>2, <1>3, <1>4 DEF NextWalk

\* However its walks interleave with the caches they fill, a call that ends does
\* what the one step of Sheet does, overflow included.
THEOREM CallsAreSteps == SpecWalk => CallsAreSheetSteps
<1>1. InitWalk => InvalidationInv /\ CachesInv /\ CallInv
  <2> SUFFICES ASSUME InitWalk PROVE InvalidationInv /\ CachesInv /\ CallInv
    OBVIOUS
  <2>1. Idle /\ rowsCount = 0 /\ colsCount = 0 /\ \A p \in Pos : content[p] = Absent
    BY DEF InitWalk, Init, Idle
  <2>2. SizesOK
    BY <2>1, TableAssumption DEF SizesOK, SizeCovers, CellExists
  <2>. QED BY <2>1, <2>2 DEF InvalidationInv, CachesInv, CallInv
<1>2. WalkInv /\ InvalidationInv /\ CachesInv /\ CallInv /\ [NextWalk]_walkVars =>
        [(Ends /\ outcome' \notin {"out_of_range", "Dangling"}) =>
           SheetStep \/ WalkIsLost]_walkVars
  <2> SUFFICES ASSUME WalkInv, InvalidationInv, CachesInv, CallInv, [NextWalk]_walkVars,
                      Ends, outcome' \notin {"out_of_range", "Dangling"}
               PROVE  SheetStep \/ WalkIsLost
    OBVIOUS
  <2>1. ~Idle /\ Idle'
    BY DEF Ends, Idle
  <2>2. Step
    BY <2>1 DEF NextWalk, CallWithoutWalk, BeginCall, BeginReads, BeginClear, BeginText,
         BeginFormula, Ready, walkVars, Idle
  <2>. QED BY <2>1, <2>2, KnownCallEnds
<1>. QED BY <1>1, <1>2, InitWalkInv, NextWalkInv, NextInvalidationInv, NextCachesInv,
            NextCallInv, PTL
     DEF SpecWalk, CallsAreSheetSteps
=============================================================================

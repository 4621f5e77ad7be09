---------------------------- MODULE Recalculation ----------------------------
(***************************************************************************)
(* The calls of Sheet with their walks one call or return at a time:       *)
(* InvalidateCache, CheckDependency, the loops of HandleFormulaCreation    *)
(* and the refresh by UpdateChache, Update and Evaluate.  Here a literal   *)
(* may also be unreadable: digits behind an apostrophe whose number no     *)
(* double holds.  Evaluate throws out_of_range when it reads one, in the   *)
(* middle of whatever walk it is part of, and no handler catches it.       *)
(*                                                                         *)
(* The stack lists what is left to do, the current frame first: a frame    *)
(* names a function, its cell and the cells its loop has not looked at.    *)
(***************************************************************************)
EXTENDS Sheet, Sequences, FiniteSets

CONSTANTS
  Unreadable,  \* literals that no formula can read
  Entered(_),  \* the texts entered at a position
  MaxDepth,    \* bound on the stack: a walk that ends may be in each cell once
  MaxListed,   \* bound on how often usedBy lists one holder
  NoCall       \* no call is in progress

ASSUME WalkAssumption ==
  /\ Unreadable \subseteq Literal
  /\ \A p \in Pos : Entered(p) \subseteq Text
  /\ MaxDepth \in Nat /\ MaxDepth >= Cardinality(Pos) + 3 /\ MaxListed \in Nat \ {0}

VARIABLES
  stack,
  call       \* the call in progress, and the table it began with

walkVars == <<content, usedBy, cache, rowsCount, colsCount, outcome, stack, call>>

Frame(fn, p, S) == [fn |-> fn, cell |-> p, left |-> S]

Idle == stack = <<>>
Ready == Idle /\ Running /\ outcome # "Dangling"
Top == Head(stack)
Below == Tail(stack)
In(fns) == ~Idle /\ Top.fn \in fns

Users(q) == {d \in Pos : usedBy[q][d] > 0}
InvalidNow == Invalid(content, cache)

\* The references of a formula are visited in this order.
First(S) == CHOOSE p \in S : \A q \in S \ {p} : PosLess(p, q)
After(S, p) == {q \in S : PosLess(p, q)}

-----------------------------------------------------------------------------
(* How a step changes the stack.                                           *)

\* The call ends, by its return or by an exception.
End(result) ==
  /\ stack' = <<>> /\ outcome' = result
  /\ call' = IF result = "StackOverflow" THEN call ELSE NoCall

\* Back to the frames that are left; with none left the call returns.
Resume(frames) ==
  IF frames = <<>> THEN End("Ok")
  ELSE stack' = frames /\ UNCHANGED <<outcome, call>>

\* Call f, with S left to do afterwards; the stack ends somewhere.
Call(f, S) ==
  IF Len(stack) = MaxDepth THEN End("StackOverflow")
  ELSE Resume(<<f, [Top EXCEPT !.left = S]>> \o Below)

\* The body of InvalidateCache after it has marked its cell, and equally the
\* loop that ends SetCell.
InvalidateUsers(p, u) == Frame("InvalidateCache", p, {d \in Pos : u[p][d] > 0})

Refreshing(p) == Frame("Update", p, GetReferencedCells(content[p]))

-----------------------------------------------------------------------------
(* The beginning of a call.  How the last one ended is forgotten then.     *)

Begin(op, p, t, frames) ==
  /\ stack' = frames
  /\ call' = [op |-> op, cell |-> p, text |-> t, content |-> content,
              usedBy |-> usedBy, cache |-> cache, rowsCount |-> rowsCount,
              colsCount |-> colsCount]
  /\ outcome' = "Ok"

\* Calls that walk nowhere are the steps of Sheet.
CallWithoutWalk ==
  /\ Ready
  /\ \/ RejectPosition
     \/ \E p \in Pos : \/ SetCellToSameText(p)
                       \/ ~CellExists(content, p) /\ ClearCell(p)
                       \/ \E t \in Entered(p) : SetCellThrows(p, t)
  /\ UNCHANGED <<stack, call>>

\* reset() to nothing, a LiteralCell or an ErrorCell.
BeginText(p, t) ==
  /\ Ready
  /\ t \in {EmptyText} \cup Literal \cup HugeFormula
  /\ t # Started(p)[p]
  /\ content' = [content EXCEPT ![p] = t]
  /\ usedBy' = Forgotten(p)
  /\ cache' = [cache EXCEPT ![p] = Stale]
  /\ GrowTo({p})
  /\ Begin("SetCell", p, t, <<InvalidateUsers(p, usedBy'), InvalidateUsers(p, usedBy')>>)

\* Mutant: the old content goes when its entries go.
BeginFormulaEmptied(p, t) ==
  /\ Ready
  /\ t \in Formula \cup UnplacedFormula
  /\ t # Started(p)[p]
  /\ \A r \in Refs(t) : Registered(p, t)[r][p] <= MaxListed
  /\ content' = [content EXCEPT ![p] = EmptyText]
  /\ usedBy' = Registered(p, t)
  /\ GrowTo({p})
  /\ Begin("SetCell", p, t, <<Frame("CheckDependency", p, Refs(t)),
                              Frame("HandleFormulaCreation", p, Refs(t))>>)
  /\ UNCHANGED cache

\* Mutant: the new formula is in its cell before CheckDependency.
BeginFormulaInstalled(p, t) ==
  /\ Ready
  /\ t \in Formula \cup UnplacedFormula
  /\ t # Started(p)[p]
  /\ \A r \in Refs(t) : Registered(p, t)[r][p] <= MaxListed
  /\ content' = [Started(p) EXCEPT ![p] = IF t \in Formula THEN t ELSE @]
  /\ usedBy' = Registered(p, t)
  /\ cache' = [cache EXCEPT ![p] = Stale]
  /\ GrowTo({p})
  /\ Begin("SetCell", p, t, <<Frame("CheckDependency", p, Refs(t)),
                              Frame("HandleFormulaCreation", p, Refs(t))>>)

\* Up to the call of CheckDependency.  A bound keeps a text that throws each
\* time from being listed without end.
BeginFormula(p, t) ==
  /\ Ready
  /\ t \in Formula \cup UnplacedFormula
  /\ t # Started(p)[p]
  /\ \A r \in Refs(t) : Registered(p, t)[r][p] <= MaxListed
  /\ content' = Started(p)
  /\ usedBy' = Registered(p, t)
  /\ GrowTo({p})
  /\ Begin("SetCell", p, t, <<Frame("CheckDependency", p, Refs(t)),
                              Frame("HandleFormulaCreation", p, Refs(t))>>)
  /\ UNCHANGED cache

BeginClear(p) ==
  /\ Ready
  /\ CellExists(content, p)
  /\ cache' = [cache EXCEPT ![p] = Stale]
  /\ Begin("ClearCell", p, EmptyText, <<InvalidateUsers(p, usedBy), Frame("ClearCell", p, {})>>)
  /\ UNCHANGED <<content, usedBy, rowsCount, colsCount>>

\* GetValue of the cells of S one after the other.
BeginReads(op, p, S) ==
  /\ Ready
  /\ S \cap InvalidNow # {}
  /\ Begin(op, p, EmptyText, <<Frame("GetValue", p, S)>>)
  /\ UNCHANGED <<content, usedBy, cache, rowsCount, colsCount>>

BeginCall ==
  \/ BeginReads("PrintValues", At(0, 0), {q \in Pos : q.row < rowsCount /\ q.col < colsCount})
  \/ \E p \in Pos : \/ BeginClear(p) \/ BeginReads("GetValue", p, {p})
                    \/ \E t \in Entered(p) : BeginText(p, t) \/ BeginFormula(p, t)

-----------------------------------------------------------------------------
(* The steps of a call.                                                    *)

\* Mutant: InvalidateCache marks its cell after the loop.
InvalidatedLate(d) ==
  /\ Call(InvalidateUsers(d, usedBy), Top.left \ {d})
  /\ UNCHANGED cache

Invalidated(d) ==
  /\ cache' = [cache EXCEPT ![d] = Stale]
  /\ Call(InvalidateUsers(d, usedBy), Top.left \ {d})

\* The loop of InvalidateCache, over a usedBy whose order says nothing.
InvalidateNext ==
  /\ In({"InvalidateCache"})
  /\ LET valid == Top.left \ InvalidNow
     IN  IF valid = {} THEN Resume(Below) /\ UNCHANGED cache
         ELSE \E d \in valid : Invalidated(d)
  /\ UNCHANGED <<content, usedBy, rowsCount, colsCount>>

\* What the loops of Update, UpdateChache and HandleFormulaCreation, and the
\* reads, still have to refresh.
Pending == Top.left \cap InvalidNow

\* Mutant: the loop ends with the first reference it refreshes.
RefreshFirst ==
  /\ In({"Update", "HandleFormulaCreation"})
  /\ Pending # {}
  /\ Call(Refreshing(First(Pending)), {})
  /\ UNCHANGED <<content, usedBy, cache, rowsCount, colsCount>>

\* UpdateChache goes through the references of its cell, then Update does so
\* again and finds them fresh: both are the frame Update.
RefreshNext ==
  /\ In({"Update", "HandleFormulaCreation"})
  /\ Pending # {}
  /\ LET r == First(Pending) IN Call(Refreshing(r), After(Top.left, r))
  /\ UNCHANGED <<content, usedBy, cache, rowsCount, colsCount>>

CanRead(refs) == \A r \in refs : content[r] \notin Unreadable

\* Mutant: cacheInvalid is reset before the value is known.
EvaluateValidTooEarly ==
  /\ In({"Update"})
  /\ Pending = {}
  /\ LET p == Top.cell
     IN  IF CanRead(Refs(content[p]))
         THEN /\ cache' = [cache EXCEPT ![p] =
                             Apply(content[p], Reading(content, cache, NoFresh))]
              /\ Resume(Below)
         ELSE End("out_of_range") /\ cache' = [cache EXCEPT ![p] = Zero]
  /\ UNCHANGED <<content, usedBy, rowsCount, colsCount>>

\* Evaluate in Update.
Evaluate ==
  /\ In({"Update"})
  /\ Pending = {}
  /\ LET p == Top.cell
     IN  IF CanRead(Refs(content[p]))
         THEN /\ cache' = [cache EXCEPT ![p] =
                             Apply(content[p], Reading(content, cache, NoFresh))]
              /\ Resume(Below)
         ELSE End("out_of_range") /\ UNCHANGED cache
  /\ UNCHANGED <<content, usedBy, rowsCount, colsCount>>

\* What CheckDependency stops at: the cell itself, a cell to be refreshed, and
\* one that holds an error and is used.
Suspect(r) ==
  \/ r = call.cell \/ r \in InvalidNow
  \/ content[r] \in Formula /\ cache[r] \in Errors /\ Users(r) # {}

\* Mutant: a cell that had to be refreshed is not followed.
CheckNextStale ==
  /\ In({"CheckDependency"})
  /\ LET suspects == {r \in Top.left : Suspect(r)}
         r == First(suspects)
     IN  IF suspects = {} THEN Resume(Below)
         ELSE /\ r # call.cell
              /\ IF r \in InvalidNow THEN Call(Refreshing(r), After(Top.left, r))
                 ELSE Call(Frame("CheckDependency", r, Refs(content[r])), After(Top.left, r))
  /\ UNCHANGED <<content, usedBy, cache, rowsCount, colsCount>>

\* The first suspect, if any, is looked at again after its refresh.
CheckNext ==
  /\ In({"CheckDependency"})
  /\ LET suspects == {r \in Top.left : Suspect(r)}
         r == First(suspects)
     IN  IF suspects = {} THEN Resume(Below)
         ELSE /\ r # call.cell
              /\ IF r \in InvalidNow THEN Call(Refreshing(r), Top.left)
                 ELSE Call(Frame("CheckDependency", r, Refs(content[r])), After(Top.left, r))
  /\ UNCHANGED <<content, usedBy, cache, rowsCount, colsCount>>

\* ClearUsedGraph, and ClearCell of a holder that this call created.
Reject(result) ==
  LET p == call.cell
  IN  /\ usedBy' = Unlink(usedBy, Refs(call.text), p)
      /\ content' = [content EXCEPT ![p] = IF CellExists(call.content, p) THEN @ ELSE Absent]
      /\ GrowToThenCount({}, content')
      /\ End(result)
      /\ UNCHANGED cache

CycleIsFound ==
  /\ In({"CheckDependency"})
  /\ \E r \in Top.left : r = call.cell /\ \A e \in Top.left : PosLess(e, r) => ~Suspect(e)
  /\ Reject("CircularDependencyException")

EvaluationFails ==
  /\ In({"HandleFormulaCreation"})
  /\ Pending = {}
  /\ call.text \in UnplacedFormula
  /\ Reject("FormulaException")

\* Not caught: the entries of the new formula stay in usedBy.
EvaluationThrows ==
  /\ In({"HandleFormulaCreation"})
  /\ Pending = {}
  /\ ~CanRead(Refs(call.text))
  /\ End("out_of_range")
  /\ UNCHANGED <<content, usedBy, cache, rowsCount, colsCount>>

\* reset() to the FormulaCell.
Install ==
  /\ In({"HandleFormulaCreation"})
  /\ Pending = {}
  /\ call.text \in Formula /\ CanRead(Refs(call.text))
  /\ content' = [content EXCEPT ![call.cell] = call.text]
  /\ cache' = [cache EXCEPT ![call.cell] = Stale]
  /\ Resume(<<InvalidateUsers(call.cell, usedBy), Frame("CreateMissing", call.cell, {}),
              InvalidateUsers(call.cell, usedBy)>>)
  /\ UNCHANGED <<usedBy, rowsCount, colsCount>>

CreateMissing ==
  /\ In({"CreateMissing"})
  /\ LET missing == {r \in Refs(call.text) : ~CellExists(content, r)}
     IN  /\ content' = [q \in Pos |-> IF q \in missing THEN EmptyText ELSE content[q]]
         /\ usedBy' = Link(usedBy, missing, call.cell)
         /\ GrowTo(missing)
  /\ Resume(Below)
  /\ UNCHANGED cache

\* ClearGraph, and the end of the holder.  Nobody uses a table any further in
\* which a usedBy still lists it.
Destroy ==
  /\ In({"ClearCell"})
  /\ LET p == Top.cell
     IN  /\ content' = [content EXCEPT ![p] = Absent]
         /\ usedBy' = [Unlink(usedBy, GetReferencedCells(content[p]), p)
                         EXCEPT ![p] = [q \in Pos |-> 0]]
         /\ GrowToThenCount({}, content')
         /\ End(IF \E r \in Pos : usedBy'[r][p] > 0 THEN "Dangling" ELSE "Ok")
  /\ UNCHANGED cache

\* GetValue of a cell that is invalid, row by row.
ReadNext ==
  /\ In({"GetValue"})
  /\ \E r \in Pending :
       /\ \A q \in Pending : r.row < q.row \/ (r.row = q.row /\ r.col <= q.col)
       /\ Call(Refreshing(r), Top.left \ {r})
  /\ UNCHANGED <<content, usedBy, cache, rowsCount, colsCount>>

ReadsEnd ==
  /\ In({"GetValue"})
  /\ Pending = {}
  /\ Resume(Below)
  /\ UNCHANGED <<content, usedBy, cache, rowsCount, colsCount>>

Step ==
  \/ InvalidateNext \/ RefreshNext \/ Evaluate \/ CheckNext \/ CycleIsFound
  \/ EvaluationFails \/ EvaluationThrows \/ Install \/ CreateMissing
  \/ Destroy \/ ReadNext \/ ReadsEnd

NextWalk == CallWithoutWalk \/ BeginCall \/ Step

InitWalk == Init /\ stack = <<>> /\ call = NoCall

\* The code runs a call to its end before anything else happens.
SpecWalk == InitWalk /\ [][NextWalk]_walkVars /\ WF_walkVars(Step)

-----------------------------------------------------------------------------
(* What the walks promise.                                                 *)

Loops == {"InvalidateCache", "Update", "CheckDependency", "HandleFormulaCreation",
          "GetValue", "CreateMissing", "ClearCell"}

Frames == [fn : Loops, cell : Pos, left : SUBSET Pos]

WalkTypeOK ==
  /\ content \in [Pos -> Content]
  /\ usedBy \in [Pos -> [Pos -> Nat]]
  /\ cache \in [Pos -> Value \cup {Stale}]
  /\ outcome \in Outcome \cup {"Dangling"}
  /\ stack \in Seq(Frames) /\ Len(stack) <= MaxDepth

\* The table as the caller last saw it: while a call runs, and once it has
\* overflown, the one it began with.
Unseen == ~Idle \/ outcome = "StackOverflow"

Seen == INSTANCE Sheet WITH
  content <- IF Unseen THEN call.content ELSE content,
  usedBy <- IF Unseen THEN call.usedBy ELSE usedBy,
  cache <- IF Unseen THEN call.cache ELSE cache,
  rowsCount <- IF Unseen THEN call.rowsCount ELSE rowsCount,
  colsCount <- IF Unseen THEN call.colsCount ELSE colsCount,
  outcome <- IF Idle THEN outcome ELSE "Ok"

\* The step of Sheet that the call in progress is.
SheetStep ==
  \/ call.op = "SetCell" /\ Seen!SetCell(call.cell, call.text)
  \/ call.op = "ClearCell" /\ Seen!ClearCell(call.cell)
  \/ call.op = "GetValue" /\ Seen!GetValue(call.cell)
  \/ call.op = "PrintValues" /\ Seen!PrintValues

\* This step ends a call.
Ends == ~Idle /\ stack' = <<>>

\* The walk of InvalidateCache has no end.
WalkIsLost == outcome' = "StackOverflow" /\ In({"InvalidateCache"})

\* However its walks interleave with the caches they fill, a call that nothing
\* unreadable has ended does what the one step of Sheet does: the same graph,
\* caches, sizes and outcome, overflow included.
CallsAreSheetSteps ==
  [][(Ends /\ outcome' \notin {"out_of_range", "Dangling"}) =>
       SheetStep \/ WalkIsLost]_walkVars

\* InvalidateCache has an end as long as every entry of usedBy stands for a
\* formula: it marks those, and does not come back.
InvalidationEndsOnFormulas == [][WalkIsLost => ~Seen!EdgesMatchFormulas]_walkVars

\* When Evaluate runs, whatever it reads is fresh: it starts no walk.
EvaluatesFreshCells ==
  In({"Update"}) => (Pending = {} => GetReferencedCells(content[Top.cell]) \cap InvalidNow = {})

\* The cells a call leaves alone.
Others == IF call.op = "SetCell" THEN Pos \ {call.cell} ELSE Pos

\* What StaleUpwards and LinkedCellsAreCurrent ask of the cell p.
ValidOverValid(p) ==
  p \notin InvalidNow => \A r \in Pos : usedBy[r][p] > 0 => r \notin InvalidNow

CurrentIfLinked(p) ==
  (content[p] \in Formula /\ cache[p] # Stale /\ Linked(p)) =>
    cache[p] = Apply(content[p], Reading(content, cache, NoFresh))

\* A walk that is broken off leaves some cells refreshed and others not, and
\* entries of a formula that was never installed.  Of all cells but the one
\* that was to be set, those refreshed hold their value, and none is valid
\* that reads an invalid one: the next InvalidateCache misses nobody.
BrokenWalksKeepCaches ==
  [][(/\ Ends /\ outcome' = "out_of_range"
      /\ Seen!EdgesMatchFormulas /\ Seen!StaleUpwards /\ Seen!LinkedCellsAreCurrent) =>
       \A p \in Others : ValidOverValid(p)' /\ CurrentIfLinked(p)']_walkVars

\* A call that throws in the middle of a walk, too, leaves every text as it was.
ThrowKeepsTexts ==
  [][(Ends /\ outcome' \notin {"Ok", "Dangling", "StackOverflow"}) =>
       \A p \in Pos : GetText(content'[p]) = GetText(call.content[p])]_walkVars

\* A call that begins on a table whose formulas form no cycle, and whose
\* entries of usedBy all stand for formulas, returns or throws, whatever it is
\* asked to do: a new formula that would close a cycle is found before any of
\* the recursions, which keep no mark of where they have been, goes round it.
\* An overflow of the stack is no return: the table is not Ready after it.
CallsReturn ==
  (~Idle /\ Seen!NoCircularDependency /\ Seen!EdgesMatchFormulas) ~> Ready
=============================================================================

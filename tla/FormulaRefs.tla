---------------------------- MODULE FormulaRefs -----------------------------
(***************************************************************************)
(* The references of one formula under insertion and deletion of rows and  *)
(* columns: Formula::HandleInserted* and HandleDeleted*, with their        *)
(* results and the exception that leaves the loop half way.                *)
(***************************************************************************)
EXTENDS References

CONSTANTS
  Expressions,   \* the formulas, each the sequence of cells it names
  Indices,       \* where rows and columns are inserted and deleted
  Counts,        \* how many at once
  MaxEdits       \* bound on the number of calls

ASSUME EditAssumption ==
  /\ \A e \in Expressions : e \in Seq([row : Int, col : Int])
  /\ Indices \subseteq Nat /\ Counts \subseteq Nat \ {0} /\ MaxEdits \in Nat

VARIABLES
  statements,   \* the position in each CellStatement (referencedPtrs)
  refCells,     \* the positions GetReferencedCells returns
  result,       \* the HandlingResult of the last call, or its exception
  edits         \* the number of calls so far

vars == <<statements, refCells, result, edits>>

Result == {"Parsed", "NothingChanged", "ReferencesRenamedOnly",
           "ReferencesChanged", "TableTooBigException"}

-----------------------------------------------------------------------------
\* The references that an insertion moves out of the table.
TooFar(s, axis, before, count) ==
  {i \in DOMAIN s : Beyond(s[i], axis, before) /\ s[i][axis] + count >= Limit}

-----------------------------------------------------------------------------
Init ==
  /\ statements \in Expressions
  /\ refCells = UpdateRefs(statements)
  /\ result = "Parsed"
  /\ edits = 0

HandleInserted(axis, before, count) ==
  /\ TooFar(statements, axis, before, count) = {}
  /\ statements' = InsertedAll(statements, axis, before, count)
  /\ IF \E i \in DOMAIN statements : Beyond(statements[i], axis, before)
     THEN result' = "ReferencesRenamedOnly" /\ refCells' = UpdateRefs(statements')
     ELSE result' = "NothingChanged" /\ UNCHANGED refCells

\* The loop throws at the first reference that leaves the table, after moving
\* it and the ones before it.
HandleInsertedThrows(axis, before, count) ==
  LET out == TooFar(statements, axis, before, count)
  IN  /\ out # {}
      /\ statements' =
           [i \in DOMAIN statements |->
              IF \E j \in out : j < i THEN statements[i]
              ELSE Inserted(statements[i], axis, before, count)]
      /\ result' = "TableTooBigException"
      /\ UNCHANGED refCells

\* Mutant: the last reference looked at decides.
HandleDeletedLastWins(axis, first, count) ==
  /\ statements' = RemovedAll(statements, axis, first, count)
  /\ result' =
       IF \E i \in DOMAIN statements : Beyond(statements[i], axis, first + count)
       THEN "ReferencesRenamedOnly"
       ELSE IF \E i \in DOMAIN statements : Within(statements[i], axis, first, count)
       THEN "ReferencesChanged"
       ELSE "NothingChanged"
  /\ refCells' = IF result' = "NothingChanged" THEN refCells ELSE UpdateRefs(statements')

\* Mutant: the list is not updated after a mere renaming.
HandleDeletedStaleList(axis, first, count) ==
  /\ statements' = RemovedAll(statements, axis, first, count)
  /\ result' =
       IF \E i \in DOMAIN statements : Within(statements[i], axis, first, count)
       THEN "ReferencesChanged"
       ELSE IF \E i \in DOMAIN statements : Beyond(statements[i], axis, first + count)
       THEN "ReferencesRenamedOnly"
       ELSE "NothingChanged"
  /\ refCells' = IF result' = "ReferencesChanged" THEN UpdateRefs(statements') ELSE refCells

HandleDeleted(axis, first, count) ==
  /\ statements' = RemovedAll(statements, axis, first, count)
  /\ result' =
       IF \E i \in DOMAIN statements : Within(statements[i], axis, first, count)
       THEN "ReferencesChanged"
       ELSE IF \E i \in DOMAIN statements : Beyond(statements[i], axis, first + count)
       THEN "ReferencesRenamedOnly"
       ELSE "NothingChanged"
  /\ refCells' = IF result' = "NothingChanged" THEN refCells ELSE UpdateRefs(statements')

Next ==
  /\ edits < MaxEdits
  /\ edits' = edits + 1
  /\ \E axis \in Axis, index \in Indices, count \in Counts :
       \/ HandleInserted(axis, index, count)
       \/ HandleInsertedThrows(axis, index, count)
       \/ HandleDeleted(axis, index, count)

Spec == Init /\ [][Next]_vars

-----------------------------------------------------------------------------
(* What the sheet and the user of a formula rely on.                       *)

TypeOK ==
  /\ statements \in Seq([row : Int, col : Int])
  /\ refCells \subseteq {p \in [row : Nat, col : Nat] : IsValid(p)}
  /\ result \in Result
  /\ edits \in 0 .. MaxEdits

\* Deleting what was just inserted gives every formula its references back,
\* wherever other edits have moved them (HandleInserted*, HandleDeleted*).
DeleteUndoesInsert ==
  \A axis \in Axis, index \in Indices, count \in Counts :
    TooFar(statements, axis, index, count) = {} =>
      RemovedAll(InsertedAll(statements, axis, index, count), axis, index, count)
        = statements

\* Calls that return keep the list of references, which the dependency graph
\* is updated by, equal to what the expression names.
ListFollowsExpression ==
  [][(refCells = UpdateRefs(statements) /\ result' # "TableTooBigException")
       => refCells' = UpdateRefs(statements')]_vars

\* Of two references that stay in the table, the one above (to the left)
\* stays above (to the left), and the same cell remains the same: no two
\* references ever change places or run into each other.
SurvivorsKeepOrder ==
  [][result' # "TableTooBigException" =>
       \A axis \in Axis, i, j \in DOMAIN statements :
         (\A k \in {i, j} : IsValid(statements[k]) /\ IsValid(statements'[k])) =>
           (statements[i][axis] < statements[j][axis]
              <=> statements'[i][axis] < statements'[j][axis])]_vars

\* UpdateFormulaOnDelete drops the cached value only after ReferencesChanged:
\* any other result means that no reference was lost.
OnlyReferencesChangedLoses ==
  [][result' # "ReferencesChanged" =>
       \A i \in DOMAIN statements :
         statements'[i] = Deleted => statements[i] = Deleted]_vars
=============================================================================

-------------------------- MODULE FormulaRefsProofs --------------------------
(***************************************************************************)
(* Theorems about FormulaRefs, for every formula and every sequence of     *)
(* insertions and deletions.                                               *)
(***************************************************************************)
EXTENDS FormulaRefs, ReferencesProofs

\* What TypeOK says of the statements.
LEMMA TypedStatements ==
  ASSUME TypeOK
  PROVE  /\ statements \in Seq(Reference)
         /\ \A i \in DOMAIN statements : statements[i] \in Reference
<1>1. statements \in Seq(Reference)
  BY DEF TypeOK, Reference
<1>. QED BY <1>1

\* Every call keeps the types.
LEMMA NextType == TypeOK /\ [Next]_vars => TypeOK'
<1> SUFFICES ASSUME TypeOK, [Next]_vars PROVE TypeOK'
  OBVIOUS
<1>1. CASE UNCHANGED vars
  BY <1>1 DEF TypeOK, vars
<1>2. ASSUME NEW axis \in Axis, NEW index \in Indices, NEW count \in Counts,
             edits < MaxEdits, edits' = edits + 1,
             \/ HandleInserted(axis, index, count)
             \/ HandleInsertedThrows(axis, index, count)
             \/ HandleDeleted(axis, index, count)
      PROVE  TypeOK'
  <2>1. index \in Nat /\ count \in Nat \ {0} /\ statements \in Seq(Reference)
    BY EditAssumption DEF TypeOK, Reference
  <2>2. edits' \in 0 .. MaxEdits
    BY <1>2, EditAssumption DEF TypeOK
  <2>3. CASE HandleInserted(axis, index, count)
    <3>1. statements' \in Seq(Reference)
      BY <2>1, <2>3, CallsKeepSeq DEF HandleInserted
    <3>2. refCells' = refCells \/ refCells' = UpdateRefs(statements')
      BY <2>3 DEF HandleInserted
    <3>3. result' \in Result
      BY <2>3 DEF HandleInserted, Result
    <3>. QED BY <2>2, <3>1, <3>2, <3>3, RefsInTable DEF TypeOK, Reference
  <2>4. CASE HandleInsertedThrows(axis, index, count)
    <3>1. \A i \in DOMAIN statements : Inserted(statements[i], axis, index, count) \in Reference
      BY <2>1, InsertedFacts
    <3>2. statements' \in Seq(Reference)
      BY <2>1, <2>4, <3>1, MapIsSeq DEF HandleInsertedThrows
    <3>. QED BY <2>2, <2>4, <3>2 DEF HandleInsertedThrows, TypeOK, Reference, Result
  <2>5. CASE HandleDeleted(axis, index, count)
    <3>1. statements' \in Seq(Reference)
      BY <2>1, <2>5, CallsKeepSeq DEF HandleDeleted
    <3>2. refCells' = refCells \/ refCells' = UpdateRefs(statements')
      BY <2>5 DEF HandleDeleted
    <3>3. result' \in Result
      BY <2>5 DEF HandleDeleted, Result
    <3>. QED BY <2>2, <3>1, <3>2, <3>3, RefsInTable DEF TypeOK, Reference
  <2>. QED BY <1>2, <2>3, <2>4, <2>5
<1>. QED BY <1>1, <1>2 DEF Next

\* The handlers keep references, list and result in their domains.
THEOREM RefsTypeCorrect == Spec => []TypeOK
<1>1. Init => TypeOK
  <2> SUFFICES ASSUME Init PROVE TypeOK
    OBVIOUS
  <2>1. statements \in Seq(Reference)
    BY EditAssumption DEF Init, Reference
  <2>. QED BY <2>1, RefsInTable, EditAssumption DEF Init, TypeOK, Reference, Result
<1>. QED BY <1>1, NextType, PTL DEF Spec

-----------------------------------------------------------------------------
\* Deleting what was inserted gives a formula its references back, for every
\* axis, place and number of rows or columns.
THEOREM UndoRestores == Spec => []DeleteUndoesInsert
<1>1. TypeOK => DeleteUndoesInsert
  <2> SUFFICES ASSUME TypeOK, NEW axis \in Axis, NEW index \in Indices, NEW count \in Counts
               PROVE  RemovedAll(InsertedAll(statements, axis, index, count), axis, index, count)
                        = statements
    BY DEF DeleteUndoesInsert
  <2>1. index \in Nat /\ count \in Nat \ {0} /\ statements \in Seq(Reference)
    BY EditAssumption DEF TypeOK, Reference
  <2>2. ASSUME NEW p \in Reference
        PROVE  Removed(Inserted(p, axis, index, count), axis, index, count) = p
    <3> PICK q : q = Inserted(p, axis, index, count)
      OBVIOUS
    <3>1. /\ q \in Reference /\ p[axis] \in Int
          /\ \A other \in Axis : other # axis => q[other] = p[other]
          /\ q[axis] = IF p[axis] >= index THEN p[axis] + count ELSE p[axis]
      BY <2>1, InsertedFacts, Coordinate
    <3>2. ~Within(q, axis, index, count)
      BY <2>1, <3>1 DEF Within
    <3> PICK r : r = Removed(q, axis, index, count)
      OBVIOUS
    <3>3. /\ r \in Reference
          /\ \A other \in Axis : other # axis => r[other] = q[other]
          /\ r[axis] = IF q[axis] >= index + count THEN q[axis] - count ELSE q[axis]
      BY <2>1, <3>1, <3>2, RemovedFacts
    <3>4. r[axis] = p[axis]
      BY <2>1, <3>1, <3>3
    <3>5. r = p
      BY <3>1, <3>3, <3>4, Same
    <3>. QED BY <3>5
  <2>3. \A i \in DOMAIN statements : statements[i] \in Reference
    BY <2>1
  <2>. QED BY <2>1, <2>2, <2>3 DEF RemovedAll, InsertedAll
<1>. QED BY <1>1, RefsTypeCorrect, PTL

-----------------------------------------------------------------------------
\* Every call that returns keeps the list of references equal to what the
\* expression names, for every formula and every call.
THEOREM ListStaysTrue == Spec => ListFollowsExpression
<1>1. ASSUME TypeOK, Next, refCells = UpdateRefs(statements),
             result' # "TableTooBigException"
      PROVE  refCells' = UpdateRefs(statements')
  <2>1. ASSUME NEW axis \in Axis, NEW index \in Indices, NEW count \in Counts,
               HandleInserted(axis, index, count)
        PROVE  refCells' = UpdateRefs(statements')
    <3>1. index \in Nat /\ count \in Nat \ {0} /\ statements \in Seq(Reference)
      BY <1>1, EditAssumption DEF TypeOK, Reference
    <3>2. CASE \E i \in DOMAIN statements : Beyond(statements[i], axis, index)
      BY <2>1, <3>2 DEF HandleInserted
    <3>3. CASE \A i \in DOMAIN statements : ~Beyond(statements[i], axis, index)
      <4>1. statements' = statements
        BY <2>1, <3>1, <3>3, NothingMoves DEF HandleInserted
      <4>2. refCells' = refCells
        BY <2>1, <3>3 DEF HandleInserted
      <4>. QED BY <1>1, <4>1, <4>2
    <3>. QED BY <3>2, <3>3
  <2>2. ASSUME NEW axis \in Axis, NEW index \in Indices, NEW count \in Counts,
               HandleDeleted(axis, index, count)
        PROVE  refCells' = UpdateRefs(statements')
    <3>1. index \in Nat /\ count \in Nat \ {0} /\ statements \in Seq(Reference)
      BY <1>1, EditAssumption DEF TypeOK, Reference
    <3>2. CASE result' # "NothingChanged"
      BY <2>2, <3>2 DEF HandleDeleted
    <3>3. CASE result' = "NothingChanged"
      <4>1. \A i \in DOMAIN statements : /\ ~Within(statements[i], axis, index, count)
                                        /\ ~Beyond(statements[i], axis, index + count)
        BY <2>2, <3>3 DEF HandleDeleted
      <4>2. statements' = statements
        BY <2>2, <3>1, <4>1, NothingMoves DEF HandleDeleted
      <4>3. refCells' = refCells
        BY <2>2, <3>3 DEF HandleDeleted
      <4>. QED BY <1>1, <4>2, <4>3
    <3>. QED BY <3>2, <3>3
  <2>3. ASSUME NEW axis \in Axis, NEW index \in Indices, NEW count \in Counts
        PROVE  ~HandleInsertedThrows(axis, index, count)
    BY <1>1 DEF HandleInsertedThrows
  <2>. QED BY <1>1, <2>1, <2>2, <2>3 DEF Next
<1>2. TypeOK /\ [Next]_vars =>
        [(refCells = UpdateRefs(statements) /\ result' # "TableTooBigException")
           => refCells' = UpdateRefs(statements')]_vars
  BY <1>1
<1>. QED BY <1>2, RefsTypeCorrect, PTL DEF Spec, ListFollowsExpression

-----------------------------------------------------------------------------
\* Calls other than a deletion that reports ReferencesChanged lose no
\* reference.
THEOREM LossIsReported == Spec => OnlyReferencesChangedLoses
<1>1. ASSUME TypeOK, Next, result' # "ReferencesChanged",
             NEW i \in DOMAIN statements, statements'[i] = Deleted
      PROVE  statements[i] = Deleted
  <2>1. statements[i] \in Reference
    BY <1>1, TypedStatements
  <2>2. ASSUME NEW axis \in Axis, NEW index \in Indices, NEW count \in Counts,
               Inserted(statements[i], axis, index, count) = Deleted
        PROVE  statements[i] = Deleted
    <3>1. index \in Nat /\ count \in Nat \ {0}
      BY EditAssumption
    <3>2. statements[i][axis] \in Int /\ Deleted[axis] = -1
      BY <2>1, Coordinate DEF Deleted, At, Axis
    <3>3. Inserted(statements[i], axis, index, count)[axis] =
            IF statements[i][axis] >= index
            THEN statements[i][axis] + count ELSE statements[i][axis]
      BY <2>1, <3>1, InsertedFacts
    <3>4. ~(statements[i][axis] >= index)
      BY <2>2, <3>1, <3>2, <3>3
    <3>. QED BY <2>2, <3>4 DEF Inserted, Beyond
  <2>3. ASSUME NEW axis \in Axis, NEW index \in Indices, NEW count \in Counts,
               HandleDeleted(axis, index, count)
        PROVE  statements[i] = Deleted
    <3>1. index \in Nat /\ count \in Nat \ {0}
      BY EditAssumption
    <3>2. statements[i][axis] \in Int /\ Deleted[axis] = -1
      BY <2>1, Coordinate DEF Deleted, At, Axis
    <3>3. ~Within(statements[i], axis, index, count)
      BY <1>1, <2>3 DEF HandleDeleted
    <3>4. Removed(statements[i], axis, index, count) = Deleted
      BY <1>1, <2>3 DEF HandleDeleted, RemovedAll
    <3>5. ~(statements[i][axis] > index + count - 1)
      BY <2>1, <3>1, <3>2, <3>3, <3>4, RemovedFacts
    <3>. QED BY <3>3, <3>4, <3>5 DEF Removed
  <2>4. ASSUME NEW axis \in Axis, NEW index \in Indices, NEW count \in Counts,
               \/ HandleInserted(axis, index, count)
               \/ HandleInsertedThrows(axis, index, count)
        PROVE  statements[i] = Deleted
    <3>1. \/ statements'[i] = statements[i]
          \/ statements'[i] = Inserted(statements[i], axis, index, count)
      BY <2>4 DEF HandleInserted, HandleInsertedThrows, InsertedAll
    <3>. QED BY <1>1, <2>2, <3>1
  <2>. QED BY <1>1, <2>3, <2>4 DEF Next
<1>2. TypeOK /\ [Next]_vars =>
        [result' # "ReferencesChanged" =>
           \A i \in DOMAIN statements :
             statements'[i] = Deleted => statements[i] = Deleted]_vars
  BY <1>1
<1>. QED BY <1>2, RefsTypeCorrect, PTL DEF Spec, OnlyReferencesChangedLoses

-----------------------------------------------------------------------------
\* Insertions that return and deletions never make two remaining references
\* change places or run into each other.
THEOREM OrderIsKept == Spec => SurvivorsKeepOrder
<1>1. ASSUME TypeOK, Next, result' # "TableTooBigException",
             NEW along \in Axis, NEW i \in DOMAIN statements, NEW j \in DOMAIN statements,
             IsValid(statements'[i]), IsValid(statements'[j])
      PROVE  statements[i][along] < statements[j][along]
               <=> statements'[i][along] < statements'[j][along]
  <2>1. /\ statements[i] \in Reference /\ statements[j] \in Reference
        /\ statements[i][along] \in Int /\ statements[j][along] \in Int
    BY <1>1, TypedStatements, Coordinate
  <2>2. ASSUME NEW axis \in Axis, NEW index \in Indices, NEW count \in Counts,
               HandleInserted(axis, index, count)
        PROVE  statements[i][along] < statements[j][along]
                 <=> statements'[i][along] < statements'[j][along]
    <3>1. index \in Nat /\ count \in Nat \ {0}
      BY EditAssumption
    <3>2. \A k \in {i, j} :
            statements'[k] = Inserted(statements[k], axis, index, count)
      BY <2>2 DEF HandleInserted, InsertedAll
    <3>3. CASE along # axis
      BY <2>1, <3>1, <3>2, <3>3, InsertedFacts
    <3>4. CASE along = axis
      <4>1. \A k \in {i, j} :
              statements'[k][along] = IF statements[k][along] >= index
                                      THEN statements[k][along] + count
                                      ELSE statements[k][along]
        BY <2>1, <3>1, <3>2, <3>4, InsertedFacts
      <4>. QED BY <2>1, <3>1, <4>1
    <3>. QED BY <3>3, <3>4
  <2>3. ASSUME NEW axis \in Axis, NEW index \in Indices, NEW count \in Counts,
               HandleDeleted(axis, index, count)
        PROVE  statements[i][along] < statements[j][along]
                 <=> statements'[i][along] < statements'[j][along]
    <3>1. index \in Nat /\ count \in Nat \ {0}
      BY EditAssumption
    <3>2. \A k \in {i, j} :
            statements'[k] = Removed(statements[k], axis, index, count)
      BY <2>3 DEF HandleDeleted, RemovedAll
    <3>3. ~IsValid(Deleted)
      BY DEF IsValid, Deleted, At
    <3>4. \A k \in {i, j} : ~Within(statements[k], axis, index, count)
      BY <1>1, <3>2, <3>3 DEF Removed
    <3>5. CASE along # axis
      BY <2>1, <3>1, <3>2, <3>4, <3>5, RemovedFacts
    <3>6. CASE along = axis
      <4>1. \A k \in {i, j} :
              statements'[k][along] = IF statements[k][along] >= index + count
                                      THEN statements[k][along] - count
                                      ELSE statements[k][along]
        BY <2>1, <3>1, <3>2, <3>4, <3>6, RemovedFacts
      <4>2. \A k \in {i, j} : statements[k][along] < index
                              \/ statements[k][along] >= index + count
        BY <2>1, <3>1, <3>4, <3>6 DEF Within
      <4>. QED BY <2>1, <3>1, <4>1, <4>2
    <3>. QED BY <3>5, <3>6
  <2>4. ASSUME NEW axis \in Axis, NEW index \in Indices, NEW count \in Counts
        PROVE  ~HandleInsertedThrows(axis, index, count)
    BY <1>1 DEF HandleInsertedThrows
  <2>. QED BY <1>1, <2>2, <2>3, <2>4 DEF Next
<1>2. TypeOK /\ [Next]_vars =>
        [result' # "TableTooBigException" =>
           \A axis \in Axis, i, j \in DOMAIN statements :
             (\A k \in {i, j} : IsValid(statements[k]) /\ IsValid(statements'[k])) =>
               (statements[i][axis] < statements[j][axis]
                  <=> statements'[i][axis] < statements'[j][axis])]_vars
  BY <1>1
<1>. QED BY <1>2, RefsTypeCorrect, PTL DEF Spec, SurvivorsKeepOrder
=============================================================================

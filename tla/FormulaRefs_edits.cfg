\* Four insertions and deletions.
CONSTANTS
  Expressions <- MCExpressions
  Indices <- MCIndices
  Counts = {1, 2}
  MaxEdits = 4

SPECIFICATION Spec

INVARIANTS
  TypeOK
  DeleteUndoesInsert

PROPERTIES
  ListFollowsExpression
  SurvivorsKeepOrder
  OnlyReferencesChangedLoses

CHECK_DEADLOCK FALSE

\* A cycle that no call rejects.
CONSTANTS
  Rows = 1
  Cols = 3
  OtherHolders <- OnlyThisSheet
  one = one
  word = word
  VALUE = VALUE
  DIV0 = DIV0
  nineDigits = nineDigits
  malformed = malformed
  huge = huge
  unplaced = unplaced
  Literal = {one, word}
  HugeLiteral = {}
  Formula <- RowFormulas
  UnplacedFormula = {}
  HugeFormula = {}
  MalformedFormula = {}
  Refs <- MCRefs
  Apply <- MCApply
  AsOperand <- MCAsOperand
  Value <- MCValue
  Errors <- MCErrors
  Zero = 0
  Div0 = DIV0
  Absent = Absent
  EmptyText = EmptyText
  Stale = Stale

SPECIFICATION Spec

INVARIANTS
  NoCircularDependency

CHECK_DEADLOCK FALSE

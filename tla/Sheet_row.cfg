\* A1, B1 and C1.
CONSTANTS
  Rows = 1
  Cols = 3
  OtherHolders <- OnlyThisSheet
  one = one
  word = word
  VALUE = VALUE
  DIV0 = DIV0
  nineDigits = nineDigits
  malformed = malformed
  huge = huge
  unplaced = unplaced
  Literal = {one}
  HugeLiteral = {nineDigits}
  Formula <- ForkFormulas
  UnplacedFormula = {unplaced}
  HugeFormula = {huge}
  MalformedFormula = {malformed}
  Refs <- MCRefs
  Apply <- MCApply
  AsOperand <- MCAsOperand
  Value <- MCValue
  Errors <- MCErrors
  Zero = 0
  Div0 = DIV0
  Absent = Absent
  EmptyText = EmptyText
  Stale = Stale

SPECIFICATION Spec

INVARIANTS
  TypeOK
  EdgesMatchFormulas
  StaleUpwards
  LinkedCellsAreCurrent
  SizeCovers
  OverflowNeedsCycle

PROPERTIES
  ChangesReachDependents
  RejectedKeepsTexts
  OnlyCyclesAreRejected
  ImplementsContract

CHECK_DEADLOCK FALSE

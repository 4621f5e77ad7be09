CONSTANTS
  Rows = 3
  Cols = 3
  OtherHolders <- OtherSheets
  zero = zero
  word = word
  VALUE = VALUE
  Literal = {zero, word}
  HugeLiteral = {}
  Formula <- MCFormula
  UnplacedFormula = {}
  HugeFormula = {}
  MalformedFormula = {}
  Refs <- MCRefs
  Apply <- MCApply
  AsOperand <- MCAsOperand
  Value <- MCValue
  Errors <- MCErrors
  Zero = 0
  Div0 = VALUE
  Absent = Absent
  EmptyText = EmptyText
  Stale = Stale
  Entered <- MCEntered
  Ranges <- MCRanges
  MaxCalls = 4

SPECIFICATION EditSpec

INVARIANTS
  EditTypeOK
  IntactIsTidy

PROPERTIES
  IntactCallsFollowContract

CHECK_DEADLOCK FALSE

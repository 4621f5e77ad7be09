\* Entries that a broken call has left in usedBy.
CONSTANTS
  Rows = 1
  Cols = 3
  OtherHolders <- OnlyThisSheet
  one = one
  word = word
  VALUE = VALUE
  DIV0 = DIV0
  nineDigits = nineDigits
  malformed = malformed
  huge = huge
  unplaced = unplaced
  Literal = {word, digits}
  digits = digits
  Unreadable = {digits}
  Entered <- MCEntered
  MaxDepth = 8
  MaxListed = 2
  NoCall = NoCall
  HugeLiteral = {}
  Formula <- MCFormula
  UnplacedFormula = {unplaced}
  HugeFormula = {}
  MalformedFormula = {malformed}
  Refs <- MCRefs
  Apply <- MCApply
  AsOperand <- MCAsOperand
  Value <- MCValue
  Errors <- MCErrors
  Zero = 0
  Div0 = DIV0
  Absent = Absent
  EmptyText = EmptyText
  Stale = Stale

SPECIFICATION SpecWalk

INVARIANTS
  OverflowNeedsCycle

CHECK_DEADLOCK FALSE

\* Calls with texts of every shape, and with texts that throw.
CONSTANTS
  a = a
  b = b
  half = half
  sixDigits = sixDigits
  huge = huge
  Cells <- MCCells
  Literals <- MCLiterals
  Overflowing <- MCOverflowing
  Shown <- MCShown
  Readings <- MCReadings
  Texts <- AllTexts

SPECIFICATION Spec

INVARIANTS
  TypeOK
  NothingLeftBehind
  TreeMeansText
  TextKeepsMeaning
  TextStays
  ReferencesFollowText


\* Division by a signed product.
CONSTANTS
  a = a
  b = b
  half = half
  sixDigits = sixDigits
  huge = huge
  Cells <- MCCells
  Literals <- MCLiterals
  Overflowing <- MCOverflowing
  Shown <- MCShown
  Readings <- MCReadings
  Texts <- DivisorTexts

SPECIFICATION Spec

INVARIANTS
  TextKeepsMeaning


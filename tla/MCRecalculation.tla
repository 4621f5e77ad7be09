--------------------------- MODULE MCRecalculation ---------------------------
EXTENDS MCSheet, Recalculation

CONSTANT digits  \* behind an apostrophe

\* A formula that names no cell.
constant == <<>>

A1Texts == {malformed, <<B1>>, <<B1, C1>>}
B1Texts == {unplaced, constant, <<A1, C1>>}
C1Texts == {word, digits, constant}

MCEntered(p) ==
  CASE p = A1 -> A1Texts [] p = B1 -> B1Texts [] p = C1 -> C1Texts [] OTHER -> {}

MCFormula == {constant, <<B1>>, <<B1, C1>>, <<A1, C1>>}
=============================================================================

------------------------------ MODULE MCSheet -------------------------------
(* Small instances of Sheet: a formula is the sum, modulo Modulus, of the   *)
(* cells it names; the error of the leftmost cell that has one wins.        *)
EXTENDS Sheet, TLC

CONSTANTS
  one, word,              \* a number; a text with letters
  VALUE, DIV0,            \* FormulaError categories
  nineDigits, malformed, huge, unplaced

Modulus == 2
Numbers == 0 .. Modulus - 1

A1 == At(0, 0)
B1 == At(0, 1)
C1 == At(0, 2)

\* Formulas are sequences of the positions they name.
MCRefs(f) == IF f = unplaced THEN {A1} ELSE {f[i] : i \in DOMAIN f}

MCAsOperand(t) == IF t = one THEN 1 ELSE VALUE

MCValue == Numbers \cup {VALUE, DIV0}
MCErrors == {VALUE, DIV0}

Plus(x, y) == IF x \in MCErrors THEN x
              ELSE IF y \in MCErrors THEN y
              ELSE (x + y) % Modulus

MCApply(f, v) ==
  CASE Len(f) = 0 -> 1 [] Len(f) = 1 -> v[f[1]] [] OTHER -> Plus(v[f[1]], v[f[2]])

\* A row of three cells: a chain, a fork and every way to close a cycle.
RowFormulas == {<<A1>>, <<B1>>, <<C1>>, <<B1, C1>>}
\* Fewer, with a fork and cycles of two and three cells.
ForkFormulas == {<<A1>>, <<C1>>, <<B1, C1>>}

OnlyThisSheet == {0}
=============================================================================

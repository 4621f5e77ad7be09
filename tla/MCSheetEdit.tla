----------------------------- MODULE MCSheetEdit -----------------------------
EXTENDS SheetEdit

CONSTANTS zero, word, VALUE

MCRefs(f) == UpdateRefs(f)

MCValue == {0, VALUE}
MCErrors == {VALUE}

MCAsOperand(t) == IF t = zero THEN 0 ELSE VALUE

\* A sum: an error if one of the references is deleted or reads one.
MCApply(f, v) ==
  IF \E i \in DOMAIN f : f[i] = Deleted \/ v[f[i]] = VALUE THEN VALUE ELSE 0

References2 == Pos \cup {Deleted}
MCFormula == {<<p>> : p \in References2} \cup (References2 \X References2)

A1 == At(0, 0)
B1 == At(0, 1)
A2 == At(1, 0)
B2 == At(1, 1)
B3 == At(2, 1)
\* Texts that read up, down, to the left and to the right.
MCEntered(p) ==
  CASE p = A1 -> {zero, <<A2, B1>>}
    [] p = B1 -> {<<A1>>}
    [] p = A2 -> {<<A1>>}
    [] p = B2 -> {<<B3, A1>>}
    [] p = B3 -> {<<B1>>}
    [] OTHER -> {}
\* With one range too many for any table.
MCRanges ==
  {[index |-> i, count |-> 1] : i \in {0, 1}} \cup {[index |-> 0, count |-> n] : n \in {2, 16384}}

OtherSheets == {0, 1}
=============================================================================

--------------------------- MODULE MCFormulaRefs ----------------------------
(* Formulas over the corners of the table: repeated, neighbouring and      *)
(* distant references, in every order; names that are no cell (A0, AAAA1,  *)
(* XFE1), which ParseFormula accepts.                                      *)
EXTENDS FormulaRefs

Last == Limit - 1

MCExpressions ==
  { <<At(0, 0), At(1, 1), At(0, 0)>>,
    <<At(2, 1), At(0, 2), At(1, 0)>>,
    <<At(0, 0), At(Last, 1), At(1, 0)>>,
    <<At(1, Last - 1), At(2, 2)>>,
    <<At(-1, 0), Unparsed, At(0, Last + 1), At(1, 0)>> }

MCIndices == {0, 1, 2, Last}
=============================================================================

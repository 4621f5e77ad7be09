----------------------------- MODULE Spreadsheet -----------------------------
(***************************************************************************)
(* What ISheet promises of the texts of a table, as far as Sheet keeps it: *)
(* a call changes the text of the one cell it names or, refused, of none;  *)
(* a formula is refused as circular only if it closes a cycle; and the     *)
(* process is lost only to formulas that form one.                         *)
(***************************************************************************)

CONSTANTS
  Cells,      \* the cells of the table
  Empty,      \* the text of a cell that was never set
  Stored,     \* the texts a cell may hold
  Formulas,   \* the formulas that may be offered
  Reads(_)    \* the cells a text reads

VARIABLES
  texts,      \* what GetText returns for each cell
  outcome     \* how the last call ended

Refusals == {"InvalidPositionException", "FormulaException", "out_of_range"}

Init ==
  /\ texts = [p \in Cells |-> Empty]
  /\ outcome = "Ok"

\* What is read by a cell of X lies in X.
Closed(X) == \A x \in X : Reads(texts[x]) \subseteq X

\* Entered at p, t would read p, directly or through other formulas.
ClosesCycle(p, t) ==
  \A X \in SUBSET Cells : (Reads(t) \subseteq X /\ Closed(X)) => p \in X

Circular ==
  \E X \in SUBSET Cells : X # {} /\ \A x \in X : Reads(texts[x]) \cap X # {}

Usable == outcome # "StackOverflow"

SetCell(p, t) ==
  /\ Usable
  /\ texts' = [texts EXCEPT ![p] = t]
  /\ outcome' = "Ok"

ClearCell(p) == SetCell(p, Empty)

GetCell == Usable /\ outcome' = "Ok" /\ UNCHANGED texts

Refuse == Usable /\ outcome' \in Refusals /\ UNCHANGED texts

RefuseCircular(p, t) ==
  /\ Usable
  /\ outcome' = "CircularDependencyException"
  /\ ClosesCycle(p, t)
  /\ UNCHANGED texts

\* Not in the interface: a walk over formulas that read each other.
Overflow == Usable /\ outcome' = "StackOverflow" /\ Circular /\ UNCHANGED texts

Next ==
  \/ GetCell \/ Refuse \/ Overflow
  \/ \E p \in Cells : \/ ClearCell(p)
                      \/ \E t \in Stored : SetCell(p, t)
                      \/ \E t \in Formulas : RefuseCircular(p, t)

Spec == Init /\ [][Next]_<<texts, outcome>>
=============================================================================

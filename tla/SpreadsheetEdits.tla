--------------------------- MODULE SpreadsheetEdits ---------------------------
(***************************************************************************)
(* What ISheet promises of the insertion and deletion of rows and columns: *)
(* every text moves with its cell, and every reference with what it points *)
(* to.  A formula is the sequence of the positions it names.               *)
(***************************************************************************)
EXTENDS Spreadsheet, References

InsertedText(t, axis, before, count) ==
  IF t \in Formulas THEN InsertedAll(t, axis, before, count) ELSE t

DeletedText(t, axis, first, count) ==
  IF t \in Formulas THEN RemovedAll(t, axis, first, count) ELSE t

\* The cell that is n further along the axis.
Shifted(p, axis, n) == [p EXCEPT ![axis] = @ + n]

TextAt(p) == IF p \in Cells THEN texts[p] ELSE Empty

Insert(axis, before, count) ==
  /\ Usable
  /\ texts' = [p \in Cells |->
       IF p[axis] \in before .. before + count - 1 THEN Empty
       ELSE InsertedText(texts[IF p[axis] < before THEN p ELSE Shifted(p, axis, -count)],
                         axis, before, count)]
  /\ outcome' = "Ok"

Delete(axis, first, count) ==
  /\ Usable
  /\ texts' = [p \in Cells |->
       DeletedText(TextAt(IF p[axis] < first THEN p ELSE Shifted(p, axis, count)),
                   axis, first, count)]
  /\ outcome' = "Ok"

RefuseInsertion ==
  Usable /\ outcome' = "TableTooBigException" /\ UNCHANGED texts

\* ranges: where rows or columns are inserted or deleted, and how many.
NextWithEdits(ranges) ==
  \/ Next \/ RefuseInsertion
  \/ \E axis \in Axis, r \in ranges :
       Insert(axis, r.index, r.count) \/ Delete(axis, r.index, r.count)
=============================================================================

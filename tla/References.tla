----------------------------- MODULE References -----------------------------
(***************************************************************************)
(* What insertion and deletion of rows and columns do to the references of *)
(* a formula (Formula::HandleInserted*, HandleDeleted*, UpdateRefs).  The  *)
(* syntax tree is the sequence of the positions in its CellStatements, in  *)
(* the order of the text.                                                  *)
(***************************************************************************)
EXTENDS Position

Axis == {"row", "col"}

\* The literal of the handlers: no row and no column has this index.
Limit == 16384

-----------------------------------------------------------------------------
(* One reference.                                                          *)

Beyond(p, axis, before) == p[axis] >= before

\* Mutant: only what is behind the index moves.
InsertedBehind(p, axis, before, count) ==
  IF p[axis] > before THEN [p EXCEPT ![axis] = @ + count] ELSE p

Inserted(p, axis, before, count) ==
  IF Beyond(p, axis, before) THEN [p EXCEPT ![axis] = @ + count] ELSE p

Within(p, axis, first, count) == p[axis] \in first .. first + count - 1

\* Mutant: the first index after the deleted ones does not move.
RemovedShort(p, axis, first, count) ==
  IF Within(p, axis, first, count) THEN Deleted
  ELSE IF p[axis] > first + count THEN [p EXCEPT ![axis] = @ - count]
  ELSE p

Removed(p, axis, first, count) ==
  IF Within(p, axis, first, count) THEN Deleted
  ELSE IF p[axis] > first + count - 1 THEN [p EXCEPT ![axis] = @ - count]
  ELSE p

(* All references of a formula, s being its statements.                    *)

\* Mutant: deleted references are listed.
UpdateRefsAll(s) == {s[i] : i \in DOMAIN s}

\* set<Position> of the valid ones; the list is this set in its order.
UpdateRefs(s) == {s[i] : i \in {j \in DOMAIN s : IsValid(s[j])}}

InsertedAll(s, axis, before, count) ==
  [i \in DOMAIN s |-> Inserted(s[i], axis, before, count)]

RemovedAll(s, axis, first, count) ==
  [i \in DOMAIN s |-> Removed(s[i], axis, first, count)]
=============================================================================

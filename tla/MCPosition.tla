---------------------------- MODULE MCPosition ------------------------------
(***************************************************************************)
(* Counts through all names of one to three letters in the order in which  *)
(* a table head lists them (A, ..., Z, AA, ..., ZZ, AAA, ...), next to the *)
(* columns 0, 1, 2, ..., and compares ToString and FromString with it.     *)
(***************************************************************************)
EXTENDS Position

VARIABLES column, letters

\* The name after s: the last letter that is not Z goes up, those behind it
\* start again at A; after Z...Z comes A...A with one letter more.
NameAfter(s) ==
  IF \A i \in DOMAIN s : s[i] = 25
  THEN [i \in 1 .. Len(s) + 1 |-> 0]
  ELSE LET k == CHOOSE i \in DOMAIN s :
                  s[i] # 25 /\ \A j \in DOMAIN s : j > i => s[j] = 25
       IN  [i \in DOMAIN s |-> IF i < k THEN s[i] ELSE IF i = k THEN s[i] + 1 ELSE 0]

Init == column = 0 /\ letters = <<0>>

Count ==
  /\ Len(NameAfter(letters)) <= 3
  /\ letters' = NameAfter(letters)
  /\ column' = column + 1

Spec == Init /\ [][Count]_<<column, letters>>

\* The row numbers at the ends of the table, one before and one after them,
\* and one that no int holds.
RowNumbers == {0, 1, kMaxRows, kMaxRows + 1, Overlong}

\* ToString prints the name the table head has for the column, and FromString
\* reads it back.
NamesAreTheHeads ==
  column < kMaxCols =>
    /\ ToLetters(column) = letters
    /\ \A row \in {0, kMaxRows - 1} : RoundTrip(At(row, column))

\* A name of three letters at most is a valid position exactly if the column
\* and the row are in the table, and then it is that position; no other name
\* of a column or a number beyond the table comes out as one.
OnlyTheTableIsValid ==
  \A n \in RowNumbers :
    LET p == FromName([letters |-> letters, number |-> n])
    IN  IF column < kMaxCols /\ n \in 1 .. kMaxRows
        THEN IsValid(p) /\ p = At(n - 1, column)
        ELSE ~IsValid(p)
=============================================================================

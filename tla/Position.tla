------------------------------ MODULE Position ------------------------------
(***************************************************************************)
(* Cell positions: struct Position of common.h and its order, validity     *)
(* test, printing and parsing.  A name is the pair of its letters (a       *)
(* sequence of alphabet indices, A = 0) and its row number: the grammar    *)
(* has no other token for a cell.                                          *)
(***************************************************************************)
EXTENDS Integers, Sequences

kMaxRows == 16384
kMaxCols == 16384

At(row, col) == [row |-> row, col |-> col]

\* What FromString returns for a name with more letters than a column has.
Unparsed == At(-2, -2)

\* What a formula's reference becomes when its cell is deleted.
Deleted == At(-1, -1)

IsValid(p) ==
  /\ p.col >= 0 /\ p.row >= 0
  /\ p.col < kMaxCols /\ p.row < kMaxRows

\* operator<: the last comparison adds this->row to both columns.
PosLess(p, q) ==
  IF q.col = p.col THEN p.row < q.row
  ELSE IF q.row = p.row THEN p.col < q.col
  ELSE p.col + p.row < q.col + p.row

-----------------------------------------------------------------------------
Letter == 0 .. 25

\* Mutant: the last column of two letters takes the branch of three.
ToLettersEarly(col) ==
  IF col < 26 THEN <<col>>
  ELSE IF col < 701 THEN <<(col - 26) \div 26, (col - 26) % 26>>
  ELSE <<(col - 702) \div 676,
         ((col - 702) % 676) \div 26,
         ((col - 702) % 676) % 26>>

\* The letters ToString prints for a column of the table.
ToLetters(col) ==
  IF col < 26 THEN <<col>>
  ELSE IF col < 702 THEN <<(col - 26) \div 26, (col - 26) % 26>>
  ELSE <<(col - 702) \div 676,
         ((col - 702) % 676) \div 26,
         ((col - 702) % 676) % 26>>

\* Mutant: three letters count from zero again.
FromLettersUnshifted(s) ==
  IF Len(s) = 1 THEN s[1]
  ELSE IF Len(s) = 2 THEN 26 * s[1] + s[2] + 26
  ELSE 26 * (26 * s[1] + s[2]) + s[3]

\* The column FromString computes from one to three letters.
FromLetters(s) ==
  IF Len(s) = 1 THEN s[1]
  ELSE IF Len(s) = 2 THEN 26 * s[1] + s[2] + 26
  ELSE 26 * (26 * s[1] + s[2]) + s[3] + 702

\* ToString of a position of the table.
ToName(p) == [letters |-> ToLetters(p.col), number |-> p.row + 1]

\* The number of a name whose digits no int holds.
Overlong == -1

\* FromString.  from_chars leaves the row 0 when the number does not fit an
\* int, so such a name and "A0" both name row -1.
FromName(n) ==
  IF Len(n.letters) \notin 1 .. 3 THEN Unparsed
  ELSE At((IF n.number = Overlong THEN 0 ELSE n.number) - 1, FromLetters(n.letters))

-----------------------------------------------------------------------------
\* ToString and FromString are inverse to each other on the table.
RoundTrip(p) == FromName(ToName(p)) = p
=============================================================================

--------------------------- MODULE PositionProofs ---------------------------
(***************************************************************************)
(* Theorems about Position: the order that the references of a formula are *)
(* sorted by, and the correspondence of names and positions.               *)
(***************************************************************************)
EXTENDS Position, TLAPS

Positions == [row : Int, col : Int]

\* The last comparison of operator< adds this->row on both sides, which leaves
\* the order of the columns: operator< is by column, then by row.
THEOREM ColumnFirst ==
  ASSUME NEW p \in Positions, NEW q \in Positions
  PROVE  PosLess(p, q) <=> (p.col < q.col \/ (p.col = q.col /\ p.row < q.row))
BY SMT DEF PosLess, Positions

\* operator< is a strict total order, as set<Position> needs: UpdateRefs loses
\* no reference of a formula and lists none twice.
THEOREM StrictTotalOrder ==
  /\ \A p \in Positions : ~PosLess(p, p)
  /\ \A p, q, r \in Positions : PosLess(p, q) /\ PosLess(q, r) => PosLess(p, r)
  /\ \A p, q \in Positions : p = q \/ PosLess(p, q) \/ PosLess(q, p)
<1>1. \A p \in Positions : ~PosLess(p, p)
  BY ColumnFirst DEF Positions
<1>2. \A p, q, r \in Positions : PosLess(p, q) /\ PosLess(q, r) => PosLess(p, r)
  BY ColumnFirst DEF Positions
<1>3. \A p, q \in Positions : p = q \/ PosLess(p, q) \/ PosLess(q, p)
  BY ColumnFirst DEF Positions
<1>. QED BY <1>1, <1>2, <1>3

\* The letters of a column of the table are one to three, and give the column
\* back.
LEMMA LettersRoundTrip ==
  ASSUME NEW col \in 0 .. kMaxCols - 1
  PROVE  /\ Len(ToLetters(col)) \in 1 .. 3
         /\ FromLetters(ToLetters(col)) = col
<1>1. CASE col < 26
  BY <1>1 DEF ToLetters, FromLetters, kMaxCols
<1>2. CASE col \in 26 .. 701
  <2> PICK n \in Int : n = col - 26
    BY DEF kMaxCols
  <2>1. n = 26 * (n \div 26) + (n % 26)
    OBVIOUS
  <2>. QED BY <1>2, <2>1 DEF ToLetters, FromLetters
<1>3. CASE col >= 702
  <2> PICK n \in Int : n = col - 702
    BY DEF kMaxCols
  <2>1. n = 676 * (n \div 676) + (n % 676) /\ n \div 676 \in Int /\ n % 676 \in Int
    OBVIOUS
  <2>2. n % 676 = 26 * ((n % 676) \div 26) + ((n % 676) % 26)
    BY <2>1
  <2>. QED BY <1>3, <2>1, <2>2 DEF ToLetters, FromLetters, kMaxCols
<1>. QED BY <1>1, <1>2, <1>3 DEF kMaxCols

\* The number of a row of the table fits an int and gives the row back.
LEMMA NumberRoundTrip ==
  ASSUME NEW row \in 0 .. kMaxRows - 1
  PROVE  row + 1 # Overlong /\ (row + 1) - 1 = row
BY DEF Overlong, kMaxRows

\* Every position of the table is printed as a name that reads back as that
\* position: a formula that is printed and entered again names the same cells.
THEOREM NamesRoundTrip ==
  \A p \in [row : 0 .. kMaxRows - 1, col : 0 .. kMaxCols - 1] : RoundTrip(p)
<1> SUFFICES ASSUME NEW p \in [row : 0 .. kMaxRows - 1, col : 0 .. kMaxCols - 1]
             PROVE  RoundTrip(p)
  OBVIOUS
<1>1. Len(ToLetters(p.col)) \in 1 .. 3 /\ FromLetters(ToLetters(p.col)) = p.col
  BY LettersRoundTrip
<1>2. p.row + 1 # Overlong /\ (p.row + 1) - 1 = p.row
  BY NumberRoundTrip
<1>3. FromName(ToName(p)) = At(p.row, p.col)
  BY <1>1, <1>2 DEF ToName, FromName
<1>. QED BY <1>3 DEF RoundTrip, At
=============================================================================

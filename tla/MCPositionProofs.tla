-------------------------- MODULE MCPositionProofs --------------------------
(***************************************************************************)
(* The counter of MCPosition goes through all names of one to three        *)
(* letters, so what it says of each state it says of each name of a column *)
(* or a cell: its two invariants for all of them, by arithmetic.           *)
(***************************************************************************)
EXTENDS MCPosition, PositionProofs

\* A name of one to three letters and the column it stands for.
One(a) == letters = <<a>> /\ column = a
Two(a, b) == letters = <<a, b>> /\ column = 26 * a + b + 26
Three(a, b, c) == letters = <<a, b, c>> /\ column = 676 * a + 26 * b + c + 702

Counting ==
  \/ \E a \in Letter : One(a)
  \/ \E a, b \in Letter : Two(a, b)
  \/ \E a, b, c \in Letter : Three(a, b, c)

-----------------------------------------------------------------------------
(* The name after a name: it has one letter more, or the letter k goes up. *)

LEMMA AfterAllZ ==
  ASSUME NEW s \in Seq(Letter), \A i \in 1 .. Len(s) : s[i] = 25
  PROVE  NameAfter(s) = [i \in 1 .. Len(s) + 1 |-> 0]
BY DEF NameAfter

LEMMA LetterGoesUp ==
  ASSUME NEW s \in Seq(Letter), NEW k \in 1 .. Len(s), s[k] # 25,
         \A j \in 1 .. Len(s) : j > k => s[j] = 25
  PROVE  NameAfter(s) = [i \in 1 .. Len(s) |->
                           IF i < k THEN s[i] ELSE IF i = k THEN s[i] + 1 ELSE 0]
<1>1. (CHOOSE i \in DOMAIN s : s[i] # 25 /\ \A j \in DOMAIN s : j > i => s[j] = 25) = k
  <2>1. \A i \in 1 .. Len(s) : (s[i] # 25 /\ \A j \in 1 .. Len(s) : j > i => s[j] = 25) => i = k
    OBVIOUS
  <2>. QED BY <2>1
<1>2. ~\A i \in DOMAIN s : s[i] = 25
  OBVIOUS
<1>. QED BY <1>1, <1>2 DEF NameAfter

LEMMA AfterOne ==
  ASSUME NEW a \in Letter
  PROVE  NameAfter(<<a>>) = IF a = 25 THEN <<0, 0>> ELSE <<a + 1>>
<1>. DEFINE s == <<a>>
<1>0. s \in Seq(Letter) /\ Len(s) = 1 /\ s[1] = a /\ 1 .. 1 = {1}
  OBVIOUS
<1>1. CASE a = 25
  <2>1. NameAfter(s) = [i \in 1 .. 2 |-> 0]
    <3>. HIDE DEF s
    <3>1. NameAfter(s) = [i \in 1 .. Len(s) + 1 |-> 0]
      BY <1>0, <1>1, AfterAllZ
    <3>2. Len(s) + 1 = 2
      BY <1>0
    <3>. QED BY <3>1, <3>2
  <2>2. [i \in 1 .. 2 |-> 0] = <<0, 0>>
    OBVIOUS
  <2>. QED BY <2>1, <2>2, <1>1
<1>2. CASE a # 25
  <2>1. NameAfter(s) = [i \in 1 .. 1 |-> IF i < 1 THEN s[i] ELSE IF i = 1 THEN s[i] + 1 ELSE 0]
    <3>. HIDE DEF s
    <3>. QED BY <1>0, <1>2, LetterGoesUp
  <2>. QED BY <2>1, <1>0, <1>2
<1>. QED BY <1>1, <1>2

LEMMA AfterTwo ==
  ASSUME NEW a \in Letter, NEW b \in Letter
  PROVE  NameAfter(<<a, b>>) = IF b # 25 THEN <<a, b + 1>>
                               ELSE IF a # 25 THEN <<a + 1, 0>> ELSE <<0, 0, 0>>
<1>. DEFINE s == <<a, b>>
<1>0. s \in Seq(Letter) /\ Len(s) = 2 /\ s[1] = a /\ s[2] = b /\ 1 .. 2 = {1, 2}
  OBVIOUS
<1>1. CASE b # 25
  <2>1. NameAfter(s) = [i \in 1 .. 2 |-> IF i < 2 THEN s[i] ELSE IF i = 2 THEN s[i] + 1 ELSE 0]
    <3>. HIDE DEF s
    <3>1. 2 \in 1 .. Len(s) /\ s[2] # 25 /\ \A j \in 1 .. Len(s) : j > 2 => s[j] = 25
      BY <1>0, <1>1
    <3>. QED BY <1>0, <3>1, LetterGoesUp
  <2>2. NameAfter(s) = <<a, b + 1>>
    BY <2>1, <1>0
  <2>. QED BY <2>2, <1>1
<1>2. CASE b = 25 /\ a # 25
  <2>1. NameAfter(s) = [i \in 1 .. 2 |-> IF i < 1 THEN s[i] ELSE IF i = 1 THEN s[i] + 1 ELSE 0]
    <3>. HIDE DEF s
    <3>1. 1 \in 1 .. Len(s) /\ s[1] # 25 /\ \A j \in 1 .. Len(s) : j > 1 => s[j] = 25
      BY <1>0, <1>2
    <3>. QED BY <1>0, <3>1, LetterGoesUp
  <2>2. NameAfter(s) = <<a + 1, 0>>
    BY <2>1, <1>0
  <2>. QED BY <2>2, <1>2
<1>3. CASE b = 25 /\ a = 25
  <2>1. NameAfter(s) = [i \in 1 .. 3 |-> 0]
    <3>. HIDE DEF s
    <3>1. \A i \in 1 .. Len(s) : s[i] = 25
      BY <1>0, <1>3
    <3>2. NameAfter(s) = [i \in 1 .. Len(s) + 1 |-> 0]
      BY <1>0, <3>1, AfterAllZ
    <3>3. Len(s) + 1 = 3
      BY <1>0
    <3>. QED BY <3>2, <3>3
  <2>2. [i \in 1 .. 3 |-> 0] = <<0, 0, 0>>
    OBVIOUS
  <2>. QED BY <2>1, <2>2, <1>3
<1>. QED BY <1>1, <1>2, <1>3

LEMMA AfterThree ==
  ASSUME NEW a \in Letter, NEW b \in Letter, NEW c \in Letter
  PROVE  \/ c # 25 /\ NameAfter(<<a, b, c>>) = <<a, b, c + 1>>
         \/ c = 25 /\ b # 25 /\ NameAfter(<<a, b, c>>) = <<a, b + 1, 0>>
         \/ c = 25 /\ b = 25 /\ a # 25 /\ NameAfter(<<a, b, c>>) = <<a + 1, 0, 0>>
         \/ Len(NameAfter(<<a, b, c>>)) = 4
<1>. DEFINE s == <<a, b, c>>
<1>0. s \in Seq(Letter) /\ Len(s) = 3 /\ s[1] = a /\ s[2] = b /\ s[3] = c /\ 1 .. 3 = {1, 2, 3}
  OBVIOUS
<1>1. CASE c # 25
  <2>1. NameAfter(s) = [i \in 1 .. 3 |-> IF i < 3 THEN s[i] ELSE IF i = 3 THEN s[i] + 1 ELSE 0]
    <3>. HIDE DEF s
    <3>1. 3 \in 1 .. Len(s) /\ s[3] # 25 /\ \A j \in 1 .. Len(s) : j > 3 => s[j] = 25
      BY <1>0, <1>1
    <3>. QED BY <1>0, <3>1, LetterGoesUp
  <2>2. NameAfter(s) = <<a, b, c + 1>>
    BY <2>1, <1>0
  <2>. QED BY <2>2, <1>1
<1>2. CASE c = 25 /\ b # 25
  <2>1. NameAfter(s) = [i \in 1 .. 3 |-> IF i < 2 THEN s[i] ELSE IF i = 2 THEN s[i] + 1 ELSE 0]
    <3>. HIDE DEF s
    <3>1. 2 \in 1 .. Len(s) /\ s[2] # 25 /\ \A j \in 1 .. Len(s) : j > 2 => s[j] = 25
      BY <1>0, <1>2
    <3>. QED BY <1>0, <3>1, LetterGoesUp
  <2>2. NameAfter(s) = <<a, b + 1, 0>>
    BY <2>1, <1>0
  <2>. QED BY <2>2, <1>2
<1>3. CASE c = 25 /\ b = 25 /\ a # 25
  <2>1. NameAfter(s) = [i \in 1 .. 3 |-> IF i < 1 THEN s[i] ELSE IF i = 1 THEN s[i] + 1 ELSE 0]
    <3>. HIDE DEF s
    <3>1. 1 \in 1 .. Len(s) /\ s[1] # 25 /\ \A j \in 1 .. Len(s) : j > 1 => s[j] = 25
      BY <1>0, <1>3
    <3>. QED BY <1>0, <3>1, LetterGoesUp
  <2>2. NameAfter(s) = <<a + 1, 0, 0>>
    BY <2>1, <1>0
  <2>. QED BY <2>2, <1>3
<1>4. CASE c = 25 /\ b = 25 /\ a = 25
  <2>1. NameAfter(s) = [i \in 1 .. 4 |-> 0]
    <3>. HIDE DEF s
    <3>1. \A i \in 1 .. Len(s) : s[i] = 25
      BY <1>0, <1>4
    <3>2. NameAfter(s) = [i \in 1 .. Len(s) + 1 |-> 0]
      BY <1>0, <3>1, AfterAllZ
    <3>3. Len(s) + 1 = 4
      BY <1>0
    <3>. QED BY <3>2, <3>3
  <2>. QED BY <2>1
<1>. QED BY <1>1, <1>2, <1>3, <1>4

\* The name after a name stands for the next column.
LEMMA CountKeeps == Counting /\ [Count]_<<column, letters>> => Counting'
<1> SUFFICES ASSUME Counting, Count PROVE Counting'
  BY DEF Counting, One, Two, Three
<1>0. letters' = NameAfter(letters) /\ column' = column + 1 /\ Len(letters') <= 3
  BY DEF Count
<1>1. ASSUME NEW a \in Letter, One(a) PROVE Counting'
  <2>0. letters' = (IF a = 25 THEN <<0, 0>> ELSE <<a + 1>>) /\ column = a
    BY <1>0, <1>1, AfterOne DEF One
  <2>1. CASE a = 25
    <3>1. Two(0, 0)' /\ 0 \in Letter
      BY <1>0, <2>0, <2>1 DEF Two, Letter
    <3>. QED BY <3>1 DEF Counting
  <2>2. CASE a # 25
    <3>1. One(a + 1)' /\ a + 1 \in Letter
      BY <1>0, <2>0, <2>2 DEF One, Letter
    <3>. QED BY <3>1 DEF Counting
  <2>. QED BY <2>1, <2>2
<1>2. ASSUME NEW a \in Letter, NEW b \in Letter, Two(a, b) PROVE Counting'
  <2>0. /\ letters' = (IF b # 25 THEN <<a, b + 1>>
                       ELSE IF a # 25 THEN <<a + 1, 0>> ELSE <<0, 0, 0>>)
        /\ column = 26 * a + b + 26
    BY <1>0, <1>2, AfterTwo DEF Two
  <2>1. CASE b # 25
    <3>1. Two(a, b + 1)' /\ b + 1 \in Letter
      BY <1>0, <2>0, <2>1 DEF Two, Letter
    <3>. QED BY <3>1 DEF Counting
  <2>2. CASE b = 25 /\ a # 25
    <3>1. Two(a + 1, 0)' /\ a + 1 \in Letter /\ 0 \in Letter
      BY <1>0, <2>0, <2>2 DEF Two, Letter
    <3>. QED BY <3>1 DEF Counting
  <2>3. CASE b = 25 /\ a = 25
    <3>1. Three(0, 0, 0)' /\ 0 \in Letter
      BY <1>0, <2>0, <2>3 DEF Three, Letter
    <3>. QED BY <3>1 DEF Counting
  <2>. QED BY <2>1, <2>2, <2>3
<1>3. ASSUME NEW a \in Letter, NEW b \in Letter, NEW c \in Letter, Three(a, b, c)
      PROVE  Counting'
  <2>0. letters = <<a, b, c>> /\ column = 676 * a + 26 * b + c + 702
    BY <1>3 DEF Three
  <2>1. CASE c # 25 /\ letters' = <<a, b, c + 1>>
    <3>1. Three(a, b, c + 1)' /\ c + 1 \in Letter
      BY <1>0, <2>0, <2>1 DEF Three, Letter
    <3>. QED BY <3>1 DEF Counting
  <2>2. CASE c = 25 /\ b # 25 /\ letters' = <<a, b + 1, 0>>
    <3>1. Three(a, b + 1, 0)' /\ b + 1 \in Letter /\ 0 \in Letter
      BY <1>0, <2>0, <2>2 DEF Three, Letter
    <3>. QED BY <3>1 DEF Counting
  <2>3. CASE c = 25 /\ b = 25 /\ a # 25 /\ letters' = <<a + 1, 0, 0>>
    <3>1. Three(a + 1, 0, 0)' /\ a + 1 \in Letter /\ 0 \in Letter
      BY <1>0, <2>0, <2>3 DEF Three, Letter
    <3>. QED BY <3>1 DEF Counting
  <2>. QED BY <1>0, <2>0, <2>1, <2>2, <2>3, AfterThree
<1>. QED BY <1>1, <1>2, <1>3 DEF Counting

LEMMA CountingInvariance == Spec => []Counting
<1>1. Init => Counting
  <2>1. Init => One(0) /\ 0 \in Letter
    BY DEF Init, One, Letter
  <2>. QED BY <2>1 DEF Counting
<1>. QED BY <1>1, CountKeeps, PTL DEF Spec

-----------------------------------------------------------------------------
(* What a name of the counter prints and reads as.                         *)

\* FromString computes the column that the name stands for.
LEMMA LettersAreRead ==
  Counting => Len(letters) \in 1 .. 3 /\ column \in Nat /\ FromLetters(letters) = column
<1> SUFFICES ASSUME Counting
             PROVE  Len(letters) \in 1 .. 3 /\ column \in Nat /\ FromLetters(letters) = column
  OBVIOUS
<1>1. CASE \E a \in Letter : One(a)
  BY <1>1 DEF One, Letter, FromLetters
<1>2. CASE \E a, b \in Letter : Two(a, b)
  BY <1>2 DEF Two, Letter, FromLetters
<1>3. CASE \E a, b, c \in Letter : Three(a, b, c)
  BY <1>3 DEF Three, Letter, FromLetters
<1>. QED BY <1>1, <1>2, <1>3 DEF Counting

\* ToString prints it.
LEMMA LettersArePrinted == Counting => ToLetters(column) = letters
<1> SUFFICES ASSUME Counting PROVE ToLetters(column) = letters
  OBVIOUS
<1>1. CASE \E a \in Letter : One(a)
  BY <1>1 DEF One, Letter, ToLetters
<1>2. CASE \E a, b \in Letter : Two(a, b)
  BY <1>2 DEF Two, Letter, ToLetters
<1>3. CASE \E a, b, c \in Letter : Three(a, b, c)
  <2> PICK a, b, c \in Letter : Three(a, b, c)
    BY <1>3
  <2>1. letters = <<a, b, c>> /\ column - 702 = 676 * a + (26 * b + c) /\ column >= 702
    BY DEF Three, Letter
  <2>2. (column - 702) \div 676 = a /\ (column - 702) % 676 = 26 * b + c
    BY <2>1 DEF Letter
  <2>3. (26 * b + c) \div 26 = b /\ (26 * b + c) % 26 = c
    BY DEF Letter
  <2>4. ToLetters(column) = <<(column - 702) \div 676, ((column - 702) % 676) \div 26,
                              ((column - 702) % 676) % 26>>
    BY <2>1 DEF ToLetters, Three, Letter
  <2>. QED BY <2>1, <2>2, <2>3, <2>4
<1>. QED BY <1>1, <1>2, <1>3 DEF Counting

LEMMA BelowIsInRange == \A k \in Int : \A c \in Nat : c < k => c \in 0 .. k - 1
OBVIOUS

\* ToString prints for every column the letters that the head of the table has
\* there, and FromString reads them back: the three branches of both meet.
THEOREM HeadsAreNames == Spec => []NamesAreTheHeads
<1>1. Counting => NamesAreTheHeads
  <2> SUFFICES ASSUME Counting, column < kMaxCols
               PROVE  /\ ToLetters(column) = letters
                      /\ \A row \in {0, kMaxRows - 1} : RoundTrip(At(row, column))
    BY DEF NamesAreTheHeads
  <2>1. ToLetters(column) = letters
    BY LettersArePrinted
  <2>2. column \in Nat
    BY LettersAreRead, Zenon
  <2>3. column \in 0 .. kMaxCols - 1
    <3>1. kMaxCols \in Int
      BY DEF kMaxCols
    <3>. QED BY <2>2, <3>1, BelowIsInRange, Zenon
  <2>4. ASSUME NEW row \in {0, kMaxRows - 1} PROVE RoundTrip(At(row, column))
    <3>1. row \in 0 .. kMaxRows - 1
      BY DEF kMaxRows
    <3>2. At(row, column) \in [row : 0 .. kMaxRows - 1, col : 0 .. kMaxCols - 1]
      BY <2>3, <3>1 DEF At
    <3>. QED BY <3>2, NamesRoundTrip
  <2>. QED BY <2>1, <2>4
<1>. QED BY <1>1, CountingInvariance, PTL

\* A name of one to three letters with a number is a valid position exactly
\* when the column and the row are in the table, and then it is that one.
THEOREM OnlyCellsAreValid == Spec => []OnlyTheTableIsValid
<1>1. Counting => OnlyTheTableIsValid
  <2> SUFFICES ASSUME Counting, NEW n \in RowNumbers
               PROVE  LET p == FromName([letters |-> letters, number |-> n])
                      IN  IF column < kMaxCols /\ n \in 1 .. kMaxRows
                          THEN IsValid(p) /\ p = At(n - 1, column)
                          ELSE ~IsValid(p)
    BY DEF OnlyTheTableIsValid
  <2>. DEFINE p == FromName([letters |-> letters, number |-> n])
  <2>1. p = At((IF n = Overlong THEN 0 ELSE n) - 1, column) /\ column \in Nat
    BY LettersAreRead DEF FromName
  <2>2. n \in Int
    BY DEF RowNumbers, kMaxRows, Overlong
  <2>3. p.col = column /\ p.row = (IF n = Overlong THEN 0 ELSE n) - 1
    BY <2>1 DEF At
  <2>. HIDE DEF p
  <2>4. ASSUME column < kMaxCols, n \in 1 .. kMaxRows
        PROVE  IsValid(p) /\ p = At(n - 1, column)
    <3>1. n # Overlong
      BY <2>4 DEF Overlong, kMaxRows
    <3>2. p.col = column /\ p.row = n - 1
      BY <2>3, <3>1
    <3>3. p = At(n - 1, column)
      BY <2>1, <3>1
    <3>. QED BY <2>1, <2>4, <3>2, <3>3 DEF IsValid, kMaxRows, kMaxCols
  <2>5. ASSUME ~(column < kMaxCols /\ n \in 1 .. kMaxRows)
        PROVE  ~IsValid(p)
    BY <2>1, <2>2, <2>3, <2>5 DEF IsValid, Overlong, kMaxRows, kMaxCols
  <2>. QED BY <2>4, <2>5 DEF p
<1>. QED BY <1>1, CountingInvariance, PTL
=============================================================================

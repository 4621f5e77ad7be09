--------------------------- MODULE ReferencesProofs ---------------------------
(***************************************************************************)
(* Lemmas about the operators of References, for every reference and every *)
(* range of rows or columns.                                               *)
(***************************************************************************)
EXTENDS References, TLAPS

Reference == [row : Int, col : Int]

\* A coordinate of a reference is a number.
LEMMA Coordinate ==
  ASSUME NEW p \in Reference, NEW axis \in Axis
  PROVE  p[axis] \in Int
BY DEF Reference, Axis

\* A reference with one coordinate changed.
LEMMA Except ==
  ASSUME NEW p \in Reference, NEW axis \in Axis, NEW n \in Int
  PROVE  /\ [p EXCEPT ![axis] = n] \in Reference
         /\ [p EXCEPT ![axis] = n][axis] = n
         /\ \A other \in Axis : other # axis => [p EXCEPT ![axis] = n][other] = p[other]
BY DEF Reference, Axis

\* Two references with the same coordinates are the same.
LEMMA Same ==
  ASSUME NEW p \in Reference, NEW q \in Reference, \A axis \in Axis : p[axis] = q[axis]
  PROVE  p = q
BY DEF Reference, Axis

\* What an insertion does to a reference.
LEMMA InsertedFacts ==
  ASSUME NEW p \in Reference, NEW axis \in Axis, NEW before \in Nat, NEW count \in Nat \ {0}
  PROVE  /\ Inserted(p, axis, before, count) \in Reference
         /\ \A other \in Axis : other # axis => Inserted(p, axis, before, count)[other] = p[other]
         /\ Inserted(p, axis, before, count)[axis] =
              IF p[axis] >= before THEN p[axis] + count ELSE p[axis]
<1>1. p[axis] \in Int
  BY Coordinate
<1>2. CASE p[axis] >= before
  <2> PICK n \in Int : n = p[axis] + count
    BY <1>1
  <2>1. Inserted(p, axis, before, count) = [p EXCEPT ![axis] = n]
    BY <1>2 DEF Inserted, Beyond
  <2> DEFINE q == [p EXCEPT ![axis] = n]
  <2>2. q \in Reference /\ q[axis] = n /\ \A other \in Axis : other # axis => q[other] = p[other]
    BY Except
  <2> HIDE DEF q
  <2>3. Inserted(p, axis, before, count) = q
    BY <2>1 DEF q
  <2>. QED BY <1>2, <2>2, <2>3
<1>3. CASE ~(p[axis] >= before)
  BY <1>3 DEF Inserted, Beyond
<1>. QED BY <1>2, <1>3

\* What a deletion does to a reference.
LEMMA RemovedFacts ==
  ASSUME NEW p \in Reference, NEW axis \in Axis, NEW first \in Nat, NEW count \in Nat \ {0}
  PROVE  /\ Removed(p, axis, first, count) \in Reference
         /\ Within(p, axis, first, count) => Removed(p, axis, first, count) = Deleted
         /\ ~Within(p, axis, first, count) =>
              /\ \A other \in Axis : other # axis => Removed(p, axis, first, count)[other] = p[other]
              /\ Removed(p, axis, first, count)[axis] =
                   IF p[axis] >= first + count THEN p[axis] - count ELSE p[axis]
<1>1. p[axis] \in Int
  BY Coordinate
<1>2. CASE Within(p, axis, first, count)
  BY <1>2 DEF Removed, Deleted, At, Reference
<1>3. CASE ~Within(p, axis, first, count) /\ p[axis] >= first + count
  <2> PICK n \in Int : n = p[axis] - count
    BY <1>1
  <2>1. p[axis] > first + count - 1
    BY <1>1, <1>3
  <2>2. Removed(p, axis, first, count) = [p EXCEPT ![axis] = n]
    BY <1>3, <2>1 DEF Removed
  <2> DEFINE q == [p EXCEPT ![axis] = n]
  <2>3. q \in Reference /\ q[axis] = n /\ \A other \in Axis : other # axis => q[other] = p[other]
    BY Except
  <2> HIDE DEF q
  <2>4. Removed(p, axis, first, count) = q
    BY <2>2 DEF q
  <2>. QED BY <1>3, <2>3, <2>4
<1>4. CASE ~Within(p, axis, first, count) /\ ~(p[axis] >= first + count)
  <2>1. ~(p[axis] > first + count - 1)
    BY <1>1, <1>4
  <2>. QED BY <1>4, <2>1 DEF Removed
<1>. QED BY <1>2, <1>3, <1>4

\* A function on the indices of a formula's statements is such a sequence.
LEMMA MapIsSeq ==
  ASSUME NEW s \in Seq(Reference), NEW f, f = [i \in DOMAIN s |-> f[i]],
         \A i \in DOMAIN s : f[i] \in Reference
  PROVE  f \in Seq(Reference) /\ DOMAIN f = DOMAIN s
<1>1. DOMAIN s = 1 .. Len(s) /\ Len(s) \in Nat
  OBVIOUS
<1>2. f \in [1 .. Len(s) -> Reference]
  BY <1>1
<1>. QED BY <1>1, <1>2

-----------------------------------------------------------------------------
\* The positions listed are positions of the table.
LEMMA RefsInTable ==
  ASSUME NEW s \in Seq(Reference)
  PROVE  UpdateRefs(s) \subseteq {p \in [row : Nat, col : Nat] : IsValid(p)}
<1> SUFFICES ASSUME NEW i \in DOMAIN s, IsValid(s[i])
             PROVE  s[i] \in [row : Nat, col : Nat]
  BY DEF UpdateRefs
<1>1. s[i] \in Reference
  OBVIOUS
<1>2. s[i].row \in Nat /\ s[i].col \in Nat
  BY <1>1 DEF IsValid, Reference
<1>. QED BY <1>1, <1>2 DEF Reference

\* The sequences after each kind of call.
LEMMA CallsKeepSeq ==
  ASSUME NEW s \in Seq(Reference), NEW axis \in Axis, NEW index \in Nat, NEW count \in Nat \ {0}
  PROVE  /\ InsertedAll(s, axis, index, count) \in Seq(Reference)
         /\ RemovedAll(s, axis, index, count) \in Seq(Reference)
<1>1. \A i \in DOMAIN s : Inserted(s[i], axis, index, count) \in Reference
  BY InsertedFacts
<1>2. \A i \in DOMAIN s : Removed(s[i], axis, index, count) \in Reference
  BY RemovedFacts
<1>. QED BY <1>1, <1>2, MapIsSeq DEF InsertedAll, RemovedAll

\* A call that moves no reference leaves the expression as it is.
LEMMA NothingMoves ==
  ASSUME NEW s \in Seq(Reference), NEW axis \in Axis, NEW index \in Nat, NEW count \in Nat \ {0}
  PROVE  /\ (\A i \in DOMAIN s : ~Beyond(s[i], axis, index))
              => InsertedAll(s, axis, index, count) = s
         /\ (\A i \in DOMAIN s : /\ ~Within(s[i], axis, index, count)
                                  /\ ~Beyond(s[i], axis, index + count))
              => RemovedAll(s, axis, index, count) = s
<1>1. s = [i \in DOMAIN s |-> s[i]]
  OBVIOUS
<1>2. ASSUME NEW p \in Reference, ~Beyond(p, axis, index)
      PROVE  Inserted(p, axis, index, count) = p
  BY <1>2 DEF Inserted
<1>3. ASSUME NEW p \in Reference, ~Within(p, axis, index, count), ~Beyond(p, axis, index + count)
      PROVE  Removed(p, axis, index, count) = p
  <2>1. p[axis] \in Int
    BY Coordinate
  <2>2. ~(p[axis] > index + count - 1)
    BY <1>3, <2>1 DEF Beyond
  <2>. QED BY <1>3, <2>2 DEF Removed
<1>4. \A i \in DOMAIN s : s[i] \in Reference
  OBVIOUS
<1>. QED BY <1>1, <1>2, <1>3, <1>4 DEF InsertedAll, RemovedAll
=============================================================================

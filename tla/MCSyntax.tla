------------------------------ MODULE MCSyntax ------------------------------
(* Texts of up to eleven tokens, made from the parse trees that the        *)
(* grammar allows: every operator next to every operator, with and without *)
(* parentheses between them.                                               *)
EXTENDS Syntax

CONSTANTS a, b,                    \* cells
          half, sixDigits, huge    \* literals: .5, 0.500000, 1e1000

MCCells == {a, b}
MCLiterals == {half, sixDigits, huge}
MCOverflowing == {huge}

\* to_string prints six decimals.
MCShown == [l \in {half, sixDigits} |-> sixDigits]

\* The literals with what the two cells may hold.
Reading(x, y) ==
  [l \in MCCells \cup {half, sixDigits} |->
     IF l = a THEN x ELSE IF l = b THEN y ELSE Fraction(1, 2)]

MCReadings ==
  { Reading(Fraction(3, 1), Fraction(5, 1)), Reading(Fraction(-3, 1), Fraction(5, 2)),
    Reading(Fraction(0, 1), Value), Reading(Value, Div0) }

-----------------------------------------------------------------------------
(* Parse trees.                                                            *)

Atoms == {Operand(a), Operand(b)}
Pairs(ops) == {Binary(op, x, y) : op \in ops, x \in {Operand(a)}, y \in {Operand(b), Operand(half)}}
Bracketed(S) == {Parens(x) : x \in S}
Signed(S) == {Unary(op, x) : op \in Sign, x \in S}

\* What may stand next to * and /.
Sums == Bracketed(Pairs(Sign))
Products == Bracketed(Pairs(Times))
Tight == Atoms \cup Sums \cup Products \cup Signed(Atoms \cup Sums \cup Products)
           \cup Bracketed(Atoms \cup Signed(Atoms \cup Products))

\* What may stand next to + and -.
Loose == Tight \cup Pairs(Times)

\* A division by a signed product in parentheses is printed as a division and
\* a multiplication.
Divisors == Tight \ (Signed(Products) \cup Bracketed(Signed(Products)))

Chains(divisors) ==
  {Binary("*", x, y) : x \in Loose, y \in Tight}
    \cup {Binary("/", x, y) : x \in Loose, y \in divisors}
    \cup {Binary(op, x, y) : op \in Sign, x \in Loose \cup Pairs(Sign), y \in Loose}
    \cup {Unary(op, x) : op \in Sign, x \in Tight}
    \cup Tight

ShapeTexts == {Formula(t) : t \in Chains(Divisors)}

\* Literals that overflow, none of them after another operand.
OverflowTexts == {<<huge>>, <<"-", huge>>, <<huge, "+", a>>}

AllTexts == ShapeTexts \cup OverflowTexts

-----------------------------------------------------------------------------
(* The texts of the other run.                                             *)

\* The divisors that Divisors leaves out.
DivisorTexts == {Formula(t) : t \in {Binary("/", Operand(a), y) : y \in Signed(Products)}}
=============================================================================

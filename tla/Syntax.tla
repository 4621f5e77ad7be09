------------------------------- MODULE Syntax -------------------------------
(***************************************************************************)
(* From the text of a formula to its syntax tree and back: ParseFormula,   *)
(* the listener that builds the tree from the parser's exit events, the    *)
(* statements' Execute and Formula.                                        *)
(*                                                                         *)
(* A text is a sequence of tokens: operands (literals and cells) and the   *)
(* strings "+", "-", "*", "/", "(" and ")".  The listener is static: what  *)
(* one call leaves in it is there in the next.                             *)
(***************************************************************************)
EXTENDS Integers, Sequences, FiniteSetsExt, SequencesExt

CONSTANTS
  Literals,     \* numbers as they can be written
  Overflowing,  \* the literals that no double holds: stod throws out_of_range
  Shown,        \* Shown[l]: the literal that LiteralStatement::Formula prints
  Cells,        \* the cells
  Readings,     \* what the operands may be worth: functions to numbers or errors
  Texts         \* what is parsed: texts of the grammar

ASSUME SyntaxAssumption ==
  /\ Overflowing \subseteq Literals
  /\ Shown \in [Literals \ Overflowing -> Literals \ Overflowing]
  /\ Literals \cap Cells = {}

Sign == {"+", "-"}
Times == {"*", "/"}

\* A literal or a cell; a CellStatement has an address, by which it is renamed.
Operand(x) == [kind |-> "operand", name |-> x, address |-> 0]
Unary(op, s) == [kind |-> "unary", op |-> op, arg |-> s]
Binary(op, l, r) == [kind |-> "binary", op |-> op, lhs |-> l, rhs |-> r]
Parens(s) == [kind |-> "parens", arg |-> s]
Main == [kind |-> "main"]
NullPtr == [kind |-> "null"]

-----------------------------------------------------------------------------
(* The grammar: unary operators bind tightest, then * and /, then + and -, *)
(* from left to right.                                                     *)

Depth(s, i) ==
  Cardinality({j \in 1 .. i : s[j] = "("}) - Cardinality({j \in 1 .. i : s[j] = ")"})

\* Where a binary operator outside of parentheses stands: after an operand.
BinaryAt(s, ops) ==
  {i \in 2 .. Len(s) : s[i] \in ops /\ Depth(s, i) = 0
                       /\ s[i - 1] \notin Sign \cup Times \cup {"("}}

RECURSIVE Parse(_)
Parse(s) ==
  LET split(i) == Binary(s[i], Parse(SubSeq(s, 1, i - 1)), Parse(SubSeq(s, i + 1, Len(s))))
  IN  IF BinaryAt(s, Sign) # {} THEN split(Max(BinaryAt(s, Sign)))
      ELSE IF BinaryAt(s, Times) # {} THEN split(Max(BinaryAt(s, Times)))
      ELSE IF s[1] \in Sign THEN Unary(s[1], Parse(Tail(s)))
      ELSE IF s[1] = "(" THEN Parens(Parse(SubSeq(s, 2, Len(s) - 1)))
      ELSE Operand(s[1])

\* The order in which the walker leaves the nodes of a parse tree.
RECURSIVE Exits(_)
Exits(t) ==
  (CASE t.kind = "operand" -> <<>>
     [] t.kind = "binary" -> Exits(t.lhs) \o Exits(t.rhs)
     [] OTHER -> Exits(t.arg)) \o <<t>>

-----------------------------------------------------------------------------
(* Statements.                                                             *)

\* Mutant: the argument of a unary operator is printed in parentheses.
RECURSIVE FormulaBracketed(_)
FormulaBracketed(s) ==
  CASE s.kind = "operand" -> <<IF s.name \in Cells THEN s.name ELSE Shown[s.name]>>
    [] s.kind = "unary" -> <<s.op, "(">> \o FormulaBracketed(s.arg) \o <<")">>
    [] s.kind = "binary" -> FormulaBracketed(s.lhs) \o <<s.op>> \o FormulaBracketed(s.rhs)
    [] s.kind = "parens" -> <<"(">> \o FormulaBracketed(s.arg) \o <<")">>

\* The printed text.
RECURSIVE Formula(_)
Formula(s) ==
  CASE s.kind = "operand" -> <<IF s.name \in Cells THEN s.name ELSE Shown[s.name]>>
    [] s.kind = "unary" -> <<s.op>> \o Formula(s.arg)
    [] s.kind = "binary" -> Formula(s.lhs) \o <<s.op>> \o Formula(s.rhs)
    [] s.kind = "parens" -> <<"(">> \o Formula(s.arg) \o <<")">>

\* The CellStatements of a tree, in the order of its text.
RECURSIVE CellStatements(_)
CellStatements(s) ==
  CASE s.kind = "operand" -> IF s.name \in Cells THEN <<s>> ELSE <<>>
    [] s.kind = "binary" -> CellStatements(s.lhs) \o CellStatements(s.rhs)
    [] OTHER -> CellStatements(s.arg)

(* Numbers are exact fractions; an error is a fraction over zero.          *)
Fraction(n, d) == [n |-> n, d |-> d]
Div0 == Fraction(1, 0)
Value == Fraction(2, 0)
IsError(v) == v.d = 0
SameValue(v, w) == IF IsError(v) \/ IsError(w) THEN v = w ELSE v.n * w.d = w.n * v.d

\* The operations; every divisor that is not positive is an error.
Apply(op, l, r) ==
  CASE op = "+" -> Fraction(l.n * r.d + r.n * l.d, l.d * r.d)
    [] op = "-" -> Fraction(l.n * r.d - r.n * l.d, l.d * r.d)
    [] op = "*" -> Fraction(l.n * r.n, l.d * r.d)
    [] op = "/" -> IF r.n <= 0 THEN Div0 ELSE Fraction(l.n * r.d, l.d * r.n)

RECURSIVE Execute(_, _)
Execute(s, reading) ==
  CASE s.kind = "operand" -> reading[s.name]
    [] s.kind = "parens" -> Execute(s.arg, reading)
    [] s.kind = "unary" ->
         LET v == Execute(s.arg, reading)
         IN  IF IsError(v) \/ s.op = "+" THEN v ELSE Fraction(-v.n, v.d)
    [] s.kind = "binary" ->
         LET l == Execute(s.lhs, reading)
             r == Execute(s.rhs, reading)
         IN  IF IsError(l) THEN l ELSE IF IsError(r) THEN r ELSE Apply(s.op, l, r)

-----------------------------------------------------------------------------
(* The listener: which parentheses it drops, and what each exit does to    *)
(* its stack of statements.                                                *)

IsBinary(s, ops) == s.kind = "binary" /\ s.op \in ops

\* What becomes of a statement as the argument of a unary operator.
Argument(s) == IF s.kind = "parens" /\ IsBinary(s.arg, Times) THEN s.arg ELSE s

\* As the left operand of op.
Left(op, s) ==
  IF s.kind = "parens" /\ ~(op \in Times /\ IsBinary(s.arg, Sign)) THEN s.arg ELSE s

\* Mutant: subtraction is taken for addition.
RightOfSum(op, s) ==
  IF /\ s.kind = "parens"
     /\ \/ op \in Sign
        \/ op = "*" /\ ~IsBinary(s.arg, Sign)
        \/ op = "/" /\ s.arg.kind = "operand"
  THEN s.arg ELSE s

\* As its right operand.
Right(op, s) ==
  IF /\ s.kind = "parens"
     /\ \/ op = "+"
        \/ op \in {"-", "*"} /\ ~IsBinary(s.arg, Sign)
        \/ op = "/" /\ s.arg.kind = "operand"
  THEN s.arg ELSE s

Pop(stack, n) == SubSeq(stack, 1, Len(stack) - n)

\* Mutant: the operands are popped in the wrong order.
AfterSwapped(stack, t) ==
  LET top == Last(stack)
  IN  CASE t.kind = "operand" -> Append(stack, t)
        [] t.kind = "unary" -> Append(Pop(stack, 1), Unary(t.op, Argument(top)))
        [] t.kind = "parens" ->
             IF top.kind \in {"operand", "unary"} THEN stack ELSE Append(Pop(stack, 1), Parens(top))
        [] t.kind = "binary" ->
             Append(Pop(stack, 2),
                    Binary(t.op, Left(t.op, top), Right(t.op, stack[Len(stack) - 1])))

\* The stack after exitLiteral, exitCell, exitUnaryOp, exitParens, exitBinaryOp.
After(stack, t) ==
  LET top == Last(stack)
  IN  CASE t.kind = "operand" -> Append(stack, t)
        [] t.kind = "unary" -> Append(Pop(stack, 1), Unary(t.op, Argument(top)))
        [] t.kind = "parens" ->
             IF top.kind \in {"operand", "unary"} THEN stack ELSE Append(Pop(stack, 1), Parens(top))
        [] t.kind = "binary" ->
             Append(Pop(stack, 2),
                    Binary(t.op, Left(t.op, stack[Len(stack) - 1]), Right(t.op, top)))

-----------------------------------------------------------------------------
VARIABLES
  lastStatements, rootStatement,  \* the members of the static listener,
  referencedPtrs,                 \* the last one as the addresses it holds
  entered,                        \* the parse tree of the text being parsed
  exits,                          \* the nodes still to be left, Main last
  formula,                        \* the formula a call returns
  outcome                         \* how the last call ended

listener == <<lastStatements, rootStatement, referencedPtrs>>
vars == <<listener, entered, exits, formula, outcome>>

NoFormula == [root |-> NullPtr, refs |-> <<>>]

Init ==
  /\ lastStatements = <<>> /\ rootStatement = NullPtr /\ referencedPtrs = <<>>
  /\ entered = NullPtr /\ exits = <<>>
  /\ formula = NoFormula
  /\ outcome = "None"

\* The parser accepts the text, and the walk over its tree begins.
ParseFormula(text) ==
  /\ outcome \notin {"Parsing", "Parsed"}
  /\ entered' = Parse(text)
  /\ exits' = Append(Exits(entered'), Main)
  /\ outcome' = "Parsing"
  /\ UNCHANGED <<listener, formula>>

\* For any other text the error listener throws before the walk begins.
RejectText ==
  /\ outcome \notin {"Parsing", "Parsed"}
  /\ outcome' = "FormulaException"
  /\ UNCHANGED <<listener, entered, exits, formula>>

Leaving(kinds) == exits # <<>> /\ Head(exits).kind \in kinds

ExitLiteral ==
  /\ Leaving({"operand"}) /\ Head(exits).name \in Literals \ Overflowing
  /\ lastStatements' = After(lastStatements, Head(exits))
  /\ exits' = Tail(exits)
  /\ UNCHANGED <<rootStatement, referencedPtrs, entered, formula, outcome>>

\* out_of_range passes through the walker and ParseFormula.
ExitLiteralThrows ==
  /\ Leaving({"operand"}) /\ Head(exits).name \in Overflowing
  /\ outcome' = "out_of_range"
  /\ exits' = <<>> /\ entered' = NullPtr
  /\ UNCHANGED <<listener, formula>>

\* make_unique<CellStatement>: an address where no statement of the stack is.
NewCell(x) ==
  LET used == {s.address : s \in UNION {Range(CellStatements(lastStatements[i])) :
                                          i \in DOMAIN lastStatements}}
  IN  [Operand(x) EXCEPT !.address = 1 + Max(used \cup {0})]

\* Mutant: the address is taken after the statement was moved to the stack.
ExitCellMoved ==
  /\ Leaving({"operand"}) /\ Head(exits).name \in Cells
  /\ lastStatements' = After(lastStatements, NewCell(Head(exits).name))
  /\ referencedPtrs' = Append(referencedPtrs, 0)
  /\ exits' = Tail(exits)
  /\ UNCHANGED <<rootStatement, entered, formula, outcome>>

\* Mutant: what goes to the stack is a copy.
ExitCellCopied ==
  /\ Leaving({"operand"}) /\ Head(exits).name \in Cells
  /\ LET s == NewCell(Head(exits).name)
     IN  /\ lastStatements' = After(lastStatements, [s EXCEPT !.address = @ + 1])
         /\ referencedPtrs' = Append(referencedPtrs, s.address)
  /\ exits' = Tail(exits)
  /\ UNCHANGED <<rootStatement, entered, formula, outcome>>

\* The address of the statement is noted, and the stack becomes its owner.
ExitCell ==
  /\ Leaving({"operand"}) /\ Head(exits).name \in Cells
  /\ LET s == NewCell(Head(exits).name)
     IN  /\ lastStatements' = After(lastStatements, s)
         /\ referencedPtrs' = Append(referencedPtrs, s.address)
  /\ exits' = Tail(exits)
  /\ UNCHANGED <<rootStatement, entered, formula, outcome>>

\* exitUnaryOp, exitParens and exitBinaryOp.
ExitOperation ==
  /\ Leaving({"unary", "parens", "binary"})
  /\ lastStatements' = After(lastStatements, Head(exits))
  /\ exits' = Tail(exits)
  /\ UNCHANGED <<rootStatement, referencedPtrs, entered, formula, outcome>>

\* Mutant: the stack is not cleared.
ExitMainKeeps ==
  /\ Leaving({"main"})
  /\ rootStatement' = IF Len(lastStatements) = 1 THEN lastStatements[1] ELSE rootStatement
  /\ exits' = <<>>
  /\ UNCHANGED <<lastStatements, referencedPtrs, entered, formula, outcome>>

ExitMain ==
  /\ Leaving({"main"})
  /\ IF Len(lastStatements) = 1
     THEN lastStatements' = <<>> /\ rootStatement' = lastStatements[1]
     ELSE UNCHANGED <<lastStatements, rootStatement>>
  /\ exits' = <<>>
  /\ UNCHANGED <<referencedPtrs, entered, formula, outcome>>

\* The constructor of Formula moves the tree and the references out.
MakeFormula ==
  /\ outcome = "Parsing" /\ exits = <<>>
  /\ formula' = [root |-> rootStatement, refs |-> referencedPtrs]
  /\ rootStatement' = NullPtr /\ referencedPtrs' = <<>>
  /\ outcome' = "Parsed"
  /\ UNCHANGED <<lastStatements, entered, exits>>

\* The caller keeps the formula.
TakeFormula ==
  /\ outcome = "Parsed"
  /\ outcome' = "None" /\ formula' = NoFormula /\ entered' = NullPtr
  /\ UNCHANGED <<listener, exits>>

Next ==
  \/ \E text \in Texts : ParseFormula(text)
  \/ RejectText
  \/ ExitLiteral \/ ExitLiteralThrows \/ ExitCell \/ ExitOperation \/ ExitMain
  \/ MakeFormula \/ TakeFormula

Spec == Init /\ [][Next]_vars

-----------------------------------------------------------------------------
(* What the sheet relies on.                                               *)

Statements(s) == \A i \in DOMAIN s : s[i].kind \in {"operand", "unary", "binary", "parens"}

TypeOK ==
  /\ Statements(lastStatements)
  /\ referencedPtrs \in Seq(Nat \ {0}) /\ formula.refs \in Seq(Nat \ {0})
  /\ outcome \in {"None", "Parsing", "Parsed", "FormulaException", "out_of_range"}

HasRoot == formula.root # NullPtr

\* Between calls the static listener is empty: no formula inherits statements
\* or references from the one before it (ParseFormula's static Listener).
NothingLeftBehind ==
  outcome # "Parsing" => listener = <<<<>>, NullPtr, <<>>>>

\* The tree the listener builds, from which it has dropped parentheses, is
\* worth what the text that was entered is worth, whatever its cells hold.
TreeMeansText ==
  HasRoot => \A reading \in Readings :
               SameValue(Execute(formula.root, reading), Execute(entered, reading))

\* The printed formula, entered again, is worth the same.  SetCell relies on
\* it: it ignores a text that equals the one the cell prints.
TextKeepsMeaning ==
  HasRoot => LET again == Parse(Formula(formula.root))
             IN  \A reading \in Readings :
                   SameValue(Execute(again, reading), Execute(formula.root, reading))

\* The printed formula, entered again, is printed the same: dropping
\* parentheses once drops all that ever will be.
TextStays ==
  HasRoot => LET again == FoldLeft(After, <<>>, Exits(Parse(Formula(formula.root))))
             IN  Formula(again[1]) = Formula(formula.root)

\* The structural edits rename a formula through the pointers that were taken
\* before its statements went from one owner to the next.  Each still points
\* into the tree: they are its cell statements, all of them, once each and in
\* the order of the text that was entered.
ReferencesFollowText ==
  HasRoot =>
    LET held == CellStatements(formula.root)
        written == CellStatements(entered)
    IN  /\ formula.refs = [i \in DOMAIN held |-> held[i].address]
        /\ [i \in DOMAIN held |-> held[i].name] = [i \in DOMAIN written |-> written[i].name]
=============================================================================
